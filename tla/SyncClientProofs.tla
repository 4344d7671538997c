-------------------------- MODULE SyncClientProofs -------------------------
(***************************************************************************)
(* Proofs about SyncClient, for any number of devices, users and secrets.  *)
(*                                                                         *)
(* The argument rests on one fact about the server: every step that        *)
(* changes a row or the vault key also moves the revision on.  So whatever *)
(* a device learned after reading a revision still holds as long as the    *)
(* server is at that revision; the invariant says, for each point of a     *)
(* command, what that is.                                                  *)
(***************************************************************************)
EXTENDS SyncClient, EnvServerProofs

-----------------------------------------------------------------------------
(* Types *)

(* A device with no command running is well typed.                         *)
LEMMA IdleType ==
    /\ Idle \in Op
    /\ [Idle EXCEPT !.pc = "ack"] \in Op
  BY DEF Idle, Op, Pcs, Commands, NoRows, Absent, Row

(* A row that exists has a content: what makes a push well formed. *)
GoodTable(table) ==
    /\ table \in [Secrets -> Row]
    /\ \A s \in Secrets : table[s].ver > 0 => table[s].val \in Contents

GoodOp(o) == o \in Op /\ GoodTable(o.rows) /\ GoodTable(o.mine)

TypeInv ==
    /\ SyncTypeOK
    /\ GoodTable(secrets)
    /\ \A d \in Devices : GoodTable(local[d]) /\ GoodOp(op[d])

(* A table without rows is good.                                           *)
LEMMA IdleGood == GoodTable(NoRows) /\ GoodOp(Idle)
<1>1. GoodTable(NoRows)
  BY DEF GoodTable, NoRows, Absent, Row
<1>2. Idle.rows = NoRows /\ Idle.mine = NoRows
  BY DEF Idle
<1> QED
  BY <1>1, <1>2, IdleType DEF GoodOp

(* The initial organisation and its devices are well typed.                *)
LEMMA InitSyncType == SyncInit => TypeInv
<1> SUFFICES ASSUME SyncInit PROVE TypeInv
  OBVIOUS
<1>1. TypeOK
  BY CreatorAssumption
     DEF SyncInit, TypeOK, Roles, Row, NoRows, Absent, HistoryRow, Sealed,
         Token
<1>2. local \in [Devices -> [Secrets -> Row]]
  BY DEF SyncInit, NoRows, Absent, Row
<1>3. vault \in [Devices -> Sealed \cup {NoGrant}]
  BY DEF SyncInit, Sealed
<1>4. synced \in [Devices -> Nat] /\ op \in [Devices -> Op] /\ seals \in Nat
  BY IdleType DEF SyncInit
<1>5. /\ GoodTable(secrets)
      /\ \A d \in Devices : GoodTable(local[d]) /\ GoodOp(op[d])
  BY IdleGood DEF SyncInit
<1> QED
  BY <1>1, <1>2, <1>3, <1>4, <1>5 DEF TypeInv, SyncTypeOK

(* What a push posts: the rows that were newer than the snapshot. *)
LEMMA SetsOfType ==
    ASSUME NEW mine, NEW theirs, GoodTable(mine), GoodTable(theirs)
    PROVE  /\ DOMAIN SetsOf(mine, theirs) = ToSet(mine, theirs)
           /\ \A s \in DOMAIN SetsOf(mine, theirs) :
                 /\ s \in Secrets
                 /\ SetsOf(mine, theirs)[s] = [ver |-> mine[s].ver,
                                               val |-> mine[s].val,
                                               key |-> mine[s].key]
                 /\ mine[s].ver > theirs[s].ver
                 /\ mine[s].ver \in Nat /\ mine[s].ver > 0
                 /\ mine[s].val \in Contents
                 /\ mine[s].key \in Nat
                 /\ ~mine[s].deleted
<1>1. DOMAIN SetsOf(mine, theirs) = ToSet(mine, theirs)
  BY DEF SetsOf
<1>2. ASSUME NEW s \in ToSet(mine, theirs)
      PROVE  /\ s \in Secrets
             /\ SetsOf(mine, theirs)[s] = [ver |-> mine[s].ver,
                                           val |-> mine[s].val,
                                           key |-> mine[s].key]
             /\ mine[s].ver > theirs[s].ver
             /\ mine[s].ver \in Nat /\ mine[s].ver > 0
             /\ mine[s].val \in Contents
             /\ mine[s].key \in Nat
             /\ ~mine[s].deleted
  BY <1>2 DEF SetsOf, ToSet, Present, GoodTable, Row
<1> QED
  BY <1>1, <1>2

(* The steps of SyncNext that change a table of the server. *)
LEMMA WriteAcceptedType ==
    ASSUME TypeInv, NEW d \in Devices, WriteAccepted(d)
    PROVE  TypeOK' /\ GoodTable(secrets')
<1> DEFINE sets == SetsOf(op[d].mine, op[d].rows)
           dels == ToDelete(op[d].mine, op[d].rows)
<1>1. WriteSecrets(Owner[d], op[d].base, sets, dels)
  BY DEF WriteAccepted
<1>2. \A s \in DOMAIN sets : /\ s \in Secrets
                             /\ sets[s].ver \in Nat /\ sets[s].ver > 0
                             /\ sets[s].val \in Contents
                             /\ sets[s].key \in Nat
  <2>1. GoodTable(op[d].mine) /\ GoodTable(op[d].rows)
    BY DEF TypeInv, GoodOp
  <2> QED BY <2>1, SetsOfType
<1>3. GoodTable(secrets')
  <2> HIDE DEF sets, dels
  <2>1. ASSUME NEW s \in Secrets
        PROVE  secrets'[s] \in Row /\
               (secrets'[s].ver > 0 => secrets'[s].val \in Contents)
    <3>1. CASE s \in DOMAIN sets
      BY <1>1, <1>2, <3>1 DEF WriteSecrets, SecretsAfter, Row
    <3>2. CASE s \notin DOMAIN sets
      <4>1. /\ secrets[s] \in Row
            /\ secrets[s].ver > 0 => secrets[s].val \in Contents
        BY DEF TypeInv, GoodTable
      <4>2. secrets'[s] \in {secrets[s], [secrets[s] EXCEPT !.deleted = TRUE]}
        BY <1>1, <3>2 DEF WriteSecrets, SecretsAfter
      <4>3. /\ [secrets[s] EXCEPT !.deleted = TRUE] \in Row
            /\ [secrets[s] EXCEPT !.deleted = TRUE].ver = secrets[s].ver
            /\ [secrets[s] EXCEPT !.deleted = TRUE].val = secrets[s].val
        BY <4>1 DEF Row
      <4> QED BY <4>1, <4>2, <4>3
    <3> QED BY <3>1, <3>2
  <2> QED BY <1>1, <2>1 DEF WriteSecrets, SecretsAfter, GoodTable
<1>4. history' \subseteq HistoryRow
  <2> HIDE DEF sets, dels
  <2> QED BY <1>1, <1>2
          DEF WriteSecrets, HistoryAfter, HistoryRow, TypeInv, SyncTypeOK,
              TypeOK
<1>5. /\ revision' \in Nat
      /\ UNCHANGED <<lifecycle, role, pubkey, grants, tokens, vaultKey>>
  BY <1>1 DEF WriteSecrets, NextRevision, TypeInv, SyncTypeOK, TypeOK
<1> QED
  BY <1>3, <1>4, <1>5 DEF TypeInv, SyncTypeOK, TypeOK, GoodTable

(* Shares, rotations and new tokens change no row content.                 *)
LEMMA TeamStepType ==
    ASSUME TypeInv, TeamStep
    PROVE  TypeInv'
<1>1. ASSUME NEW d \in Devices, NEW u \in Users, Share(d, u)
      PROVE  TypeInv'
  <2>1. [key |-> vault[d].key, to |-> pubkey[u], seal |-> seals + 1]
            \in Sealed
    BY <1>1 DEF Share, HasVault, TypeInv, SyncTypeOK, TypeOK, Sealed
  <2>2. TypeOK' /\ GoodTable(secrets')
    BY <1>1, <2>1 DEF Share, CreateGrant, TypeInv, SyncTypeOK, TypeOK
  <2>3. seals' \in Nat /\ UNCHANGED deviceVars
    BY <1>1 DEF Share, NextSeal, TypeInv, SyncTypeOK
  <2> QED BY <2>2, <2>3 DEF TypeInv, SyncTypeOK, deviceVars
<1>2. ASSUME NEW u \in Users, NEW revoked \in SUBSET Users,
             RotateEnv(u, revoked)
      PROVE  TypeInv'
  <2> DEFINE kept == (Holders \cap Members) \ revoked
             req == [base |-> revision, key |-> vaultKey + 1,
                     grants |-> [h \in kept |->
                                   [key |-> vaultKey + 1, to |-> pubkey[h],
                                    seal |-> seals + 1]],
                     secrets |-> Present(secrets),
                     versions |-> VersionsOf(history),
                     tokens |-> ActiveTokens]
  <2>1. Rotate(u, req) /\ seals' = seals + 1 /\ UNCHANGED deviceVars
    BY <1>2 DEF RotateEnv, NextSeal
  <2>2. req.key \in Nat
    BY DEF TypeInv, SyncTypeOK, TypeOK
  <2>3. \A h \in DOMAIN req.grants : req.grants[h] \in Sealed
    BY DEF TypeInv, SyncTypeOK, TypeOK, Sealed, Holders
  <2>4. TypeOK
    BY DEF TypeInv, SyncTypeOK
  <2> HIDE DEF req
  <2>5. TypeOK'
    BY <2>1, <2>2, <2>3, <2>4, RotateTypeOK
  <2>6. GoodTable(secrets')
    BY <2>1, <2>5 DEF Rotate, RewrapSecrets, TypeInv, GoodTable, TypeOK, Row
  <2>7. seals' \in Nat
    BY <2>1 DEF TypeInv, SyncTypeOK
  <2> QED BY <2>1, <2>5, <2>6, <2>7 DEF TypeInv, SyncTypeOK, deviceVars
<1> QED
  BY <1>1, <1>2 DEF TeamStep

(* A device step that keeps its rows and its server types leaves the rest.  *)
LEMMA DeviceFrame ==
    ASSUME TypeInv, NEW d \in Devices, NEW o, GoodOp(o),
           NEW mine, GoodTable(mine), NEW held \in Sealed \cup {NoGrant},
           NEW rev \in Nat,
           op' = [op EXCEPT ![d] = o],
           local' = [local EXCEPT ![d] = mine],
           vault' = [vault EXCEPT ![d] = held],
           synced' = [synced EXCEPT ![d] = rev],
           TypeOK', GoodTable(secrets'), seals' = seals
    PROVE  TypeInv'
BY DEF TypeInv, SyncTypeOK, GoodTable, GoodOp

(* The same for the steps that move one device's command along and leave    *)
(* the server alone.                                                        *)
LEMMA DeviceMove ==
    ASSUME TypeInv, NEW d \in Devices, NEW o, GoodOp(o),
           op' = [op EXCEPT ![d] = o],
           UNCHANGED <<serverVars, seals>>,
           \/ UNCHANGED local
           \/ \E mine : GoodTable(mine) /\ local' = [local EXCEPT ![d] = mine],
           \/ UNCHANGED vault
           \/ \E held \in Sealed : vault' = [vault EXCEPT ![d] = held],
           \/ UNCHANGED synced
           \/ \E rev \in Nat : synced' = [synced EXCEPT ![d] = rev]
    PROVE  TypeInv'
<1>1. TypeOK' /\ GoodTable(secrets')
  BY DEF TypeInv, SyncTypeOK, TypeOK, serverVars, GoodTable
<1>2. PICK mine : GoodTable(mine) /\ local' = [local EXCEPT ![d] = mine]
  <2>1. GoodTable(local[d]) /\ local = [local EXCEPT ![d] = local[d]]
    BY DEF TypeInv, SyncTypeOK
  <2> QED BY <2>1
<1>3. PICK held \in Sealed \cup {NoGrant} : vault' = [vault EXCEPT ![d] = held]
  <2>1. vault[d] \in Sealed \cup {NoGrant}
    BY DEF TypeInv, SyncTypeOK
  <2>2. vault = [vault EXCEPT ![d] = vault[d]]
    BY DEF TypeInv, SyncTypeOK
  <2> QED BY <2>1, <2>2
<1>4. PICK rev \in Nat : synced' = [synced EXCEPT ![d] = rev]
  <2>1. synced[d] \in Nat /\ synced = [synced EXCEPT ![d] = synced[d]]
    BY DEF TypeInv, SyncTypeOK
  <2> QED BY <2>1
<1> QED
  BY <1>1, <1>2, <1>3, <1>4, DeviceFrame

(* A device's command becomes another good one.                            *)
MovesOp(d) ==
    \E o : GoodOp(o) /\ op' = [op EXCEPT ![d] = o]

(* The commands the steps build are well typed.                            *)
LEMMA OpMoves ==
    ASSUME TypeInv, NEW d \in Devices
    PROVE  /\ op \in [Devices -> Op]
           /\ GoodOp(op[d])
           /\ op[d].base \in Nat /\ op[d].tries \in Nat
           /\ op' = op => MovesOp(d)
           /\ op' = [op EXCEPT ![d] = Idle] => MovesOp(d)
           /\ \A pc \in Pcs :
                 op' = [op EXCEPT ![d].pc = pc] => MovesOp(d)
           /\ \A pc \in Pcs, cmd \in Commands :
                 op' = [op EXCEPT ![d].pc = pc, ![d].cmd = cmd] => MovesOp(d)
<1>1. op \in [Devices -> Op] /\ GoodOp(op[d])
  BY DEF TypeInv, SyncTypeOK
<1>2. op[d].base \in Nat /\ op[d].tries \in Nat
  BY <1>1 DEF Op, GoodOp
<1>3. op' = [op EXCEPT ![d] = Idle] => MovesOp(d)
  BY IdleGood DEF MovesOp
<1>4. op' = op => MovesOp(d)
  <2>1. op = [op EXCEPT ![d] = op[d]]
    BY <1>1
  <2> QED BY <1>1, <2>1 DEF MovesOp
<1>5. ASSUME NEW pc \in Pcs, op' = [op EXCEPT ![d].pc = pc]
      PROVE  MovesOp(d)
  <2> DEFINE o == [op[d] EXCEPT !.pc = pc]
  <2>1. GoodOp(o)
    BY <1>1 DEF Op, GoodOp
  <2>2. op' = [op EXCEPT ![d] = o]
    BY <1>1, <1>5
  <2> HIDE DEF o
  <2> QED BY <1>1, <2>1, <2>2 DEF MovesOp
<1>6. ASSUME NEW pc \in Pcs, NEW cmd \in Commands,
             op' = [op EXCEPT ![d].pc = pc, ![d].cmd = cmd]
      PROVE  MovesOp(d)
  <2> DEFINE o == [op[d] EXCEPT !.pc = pc, !.cmd = cmd]
  <2>1. GoodOp(o)
    BY <1>1 DEF Op, GoodOp
  <2>2. op' = [op EXCEPT ![d] = o]
    BY <1>1, <1>6
  <2> HIDE DEF o
  <2> QED BY <1>1, <2>1, <2>2 DEF MovesOp
<1> QED
  BY <1>1, <1>2, <1>3, <1>4, <1>5, <1>6

(* A local edit gives a row a content together with its version.           *)
LEMMA EditType ==
    ASSUME TypeInv, NEW d \in Devices, Edit(d)
    PROVE  TypeInv'
<1>1. GoodTable(local[d]) /\ op \in [Devices -> Op]
  BY DEF TypeInv, SyncTypeOK
<1>2. ASSUME NEW s \in Secrets, NEW c \in Contents, LocalSet(d, s, c)
      PROVE  TypeInv'
  <2> DEFINE new == [ver |-> local[d][s].ver + 1, val |-> c,
                     key |-> vault[d].key, deleted |-> FALSE]
             mine == [local[d] EXCEPT ![s] = new]
  <2>1. new \in Row
    BY <1>1, <1>2
       DEF LocalSet, HasVault, TypeInv, SyncTypeOK, Sealed, Row, GoodTable
  <2>2. GoodTable(mine)
    BY <1>1, <2>1 DEF GoodTable
  <2>3. local' = [local EXCEPT ![d] = mine]
    BY <1>2 DEF LocalSet, TypeInv, SyncTypeOK
  <2>4. /\ op' = [op EXCEPT ![d] = op[d]]
        /\ UNCHANGED <<serverVars, vault, synced, seals>>
    BY <1>1, <1>2 DEF LocalSet
  <2> HIDE DEF mine
  <2> QED BY <2>2, <2>3, <2>4, OpMoves, DeviceMove DEF MovesOp
<1>3. ASSUME NEW s \in Secrets, LocalDelete(d, s)
      PROVE  TypeInv'
  <2> DEFINE mine == [local[d] EXCEPT ![s].deleted = TRUE]
  <2>1. GoodTable(mine)
    BY <1>1 DEF GoodTable, Row
  <2>2. local' = [local EXCEPT ![d] = mine]
    BY <1>3 DEF LocalDelete, TypeInv, SyncTypeOK
  <2>3. /\ op' = [op EXCEPT ![d] = op[d]]
        /\ UNCHANGED <<serverVars, vault, synced, seals>>
    BY <1>1, <1>3 DEF LocalDelete
  <2> HIDE DEF mine
  <2> QED BY <2>1, <2>2, <2>3, OpMoves, DeviceMove DEF MovesOp
<1>4. ASSUME NEW h \in history, Rollback(d, h)
      PROVE  TypeInv'
  <2>1. h.secret \in Secrets /\ h.val \in Contents
    BY DEF TypeInv, SyncTypeOK, TypeOK, HistoryRow
  <2> QED BY <1>2, <1>4, <2>1 DEF Rollback
<1> QED
  BY <1>2, <1>3, <1>4 DEF Edit

(* Starting, cloning and aborting a command keep the types.                *)
LEMMA CommandType ==
    ASSUME TypeInv, NEW d \in Devices,
           Clone(d) \/ StartPull(d) \/ StartPush(d) \/ Abort(d)
    PROVE  TypeInv'
<1>1. CASE Clone(d)
  <2>1. MyGrant(d) \in Sealed
    BY <1>1, OwnerAssumption
       DEF Clone, MyGrant, TypeInv, SyncTypeOK, TypeOK
  <2>2. "start" \in Pcs /\ "pull" \in Commands
    BY DEF Pcs, Commands
  <2>3. MovesOp(d)
    BY <1>1, <2>2, OpMoves DEF Clone
  <2>4. UNCHANGED <<serverVars, local, synced, seals>>
    BY <1>1 DEF Clone
  <2>5. vault' = [vault EXCEPT ![d] = MyGrant(d)]
    BY <1>1 DEF Clone
  <2> QED BY <2>1, <2>3, <2>4, <2>5, DeviceMove DEF MovesOp
<1>2. CASE StartPull(d) \/ StartPush(d)
  <2>1. PICK cmd \in Commands :
            op' = [op EXCEPT ![d].pc = "start", ![d].cmd = cmd]
    BY <1>2 DEF StartPull, StartPush, Commands
  <2>2. "start" \in Pcs
    BY DEF Pcs
  <2>3. UNCHANGED <<serverVars, local, vault, synced, seals>>
    BY <1>2 DEF StartPull, StartPush
  <2>4. MovesOp(d)
    BY <2>1, <2>2, OpMoves
  <2> QED BY <2>3, <2>4, DeviceMove DEF MovesOp
<1>3. CASE Abort(d)
  <2>1. MovesOp(d)
    BY <1>3, OpMoves DEF Abort, Finish
  <2>2. UNCHANGED <<serverVars, local, vault, synced, seals>>
    BY <1>3 DEF Abort
  <2> QED BY <2>1, <2>2, DeviceMove DEF MovesOp
<1> QED
  BY <1>1, <1>2, <1>3

(* Each request or local transaction of a command keeps the types.         *)
LEMMA DeviceStepType ==
    ASSUME TypeInv, NEW d \in Devices, DeviceStep(d)
    PROVE  TypeInv'
<1>1. /\ op \in [Devices -> Op] /\ GoodOp(op[d])
      /\ op[d].base \in Nat /\ op[d].tries \in Nat
      /\ GoodOp(Idle)
      /\ {"rows", "adopt", "apply", "diff", "check", "write", "ack"}
             \subseteq Pcs
      /\ {"refresh", "push"} \subseteq Commands
  BY OpMoves, IdleGood DEF Pcs, Commands
<1>2. CASE ReadRevision(d)
  <2> DEFINE next == [op[d] EXCEPT !.pc = "rows", !.base = revision]
  <2>1. GoodOp(next)
    BY <1>1 DEF Op, GoodOp, TypeInv, SyncTypeOK, TypeOK
  <2>2. \/ op' = [op EXCEPT ![d] = Idle]
        \/ op' = [op EXCEPT ![d] = next]
    BY <1>2, <1>1 DEF ReadRevision, Finish
  <2>3. UNCHANGED <<serverVars, local, vault, synced, seals>>
    BY <1>2 DEF ReadRevision
  <2> HIDE DEF next
  <2>4. MovesOp(d)
    BY <1>1, <2>1, <2>2 DEF MovesOp
  <2> QED BY <2>3, <2>4, DeviceMove DEF MovesOp
<1>3. CASE ReadRows(d)
  <2>1. PICK pc \in Pcs :
            op' = [op EXCEPT ![d].rows = secrets,
                             ![d].todo = Present(secrets), ![d].pc = pc]
    BY <1>3, <1>1 DEF ReadRows
  <2> DEFINE next == [op[d] EXCEPT !.rows = secrets,
                                   !.todo = Present(secrets), !.pc = pc]
  <2>2. GoodOp(next)
    BY <1>1 DEF Op, TypeInv, GoodTable, GoodOp, Present
  <2>3. op' = [op EXCEPT ![d] = next]
    BY <2>1, <1>1
  <2>4. UNCHANGED <<serverVars, local, vault, synced, seals>>
    BY <1>3 DEF ReadRows
  <2> HIDE DEF next
  <2> QED BY <2>2, <2>3, <2>4, DeviceMove DEF MovesOp
<1>4. CASE AdoptRotation(d)
  <2>1. UNCHANGED <<serverVars, local, synced, seals>>
    BY <1>4 DEF AdoptRotation
  <2>2. CASE MyGrant(d) \in {NoGrant, vault[d]}
    <3>1. MovesOp(d)
      BY <1>1, <1>4, <2>2, OpMoves DEF AdoptRotation, Finish, Goto
    <3>2. UNCHANGED vault
      BY <1>4, <2>2 DEF AdoptRotation
    <3> QED BY <2>1, <3>1, <3>2, DeviceMove DEF MovesOp
  <2>3. CASE MyGrant(d) \notin {NoGrant, vault[d]}
    <3> DEFINE next == [op[d] EXCEPT !.pc = "apply", !.force = TRUE,
                                     !.todo = Present(op[d].rows)]
    <3>1. GoodOp(next)
      BY <1>1 DEF Op, GoodOp, Present
    <3>2. op' = [op EXCEPT ![d] = next]
      BY <1>1, <1>4, <2>3 DEF AdoptRotation
    <3>3. vault' = [vault EXCEPT ![d] = MyGrant(d)]
      BY <1>4, <2>3 DEF AdoptRotation
    <3>4. MyGrant(d) \in Sealed
      BY <2>3, OwnerAssumption DEF MyGrant, TypeInv, SyncTypeOK, TypeOK
    <3> HIDE DEF next
    <3> QED BY <2>1, <3>1, <3>2, <3>3, <3>4, DeviceMove DEF MovesOp
  <2> QED BY <2>2, <2>3
<1>5. ASSUME NEW s \in Secrets, FindRow(d, s)
      PROVE  TypeInv'
  <2>1. PICK take \in SUBSET Secrets :
            op' = [op EXCEPT ![d].todo = @ \ {s}, ![d].take = take]
    BY <1>5 DEF FindRow
  <2> DEFINE next == [op[d] EXCEPT !.todo = @ \ {s}, !.take = take]
  <2>2. GoodOp(next)
    BY <1>1 DEF Op, GoodOp
  <2>3. op' = [op EXCEPT ![d] = next]
    BY <1>1, <2>1
  <2>4. UNCHANGED <<serverVars, local, vault, synced, seals>>
    BY <1>5 DEF FindRow
  <2> HIDE DEF next
  <2> QED BY <2>2, <2>3, <2>4, DeviceMove DEF MovesOp
<1>6. ASSUME NEW s \in Secrets, PutRow(d, s)
      PROVE  TypeInv'
  <2> DEFINE next == [op[d] EXCEPT !.take = @ \ {s}]
             mine == [local[d] EXCEPT ![s] = op[d].rows[s]]
  <2>1. GoodOp(next)
    BY <1>1 DEF Op, GoodOp
  <2>2. GoodTable(mine)
    BY <1>1 DEF TypeInv, GoodTable, GoodOp
  <2>3. /\ op' = [op EXCEPT ![d] = next]
        /\ local' = [local EXCEPT ![d] = mine]
    BY <1>1, <1>6 DEF PutRow, TypeInv, SyncTypeOK
  <2>4. UNCHANGED <<serverVars, vault, synced, seals>>
    BY <1>6 DEF PutRow
  <2> HIDE DEF next, mine
  <2> QED BY <2>1, <2>2, <2>3, <2>4, DeviceMove DEF MovesOp
<1>7. CASE EndRefresh(d)
  <2>1. MovesOp(d)
    BY <1>1, <1>7, OpMoves DEF EndRefresh, Finish
  <2>2. UNCHANGED <<serverVars, local, vault, synced, seals>>
    BY <1>7 DEF EndRefresh
  <2> QED BY <2>1, <2>2, DeviceMove DEF MovesOp
<1>8. CASE SetSynced(d)
  <2>1. op[d].base \in Nat /\ synced' = [synced EXCEPT ![d] = op[d].base]
    BY <1>1, <1>8 DEF SetSynced
  <2>2. MovesOp(d)
    BY <1>1, <1>8, OpMoves DEF SetSynced, Finish, Goto
  <2>3. UNCHANGED <<serverVars, local, vault, seals>>
    BY <1>8 DEF SetSynced
  <2> QED BY <2>1, <2>2, <2>3, DeviceMove DEF MovesOp
<1>9. CASE Diff(d)
  <2> DEFINE next == [op[d] EXCEPT !.pc = "check", !.mine = local[d]]
  <2>1. GoodOp(next)
    BY <1>1 DEF Op, GoodOp, TypeInv, GoodTable
  <2>2. \/ op' = [op EXCEPT ![d].pc = "adopt", ![d].cmd = "refresh"]
        \/ op' = [op EXCEPT ![d] = next]
    BY <1>1, <1>9 DEF Diff
  <2>3. UNCHANGED <<serverVars, local, vault, synced, seals>>
    BY <1>9 DEF Diff
  <2> HIDE DEF next
  <2>4. MovesOp(d)
    BY <1>1, <2>1, <2>2, OpMoves DEF MovesOp
  <2> QED BY <2>3, <2>4, DeviceMove DEF MovesOp
<1>10. CASE CheckGrant(d)
  <2> DEFINE next == [op[d] EXCEPT !.pc = "write", !.checked = vaultKey]
  <2>1. GoodOp(next)
    BY <1>1 DEF Op, GoodOp, TypeInv, SyncTypeOK, TypeOK
  <2>2. \/ op' = [op EXCEPT ![d] = next]
        \/ op' = [op EXCEPT ![d] = Idle]
    BY <1>1, <1>10 DEF CheckGrant, Finish
  <2>3. UNCHANGED <<serverVars, local, vault, synced, seals>>
    BY <1>10 DEF CheckGrant
  <2> HIDE DEF next
  <2>4. MovesOp(d)
    BY <1>1, <2>1, <2>2 DEF MovesOp
  <2> QED BY <2>3, <2>4, DeviceMove DEF MovesOp
<1>11. CASE WriteAccepted(d)
  <2>1. TypeOK' /\ GoodTable(secrets')
    BY <1>11, WriteAcceptedType
  <2> DEFINE next == [Idle EXCEPT !.pc = "ack", !.base = op[d].base]
  <2>2. GoodOp(next)
    BY <1>1 DEF Op, GoodOp
  <2>3. /\ op' = [op EXCEPT ![d] = next]
        /\ UNCHANGED <<local, vault, synced, seals>>
    BY <1>11 DEF WriteAccepted
  <2> HIDE DEF next
  <2>4. op' \in [Devices -> Op] /\ \A e \in Devices : GoodOp(op'[e])
    BY <1>1, <2>2, <2>3 DEF TypeInv, GoodOp
  <2> QED BY <2>1, <2>3, <2>4 DEF TypeInv, SyncTypeOK, GoodTable, GoodOp
<1>12. CASE WriteConflict(d)
  <2> DEFINE again == [Idle EXCEPT !.pc = "start", !.cmd = "push",
                                   !.tries = op[d].tries + 1]
  <2>1. op[d].tries + 1 \in Nat /\ "start" \in Pcs
    BY <1>1 DEF Pcs
  <2>2. GoodOp(again)
    BY <1>1, <2>1 DEF Op, GoodOp
  <2>3. \/ op' = [op EXCEPT ![d] = again]
        \/ op' = [op EXCEPT ![d] = Idle]
    BY <1>12 DEF WriteConflict, Finish
  <2>4. UNCHANGED <<serverVars, local, vault, synced, seals>>
    BY <1>12 DEF WriteConflict
  <2> HIDE DEF again
  <2>5. MovesOp(d)
    BY <1>1, <2>2, <2>3 DEF MovesOp
  <2> QED BY <2>4, <2>5, DeviceMove DEF MovesOp
<1>13. CASE Acknowledge(d)
  <2>1. /\ op[d].base + 1 \in Nat
        /\ synced' = [synced EXCEPT ![d] = op[d].base + 1]
    BY <1>1, <1>13 DEF Acknowledge
  <2>2. MovesOp(d)
    BY <1>13, OpMoves DEF Acknowledge, Finish
  <2>3. UNCHANGED <<serverVars, local, vault, seals>>
    BY <1>13 DEF Acknowledge
  <2> QED BY <2>1, <2>2, <2>3, DeviceMove DEF MovesOp
<1> QED
  BY <1>2, <1>3, <1>4, <1>5, <1>6, <1>7, <1>8, <1>9, <1>10, <1>11, <1>12,
     <1>13 DEF DeviceStep

(* Every step keeps the types.                                             *)
LEMMA SyncTypeStep == TypeInv /\ [SyncNext]_vars => TypeInv'
<1> SUFFICES ASSUME TypeInv, [SyncNext]_vars PROVE TypeInv'
  OBVIOUS
<1>1. CASE SyncNext
  BY <1>1, DeviceStepType, EditType, CommandType, TeamStepType DEF SyncNext
<1>2. CASE UNCHANGED vars
  BY <1>2 DEF vars, serverVars, deviceVars, TypeInv, SyncTypeOK, TypeOK,
              GoodTable, GoodOp
<1> QED
  BY <1>1, <1>2

(* Devices and server stay well typed: in particular every row, local or on *)
(* the server, that has a version has a content (apply_snapshot, diff and   *)
(* write_secrets pass rows on without making any up).                       *)
THEOREM SyncTypeCorrect == SyncSpec => []SyncTypeOK
<1>1. TypeInv => SyncTypeOK
  BY DEF TypeInv
<1> QED
  BY <1>1, InitSyncType, SyncTypeStep, PTL DEF SyncSpec

-----------------------------------------------------------------------------
(* The server side of the argument *)

(* Time on the server is its revision.                                      *)
ServerMoves ==
    /\ revision' >= revision
    /\ revision' = revision => secrets' = secrets /\ vaultKey' = vaultKey

(* Only an accepted write and the team operations change the server.       *)
LEMMA QuietSteps ==
    ASSUME NEW d \in Devices,
           \/ DeviceStep(d) \/ Edit(d) \/ Clone(d) \/ StartPull(d)
           \/ StartPush(d) \/ Abort(d)
    PROVE  WriteAccepted(d) \/ UNCHANGED serverVars
BY DEF DeviceStep, Edit, Clone, StartPull, StartPush, Abort, ReadRevision,
       ReadRows, AdoptRotation, FindRow, PutRow, EndRefresh, SetSynced, Diff,
       CheckGrant, WriteConflict, Acknowledge, LocalSet, LocalDelete, Rollback

(* The server only moves forward: a step that keeps the revision keeps the *)
(* rows and the key, and no step takes the revision back.                  *)
LEMMA ServerStep ==
    ASSUME TypeInv, [SyncNext]_vars
    PROVE  ServerMoves
<1>1. revision \in Nat
  BY DEF TypeInv, SyncTypeOK, TypeOK
<1>2. CASE UNCHANGED serverVars
  BY <1>1, <1>2 DEF serverVars, ServerMoves
<1>3. ASSUME NEW d \in Devices, WriteAccepted(d)
      PROVE  ServerMoves
  BY <1>1, <1>3 DEF WriteAccepted, WriteSecrets, NextRevision, ServerMoves
<1>4. ASSUME TeamStep
      PROVE  ServerMoves
  <2>1. ASSUME NEW d \in Devices, NEW u \in Users, Share(d, u)
        PROVE  ServerMoves
    BY <1>1, <2>1 DEF Share, CreateGrant, ServerMoves
  <2>2. ASSUME NEW u \in Users, NEW revoked \in SUBSET Users,
               RotateEnv(u, revoked)
        PROVE  ServerMoves
    BY <1>1, <2>2 DEF RotateEnv, Rotate, NextRevision, ServerMoves
  <2> QED BY <1>4, <2>1, <2>2 DEF TeamStep
<1>5. CASE SyncNext
  BY <1>2, <1>3, <1>4, <1>5, QuietSteps DEF SyncNext
<1>6. CASE UNCHANGED vars
  BY <1>2, <1>6 DEF vars
<1> QED
  BY <1>5, <1>6

-----------------------------------------------------------------------------
(* What a device knows at each point of a command *)

RowCovers(mine, theirs) ==
    /\ mine.ver >= theirs.ver
    /\ mine.ver = theirs.ver /\ theirs.deleted => mine.deleted

(* Every row of a table, some apart, is covered.                           *)
Covers(mine, theirs, but) ==
    \A s \in Present(theirs) \ but : RowCovers(mine[s], theirs[s])

(* Covering is transitive; a row covers itself.                            *)
LEMMA CoversTrans ==
    ASSUME NEW a, NEW b, NEW c, GoodTable(a), GoodTable(b), GoodTable(c),
           \A s \in Secrets : RowCovers(a[s], b[s]), NEW but,
           Covers(b, c, but)
    PROVE  Covers(a, c, but)
BY DEF Covers, RowCovers, Present, GoodTable, Row

HasRows == {"adopt", "apply", "diff", "check", "write"}

DeviceKnows(d) ==
    /\ synced[d] <= revision
    /\ synced[d] = revision => Covers(local[d], secrets, {})
    /\ op[d].pc \notin {"idle", "start"} =>
          synced[d] <= op[d].base /\ op[d].base <= revision
    /\ op[d].pc \in HasRows /\ op[d].base = revision => op[d].rows = secrets
    /\ op[d].pc \in HasRows =>
          Covers(local[d], op[d].rows, op[d].todo \cup op[d].take)
    /\ op[d].pc \in {"diff", "check", "write"} =>
          op[d].todo = {} /\ op[d].take = {}
    /\ op[d].pc \in {"check", "write"} =>
          /\ Covers(op[d].mine, op[d].rows, {})
          /\ \A s \in Secrets : RowCovers(local[d][s], op[d].mine[s])
    /\ op[d].pc = "write" /\ op[d].base = revision =>
          op[d].checked = vaultKey
    /\ op[d].pc = "ack" =>
          /\ op[d].base < revision
          /\ op[d].base + 1 = revision => Covers(local[d], secrets, {})

SyncInv == TypeInv /\ \A d \in Devices : DeviceKnows(d)

(* Revisions and versions are numbers.                                     *)
LEMMA Numbers ==
    ASSUME TypeInv, NEW d \in Devices
    PROVE  /\ op[d].base \in Nat /\ synced[d] \in Nat /\ revision \in Nat
           /\ op[d].force \in BOOLEAN /\ op[d] \in Op
           /\ op \in [Devices -> Op] /\ local \in [Devices -> [Secrets -> Row]]
           /\ synced \in [Devices -> Nat]
           /\ GoodTable(local[d]) /\ GoodTable(secrets)
           /\ GoodTable(op[d].rows) /\ GoodTable(op[d].mine)
BY DEF TypeInv, SyncTypeOK, TypeOK, Op, GoodOp

(* Initially no device claims to know anything.                            *)
LEMMA KnowsInit == SyncInit => SyncInv
<1> SUFFICES ASSUME SyncInit PROVE SyncInv
  OBVIOUS
<1>1. TypeInv
  BY InitSyncType
<1>2. Present(NoRows) = {}
  BY DEF Present, NoRows, Absent
<1>3. ASSUME NEW d \in Devices PROVE DeviceKnows(d)
  BY <1>2 DEF SyncInit, DeviceKnows, Covers, Idle, HasRows
<1> QED
  BY <1>1, <1>3 DEF SyncInv

(* A device that does nothing keeps its knowledge, whatever the server does.*)
LEMMA KnowsFrame ==
    ASSUME TypeInv, ServerMoves, TypeInv', NEW d \in Devices, DeviceKnows(d),
           op'[d] = op[d], local'[d] = local[d], synced'[d] = synced[d]
    PROVE  DeviceKnows(d)'
<1>1. /\ op[d].base \in Nat /\ synced[d] \in Nat
      /\ revision \in Nat /\ revision' \in Nat
  BY Numbers DEF TypeInv, SyncTypeOK, TypeOK
<1>2. CASE revision' = revision
  BY <1>2 DEF ServerMoves, DeviceKnows, Covers, RowCovers
<1>3. CASE revision' > revision
  <2>1. synced'[d] # revision' /\ synced'[d] <= revision'
    BY <1>1, <1>3 DEF DeviceKnows
  <2>2. op[d].pc \notin {"idle", "start"} =>
            op'[d].base # revision' /\ op'[d].base <= revision'
    BY <1>1, <1>3 DEF DeviceKnows
  <2>3. op[d].pc = "ack" =>
            op'[d].base < revision' /\ op'[d].base + 1 # revision'
    BY <1>1, <1>3 DEF DeviceKnows
  <2>4. op[d].pc \notin {"idle", "start"} => synced'[d] <= op'[d].base
    BY DEF DeviceKnows
  <2>5. /\ op[d].pc \in HasRows =>
              Covers(local[d], op[d].rows, op[d].todo \cup op[d].take)'
        /\ op[d].pc \in {"check", "write"} =>
              /\ Covers(op[d].mine, op[d].rows, {})'
              /\ \A s \in Secrets : RowCovers(local'[d][s], op'[d].mine[s])
    BY DEF DeviceKnows, Covers, Present, RowCovers
  <2> QED BY <2>1, <2>2, <2>3, <2>4, <2>5 DEF DeviceKnows, HasRows, RowCovers
<1> QED
  BY <1>1, <1>2, <1>3 DEF ServerMoves

(* An edit takes no row back, whatever command is running.                 *)
LEMMA EditCovers ==
    ASSUME TypeInv, NEW d \in Devices, Edit(d)
    PROVE  /\ UNCHANGED <<serverVars, synced, op>>
           /\ \A s \in Secrets : RowCovers(local'[d][s], local[d][s])
<1>1. /\ local \in [Devices -> [Secrets -> Row]]
      /\ \A s \in Secrets : local[d][s] \in Row
  BY Numbers
<1>2. ASSUME NEW s \in Secrets, NEW c, LocalSet(d, s, c)
      PROVE  \A r \in Secrets : RowCovers(local'[d][r], local[d][r])
  <2>1. local' = [local EXCEPT ![d] = [local[d] EXCEPT ![s] =
                    [ver |-> local[d][s].ver + 1, val |-> c,
                     key |-> vault[d].key, deleted |-> FALSE]]]
    BY <1>1, <1>2 DEF LocalSet
  <2> QED BY <1>1, <2>1 DEF RowCovers, Row
<1>3. ASSUME NEW s \in Secrets, LocalDelete(d, s)
      PROVE  \A r \in Secrets : RowCovers(local'[d][r], local[d][r])
  <2>1. local' = [local EXCEPT ![d] =
                    [local[d] EXCEPT ![s] = [@ EXCEPT !.deleted = TRUE]]]
    BY <1>1, <1>3 DEF LocalDelete
  <2>2. \A r \in Secrets : /\ local'[d][r].ver = local[d][r].ver
                           /\ local[d][r].deleted => local'[d][r].deleted
    BY <1>1, <2>1 DEF Row
  <2> QED BY <1>1, <2>2 DEF RowCovers, Row
<1>4. ASSUME NEW h \in history, Rollback(d, h)
      PROVE  \A r \in Secrets : RowCovers(local'[d][r], local[d][r])
  <2>1. h.secret \in Secrets /\ LocalSet(d, h.secret, h.val)
    BY <1>4 DEF Rollback, TypeInv, SyncTypeOK, TypeOK, HistoryRow
  <2> QED BY <1>2, <2>1
<1>5. UNCHANGED <<serverVars, synced, op>>
  BY DEF Edit, LocalSet, LocalDelete, Rollback
<1> QED
  BY <1>2, <1>3, <1>4, <1>5 DEF Edit

(* Whatever a device knows, it still knows after an edit of its own.        *)
LEMMA KnowsEdit ==
    ASSUME TypeInv, TypeInv', NEW d \in Devices, DeviceKnows(d), Edit(d)
    PROVE  DeviceKnows(d)'
<1>1. /\ UNCHANGED <<secrets, revision, vaultKey, synced, op>>
      /\ \A s \in Secrets : RowCovers(local'[d][s], local[d][s])
  BY EditCovers DEF serverVars
<1>2. /\ GoodTable(local[d]) /\ GoodTable(local'[d]) /\ GoodTable(secrets)
      /\ GoodTable(op[d].rows) /\ GoodTable(op[d].mine)
  BY DEF TypeInv, GoodTable, GoodOp
<1>3. /\ Covers(local[d], secrets, {}) => Covers(local'[d], secrets, {})
      /\ Covers(local[d], op[d].rows, op[d].todo \cup op[d].take) =>
            Covers(local'[d], op[d].rows, op[d].todo \cup op[d].take)
  BY <1>1, <1>2, CoversTrans
<1>4. ASSUME NEW s \in Secrets, RowCovers(local[d][s], op[d].mine[s])
      PROVE  RowCovers(local'[d][s], op[d].mine[s])
  <2>1. /\ local[d][s].ver \in Nat /\ local'[d][s].ver \in Nat
        /\ op[d].mine[s].ver \in Nat
    BY <1>2 DEF GoodTable, Row
  <2>2. RowCovers(local'[d][s], local[d][s])
    BY <1>1
  <2> QED BY <1>4, <2>1, <2>2 DEF RowCovers
<1>5. /\ Covers(local'[d], secrets, {}) = Covers(local[d], secrets, {})'
      /\ Covers(local'[d], op[d].rows, op[d].todo \cup op[d].take) =
            Covers(local[d], op[d].rows, op[d].todo \cup op[d].take)'
      /\ Covers(op[d].mine, op[d].rows, {}) =
            Covers(op[d].mine, op[d].rows, {})'
  BY <1>1 DEF Covers, Present, RowCovers
<1> QED
  BY <1>1, <1>3, <1>4, <1>5 DEF DeviceKnows, HasRows, RowCovers

(* Starting a command or dropping one claims nothing.                      *)
LEMMA KnowsIdle ==
    ASSUME TypeInv, NEW d \in Devices, DeviceKnows(d),
           Clone(d) \/ StartPull(d) \/ StartPush(d) \/ Abort(d)
    PROVE  DeviceKnows(d)'
<1>1. op \in [Devices -> Op] /\ op[d] \in Op
  BY Numbers
<1>2. UNCHANGED <<secrets, revision, vaultKey, synced, local>>
  BY DEF Clone, StartPull, StartPush, Abort, serverVars
<1>3. op'[d].pc \in {"idle", "start"}
  <2>1. CASE Clone(d) \/ StartPull(d) \/ StartPush(d)
    <3>1. \E cmd : op' = [op EXCEPT ![d].pc = "start", ![d].cmd = cmd]
      BY <2>1 DEF Clone, StartPull, StartPush
    <3> QED BY <1>1, <3>1 DEF Op
  <2>2. CASE Abort(d)
    BY <1>1, <2>2 DEF Abort, Finish, Idle
  <2> QED BY <2>1, <2>2
<1> QED
  BY <1>2, <1>3 DEF DeviceKnows, HasRows, Covers, Present, RowCovers

(* A row is dealt with once the lookup leaves it alone: the device has it.  *)
LEMMA KnowsFind ==
    ASSUME TypeInv, NEW d \in Devices, DeviceKnows(d), NEW s \in Secrets,
           FindRow(d, s)
    PROVE  DeviceKnows(d)'
<1> DEFINE take == IF ServerWins(local[d][s], op[d].rows[s], op[d].force)
                   THEN {s} ELSE {}
<1>1. /\ op[d] \in Op /\ op \in [Devices -> Op]
      /\ GoodTable(local[d]) /\ GoodTable(op[d].rows)
  BY Numbers
<1>2. /\ op[d].pc = "apply" /\ op[d].take = {} /\ s \in op[d].todo
      /\ op' = [op EXCEPT ![d].todo = @ \ {s}, ![d].take = take]
      /\ UNCHANGED <<secrets, revision, vaultKey, synced, local>>
  BY DEF FindRow, serverVars
<1>3. /\ op'[d].pc = "apply" /\ op'[d].base = op[d].base
      /\ op'[d].rows = op[d].rows
      /\ op'[d].todo = op[d].todo \ {s} /\ op'[d].take = take
  BY <1>1, <1>2 DEF Op
<1>4. Covers(local[d], op[d].rows, op[d].todo)
  BY <1>2 DEF DeviceKnows, HasRows
<1>5. s \notin take => RowCovers(local[d][s], op[d].rows[s])
  BY <1>1 DEF ServerWins, RowCovers, GoodTable, Row
<1> HIDE DEF take
<1>6. Covers(local[d], op[d].rows, (op[d].todo \ {s}) \cup take)
  BY <1>4, <1>5 DEF Covers
<1>7. Covers(local[d], op[d].rows, op[d].todo \cup op[d].take)'
  BY <1>2, <1>3, <1>6 DEF Covers, Present, RowCovers
<1>8. Covers(local[d], secrets, {})' = Covers(local[d], secrets, {})
  BY <1>2 DEF Covers, Present, RowCovers
<1> QED
  BY <1>2, <1>3, <1>7, <1>8 DEF DeviceKnows, HasRows

(* The row put is the snapshot's, and the server's if nothing has moved.    *)
LEMMA KnowsPut ==
    ASSUME TypeInv, NEW d \in Devices, DeviceKnows(d), NEW s \in Secrets,
           PutRow(d, s)
    PROVE  DeviceKnows(d)'
<1>1. /\ op[d] \in Op /\ op \in [Devices -> Op]
      /\ local \in [Devices -> [Secrets -> Row]]
      /\ op[d].base \in Nat /\ synced[d] \in Nat /\ revision \in Nat
      /\ GoodTable(local[d]) /\ GoodTable(op[d].rows)
  BY Numbers
<1>2. /\ op[d].pc = "apply"
      /\ local' = [local EXCEPT ![d] = [@ EXCEPT ![s] = op[d].rows[s]]]
      /\ op' = [op EXCEPT ![d].take = @ \ {s}]
      /\ UNCHANGED <<secrets, revision, vaultKey, synced>>
  BY DEF PutRow, serverVars
<1>3. /\ op'[d].pc = "apply" /\ op'[d].base = op[d].base
      /\ op'[d].rows = op[d].rows
      /\ op'[d].todo = op[d].todo /\ op'[d].take = op[d].take \ {s}
  BY <1>1, <1>2 DEF Op
<1>4. /\ local'[d][s] = op[d].rows[s]
      /\ \A r \in Secrets \ {s} : local'[d][r] = local[d][r]
  BY <1>1, <1>2
<1>6. /\ RowCovers(local'[d][s], op[d].rows[s])
      /\ Covers(local[d], op[d].rows, op[d].todo \cup op[d].take)
  BY <1>1, <1>2, <1>4 DEF RowCovers, GoodTable, Row, DeviceKnows, HasRows
<1>7. Covers(local'[d], op[d].rows, op[d].todo \cup (op[d].take \ {s}))
  BY <1>4, <1>6 DEF Covers, Present
<1>8. Covers(local[d], op[d].rows, op[d].todo \cup op[d].take)'
  BY <1>3, <1>7 DEF Covers, Present, RowCovers
<1>9. synced[d] = revision => Covers(local'[d], secrets, {})
  <2> SUFFICES ASSUME synced[d] = revision
               PROVE  Covers(local'[d], secrets, {})
    OBVIOUS
  <2>1. op[d].base = revision
    <3>1. synced[d] <= op[d].base /\ op[d].base <= revision
      BY <1>2 DEF DeviceKnows
    <3>2. op[d].base \in Nat /\ synced[d] \in Nat /\ revision \in Nat
      BY Numbers
    <3> QED BY <3>1, <3>2
  <2>2. op[d].rows = secrets /\ Covers(local[d], secrets, {})
    BY <1>2, <2>1 DEF DeviceKnows, HasRows
  <2> QED BY <1>4, <1>6, <2>2 DEF Covers, Present
<1>10. Covers(local'[d], secrets, {}) = Covers(local[d], secrets, {})'
  BY <1>2 DEF Covers, Present, RowCovers
<1> QED
  BY <1>2, <1>3, <1>8, <1>9, <1>10 DEF DeviceKnows, HasRows

(* The steps of a command that leave the local rows and the server alone.   *)
LEMMA KnowsMove ==
    ASSUME TypeInv, NEW d \in Devices, DeviceKnows(d),
           \/ ReadRevision(d) \/ ReadRows(d) \/ AdoptRotation(d)
           \/ EndRefresh(d) \/ SetSynced(d) \/ Diff(d) \/ CheckGrant(d)
           \/ WriteConflict(d) \/ Acknowledge(d)
    PROVE  DeviceKnows(d)'
<1>1. /\ op \in [Devices -> Op] /\ op[d] \in Op
      /\ synced \in [Devices -> Nat]
      /\ op[d].base \in Nat /\ synced[d] \in Nat /\ revision \in Nat
  BY Numbers
<1>2. UNCHANGED <<secrets, revision, vaultKey, local>>
  BY DEF ReadRevision, ReadRows, AdoptRotation, EndRefresh, SetSynced, Diff,
         CheckGrant, WriteConflict, Acknowledge, serverVars
<1>3. Covers(local[d], secrets, {})' = Covers(local[d], secrets, {})
  BY <1>2 DEF Covers, Present, RowCovers
<1>4. Covers(local[d], op[d].rows, op[d].todo \cup op[d].take)' =
          Covers(local[d], op'[d].rows, op'[d].todo \cup op'[d].take)
  BY <1>2 DEF Covers, Present, RowCovers
<1>5. Covers(op[d].mine, op[d].rows, {})' =
          Covers(op'[d].mine, op'[d].rows, {})
  BY DEF Covers, Present, RowCovers
<1>6. /\ synced[d] <= revision
      /\ synced[d] = revision => Covers(local[d], secrets, {})
  BY DEF DeviceKnows
<1>7. ASSUME op'[d].pc \in {"idle", "start"}, synced' = synced
      PROVE  DeviceKnows(d)'
  BY <1>2, <1>3, <1>6, <1>7 DEF DeviceKnows, HasRows
<1>8. Idle.pc = "idle"
  BY DEF Idle
<1>9. CASE ReadRevision(d)
  <2>1. synced' = synced
    BY <1>9 DEF ReadRevision
  <2>2. CASE op' = [op EXCEPT ![d] = Idle]
    BY <1>1, <1>7, <1>8, <2>1, <2>2
  <2>3. CASE op' = [op EXCEPT ![d].pc = "rows", ![d].base = revision]
    <3>1. op'[d].pc = "rows" /\ op'[d].base = revision
      BY <1>1, <2>3 DEF Op
    <3> QED BY <1>1, <1>2, <1>3, <1>6, <2>1, <3>1 DEF DeviceKnows, HasRows
  <2> QED BY <1>9, <2>2, <2>3 DEF ReadRevision, Finish
<1>10. CASE ReadRows(d)
  <2>1. /\ synced' = synced /\ op[d].pc = "rows"
        /\ \E pc \in {"adopt", "apply"} :
               op' = [op EXCEPT ![d].rows = secrets,
                                ![d].todo = Present(secrets), ![d].pc = pc]
    BY <1>10 DEF ReadRows
  <2>2. /\ op'[d].pc \in {"adopt", "apply"} /\ op'[d].rows = secrets
        /\ op'[d].base = op[d].base /\ op'[d].todo = Present(secrets)
    BY <1>1, <2>1 DEF Op
  <2>3. Covers(local[d], op'[d].rows, op'[d].todo \cup op'[d].take)
    BY <2>2 DEF Covers
  <2> QED BY <1>1, <1>2, <1>3, <1>4, <1>6, <2>1, <2>2, <2>3
          DEF DeviceKnows, HasRows
<1>11. CASE AdoptRotation(d)
  <2>1. synced' = synced /\ op[d].pc = "adopt"
    BY <1>11 DEF AdoptRotation
  <2>2. CASE op' = [op EXCEPT ![d] = Idle]
    BY <1>1, <1>7, <1>8, <2>1, <2>2
  <2>3. CASE op' = [op EXCEPT ![d].pc = "apply"]
    <3>1. /\ op'[d].pc = "apply" /\ op'[d].base = op[d].base
          /\ op'[d].rows = op[d].rows
          /\ op'[d].todo = op[d].todo /\ op'[d].take = op[d].take
      BY <1>1, <2>3 DEF Op
    <3> QED BY <1>2, <1>3, <1>4, <1>6, <2>1, <3>1 DEF DeviceKnows, HasRows
  <2>4. CASE op' = [op EXCEPT ![d].pc = "apply", ![d].force = TRUE,
                              ![d].todo = Present(op[d].rows)]
    <3>1. /\ op'[d].pc = "apply" /\ op'[d].base = op[d].base
          /\ op'[d].rows = op[d].rows
          /\ op'[d].todo = Present(op[d].rows)
      BY <1>1, <2>4 DEF Op
    <3>2. Covers(local[d], op'[d].rows, op'[d].todo \cup op'[d].take)
      BY <3>1 DEF Covers
    <3> QED BY <1>2, <1>3, <1>4, <1>6, <2>1, <3>1, <3>2
            DEF DeviceKnows, HasRows
  <2> QED BY <1>11, <2>2, <2>3, <2>4 DEF AdoptRotation, Finish, Goto
<1>12. CASE EndRefresh(d)
  <2>1. synced' = synced /\ op'[d].pc = "idle"
    BY <1>1, <1>8, <1>12 DEF EndRefresh, Finish
  <2> QED BY <1>7, <2>1
<1>13. CASE SetSynced(d)
  <2>1. /\ op[d].pc = "apply" /\ op[d].todo = {} /\ op[d].take = {}
        /\ synced' = [synced EXCEPT ![d] = op[d].base]
    BY <1>13 DEF SetSynced, Merged
  <2>2. \/ op' = [op EXCEPT ![d] = Idle]
        \/ op' = [op EXCEPT ![d].pc = "diff"]
    BY <1>13 DEF SetSynced, Finish, Goto
  <2>3. \/ op'[d].pc = "idle"
        \/ /\ op'[d].pc = "diff" /\ op'[d].base = op[d].base
           /\ op'[d].rows = op[d].rows
           /\ op'[d].todo = {} /\ op'[d].take = {}
    BY <1>1, <1>8, <2>1, <2>2 DEF Op
  <2>4. synced'[d] = op[d].base /\ op[d].base <= revision
    BY <1>1, <2>1 DEF DeviceKnows
  <2>5. Covers(local[d], op[d].rows, {})
    BY <2>1 DEF DeviceKnows, HasRows
  <2>6. op[d].base = revision => Covers(local[d], secrets, {})
    BY <2>1, <2>5 DEF DeviceKnows, HasRows
  <2> QED BY <1>1, <1>2, <1>3, <1>4, <2>1, <2>3, <2>4, <2>5, <2>6
          DEF DeviceKnows, HasRows
<1>14. CASE Diff(d)
  <2>1. /\ synced' = synced /\ op[d].pc = "diff"
        /\ op[d].todo = {} /\ op[d].take = {}
        /\ Covers(local[d], op[d].rows, {})
    BY <1>14 DEF Diff, DeviceKnows, HasRows
  <2>2. CASE op' = [op EXCEPT ![d].pc = "adopt", ![d].cmd = "refresh"]
    <3>1. /\ op'[d].pc = "adopt" /\ op'[d].base = op[d].base
          /\ op'[d].rows = op[d].rows
          /\ op'[d].todo = op[d].todo /\ op'[d].take = op[d].take
      BY <1>1, <2>2 DEF Op
    <3> QED BY <1>1, <1>2, <1>3, <1>4, <1>6, <2>1, <3>1
            DEF DeviceKnows, HasRows
  <2>3. CASE op' = [op EXCEPT ![d].pc = "check", ![d].mine = local[d]]
    <3>1. /\ op'[d].pc = "check" /\ op'[d].base = op[d].base
          /\ op'[d].rows = op[d].rows /\ op'[d].mine = local[d]
          /\ op'[d].todo = op[d].todo /\ op'[d].take = op[d].take
      BY <1>1, <2>3 DEF Op
    <3>2. \A s \in Secrets : RowCovers(local'[d][s], op'[d].mine[s])
      <4>1. GoodTable(local[d])
        BY Numbers
      <4> QED BY <1>2, <3>1, <4>1 DEF RowCovers, GoodTable, Row
    <3>3. \A s \in Secrets : RowCovers(local[d][s], op[d].mine[s])'
      BY <3>2 DEF RowCovers
    <3> QED BY <1>1, <1>2, <1>3, <1>4, <1>5, <1>6, <2>1, <3>1, <3>3
            DEF DeviceKnows, HasRows
  <2> QED BY <1>14, <2>2, <2>3 DEF Diff
<1>15. CASE CheckGrant(d)
  <2>1. synced' = synced /\ op[d].pc = "check"
    BY <1>15 DEF CheckGrant
  <2>2. CASE op' = [op EXCEPT ![d] = Idle]
    BY <1>1, <1>7, <1>8, <2>1, <2>2
  <2>3. CASE op' = [op EXCEPT ![d].pc = "write", ![d].checked = vaultKey]
    <3>1. /\ op'[d].pc = "write" /\ op'[d].base = op[d].base
          /\ op'[d].rows = op[d].rows /\ op'[d].mine = op[d].mine
          /\ op'[d].todo = op[d].todo /\ op'[d].take = op[d].take
          /\ op'[d].checked = vaultKey
      BY <1>1, <2>3 DEF Op
    <3>2. (\A s \in Secrets : RowCovers(local[d][s], op[d].mine[s])) =>
              \A s \in Secrets : RowCovers(local[d][s], op[d].mine[s])'
      BY <1>2, <3>1 DEF RowCovers
    <3> QED BY <1>1, <1>2, <1>3, <1>4, <1>5, <1>6, <2>1, <3>1, <3>2
            DEF DeviceKnows, HasRows
  <2> QED BY <1>15, <2>2, <2>3 DEF CheckGrant, Finish
<1>16. CASE WriteConflict(d)
  <2>1. synced' = synced
    BY <1>16 DEF WriteConflict
  <2>2. PICK o : op' = [op EXCEPT ![d] = o] /\ o.pc \in {"idle", "start"}
    <3> DEFINE again == [Idle EXCEPT !.pc = "start", !.cmd = "push",
                                     !.tries = op[d].tries + 1]
    <3>1. again.pc = "start"
      BY DEF Idle
    <3>2. op' = [op EXCEPT ![d] = again] \/ op' = [op EXCEPT ![d] = Idle]
      BY <1>16 DEF WriteConflict, Finish
    <3> HIDE DEF again
    <3> QED BY <1>8, <3>1, <3>2
  <2> QED BY <1>1, <1>7, <2>1, <2>2
<1>17. CASE Acknowledge(d)
  <2>1. /\ op[d].pc = "ack" /\ synced'[d] = op[d].base + 1
        /\ op'[d].pc = "idle"
    BY <1>1, <1>8, <1>17 DEF Acknowledge, Finish
  <2>2. /\ op[d].base < revision
        /\ op[d].base + 1 = revision => Covers(local[d], secrets, {})
    BY <2>1 DEF DeviceKnows
  <2> QED BY <1>1, <1>2, <1>3, <2>1, <2>2 DEF DeviceKnows, HasRows
<1> QED
  BY <1>9, <1>10, <1>11, <1>12, <1>13, <1>14, <1>15, <1>16, <1>17

(* The batch a device commits was computed against the rows that are there, *)
(* from a store that had merged them.                                       *)
LEMMA CommitCurrent ==
    ASSUME TypeInv, NEW d \in Devices, DeviceKnows(d), WriteAccepted(d)
    PROVE  /\ op[d].base = revision /\ op[d].rows = secrets
           /\ op[d].checked = vaultKey
           /\ Covers(op[d].mine, secrets, {})
           /\ \A s \in Secrets : RowCovers(local[d][s], op[d].mine[s])
           /\ op[d].pc = "write"
           /\ secrets' = SecretsAfter(SetsOf(op[d].mine, secrets),
                                      ToDelete(op[d].mine, secrets))
           /\ revision' = revision + 1
BY DEF WriteAccepted, WriteSecrets, BaseIsCurrent, NextRevision, DeviceKnows,
       HasRows

(* What an accepted batch makes of a row.                                  *)
LEMMA CommitRow ==
    ASSUME TypeInv, NEW d \in Devices, DeviceKnows(d), WriteAccepted(d),
           NEW s \in Secrets
    PROVE  \/ /\ secrets'[s].ver = op[d].mine[s].ver
              /\ ~secrets'[s].deleted
              /\ op[d].mine[s].ver > secrets[s].ver
           \/ /\ secrets'[s] = [secrets[s] EXCEPT !.deleted = TRUE]
              /\ op[d].mine[s].deleted /\ secrets[s].ver > 0
           \/ secrets'[s] = secrets[s]
<1>1. /\ secrets' = SecretsAfter(SetsOf(op[d].mine, secrets),
                                 ToDelete(op[d].mine, secrets))
      /\ GoodTable(op[d].mine) /\ GoodTable(secrets)
  BY CommitCurrent, Numbers
<1>2. CASE s \in DOMAIN SetsOf(op[d].mine, secrets)
  <2>1. /\ SetsOf(op[d].mine, secrets)[s].ver = op[d].mine[s].ver
        /\ op[d].mine[s].ver > secrets[s].ver
    BY <1>1, <1>2, SetsOfType
  <2> QED BY <1>1, <1>2, <2>1 DEF SecretsAfter
<1>3. CASE s \notin DOMAIN SetsOf(op[d].mine, secrets)
  BY <1>1, <1>3 DEF SecretsAfter, ToDelete, Present
<1> QED
  BY <1>2, <1>3

(* The one step that changes rows under a running device: its own write.   *)
LEMMA KnowsCommit ==
    ASSUME TypeInv, NEW d \in Devices, DeviceKnows(d), WriteAccepted(d)
    PROVE  DeviceKnows(d)'
<1>1. /\ op \in [Devices -> Op] /\ op[d] \in Op
      /\ op[d].base \in Nat /\ synced[d] \in Nat /\ revision \in Nat
      /\ GoodTable(local[d]) /\ GoodTable(op[d].mine) /\ GoodTable(secrets)
  BY Numbers
<1>2. /\ op[d].base = revision
      /\ Covers(op[d].mine, secrets, {})
      /\ \A s \in Secrets : RowCovers(local[d][s], op[d].mine[s])
      /\ op[d].pc = "write" /\ revision' = revision + 1
  BY CommitCurrent
<1>3. UNCHANGED <<local, synced>>
  BY DEF WriteAccepted
<1>4. op'[d].pc = "ack" /\ op'[d].base = op[d].base
  <2>1. op' = [op EXCEPT ![d] = [Idle EXCEPT !.pc = "ack",
                                             !.base = op[d].base]]
    BY DEF WriteAccepted
  <2> QED BY <1>1, <2>1 DEF Idle
<1>5. ASSUME NEW s \in Secrets, secrets'[s].ver > 0
      PROVE  RowCovers(local[d][s], secrets'[s])
  <2>1. /\ local[d][s] \in Row /\ op[d].mine[s] \in Row /\ secrets[s] \in Row
        /\ RowCovers(local[d][s], op[d].mine[s])
    BY <1>1, <1>2 DEF GoodTable
  <2>2. CASE /\ secrets'[s].ver = op[d].mine[s].ver
             /\ ~secrets'[s].deleted
    BY <2>1, <2>2 DEF RowCovers
  <2>3. CASE /\ secrets'[s] = [secrets[s] EXCEPT !.deleted = TRUE]
             /\ op[d].mine[s].deleted /\ secrets[s].ver > 0
    <3>1. RowCovers(op[d].mine[s], secrets[s])
      BY <1>2, <2>3 DEF Covers, Present
    <3>2. secrets'[s].ver = secrets[s].ver
      BY <2>1, <2>3 DEF Row
    <3> QED BY <2>1, <2>3, <3>1, <3>2 DEF RowCovers, Row
  <2>4. CASE secrets'[s] = secrets[s]
    <3>1. RowCovers(op[d].mine[s], secrets[s])
      BY <1>2, <1>5, <2>4 DEF Covers, Present
    <3> QED BY <2>1, <2>4, <3>1 DEF RowCovers, Row
  <2> QED BY <2>2, <2>3, <2>4, CommitRow
<1>6. Covers(local[d], secrets, {})'
  BY <1>3, <1>5 DEF Covers, Present, RowCovers
<1>7. synced[d] <= op[d].base
  BY <1>2 DEF DeviceKnows
<1> QED
  BY <1>1, <1>2, <1>3, <1>4, <1>6, <1>7 DEF DeviceKnows, HasRows

(* Every step keeps what the devices know about the server.                *)
LEMMA SyncInvStep == SyncInv /\ [SyncNext]_vars => SyncInv'
<1> SUFFICES ASSUME SyncInv, [SyncNext]_vars PROVE SyncInv'
  OBVIOUS
<1>1. TypeInv /\ TypeInv' /\ ServerMoves
  BY SyncTypeStep, ServerStep DEF SyncInv
<1>2. \A d \in Devices : DeviceKnows(d)
  BY DEF SyncInv
<1> DEFINE Moves(d) == \/ DeviceStep(d) \/ Edit(d) \/ Clone(d) \/ StartPull(d)
                       \/ StartPush(d) \/ Abort(d)
<1>3. ASSUME NEW d \in Devices, Moves(d)
      PROVE  /\ DeviceKnows(d)'
             /\ \A e \in Devices \ {d} : /\ op'[e] = op[e]
                                         /\ local'[e] = local[e]
                                         /\ synced'[e] = synced[e]
  <2>1. DeviceKnows(d)'
    BY <1>1, <1>2, <1>3, KnowsEdit, KnowsIdle, KnowsFind, KnowsPut, KnowsMove,
       KnowsCommit DEF DeviceStep
  <2>2. /\ op \in [Devices -> Op] /\ local \in [Devices -> [Secrets -> Row]]
        /\ synced \in [Devices -> Nat]
    BY <1>1, Numbers
  <2>3. \A e \in Devices \ {d} : op'[e] = op[e]
    BY <1>3, <2>2
       DEF DeviceStep, Edit, Clone, StartPull, StartPush, Abort,
           ReadRevision, ReadRows, AdoptRotation, FindRow, PutRow, EndRefresh,
           SetSynced, Diff, CheckGrant, WriteAccepted, WriteConflict,
           Acknowledge, LocalSet, LocalDelete, Rollback, Goto, Finish
  <2>4. \A e \in Devices \ {d} : local'[e] = local[e]
    BY <1>3, <2>2
       DEF DeviceStep, Edit, Clone, StartPull, StartPush, Abort,
           ReadRevision, ReadRows, AdoptRotation, FindRow, PutRow, EndRefresh,
           SetSynced, Diff, CheckGrant, WriteAccepted, WriteConflict,
           Acknowledge, LocalSet, LocalDelete, Rollback
  <2>5. \A e \in Devices \ {d} : synced'[e] = synced[e]
    BY <1>3, <2>2
       DEF DeviceStep, Edit, Clone, StartPull, StartPush, Abort,
           ReadRevision, ReadRows, AdoptRotation, FindRow, PutRow, EndRefresh,
           SetSynced, Diff, CheckGrant, WriteAccepted, WriteConflict,
           Acknowledge, LocalSet, LocalDelete, Rollback
  <2> QED BY <2>1, <2>3, <2>4, <2>5
<1>4. CASE \E d \in Devices : Moves(d)
  BY <1>1, <1>2, <1>3, <1>4, KnowsFrame DEF SyncInv
<1>5. CASE TeamStep \/ UNCHANGED vars
  <2>1. UNCHANGED deviceVars
    BY <1>5 DEF TeamStep, Share, RotateEnv, vars
  <2>2. \A d \in Devices : DeviceKnows(d)'
    BY <1>1, <1>2, <2>1, KnowsFrame DEF deviceVars
  <2> QED BY <1>1, <2>2 DEF SyncInv
<1> QED
  BY <1>4, <1>5 DEF SyncNext

(* The inductive invariant holds in every reachable state.                 *)
LEMMA SyncInvariant == SyncSpec => []SyncInv
BY KnowsInit, SyncInvStep, PTL DEF SyncSpec

-----------------------------------------------------------------------------
(* What it is good for *)

(* A 304 never hides a change (sync_state.synced_revision, `pull`): for any *)
(* devices, racing, crashing or losing replies, a device whose synced       *)
(* revision is the server's has every version and tombstone of the server.  *)
THEOREM SyncedIsCovered == SyncSpec => []SyncedCoversServer
<1>1. SyncInv => SyncedCoversServer
  BY DEF SyncInv, DeviceKnows, Covers, RowCovers, SyncedCoversServer
<1> QED
  BY <1>1, SyncInvariant, PTL

(* A command reaches "ack" from "write" only through its accepted batch.   *)
LEMMA OnlyCommitsAck ==
    ASSUME TypeInv, SyncNext, NEW d \in Devices,
           op[d].pc = "write", op'[d].pc = "ack"
    PROVE  WriteAccepted(d)
<1>1. op \in [Devices -> Op]
  BY Numbers
<1>2. PICK e \in Devices :
          \/ DeviceStep(e) \/ Clone(e) \/ StartPull(e) \/ StartPush(e)
          \/ Abort(e)
  <2>1. ~UNCHANGED op
    OBVIOUS
  <2> QED BY <2>1 DEF SyncNext, TeamStep, Share, RotateEnv, deviceVars,
                      Edit, LocalSet, LocalDelete, Rollback
<1>3. ASSUME NEW o, op' = [op EXCEPT ![e] = o],
             op[e].pc # "write" \/ o.pc # "ack"
      PROVE  FALSE
  BY <1>1, <1>3
<1>4. CASE Clone(e) \/ StartPull(e) \/ StartPush(e)
  <2>1. op[e].pc = "idle" /\ \E o : op' = [op EXCEPT ![e] = o]
    BY <1>4 DEF Clone, StartPull, StartPush, Ready
  <2> QED BY <2>1, <1>3
<1>5. CASE Abort(e)
  BY <1>3, <1>5 DEF Abort, Finish, Idle
<1>6. CASE ReadRevision(e) \/ ReadRows(e) \/ AdoptRotation(e) \/ EndRefresh(e)
  <2>1. op[e].pc # "write" /\ \E o : op' = [op EXCEPT ![e] = o]
    BY <1>6
       DEF ReadRevision, ReadRows, AdoptRotation, EndRefresh, Merged, Finish,
           Goto
  <2> QED BY <2>1, <1>3
<1>7. CASE \E s \in Secrets : FindRow(e, s) \/ PutRow(e, s)
  <2>1. op[e].pc # "write" /\ \E o : op' = [op EXCEPT ![e] = o]
    BY <1>7 DEF FindRow, PutRow
  <2> QED BY <2>1, <1>3
<1>8. CASE SetSynced(e) \/ Diff(e) \/ CheckGrant(e) \/ Acknowledge(e)
  <2>1. op[e].pc # "write" /\ \E o : op' = [op EXCEPT ![e] = o]
    BY <1>8
       DEF SetSynced, Merged, Diff, CheckGrant, Acknowledge, Finish, Goto
  <2> QED BY <2>1, <1>3
<1>9. CASE WriteConflict(e)
  <2> DEFINE again == [Idle EXCEPT !.pc = "start", !.cmd = "push",
                                   !.tries = op[e].tries + 1]
  <2>1. again.pc # "ack" /\ Idle.pc # "ack"
    BY DEF Idle
  <2>2. op' = [op EXCEPT ![e] = again] \/ op' = [op EXCEPT ![e] = Idle]
    BY <1>9 DEF WriteConflict, Finish
  <2> HIDE DEF again
  <2> QED BY <2>1, <2>2, <1>3
<1>10. CASE WriteAccepted(e)
  <2>1. \E o : op' = [op EXCEPT ![e] = o]
    BY <1>10 DEF WriteAccepted
  <2>2. e = d
    BY <1>1, <2>1
  <2> QED BY <1>10, <2>2
<1> QED
  BY <1>2, <1>4, <1>5, <1>6, <1>7, <1>8, <1>9, <1>10 DEF DeviceStep

(* The grant check and the commit of a push are two requests, yet no        *)
(* rotation is accepted between them (`push`, grant_changed, the base check *)
(* of write_secrets).                                                       *)
THEOREM CheckHoldsAtCommit == SyncSpec => CommitUnderCheckedKey
<1>1. ASSUME SyncInv, SyncNext, NEW d \in Devices,
             op[d].pc = "write", op'[d].pc = "ack"
      PROVE  vaultKey = op[d].checked
  BY <1>1, OnlyCommitsAck, CommitCurrent DEF SyncInv
<1>2. SyncInv /\ [SyncNext]_vars =>
         [\A d \in Devices : op[d].pc = "write" /\ op'[d].pc = "ack" =>
                                 vaultKey = op[d].checked]_vars
  BY <1>1
<1> QED
  BY <1>2, SyncInvariant, PTL DEF SyncSpec, CommitUnderCheckedKey

(* No lost update on the server: whatever its device's other terminals,     *)
(* other devices and rotations do between the lookup of a row and the       *)
(* commit, a push replaces or deletes only what its device had merged when  *)
(* it computed the changes (apply_snapshot, `diff`, write_secrets).         *)
THEOREM PushesKnowWhatTheyReplace == SyncSpec => NothingReplacedUnseen
<1> DEFINE Seen(d, s) ==
             /\ op[d].pc = "write" /\ op'[d].pc = "ack"
             /\ secrets'[s] # secrets[s]
             => /\ op[d].mine[s].ver >= secrets[s].ver
                /\ op[d].mine[s].ver = secrets[s].ver =>
                       op[d].mine[s].deleted
<1>1. ASSUME SyncInv, SyncNext, NEW d \in Devices, NEW s \in Secrets
      PROVE  Seen(d, s)
  <2> SUFFICES ASSUME op[d].pc = "write", op'[d].pc = "ack",
                      secrets'[s] # secrets[s]
               PROVE  /\ op[d].mine[s].ver >= secrets[s].ver
                      /\ op[d].mine[s].ver = secrets[s].ver =>
                             op[d].mine[s].deleted
    OBVIOUS
  <2>1. TypeInv /\ DeviceKnows(d) /\ WriteAccepted(d)
    BY <1>1, OnlyCommitsAck DEF SyncInv
  <2>2. op[d].mine[s] \in Row /\ secrets[s] \in Row
    BY <2>1, Numbers DEF GoodTable
  <2>3. secrets[s].ver > 0 => RowCovers(op[d].mine[s], secrets[s])
    BY <2>1, CommitCurrent DEF Covers, Present
  <2>4. CASE op[d].mine[s].ver > secrets[s].ver
    BY <2>2, <2>4 DEF Row
  <2>5. CASE op[d].mine[s].deleted /\ secrets[s].ver > 0
    BY <2>2, <2>3, <2>5 DEF RowCovers, Row
  <2>6. \/ op[d].mine[s].ver > secrets[s].ver
        \/ op[d].mine[s].deleted /\ secrets[s].ver > 0
    BY <2>1, CommitRow
  <2> QED BY <2>4, <2>5, <2>6
<1>2. SyncInv /\ [SyncNext]_vars =>
         [\A d \in Devices, s \in Secrets : Seen(d, s)]_vars
  BY <1>1
<1> QED
  BY <1>2, SyncInvariant, PTL DEF SyncSpec, NothingReplacedUnseen

(* Pushes that race, repeat or follow a lost reply never move a secret      *)
(* backwards on the server, nor give a version a second content (`diff`,    *)
(* write_secrets).                                                          *)
THEOREM ServerMovesForward == SyncSpec => VersionsMoveForward
<1> DEFINE Forward(s) ==
             /\ secrets'[s].ver >= secrets[s].ver
             /\ \/ secrets'[s].val # secrets[s].val
                \/ secrets[s].deleted /\ ~secrets'[s].deleted
                => secrets'[s].ver > secrets[s].ver
<1>1. ASSUME SyncInv, NEW d \in Devices, WriteAccepted(d), NEW s \in Secrets
      PROVE  Forward(s)
  <2>1. secrets[s] \in Row /\ op[d].mine[s] \in Row
    BY <1>1, Numbers DEF SyncInv, GoodTable
  <2>2. CASE secrets'[s] = [secrets[s] EXCEPT !.deleted = TRUE]
    BY <2>1, <2>2 DEF Row
  <2>3. CASE secrets'[s] = secrets[s]
    BY <2>1, <2>3 DEF Row
  <2>4. CASE /\ secrets'[s].ver = op[d].mine[s].ver
             /\ op[d].mine[s].ver > secrets[s].ver
    BY <2>1, <2>4 DEF Row
  <2> QED BY <1>1, <2>2, <2>3, <2>4, CommitRow DEF SyncInv
<1>2. ASSUME SyncInv, TeamStep, NEW s \in Secrets
      PROVE  Forward(s)
  <2>1. secrets[s] \in Row
    BY <1>2 DEF SyncInv, TypeInv, GoodTable
  <2>2. \/ secrets'[s] = secrets[s]
        \/ \E k : secrets'[s] = [secrets[s] EXCEPT !.key = k]
    BY <1>2
       DEF TeamStep, Share, CreateGrant, RotateEnv, Rotate, RewrapSecrets
  <2>3. /\ secrets'[s].ver = secrets[s].ver
        /\ secrets'[s].val = secrets[s].val
        /\ secrets'[s].deleted = secrets[s].deleted
    BY <2>1, <2>2 DEF Row
  <2>4. secrets[s].ver \in Nat
    BY <2>1 DEF Row
  <2> QED BY <2>3, <2>4
<1>3. ASSUME SyncInv, SyncNext, NEW s \in Secrets
      PROVE  Forward(s)
  <2>1. \/ \E d \in Devices : WriteAccepted(d)
        \/ TeamStep
        \/ UNCHANGED secrets
    BY <1>3, QuietSteps DEF SyncNext, serverVars
  <2>2. secrets[s].ver \in Nat
    BY <1>3 DEF SyncInv, TypeInv, GoodTable, Row
  <2> QED BY <1>1, <1>2, <1>3, <2>1, <2>2
<1>4. SyncInv /\ [SyncNext]_vars => [\A s \in Secrets : Forward(s)]_vars
  BY <1>3
<1> QED
  BY <1>4, SyncInvariant, PTL DEF SyncSpec, VersionsMoveForward

=============================================================================
