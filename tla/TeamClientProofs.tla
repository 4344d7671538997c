--------------------------- MODULE TeamClientProofs ---------------------------
(***************************************************************************)
(* Proofs about TeamClient, for any staff, any shifts and any bounds.      *)
(*                                                                         *)
(* RotationKeepsAccess rests on what a rotation still knows when it posts: *)
(* the members it listed, unless `since` names them, still have the public *)
(* key they had then, and whoever holds a grant is among its holders.      *)
(* RemovalLeavesNoKey rests on one fact about a removal that has come to   *)
(* its last request: unless `since` names one of the two, the member or    *)
(* the remover is without a grant.  In the first case the member does not  *)
(* know the key in force by a grant, since that takes one that only a      *)
(* rotation, a reset or a removal takes away; in the second the server     *)
(* accepts the removal only if nobody who stays has a grant.  The other     *)
(* way to know it is a machine token, and only a rotation changes to which  *)
(* key a token is sealed, so the token still holds it at the removal.       *)
(***************************************************************************)
EXTENDS TeamClient, EnvServerProofs

-----------------------------------------------------------------------------
(* The invariant *)

(* The commands a user can be at. *)
Targets == Users \cup {NoUser}

Attempts ==
    [at : {"rows", "holders", "tokens", "rotate"}, target : Targets,
     then : {"idle", "delete"}, keys : UNION {[M -> Nat] : M \in SUBSET Users},
     left : Nat, base : Nat, rows : SUBSET Secrets,
     versions : SUBSET (Secrets \X Nat), holders : SUBSET Users,
     tokens : SUBSET Tokens, since : SUBSET Users]

Removals ==
    [at : {"held", "peers", "members"}, target : Users, listed : SUBSET Users,
     since : SUBSET Users]

Deletions == [at : {"delete"}, target : Targets, since : SUBSET Users]

Shares ==
    [at : {"share"}, target : Users, box : Sealed, since : SUBSET Users]

CommandTypes == {Idle} \cup Attempts \cup Removals \cup Deletions \cup Shares

TeamTypeOK ==
    /\ TypeOK
    /\ cmd \in [Users -> CommandTypes]
    /\ local \in [Users -> Nat \cup {NoKey}]
    /\ held \in [Users -> SUBSET Nat]

(* No vault key exists that was not made by a rotation. *)
KeysMade ==
    \A u \in Users :
        /\ local[u] # NoKey => local[u] <= vaultKey
        /\ \A k \in held[u] : k <= vaultKey
        /\ grants[u] # NoGrant => grants[u].key <= vaultKey
        /\ cmd[u].at = "share" => cmd[u].box.key <= vaultKey

SealedUnderMade == \A t \in Tokens : tokens[t].sealed <= vaultKey

(* Whoever could fetch the key in force, and is still a member with the     *)
(* same account, has a grant or a machine token sealed to it.               *)
KnowingHold ==
    \A u \in Users :
        /\ role[u] = "none" => held[u] = {}
        /\ vaultKey \in held[u] => grants[u] # NoGrant \/ HasToken(u)

(* What a rotation listed, and what it has not noticed. *)
ListedMember(u, h) ==
    role[h] # "none" /\ h \notin cmd[u].since =>
        h \in DOMAIN cmd[u].keys /\ cmd[u].keys[h] = pubkey[h]

RotationKnows(u) ==
    /\ cmd[u].at \in {"rows", "holders", "tokens", "rotate"} =>
          \A h \in Users : ListedMember(u, h)
    /\ cmd[u].at \in {"tokens", "rotate"} =>
          /\ cmd[u].holders \subseteq DOMAIN cmd[u].keys
          /\ cmd[u].target \notin cmd[u].holders
          /\ \A h \in Users \ (cmd[u].since \cup {cmd[u].target}) :
                grants[h] # NoGrant => h \in cmd[u].holders

RemovalKnows(u) ==
    /\ cmd[u].at = "peers" => u \in cmd[u].since \/ grants[u] = NoGrant
    /\ cmd[u].at = "delete" =>
          /\ cmd[u].target \in Users
          /\ \/ {cmd[u].target, u} \cap cmd[u].since # {}
             \/ grants[cmd[u].target] = NoGrant
             \/ grants[u] = NoGrant

(* A rotation on behalf of a removal is about a user. *)
RotationAims(u) ==
    cmd[u].at \in {"rows", "holders", "tokens", "rotate"}
        /\ cmd[u].then = "delete" => cmd[u].target \in Users

TeamInv ==
    /\ TeamTypeOK
    /\ GrantsOnlyForMembers
    /\ TokensAnswerToMembers
    /\ KeysMade
    /\ SealedUnderMade
    /\ KnowingHold
    /\ \A u \in Users : RotationKnows(u) /\ RemovalKnows(u) /\ RotationAims(u)

-----------------------------------------------------------------------------
(* Commands *)

Rotating(u) == cmd[u].at \in {"rows", "holders", "tokens", "rotate"}

(* Which fields a command has follows from the request it is at.           *)
LEMMA CommandFields ==
    ASSUME NEW c \in CommandTypes
    PROVE  /\ c.at = "idle" <=> c = Idle
           /\ c.at # "idle" => c.since \subseteq Users /\ c.target \in Targets
           /\ c.at \in {"rows", "holders", "tokens", "rotate"} <=> c \in Attempts
           /\ c.at \in {"held", "peers", "members"} <=> c \in Removals
           /\ c.at = "delete" <=> c \in Deletions
           /\ c.at = "share" <=> c \in Shares
<1>1. CASE c = Idle
  BY <1>1 DEF Idle, Attempts, Removals, Deletions, Shares
<1>2. CASE c \in Attempts
  BY <1>2 DEF Idle, Attempts, Removals, Deletions, Shares
<1>3. CASE c \in Removals
  BY <1>3 DEF Idle, Attempts, Removals, Deletions, Shares, Targets
<1>4. CASE c \in Deletions
  BY <1>4 DEF Idle, Attempts, Removals, Deletions, Shares
<1>5. CASE c \in Shares
  BY <1>5 DEF Idle, Attempts, Removals, Deletions, Shares, Targets
<1> QED BY <1>1, <1>2, <1>3, <1>4, <1>5 DEF CommandTypes

LEMMA SinceOnly ==
    ASSUME NEW c \in CommandTypes, c # Idle, NEW U \in SUBSET Users,
           NEW d, d = [c EXCEPT !.since = c.since \cup U]
    PROVE  /\ d \in CommandTypes
           /\ d.at = c.at /\ d.target = c.target
           /\ d.since = c.since \cup U
           /\ c \in Attempts =>
                 d.then = c.then /\ d.keys = c.keys /\ d.holders = c.holders
           /\ c \in Shares => d.box = c.box
<1>1. CASE c \in Attempts
  <2>1. d \in Attempts
    BY <1>1 DEF Attempts
  <2> QED BY <1>1, <2>1, CommandFields DEF CommandTypes, Attempts
<1>2. CASE c \in Removals
  <2>1. d \in Removals
    BY <1>2 DEF Removals
  <2> QED BY <1>2, <2>1, CommandFields DEF CommandTypes, Removals
<1>3. CASE c \in Deletions
  <2>1. d \in Deletions
    BY <1>3 DEF Deletions
  <2> QED BY <1>3, <2>1, CommandFields DEF CommandTypes, Deletions
<1>4. CASE c \in Shares
  <2>1. d \in Shares
    BY <1>4 DEF Shares
  <2> QED BY <1>4, <2>1, CommandFields DEF CommandTypes, Shares
<1> QED BY <1>1, <1>2, <1>3, <1>4 DEF CommandTypes

(* The command goes on, and may have noticed more. *)
SameCommand(v) ==
    /\ cmd'[v].at = cmd[v].at
    /\ cmd[v].at # "idle" =>
          /\ cmd'[v].target = cmd[v].target
          /\ cmd[v].since \subseteq cmd'[v].since
    /\ Rotating(v) =>
          /\ cmd'[v].then = cmd[v].then
          /\ cmd'[v].keys = cmd[v].keys
          /\ cmd'[v].holders = cmd[v].holders
    /\ cmd[v].at = "share" => cmd'[v].box = cmd[v].box

(* Noticing adds to `since` and to nothing else.                           *)
LEMMA NoticedAdds ==
    ASSUME NEW running \in [Users -> CommandTypes], NEW U \in SUBSET Users,
           Noticed(running, U)
    PROVE  /\ cmd' \in [Users -> CommandTypes]
           /\ \A v \in Users :
                 /\ running[v] = Idle => cmd'[v] = Idle
                 /\ running[v] = cmd[v] =>
                       /\ SameCommand(v)
                       /\ cmd[v] # Idle => cmd'[v].since = cmd[v].since \cup U
                 /\ running[v].at = "delete" =>
                       /\ cmd'[v].at = "delete"
                       /\ cmd'[v].target = running[v].target
                       /\ cmd'[v].since = running[v].since \cup U
<1> SUFFICES ASSUME NEW v \in Users
             PROVE  /\ cmd'[v] \in CommandTypes
                    /\ running[v] = Idle => cmd'[v] = Idle
                    /\ running[v] = cmd[v] =>
                          /\ SameCommand(v)
                          /\ cmd[v] # Idle => cmd'[v].since = cmd[v].since \cup U
                    /\ running[v].at = "delete" =>
                          /\ cmd'[v].at = "delete"
                          /\ cmd'[v].target = running[v].target
                          /\ cmd'[v].since = running[v].since \cup U
  BY DEF Noticed
<1>1. running[v] \in CommandTypes
  OBVIOUS
<1>2. CASE running[v] = Idle
  <2>1. cmd'[v] = Idle
    BY <1>2 DEF Noticed
  <2> QED BY <1>2, <2>1 DEF CommandTypes, SameCommand, Rotating, Idle
<1>3. CASE running[v] # Idle
  <2>1. cmd'[v] = [running[v] EXCEPT !.since = running[v].since \cup U]
    BY <1>3 DEF Noticed
  <2>2. /\ cmd'[v] \in CommandTypes
        /\ cmd'[v].at = running[v].at /\ cmd'[v].target = running[v].target
        /\ cmd'[v].since = running[v].since \cup U
        /\ running[v] \in Attempts =>
              /\ cmd'[v].then = running[v].then
              /\ cmd'[v].keys = running[v].keys
              /\ cmd'[v].holders = running[v].holders
        /\ running[v] \in Shares => cmd'[v].box = running[v].box
    BY <1>1, <1>3, <2>1, SinceOnly
  <2>3. running[v] = cmd[v] => SameCommand(v)
    BY <1>1, <2>2, CommandFields DEF SameCommand, Rotating
  <2> QED BY <1>3, <2>2, <2>3
<1> QED BY <1>2, <1>3

(* A running command that is not the one that acts keeps what it knows, if *)
(* it notices whoever joins, gets a new key pair or gets a grant.          *)
LEMMA Bystander ==
    ASSUME TeamInv, NEW v \in Users, SameCommand(v),
           cmd[v].at # "idle" =>
              \A h \in Users \ cmd'[v].since :
                 /\ role'[h] # "none" =>
                       role[h] # "none" /\ pubkey'[h] = pubkey[h]
                 /\ grants'[h] # NoGrant => grants[h] # NoGrant
    PROVE  RotationKnows(v)' /\ RemovalKnows(v)' /\ RotationAims(v)'
<1>1. RotationKnows(v) /\ RemovalKnows(v) /\ RotationAims(v)
  BY DEF TeamInv
<1>2. cmd[v].at = "idle" => RotationKnows(v)' /\ RemovalKnows(v)' /\ RotationAims(v)'
  BY DEF RotationKnows, RemovalKnows, RotationAims, SameCommand
<1>3. ASSUME cmd[v].at # "idle" PROVE RotationKnows(v)'
  <2>1. Rotating(v)' => \A h \in Users : ListedMember(v, h)'
    BY <1>1, <1>3 DEF RotationKnows, ListedMember, SameCommand, Rotating
  <2>2. ASSUME cmd'[v].at \in {"tokens", "rotate"}
        PROVE  /\ cmd'[v].holders \subseteq DOMAIN cmd'[v].keys
               /\ cmd'[v].target \notin cmd'[v].holders
               /\ \A h \in Users \ (cmd'[v].since \cup {cmd'[v].target}) :
                     grants'[h] # NoGrant => h \in cmd'[v].holders
    BY <1>1, <1>3, <2>2 DEF RotationKnows, SameCommand, Rotating
  <2> QED BY <2>1, <2>2 DEF RotationKnows, Rotating
<1>4. ASSUME cmd[v].at # "idle" PROVE RemovalKnows(v)'
  BY <1>1, <1>4 DEF RemovalKnows, SameCommand
<1>5. RotationAims(v)'
  BY <1>1 DEF RotationAims, SameCommand, Rotating
<1> QED BY <1>2, <1>3, <1>4, <1>5

LEMMA TokensKept ==
    ASSUME TeamInv, UNCHANGED <<tokens, vaultKey>>,
           \A h \in Users : role[h] # "none" => role'[h] # "none"
    PROVE  TokensAnswerToMembers' /\ SealedUnderMade'
<1>1. TypeOK /\ TokensAnswerToMembers /\ SealedUnderMade
  BY DEF TeamInv, TeamTypeOK
<1>2. \A t \in Tokens : tokens[t].creator \in Users
  BY <1>1 DEF TypeOK, Token
<1> QED
  BY <1>1, <1>2 DEF TokensAnswerToMembers, SealedUnderMade, ActiveTokens

(* A request that only reads moves one command on. *)
LEMMA QuietStep ==
    ASSUME TeamInv, NEW u \in Users, NEW c \in CommandTypes,
           UNCHANGED <<serverVars, local, held>>,
           cmd' = [cmd EXCEPT ![u] = c],
           c.at = "share" => c.box.key <= vaultKey,
           RotationKnows(u)' /\ RemovalKnows(u)' /\ RotationAims(u)'
    PROVE  TeamInv'
<1>1. TeamTypeOK /\ GrantsOnlyForMembers /\ KeysMade /\ KnowingHold
  BY DEF TeamInv
<1>2. TeamTypeOK'
  BY <1>1 DEF TeamTypeOK, TypeOK, serverVars
<1>3. GrantsOnlyForMembers' /\ KnowingHold'
  BY <1>1 DEF GrantsOnlyForMembers, KnowingHold, HasToken, serverVars
<1>4. KeysMade'
  BY <1>1 DEF KeysMade, serverVars, TeamTypeOK
<1>6. TokensAnswerToMembers' /\ SealedUnderMade'
  BY TokensKept DEF TeamInv, serverVars
<1>5. ASSUME NEW v \in Users \ {u}
      PROVE  RotationKnows(v)' /\ RemovalKnows(v)' /\ RotationAims(v)'
  <2>1. cmd'[v] = cmd[v]
    BY <1>1 DEF TeamTypeOK
  <2>2. SameCommand(v)
    BY <2>1 DEF SameCommand
  <2> QED BY <2>2, Bystander DEF serverVars
<1> QED BY <1>2, <1>3, <1>4, <1>5, <1>6 DEF TeamInv

(* The new command knows nothing yet, or nothing but the members. *)
LEMMA QuietUnlessTokens ==
    ASSUME TeamInv, NEW u \in Users, NEW c \in CommandTypes,
           UNCHANGED <<serverVars, local, held>>,
           cmd' = [cmd EXCEPT ![u] = c],
           c.at \in {"idle", "held", "members"}
    PROVE  TeamInv'
<1>1. cmd'[u] = c
  BY DEF TeamInv, TeamTypeOK
<1>2. RotationKnows(u)' /\ RemovalKnows(u)' /\ RotationAims(u)'
  BY <1>1 DEF RotationKnows, RemovalKnows, RotationAims
<1> QED BY <1>2, QuietStep

-----------------------------------------------------------------------------
(* The actions that only read *)

LEMMA IdleStep ==
    ASSUME TeamInv, NEW u \in Users, Finish(u),
           UNCHANGED <<serverVars, local, held>>
    PROVE  TeamInv'
<1>1. Idle \in CommandTypes /\ Idle.at = "idle"
  BY DEF CommandTypes, Idle
<1> QED BY <1>1, QuietUnlessTokens DEF Finish

(* A fresh attempt, whose members are listed. *)
LEMMA AttemptStep ==
    ASSUME TeamInv, NEW u \in Users, NEW target \in Targets,
           NEW then \in {"idle", "delete"}, NEW keys, NEW left \in Nat,
           NEW since \in SUBSET Users,
           keys \in UNION {[M -> Nat] : M \in SUBSET Users},
           \A h \in Users \ since :
              role[h] # "none" => h \in DOMAIN keys /\ keys[h] = pubkey[h],
           then = "delete" => target \in Users,
           cmd' = [cmd EXCEPT ![u] = Attempt(u, target, then, keys, left, since)],
           UNCHANGED <<serverVars, local, held>>
    PROVE  TeamInv'
<1>1. PICK c : c = Attempt(u, target, then, keys, left, since)
  OBVIOUS
<1>2. c \in Attempts /\ c \in CommandTypes
  BY <1>1 DEF Attempt, Attempts, CommandTypes
<1>3. /\ c.at = "rows" /\ c.keys = keys /\ c.since = since
      /\ c.then = then /\ c.target = target
  BY <1>1 DEF Attempt
<1>4. cmd'[u] = c /\ UNCHANGED <<role, pubkey>>
  BY <1>1 DEF TeamInv, TeamTypeOK, serverVars
<1>5. RotationKnows(u)' /\ RemovalKnows(u)' /\ RotationAims(u)'
  BY <1>3, <1>4 DEF RotationKnows, RemovalKnows, RotationAims, ListedMember
<1> QED BY <1>1, <1>2, <1>3, <1>5, QuietStep

LEMMA KeysListedType ==
    ASSUME TeamInv
    PROVE  /\ KeysListed \in UNION {[M -> Nat] : M \in SUBSET Users}
           /\ \A h \in Users : role[h] # "none" =>
                 h \in DOMAIN KeysListed /\ KeysListed[h] = pubkey[h]
<1>1. KeysListed \in [Members -> Nat] /\ Members \in SUBSET Users
  BY DEF KeysListed, Members, TeamInv, TeamTypeOK, TypeOK
<1>2. \A h \in Users : role[h] # "none" =>
          h \in DOMAIN KeysListed /\ KeysListed[h] = pubkey[h]
  BY DEF KeysListed, Members
<1> QED BY <1>1, <1>2

LEMMA StartRotateKeeps ==
    ASSUME TeamInv, NEW u \in Users, StartRotate(u)
    PROVE  TeamInv'
<1>1. cmd' = [cmd EXCEPT ![u] =
                Attempt(u, NoUser, "idle", KeysListed, RotateAttempts, {})]
  BY DEF StartRotate, Begin
<1>2. RotateAttempts \in Nat /\ NoUser \in Targets
  BY TeamAssumption DEF Targets
<1>3. PICK keys \in UNION {[M -> Nat] : M \in SUBSET Users} :
          keys = KeysListed
  BY KeysListedType
<1>4. PICK since \in SUBSET Users : since = {}
  OBVIOUS
<1>5. \A h \in Users \ since :
         role[h] # "none" => h \in DOMAIN keys /\ keys[h] = pubkey[h]
  BY <1>3, KeysListedType
<1>6. cmd' = [cmd EXCEPT ![u] =
                Attempt(u, NoUser, "idle", keys, RotateAttempts, since)]
  BY <1>1, <1>3, <1>4
<1>7. UNCHANGED <<serverVars, local, held>>
  BY DEF StartRotate
<1> QED BY <1>2, <1>5, <1>6, <1>7, AttemptStep

LEMMA RotateRowsKeeps ==
    ASSUME TeamInv, NEW u \in Users, RotateRows(u)
    PROVE  TeamInv'
<1>1. CASE ~Opens(u)
  BY <1>1, IdleStep DEF RotateRows
<1>2. CASE Opens(u)
  <2>1. PICK c : c = [cmd[u] EXCEPT !.at = "holders", !.base = revision,
                                    !.rows = Present(secrets),
                                    !.versions = VersionsOf(history)]
    OBVIOUS
  <2>2. cmd[u] \in Attempts /\ cmd[u].at = "rows"
    BY CommandFields DEF RotateRows, At, TeamInv, TeamTypeOK
  <2>3. /\ c \in Attempts /\ c.at = "holders" /\ c.target = cmd[u].target
        /\ c.then = cmd[u].then /\ c.keys = cmd[u].keys
        /\ c.since = cmd[u].since
    <3>1. Present(secrets) \in SUBSET Secrets
      BY DEF Present
    <3>2. VersionsOf(history) \in SUBSET (Secrets \X Nat)
      BY DEF VersionsOf, TeamInv, TeamTypeOK, TypeOK, HistoryRow
    <3>3. revision \in Nat
      BY DEF TeamInv, TeamTypeOK, TypeOK
    <3> QED BY <2>1, <2>2, <3>1, <3>2, <3>3 DEF Attempts
  <2>4. cmd' = [cmd EXCEPT ![u] = c] /\ UNCHANGED <<serverVars, local, held>>
    BY <1>2, <2>1 DEF RotateRows
  <2>5. cmd'[u] = c /\ UNCHANGED <<role, pubkey>>
    BY <2>4 DEF TeamInv, TeamTypeOK, serverVars
  <2>6. RotationKnows(u) /\ RotationAims(u)
    BY DEF TeamInv
  <2>7. RotationKnows(u)' /\ RemovalKnows(u)' /\ RotationAims(u)'
    BY <2>2, <2>3, <2>5, <2>6
       DEF RotationKnows, RemovalKnows, RotationAims, ListedMember
  <2> QED BY <2>3, <2>4, <2>7, QuietStep DEF CommandTypes
<1> QED BY <1>1, <1>2

LEMMA RotateHoldersKeeps ==
    ASSUME TeamInv, NEW u \in Users, RotateHolders(u)
    PROVE  TeamInv'
<1>1. PICK c : c = [cmd[u] EXCEPT !.at = "tokens", !.holders = Regranted(u)]
  OBVIOUS
<1>2. cmd[u] \in Attempts /\ cmd[u].at = "holders"
  BY CommandFields DEF RotateHolders, At, TeamInv, TeamTypeOK
<1>3. Regranted(u) \in SUBSET Users
  BY DEF Regranted, Holders
<1>4. /\ c \in Attempts /\ c.at = "tokens" /\ c.target = cmd[u].target
      /\ c.then = cmd[u].then /\ c.keys = cmd[u].keys
      /\ c.since = cmd[u].since /\ c.holders = Regranted(u)
  BY <1>1, <1>2, <1>3 DEF Attempts
<1>5. cmd' = [cmd EXCEPT ![u] = c] /\ UNCHANGED <<serverVars, local, held>>
  BY <1>1 DEF RotateHolders
<1>6. cmd'[u] = c /\ UNCHANGED <<role, pubkey, grants>>
  BY <1>5 DEF TeamInv, TeamTypeOK, serverVars
<1>7. RotationKnows(u) /\ RotationAims(u) /\ GrantsOnlyForMembers
  BY DEF TeamInv
<1>8. \A h \in Users : ListedMember(u, h) /\ ListedMember(u, h)'
  BY <1>2, <1>4, <1>6, <1>7 DEF RotationKnows, ListedMember
<1>9. \A h \in Users \ (c.since \cup {c.target}) :
         grants'[h] # NoGrant => h \in c.holders
  BY <1>4, <1>6, <1>7, <1>8
     DEF ListedMember, GrantsOnlyForMembers, Regranted, Holders
<1>10. c.holders \subseteq DOMAIN c.keys /\ c.target \notin c.holders
  BY <1>4 DEF Regranted
<1>11. RotationKnows(u)' /\ RemovalKnows(u)' /\ RotationAims(u)'
  BY <1>2, <1>4, <1>6, <1>7, <1>8, <1>9, <1>10
     DEF RotationKnows, RemovalKnows, RotationAims
<1> QED BY <1>4, <1>5, <1>11, QuietStep DEF CommandTypes

LEMMA RotateTokensKeeps ==
    ASSUME TeamInv, NEW u \in Users, RotateTokens(u)
    PROVE  TeamInv'
<1>1. PICK c : c = [cmd[u] EXCEPT !.at = "rotate", !.tokens = ActiveTokens]
  OBVIOUS
<1>2. cmd[u] \in Attempts /\ cmd[u].at = "tokens"
  BY CommandFields DEF RotateTokens, At, TeamInv, TeamTypeOK
<1>3. ActiveTokens \in SUBSET Tokens
  BY DEF ActiveTokens
<1>4. /\ c \in Attempts /\ c.at = "rotate" /\ c.target = cmd[u].target
      /\ c.then = cmd[u].then /\ c.keys = cmd[u].keys
      /\ c.since = cmd[u].since /\ c.holders = cmd[u].holders
  BY <1>1, <1>2, <1>3 DEF Attempts
<1>5. cmd' = [cmd EXCEPT ![u] = c] /\ UNCHANGED <<serverVars, local, held>>
  BY <1>1 DEF RotateTokens
<1>6. cmd'[u] = c /\ UNCHANGED <<role, pubkey, grants>>
  BY <1>5 DEF TeamInv, TeamTypeOK, serverVars
<1>7. RotationKnows(u) /\ RotationAims(u)
  BY DEF TeamInv
<1>8. RotationKnows(u)' /\ RemovalKnows(u)' /\ RotationAims(u)'
  BY <1>2, <1>4, <1>6, <1>7
     DEF RotationKnows, RemovalKnows, RotationAims, ListedMember
<1> QED BY <1>4, <1>5, <1>8, QuietStep DEF CommandTypes

LEMMA RetryRotationKeeps ==
    ASSUME TeamInv, NEW u \in Users, RetryRotation(u)
    PROVE  TeamInv'
<1>1. CASE ~(cmd[u].left > 1)
  BY <1>1, IdleStep DEF RetryRotation
<1>2. CASE cmd[u].left > 1
  <2>1. cmd[u] \in Attempts /\ cmd[u].at = "rotate"
    BY CommandFields DEF RetryRotation, At, TeamInv, TeamTypeOK
  <2>2. cmd' = [cmd EXCEPT ![u] =
                  Attempt(u, cmd[u].target, cmd[u].then, cmd[u].keys,
                          cmd[u].left - 1, cmd[u].since)]
    BY <1>2 DEF RetryRotation, TeamInv, TeamTypeOK
  <2>3. /\ cmd[u].target \in Targets /\ cmd[u].then \in {"idle", "delete"}
        /\ cmd[u].left - 1 \in Nat /\ cmd[u].since \in SUBSET Users
        /\ cmd[u].keys \in UNION {[M -> Nat] : M \in SUBSET Users}
    BY <1>2, <2>1 DEF Attempts
  <2>4. RotationKnows(u) /\ RotationAims(u)
    BY DEF TeamInv
  <2>5. \A h \in Users \ cmd[u].since :
           role[h] # "none" =>
              h \in DOMAIN cmd[u].keys /\ cmd[u].keys[h] = pubkey[h]
    BY <2>1, <2>4 DEF RotationKnows, ListedMember
  <2>6. cmd[u].then = "delete" => cmd[u].target \in Users
    BY <2>1, <2>4 DEF RotationAims
  <2>7. PICK target \in Targets, then \in {"idle", "delete"}, left \in Nat,
             since \in SUBSET Users,
             keys \in UNION {[M -> Nat] : M \in SUBSET Users} :
             /\ target = cmd[u].target /\ then = cmd[u].then
             /\ left = cmd[u].left - 1 /\ since = cmd[u].since
             /\ keys = cmd[u].keys
    BY <2>3
  <2>8. cmd' = [cmd EXCEPT ![u] = Attempt(u, target, then, keys, left, since)]
    BY <2>2, <2>7
  <2>9. \A h \in Users \ since :
           role[h] # "none" => h \in DOMAIN keys /\ keys[h] = pubkey[h]
    BY <2>5, <2>7
  <2>10. then = "delete" => target \in Users
    BY <2>6, <2>7
  <2>11. UNCHANGED <<serverVars, local, held>>
    BY DEF RetryRotation
  <2> QED BY <2>8, <2>9, <2>10, <2>11, AttemptStep
<1> QED BY <1>1, <1>2

LEMMA StartRemoveKeeps ==
    ASSUME TeamInv, NEW u \in Users, NEW target \in Users,
           StartRemove(u, target)
    PROVE  TeamInv'
<1>1. PICK c : c = [at |-> "held", target |-> target, listed |-> Members,
                    since |-> {}]
  OBVIOUS
<1>2. Members \in SUBSET Users
  BY DEF Members
<1>3. c \in Removals /\ c.at = "held"
  BY <1>1, <1>2 DEF Removals
<1>4. cmd' = [cmd EXCEPT ![u] = c] /\ UNCHANGED <<serverVars, local, held>>
  BY <1>1 DEF StartRemove, Begin
<1> QED BY <1>3, <1>4, QuietUnlessTokens DEF CommandTypes

(* The rotation is behind the removal, or was not needed. *)
LEMMA BegunType ==
    ASSUME TeamInv, NEW u \in Users, cmd[u].at # "idle"
    PROVE  /\ Begun(u) \in Deletions /\ Begun(u) \in CommandTypes
           /\ Begun(u).at = "delete" /\ Begun(u).target = cmd[u].target
           /\ Begun(u).since = cmd[u].since
<1>1. cmd[u].target \in Targets /\ cmd[u].since \in SUBSET Users
  BY CommandFields DEF TeamInv, TeamTypeOK
<1> QED BY <1>1 DEF Begun, Deletions, CommandTypes

LEMMA BeginDeletion ==
    ASSUME TeamInv, NEW u \in Users, cmd[u] \in Removals,
           cmd' = [cmd EXCEPT ![u] = Begun(u)],
           UNCHANGED <<serverVars, local, held>>,
           \/ u \in cmd[u].since \/ grants[u] = NoGrant
           \/ grants[cmd[u].target] = NoGrant
    PROVE  TeamInv'
<1>1. cmd[u].target \in Users /\ cmd[u].at # "idle"
  BY DEF Removals
<1>2. PICK c : c = Begun(u)
  OBVIOUS
<1>3. /\ c \in CommandTypes /\ c.at = "delete"
      /\ c.target = cmd[u].target /\ c.since = cmd[u].since
  BY <1>1, <1>2, BegunType
<1>4. cmd' = [cmd EXCEPT ![u] = c] /\ cmd'[u] = c /\ grants' = grants
  BY <1>2 DEF TeamInv, TeamTypeOK, serverVars
<1>5. RotationKnows(u)' /\ RemovalKnows(u)' /\ RotationAims(u)'
  BY <1>1, <1>3, <1>4 DEF RotationKnows, RemovalKnows, RotationAims
<1> QED BY <1>3, <1>4, <1>5, QuietStep

LEMMA RemoveHeldKeeps ==
    ASSUME TeamInv, NEW u \in Users, RemoveHeld(u)
    PROVE  TeamInv'
<1>1. cmd[u] \in Removals /\ cmd[u].at = "held"
  BY CommandFields DEF RemoveHeld, At, TeamInv, TeamTypeOK
<1>2. CASE NothingToRekey(u)
  BY <1>1, <1>2, BeginDeletion DEF RemoveHeld, NothingToRekey
<1>3. CASE ~NothingToRekey(u) /\ Opens(u)
  <2>1. PICK c : c = [cmd[u] EXCEPT !.at = "members"]
    OBVIOUS
  <2>2. c \in Removals /\ c.at = "members"
    BY <1>1, <2>1 DEF Removals
  <2>3. cmd' = [cmd EXCEPT ![u] = c] /\ UNCHANGED <<serverVars, local, held>>
    BY <1>3, <2>1 DEF RemoveHeld, Go
  <2> QED BY <2>2, <2>3, QuietUnlessTokens DEF CommandTypes
<1>4. CASE ~NothingToRekey(u) /\ ~Opens(u) /\ grants[u] = NoGrant
  <2>1. PICK c : c = [cmd[u] EXCEPT !.at = "peers"]
    OBVIOUS
  <2>2. c \in Removals /\ c.at = "peers"
    BY <1>1, <2>1 DEF Removals
  <2>3. cmd' = [cmd EXCEPT ![u] = c] /\ UNCHANGED <<serverVars, local, held>>
    BY <1>4, <2>1 DEF RemoveHeld, Go
  <2>4. cmd'[u] = c /\ grants' = grants
    BY <2>3 DEF TeamInv, TeamTypeOK, serverVars
  <2>5. RotationKnows(u)' /\ RemovalKnows(u)' /\ RotationAims(u)'
    BY <1>4, <2>2, <2>4 DEF RotationKnows, RemovalKnows, RotationAims
  <2> QED BY <2>2, <2>3, <2>5, QuietStep DEF CommandTypes
<1>5. CASE ~NothingToRekey(u) /\ ~Opens(u) /\ grants[u] # NoGrant
  BY <1>5, IdleStep DEF RemoveHeld
<1> QED BY <1>2, <1>3, <1>4, <1>5

LEMMA RemovePeersKeeps ==
    ASSUME TeamInv, NEW u \in Users, RemovePeers(u)
    PROVE  TeamInv'
<1>1. cmd[u] \in Removals /\ cmd[u].at = "peers"
  BY CommandFields DEF RemovePeers, At, TeamInv, TeamTypeOK
<1>2. u \in cmd[u].since \/ grants[u] = NoGrant
  BY <1>1 DEF TeamInv, RemovalKnows
<1>3. CASE Holders \cap cmd[u].listed = {cmd[u].target}
  BY <1>1, <1>2, <1>3, BeginDeletion DEF RemovePeers
<1>4. CASE Holders \cap cmd[u].listed # {cmd[u].target}
  BY <1>4, IdleStep DEF RemovePeers
<1> QED BY <1>3, <1>4

LEMMA RemoveMembersKeeps ==
    ASSUME TeamInv, NEW u \in Users, RemoveMembers(u)
    PROVE  TeamInv'
<1>1. cmd[u] \in Removals /\ cmd[u].at = "members"
  BY CommandFields DEF RemoveMembers, At, TeamInv, TeamTypeOK
<1>2. PICK target \in Users, since \in SUBSET Users :
         target = cmd[u].target /\ since = cmd[u].since
  BY <1>1 DEF Removals
<1>3. PICK keys \in UNION {[M -> Nat] : M \in SUBSET Users} :
          keys = KeysListed
  BY KeysListedType
<1>4. cmd' = [cmd EXCEPT ![u] =
                Attempt(u, target, "delete", keys, RotateAttempts, since)]
  BY <1>2, <1>3 DEF RemoveMembers, TeamInv, TeamTypeOK
<1>5. \A h \in Users \ since :
         role[h] # "none" => h \in DOMAIN keys /\ keys[h] = pubkey[h]
  BY <1>3, KeysListedType
<1>6. UNCHANGED <<serverVars, local, held>>
  BY DEF RemoveMembers
<1>7. RotateAttempts \in Nat /\ target \in Targets
  BY TeamAssumption DEF Targets
<1> QED BY <1>4, <1>5, <1>6, <1>7, AttemptStep

LEMMA StartShareKeeps ==
    ASSUME TeamInv, NEW u \in Users, NEW target \in Users,
           StartShare(u, target)
    PROVE  TeamInv'
<1>1. PICK c : c = [at |-> "share", target |-> target,
                    box |-> [key |-> local[u], to |-> pubkey[target],
                             seal |-> 0],
                    since |-> {}]
  OBVIOUS
<1>2. local[u] \in Nat /\ local[u] <= vaultKey /\ pubkey[target] \in Nat
  BY DEF StartShare, TeamInv, TeamTypeOK, TypeOK, KeysMade
<1>3. c \in Shares /\ c.at = "share" /\ c.box.key <= vaultKey
  BY <1>1, <1>2 DEF Shares, Sealed
<1>4. cmd' = [cmd EXCEPT ![u] = c] /\ UNCHANGED <<serverVars, local, held>>
  BY <1>1 DEF StartShare, Begin
<1>5. cmd'[u] = c
  BY <1>4 DEF TeamInv, TeamTypeOK
<1>6. RotationKnows(u)' /\ RemovalKnows(u)' /\ RotationAims(u)'
  BY <1>3, <1>5 DEF RotationKnows, RemovalKnows, RotationAims
<1> QED BY <1>3, <1>4, <1>6, QuietStep DEF CommandTypes

LEMMA AbortKeeps ==
    ASSUME TeamInv, NEW u \in Users, Abort(u)
    PROVE  TeamInv'
BY IdleStep DEF Abort

-----------------------------------------------------------------------------
(* The actions that change the server's tables *)

(* Rows and versions mean nothing to the commands. *)
LEMMA TablesOnly ==
    ASSUME TeamInv, TypeOK',
           UNCHANGED <<teamVars, role, pubkey, grants, tokens, vaultKey>>
    PROVE  TeamInv'
<1>1. TeamTypeOK'
  BY DEF TeamInv, TeamTypeOK, teamVars
<1>2. GrantsOnlyForMembers' /\ KnowingHold' /\ KeysMade'
  BY DEF TeamInv, GrantsOnlyForMembers, KnowingHold, KeysMade, HasToken, teamVars
<1>4. TokensAnswerToMembers' /\ SealedUnderMade'
  BY TokensKept
<1>3. ASSUME NEW v \in Users
      PROVE  RotationKnows(v)' /\ RemovalKnows(v)' /\ RotationAims(v)'
  <2>1. SameCommand(v)
    BY DEF SameCommand, teamVars
  <2> QED BY <2>1, Bystander
<1> QED BY <1>1, <1>2, <1>3, <1>4 DEF TeamInv

LEMMA PushKeeps ==
    ASSUME TeamInv, NEW u \in Users, Push(u)
    PROVE  TeamInv'
<1>1. TypeOK /\ local[u] \in 0 .. vaultKey /\ UNCHANGED teamVars
  BY DEF Push, TeamInv, TeamTypeOK, TypeOK, KeysMade
<1>2. PICK s \in Secrets, ver \in 1 .. MaxVersion, x \in Contents :
         WriteSecrets(u, revision,
                      [i \in {s} |-> [ver |-> ver, val |-> x, key |-> local[u]]],
                      {})
  BY DEF Push
<1>3. PICK sets : sets = [i \in {s} |-> [ver |-> ver, val |-> x,
                                         key |-> local[u]]]
  OBVIOUS
<1>4. sets \in SetBatches
  <2>1. /\ {s} \in SUBSET Secrets
        /\ sets \in [{s} -> [ver : 1..MaxVersion, val : Contents,
                             key : 0..vaultKey]]
    BY <1>1, <1>3
  <2> QED BY <2>1 DEF SetBatches
<1>5. WriteSecrets(u, revision, sets, {}) /\ {} \in SUBSET (Secrets \ DOMAIN sets)
  BY <1>2, <1>3
<1>6. TypeOK'
  BY <1>1, <1>4, <1>5, WriteTypeOK
<1>7. UNCHANGED <<role, pubkey, grants, tokens, vaultKey>>
  BY <1>5 DEF WriteSecrets
<1> QED BY <1>1, <1>6, <1>7, TablesOnly

LEMMA RefreshKeeps ==
    ASSUME TeamInv, NEW u \in Users, Refresh(u)
    PROVE  TeamInv'
<1>1. /\ local' = [local EXCEPT ![u] = grants[u].key]
      /\ UNCHANGED <<lifecycle, role, pubkey, revision, secrets, history,
                     grants, tokens, vaultKey, cmd, held>>
      /\ grants[u] # NoGrant
  BY DEF Refresh, Opens, serverVars
<1>2. /\ grants[u].key \in Nat /\ grants[u].key <= vaultKey
  BY <1>1 DEF TeamInv, TeamTypeOK, TypeOK, KeysMade, Sealed
<1>3. TeamTypeOK'
  BY <1>1, <1>2 DEF TeamInv, TeamTypeOK, TypeOK
<1>4. GrantsOnlyForMembers' /\ KnowingHold'
  BY <1>1 DEF TeamInv, GrantsOnlyForMembers, KnowingHold, HasToken
<1>5. KeysMade'
  BY <1>1, <1>2 DEF TeamInv, TeamTypeOK, KeysMade
<1>7. TokensAnswerToMembers' /\ SealedUnderMade'
  BY <1>1, TokensKept
<1>6. ASSUME NEW v \in Users
      PROVE  RotationKnows(v)' /\ RemovalKnows(v)' /\ RotationAims(v)'
  <2>1. SameCommand(v)
    BY <1>1 DEF SameCommand
  <2> QED BY <1>1, <2>1, Bystander
<1> QED BY <1>3, <1>4, <1>5, <1>6, <1>7 DEF TeamInv

(* Who goes on with a command notices the users in U. *)
LEMMA Notices ==
    ASSUME TeamInv, NEW v \in Users, NEW U \in SUBSET Users,
           NEW running \in [Users -> CommandTypes], Noticed(running, U),
           running[v] = cmd[v],
           \A h \in Users \ U :
              /\ role'[h] # "none" =>
                    role[h] # "none" /\ pubkey'[h] = pubkey[h]
              /\ grants'[h] # NoGrant => grants[h] # NoGrant
    PROVE  RotationKnows(v)' /\ RemovalKnows(v)' /\ RotationAims(v)'
<1>1. /\ SameCommand(v)
      /\ cmd[v] # Idle => cmd'[v].since = cmd[v].since \cup U
  BY NoticedAdds
<1>2. cmd[v].at # "idle" => cmd[v] # Idle
  BY DEF Idle
<1> QED BY <1>1, <1>2, Bystander

(* Commands that have ended know nothing. *)
LEMMA EndedKnows ==
    ASSUME NEW v \in Users, cmd'[v] = Idle
    PROVE  RotationKnows(v)' /\ RemovalKnows(v)' /\ RotationAims(v)'
BY DEF RotationKnows, RemovalKnows, RotationAims, Idle

(* What is held after a step that records the grants and tokens it made. *)
LEMMA HeldKnows ==
    ASSUME TeamInv, TypeOK', GrantsOnlyForMembers', TokensAnswerToMembers', Held,
           \A h \in Users : role'[h] = "none" => role[h] = "none",
           \A h \in Users : grants'[h] # NoGrant => grants'[h].key <= vaultKey',
           SealedUnderMade',
           \/ /\ vaultKey' = vaultKey
              /\ \A h \in Users : grants[h] # NoGrant => grants'[h] # NoGrant
              /\ \A t \in Tokens : tokens[t].status # "none" =>
                                      tokens'[t] = tokens[t]
           \/ vaultKey' = vaultKey + 1
    PROVE  /\ held' \in [Users -> SUBSET Nat] /\ KnowingHold'
           /\ \A h \in Users : \A k \in held'[h] : k <= vaultKey'
<1>1. /\ held \in [Users -> SUBSET Nat] /\ vaultKey \in Nat
      /\ KnowingHold /\ \A h \in Users : \A k \in held[h] : k <= vaultKey
  BY DEF TeamInv, TeamTypeOK, TypeOK, KeysMade
<1>2. ASSUME NEW h \in Users
      PROVE  held'[h] = held[h] \cup GrantKeys(h)' \cup TokenKeys(h)'
  BY DEF Held
<1>3. ASSUME NEW h \in Users, NEW k \in GrantKeys(h)'
      PROVE  grants'[h] # NoGrant /\ k \in Nat /\ k <= vaultKey'
  <2>1. Opens(h)' /\ k = grants'[h].key
    BY <1>3 DEF GrantKeys
  <2> QED BY <2>1 DEF Opens, TypeOK, Sealed
<1>4. ASSUME NEW h \in Users, NEW k \in TokenKeys(h)'
      PROVE  /\ k \in Nat /\ k <= vaultKey' /\ role'[h] # "none"
             /\ k = vaultKey' => HasToken(h)'
  <2>1. PICK t \in Tokens : /\ tokens'[t].status = "active"
                            /\ tokens'[t].creator = h
                            /\ k = tokens'[t].sealed
    BY <1>4 DEF TokenKeys, ActiveTokens
  <2>2. k \in Nat
    BY <2>1 DEF TypeOK, Token
  <2>3. role'[h] # "none"
    BY <2>1 DEF TokensAnswerToMembers, ActiveTokens
  <2>4. k <= vaultKey'
    BY <2>1 DEF SealedUnderMade
  <2>5. k = vaultKey' => HasToken(h)'
    BY <2>1 DEF HasToken
  <2> QED BY <2>2, <2>3, <2>4, <2>5
<1>5. held' \in [Users -> SUBSET Nat]
  <2>1. \A h \in Users : held'[h] \in SUBSET Nat
    BY <1>1, <1>2, <1>3, <1>4
  <2> QED BY <2>1 DEF Held
<1>6. \A h \in Users : \A k \in held'[h] : k <= vaultKey'
  <2>1. \A h \in Users : \A k \in held[h] : k <= vaultKey'
    BY <1>1
  <2> QED BY <1>2, <1>3, <1>4, <2>1
<1>7. ASSUME NEW h \in Users, role'[h] = "none" PROVE held'[h] = {}
  <2>1. held[h] = {}
    BY <1>1, <1>7 DEF KnowingHold
  <2>2. grants'[h] = NoGrant
    BY <1>7 DEF GrantsOnlyForMembers
  <2> QED BY <1>2, <1>3, <1>4, <1>7, <2>1, <2>2
<1>8. ASSUME NEW h \in Users, vaultKey' \in held'[h]
      PROVE  grants'[h] # NoGrant \/ HasToken(h)'
  <2>1. CASE vaultKey' \in GrantKeys(h)' \cup TokenKeys(h)'
    BY <1>3, <1>4, <2>1
  <2>2. CASE vaultKey' \in held[h]
    <3>1. vaultKey' = vaultKey
      BY <1>1, <2>2
    <3>2. /\ grants[h] # NoGrant => grants'[h] # NoGrant
          /\ \A t \in Tokens : tokens[t].status # "none" =>
                                  tokens'[t] = tokens[t]
      BY <1>1, <3>1
    <3>3. grants[h] # NoGrant \/ HasToken(h)
      BY <1>1, <2>2, <3>1 DEF KnowingHold
    <3>4. HasToken(h) => HasToken(h)'
      BY <3>1, <3>2 DEF HasToken
    <3> QED BY <3>2, <3>3, <3>4
  <2> QED BY <1>2, <1>8, <2>1, <2>2
<1> QED BY <1>5, <1>6, <1>7, <1>8 DEF KnowingHold

(* The token is sealed to the key in the maker's store. *)
LEMMA MakeTokenKeeps ==
    ASSUME TeamInv, NEW u \in Users, NEW t \in Tokens, MakeToken(u, t)
    PROVE  TeamInv'
<1>1. /\ TeamTypeOK /\ TypeOK /\ GrantsOnlyForMembers
      /\ KeysMade /\ TokensAnswerToMembers /\ SealedUnderMade
  BY DEF TeamInv, TeamTypeOK
<1>2. local[u] \in Nat /\ local[u] <= vaultKey
  BY <1>1 DEF MakeToken, TeamTypeOK, KeysMade
<1>3. /\ MayManage(u) /\ tokens[t].status = "none"
      /\ tokens' = [tokens EXCEPT ![t] = [status |-> "active", creator |-> u,
                                          sealed |-> local[u]]]
      /\ UNCHANGED <<lifecycle, role, pubkey, revision, secrets, history,
                     grants, vaultKey, cmd, local>>
      /\ Held
  BY DEF MakeToken, CreateToken
<1>4. TypeOK'
  BY <1>1, <1>2, <1>3 DEF TypeOK, Token
<1>5. \A i \in Tokens : tokens'[i] = IF i = t
                                       THEN [status |-> "active", creator |-> u,
                                             sealed |-> local[u]]
                                       ELSE tokens[i]
  BY <1>1, <1>3 DEF TypeOK
<1>6. GrantsOnlyForMembers'
  BY <1>1, <1>3 DEF GrantsOnlyForMembers
<1>7. TokensAnswerToMembers'
  BY <1>1, <1>3, <1>5 DEF TokensAnswerToMembers, ActiveTokens, MayManage
<1>8. SealedUnderMade'
  BY <1>1, <1>2, <1>3, <1>5 DEF SealedUnderMade
<1>9. \A h \in Users : grants'[h] # NoGrant => grants'[h].key <= vaultKey'
  BY <1>1, <1>3 DEF KeysMade
<1>10. \A i \in Tokens : tokens[i].status # "none" => tokens'[i] = tokens[i]
  BY <1>3, <1>5
<1>11. /\ held' \in [Users -> SUBSET Nat] /\ KnowingHold'
       /\ \A h \in Users : \A k \in held'[h] : k <= vaultKey'
  BY <1>3, <1>4, <1>6, <1>7, <1>8, <1>9, <1>10, HeldKnows
<1>12. TeamTypeOK'
  BY <1>1, <1>3, <1>4, <1>11 DEF TeamTypeOK
<1>13. KeysMade'
  BY <1>1, <1>3, <1>11 DEF KeysMade
<1>14. ASSUME NEW v \in Users
       PROVE  RotationKnows(v)' /\ RemovalKnows(v)' /\ RotationAims(v)'
  <2>1. SameCommand(v)
    BY <1>3 DEF SameCommand
  <2> QED BY <1>3, <2>1, Bystander
<1> QED BY <1>6, <1>7, <1>8, <1>11, <1>12, <1>13, <1>14 DEF TeamInv

LEMMA InviteKeeps ==
    ASSUME TeamInv, NEW u \in Users, NEW target \in Users, Invite(u, target)
    PROVE  TeamInv'
<1>1. /\ role[target] = "none" /\ role' = [role EXCEPT ![target] = "member"]
      /\ grants' = [grants EXCEPT ![target] = NoGrant]
      /\ UNCHANGED <<lifecycle, pubkey, revision, secrets, history, tokens,
                     vaultKey, local, held>>
      /\ Noticed(cmd, {target})
  BY DEF Invite, AddMember, WithoutGrant
<1>2. TeamTypeOK /\ TypeOK
  BY DEF TeamInv, TeamTypeOK
<1>3. TeamTypeOK'
  <2>1. TypeOK'
    BY <1>1, <1>2 DEF TypeOK, Roles
  <2>2. cmd' \in [Users -> CommandTypes]
    BY <1>1, <1>2, NoticedAdds DEF TeamTypeOK
  <2> QED BY <1>1, <1>2, <2>1, <2>2 DEF TeamTypeOK
<1>4. GrantsOnlyForMembers' /\ KnowingHold'
  BY <1>1, <1>2
     DEF TeamInv, GrantsOnlyForMembers, KnowingHold, HasToken, TypeOK
<1>7. TokensAnswerToMembers' /\ SealedUnderMade'
  BY <1>1, <1>2, TokensKept DEF TypeOK
<1>5. KeysMade'
  <2>1. ASSUME NEW v \in Users, cmd'[v].at = "share"
        PROVE  cmd'[v].box = cmd[v].box /\ cmd[v].at = "share"
    BY <1>1, <1>2, <2>1, NoticedAdds DEF TeamTypeOK, SameCommand
  <2> QED BY <1>1, <1>2, <2>1 DEF TeamInv, KeysMade, TypeOK
<1>6. ASSUME NEW v \in Users
      PROVE  RotationKnows(v)' /\ RemovalKnows(v)' /\ RotationAims(v)'
  <2>1. \A h \in Users \ {target} :
           /\ role'[h] # "none" => role[h] # "none" /\ pubkey'[h] = pubkey[h]
           /\ grants'[h] # NoGrant => grants[h] # NoGrant
    BY <1>1, <1>2 DEF TypeOK
  <2> QED BY <1>1, <1>2, <2>1, Notices DEF TeamTypeOK
<1> QED BY <1>3, <1>4, <1>5, <1>6, <1>7 DEF TeamInv

LEMMA ResetKeeps ==
    ASSUME TeamInv, NEW u \in Users, Reset(u)
    PROVE  TeamInv'
<1>1. /\ pubkey' = [pubkey EXCEPT ![u] = pubkey[u] + 1]
      /\ grants' = [grants EXCEPT ![u] = NoGrant]
      /\ local' = [local EXCEPT ![u] = NoKey]
      /\ held' = [held EXCEPT ![u] = TokenKeys(u)]
      /\ UNCHANGED <<lifecycle, role, revision, secrets, history, tokens,
                     vaultKey>>
      /\ Noticed(cmd, {u})
  BY DEF Reset, ResetAccount, WithoutGrant
<1>2. TeamTypeOK /\ TypeOK
  BY DEF TeamInv, TeamTypeOK
<1>7. ASSUME NEW k \in TokenKeys(u)
      PROVE  /\ k \in Nat /\ k <= vaultKey /\ role[u] # "none"
             /\ k = vaultKey => HasToken(u)
  <2>1. PICK t \in Tokens : /\ tokens[t].status = "active"
                            /\ tokens[t].creator = u
                            /\ k = tokens[t].sealed
    BY <1>7 DEF TokenKeys, ActiveTokens
  <2> QED BY <1>2, <2>1 DEF TeamInv, TypeOK, Token, HasToken, SealedUnderMade,
                            TokensAnswerToMembers, ActiveTokens
<1>3. TeamTypeOK'
  <2>1. TypeOK'
    BY <1>1, <1>2 DEF TypeOK
  <2>2. cmd' \in [Users -> CommandTypes]
    BY <1>1, <1>2, NoticedAdds DEF TeamTypeOK
  <2>3. held' \in [Users -> SUBSET Nat]
    BY <1>1, <1>2, <1>7 DEF TeamTypeOK
  <2> QED BY <1>1, <1>2, <2>1, <2>2, <2>3 DEF TeamTypeOK
<1>4. GrantsOnlyForMembers' /\ KnowingHold'
  <2>1. GrantsOnlyForMembers'
    BY <1>1, <1>2 DEF TeamInv, GrantsOnlyForMembers, TypeOK
  <2>2. \A h \in Users : HasToken(h) => HasToken(h)'
    BY <1>1 DEF HasToken
  <2>3. \A h \in Users \ {u} : held'[h] = held[h] /\ grants'[h] = grants[h]
    BY <1>1, <1>2 DEF TeamTypeOK, TypeOK
  <2>4. held'[u] = TokenKeys(u)
    BY <1>1, <1>2 DEF TeamTypeOK
  <2> QED BY <1>1, <1>7, <2>1, <2>2, <2>3, <2>4 DEF TeamInv, KnowingHold
<1>8. TokensAnswerToMembers' /\ SealedUnderMade'
  BY <1>1, TokensKept
<1>5. KeysMade'
  <2>1. ASSUME NEW v \in Users, cmd'[v].at = "share"
        PROVE  cmd'[v].box = cmd[v].box /\ cmd[v].at = "share"
    BY <1>1, <1>2, <2>1, NoticedAdds DEF TeamTypeOK, SameCommand
  <2>2. \A h \in Users : \A k \in held'[h] : k <= vaultKey
    BY <1>1, <1>2, <1>7 DEF TeamInv, TeamTypeOK, KeysMade
  <2> QED BY <1>1, <1>2, <2>1, <2>2 DEF TeamInv, TeamTypeOK, KeysMade, TypeOK
<1>6. ASSUME NEW v \in Users
      PROVE  RotationKnows(v)' /\ RemovalKnows(v)' /\ RotationAims(v)'
  <2>1. \A h \in Users \ {u} :
           /\ role'[h] # "none" => role[h] # "none" /\ pubkey'[h] = pubkey[h]
           /\ grants'[h] # NoGrant => grants[h] # NoGrant
    BY <1>1, <1>2 DEF TypeOK
  <2> QED BY <1>1, <1>2, <2>1, Notices DEF TeamTypeOK
<1> QED BY <1>3, <1>4, <1>5, <1>6, <1>7, <1>8 DEF TeamInv

LEMMA PutShareKeeps ==
    ASSUME TeamInv, NEW u \in Users, PutShare(u)
    PROVE  TeamInv'
<1>1. TeamTypeOK /\ TypeOK /\ GrantsOnlyForMembers
  BY DEF TeamInv, TeamTypeOK
<1>2. cmd[u] \in Shares /\ cmd[u].at = "share"
  BY <1>1, CommandFields DEF PutShare, At, TeamTypeOK
<1>3. PICK target \in Users, box \in Sealed :
         target = cmd[u].target /\ box = cmd[u].box
  BY <1>2 DEF Shares
<1>4. PICK running : running = [cmd EXCEPT ![u] = Idle]
  OBVIOUS
<1>5. /\ role[target] # "none" /\ grants' = [grants EXCEPT ![target] = box]
      /\ UNCHANGED <<lifecycle, role, pubkey, revision, secrets, history,
                     tokens, vaultKey, local>>
      /\ Noticed(running, {target}) /\ Held
  BY <1>3, <1>4 DEF PutShare, CreateGrant
<1>6. running \in [Users -> CommandTypes]
  BY <1>1, <1>4 DEF TeamTypeOK, CommandTypes
<1>7. box.key <= vaultKey /\ box # NoGrant
  BY <1>2, <1>3, TeamAssumption DEF TeamInv, KeysMade
<1>8. TypeOK' /\ GrantsOnlyForMembers'
  BY <1>1, <1>5 DEF TypeOK, GrantsOnlyForMembers
<1>9. \A h \in Users : grants'[h] # NoGrant => grants'[h].key <= vaultKey'
  BY <1>1, <1>5, <1>7 DEF TeamInv, KeysMade, TypeOK
<1>10. \A h \in Users : grants[h] # NoGrant => grants'[h] # NoGrant
  BY <1>1, <1>5, <1>7 DEF TypeOK
<1>15. TokensAnswerToMembers' /\ SealedUnderMade'
  BY <1>5, TokensKept
<1>11. /\ held' \in [Users -> SUBSET Nat] /\ KnowingHold'
       /\ \A h \in Users : \A k \in held'[h] : k <= vaultKey'
  BY <1>5, <1>8, <1>9, <1>10, <1>15, HeldKnows
<1>12. TeamTypeOK'
  BY <1>1, <1>5, <1>6, <1>8, <1>11, NoticedAdds DEF TeamTypeOK
<1>13. KeysMade'
  <2>1. ASSUME NEW v \in Users, cmd'[v].at = "share"
        PROVE  cmd'[v].box.key <= vaultKey
    <3>1. v # u
      <4>1. running[u] = Idle /\ Idle.at = "idle"
        BY <1>1, <1>4 DEF TeamTypeOK, Idle
      <4>2. cmd'[u] = Idle
        BY <1>5, <1>6, <4>1, NoticedAdds
      <4> QED BY <2>1, <4>1, <4>2
    <3>2. running[v] = cmd[v]
      BY <1>4, <3>1, <1>1 DEF TeamTypeOK
    <3>3. SameCommand(v)
      BY <1>5, <1>6, <3>2, NoticedAdds
    <3> QED BY <2>1, <3>3 DEF TeamInv, KeysMade, SameCommand
  <2> QED BY <1>5, <1>9, <1>11, <2>1 DEF TeamInv, KeysMade
<1>14. ASSUME NEW v \in Users
       PROVE  RotationKnows(v)' /\ RemovalKnows(v)' /\ RotationAims(v)'
  <2>1. \A h \in Users \ {target} :
           /\ role'[h] # "none" => role[h] # "none" /\ pubkey'[h] = pubkey[h]
           /\ grants'[h] # NoGrant => grants[h] # NoGrant
    BY <1>1, <1>5 DEF TypeOK
  <2>2. CASE v = u
    <3>1. running[u] = Idle
      BY <1>1, <1>4 DEF TeamTypeOK
    <3> QED BY <1>5, <1>6, <2>2, <3>1, NoticedAdds, EndedKnows
  <2>3. CASE v # u
    <3>1. running[v] = cmd[v]
      BY <1>1, <1>4, <2>3 DEF TeamTypeOK
    <3> QED BY <1>5, <1>6, <2>1, <3>1, Notices
  <2> QED BY <2>2, <2>3
<1> QED BY <1>8, <1>11, <1>12, <1>13, <1>14, <1>15 DEF TeamInv

LEMMA DeleteMemberKeeps ==
    ASSUME TeamInv, NEW u \in Users, DeleteMember(u)
    PROVE  TeamInv'
<1>1. TeamTypeOK /\ TypeOK /\ RemovalKnows(u)
  BY DEF TeamInv, TeamTypeOK
<1>2. PICK target \in Users : target = cmd[u].target
  BY <1>1 DEF RemovalKnows, DeleteMember, At
<1>3. /\ grants' = [grants EXCEPT ![target] = NoGrant]
      /\ role' = [role EXCEPT ![target] = "none"]
      /\ tokens' = RevokeTokensOf(target)
      /\ held' = [held EXCEPT ![target] = {}]
      /\ cmd' = [cmd EXCEPT ![u] = Idle]
      /\ UNCHANGED <<lifecycle, pubkey, revision, secrets, history, vaultKey,
                     local>>
  BY <1>2 DEF DeleteMember, RemoveMember, WithoutGrant, Finish
<1>4. TypeOK'
  BY <1>1, <1>3 DEF RevokeTokensOf, TypeOK, Roles, Token
<1>5. TeamTypeOK'
  BY <1>1, <1>3, <1>4 DEF TeamTypeOK, CommandTypes
<1>9. \A t \in Tokens :
         tokens'[t] = IF tokens[t].status = "active" /\ tokens[t].creator = target
                      THEN [tokens[t] EXCEPT !.status = "revoked"]
                      ELSE tokens[t]
  BY <1>3 DEF RevokeTokensOf
<1>10. ASSUME NEW t \in Tokens
       PROVE  /\ tokens'[t].sealed = tokens[t].sealed
              /\ tokens'[t].creator = tokens[t].creator
              /\ tokens[t].status # "none" => tokens'[t].status # "none"
  BY <1>1, <1>9 DEF TypeOK, Token
<1>12. vaultKey' = vaultKey
  BY <1>3
<1>11. TokensAnswerToMembers' /\ SealedUnderMade'
  <2>1. SealedUnderMade'
    <3>1. SealedUnderMade
      BY DEF TeamInv
    <3> QED BY <1>10, <1>12, <3>1 DEF SealedUnderMade
  <2>2. ASSUME NEW t \in Tokens, tokens'[t].status = "active"
        PROVE  role'[tokens'[t].creator] # "none"
    <3>1. tokens'[t] = tokens[t] /\ tokens[t].creator # target
      BY <1>1, <1>9, <2>2 DEF TypeOK, Token
    <3> QED BY <1>1, <1>3, <2>2, <3>1
            DEF TeamInv, TokensAnswerToMembers, ActiveTokens, TypeOK, Token
  <2> QED BY <2>1, <2>2 DEF TokensAnswerToMembers, ActiveTokens
<1>6. GrantsOnlyForMembers' /\ KnowingHold'
  <2>1. \A h \in Users : HasToken(h) => HasToken(h)'
    BY <1>10, <1>12 DEF HasToken
  <2> QED
    BY <1>1, <1>3, <2>1
       DEF TeamInv, TeamTypeOK, GrantsOnlyForMembers, KnowingHold, TypeOK
<1>7. KeysMade'
  <2>1. \A v \in Users : cmd'[v].at = "share" => cmd'[v] = cmd[v]
    BY <1>1, <1>3 DEF TeamTypeOK, Idle
  <2> QED BY <1>1, <1>3, <2>1 DEF TeamInv, TeamTypeOK, KeysMade, TypeOK
<1>8. ASSUME NEW v \in Users
      PROVE  RotationKnows(v)' /\ RemovalKnows(v)' /\ RotationAims(v)'
  <2>1. CASE v = u
    BY <1>1, <1>3, <2>1, EndedKnows DEF TeamTypeOK
  <2>2. CASE v # u
    <3>1. SameCommand(v)
      BY <1>1, <1>3, <2>2 DEF TeamTypeOK, SameCommand
    <3>2. \A h \in Users :
             /\ role'[h] # "none" => role[h] # "none" /\ pubkey'[h] = pubkey[h]
             /\ grants'[h] # NoGrant => grants[h] # NoGrant
      BY <1>1, <1>3 DEF TypeOK
    <3> QED BY <3>1, <3>2, Bystander
  <2> QED BY <2>1, <2>2
<1> QED BY <1>5, <1>6, <1>7, <1>8, <1>11 DEF TeamInv

(* What an accepted rotation does. *)
LEMMA PutRotationDoes ==
    ASSUME TeamInv, NEW u \in Users, PutRotation(u)
    PROVE  /\ cmd[u] \in Attempts /\ cmd[u].at = "rotate"
           /\ cmd[u].holders \subseteq DOMAIN cmd[u].keys
           /\ \A h \in cmd[u].holders : role[h] # "none"
           /\ grants' = [h \in Users |->
                           IF h \in cmd[u].holders
                           THEN [key |-> vaultKey + 1, to |-> cmd[u].keys[h],
                                 seal |-> 0]
                           ELSE NoGrant]
           /\ \A h \in cmd[u].holders : grants'[h] \in Sealed
           /\ vaultKey' = vaultKey + 1
           /\ tokens' = ResealTokens(ActiveTokens, vaultKey + 1)
           /\ UNCHANGED <<lifecycle, role, pubkey, local>>
           /\ TypeOK'
<1>1. TeamTypeOK /\ TypeOK /\ RotationKnows(u)
  BY DEF TeamInv, TeamTypeOK
<1>2. cmd[u] \in Attempts /\ cmd[u].at = "rotate"
  BY <1>1, CommandFields DEF PutRotation, At, TeamTypeOK
<1>3. cmd[u].holders \subseteq DOMAIN cmd[u].keys
  BY <1>1, <1>2 DEF RotationKnows
<1>4. \A h \in cmd[u].holders : h \in Users /\ cmd[u].keys[h] \in Nat
  BY <1>2, <1>3 DEF Attempts
<1>5. PICK req : req = Request(u)
  OBVIOUS
<1>6. /\ Rotate(u, req) /\ UNCHANGED local
  BY <1>5 DEF PutRotation
<1>7. /\ req.key = vaultKey + 1 /\ DOMAIN req.grants = cmd[u].holders
      /\ \A h \in cmd[u].holders :
            req.grants[h] = [key |-> vaultKey + 1, to |-> cmd[u].keys[h],
                             seal |-> 0]
  BY <1>5 DEF Request
<1>8. ASSUME NEW h \in DOMAIN req.grants PROVE req.grants[h] \in Sealed
  <2>1. vaultKey + 1 \in Nat
    BY <1>1 DEF TypeOK
  <2>2. cmd[u].keys[h] \in Nat
    BY <1>4, <1>7
  <2>3. req.grants[h] = [key |-> vaultKey + 1, to |-> cmd[u].keys[h],
                         seal |-> 0]
    BY <1>7
  <2> QED BY <2>1, <2>2, <2>3 DEF Sealed
<1>9. req.key \in Nat
  BY <1>1, <1>7 DEF TypeOK
<1>10. TypeOK'
  BY <1>1, <1>6, <1>8, <1>9, RotateTypeOK
<1>11. /\ \A h \in cmd[u].holders : role[h] # "none"
       /\ vaultKey' = vaultKey + 1
       /\ tokens' = ResealTokens(ActiveTokens, vaultKey + 1)
       /\ UNCHANGED <<lifecycle, role, pubkey>>
  BY <1>6, <1>7 DEF Rotate, RotationCovers
<1>12. grants' = [h \in Users |-> IF h \in DOMAIN req.grants
                                  THEN req.grants[h] ELSE NoGrant]
  BY <1>6 DEF Rotate
<1>13. grants' = [h \in Users |->
                    IF h \in cmd[u].holders
                    THEN [key |-> vaultKey + 1, to |-> cmd[u].keys[h],
                          seal |-> 0]
                    ELSE NoGrant]
  BY <1>7, <1>12
<1>14. \A h \in cmd[u].holders : grants'[h] \in Sealed
  BY <1>4, <1>7, <1>8, <1>12
<1> QED BY <1>2, <1>3, <1>6, <1>10, <1>11, <1>13, <1>14

(* What it leaves of the commands: its own ends, or goes on to the removal. *)
LEMMA PutRotationNotices ==
    ASSUME TeamInv, NEW u \in Users, PutRotation(u)
    PROVE  \E running \in [Users -> CommandTypes], U \in SUBSET Users :
              /\ Noticed(running, U)
              /\ \A v \in Users \ {u} : running[v] = cmd[v]
              /\ \/ running[u] = Idle
                 \/ cmd[u].then = "delete" /\ running[u] = Begun(u)
              /\ \A h \in cmd[u].holders : grants[h] # NoGrant \/ h \in U
<1>1. cmd \in [Users -> CommandTypes]
  BY DEF TeamInv, TeamTypeOK
<1>2. cmd[u] \in Attempts
  BY PutRotationDoes
<1>3. PICK running :
         running = [cmd EXCEPT ![u] = IF cmd[u].then = "idle" THEN Idle
                                      ELSE Begun(u)]
  OBVIOUS
<1>4. PICK U : U = {h \in DOMAIN cmd[u].keys :
                        grants[h] = NoGrant /\ grants'[h] # NoGrant}
  OBVIOUS
<1>5. Noticed(running, U)
  BY <1>1, <1>3, <1>4 DEF PutRotation
<1>6. Begun(u) \in CommandTypes /\ Idle \in CommandTypes
  BY <1>2, BegunType DEF CommandTypes, Attempts
<1>7. /\ running \in [Users -> CommandTypes]
      /\ \A v \in Users \ {u} : running[v] = cmd[v]
      /\ running[u] = IF cmd[u].then = "idle" THEN Idle ELSE Begun(u)
  BY <1>1, <1>3, <1>6
<1>8. DOMAIN cmd[u].keys \subseteq Users /\ cmd[u].then \in {"idle", "delete"}
  BY <1>2 DEF Attempts
<1>9. \A h \in cmd[u].holders : grants'[h] # NoGrant /\ h \in DOMAIN cmd[u].keys
  BY PutRotationDoes, TeamAssumption
<1>10. U \in SUBSET Users /\ \A h \in cmd[u].holders : grants[h] # NoGrant \/ h \in U
  BY <1>4, <1>8, <1>9
<1> QED BY <1>5, <1>7, <1>8, <1>10

LEMMA PutRotationKeeps ==
    ASSUME TeamInv, NEW u \in Users, PutRotation(u)
    PROVE  TeamInv'
<1>1. TeamTypeOK /\ TypeOK /\ RotationKnows(u) /\ RotationAims(u)
      /\ GrantsOnlyForMembers /\ KeysMade
  BY DEF TeamInv, TeamTypeOK
<1>2. PICK running \in [Users -> CommandTypes], U \in SUBSET Users :
         /\ Noticed(running, U)
         /\ \A v \in Users \ {u} : running[v] = cmd[v]
         /\ \/ running[u] = Idle
            \/ cmd[u].then = "delete" /\ running[u] = Begun(u)
         /\ \A h \in cmd[u].holders : grants[h] # NoGrant \/ h \in U
  BY PutRotationNotices
<1>3. /\ cmd[u] \in Attempts /\ cmd[u].at = "rotate"
      /\ \A h \in cmd[u].holders : role[h] # "none"
      /\ vaultKey' = vaultKey + 1
      /\ tokens' = ResealTokens(ActiveTokens, vaultKey + 1)
      /\ UNCHANGED <<lifecycle, role, pubkey, local>>
      /\ TypeOK'
      /\ \A h \in Users : grants'[h] # NoGrant =>
            h \in cmd[u].holders /\ grants'[h].key = vaultKey + 1
  BY PutRotationDoes
<1>4. Held
  BY DEF PutRotation
<1>5. GrantsOnlyForMembers'
  BY <1>3 DEF GrantsOnlyForMembers
<1>6. \A h \in Users : grants'[h] # NoGrant => grants'[h].key <= vaultKey'
  BY <1>1, <1>3 DEF TypeOK
<1>14. TokensAnswerToMembers' /\ SealedUnderMade'
  <2>1. ASSUME NEW t \in Tokens
        PROVE  /\ tokens'[t].status = tokens[t].status
               /\ tokens'[t].creator = tokens[t].creator
               /\ tokens'[t].sealed \in {tokens[t].sealed, vaultKey + 1}
    BY <1>1, <1>3 DEF ResealTokens, TypeOK, Token
  <2>2. \A t \in Tokens : tokens[t].sealed \in Nat /\ tokens[t].sealed <= vaultKey
    BY <1>1 DEF TeamInv, SealedUnderMade, TypeOK, Token
  <2>3. SealedUnderMade'
    BY <1>1, <1>3, <2>1, <2>2 DEF SealedUnderMade, TypeOK
  <2> QED BY <1>3, <2>1, <2>3 DEF TeamInv, TokensAnswerToMembers, ActiveTokens
<1>7. /\ held' \in [Users -> SUBSET Nat] /\ KnowingHold'
      /\ \A h \in Users : \A k \in held'[h] : k <= vaultKey'
  <2>1. \A h \in Users : role'[h] = "none" => role[h] = "none"
    BY <1>3
  <2> QED BY <1>3, <1>4, <1>5, <1>6, <1>14, <2>1, HeldKnows
<1>8. TeamTypeOK'
  BY <1>1, <1>2, <1>3, <1>7, NoticedAdds DEF TeamTypeOK
<1>9. running[u].at \in {"idle", "delete"}
  BY <1>2, <1>3, BegunType DEF Idle
<1>10. cmd'[u].at \in {"idle", "delete"}
  <2>1. running[u] = Idle => cmd'[u] = Idle /\ Idle.at = "idle"
    BY <1>2, NoticedAdds DEF Idle
  <2>2. running[u].at = "delete" => cmd'[u].at = "delete"
    BY <1>2, NoticedAdds
  <2> QED BY <1>2, <1>3, <2>1, <2>2, BegunType
<1>11. KeysMade'
  <2>1. ASSUME NEW v \in Users, cmd'[v].at = "share"
        PROVE  cmd'[v].box.key <= vaultKey'
    <3>1. v # u
      BY <1>10, <2>1
    <3>2. SameCommand(v)
      BY <1>2, <3>1, NoticedAdds
    <3>3. cmd[v] \in Shares
      BY <1>1, <2>1, <3>2, CommandFields DEF SameCommand, TeamTypeOK
    <3>4. cmd[v].box.key \in Nat /\ cmd[v].box.key <= vaultKey
      BY <1>1, <3>3 DEF KeysMade, Shares, Sealed
    <3> QED BY <1>1, <1>3, <2>1, <3>2, <3>4 DEF SameCommand, TypeOK
  <2>2. \A v \in Users : local'[v] # NoKey => local'[v] <= vaultKey'
    BY <1>1, <1>3 DEF KeysMade, TeamTypeOK, TypeOK
  <2> QED BY <1>6, <1>7, <2>1, <2>2 DEF KeysMade
<1>12. ASSUME NEW v \in Users \ {u}
       PROVE  RotationKnows(v)' /\ RemovalKnows(v)' /\ RotationAims(v)'
  <2>1. \A h \in Users \ U :
           /\ role'[h] # "none" => role[h] # "none" /\ pubkey'[h] = pubkey[h]
           /\ grants'[h] # NoGrant => grants[h] # NoGrant
    BY <1>2, <1>3
  <2> QED BY <1>2, <2>1, Notices
<1>13. RotationKnows(u)' /\ RemovalKnows(u)' /\ RotationAims(u)'
  <2>1. CASE running[u] = Idle
    BY <1>2, <2>1, NoticedAdds, EndedKnows
  <2>2. CASE cmd[u].then = "delete" /\ running[u] = Begun(u)
    <3>1. cmd[u].target \in Users /\ cmd[u].target \notin cmd[u].holders
      BY <1>1, <1>3, <2>2 DEF RotationAims, RotationKnows
    <3>2. grants'[cmd[u].target] = NoGrant
      BY <1>3, <3>1
    <3>3. Begun(u).at = "delete" /\ Begun(u).target = cmd[u].target
      BY <1>3, BegunType
    <3>4. cmd'[u].at = "delete" /\ cmd'[u].target = cmd[u].target
      BY <1>2, <2>2, <3>3, NoticedAdds
    <3> QED BY <3>1, <3>2, <3>4 DEF RotationKnows, RemovalKnows, RotationAims
  <2> QED BY <1>2, <2>1, <2>2
<1> QED BY <1>5, <1>7, <1>8, <1>11, <1>12, <1>13, <1>14 DEF TeamInv

-----------------------------------------------------------------------------
(* The invariant holds *)

LEMMA InitTeamInv == TeamInit => TeamInv
<1> SUFFICES ASSUME TeamInit PROVE TeamInv
  OBVIOUS
<1>1. Staff \in [Users -> Roles] /\ \A h \in FirstHolders : Staff[h] # "none"
  BY TeamAssumption
<1>2. TypeOK
  <2>1. grants \in [Users -> Sealed \cup {NoGrant}]
    BY DEF TeamInit, Sealed
  <2>2. tokens \in [Tokens -> Token]
    BY CreatorAssumption DEF TeamInit, Token
  <2>3. secrets \in [Secrets -> Row]
    BY DEF TeamInit, Row, Absent
  <2> QED BY <1>1, <2>1, <2>2, <2>3 DEF TeamInit, TypeOK
<1>3. TeamTypeOK
  <2>1. local \in [Users -> Nat \cup {NoKey}] /\ held \in [Users -> SUBSET Nat]
    BY DEF TeamInit
  <2>2. cmd \in [Users -> CommandTypes]
    BY DEF TeamInit, CommandTypes
  <2> QED BY <1>2, <2>1, <2>2 DEF TeamTypeOK
<1>4. \A u \in Users : cmd[u] = Idle /\ cmd[u].at = "idle"
  BY DEF TeamInit, Idle
<1>5. GrantsOnlyForMembers
  BY <1>1 DEF TeamInit, GrantsOnlyForMembers
<1>6. KeysMade
  <2>1. \A u \in Users : /\ local[u] # NoKey => local[u] = 0
                         /\ \A k \in held[u] : k = 0
                         /\ grants[u] # NoGrant => grants[u].key = 0
    BY DEF TeamInit
  <2>2. vaultKey = 0 /\ 0 <= 0
    BY DEF TeamInit
  <2> QED BY <1>4, <2>1, <2>2 DEF KeysMade
<1>7. KnowingHold
  <2>1. \A u \in Users : u \in FirstHolders => grants[u] \in Sealed
    BY DEF TeamInit, Sealed
  <2> QED BY <1>1, <2>1, TeamAssumption DEF TeamInit, KnowingHold
<1>8. \A u \in Users : RotationKnows(u) /\ RemovalKnows(u) /\ RotationAims(u)
  BY <1>4 DEF RotationKnows, RemovalKnows, RotationAims
<1>9. TokensAnswerToMembers /\ SealedUnderMade
  BY DEF TeamInit, TokensAnswerToMembers, ActiveTokens, SealedUnderMade
<1> QED BY <1>3, <1>5, <1>6, <1>7, <1>8, <1>9 DEF TeamInv

LEMMA NextTeamInv == TeamInv /\ [TeamNext]_vars => TeamInv'
<1> SUFFICES ASSUME TeamInv, [TeamNext]_vars PROVE TeamInv'
  OBVIOUS
<1>1. ASSUME NEW u \in Users, RotateStep(u) PROVE TeamInv'
  BY <1>1, StartRotateKeeps, RotateRowsKeeps, RotateHoldersKeeps,
     RotateTokensKeeps, PutRotationKeeps, RetryRotationKeeps DEF RotateStep
<1>2. ASSUME NEW u \in Users, RemoveStep(u) PROVE TeamInv'
  BY <1>2, StartRemoveKeeps, RemoveHeldKeeps, RemovePeersKeeps,
     RemoveMembersKeeps, DeleteMemberKeeps DEF RemoveStep
<1>3. ASSUME NEW u \in Users, ShareStep(u) PROVE TeamInv'
  BY <1>3, StartShareKeeps, InviteKeeps, MakeTokenKeeps, RefreshKeeps,
     PushKeeps, PutShareKeeps DEF ShareStep
<1>4. ASSUME NEW u \in Users, Abort(u) PROVE TeamInv'
  BY <1>4, AbortKeeps
<1>5. ASSUME NEW u \in Resetting, Reset(u) PROVE TeamInv'
  BY <1>5, ResetKeeps, TeamAssumption
<1>6. CASE UNCHANGED vars
  <2>1. TypeOK'
    BY <1>6 DEF TeamInv, TeamTypeOK, TypeOK, vars, serverVars
  <2> QED BY <1>6, <2>1, TablesOnly DEF vars, serverVars
<1> QED BY <1>1, <1>2, <1>3, <1>4, <1>5, <1>6 DEF TeamNext

(* The requests of all commands keep the server's tables, the commands and  *)
(* the local stores well-typed: whatever a command reads, retries or leaves *)
(* behind, no record of one kind of command is ever taken for another.      *)
THEOREM TeamTypeCorrect == TeamSpec => []TeamTypeOK
<1>1. TeamInv => TeamTypeOK
  BY DEF TeamInv
<1> QED BY <1>1, InitTeamInv, NextTeamInv, PTL DEF TeamSpec

(* Beside rotations, removals, shares, invitations and resets in any order, *)
(* a rotation under way knows every member but those `since` names, and a   *)
(* removal at its last request knows that the member or the remover is      *)
(* without a grant, or is named there.                                      *)
THEOREM TeamInvariantHolds == TeamSpec => []TeamInv
BY InitTeamInv, NextTeamInv, PTL DEF TeamSpec

-----------------------------------------------------------------------------
(* What removals and rotations promise *)

(* Only a rotation makes a key, and only a removal ends a membership. *)
LEMMA StepKinds ==
    ASSUME TeamInv, [TeamNext]_vars
    PROVE  \/ \E u \in Users : PutRotation(u)
           \/ \E u \in Users : DeleteMember(u)
           \/ /\ vaultKey' = vaultKey
              /\ \A h \in Users : role[h] # "none" => role'[h] # "none"
<1> DEFINE Quiet ==
      /\ vaultKey' = vaultKey
      /\ \A h \in Users : role[h] # "none" => role'[h] # "none"
<1>1. UNCHANGED serverVars => Quiet
  BY DEF serverVars
<1>2. ASSUME NEW u \in Users, RotateStep(u), ~PutRotation(u) PROVE Quiet
  BY <1>1, <1>2 DEF RotateStep, StartRotate, RotateRows, RotateHolders,
                    RotateTokens, RetryRotation
<1>3. ASSUME NEW u \in Users, RemoveStep(u), ~DeleteMember(u) PROVE Quiet
  BY <1>1, <1>3 DEF RemoveStep, StartRemove, RemoveHeld, RemovePeers,
                    RemoveMembers
<1>4. ASSUME NEW u \in Users, ShareStep(u) PROVE Quiet
  <2>1. ASSUME NEW target \in Users, Invite(u, target) PROVE Quiet
    BY <2>1 DEF Invite, AddMember, TeamInv, TeamTypeOK, TypeOK
  <2>2. ASSUME Push(u) PROVE Quiet
    BY <2>2 DEF Push, WriteSecrets
  <2>3. ASSUME NEW t \in Tokens, MakeToken(u, t) PROVE Quiet
    BY <2>3 DEF MakeToken, CreateToken
  <2>4. ASSUME PutShare(u) PROVE Quiet
    BY <2>4 DEF PutShare, CreateGrant
  <2> QED BY <1>1, <1>4, <2>1, <2>2, <2>3, <2>4
             DEF ShareStep, StartShare, Refresh
<1>5. ASSUME NEW u \in Users, Abort(u) PROVE Quiet
  BY <1>1, <1>5 DEF Abort
<1>6. ASSUME NEW u \in Resetting, Reset(u) PROVE Quiet
  BY <1>6 DEF Reset, ResetAccount
<1>7. CASE UNCHANGED vars
  BY <1>1, <1>7 DEF vars
<1> QED BY <1>2, <1>3, <1>4, <1>5, <1>6, <1>7 DEF TeamNext

(* A removal that goes through leaves the member without the key in force,  *)
(* unless the member or the remover was granted anew beside it, or the      *)
(* member's own machine token holds it.                                     *)
LEMMA DeletionLeavesNoKey ==
    ASSUME TeamInv, NEW u \in Users, NEW target \in Users,
           DeleteMember(u), LeavesWithKey(u, target)
    PROVE  {target, u} \cap cmd[u].since # {} \/ HasToken(target)
<1> SUFFICES ASSUME {target, u} \cap cmd[u].since = {}, ~HasToken(target)
             PROVE  FALSE
  OBVIOUS
<1>1. /\ cmd[u].at = "delete" /\ cmd[u].target = target
      /\ vaultKey \in held[target]
      /\ RemoveMember(u, target)
  BY DEF LeavesWithKey, DeleteMember, At
<1>2. PICK m \in Users : Opens(m)' /\ grants'[m].key = vaultKey
  BY DEF LeavesWithKey
<1>3. grants' = [grants EXCEPT ![target] = NoGrant]
  BY <1>1 DEF RemoveMember, WithoutGrant
<1>4. m # target /\ grants[m] # NoGrant
  BY <1>2, <1>3 DEF Opens, TeamInv, TeamTypeOK, TypeOK
<1>5. grants[target] # NoGrant
  BY <1>1 DEF TeamInv, KnowingHold
<1>6. m \in Members \ {target}
  BY <1>4 DEF TeamInv, GrantsOnlyForMembers, Members
<1>7. grants[u] # NoGrant
  BY <1>1, <1>4, <1>5, <1>6 DEF RemoveMember, CallerCanRekey
<1> QED BY <1>1, <1>5, <1>7 DEF TeamInv, RemovalKnows

LEMMA RemovalStep ==
    ASSUME TeamInv, [TeamNext]_vars, NEW u \in Users, NEW target \in Users,
           LeavesWithKey(u, target)
    PROVE  {target, u} \cap cmd[u].since # {} \/ HasToken(target)
<1>1. /\ role[target] # "none" /\ role'[target] = "none"
      /\ cmd[u] # Idle /\ cmd'[u] = Idle
  BY DEF LeavesWithKey, Removed, At, Idle
<1>2. PICK v \in Users : DeleteMember(v)
  <2>1. ASSUME NEW v \in Users, PutRotation(v) PROVE FALSE
    BY <1>1, <2>1, PutRotationDoes
  <2> QED BY <1>1, <2>1, StepKinds
<1>3. v = u
  BY <1>1, <1>2 DEF DeleteMember, Finish, TeamInv, TeamTypeOK
<1> QED BY <1>2, <1>3, DeletionLeavesNoKey

(* `org remove` and its rotation, in however many requests and beside any   *)
(* other administrator's: the removed member does not keep the key in force *)
(* that somebody else can open, neither from a grant nor from a machine     *)
(* token of an earlier key, unless the member or the remover was granted    *)
(* anew while the removal ran, or a machine token the member made holds the *)
(* key in force when the membership ends.                                   *)
THEOREM RemovalIsARekey == TeamSpec => RemovalLeavesNoKey
<1> DEFINE NoKeyLeaves ==
      \A u, target \in Users :
         LeavesWithKey(u, target) =>
            {target, u} \cap cmd[u].since # {} \/ HasToken(target)
<1>1. TeamInv /\ [TeamNext]_vars => [NoKeyLeaves]_vars
  BY RemovalStep
<1> QED
  BY <1>1, TeamInvariantHolds, PTL DEF TeamSpec, RemovalLeavesNoKey

LEMMA RotationStep ==
    ASSUME TeamInv, [TeamNext]_vars, NEW u \in Users,
           vaultKey' # vaultKey, At(u, "rotate"), ~At(u, "rotate")',
           NEW h \in Users \ (cmd[u].since \cup {cmd[u].target}),
           role[h] # "none", Opens(h)
    PROVE  Opens(h)'
<1>1. PICK v \in Users : PutRotation(v)
  <2>1. ASSUME NEW v \in Users, DeleteMember(v) PROVE FALSE
    BY <2>1 DEF DeleteMember, RemoveMember
  <2> QED BY <2>1, StepKinds
<1>2. v = u
  <2>1. PICK running \in [Users -> CommandTypes], U \in SUBSET Users :
           /\ Noticed(running, U)
           /\ \A w \in Users \ {v} : running[w] = cmd[w]
    BY <1>1, PutRotationNotices
  <2>2. v # u => SameCommand(u)
    BY <2>1, NoticedAdds
  <2> QED BY <2>2 DEF SameCommand, At
<1>3. RotationKnows(u) /\ cmd[u].at = "rotate"
  BY DEF TeamInv, At
<1>4. h \in cmd[u].holders
  BY <1>3 DEF RotationKnows, Opens
<1>5. cmd[u].keys[h] = pubkey[h]
  BY <1>3 DEF RotationKnows, ListedMember
<1>6. /\ grants'[h] = [key |-> vaultKey + 1, to |-> cmd[u].keys[h], seal |-> 0]
      /\ grants'[h] \in Sealed /\ pubkey' = pubkey
  BY <1>1, <1>2, <1>4, PutRotationDoes
<1>7. grants'[h] # NoGrant
  BY <1>6, TeamAssumption
<1> QED BY <1>5, <1>6, <1>7 DEF Opens

(* A `rotate` (or the rotation of a removal) that is accepted, in whichever *)
(* attempt, takes the environment from nobody who could open it but the     *)
(* member being removed and those `since` names.                            *)
THEOREM RotationLosesNobody == TeamSpec => RotationKeepsAccess
<1> DEFINE KeepsAccess ==
      \A u \in Users :
         vaultKey' # vaultKey /\ At(u, "rotate") /\ ~At(u, "rotate")'
            => \A h \in Users \ (cmd[u].since \cup {cmd[u].target}) :
                  role[h] # "none" /\ Opens(h) => Opens(h)'
<1>1. TeamInv /\ [TeamNext]_vars => [KeepsAccess]_vars
  BY RotationStep
<1> QED
  BY <1>1, TeamInvariantHolds, PTL DEF TeamSpec, RotationKeepsAccess

=============================================================================
