--------------------------- MODULE IdentityProofs ---------------------------
(***************************************************************************)
(* Who somebody is: theorems about the key material of an account, about   *)
(* sign-in, and about the share links a signed-in user hands out.          *)
(***************************************************************************)
EXTENDS Account, ShareLinks, TLAPS

-----------------------------------------------------------------------------
(***************************************************************************)
(* An initialised device can be unlocked, and what it sends to the server  *)
(* is what it holds, for any number of devices, terminals and identities.  *)
(* Neither is inductive.  A command between its two writes may leave the   *)
(* device as it finds it: DeviceOK adds what such a command knows, that it *)
(* is alone on an undisturbed device, that its secret key is in the        *)
(* keychain after the first write, and that unless it is a reset the store *)
(* is still empty.  A command that carries an identity to the server may   *)
(* find another in the store when it arrives: CarryOK says that only a     *)
(* reset, which crosses it, can have put it there, because init and setup  *)
(* write nothing on a device that has an identity to be carried.           *)
(***************************************************************************)

Openable(d) == Initialised(d) => secret[d] = store[d]

(* What holds of the terminal t while it makes keys on its device.          *)
MakerOK(t) ==
    /\ \A u \in Terminals : u # t /\ On[u] = On[t] => ~Making(u)
    /\ cmd[t].at = "keychain" => Openable(On[t])
    /\ cmd[t].at = "store" => secret[On[t]] = cmd[t].key
    /\ cmd[t].do # "reset" => ~Initialised(On[t])

DeviceOK(d) ==
    d \notin disturbed =>
        /\ MadeOn(d) = {} => Openable(d)
        /\ \A t \in Terminals : On[t] = d /\ Making(t) => MakerOK(t)

(* What a command carries is what is in the store.                          *)
CarryOK(t) ==
    ~cmd[t].crossed /\ On[t] \notin disturbed =>
        /\ Carrying(t) /\ cmd[t].do = "reset"
              => Initialised(On[t]) /\ cmd[t].key = store[On[t]]
        /\ cmd[t].at \in {"keys", "send"}
              => Initialised(On[t]) /\ cmd[t].salt = store[On[t]]
        /\ cmd[t].at = "send" => cmd[t].keys = store[On[t]]

(* Only a downloaded account may be none that anybody made.                 *)
KeyOK(t) ==
    /\ cmd[t].at # "kit" => cmd[t].key \in 0 .. made
    /\ cmd[t].do = "reset" => cmd[t].at # "kit" /\ cmd[t].key # 0

AccountInv ==
    /\ AccountTypeOK
    /\ \A t \in Terminals : KeyOK(t)
    /\ \A d \in Devices : DeviceOK(d)
    /\ \A t \in Terminals : CarryOK(t)

-----------------------------------------------------------------------------
(* Types *)

(* A command that goes on, or ends, stays a command. *)
LEMMA GoStays ==
  ASSUME AccountTypeOK, \A u \in Terminals : KeyOK(u),
         NEW t \in Terminals, NEW at \in Steps, at # "kit", Go(t, at),
         cmd[t].at # "kit", made' = made
  PROVE  cmd' \in [Terminals -> Command]' /\ \A u \in Terminals : KeyOK(u)'
BY DEF AccountTypeOK, Go, Command, KeyOK

LEMMA FinishStays ==
  ASSUME AccountTypeOK, \A u \in Terminals : KeyOK(u),
         NEW t \in Terminals, Finish(t), made' = made
  PROVE  cmd' \in [Terminals -> Command]' /\ \A u \in Terminals : KeyOK(u)'
<1>1. Idle \in Command /\ Idle.at = "idle" /\ Idle.key = 0 /\ Idle.do = "none"
  BY DEF AccountTypeOK, Idle, Command, Commands, Steps, Identity
<1>2. 0 \in 0 .. made
  BY DEF AccountTypeOK, Identity
<1> QED BY <1>1, <1>2 DEF AccountTypeOK, Finish, Command, KeyOK

LEMMA BeginStays ==
  ASSUME AccountTypeOK, \A u \in Terminals : KeyOK(u),
         NEW t \in Terminals, NEW c \in Commands, NEW at \in Steps, NEW key,
         Begin(t, c, at, key), made' \in Nat, made <= made',
         key \in (0 .. made') \cup {Mixed},
         at # "kit" => key \in 0 .. made',
         c = "reset" => at # "kit" /\ key # 0
  PROVE  cmd' \in [Terminals -> Command]' /\ \A u \in Terminals : KeyOK(u)'
<1>1. PICK new : new = [Idle EXCEPT !.do = c, !.at = at, !.key = key]
  OBVIOUS
<1>2. new = [do |-> c, at |-> at, key |-> key, salt |-> 0, keys |-> 0,
             crossed |-> FALSE]
  BY <1>1 DEF Idle
<1>3. 0 .. made \subseteq 0 .. made' /\ 0 \in 0 .. made'
  BY DEF AccountTypeOK, Identity
<1>4. Command \subseteq Command' /\ new \in Command'
  BY <1>2, <1>3 DEF Command
<1>5. cmd' = [cmd EXCEPT ![t] = new]
  BY <1>1 DEF Begin
<1>6. cmd' \in [Terminals -> Command']
  BY <1>4, <1>5 DEF AccountTypeOK
<1>7. ASSUME NEW u \in Terminals PROVE KeyOK(u)'
  BY <1>2, <1>3, <1>5 DEF KeyOK, AccountTypeOK
<1> QED BY <1>6, <1>7

LEMMA BeginMakes ==
  ASSUME AccountTypeOK, NEW t \in Terminals, NEW c, NEW at, NEW key,
         Begin(t, c, at, key)
  PROVE  /\ cmd' = [cmd EXCEPT ![t] = cmd'[t]]
         /\ cmd'[t].do = c /\ cmd'[t].at = at /\ cmd'[t].key = key
<1>1. PICK new : new = [Idle EXCEPT !.do = c, !.at = at, !.key = key]
  OBVIOUS
<1>2. new.do = c /\ new.at = at /\ new.key = key
  BY <1>1 DEF Idle
<1>3. cmd' = [cmd EXCEPT ![t] = new]
  BY <1>1 DEF Begin
<1> QED BY <1>2, <1>3 DEF AccountTypeOK

(* Writing an identity moves the writer on, and crosses at most others. *)
LEMMA AcrossStays ==
  ASSUME AccountTypeOK, \A u \in Terminals : KeyOK(u),
         NEW t \in Terminals, NEW at \in {"store", "session"}, GoAcross(t, at),
         cmd[t].at # "kit", made' = made
  PROVE  /\ cmd' \in [Terminals -> Command]' /\ \A u \in Terminals : KeyOK(u)'
         /\ cmd'[t] = [cmd[t] EXCEPT !.at = at]
         /\ \A u \in Terminals \ {t} :
               /\ cmd'[u].at = cmd[u].at /\ cmd'[u].do = cmd[u].do
               /\ cmd'[u].key = cmd[u].key /\ cmd'[u].salt = cmd[u].salt
               /\ cmd'[u].keys = cmd[u].keys
               /\ cmd[u].crossed => cmd'[u].crossed
               /\ On[u] # On[t] => cmd'[u] = cmd[u]
               /\ On[u] = On[t] /\ Carrying(u) /\ cmd[t].do = "reset"
                     => cmd'[u].crossed
<1>1. \A u \in Terminals :
         cmd'[u] = IF u = t THEN [cmd[t] EXCEPT !.at = at]
                   ELSE IF On[u] = On[t] /\ Carrying(u) /\ cmd[t].do = "reset"
                        THEN [cmd[u] EXCEPT !.crossed = TRUE]
                        ELSE cmd[u]
  BY DEF GoAcross
<1>2. \A u \in Terminals : cmd[u] \in Command
  BY DEF AccountTypeOK
<1>3. [cmd[t] EXCEPT !.at = at] \in Command
  BY <1>2 DEF Command, Steps
<1>4. \A u \in Terminals : [cmd[u] EXCEPT !.crossed = TRUE] \in Command
  BY <1>2 DEF Command
<1>5. \A u \in Terminals : cmd'[u] \in Command
  BY <1>1, <1>2, <1>3, <1>4
<1>6. cmd' \in [Terminals -> Command]
  BY <1>5 DEF GoAcross
<1>7. \A u \in Terminals \ {t} :
         /\ cmd'[u].at = cmd[u].at /\ cmd'[u].do = cmd[u].do
         /\ cmd'[u].key = cmd[u].key /\ cmd'[u].salt = cmd[u].salt
         /\ cmd'[u].keys = cmd[u].keys
         /\ cmd[u].crossed => cmd'[u].crossed
         /\ On[u] # On[t] => cmd'[u] = cmd[u]
         /\ On[u] = On[t] /\ Carrying(u) /\ cmd[t].do = "reset"
               => cmd'[u].crossed
  BY <1>1, <1>2 DEF Command
<1>8. cmd'[t] = [cmd[t] EXCEPT !.at = at]
  BY <1>1
<1>9. cmd'[t].at = at /\ cmd'[t].key = cmd[t].key /\ cmd'[t].do = cmd[t].do
  BY <1>2, <1>8 DEF Command
<1>10. \A u \in Terminals : KeyOK(u)'
  BY <1>7, <1>9 DEF KeyOK
<1> QED BY <1>6, <1>7, <1>8, <1>10 DEF Command

LEMMA KeyAndPlace ==
  ASSUME AccountTypeOK, NEW t \in Terminals
  PROVE  /\ cmd[t].key \in (0 .. made) \cup {Mixed} /\ On[t] \in Devices
         /\ cmd[t].salt \in 0 .. made /\ cmd[t].keys \in 0 .. made
         /\ Material(t) \in (0 .. made) \cup {Mixed}
BY OnAssumption DEF AccountTypeOK, Command, Material, Bundle

TypesKept == AccountTypeOK' /\ \A u \in Terminals : KeyOK(u)'

(* Types, for every action. *)
LEMMA TypeStep ==
  ASSUME AccountTypeOK, \A u \in Terminals : KeyOK(u),
         [AccountNext]_accountVars
  PROVE  TypesKept
<1> USE OnAssumption, MadeAssumption
        DEF AccountTypeOK, Identity, Commands, Steps, TypesKept
<1>1. ASSUME NEW t \in Terminals, NEW c \in {"init", "reset"}, MakeKeys(t, c)
      PROVE  TypesKept
  <2>1. /\ made' = made + 1 /\ made' \in Identity
        /\ 0 .. made \subseteq 0 .. made' /\ made <= made' /\ made' \in Nat
    BY <1>1 DEF MakeKeys
  <2>2. UNCHANGED <<account, kits, deviceVars>>
    BY <1>1 DEF MakeKeys
  <2>3. Begin(t, c, "keychain", made + 1) /\ made + 1 \in 0 .. made'
        /\ made + 1 # 0
    BY <1>1, <2>1 DEF MakeKeys
  <2>4. cmd' \in [Terminals -> Command]' /\ \A u \in Terminals : KeyOK(u)'
    BY <2>1, <2>3, BeginStays
  <2>5. disturbed' \subseteq Devices
    BY <1>1 DEF MakeKeys, Joined
  <2>6. /\ secret \in [Devices -> 0 .. made'] /\ store \in [Devices -> 0 .. made']
        /\ master \in [Devices -> 0 .. made']
    BY <2>1
  <2>7. account' \in (0 .. made') \cup {Mixed}
    BY <2>1, <2>2
  <2> QED BY <2>1, <2>2, <2>4, <2>5, <2>6, <2>7 DEF deviceVars
<1>2. ASSUME NEW t \in Terminals, StartSetup(t) \/ AcceptKit(t)
      PROVE  TypesKept
  <2>1. CASE StartSetup(t)
    <3>1. cmd' \in [Terminals -> Command]' /\ \A u \in Terminals : KeyOK(u)'
      BY <2>1, BeginStays DEF StartSetup
    <3> QED BY <2>1, <3>1 DEF StartSetup, deviceVars
  <2>2. CASE AcceptKit(t)
    <3>1. cmd[t].key \in 0 .. made /\ cmd[t].do # "reset"
      BY <2>2 DEF AcceptKit, MayRestore, KitOpens, KeyOK, At
    <3>2. cmd' \in [Terminals -> Command]
      BY <2>2 DEF AcceptKit, Go, Command
    <3>3. \A u \in Terminals : KeyOK(u)'
      BY <2>2, <3>1 DEF AcceptKit, Go, Command, KeyOK
    <3>4. disturbed' \subseteq Devices
      BY <2>2 DEF AcceptKit, Joined
    <3> QED BY <2>2, <3>2, <3>3, <3>4 DEF AcceptKit, deviceVars, Command
  <2> QED BY <1>2, <2>1, <2>2
<1>3. ASSUME NEW t \in Terminals, SetSecret(t) \/ PutIdentity(t)
      PROVE  TypesKept
  <2>1. cmd[t].key \in 0 .. made /\ cmd[t].at # "kit"
    BY <1>3 DEF SetSecret, PutIdentity, At, KeyOK
  <2>2. cmd' \in [Terminals -> Command]' /\ \A u \in Terminals : KeyOK(u)'
    BY <1>3, <2>1, AcrossStays DEF SetSecret, PutIdentity
  <2>3. /\ secret' \in [Devices -> 0 .. made]
        /\ store' \in [Devices -> 0 .. made]
    BY <1>3, <2>1 DEF SetSecret, PutIdentity, Save
  <2> QED BY <1>3, <2>2, <2>3 DEF SetSecret, PutIdentity
<1>4. ASSUME NEW t \in Terminals, NEW b \in BOOLEAN, PutFails(t, b)
      PROVE  TypesKept
  <2>1. cmd' \in [Terminals -> Command]' /\ \A u \in Terminals : KeyOK(u)'
    BY <1>4, FinishStays DEF PutFails
  <2>2. secret' \in [Devices -> 0 .. made] /\ disturbed' \subseteq Devices
    BY <1>4 DEF PutFails, Broken
  <2> QED BY <1>4, <2>1, <2>2 DEF PutFails
<1>5. ASSUME NEW t \in Terminals, CacheSession(t)
      PROVE  TypesKept
  <2>1. cmd[t].key \in 0 .. made /\ cmd[t].at # "kit"
    BY <1>5 DEF CacheSession, At, KeyOK
  <2>2. cmd' \in [Terminals -> Command]' /\ \A u \in Terminals : KeyOK(u)'
    BY <1>5, <2>1, GoStays, FinishStays DEF CacheSession
  <2>3. master' \in [Devices -> 0 .. made]
    BY <1>5, <2>1 DEF CacheSession
  <2> QED BY <1>5, <2>2, <2>3 DEF CacheSession
<1>6. ASSUME NEW t \in Terminals, PrintKit(t)
      PROVE  TypesKept
  <2>1. kits' = kits \cup {cmd[t].key} /\ cmd[t].key \in 0 .. made
    BY <1>6 DEF PrintKit, At, KeyOK
  <2>2. kits' \subseteq 0 .. made
    BY <2>1
  <2>3. cmd' \in [Terminals -> Command]' /\ \A u \in Terminals : KeyOK(u)'
    BY <1>6, FinishStays DEF PrintKit
  <2> QED BY <1>6, <2>2, <2>3 DEF PrintKit, deviceVars
<1>7. ASSUME NEW t \in Terminals, Stop(t)
      PROVE  TypesKept
  <2>1. cmd' \in [Terminals -> Command]' /\ \A u \in Terminals : KeyOK(u)'
    BY <1>7, FinishStays DEF Stop
  <2>2. disturbed' \subseteq Devices
    BY <1>7 DEF Stop, Broken
  <2> QED BY <1>7, <2>1, <2>2 DEF Stop, deviceVars
<1>8. ASSUME NEW t \in Terminals, SendingStep(t)
      PROVE  TypesKept
  <2>1. CASE StartPush(t)
    <3>1. cmd' \in [Terminals -> Command]' /\ \A u \in Terminals : KeyOK(u)'
      BY <2>1, BeginStays DEF StartPush
    <3> QED BY <2>1, <3>1 DEF StartPush, deviceVars
  <2>2. CASE ReadSalt(t) \/ ReadKeys(t)
    <3>1. store[On[t]] \in 0 .. made /\ cmd[t] \in Command
      OBVIOUS
    <3>2. PICK c : \/ c = [cmd[t] EXCEPT !.at = "keys", !.salt = store[On[t]]]
                      /\ cmd' = [cmd EXCEPT ![t] = c]
                   \/ c = [cmd[t] EXCEPT !.at = "send", !.keys = store[On[t]]]
                      /\ cmd' = [cmd EXCEPT ![t] = c]
      BY <2>2 DEF ReadSalt, ReadKeys
    <3>4. /\ c \in Command /\ c.at # "kit" /\ c.do = cmd[t].do
          /\ c.key = cmd[t].key /\ cmd[t].at # "kit"
      BY <2>2, <3>1, <3>2 DEF ReadSalt, ReadKeys, At, Command
    <3>5. cmd' = [cmd EXCEPT ![t] = c]
      BY <3>2
    <3>6. cmd' \in [Terminals -> Command]
      BY <3>4, <3>5
    <3>3. \A u \in Terminals : KeyOK(u)'
      BY <2>2, <3>4, <3>5 DEF ReadSalt, ReadKeys, KeyOK
    <3> QED BY <2>2, <3>3, <3>6 DEF ReadSalt, ReadKeys, deviceVars, Command
  <2>3. CASE \E heard \in BOOLEAN : SendReset(t, heard)
    <3>1. cmd' \in [Terminals -> Command]' /\ \A u \in Terminals : KeyOK(u)'
      BY <2>3, GoStays, FinishStays DEF SendReset, At
    <3>2. account' \in (0 .. made) \cup {Mixed}
      BY <2>3, KeyAndPlace DEF SendReset
    <3> QED BY <2>3, <3>1, <3>2 DEF SendReset, deviceVars
  <2>4. CASE EnsureAccount(t)
    <3>1. cmd' \in [Terminals -> Command]' /\ \A u \in Terminals : KeyOK(u)'
      BY <2>4, FinishStays DEF EnsureAccount
    <3>2. account' \in (0 .. made) \cup {Mixed}
      BY <2>4, KeyAndPlace DEF EnsureAccount, Uploaded
    <3> QED BY <2>4, <3>1, <3>2 DEF EnsureAccount, deviceVars
  <2> QED BY <1>8, <2>1, <2>2, <2>3, <2>4 DEF SendingStep
<1>9. ASSUME NEW t \in Terminals, StartUnlock(t) \/ CacheUnlocked(t)
      PROVE  TypesKept
  <2>1. CASE StartUnlock(t)
    <3>1. cmd' \in [Terminals -> Command]' /\ \A u \in Terminals : KeyOK(u)'
      BY <2>1, BeginStays DEF StartUnlock
    <3> QED BY <2>1, <3>1 DEF StartUnlock, deviceVars
  <2>2. CASE CacheUnlocked(t)
    <3>1. cmd' \in [Terminals -> Command]' /\ \A u \in Terminals : KeyOK(u)'
      BY <2>2, FinishStays DEF CacheUnlocked
    <3>2. master' \in [Devices -> 0 .. made]
      BY <2>2 DEF CacheUnlocked, At, KeyOK
    <3> QED BY <2>2, <3>1, <3>2 DEF CacheUnlocked
  <2> QED BY <1>9, <2>1, <2>2
<1>10. ASSUME \/ \E d \in Devices : SessionStep(d)
              \/ UNCHANGED accountVars
       PROVE  TypesKept
  <2>1. UNCHANGED <<account, made, kits, secret, store, cmd, disturbed>>
    BY <1>10 DEF SessionStep, Lock, LogIn, LogOut, SessionEnds, SetToken,
                 accountVars, deviceVars
  <2>2. /\ master' \in [Devices -> 0 .. made]
        /\ token' \in [Devices -> {"none", "live", "dead"}]
    BY <1>10 DEF SessionStep, Lock, LogIn, LogOut, SessionEnds, SetToken,
                 accountVars, deviceVars
  <2>3. \A u \in Terminals : KeyOK(u)'
    BY <2>1 DEF KeyOK
  <2> QED BY <2>1, <2>2, <2>3 DEF Command
<1> QED
  BY <1>1, <1>2, <1>3, <1>4, <1>5, <1>6, <1>7, <1>8, <1>9, <1>10
     DEF AccountNext, MakingStep, StartInit, StartReset

-----------------------------------------------------------------------------
(* Steps that leave a device, or what is carried, alone *)

(* A step that writes neither store nor keychain, and moves no command into *)
(* or between the making steps, keeps every device in order.                *)
LEMMA DeviceFrame ==
  ASSUME AccountTypeOK, NEW d \in Devices, DeviceOK(d),
         UNCHANGED <<secret, store>>,
         disturbed \subseteq disturbed',
         \A t \in Terminals : Making(t)' => Making(t) /\ cmd'[t] = cmd[t],
         \A t \in Terminals :
            Making(t) /\ ~Making(t)' /\ On[t] = d =>
                Openable(d) \/ d \in disturbed'
  PROVE  DeviceOK(d)'
<1> SUFFICES ASSUME d \notin disturbed'
             PROVE  /\ MadeOn(d)' = {} => Openable(d)'
                    /\ \A t \in Terminals :
                         On[t] = d /\ Making(t)' => MakerOK(t)'
  BY DEF DeviceOK
<1>1. d \notin disturbed
  OBVIOUS
<1>2. Openable(d)' <=> Openable(d)
  BY DEF Openable, Initialised
<1>3. ASSUME MadeOn(d)' = {}
      PROVE  Openable(d)
  <2>1. CASE MadeOn(d) = {}
    BY <1>1, <2>1 DEF DeviceOK
  <2>2. CASE MadeOn(d) # {}
    BY <1>3, <2>2 DEF MadeOn
  <2> QED BY <2>1, <2>2
<1>4. ASSUME NEW t \in Terminals, On[t] = d, Making(t)'
      PROVE  MakerOK(t)'
  <2>1. MakerOK(t) /\ cmd'[t] = cmd[t]
    BY <1>1, <1>4 DEF DeviceOK
  <2> QED BY <1>4, <2>1 DEF MakerOK, Openable, Initialised
<1> QED BY <1>2, <1>3, <1>4

(* A device keeps its order while terminals of other devices work.          *)
LEMMA OtherDevice ==
  ASSUME AccountTypeOK, NEW d \in Devices, DeviceOK(d),
         secret'[d] = secret[d], store'[d] = store[d],
         d \in disturbed <=> d \in disturbed',
         \A u \in Terminals : On[u] = d => cmd'[u] = cmd[u]
  PROVE  DeviceOK(d)'
<1>1. MadeOn(d)' = MadeOn(d)
  BY DEF MadeOn, Making
<1>2. Openable(d)' <=> Openable(d)
  BY DEF Openable, Initialised
<1>3. ASSUME NEW u \in Terminals, On[u] = d, MakerOK(u)
      PROVE  MakerOK(u)'
  BY <1>3 DEF MakerOK, Making, Openable, Initialised
<1>4. \A u \in Terminals : On[u] = d => (Making(u)' <=> Making(u))
  BY DEF Making
<1> QED BY <1>1, <1>2, <1>3, <1>4 DEF DeviceOK

(* What a command carries stays in the store while nobody writes there.     *)
LEMMA CarryFrame ==
  ASSUME NEW t \in Terminals, CarryOK(t), store'[On[t]] = store[On[t]],
         disturbed \subseteq disturbed',
         cmd'[t] = cmd[t] \/ ~Carrying(t)'
  PROVE  CarryOK(t)'
BY DEF CarryOK, Carrying, Initialised

(* A step of one terminal, beside which the others stand still. *)
LEMMA OthersCarry ==
  ASSUME AccountInv, NEW t \in Terminals, NEW c,
         cmd' = [cmd EXCEPT ![t] = c], UNCHANGED store,
         disturbed \subseteq disturbed', CarryOK(t)'
  PROVE  \A u \in Terminals : CarryOK(u)'
<1>1. \A u \in Terminals \ {t} : cmd'[u] = cmd[u]
  BY DEF AccountInv, AccountTypeOK
<1> QED BY <1>1, CarryFrame DEF AccountInv

-----------------------------------------------------------------------------
(* The invariant holds *)

LEMMA StartMakingKeeps ==
  ASSUME AccountInv, AccountTypeOK', \A u \in Terminals : KeyOK(u)',
         NEW t \in Terminals, StartInit(t) \/ StartReset(t) \/ AcceptKit(t)
  PROVE  AccountInv'
<1>1. AccountTypeOK /\ On[t] \in Devices
  BY OnAssumption DEF AccountInv
<1>2. PICK c : c = cmd'[t]
  OBVIOUS
<1>3. /\ ~Making(t) /\ UNCHANGED <<secret, store>>
      /\ cmd' = [cmd EXCEPT ![t] = c]
      /\ c.at = "keychain"
      /\ disturbed' = Joined(On[t])
      /\ c.do # "reset" => ~Initialised(On[t])
  <2>1. CASE StartInit(t) \/ StartReset(t)
    <3>1. PICK kind \in {"init", "reset"} :
             MakeKeys(t, kind) /\ (kind # "reset" => ~Initialised(On[t]))
      BY <2>1 DEF StartInit, StartReset
    <3>2. cmd[t] = Idle /\ Begin(t, kind, "keychain", made + 1)
      BY <3>1 DEF MakeKeys
    <3>3. /\ cmd' = [cmd EXCEPT ![t] = c]
          /\ c.do = kind /\ c.at = "keychain"
      BY <1>1, <1>2, <3>2, BeginMakes
    <3> QED BY <3>1, <3>2, <3>3 DEF MakeKeys, Idle, Making, deviceVars
  <2>2. CASE AcceptKit(t)
    BY <1>1, <1>2, <2>2
       DEF AcceptKit, MayRestore, At, Go, Making, deviceVars, AccountTypeOK,
           Command
  <2> QED BY <2>1, <2>2
<1>4. \A u \in Terminals : cmd'[u] = IF u = t THEN c ELSE cmd[u]
  BY <1>1, <1>3 DEF AccountTypeOK
<1>5. DeviceOK(On[t])'
  BY <1>1, <1>3, <1>4
     DEF Joined, AccountInv, DeviceOK, MadeOn, Making, MakerOK, Openable,
         Initialised
<1>6. ASSUME NEW d \in Devices, d # On[t] PROVE DeviceOK(d)'
  BY <1>1, <1>3, <1>4, <1>6, OtherDevice DEF AccountInv, Joined
<1>7. \A u \in Terminals : CarryOK(u)'
  BY <1>1, <1>3, <1>4, OthersCarry DEF CarryOK, Carrying, Joined
<1> QED BY <1>5, <1>6, <1>7 DEF AccountInv

LEMMA SetSecretKeeps ==
  ASSUME AccountInv, AccountTypeOK', \A u \in Terminals : KeyOK(u)',
         NEW t \in Terminals, SetSecret(t)
  PROVE  AccountInv'
<1>1. AccountTypeOK /\ On[t] \in Devices
  BY OnAssumption DEF AccountInv
<1>2. /\ cmd[t].at = "keychain" /\ UNCHANGED <<store, disturbed, made>>
      /\ secret' = [secret EXCEPT ![On[t]] = cmd[t].key]
      /\ GoAcross(t, "store")
  BY DEF SetSecret, Save, Written, At
<1>3. /\ cmd'[t] = [cmd[t] EXCEPT !.at = "store"]
      /\ \A u \in Terminals \ {t} :
            /\ cmd'[u].at = cmd[u].at /\ cmd'[u].do = cmd[u].do
            /\ cmd'[u].key = cmd[u].key /\ cmd'[u].salt = cmd[u].salt
            /\ cmd'[u].keys = cmd[u].keys
            /\ cmd[u].crossed => cmd'[u].crossed
            /\ On[u] # On[t] => cmd'[u] = cmd[u]
  BY <1>1, <1>2, AcrossStays DEF AccountInv
<1>4. cmd'[t].at = "store" /\ cmd'[t].key = cmd[t].key /\ cmd'[t].do = cmd[t].do
  BY <1>1, <1>3 DEF AccountTypeOK, Command
<1>5. DeviceOK(On[t])'
  <2> SUFFICES ASSUME On[t] \notin disturbed
               PROVE  /\ MadeOn(On[t])' # {}
                      /\ \A u \in Terminals : On[u] = On[t] /\ Making(u)' => MakerOK(u)'
    BY <1>2 DEF DeviceOK
  <2>1. MakerOK(t)
    BY <1>1, <1>2 DEF AccountInv, DeviceOK, Making
  <2>2. \A u \in Terminals : Making(u)' <=> Making(u)
    BY <1>2, <1>3, <1>4 DEF Making
  <2>3. secret'[On[t]] = cmd[t].key
    BY <1>1, <1>2 DEF AccountTypeOK
  <2>4. MakerOK(t)'
    BY <1>2, <1>4, <2>1, <2>2, <2>3 DEF MakerOK, Initialised
  <2>5. \A u \in Terminals \ {t} : On[u] = On[t] => ~Making(u)'
    BY <2>1, <2>2 DEF MakerOK
  <2>6. t \in MadeOn(On[t])'
    BY <1>4 DEF MadeOn, Making
  <2> QED BY <2>4, <2>5, <2>6
<1>6. ASSUME NEW d \in Devices, d # On[t] PROVE DeviceOK(d)'
  <2>1. secret'[d] = secret[d]
    BY <1>1, <1>2, <1>6 DEF AccountTypeOK
  <2> QED BY <1>1, <1>2, <1>3, <1>6, <2>1, OtherDevice DEF AccountInv
<1>7. ASSUME NEW u \in Terminals PROVE CarryOK(u)'
  <2>1. CASE u = t
    BY <1>4, <2>1 DEF CarryOK, Carrying
  <2>2. CASE u # t
    BY <1>2, <1>3, <2>2 DEF AccountInv, CarryOK, Carrying, Initialised
  <2> QED BY <2>1, <2>2
<1> QED BY <1>5, <1>6, <1>7 DEF AccountInv

(* Only a reset writes where somebody carries an identity, and crosses him. *)
LEMMA PutIdentityKeeps ==
  ASSUME AccountInv, AccountTypeOK', \A u \in Terminals : KeyOK(u)',
         NEW t \in Terminals, PutIdentity(t)
  PROVE  AccountInv'
<1>1. AccountTypeOK /\ On[t] \in Devices
  BY OnAssumption DEF AccountInv
<1>2. /\ cmd[t].at = "store" /\ UNCHANGED <<secret, disturbed, made>>
      /\ store' = [store EXCEPT ![On[t]] = cmd[t].key]
      /\ GoAcross(t, "session")
  BY DEF PutIdentity, Save, Written, At
<1>3. /\ cmd'[t] = [cmd[t] EXCEPT !.at = "session"]
      /\ \A u \in Terminals \ {t} :
            /\ cmd'[u].at = cmd[u].at /\ cmd'[u].do = cmd[u].do
            /\ cmd'[u].key = cmd[u].key /\ cmd'[u].salt = cmd[u].salt
            /\ cmd'[u].keys = cmd[u].keys
            /\ cmd[u].crossed => cmd'[u].crossed
            /\ On[u] # On[t] => cmd'[u] = cmd[u]
            /\ On[u] = On[t] /\ Carrying(u) /\ cmd[t].do = "reset"
                  => cmd'[u].crossed
  BY <1>1, <1>2, AcrossStays DEF AccountInv
<1>4. /\ cmd'[t].at = "session" /\ cmd'[t].key = cmd[t].key
      /\ cmd'[t].do = cmd[t].do
  BY <1>1, <1>3 DEF AccountTypeOK, Command
<1>5. store'[On[t]] = cmd[t].key
  BY <1>1, <1>2 DEF AccountTypeOK
<1>6. On[t] \notin disturbed => MakerOK(t)
  BY <1>1, <1>2 DEF AccountInv, DeviceOK, Making
<1>7. DeviceOK(On[t])'
  <2>1. \A u \in Terminals \ {t} : Making(u)' <=> Making(u)
    BY <1>3 DEF Making
  <2>2. On[t] \notin disturbed =>
            /\ secret[On[t]] = cmd[t].key
            /\ \A u \in Terminals : On[u] = On[t] => ~Making(u)'
    BY <1>2, <1>4, <1>6, <2>1 DEF MakerOK, Making
  <2> QED BY <1>2, <1>5, <2>2 DEF DeviceOK, Openable
<1>8. ASSUME NEW d \in Devices, d # On[t] PROVE DeviceOK(d)'
  <2>1. store'[d] = store[d]
    BY <1>1, <1>2, <1>8 DEF AccountTypeOK
  <2> QED BY <1>1, <1>2, <1>3, <1>8, <2>1, OtherDevice DEF AccountInv
<1>9. ASSUME NEW u \in Terminals PROVE CarryOK(u)'
  <2>1. CASE u = t
    <3>1. cmd[t].do = "reset" => cmd[t].key # 0
      BY DEF AccountInv, KeyOK
    <3> QED BY <1>4, <1>5, <2>1, <3>1 DEF CarryOK, Initialised
  <2>2. CASE On[u] # On[t]
    <3>1. store'[On[u]] = store[On[u]] /\ cmd'[u] = cmd[u]
      BY <1>1, <1>2, <1>3, <2>2, OnAssumption DEF AccountTypeOK
    <3> QED BY <1>2, <3>1, CarryFrame DEF AccountInv
  <2>3. CASE u # t /\ On[u] = On[t] /\ cmd[t].do = "reset"
    BY <1>3, <2>3 DEF CarryOK, Carrying
  <2>4. CASE u # t /\ On[u] = On[t] /\ cmd[t].do # "reset"
    <3>1. On[u] \notin disturbed => ~Initialised(On[u])
      BY <1>6, <2>4 DEF MakerOK
    <3> QED BY <1>2, <1>3, <2>4, <3>1 DEF AccountInv, CarryOK, Carrying
  <2> QED BY <2>1, <2>2, <2>3, <2>4
<1> QED BY <1>7, <1>8, <1>9 DEF AccountInv

(* A command that ends while it makes keys disturbs a device only if it is  *)
(* a reset: otherwise the device has no identity yet.                       *)
LEMMA CutKeeps ==
  ASSUME AccountInv, AccountTypeOK', \A u \in Terminals : KeyOK(u)',
         NEW t \in Terminals, Stop(t) \/ \E b \in BOOLEAN : PutFails(t, b)
  PROVE  AccountInv'
<1>1. AccountTypeOK /\ On[t] \in Devices
  BY OnAssumption DEF AccountInv
<1>2. /\ UNCHANGED store
      /\ \/ UNCHANGED secret
         \/ cmd[t].at = "store" /\ secret' = [secret EXCEPT ![On[t]] = 0]
      /\ cmd' = [cmd EXCEPT ![t] = Idle]
      /\ disturbed' = Broken(t)
  BY DEF Stop, PutFails, At, Finish, deviceVars
<1>3. \A u \in Terminals : cmd'[u] = IF u = t THEN Idle ELSE cmd[u]
  BY <1>1, <1>2 DEF AccountTypeOK
<1>4. DeviceOK(On[t])'
  BY <1>1, <1>2, <1>3
     DEF AccountInv, DeviceOK, MadeOn, Making, MakerOK, Openable, Initialised,
         Broken, At, Idle
<1>5. ASSUME NEW d \in Devices, d # On[t] PROVE DeviceOK(d)'
  <2>1. secret'[d] = secret[d]
    BY <1>1, <1>2, <1>5 DEF AccountTypeOK
  <2> QED BY <1>1, <1>2, <1>3, <1>5, <2>1, OtherDevice DEF AccountInv, Broken
<1>6. \A u \in Terminals : CarryOK(u)'
  <2>1. CarryOK(t)'
    BY <1>3 DEF CarryOK, Carrying, Idle
  <2>2. disturbed \subseteq disturbed'
    BY <1>2 DEF Broken
  <2> QED BY <1>2, <2>1, <2>2, OthersCarry
<1> QED BY <1>4, <1>5, <1>6 DEF AccountInv

(* A step of one terminal that writes nothing on the device and is no part  *)
(* of making keys.                                                          *)
LEMMA QuietKeeps ==
  ASSUME AccountInv, AccountTypeOK', \A u \in Terminals : KeyOK(u)',
         NEW t \in Terminals, NEW c, cmd' = [cmd EXCEPT ![t] = c],
         UNCHANGED <<secret, store, disturbed>>,
         ~Making(t), ~Making(t)', CarryOK(t)'
  PROVE  AccountInv'
<1>1. \A u \in Terminals \ {t} : cmd'[u] = cmd[u]
  BY DEF AccountInv, AccountTypeOK
<1>2. \A u \in Terminals : /\ Making(u)' => Making(u) /\ cmd'[u] = cmd[u]
                           /\ ~(Making(u) /\ ~Making(u)')
  BY <1>1 DEF Making
<1>3. \A d \in Devices : DeviceOK(d)'
  BY <1>2, DeviceFrame DEF AccountInv
<1>4. \A u \in Terminals : CarryOK(u)'
  BY OthersCarry
<1> QED BY <1>3, <1>4 DEF AccountInv

LEMMA InvStep == AccountInv /\ [AccountNext]_accountVars => AccountInv'
<1> SUFFICES ASSUME AccountInv, [AccountNext]_accountVars
             PROVE  AccountInv'
  OBVIOUS
<1>1. AccountTypeOK /\ AccountTypeOK' /\ \A u \in Terminals : KeyOK(u)'
  BY TypeStep DEF AccountInv, TypesKept
<1>2. ASSUME NEW t \in Terminals,
             StartSetup(t) \/ StartUnlock(t) \/ CacheUnlocked(t)
               \/ PrintKit(t) \/ StartPush(t) \/ EnsureAccount(t)
               \/ \E b \in BOOLEAN : SendReset(t, b)
      PROVE  AccountInv'
  <2>1. PICK c : c = cmd'[t]
    OBVIOUS
  <2>2. /\ cmd[t].at \in {"idle", "cache", "print", "send"}
        /\ cmd' = [cmd EXCEPT ![t] = c]
        /\ \/ c.at \in {"idle", "kit", "cache", "print"}
           \/ c.at = "salt" /\ c.do = "push"
        /\ UNCHANGED <<secret, store, disturbed>>
    <3>1. CASE StartSetup(t) \/ StartUnlock(t) \/ StartPush(t)
      <4>1. /\ cmd' = [cmd EXCEPT ![t] = c] /\ cmd[t] = Idle
            /\ c.at \in {"kit", "cache"} \/ (c.at = "salt" /\ c.do = "push")
        BY <1>1, <2>1, <3>1, BeginMakes DEF StartSetup, StartUnlock, StartPush
      <4> QED BY <3>1, <4>1 DEF StartSetup, StartUnlock, StartPush, Idle,
                                deviceVars
    <3>2. CASE CacheUnlocked(t) \/ PrintKit(t) \/ EnsureAccount(t)
      BY <1>1, <2>1, <3>2 DEF CacheUnlocked, PrintKit, EnsureAccount, Finish,
                              At, Idle, deviceVars, AccountTypeOK
    <3>3. CASE \E b \in BOOLEAN : SendReset(t, b)
      BY <1>1, <2>1, <3>3 DEF SendReset, Finish, Go, At, Idle, deviceVars,
                              AccountTypeOK, Command
    <3> QED BY <1>2, <3>1, <3>2, <3>3
  <2>3. cmd'[t] = c
    BY <2>1
  <2>4. ~Making(t) /\ ~Making(t)' /\ CarryOK(t)'
    BY <2>2, <2>3 DEF Making, CarryOK, Carrying
  <2> QED BY <1>1, <2>2, <2>4, QuietKeeps
<1>3. ASSUME NEW t \in Terminals, CacheSession(t)
      PROVE  AccountInv'
  <2>1. PICK c : c = cmd'[t]
    OBVIOUS
  <2>2. /\ cmd[t].at = "session" /\ UNCHANGED <<secret, store, disturbed>>
        /\ cmd' = [cmd EXCEPT ![t] = c]
        /\ c.at \in {"idle", "print"} \/ c = [cmd[t] EXCEPT !.at = "salt"]
    BY <1>1, <1>3, <2>1
       DEF CacheSession, Go, Finish, At, Idle, AccountTypeOK, Command
  <2>3. c = [cmd[t] EXCEPT !.at = "salt"] =>
            /\ c.at = "salt" /\ c.do = cmd[t].do /\ c.key = cmd[t].key
            /\ c.crossed = cmd[t].crossed
    BY <1>1 DEF AccountTypeOK, Command
  <2>4. ~Making(t) /\ ~Making(t)' /\ CarryOK(t)'
    BY <1>1, <2>1, <2>2, <2>3
       DEF AccountInv, Making, CarryOK, Carrying, Initialised
  <2> QED BY <1>1, <2>2, <2>4, QuietKeeps
<1>4. ASSUME NEW t \in Terminals, ReadSalt(t) \/ ReadKeys(t)
      PROVE  AccountInv'
  <2>1. PICK c : c = cmd'[t]
    OBVIOUS
  <2>2. /\ UNCHANGED <<secret, store, disturbed>>
        /\ cmd' = [cmd EXCEPT ![t] = c]
        /\ c.do = cmd[t].do /\ c.key = cmd[t].key
        /\ c.crossed = cmd[t].crossed
        /\ \/ /\ cmd[t].at = "salt" /\ c.at = "keys"
              /\ Initialised(On[t]) /\ c.salt = store[On[t]]
           \/ /\ cmd[t].at = "keys" /\ c.at = "send"
              /\ c.salt = cmd[t].salt /\ c.keys = store[On[t]]
    BY <1>1, <1>4, <2>1 DEF ReadSalt, ReadKeys, At, deviceVars, AccountTypeOK,
                            Command
  <2>3. ~Making(t) /\ ~Making(t)'
    BY <2>1, <2>2 DEF Making
  <2>4. CarryOK(t)'
    BY <2>1, <2>2 DEF AccountInv, CarryOK, Carrying, Initialised
  <2> QED BY <1>1, <2>2, <2>3, <2>4, QuietKeeps
<1>5. ASSUME \/ \E d \in Devices : SessionStep(d)
             \/ UNCHANGED accountVars
      PROVE  AccountInv'
  <2>1. UNCHANGED <<secret, store, disturbed, cmd>>
    BY <1>5
       DEF SessionStep, Lock, LogIn, LogOut, SessionEnds,
           SetToken, accountVars, deviceVars
  <2>2. \A u \in Terminals : Making(u)' <=> Making(u)
    BY <2>1 DEF Making
  <2>3. \A d \in Devices : DeviceOK(d)'
    BY <1>1, <2>1, <2>2, DeviceFrame DEF AccountInv
  <2>4. \A u \in Terminals : CarryOK(u)'
    BY <2>1, CarryFrame DEF AccountInv
  <2> QED BY <1>1, <2>3, <2>4 DEF AccountInv
<1> QED
  BY <1>1, <1>2, <1>3, <1>4, <1>5, StartMakingKeeps, SetSecretKeeps,
     PutIdentityKeeps, CutKeeps
     DEF AccountNext, MakingStep, SendingStep

LEMMA InvInit == AccountInit => AccountInv
<1> SUFFICES ASSUME AccountInit PROVE AccountInv
  OBVIOUS
<1>1. AccountTypeOK
  BY MadeAssumption
     DEF AccountInit, AccountTypeOK, Identity, Command, Commands, Steps, Idle
<1>2. \A d \in Devices : DeviceOK(d)
  BY OnAssumption DEF AccountInit, DeviceOK, MadeOn, Making, Openable, Initialised, Idle
<1>3. \A t \in Terminals : KeyOK(t) /\ CarryOK(t)
  BY DEF AccountInit, KeyOK, CarryOK, Carrying, Idle
<1> QED BY <1>1, <1>2, <1>3 DEF AccountInv

(* Accounts, stores, keychains and commands stay well typed, and hold no    *)
(* identity that reinit has not made.                                       *)
THEOREM AccountTypeCorrect == AccountSpec => []AccountTypeOK
<1>1. AccountInv => AccountTypeOK
  BY DEF AccountInv
<1> QED BY <1>1, InvInit, InvStep, PTL DEF AccountSpec

(* Whatever fails or crashes in `init` and `setup`, a device that looks     *)
(* initialised can be unlocked.                                             *)
THEOREM InitialisedUnlocks == AccountSpec => []NoHalfInit
<1>1. AccountInv => NoHalfInit
  BY DEF AccountInv, DeviceOK, NoHalfInit, AtRest, Openable
<1> QED BY <1>1, InvInit, InvStep, PTL DEF AccountSpec

(* Only a request of `reset` or of ensure_account changes the account, and  *)
(* to what its command has read.                                            *)
LEMMA WhoSends ==
  ASSUME AccountInv, [AccountNext]_accountVars, account' # account
  PROVE  \E t \in Terminals :
            /\ At(t, "send") /\ account' = Material(t)
            /\ cmd'[t].at \in {"idle", "print"}
            /\ \A u \in Terminals \ {t} : cmd'[u] = cmd[u]
<1>1. AccountTypeOK
  BY DEF AccountInv
<1>2. PICK t \in Terminals :
         EnsureAccount(t) \/ \E heard \in BOOLEAN : SendReset(t, heard)
  BY DEF AccountNext, MakingStep, SendingStep, SessionStep, StartInit,
         StartReset, MakeKeys, StartSetup, AcceptKit, SetSecret, PutIdentity,
         PutFails, CacheSession, PrintKit, Stop, StartPush, ReadSalt, ReadKeys,
         StartUnlock, CacheUnlocked, Lock, LogIn, LogOut, SessionEnds,
         SetToken, accountVars
<1> QED
  BY <1>1, <1>2 DEF EnsureAccount, SendReset, Uploaded, Go, Finish, At, Idle,
                    AccountTypeOK, Command

(* Every change of the server's account material installs an identity that  *)
(* its sender holds in its store and in its keychain, and of which `reset`  *)
(* is about to show the kit, unless another reset of the same device has    *)
(* written beside the request, or the device was disturbed before.          *)
THEOREM ServerHoldsHeldKey == AccountSpec => ServerKeyIsHeld
<1> DEFINE Sound(t) ==
      account' # account /\ At(t, "send") /\ ~At(t, "send")'
         => \/ Overtaken(t) \/ On[t] \in disturbed
            \/ /\ account' = store[On[t]]
               /\ account' = secret[On[t]]
               /\ cmd[t].do = "reset" => account' = cmd[t].key
<1>1. ASSUME AccountInv, [AccountNext]_accountVars, NEW t \in Terminals
      PROVE  Sound(t)
  <2> SUFFICES ASSUME account' # account, At(t, "send"), ~At(t, "send")',
                      ~Overtaken(t), On[t] \notin disturbed
               PROVE  /\ account' = store[On[t]]
                      /\ account' = secret[On[t]]
                      /\ cmd[t].do = "reset" => account' = cmd[t].key
    OBVIOUS
  <2>1. account' = Material(t)
    BY <1>1, WhoSends DEF At
  <2>2. /\ Initialised(On[t])
        /\ cmd[t].salt = store[On[t]] /\ cmd[t].keys = store[On[t]]
        /\ cmd[t].do = "reset" => cmd[t].key = store[On[t]]
    BY <1>1 DEF AccountInv, CarryOK, Carrying, At, Overtaken
  <2>3. account' = store[On[t]]
    BY <2>1, <2>2 DEF Material, Bundle
  <2>4. DeviceOK(On[t])
    BY <1>1, OnAssumption DEF AccountInv
  <2>5. Openable(On[t])
    <3>1. CASE MadeOn(On[t]) = {}
      BY <2>4, <3>1 DEF DeviceOK
    <3>2. ASSUME NEW u \in MadeOn(On[t]) PROVE Openable(On[t])
      <4>1. u \in Terminals /\ On[u] = On[t] /\ Making(u) /\ MakerOK(u)
        BY <2>4, <3>2 DEF MadeOn, DeviceOK
      <4>2. cmd[u].do = "reset"
        BY <2>2, <4>1 DEF MakerOK
      <4>3. cmd[u].at = "keychain"
        BY <4>1, <4>2 DEF Making, Overtaken, At
      <4> QED BY <4>1, <4>3 DEF MakerOK
    <3> QED BY <3>1, <3>2
  <2> QED BY <2>2, <2>3, <2>5 DEF Openable
<1>2. AccountInv /\ [AccountNext]_accountVars =>
         [\A t \in Terminals : Sound(t)]_accountVars
  BY <1>1
<1> QED BY <1>2, InvInit, InvStep, PTL DEF AccountSpec, ServerKeyIsHeld

-----------------------------------------------------------------------------
(***************************************************************************)
(* Sign-in and share links, for any number of users, runs of the command   *)
(* and links.  A login is passed on, never copied: from its row to a       *)
(* handler, to a code, to another handler, to a session.  At every moment  *)
(* one of them stands for it at most, which is the invariant LoginOnce     *)
(* rests on.                                                               *)
(***************************************************************************)

AnyFlow == Flows \cup {"web"}

LoginType == [id : Nat \ {0}, flow : AnyFlow]

CodeType == [id : Nat \ {0}, login : Nat, flow : Flows, user : Users]

SessionType == [id : Nat \ {0}, login : Nat, flow : AnyFlow, user : Users,
                live : BOOLEAN]

RequestType == [do : {"callback"}, login : Nat, flow : AnyFlow, user : Users]
               \cup [do : {"exchange"}, login : Nat, flow : Flows, user : Users]

FlowSteps == {"idle", "waiting", "timed out", "code", "exchange", "verify",
              "store", "done", "failed"}

SignInTypes ==
    /\ ids \in Nat
    /\ logins \subseteq LoginType
    /\ codes \subseteq CodeType
    /\ sessions \subseteq SessionType
    /\ requests \subseteq RequestType
    /\ redirects \subseteq [code : Nat, flow : Flows]
    /\ flow \in [Flows -> [at : FlowSteps, code : Nat, token : Nat]]

(* Identifiers come from one counter.                                       *)
Numbered ==
    /\ \A r \in logins : r.id <= ids
    /\ \A c \in codes : c.id <= ids /\ c.login <= ids
    /\ \A s \in sessions : s.id <= ids /\ s.login <= ids
    /\ \A q \in requests : q.login <= ids
    /\ \A f \in Flows : flow[f].token <= ids

(* What stands for a login once its row is used up.                         *)
Onward(login) ==
    \/ \E q \in requests : q.login = login
    \/ \E c \in codes : c.login = login
    \/ \E s \in sessions : s.login = login

(* A login is in one place.                                                 *)
OnePlace ==
    /\ \A r, t \in logins : r.id = t.id => r = t
    /\ \A r \in logins : ~Onward(r.id)
    /\ \A q \in requests :
          /\ \A x \in requests : x.login = q.login => x = q
          /\ \A c \in codes : c.login # q.login
          /\ \A s \in sessions : s.login # q.login
    /\ \A c \in codes :
          /\ \A d \in codes : d.login = c.login => d = c
          /\ \A s \in sessions : s.login # c.login
    /\ \A s, t \in sessions : s.login = t.login => s.id = t.id

(* Only a run that has gone as far as the exchange has an exchange or a     *)
(* session to its name, and only its own.                                   *)
Early == {"idle", "waiting", "timed out", "code"}

OwnSessions ==
    /\ \A q \in requests : q.do = "exchange" => flow[q.flow].at \notin Early
    /\ \A s \in sessions : s.flow \in Flows => flow[s.flow].at \notin Early
    /\ \A f \in Flows, s \in sessions : flow[f].token = s.id => s.flow = f

SignInInv == SignInTypes /\ Numbered /\ OnePlace /\ OwnSessions

-----------------------------------------------------------------------------

LEMMA SignInInitial == SignInInit => SignInInv
BY DEF SignInInit, SignInInv, SignInTypes, Numbered, OnePlace, Onward, OwnSessions,
       FlowSteps

LEMMA OnceImplied == SignInInv => LoginOnce
BY DEF SignInInv, OnePlace, OwnSessions, LoginOnce, Early

(* A step of a command that leaves the server alone.                        *)
LEMMA CommandFrame ==
  ASSUME SignInInv, NEW f \in Flows, NEW at \in FlowSteps, NEW code \in Nat,
         flow' = [flow EXCEPT ![f].at = at, ![f].code = code],
         flow[f].at \notin Early => at \notin Early,
         UNCHANGED <<serverVars, redirects>>
  PROVE  SignInInv'
<1>1. SignInTypes'
  BY DEF SignInInv, SignInTypes, serverVars
<1>2. \A g \in Flows : /\ flow'[g].token = flow[g].token
                       /\ flow[g].at \notin Early => flow'[g].at \notin Early
  BY DEF SignInInv, SignInTypes
<1>3. Numbered'
  BY <1>2 DEF SignInInv, Numbered, serverVars
<1>4. OnePlace'
  BY DEF SignInInv, OnePlace, Onward, serverVars
<1>5. OwnSessions'
  <2>1. \A q \in requests : q.do = "exchange" => q.flow \in Flows
    BY DEF SignInInv, SignInTypes, RequestType
  <2> QED BY <1>2, <2>1 DEF SignInInv, OwnSessions, serverVars
<1> QED BY <1>1, <1>3, <1>4, <1>5 DEF SignInInv
LEMMA CommandStepsKeep ==
  ASSUME SignInInv, NEW f \in Flows,
         \/ Authorize(f) \/ (\E r \in redirects : ParseCallback(f, r))
         \/ Verify(f) \/ StoreSession(f) \/ TimeOut(f) \/ Fail(f)
  PROVE  SignInInv'
<1>1. /\ flow \in [Flows -> [at : FlowSteps, code : Nat, token : Nat]]
      /\ \A r \in redirects : r.code \in Nat
  BY DEF SignInInv, SignInTypes
<1>2. ASSUME NEW at \in FlowSteps, Become(f, at), UNCHANGED <<serverVars, redirects>>,
             flow[f].at \notin Early => at \notin Early
      PROVE  SignInInv'
  <2>1. PICK code \in Nat : code = flow[f].code
    BY <1>1
  <2>2. flow' = [flow EXCEPT ![f].at = at, ![f].code = code]
    BY <1>1, <1>2, <2>1 DEF Become
  <2> QED BY <1>2, <2>1, <2>2, CommandFrame
<1>3. ASSUME NEW r \in redirects, ParseCallback(f, r)
      PROVE  SignInInv'
  <2>1. /\ flow' = [flow EXCEPT ![f].at = "code", ![f].code = r.code]
        /\ UNCHANGED <<serverVars, redirects>> /\ flow[f].at \in Early
    BY <1>3 DEF ParseCallback, Early
  <2>2. PICK code \in Nat : code = r.code
    BY <1>1
  <2>3. "code" \in FlowSteps
    BY DEF FlowSteps
  <2> QED BY <2>1, <2>2, <2>3, CommandFrame
<1>4. CASE Authorize(f)
  BY <1>2, <1>4 DEF Authorize, FlowSteps, Early
<1>5. CASE Verify(f)
  BY <1>2, <1>5 DEF Verify, FlowSteps, Early
<1>6. CASE StoreSession(f)
  BY <1>2, <1>6 DEF StoreSession, FlowSteps, Early
<1>7. CASE TimeOut(f)
  BY <1>2, <1>7 DEF TimeOut, FlowSteps, Early
<1>8. CASE Fail(f)
  BY <1>2, <1>8 DEF Fail, FlowSteps, Early
<1> QED BY <1>3, <1>4, <1>5, <1>6, <1>7, <1>8

(* The server's side, one lemma for every place a login moves to.           *)
LEMMA LoginStep ==
  ASSUME SignInInv, NEW f \in AnyFlow, Login(f)
  PROVE  SignInInv'
<1> DEFINE r == [id |-> ids + 1, flow |-> f]
<1>1. /\ logins' = logins \cup {r} /\ ids' = ids + 1 /\ ids \in Nat
      /\ UNCHANGED <<codes, sessions, requests, redirects, flow>>
  BY DEF Login, Fresh, SignInInv, SignInTypes
<1>2. r \in LoginType /\ r.id = ids + 1
  BY <1>1 DEF LoginType
<1> HIDE DEF r
<1>3. SignInTypes'
  BY <1>1, <1>2 DEF SignInInv, SignInTypes
<1>4. /\ \A c \in codes : c.login \in Nat /\ c.id \in Nat
      /\ \A s \in sessions : s.login \in Nat /\ s.id \in Nat
      /\ \A q \in requests : q.login \in Nat
      /\ \A t \in logins : t.id \in Nat
      /\ \A g \in Flows : flow[g].token \in Nat
  BY DEF SignInInv, SignInTypes, CodeType, SessionType, RequestType, LoginType
<1>5. Numbered'
  BY <1>1, <1>2, <1>4 DEF SignInInv, Numbered
<1>6. ~Onward(r.id)
  BY <1>1, <1>2, <1>4 DEF SignInInv, Numbered, Onward
<1>7. \A t \in logins : t.id # r.id
  BY <1>1, <1>2, <1>4 DEF SignInInv, Numbered
<1>8. OnePlace'
  BY <1>1, <1>6, <1>7 DEF SignInInv, OnePlace, Onward
<1>9. OwnSessions'
  BY <1>1 DEF SignInInv, OwnSessions
<1> QED BY <1>3, <1>5, <1>8, <1>9 DEF SignInInv

LEMMA CallbackStep ==
  ASSUME SignInInv, NEW r \in logins, NEW u \in Users, Callback(r, u)
  PROVE  SignInInv'
<1> DEFINE q == [do |-> "callback", login |-> r.id, flow |-> r.flow, user |-> u]
<1>1. /\ logins' = logins \ {r} /\ requests' = requests \cup {q}
      /\ UNCHANGED <<ids, codes, sessions, redirects, flow>>
  BY DEF Callback, UsedUp
<1>2. q \in RequestType /\ q.login = r.id /\ q.do = "callback"
  BY DEF SignInInv, SignInTypes, LoginType, RequestType
<1> HIDE DEF q
<1>3. SignInTypes'
  BY <1>1, <1>2 DEF SignInInv, SignInTypes
<1>4. Numbered'
  BY <1>1, <1>2 DEF SignInInv, Numbered
<1>5. ~Onward(r.id) /\ \A t \in logins' : t.id # r.id
  BY <1>1 DEF SignInInv, OnePlace
<1>6. OnePlace'
  BY <1>1, <1>2, <1>5 DEF SignInInv, OnePlace, Onward
<1>7. OwnSessions'
  BY <1>1, <1>2 DEF SignInInv, OwnSessions
<1> QED BY <1>3, <1>4, <1>6, <1>7 DEF SignInInv

LEMMA MintStep ==
  ASSUME SignInInv, NEW q \in requests, MintCode(q)
  PROVE  SignInInv'
<1> DEFINE c == [id |-> ids + 1, login |-> q.login, flow |-> q.flow, user |-> q.user]
<1>1. /\ codes' = codes \cup {c} /\ requests' = requests \ {q}
      /\ redirects' = redirects \cup {[code |-> ids + 1, flow |-> q.flow]}
      /\ UNCHANGED <<logins, sessions, flow>> /\ ids' = ids + 1 /\ ids \in Nat
  BY DEF MintCode, Answer, Fresh, SignInInv, SignInTypes
<1>2. q.flow \in Flows /\ q.login \in Nat /\ q.user \in Users
  BY DEF SignInInv, SignInTypes, RequestType, MintCode, AnyFlow
<1>3. c \in CodeType /\ c.login = q.login /\ c.id = ids + 1
  BY <1>1, <1>2 DEF CodeType
<1> HIDE DEF c
<1>4. SignInTypes'
  BY <1>1, <1>2, <1>3 DEF SignInInv, SignInTypes
<1>5. Numbered'
  <2>1. /\ \A d \in codes : d.login \in Nat /\ d.id \in Nat
        /\ \A s \in sessions : s.login \in Nat /\ s.id \in Nat
        /\ \A x \in requests : x.login \in Nat
        /\ \A t \in logins : t.id \in Nat
        /\ \A g \in Flows : flow[g].token \in Nat
    BY DEF SignInInv, SignInTypes, CodeType, SessionType, RequestType, LoginType
  <2> QED BY <1>1, <1>2, <1>3, <2>1 DEF SignInInv, Numbered
<1>6. OnePlace'
  BY <1>1, <1>3 DEF SignInInv, OnePlace, Onward
<1>7. OwnSessions'
  BY <1>1 DEF SignInInv, OwnSessions
<1> QED BY <1>4, <1>5, <1>6, <1>7 DEF SignInInv

LEMMA TakeStep ==
  ASSUME SignInInv, NEW f \in Flows, ExchangeCode(f)
  PROVE  SignInInv'
<1>1. PICK c \in codes : TakeCode(f, c)
  BY DEF ExchangeCode
<1> DEFINE q == [do |-> "exchange", login |-> c.login, flow |-> f, user |-> c.user]
<1>2. /\ codes' = codes \ {c} /\ requests' = requests \cup {q}
      /\ flow' = [flow EXCEPT ![f].at = "exchange"]
      /\ UNCHANGED <<ids, logins, sessions, redirects>>
  BY <1>1 DEF TakeCode, ExchangeCode, Become
<1>3. /\ q \in RequestType /\ q.login = c.login /\ q.do = "exchange" /\ q.flow = f
      /\ "exchange" \in FlowSteps /\ "exchange" \notin Early
  BY DEF SignInInv, SignInTypes, CodeType, RequestType, FlowSteps, Early
<1> HIDE DEF q
<1>4. SignInTypes'
  BY <1>2, <1>3 DEF SignInInv, SignInTypes
<1>5. \A g \in Flows : /\ flow'[g].token = flow[g].token
                       /\ flow[g].at \notin Early => flow'[g].at \notin Early
                       /\ g = f => flow'[g].at \notin Early
  BY <1>2, <1>3 DEF SignInInv, SignInTypes
<1>6. Numbered'
  BY <1>2, <1>3, <1>5 DEF SignInInv, Numbered
<1>7. OnePlace'
  BY <1>2, <1>3 DEF SignInInv, OnePlace, Onward
<1>8. OwnSessions'
  <2>1. \A x \in requests : x.do = "exchange" => x.flow \in Flows
    BY DEF SignInInv, SignInTypes, RequestType
  <2> QED BY <1>2, <1>3, <1>5, <2>1 DEF SignInInv, OwnSessions
<1> QED BY <1>4, <1>6, <1>7, <1>8 DEF SignInInv
LEMMA SessionMade ==
  ASSUME SignInInv, NEW q \in requests, NewSession(q), Answer(q),
         UNCHANGED <<logins, codes, redirects>>,
         flow' \in [Flows -> [at : FlowSteps, code : Nat, token : Nat]],
         \A g \in Flows : flow[g].at \notin Early => flow'[g].at \notin Early,
         \A g \in Flows : \/ flow'[g].token = flow[g].token
                          \/ g = q.flow /\ flow'[g].token = ids + 1,
         q.flow \in Flows => q.do = "exchange"
  PROVE  SignInInv'
<1> DEFINE s == [id |-> ids + 1, login |-> q.login, flow |-> q.flow,
                 user |-> q.user, live |-> TRUE]
<1>1. /\ sessions' = sessions \cup {s} /\ requests' = requests \ {q}
      /\ ids' = ids + 1 /\ ids \in Nat
  BY DEF NewSession, Answer, Fresh, SignInInv, SignInTypes
<1>2. q.flow \in AnyFlow /\ q.login \in Nat /\ q.user \in Users
  BY DEF SignInInv, SignInTypes, RequestType, AnyFlow
<1>3. s \in SessionType /\ s.login = q.login /\ s.id = ids + 1 /\ s.flow = q.flow
  BY <1>1, <1>2 DEF SessionType
<1> HIDE DEF s
<1>4. SignInTypes'
  BY <1>1, <1>3 DEF SignInInv, SignInTypes
<1>5. /\ \A d \in codes : d.login \in Nat /\ d.id \in Nat
      /\ \A t \in sessions : t.login \in Nat /\ t.id \in Nat /\ t.id <= ids
      /\ \A x \in requests : x.login \in Nat
      /\ \A t \in logins : t.id \in Nat
      /\ \A g \in Flows : flow[g].token \in Nat /\ flow[g].token <= ids
  BY DEF SignInInv, SignInTypes, Numbered, CodeType, SessionType, RequestType, LoginType
<1>6. Numbered'
  BY <1>1, <1>3, <1>5 DEF SignInInv, Numbered
<1>7. OnePlace'
  BY <1>1, <1>3 DEF SignInInv, OnePlace, Onward
<1>8. OwnSessions'
  <2>1. \A x \in requests : x.do = "exchange" => x.flow \in Flows
    BY DEF SignInInv, SignInTypes, RequestType
  <2>2. ASSUME NEW t \in sessions', t.flow \in Flows
        PROVE  flow'[t.flow].at \notin Early
    BY <1>1, <1>3, <2>1, <2>2 DEF SignInInv, OwnSessions
  <2>3. ASSUME NEW g \in Flows, NEW t \in sessions', flow'[g].token = t.id
        PROVE  t.flow = g
    <3>1. CASE t \in sessions
      <4>1. flow'[g].token = flow[g].token
        BY <1>1, <1>5, <2>3, <3>1
      <4> QED BY <2>3, <3>1, <4>1 DEF SignInInv, OwnSessions
    <3>2. CASE t = s
      BY <1>1, <1>3, <1>5, <2>3, <3>2
    <3> QED BY <1>1, <2>3, <3>1, <3>2
  <2> QED BY <1>1, <2>1, <2>2, <2>3 DEF SignInInv, OwnSessions
<1> QED BY <1>4, <1>6, <1>7, <1>8 DEF SignInInv

LEMMA RequestStep ==
  ASSUME SignInInv, NEW q \in requests,
         \/ IssueCookie(q) \/ (\E heard \in BOOLEAN : IssueToken(q, heard)) \/ GiveUp(q)
  PROVE  SignInInv'
<1>1. flow \in [Flows -> [at : FlowSteps, code : Nat, token : Nat]] /\ ids \in Nat
  BY DEF SignInInv, SignInTypes
<1>2. CASE IssueCookie(q)
  <2>1. /\ NewSession(q) /\ Answer(q) /\ UNCHANGED <<logins, codes, redirects, flow>>
        /\ q.flow \notin Flows
    BY <1>2, FlowsAssumption DEF IssueCookie
  <2> QED BY <1>1, <2>1, SessionMade
<1>3. ASSUME NEW heard \in BOOLEAN, IssueToken(q, heard)
      PROVE  SignInInv'
  <2>1. /\ NewSession(q) /\ Answer(q) /\ UNCHANGED <<logins, codes, redirects>>
        /\ q.do = "exchange"
        /\ \/ flow' = [flow EXCEPT ![q.flow].at = "verify", ![q.flow].token = ids + 1]
           \/ flow' = flow
    BY <1>3 DEF IssueToken
  <2>2. q.flow \in Flows
    BY <2>1 DEF SignInInv, SignInTypes, RequestType
  <2>3. flow' \in [Flows -> [at : FlowSteps, code : Nat, token : Nat]]
    <3>1. CASE flow' = [flow EXCEPT ![q.flow].at = "verify", ![q.flow].token = ids + 1]
      <4>1. "verify" \in FlowSteps
        BY DEF FlowSteps
      <4>2. ids + 1 \in Nat
        BY <1>1
      <4> QED BY <1>1, <2>2, <3>1, <4>1, <4>2
    <3>2. CASE flow' = flow
      BY <1>1, <3>2
    <3> QED BY <2>1, <3>1, <3>2
  <2>4. \A g \in Flows : flow[g].at \notin Early => flow'[g].at \notin Early
    BY <1>1, <2>1, <2>2 DEF Early
  <2>5. \A g \in Flows : \/ flow'[g].token = flow[g].token
                         \/ g = q.flow /\ flow'[g].token = ids + 1
    BY <1>1, <2>1, <2>2
  <2> QED BY <2>1, <2>3, <2>4, <2>5, SessionMade
<1>4. CASE GiveUp(q)
  <2>1. /\ requests' = requests \ {q}
        /\ UNCHANGED <<ids, logins, codes, sessions, redirects, flow>>
    BY <1>4 DEF GiveUp, Answer
  <2> QED BY <2>1 DEF SignInInv, SignInTypes, Numbered, OnePlace, Onward, OwnSessions
<1> QED BY <1>2, <1>3, <1>4

LEMMA ExpireStep ==
  ASSUME SignInInv, Expire
  PROVE  SignInInv'
<1>1. /\ logins' \subseteq logins /\ codes' \subseteq codes
      /\ UNCHANGED <<ids, sessions, requests, redirects, flow>>
  BY DEF Expire
<1> QED BY <1>1 DEF SignInInv, SignInTypes, Numbered, OnePlace, Onward, OwnSessions

LEMMA RevokeStep ==
  ASSUME SignInInv, NEW s \in sessions, Revoke(s)
  PROVE  SignInInv'
<1> DEFINE t == [s EXCEPT !.live = FALSE]
<1>1. /\ sessions' = (sessions \ {s}) \cup {t}
      /\ UNCHANGED <<ids, logins, codes, requests, redirects, flow>>
  BY DEF Revoke
<1>2. s \in SessionType
  BY DEF SignInInv, SignInTypes
<1>3. t \in SessionType /\ t.id = s.id /\ t.login = s.login /\ t.flow = s.flow
  BY <1>2 DEF SessionType
<1> HIDE DEF t
<1>4. \A x \in sessions' :
         \E y \in sessions : x.id = y.id /\ x.login = y.login /\ x.flow = y.flow
  BY <1>1, <1>3
<1>5. SignInTypes' /\ Numbered'
  BY <1>1, <1>3, <1>4 DEF SignInInv, SignInTypes, Numbered
<1>6. OnePlace'
  BY <1>1, <1>4 DEF SignInInv, OnePlace, Onward
<1>7. OwnSessions'
  BY <1>1, <1>4 DEF SignInInv, OwnSessions
<1> QED BY <1>5, <1>6, <1>7 DEF SignInInv

LEMMA SignInStep == SignInInv /\ [Next]_vars => SignInInv'
<1> SUFFICES ASSUME SignInInv, [Next]_vars
             PROVE  SignInInv'
  OBVIOUS
<1>1. ASSUME UNCHANGED <<serverVars, redirects, flow>>
      PROVE  SignInInv'
  BY <1>1 DEF serverVars, SignInInv, SignInTypes, Numbered, OnePlace, Onward, OwnSessions
<1>2. CASE Logout
  BY <1>1, <1>2 DEF Logout
<1>3. CASE ServerStep
  BY <1>3, LoginStep, CallbackStep, MintStep, RequestStep, ExpireStep, RevokeStep
     DEF ServerStep, AnyFlow
<1>4. ASSUME NEW f \in Flows, CommandStep(f)
      PROVE  SignInInv'
  BY <1>4, CommandStepsKeep, TakeStep DEF CommandStep
<1>5. ASSUME NEW l \in Link, ShareStep(l)
      PROVE  SignInInv'
  BY <1>1, <1>5 DEF ShareStep, CreateShare, FetchShare, AnswerFetch, RevokeShare,
                    ExpireShare, Close, signInVars
<1>6. CASE UNCHANGED vars
  BY <1>1, <1>6 DEF vars, signInVars
<1> QED BY <1>2, <1>3, <1>4, <1>5, <1>6 DEF Next, SignInNext

(* One login, one session: callbacks replayed, handlers stopped between     *)
(* their two statements, codes and redirects reaching the wrong run.        *)
THEOREM OneLoginOneSession == Spec => []LoginOnce
<1>1. Init => SignInInv
  BY SignInInitial DEF Init
<1> QED BY <1>1, SignInStep, OnceImplied, PTL DEF Spec

-----------------------------------------------------------------------------
(* Share links *)

LinkType ==
    {NoLink} \cup [owner : Users, max : 1 .. MaxViews, views : Nat, open : BOOLEAN]

(* Views are granted while a link is open, one count for every answer.      *)
LinkOK(l) ==
    /\ opened[l] + fetches[l] <= links[l].views
    /\ links[l].views <= links[l].max
    /\ ~Created(l) \/ links[l].open => closed[l] = MaxViews
    /\ Created(l) /\ ~links[l].open => links[l].views <= closed[l]

LinkInv ==
    /\ links \in [Link -> LinkType]
    /\ fetches \in [Link -> Nat]
    /\ opened \in [Link -> Nat]
    /\ closed \in [Link -> Nat]
    /\ \A l \in Link : LinkOK(l)
LEMMA LinkStep == SignInInv /\ LinkInv /\ [Next]_vars => LinkInv'
<1> SUFFICES ASSUME SignInInv, LinkInv, [Next]_vars
             PROVE  LinkInv'
  OBVIOUS
<1>1. ASSUME UNCHANGED shareVars
      PROVE  LinkInv'
  BY <1>1 DEF shareVars, LinkInv, LinkOK, Created
<1>2. ASSUME NEW l \in Link
      PROVE  /\ links[l] \in LinkType
             /\ links[l].views \in Nat /\ links[l].max \in Nat /\ links[l].open \in BOOLEAN
             /\ links[l].open => Created(l)
             /\ Created(l) => /\ links[l].owner \in Users
                              /\ links[l].max \in 1 .. MaxViews
             /\ ~Created(l) => opened[l] + fetches[l] = 0
             /\ opened[l] \in Nat /\ fetches[l] \in Nat /\ closed[l] \in Nat
  <2>1. /\ links[l] \in LinkType /\ opened[l] \in Nat /\ fetches[l] \in Nat
        /\ closed[l] \in Nat /\ LinkOK(l)
    BY DEF LinkInv
  <2>2. CASE links[l] = NoLink
    BY <2>1, <2>2 DEF NoLink, Created, LinkOK
  <2>3. CASE links[l] # NoLink
    BY <2>1, <2>3, LinksAssumption DEF LinkType, Created
  <2> QED BY <2>2, <2>3
<1>3. ASSUME NEW l \in Link, NEW n \in 1 .. MaxViews, CreateShare(l, n)
      PROVE  LinkInv'
  <2>1. PICK s \in sessions :
           links' = [links EXCEPT ![l] =
                       [owner |-> s.user, max |-> n, views |-> 0, open |-> TRUE]]
    BY <1>3 DEF CreateShare, SessionOf
  <2>2. UNCHANGED <<fetches, opened, closed>> /\ ~Created(l)
    BY <1>3 DEF CreateShare
  <2>3. s.user \in Users
    BY DEF SignInInv, SignInTypes, SessionType
  <2>4. [owner |-> s.user, max |-> n, views |-> 0, open |-> TRUE] \in LinkType
    BY <2>3 DEF LinkType
  <2>5. links' \in [Link -> LinkType]
    BY <2>1, <2>4 DEF LinkInv
  <2>6. closed[l] = MaxViews
    BY <2>2 DEF LinkInv, LinkOK
  <2>7. LinkOK(l)'
    BY <1>2, <2>1, <2>2, <2>6 DEF LinkInv, LinkOK, Created
  <2>8. \A k \in Link \ {l} : LinkOK(k)'
    BY <2>1, <2>2 DEF LinkInv, LinkOK, Created
  <2> QED BY <2>2, <2>5, <2>7, <2>8 DEF LinkInv
<1>4. ASSUME NEW l \in Link, FetchShare(l)
      PROVE  LinkInv'
  <2>1. /\ links[l].open /\ links[l].views < links[l].max
        /\ links' = [links EXCEPT ![l].views = @ + 1]
        /\ fetches' = [fetches EXCEPT ![l] = @ + 1]
        /\ UNCHANGED <<opened, closed>>
    BY <1>4 DEF FetchShare, Fetchable
  <2>2. [links[l] EXCEPT !.views = @ + 1] \in LinkType
    BY <1>2, <2>1 DEF LinkType, Created
  <2>3. links' \in [Link -> LinkType] /\ fetches' \in [Link -> Nat]
    BY <1>2, <2>1, <2>2 DEF LinkInv
  <2>4. /\ links'[l].views = links[l].views + 1 /\ links'[l].max = links[l].max
        /\ links'[l].open = links[l].open
        /\ fetches'[l] = fetches[l] + 1
    BY <1>2, <2>1 DEF LinkInv, LinkType, Created
  <2>5. LinkOK(l)'
    BY <1>2, <2>1, <2>4 DEF LinkInv, LinkOK
  <2>6. \A k \in Link \ {l} : LinkOK(k)'
    BY <2>1 DEF LinkInv, LinkOK, Created
  <2> QED BY <2>1, <2>3, <2>5, <2>6 DEF LinkInv
<1>5. ASSUME NEW l \in Link, NEW arrives \in BOOLEAN, AnswerFetch(l, arrives)
      PROVE  LinkInv'
  <2>1. /\ fetches[l] > 0 /\ fetches' = [fetches EXCEPT ![l] = @ - 1]
        /\ opened' = [opened EXCEPT ![l] = @ + 1] \/ opened' = opened
        /\ UNCHANGED <<links, closed>>
    BY <1>5 DEF AnswerFetch
  <2>2. /\ fetches' \in [Link -> Nat] /\ opened' \in [Link -> Nat]
        /\ opened'[l] + fetches'[l] <= opened[l] + fetches[l]
    BY <1>2, <2>1 DEF LinkInv
  <2>3. LinkOK(l)'
    BY <1>2, <2>1, <2>2 DEF LinkInv, LinkOK, Created
  <2>4. \A k \in Link \ {l} : LinkOK(k)'
    BY <2>1 DEF LinkInv, LinkOK, Created
  <2> QED BY <2>1, <2>2, <2>3, <2>4 DEF LinkInv
<1>6. ASSUME NEW l \in Link, Close(l)
      PROVE  LinkInv'
  <2>1. /\ links[l].open /\ links' = [links EXCEPT ![l].open = FALSE]
        /\ closed' = [closed EXCEPT ![l] = links[l].views]
        /\ UNCHANGED <<fetches, opened>>
    BY <1>6 DEF Close
  <2>2. [links[l] EXCEPT !.open = FALSE] \in LinkType
    BY <1>2, <2>1 DEF LinkType, Created
  <2>3. links' \in [Link -> LinkType] /\ closed' \in [Link -> Nat]
    BY <1>2, <2>1, <2>2 DEF LinkInv
  <2>4. /\ links'[l].views = links[l].views /\ links'[l].max = links[l].max
        /\ links'[l].open = FALSE /\ closed'[l] = links[l].views
    BY <1>2, <2>1 DEF LinkInv, LinkType, Created
  <2>5. Created(l)'
    BY <1>2, <2>1, <2>4 DEF Created, NoLink
  <2>6. LinkOK(l)'
    BY <1>2, <2>1, <2>4, <2>5 DEF LinkInv, LinkOK
  <2>7. \A k \in Link \ {l} : LinkOK(k)'
    BY <2>1 DEF LinkInv, LinkOK, Created
  <2> QED BY <2>1, <2>3, <2>6, <2>7 DEF LinkInv
<1>7. ASSUME NEW l \in Link, ShareStep(l)
      PROVE  LinkInv'
  BY <1>3, <1>4, <1>5, <1>6, <1>7 DEF ShareStep, RevokeShare, ExpireShare
<1> QED BY <1>1, <1>7 DEF Next, vars

(* No reader gets a link's content more often than its creator allowed, or  *)
(* once more after it was revoked or expired than had been granted by then. *)
THEOREM ViewsAreBounded == Spec => []ViewsBounded
<1>1. Init => LinkInv
  <2> SUFFICES ASSUME Init
               PROVE  LinkInv
    OBVIOUS
  <2>1. NoLink \in LinkType /\ NoLink.views = 0 /\ NoLink.max = 0 /\ ~NoLink.open
    BY DEF LinkType, NoLink
  <2> QED BY <2>1, LinksAssumption DEF Init, LinkInv, LinkOK, Created
<1>2. LinkInv => ViewsBounded
  <2> SUFFICES ASSUME LinkInv, NEW l \in Link, Created(l)
               PROVE  /\ opened[l] + fetches[l] <= links[l].max
                      /\ opened[l] + fetches[l] <= closed[l]
    BY DEF ViewsBounded
  <2>1. /\ opened[l] \in Nat /\ fetches[l] \in Nat /\ closed[l] \in Nat
        /\ links[l].views \in Nat /\ links[l].max \in 1 .. MaxViews
        /\ links[l].open \in BOOLEAN /\ MaxViews \in Nat /\ LinkOK(l)
    BY LinksAssumption DEF LinkInv, LinkType, Created
  <2> QED BY <2>1 DEF LinkOK
<1>3. Init => SignInInv
  BY SignInInitial DEF Init
<1> QED BY <1>1, <1>2, <1>3, SignInStep, LinkStep, PTL DEF Spec

=============================================================================
