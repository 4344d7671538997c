------------------------------- MODULE Account -------------------------------
(***************************************************************************)
(* The key material of one account: on the server, in each device's local  *)
(* store and in its keychain.  `init`, `reset`, `setup`, `unlock`, `lock`  *)
(* and the account half of `push`, one storage operation or request at a   *)
(* time, from any number of terminals, with crashes, refused and lost      *)
(* requests and failing stores in between.  The two rows of the store are  *)
(* written in one transaction but read in two statements, and a request    *)
(* leaves after both.                                                      *)
(*                                                                         *)
(* An identity is a number: the salt, the secret key, the key pair and the *)
(* recovery blob made together by one `reinit`; 0 stands for none.  What   *)
(* the numbers abstract is that blobs of different identities never open   *)
(* each other.  A command is a record whose `at` names its NEXT step:      *)
(*    kit       check the pasted Emergency Kit against the account         *)
(*    keychain  store the secret key         store   write the identity    *)
(*    session   cache the master key         salt    read the identity row *)
(*    keys      read the account keys        send    the account request   *)
(*    print     show the Emergency Kit       cache   end of an unlock      *)
(***************************************************************************)
EXTENDS Naturals, FiniteSets

CONSTANTS
    Devices,            \* local stores, each with its keychain
    Terminals,          \* places where a command may run
    On,                 \* the device of a terminal
    MaxMade             \* bound on identities ever made

ASSUME OnAssumption == On \in [Terminals -> Devices]

ASSUME MadeAssumption == MaxMade \in Nat

VARIABLES
    account,            \* users.public_key and the three blobs beside it
    made,               \* identities made so far
    kits,               \* identities whose Emergency Kit was shown
    secret,             \* the keychain's secret key
    store,              \* the identity and account_keys rows
    master,             \* the keychain's cached master key
    token,              \* the keychain's server session
    cmd,                \* the command a terminal is running
    disturbed           \* devices where making keys was cut short or doubled

deviceVars == <<secret, store, master, token>>
accountVars == <<account, made, kits, deviceVars, cmd, disturbed>>

(* `key` is the identity a command makes, restores or unlocks, `salt` and   *)
(* `keys` what it has read for the server.  `crossed` records, for the      *)
(* properties, that a reset beside it wrote an identity on the device.      *)
Idle == [do |-> "none", at |-> "idle", key |-> 0, salt |-> 0, keys |-> 0,
         crossed |-> FALSE]

Begin(t, c, at, key) ==
    cmd' = [cmd EXCEPT ![t] = [Idle EXCEPT !.do = c, !.at = at, !.key = key]]

At(t, at) == cmd[t].at = at

Go(t, at) == cmd' = [cmd EXCEPT ![t].at = at]

Finish(t) == cmd' = [cmd EXCEPT ![t] = Idle]

(* A command between its first and its last write of an identity.           *)
Making(t) == cmd[t].at \in {"keychain", "store"}

(* A command that has written or read an identity and still relies on it.   *)
Carrying(t) == cmd[t].at \in {"session", "salt", "keys", "send"}

MadeOn(d) == {t \in Terminals : On[t] = d /\ Making(t)}

Initialised(d) == store[d] # 0

(* A session the server knows.                                              *)
Authenticated(d) == token[d] = "live"

-----------------------------------------------------------------------------

AccountInit ==
    /\ account = 0
    /\ made = 0
    /\ kits = {}
    /\ secret = [d \in Devices |-> 0]
    /\ store = [d \in Devices |-> 0]
    /\ master = [d \in Devices |-> 0]
    /\ token = [d \in Devices |-> "none"]
    /\ cmd = [t \in Terminals |-> Idle]
    /\ disturbed = {}

-----------------------------------------------------------------------------
(* The server: account routes *)

(* The salt of one identity beside the keys of another opens nothing.       *)
Mixed == MaxMade + 1

Bundle(salt, keys) == IF salt = keys THEN keys ELSE Mixed

(* put_account is create-only and needs no organisation's consent.          *)
Uploaded(key) == IF account = 0 THEN key ELSE account

(* reset_account wants an initialised account; that an organisation of the  *)
(* user may refuse the write, because it is being deleted, is one of the    *)
(* errors of Stop.                                                          *)
MayReset(d) == Authenticated(d) /\ account # 0

-----------------------------------------------------------------------------
(* Making an identity: reinit, shared by `init` and `reset` *)

(* A second command that makes keys on the device mixes its writes with     *)
(* those of the first.                                                      *)
Joined(d) == IF MadeOn(d) = {} THEN disturbed ELSE disturbed \cup {d}

MakeKeys(t, c) ==
    /\ cmd[t] = Idle
    /\ made < MaxMade
    /\ made' = made + 1
    /\ Begin(t, c, "keychain", made + 1)
    /\ disturbed' = Joined(On[t])
    /\ UNCHANGED <<account, kits, deviceVars>>

StartInit(t) == ~Initialised(On[t]) /\ MakeKeys(t, "init")

(* `reset` wants a stored login, whatever the server thinks of it.          *)
StartReset(t) == token[On[t]] # "none" /\ MakeKeys(t, "reset")

(* `setup` downloads the account and asks for the kit.                      *)
StartSetup(t) ==
    /\ cmd[t] = Idle
    /\ ~Initialised(On[t])
    /\ Authenticated(On[t])
    /\ account # 0
    /\ Begin(t, "setup", "kit", account)
    /\ UNCHANGED <<account, made, kits, deviceVars, disturbed>>

(* The private keys open under the password and the pasted secret key only  *)
(* if the kit is that of the downloaded account.                            *)
KitOpens(t) == cmd[t].key \in kits

(* A slip the runs notice: restore does not look again for an identity.     *)
MayRestore(t) == KitOpens(t) /\ ~Initialised(On[t])

AcceptKit(t) ==
    /\ At(t, "kit")
    /\ MayRestore(t)
    /\ Go(t, "keychain")
    /\ disturbed' = Joined(On[t])
    /\ UNCHANGED <<account, made, kits, deviceVars>>

(* What reinit and restore write, in this order: the keychain entry, then   *)
(* both rows of the store in one transaction.                               *)
(* A slip the runs notice: the other way round.                             *)
StoreFirst(n) == IF n = 1 THEN "store" ELSE "keychain"

Written(n) == IF n = 1 THEN "keychain" ELSE "store"

Save(t, where) ==
    IF where = "keychain"
    THEN /\ secret' = [secret EXCEPT ![On[t]] = cmd[t].key]
         /\ UNCHANGED store
    ELSE /\ store' = [store EXCEPT ![On[t]] = cmd[t].key]
         /\ UNCHANGED secret

(* A reset crosses whoever carries an identity of the device.               *)
GoAcross(t, at) ==
    cmd' = [u \in Terminals |->
               IF u = t THEN [cmd[t] EXCEPT !.at = at]
               ELSE IF On[u] = On[t] /\ Carrying(u) /\ cmd[t].do = "reset"
                    THEN [cmd[u] EXCEPT !.crossed = TRUE]
                    ELSE cmd[u]]

SetSecret(t) ==
    /\ At(t, "keychain")
    /\ Save(t, Written(1))
    /\ GoAcross(t, "store")
    /\ UNCHANGED <<account, made, kits, master, token, disturbed>>

PutIdentity(t) ==
    /\ At(t, "store")
    /\ Save(t, Written(2))
    /\ GoAcross(t, "session")
    /\ UNCHANGED <<account, made, kits, master, token, disturbed>>

(* What an unfinished identity leaves behind does no harm unless the device *)
(* may have had one before.                                                 *)
Broken(t) ==
    IF At(t, "store") /\ cmd[t].do = "reset" THEN disturbed \cup {On[t]}
                                             ELSE disturbed

(* The store refuses: the secret key is taken back, if the keychain lets.   *)
PutFails(t, deleted) ==
    /\ At(t, "store")
    /\ secret' = IF deleted THEN [secret EXCEPT ![On[t]] = 0] ELSE secret
    /\ Finish(t)
    /\ disturbed' = Broken(t)
    /\ UNCHANGED <<account, made, kits, store, master, token>>

CacheSession(t) ==
    /\ At(t, "session")
    /\ master' = [master EXCEPT ![On[t]] = cmd[t].key]
    /\ \/ cmd[t].do = "init" /\ Go(t, "print")
       \/ cmd[t].do = "reset" /\ Go(t, "salt")
       \/ cmd[t].do = "setup" /\ Finish(t)
    /\ UNCHANGED <<account, made, kits, secret, store, token, disturbed>>

PrintKit(t) ==
    /\ At(t, "print")
    /\ kits' = kits \cup {cmd[t].key}
    /\ Finish(t)
    /\ UNCHANGED <<account, made, deviceVars, disturbed>>

-----------------------------------------------------------------------------
(* Sending the account to the server: the end of `reset`, and ensure_account *)
(* of an unlocked device's `push`                                            *)

StartPush(t) ==
    /\ cmd[t] = Idle
    /\ master[On[t]] # 0
    /\ Authenticated(On[t])
    /\ Begin(t, "push", "salt", 0)
    /\ UNCHANGED <<account, made, kits, deviceVars, disturbed>>

(* account::material reads the identity row, then the account keys.         *)
ReadSalt(t) ==
    /\ At(t, "salt")
    /\ Initialised(On[t])
    /\ cmd' = [cmd EXCEPT ![t].at = "keys", ![t].salt = store[On[t]]]
    /\ UNCHANGED <<account, made, kits, deviceVars, disturbed>>

ReadKeys(t) ==
    /\ At(t, "keys")
    /\ cmd' = [cmd EXCEPT ![t].at = "send", ![t].keys = store[On[t]]]
    /\ UNCHANGED <<account, made, kits, deviceVars, disturbed>>

Material(t) == Bundle(cmd[t].salt, cmd[t].keys)

(* The kit is shown once the server has answered.                           *)
SendReset(t, heard) ==
    /\ At(t, "send") /\ cmd[t].do = "reset"
    /\ MayReset(On[t])
    /\ account' = Material(t)
    /\ IF heard THEN Go(t, "print") ELSE Finish(t)
    /\ UNCHANGED <<made, kits, deviceVars, disturbed>>

(* 409 counts as done.                                                      *)
EnsureAccount(t) ==
    /\ At(t, "send") /\ cmd[t].do = "push"
    /\ Authenticated(On[t])
    /\ account' = Uploaded(Material(t))
    /\ Finish(t)
    /\ UNCHANGED <<made, kits, deviceVars, disturbed>>

(* An error, a refused request or a crash ends the command where it stands. *)
Stop(t) ==
    /\ cmd[t] # Idle
    /\ Finish(t)
    /\ disturbed' = Broken(t)
    /\ UNCHANGED <<account, made, kits, deviceVars>>

-----------------------------------------------------------------------------
(* unlock, lock and the session's expiry *)

(* unlock re-derives the master key and checks it against the verifier; the *)
(* derivation takes its time before the result is cached.                   *)
StartUnlock(t) ==
    /\ cmd[t] = Idle
    /\ master[On[t]] = 0
    /\ Initialised(On[t])
    /\ secret[On[t]] = store[On[t]]
    /\ Begin(t, "unlock", "cache", store[On[t]])
    /\ UNCHANGED <<account, made, kits, deviceVars, disturbed>>

CacheUnlocked(t) ==
    /\ At(t, "cache")
    /\ master' = [master EXCEPT ![On[t]] = cmd[t].key]
    /\ Finish(t)
    /\ UNCHANGED <<account, made, kits, secret, store, token, disturbed>>

(* `lock`, or current_master_key finding the entry expired.                 *)
Lock(d) ==
    /\ master[d] # 0
    /\ master' = [master EXCEPT ![d] = 0]
    /\ UNCHANGED <<account, made, kits, secret, store, token, cmd,
                   disturbed>>

-----------------------------------------------------------------------------
(* The login of a device: SignIn has the details *)

SetToken(d, s) ==
    /\ token' = [token EXCEPT ![d] = s]
    /\ UNCHANGED <<account, made, kits, secret, store, master, cmd,
                   disturbed>>

LogIn(d) == SetToken(d, "live")

LogOut(d) == SetToken(d, "none")

(* Thirty days pass, or the session is revoked elsewhere.                   *)
SessionEnds(d) == token[d] = "live" /\ SetToken(d, "dead")

-----------------------------------------------------------------------------

MakingStep(t) ==
    \/ StartInit(t)
    \/ StartReset(t)
    \/ StartSetup(t)
    \/ AcceptKit(t)
    \/ SetSecret(t)
    \/ PutIdentity(t)
    \/ \E deleted \in BOOLEAN : PutFails(t, deleted)
    \/ CacheSession(t)
    \/ PrintKit(t)
    \/ Stop(t)

SendingStep(t) ==
    \/ StartPush(t)
    \/ ReadSalt(t)
    \/ ReadKeys(t)
    \/ \E heard \in BOOLEAN : SendReset(t, heard)
    \/ EnsureAccount(t)

SessionStep(d) == Lock(d) \/ LogIn(d) \/ LogOut(d) \/ SessionEnds(d)

AccountNext ==
    \/ \E t \in Terminals : MakingStep(t) \/ SendingStep(t)
                            \/ StartUnlock(t) \/ CacheUnlocked(t)
    \/ \E d \in Devices : SessionStep(d)

AccountSpec == AccountInit /\ [][AccountNext]_accountVars

-----------------------------------------------------------------------------
(* Properties *)

Identity == 0 .. MaxMade

Commands == {"none", "init", "reset", "setup", "push", "unlock"}

Steps == {"idle", "kit", "keychain", "store", "session", "salt", "keys", "send",
          "print", "cache"}

Command == [do : Commands, at : Steps, key : (0 .. made) \cup {Mixed},
            salt : 0 .. made, keys : 0 .. made, crossed : BOOLEAN]

(* The types, and that identities are counted as they are made: nothing     *)
(* holds one reinit has not handed out.                                     *)
AccountTypeOK ==
    /\ made \in Identity
    /\ account \in (0 .. made) \cup {Mixed}
    /\ kits \subseteq 0 .. made
    /\ secret \in [Devices -> 0 .. made]
    /\ store \in [Devices -> 0 .. made]
    /\ master \in [Devices -> 0 .. made]
    /\ token \in [Devices -> {"none", "live", "dead"}]
    /\ cmd \in [Terminals -> Command]
    /\ disturbed \subseteq Devices

AtRest(d) == MadeOn(d) = {} /\ d \notin disturbed

(* Whatever fails or crashes in `init` and `setup`, and however unlocks,    *)
(* pushes and resets of other devices fall in between, a device that looks  *)
(* initialised can be unlocked: its keychain has the secret key of its      *)
(* store.  Only a reset cut between its two writes, and two commands making *)
(* keys at once, are exempt.                                                *)
NoHalfInit ==
    \A d \in Devices :
        AtRest(d) /\ Initialised(d) => secret[d] = store[d]

(* A reset of the same device has written since the command wrote or read   *)
(* its identity, or is between its two writes.                              *)
Overtaken(t) ==
    \/ cmd[t].crossed
    \/ \E u \in Terminals : /\ On[u] = On[t]
                            /\ At(u, "store") /\ cmd[u].do = "reset"

(* The server never gets key material its sender cannot open: when the      *)
(* account changes, the device it came from has that identity in its store  *)
(* and in its keychain, and the kit a `reset` is about to show is that of   *)
(* the account - whatever fails, and whatever init, setup, unlock and push  *)
(* run beside it.  The exceptions: another `reset` of the same device that  *)
(* writes while the material is on its way, and devices where a reset was   *)
(* cut short or two commands made keys at once.                             *)
ServerKeyIsHeld ==
    [][\A t \in Terminals :
          account' # account /\ At(t, "send") /\ ~At(t, "send")'
              => \/ Overtaken(t) \/ On[t] \in disturbed
                 \/ /\ account' = store[On[t]]
                    /\ account' = secret[On[t]]
                    /\ cmd[t].do = "reset" => account' = cmd[t].key]_accountVars

=============================================================================
