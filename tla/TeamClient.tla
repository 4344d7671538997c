------------------------------- MODULE TeamClient -------------------------------
(***************************************************************************)
(* Administrators of one organisation at their command lines: `rotate`,    *)
(* `org remove`, `grant` and `token create`, taken request by request      *)
(* against EnvServer, so that another administrator's requests, a member's *)
(* write or an account reset fall between any two of them.                 *)
(*                                                                         *)
(* A command is a record `cmd[u]` whose `at` names the NEXT request:       *)
(*    held     the environments the target holds    peers   their holders  *)
(*    members  the members and their public keys    holders who to regrant *)
(*    rows     the own grant, the rows and the versions to rewrap          *)
(*    tokens   the tokens to reseal                 rotate  the rotation   *)
(*    delete   the removal of the membership        share   the new grant  *)
(* An error, a lost reply and a crash all end a command where it stands.   *)
(* The rows are read with their revision: had a write come between, the    *)
(* base check of `rotate` would turn the request away.                     *)
(***************************************************************************)
EXTENDS EnvServer

CONSTANTS
    Staff,              \* members at the start: their roles
    Runs,               \* the commands each user runs
    FirstHolders,       \* the members the environment is shared with
    Resetting,          \* the users whose accounts may be reset
    NoUser,             \* nobody is being removed
    NoKey,              \* the local store holds no openable vault key
    RotateAttempts      \* ROTATE_ATTEMPTS

ASSUME TeamAssumption ==
    /\ Staff \in [Users -> Roles]
    /\ Runs \in [Users -> SUBSET {"rotate", "remove", "share"}]
    /\ FirstHolders \subseteq {u \in Users : Staff[u] # "none"}
    /\ Resetting \subseteq Users
    /\ NoUser \notin Users
    /\ NoKey \notin Nat
    /\ NoGrant \notin Sealed
    /\ RotateAttempts \in Nat \ {0}

VARIABLES
    cmd,                \* the command a user is running
    local,              \* the vault key in a user's local store
    held                \* history: the vault keys a user could fetch as a
                        \* member, since the last reset: by a grant, or by a
                        \* machine token the user made

teamVars == <<cmd, local, held>>
vars == <<serverVars, teamVars>>

-----------------------------------------------------------------------------
(* Commands *)

Idle == [at |-> "idle"]

Begin(u, c) == /\ cmd[u] = Idle
               /\ cmd' = [cmd EXCEPT ![u] = c]

Go(u, at) == cmd' = [cmd EXCEPT ![u].at = at]

Finish(u) == cmd' = [cmd EXCEPT ![u] = Idle]

At(u, at) == cmd[u].at = at

(* `since` records, for the properties, who got a grant, was added or reset *)
(* beside a running command.                                                *)
Noticed(running, U) ==
    cmd' = [v \in Users |->
               IF running[v] = Idle THEN Idle
               ELSE [running[v] EXCEPT !.since = @ \cup U]]

Opens(u) == grants[u] # NoGrant /\ grants[u].to = pubkey[u]

(* A machine token opens what is sealed to it, for whoever made it.         *)
TokenKeys(u) == {tokens[t].sealed : t \in {i \in ActiveTokens :
                                              tokens[i].creator = u}}

GrantKeys(u) == IF Opens(u) THEN {grants[u].key} ELSE {}

Held == held' = [u \in Users |->
                    held[u] \cup GrantKeys(u)' \cup TokenKeys(u)']

-----------------------------------------------------------------------------
(* rotate_env.  The members are listed once, everything else afresh in      *)
(* every attempt.                                                           *)

Attempt(u, target, then, keys, left, since) ==
    [at |-> "rows", target |-> target, then |-> then, keys |-> keys,
     left |-> left, base |-> 0, rows |-> {}, versions |-> {}, holders |-> {},
     tokens |-> {}, since |-> since]

KeysListed == [m \in Members |-> pubkey[m]]

StartRotate(u) ==
    /\ role[u] # "none"
    /\ Begin(u, Attempt(u, NoUser, "idle", KeysListed, RotateAttempts, {}))
    /\ UNCHANGED <<serverVars, local, held>>

(* Without a grant of its own that opens, the command stops.  The rows it   *)
(* rewraps are under the key it has opened, or the rewrap fails.            *)
RotateRows(u) ==
    /\ At(u, "rows")
    /\ role[u] # "none"
    /\ IF Opens(u)
       THEN cmd' = [cmd EXCEPT ![u].at = "holders", ![u].base = revision,
                               ![u].rows = Present(secrets),
                               ![u].versions = VersionsOf(history)]
       ELSE Finish(u)
    /\ UNCHANGED <<serverVars, local, held>>

(* Slips the runs notice: the removed member is granted again; only         *)
(* administrators are.                                                      *)
RegrantedAll(u) == Holders \cap DOMAIN cmd[u].keys

RegrantedAdmins(u) ==
    {h \in Holders \cap DOMAIN cmd[u].keys : MayManage(h)} \ {cmd[u].target}

(* Every holder is granted again but the one being removed and those who    *)
(* were no members when the members were listed.                            *)
Regranted(u) == (Holders \cap DOMAIN cmd[u].keys) \ {cmd[u].target}

RotateHolders(u) ==
    /\ At(u, "holders")
    /\ role[u] \in {"admin", "owner"}
    /\ cmd' = [cmd EXCEPT ![u].at = "tokens", ![u].holders = Regranted(u)]
    /\ UNCHANGED <<serverVars, local, held>>

RotateTokens(u) ==
    /\ At(u, "tokens")
    /\ role[u] \in {"admin", "owner"}
    /\ cmd' = [cmd EXCEPT ![u].at = "rotate", ![u].tokens = ActiveTokens]
    /\ UNCHANGED <<serverVars, local, held>>

Request(u) ==
    LET key == vaultKey + 1 IN
    [base |-> cmd[u].base, key |-> key,
     grants |-> [h \in cmd[u].holders |->
                    [key |-> key, to |-> cmd[u].keys[h], seal |-> 0]],
     secrets |-> cmd[u].rows, versions |-> cmd[u].versions,
     tokens |-> cmd[u].tokens]

(* What a removal still needs once the rotation is behind it. *)
Begun(u) == [at |-> "delete", target |-> cmd[u].target, since |-> cmd[u].since]

PutRotation(u) ==
    /\ At(u, "rotate")
    /\ vaultKey < MaxKey /\ revision < MaxRevision
    /\ Rotate(u, Request(u))
    /\ Noticed([cmd EXCEPT ![u] = IF @.then = "idle" THEN Idle ELSE Begun(u)],
               {h \in DOMAIN cmd[u].keys : grants[h] = NoGrant /\ grants'[h] # NoGrant})
    /\ Held
    /\ UNCHANGED local

(* A stale base is a conflict: start over, but for the members. *)
RetryRotation(u) ==
    /\ At(u, "rotate")
    /\ MayManage(u)
    /\ \A h \in cmd[u].holders : role[h] # "none"
    /\ ~BaseIsCurrent(cmd[u].base)
    /\ IF cmd[u].left > 1
       THEN cmd' = [cmd EXCEPT ![u] =
                       Attempt(u, @.target, @.then, @.keys, @.left - 1, @.since)]
       ELSE Finish(u)
    /\ UNCHANGED <<serverVars, local, held>>

-----------------------------------------------------------------------------
(* remove_member *)

StartRemove(u, target) ==
    /\ role[u] # "none"
    /\ Begin(u, [at |-> "held", target |-> target, listed |-> Members,
                 since |-> {}])
    /\ UNCHANGED <<serverVars, local, held>>

NothingToRekey(u) == grants[cmd[u].target] = NoGrant

(* The target's environments, and for each the caller's own grant.          *)
RemoveHeld(u) ==
    /\ At(u, "held")
    /\ role[u] \in {"admin", "owner"}
    /\ IF NothingToRekey(u) THEN cmd' = [cmd EXCEPT ![u] = Begun(u)]
       ELSE IF Opens(u) THEN Go(u, "members")
       ELSE IF grants[u] = NoGrant THEN Go(u, "peers")
       ELSE Finish(u)
    /\ UNCHANGED <<serverVars, local, held>>

(* The target alone holds it: nobody could rotate.  Otherwise: blocked.     *)
RemovePeers(u) ==
    /\ At(u, "peers")
    /\ role[u] \in {"admin", "owner"}
    /\ IF Holders \cap cmd[u].listed = {cmd[u].target}
       THEN cmd' = [cmd EXCEPT ![u] = Begun(u)] ELSE Finish(u)
    /\ UNCHANGED <<serverVars, local, held>>

(* The rotation of the removal lists the members itself. *)
RemoveMembers(u) ==
    /\ At(u, "members")
    /\ role[u] # "none"
    /\ cmd' = [cmd EXCEPT ![u] = 
            Attempt(u, @.target, "delete", KeysListed, RotateAttempts, @.since)]
    /\ UNCHANGED <<serverVars, local, held>>

DeleteMember(u) ==
    /\ At(u, "delete")
    /\ RemoveMember(u, cmd[u].target)
    /\ Finish(u)
    /\ held' = [held EXCEPT ![cmd[u].target] = {}]
    /\ UNCHANGED local

-----------------------------------------------------------------------------
(* share_env, create_machine_token, clone_env, pull and invite *)

StartShare(u, target) ==
    /\ role[u] # "none"
    /\ role[target] # "none"
    /\ local[u] # NoKey
    /\ Begin(u, [at |-> "share", target |-> target,
                 box |-> [key |-> local[u], to |-> pubkey[target], seal |-> 0],
                 since |-> {}])
    /\ UNCHANGED <<serverVars, local, held>>

PutShare(u) ==
    /\ At(u, "share")
    /\ CreateGrant(u, cmd[u].target, cmd[u].box)
    /\ Noticed([cmd EXCEPT ![u] = Idle], {cmd[u].target})
    /\ Held
    /\ UNCHANGED local

MakeToken(u, t) ==
    /\ cmd[u] = Idle
    /\ local[u] # NoKey
    /\ CreateToken(u, t, local[u])
    /\ Held
    /\ UNCHANGED <<cmd, local>>

(* A clone, a pull, or the pull after `rotate`. *)
Refresh(u) ==
    /\ cmd[u] = Idle
    /\ role[u] # "none"
    /\ Opens(u)
    /\ local' = [local EXCEPT ![u] = grants[u].key]
    /\ UNCHANGED <<serverVars, cmd, held>>

Invite(u, target) ==
    /\ cmd[u] = Idle
    /\ AddMember(u, target, "member")
    /\ Noticed(cmd, {target})
    /\ UNCHANGED <<local, held>>

-----------------------------------------------------------------------------
(* What else happens: a member pushes, resets, a command ends early.        *)

Push(u) ==
    /\ cmd[u] = Idle
    /\ local[u] # NoKey
    /\ revision < MaxRevision
    /\ \E s \in Secrets, v \in 1 .. MaxVersion, x \in Contents :
          WriteSecrets(u, revision,
                       [i \in {s} |-> [ver |-> v, val |-> x, key |-> local[u]]],
                       {})
    /\ UNCHANGED teamVars

(* The old keypair is gone, and with it whatever was sealed to it; machine  *)
(* tokens have keypairs of their own.                                       *)
Reset(u) ==
    /\ cmd[u] = Idle
    /\ ResetAccount(u)
    /\ local' = [local EXCEPT ![u] = NoKey]
    /\ held' = [held EXCEPT ![u] = TokenKeys(u)]
    /\ Noticed(cmd, {u})

Abort(u) ==
    /\ cmd[u] # Idle
    /\ Finish(u)
    /\ UNCHANGED <<serverVars, local, held>>

-----------------------------------------------------------------------------
(* Specification *)

(* The staff was invited, and some of them given the first vault key. *)
TeamInit ==
    /\ lifecycle = "active"
    /\ role = Staff
    /\ pubkey = [u \in Users |-> 0]
    /\ revision = 0
    /\ secrets = [s \in Secrets |-> Absent]
    /\ history = {}
    /\ grants = [u \in Users |-> IF u \in FirstHolders
                                 THEN [key |-> 0, to |-> 0, seal |-> 0]
                                 ELSE NoGrant]
    /\ tokens = [t \in Tokens |->
                    [status |-> "none", creator |-> Creator, sealed |-> 0]]
    /\ vaultKey = 0
    /\ cmd = [u \in Users |-> Idle]
    /\ local = [u \in Users |-> IF u \in FirstHolders THEN 0 ELSE NoKey]
    /\ held = [u \in Users |-> IF u \in FirstHolders THEN {0} ELSE {}]

RotateStep(u) ==
    \/ "rotate" \in Runs[u] /\ StartRotate(u)
    \/ RotateRows(u) \/ RotateHolders(u) \/ RotateTokens(u)
    \/ PutRotation(u) \/ RetryRotation(u)

RemoveStep(u) ==
    \/ "remove" \in Runs[u] /\ \E target \in Users \ {u} : StartRemove(u, target)
    \/ RemoveHeld(u) \/ RemovePeers(u) \/ RemoveMembers(u) \/ DeleteMember(u)

ShareStep(u) ==
    \/ /\ "share" \in Runs[u]
       /\ \/ \E target \in Users \ {u} : StartShare(u, target) \/ Invite(u, target)
          \/ \E t \in Tokens : MakeToken(u, t)
          \/ Refresh(u) \/ Push(u)
    \/ PutShare(u)

TeamNext ==
    \/ \E u \in Users : \/ RotateStep(u) \/ RemoveStep(u) \/ ShareStep(u)
                        \/ Abort(u)
    \/ \E u \in Resetting : Reset(u)

TeamSpec == TeamInit /\ [][TeamNext]_vars

-----------------------------------------------------------------------------
(* Properties *)

Removed(target) == role[target] # "none" /\ role'[target] = "none"

(* u's removal of a member goes through, the member knows the key in force, *)
(* and somebody who stays can open it too.                                  *)
LeavesWithKey(u, target) ==
    /\ At(u, "delete") /\ cmd[u].target = target
    /\ Removed(target) /\ cmd'[u] = Idle
    /\ vaultKey \in held[target]
    /\ \E m \in Users : Opens(m)' /\ grants'[m].key = vaultKey

(* The key in force is sealed to a machine token the user made: the         *)
(* rotation of a removal reseals the target's own tokens too, and only the  *)
(* DELETE revokes them.                                                     *)
HasToken(u) ==
    \E t \in Tokens : /\ tokens[t].status # "none"
                      /\ tokens[t].creator = u
                      /\ tokens[t].sealed = vaultKey

(* A member who is removed by `org remove` leaves without the key in force, *)
(* however the removal's requests interleave with other administrators'     *)
(* rotations, removals, invitations and aborted attempts.  Two exceptions:  *)
(* a new grant, while the removal runs, to that member or to the remover,   *)
(* and a machine token of the member's own that holds the key.              *)
RemovalLeavesNoKey ==
    [][\A u, target \in Users :
          LeavesWithKey(u, target) =>
              {target, u} \cap cmd[u].since # {} \/ HasToken(target)]_vars

(* The same without exceptions.  The comment on remove_member names the     *)
(* window of the member's tokens, but not that the key may be kept.         *)
RemovedCannotRead ==
    [][\A u, target \in Users : ~LeavesWithKey(u, target)]_vars

(* An accepted rotation takes the environment from nobody but the member    *)
(* being removed: whoever could open it before can open it after, unless a  *)
(* share, an invitation or a reset of theirs ran beside the command.        *)
RotationKeepsAccess ==
    [][\A u \in Users :
          vaultKey' # vaultKey /\ At(u, "rotate") /\ ~At(u, "rotate")'
              => \A h \in Users \ (cmd[u].since \cup {cmd[u].target}) :
                    role[h] # "none" /\ Opens(h) => Opens(h)']_vars
=============================================================================
