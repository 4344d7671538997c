----------------------------- MODULE SyncClient -----------------------------
(***************************************************************************)
(* Devices that share one organisation environment through EnvServer: the  *)
(* local store, local edits, and the CLI's `pull`, `push` and `clone`      *)
(* taken request by request, so that other devices, rotations, re-shares   *)
(* and crashes fall between any two of them.                               *)
(*                                                                         *)
(* Several devices may belong to one user.  A device runs one `pull` or    *)
(* `push` at a time; its other terminals edit the same store between any   *)
(* two steps of it.  All that outlives a command is in the local store.    *)
(* A command is a record `op[d]` whose pc names the NEXT step:             *)
(*    start   read the revision            adopt  fetch the own grant      *)
(*    rows    read the secret rows         apply  merge them, row by row   *)
(*    diff    read the own rows, compute the changes                       *)
(*    check   compare the own grant        write  post the batch           *)
(*    ack     store the accepted revision                                  *)
(* Reading the revision and reading the rows are two statements of the     *)
(* `snapshot` handler, hence two steps; so are looking a row up and        *)
(* replacing it in the merge.  An error, a lost reply and a crash all end  *)
(* the command where it stands (Abort).                                    *)
(***************************************************************************)
EXTENDS EnvServer

CONSTANTS
    Devices,            \* local stores
    Owner,              \* the account a device is logged in to
    Admins,             \* members that start as admins
    MaxAttempts,        \* MAX_SYNC_ATTEMPTS of the push loop
    MaxSeals            \* bound on sealings of a vault key

ASSUME OwnerAssumption == Owner \in [Devices -> Users]

ASSUME AttemptsAssumption == MaxAttempts \in Nat \ {0}

VARIABLES
    local,              \* the rows of a device's store
    vault,              \* the grant a device's environment row holds
    synced,             \* sync_state.synced_revision
    op,                 \* the command a device is running
    seals               \* sealings so far: makes every sealed box distinct

deviceVars == <<local, vault, synced, op>>
vars == <<serverVars, deviceVars, seals>>

-----------------------------------------------------------------------------
(* Commands *)

NoRows == [s \in Secrets |-> Absent]

(* `rows` is the snapshot, `todo` its rows still to be merged, `take` the   *)
(* row whose lookup said that the server wins, `mine` the store at the diff. *)
Idle == [pc |-> "idle", cmd |-> "none", base |-> 0, rows |-> NoRows,
         todo |-> {}, take |-> {}, mine |-> NoRows,
         force |-> FALSE, tries |-> 0, checked |-> 0]

Pcs == {"idle", "start", "rows", "adopt", "apply", "diff", "check", "write",
        "ack"}

(* "refresh" is the end of a push that found nothing to upload.             *)
Commands == {"none", "pull", "push", "refresh"}

Op == [pc : Pcs, cmd : Commands, base : Nat, rows : [Secrets -> Row],
       todo : SUBSET Secrets, take : SUBSET Secrets,
       mine : [Secrets -> Row],
       force : BOOLEAN, tries : Nat, checked : Nat]

SyncTypeOK ==
    /\ TypeOK
    /\ local \in [Devices -> [Secrets -> Row]]
    /\ vault \in [Devices -> Sealed \cup {NoGrant}]
    /\ synced \in [Devices -> Nat]
    /\ op \in [Devices -> Op]
    /\ seals \in Nat

-----------------------------------------------------------------------------
(* Helpers *)

MyGrant(d) == grants[Owner[d]]

IsMember(u) == role[u] # "none"

Live(d) == {s \in Secrets : local[d][s].ver > 0 /\ ~local[d][s].deleted}

(* A row opens under the device's vault key. *)
Opens(d, s) == local[d][s].key = vault[d].key

(* Names are ciphertext: finding one means decrypting the rows it may be    *)
(* in, live ones first, tombstones next; a row that does not open is an     *)
(* error.  Rows come in no particular order, so a row that exists is found  *)
(* whenever it opens itself and the table it is searched after opens.       *)
CanFind(d, s) ==
    IF s \in Live(d) THEN Opens(d, s)
    ELSE /\ \A r \in Live(d) : Opens(d, r)
         /\ IF local[d][s].ver > 0 THEN Opens(d, s)
            ELSE \A r \in Present(local[d]) : Opens(d, r)

(* apply_snapshot: the server wins on a newer version, and on a tombstone   *)
(* of the version the device has; `force` overwrites every secret.          *)
KeepsDeletions(mine, theirs, force) ==
    \/ force
    \/ theirs.ver > mine.ver /\ ~mine.deleted
    \/ theirs.ver = mine.ver /\ theirs.deleted /\ ~mine.deleted

ServerWins(mine, theirs, force) ==
    \/ force
    \/ theirs.ver > mine.ver
    \/ theirs.ver = mine.ver /\ theirs.deleted /\ ~mine.deleted

(* diff: what the device has and the snapshot lacks. *)
ToSet(mine, theirs) ==
    {s \in Present(mine) : ~mine[s].deleted /\ mine[s].ver > theirs[s].ver}

ToDelete(mine, theirs) ==
    {s \in Present(mine) \cap Present(theirs) :
        mine[s].deleted /\ ~theirs[s].deleted}

Changes(mine, theirs) == ToSet(mine, theirs) \cup ToDelete(mine, theirs)

SetsOf(mine, theirs) ==
    [s \in ToSet(mine, theirs) |->
        [ver |-> mine[s].ver, val |-> mine[s].val, key |-> mine[s].key]]

Goto(d, pc) == op' = [op EXCEPT ![d].pc = pc]

Finish(d) == op' = [op EXCEPT ![d] = Idle]

-----------------------------------------------------------------------------
(* Everybody is a member and holds the first key; the creator's devices     *)
(* have the environment, the others have yet to clone it.                   *)

SyncInit ==
    /\ lifecycle = "active"
    /\ role = [u \in Users |-> IF u = Creator THEN "owner"
                               ELSE IF u \in Admins THEN "admin"
                               ELSE "member"]
    /\ pubkey = [u \in Users |-> 0]
    /\ revision = 0
    /\ secrets = NoRows
    /\ history = {}
    /\ grants = [u \in Users |-> [key |-> 0, to |-> 0, seal |-> 0]]
    /\ tokens = [t \in Tokens |->
                    [status |-> "none", creator |-> Creator, sealed |-> 0]]
    /\ vaultKey = 0
    /\ local = [d \in Devices |-> NoRows]
    /\ vault = [d \in Devices |-> IF Owner[d] = Creator
                                  THEN [key |-> 0, to |-> 0, seal |-> 0]
                                  ELSE NoGrant]
    /\ synced = [d \in Devices |-> 0]
    /\ op = [d \in Devices |-> Idle]
    /\ seals = 0

-----------------------------------------------------------------------------
(* Local edits: no server involved.  They fall between any two steps of a   *)
(* pull or push of the same store; one edit is one step here (LocalVault    *)
(* takes edits that race with each other apart).                            *)

HasVault(d) == vault[d] # NoGrant

Ready(d) == op[d].pc = "idle" /\ HasVault(d)

(* A new secret gets a fresh UUID: an id no device and no table has.        *)
Known(d, s) == local[d][s].ver > 0

Unused(s) == secrets[s].ver = 0 /\ \A d \in Devices : ~Known(d, s)

(* `set` continues a row's versions, a tombstone's too (resurrection).      *)
LocalSet(d, s, c) ==
    /\ HasVault(d)
    /\ Known(d, s) \/ Unused(s)
    /\ CanFind(d, s)
    /\ local[d][s].ver < MaxVersion
    /\ local' = [local EXCEPT ![d][s] =
                    [ver |-> @.ver + 1, val |-> c, key |-> vault[d].key,
                     deleted |-> FALSE]]
    /\ UNCHANGED <<serverVars, vault, synced, op, seals>>

LocalDelete(d, s) ==
    /\ HasVault(d)
    /\ s \in Live(d)
    /\ CanFind(d, s)
    /\ local' = [local EXCEPT ![d][s].deleted = TRUE]
    /\ UNCHANGED <<serverVars, vault, synced, op, seals>>

(* `rollback` sets the content of a version the server retained, provided   *)
(* it opens under the device's key; nothing is rewritten.                   *)
Rollback(d, h) ==
    /\ HasVault(d)
    /\ IsMember(Owner[d])
    /\ h \in history
    /\ h.key = vault[d].key
    /\ Known(d, h.secret)
    /\ LocalSet(d, h.secret, h.val)

-----------------------------------------------------------------------------
(* clone: store the own grant, then pull *)

Clone(d) ==
    /\ op[d].pc = "idle"
    /\ vault[d] = NoGrant
    /\ IsMember(Owner[d])
    /\ MyGrant(d) # NoGrant
    /\ MyGrant(d).to = pubkey[Owner[d]]
    /\ vault' = [vault EXCEPT ![d] = MyGrant(d)]
    /\ op' = [op EXCEPT ![d].pc = "start", ![d].cmd = "pull"]
    /\ UNCHANGED <<serverVars, local, synced, seals>>

-----------------------------------------------------------------------------
(* pull and push *)

StartPull(d) ==
    /\ Ready(d)
    /\ op' = [op EXCEPT ![d].pc = "start", ![d].cmd = "pull"]
    /\ UNCHANGED <<serverVars, local, vault, synced, seals>>

StartPush(d) ==
    /\ Ready(d)
    /\ op' = [op EXCEPT ![d].pc = "start", ![d].cmd = "push"]
    /\ UNCHANGED <<serverVars, local, vault, synced, seals>>

(* A pull sends If-None-Match: on 304 it is over. *)
ReadRevision(d) ==
    /\ op[d].pc = "start"
    /\ IsMember(Owner[d])
    /\ IF op[d].cmd = "pull" /\ revision = synced[d]
       THEN Finish(d)
       ELSE op' = [op EXCEPT ![d].pc = "rows", ![d].base = revision]
    /\ UNCHANGED <<serverVars, local, vault, synced, seals>>

ReadRows(d) ==
    /\ op[d].pc = "rows"
    /\ op' = [op EXCEPT ![d].rows = secrets,
                        ![d].todo = Present(secrets),
                        ![d].pc = IF op[d].cmd = "pull" THEN "adopt"
                                                        ELSE "apply"]
    /\ UNCHANGED <<serverVars, local, vault, synced, seals>>

(* adopt_rotation: a grant with other bytes replaces the local one, and     *)
(* the snapshot is then applied by force.                                   *)
AdoptRotation(d) ==
    /\ op[d].pc = "adopt"
    /\ IsMember(Owner[d])
    /\ IF MyGrant(d) \in {NoGrant, vault[d]}
       THEN /\ IF op[d].cmd = "refresh" THEN Finish(d) ELSE Goto(d, "apply")
            /\ UNCHANGED vault
       ELSE /\ vault' = [vault EXCEPT ![d] = MyGrant(d)]
            /\ op' = [op EXCEPT ![d].pc = "apply", ![d].force = TRUE,
                                ![d].todo = Present(op[d].rows)]
    /\ UNCHANGED <<serverVars, local, synced, seals>>

(* find_secret: the row as it is now decides whether the server's wins.     *)
FindRow(d, s) ==
    /\ op[d].pc = "apply"
    /\ op[d].take = {}
    /\ s \in op[d].todo
    /\ op' = [op EXCEPT ![d].todo = @ \ {s},
                        ![d].take = IF ServerWins(local[d][s], op[d].rows[s],
                                                  op[d].force)
                                    THEN {s} ELSE {}]
    /\ UNCHANGED <<serverVars, local, vault, synced, seals>>

(* put_remote_secret: INSERT OR REPLACE, whatever the row has become since.  *)
PutRow(d, s) ==
    /\ op[d].pc = "apply"
    /\ s \in op[d].take
    /\ local' = [local EXCEPT ![d][s] = op[d].rows[s]]
    /\ op' = [op EXCEPT ![d].take = @ \ {s}]
    /\ UNCHANGED <<serverVars, vault, synced, seals>>

Merged(d) ==
    /\ op[d].pc = "apply"
    /\ op[d].todo = {}
    /\ op[d].take = {}

EndRefresh(d) ==
    /\ Merged(d)
    /\ op[d].cmd = "refresh"
    /\ Finish(d)
    /\ UNCHANGED <<serverVars, local, vault, synced, seals>>

SetSynced(d) ==
    /\ Merged(d)
    /\ op[d].cmd # "refresh"
    /\ synced' = [synced EXCEPT ![d] = op[d].base]
    /\ IF op[d].cmd = "pull" THEN Finish(d) ELSE Goto(d, "diff")
    /\ UNCHANGED <<serverVars, local, vault, seals>>

(* diff reads the store once: what is posted is what was there then.        *)
Diff(d) ==
    /\ op[d].pc = "diff"
    /\ IF Changes(local[d], op[d].rows) = {}
       THEN op' = [op EXCEPT ![d].pc = "adopt", ![d].cmd = "refresh"]
       ELSE op' = [op EXCEPT ![d].pc = "check", ![d].mine = local[d]]
    /\ UNCHANGED <<serverVars, local, vault, synced, seals>>

(* grant_changed: refuse the push unless the own grant is the one held.     *)
CheckGrant(d) ==
    /\ op[d].pc = "check"
    /\ IF MyGrant(d) = vault[d]
       THEN op' = [op EXCEPT ![d].pc = "write", ![d].checked = vaultKey]
       ELSE Finish(d)
    /\ UNCHANGED <<serverVars, local, vault, synced, seals>>

WriteAccepted(d) ==
    /\ op[d].pc = "write"
    /\ WriteSecrets(Owner[d], op[d].base, SetsOf(op[d].mine, op[d].rows),
                    ToDelete(op[d].mine, op[d].rows))
    /\ op' = [op EXCEPT ![d] = [Idle EXCEPT !.pc = "ack", !.base = op[d].base]]
    /\ UNCHANGED <<local, vault, synced, seals>>

(* 412 or 409: take a fresh snapshot and try again, a bounded number of     *)
(* times.                                                                   *)
WriteConflict(d) ==
    /\ op[d].pc = "write"
    /\ MayWrite(Owner[d])
    /\ \/ op[d].base # revision
       \/ ~FreshVersions(SetsOf(op[d].mine, op[d].rows))
    /\ IF op[d].tries + 1 < MaxAttempts
       THEN op' = [op EXCEPT ![d] = [Idle EXCEPT !.pc = "start",
                                                 !.cmd = "push",
                                                 !.tries = op[d].tries + 1]]
       ELSE Finish(d)
    /\ UNCHANGED <<serverVars, local, vault, synced, seals>>

AcknowledgeLatest(d) ==
    /\ op[d].pc = "ack"
    /\ synced' = [synced EXCEPT ![d] = revision]
    /\ Finish(d)
    /\ UNCHANGED <<serverVars, local, vault, seals>>

Acknowledge(d) ==
    /\ op[d].pc = "ack"
    /\ synced' = [synced EXCEPT ![d] = op[d].base + 1]
    /\ Finish(d)
    /\ UNCHANGED <<serverVars, local, vault, seals>>

(* The process dies, or a request fails: in the merge, some rows stay; at   *)
(* "ack", the write was applied and its reply lost.                         *)
Abort(d) ==
    /\ op[d].pc # "idle"
    /\ Finish(d)
    /\ UNCHANGED <<serverVars, local, vault, synced, seals>>

-----------------------------------------------------------------------------
(* Team operations, each as one step here (TeamClient takes them apart)     *)

NextSeal == seals' = seals + 1

(* share_env reseals the key of the device's own, local, grant. *)
Share(d, target) ==
    /\ HasVault(d)
    /\ seals < MaxSeals
    /\ CreateGrant(Owner[d], target,
                   [key |-> vault[d].key, to |-> pubkey[target],
                    seal |-> seals + 1])
    /\ NextSeal
    /\ UNCHANGED deviceVars

(* rotate_env opens every row and every retained version with the key of    *)
(* the caller's grant, or gives up.                                         *)
CanRewrap(u) ==
    /\ grants[u] # NoGrant
    /\ \A s \in Present(secrets) : secrets[s].key = grants[u].key
    /\ \A h \in history : h.key = grants[u].key

RotateEnv(u, revoked) ==
    /\ vaultKey < MaxKey
    /\ seals < MaxSeals
    /\ CanRewrap(u)
    /\ u \notin revoked
    /\ Rotate(u, [base |-> revision, key |-> vaultKey + 1,
                  grants |-> [h \in (Holders \cap Members) \ revoked |->
                                [key |-> vaultKey + 1, to |-> pubkey[h],
                                 seal |-> seals + 1]],
                  secrets |-> Present(secrets),
                  versions |-> VersionsOf(history),
                  tokens |-> ActiveTokens])
    /\ NextSeal
    /\ UNCHANGED deviceVars

-----------------------------------------------------------------------------

DeviceStep(d) ==
    \/ ReadRevision(d)
    \/ ReadRows(d)
    \/ AdoptRotation(d)
    \/ \E s \in Secrets : FindRow(d, s) \/ PutRow(d, s)
    \/ EndRefresh(d)
    \/ SetSynced(d)
    \/ Diff(d)
    \/ CheckGrant(d)
    \/ revision < MaxRevision /\ WriteAccepted(d)
    \/ WriteConflict(d)
    \/ Acknowledge(d)

Edit(d) ==
    \/ \E s \in Secrets, c \in Contents : LocalSet(d, s, c)
    \/ \E s \in Secrets : LocalDelete(d, s)
    \/ \E h \in history : Rollback(d, h)

(* The bound on revisions leaves room for a write after a rotation.         *)
TeamStep ==
    \/ \E d \in Devices, u \in Users : Share(d, u)
    \/ \E u \in Users, revoked \in SUBSET Users :
        revision + 1 < MaxRevision /\ RotateEnv(u, revoked)

SyncNext ==
    \/ \E d \in Devices :
        \/ DeviceStep(d)
        \/ Edit(d)
        \/ Clone(d)
        \/ StartPull(d)
        \/ StartPush(d)
        \/ Abort(d)
    \/ TeamStep

SyncSpec == SyncInit /\ [][SyncNext]_vars

-----------------------------------------------------------------------------
(* Properties the code keeps *)

(* Whatever pushes race, crash or are repeated after a lost reply, a        *)
(* secret on the server only moves forward: its version never drops, and    *)
(* a new content or a lifted tombstone always brings a higher version, so   *)
(* no stale device overwrites what it has not seen.                         *)
VersionsMoveForward ==
    [][\A s \in Secrets :
          /\ secrets'[s].ver >= secrets[s].ver
          /\ \/ secrets'[s].val # secrets[s].val
             \/ secrets[s].deleted /\ ~secrets'[s].deleted
             => secrets'[s].ver > secrets[s].ver]_vars

(* A device that believes it is in step with the server (its synced         *)
(* revision is the current one, so its next pull is a 304) has every        *)
(* version and every tombstone the server has, or something newer of its    *)
(* own.  Lost acknowledgements, merges cut short, edits in the middle of a  *)
(* merge and the two-statement snapshot read never make the 304 hide a      *)
(* change (while one pull or push runs on a store at a time).               *)
SyncedCoversServer ==
    \A d \in Devices : synced[d] = revision =>
        \A s \in Present(secrets) :
            /\ local[d][s].ver >= secrets[s].ver
            /\ local[d][s].ver = secrets[s].ver /\ secrets[s].deleted =>
                  local[d][s].deleted

(* The grant check of a push still holds when the server commits its batch: *)
(* no rotation was accepted in between, although check and commit are two   *)
(* requests (the base revision read before the check closes the window).    *)
CommitUnderCheckedKey ==
    [][\A d \in Devices :
          op[d].pc = "write" /\ op'[d].pc = "ack" =>
              vaultKey = op[d].checked]_vars

(* No lost update: a push replaces or deletes only a version that its       *)
(* device had merged when it computed the changes, although edits of other  *)
(* terminals, other devices' pushes and rotations fall between the lookup   *)
(* of a row, the diff and the commit (`apply_snapshot`, `diff`, the base    *)
(* revision of the batch).                                                  *)
NothingReplacedUnseen ==
    [][\A d \in Devices, s \in Secrets :
          /\ op[d].pc = "write" /\ op'[d].pc = "ack"
          /\ secrets'[s] # secrets[s]
          => /\ op[d].mine[s].ver >= secrets[s].ver
             /\ op[d].mine[s].ver = secrets[s].ver => op[d].mine[s].deleted]_vars

-----------------------------------------------------------------------------
(* Properties the code does not keep *)

(* "Server wins on a strictly newer version": a merge that no rotation      *)
(* forces never takes a row's version back.  A `set` of another terminal    *)
(* between the lookup and the INSERT OR REPLACE is lost.                    *)
MergeTakesOnlyNewer ==
    [][\A d \in Devices, s \in Secrets :
          ~op[d].force => local'[d][s].ver >= local[d][s].ver]_vars

(* Every row on the server opens under the current vault key: "refuse       *)
(* rather than upload data the team can no longer decrypt".                 *)
TeamCanDecrypt ==
    \A s \in Present(secrets) : secrets[s].key = vaultKey

(* A push refused because the grant changed is told to run `sotto pull`:    *)
(* the pull must not be a 304, or the new grant is never adopted.           *)
RefusedPushCanPull ==
    [][\A d \in Devices :
          /\ op[d].pc = "check" /\ op'[d].pc = "idle"
          /\ MyGrant(d) \notin {vault[d], NoGrant}
          => synced[d] # revision]_vars

(* Once a device is in step with the server, holds the grant the server     *)
(* has for it and the server's rows are all under that key, its own copies  *)
(* of those versions open too: adopting a rotation refreshes every          *)
(* rewrapped data key.                                                      *)
SyncedRowsOpen ==
    \A d \in Devices :
        /\ op[d].pc = "idle"
        /\ vault[d] # NoGrant
        /\ synced[d] = revision
        /\ MyGrant(d) = vault[d]
        /\ \A s \in Present(secrets) : secrets[s].key = vault[d].key
        => \A s \in Present(secrets) :
              local[d][s].ver = secrets[s].ver => Opens(d, s)

(* A push that reports success with nothing to upload has indeed nothing    *)
(* to upload: each live local version is retained by the server.            *)
PushUploadsLocalChanges ==
    [][\A d \in Devices :
          op[d].pc = "diff" /\ op'[d].cmd = "refresh" =>
              \A s \in Live(d) : \E h \in history :
                  /\ h.secret = s
                  /\ h.ver = local[d][s].ver
                  /\ h.val = local[d][s].val]_vars

=============================================================================
