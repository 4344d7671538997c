----------------------------- MODULE EnvServer -----------------------------
(***************************************************************************)
(* The sync server for ONE organisation that owns one shared environment:  *)
(* the secret table with its revision, the retained version history, the   *)
(* members' vault-key grants, the machine tokens and the membership table. *)
(*                                                                         *)
(* Every mutating handler of the server first authorises the caller        *)
(* without a lock, then opens a transaction, takes the organisation row    *)
(* FOR UPDATE and repeats the same checks (access_for_update).  Handlers   *)
(* on one organisation therefore serialise, and each is ONE action here,   *)
(* guarded by the checks made under the lock.                              *)
(*                                                                         *)
(* The server is zero-knowledge: names, values and keys are opaque to it.  *)
(* The model keeps of a ciphertext its content and the number of the vault *)
(* key it is wrapped under; of a sealed box the vault key inside, the      *)
(* generation of the public key it is sealed to, and a sealing number,     *)
(* because two sealed boxes of one key differ as bytes.  The server only   *)
(* stores and compares identities: no guard below looks at a key.          *)
(***************************************************************************)
EXTENDS Naturals

CONSTANTS
    Users,          \* accounts that may belong to the organisation
    Secrets,        \* secret ids (client-generated UUIDs)
    Tokens,         \* machine-token ids
    Contents,       \* what a (name, value) ciphertext decrypts to
    Creator,        \* the user who created the organisation: its first owner
    NoGrant,        \* no row in environment_grants
    NoContent,      \* the content of a secret that has no row
    MaxVersion,     \* bound on secret versions
    MaxRevision,    \* bound on the environment revision
    MaxKey,         \* bound on vault-key numbers, so on rotations
    MaxReset        \* bound on account resets per user

ASSUME CreatorAssumption == Creator \in Users

ASSUME NullAssumption == NoContent \notin Contents

ASSUME BoundsAssumption ==
    /\ MaxVersion \in Nat
    /\ MaxRevision \in Nat
    /\ MaxKey \in Nat
    /\ MaxReset \in Nat

VARIABLES
    lifecycle,      \* organizations.lifecycle_state
    role,           \* organization_memberships: the role of each user, or "none"
    pubkey,         \* users.public_key: the generation of each user's keypair
    revision,       \* environments.revision
    secrets,        \* the secrets table, tombstones included
    history,        \* the secret_versions table
    grants,         \* environment_grants
    tokens,         \* machine_tokens
    vaultKey        \* history variable: the key of the last accepted rotation

serverVars == <<lifecycle, role, pubkey, revision, secrets, history,
                grants, tokens, vaultKey>>

-----------------------------------------------------------------------------
(* Types *)

Roles == {"none", "member", "admin", "owner"}

(* A row of `secrets`; version 0 stands for an id that has no row. *)
Row == [ver : Nat, val : Contents \cup {NoContent}, key : Nat,
        deleted : BOOLEAN]

Absent == [ver |-> 0, val |-> NoContent, key |-> 0, deleted |-> FALSE]

HistoryRow == [secret : Secrets, ver : Nat, val : Contents, key : Nat]

Sealed == [key : Nat, to : Nat, seal : Nat]

(* A machine token; `sealed` is the number of the vault key sealed to it. *)
Token == [status : {"none", "active", "revoked"}, creator : Users,
          sealed : Nat]

(* A `set` change of a write batch. *)
SetChange == [ver : Nat, val : Contents, key : Nat]

TypeOK ==
    /\ lifecycle \in {"active", "deleting", "deleted"}
    /\ role \in [Users -> Roles]
    /\ pubkey \in [Users -> Nat]
    /\ revision \in Nat
    /\ secrets \in [Secrets -> Row]
    /\ history \subseteq HistoryRow
    /\ grants \in [Users -> Sealed \cup {NoGrant}]
    /\ tokens \in [Tokens -> Token]
    /\ vaultKey \in Nat

-----------------------------------------------------------------------------
(* Helpers.  A definition directly before the one it misreads (a guard      *)
(* dropped, a miscount) is a slip that a mutation run puts in its place.    *)

Members == {u \in Users : role[u] # "none"}

Present(table) == {s \in Secrets : table[s].ver > 0}

Holders == {u \in Users : grants[u] # NoGrant}

ActiveTokens == {t \in Tokens : tokens[t].status = "active"}

VersionsOf(rows) == {<<h.secret, h.ver>> : h \in rows}

(* The checks made under the organisation lock. *)
MayWrite(u) == /\ lifecycle = "active"
               /\ role[u] # "none"

ManageIgnoringLifecycle(u) == role[u] \in {"admin", "owner"}

MayManage(u) == /\ lifecycle = "active"
                /\ role[u] \in {"admin", "owner"}

SoleOwnerMiscounted(u) == \A o \in Users : role[o] = "owner" /\ o = u

SoleOwner(u) == /\ role[u] = "owner"
                /\ \A o \in Users : role[o] = "owner" => o = u

(* A slip the runs notice: the upsert leaves a stored version as it is. *)
SecretsKeepingVersion(sets, dels) ==
    [s \in Secrets |->
        IF s \in DOMAIN sets
        THEN [ver |-> IF secrets[s].ver > 0 THEN secrets[s].ver
                                            ELSE sets[s].ver,
              val |-> sets[s].val, key |-> sets[s].key, deleted |-> FALSE]
        ELSE IF s \in dels THEN [secrets[s] EXCEPT !.deleted = TRUE]
        ELSE secrets[s]]

(* The tables after a batch of set changes and tombstones is applied. *)
SecretsAfter(sets, dels) ==
    [s \in Secrets |->
        IF s \in DOMAIN sets
        THEN [ver |-> sets[s].ver, val |-> sets[s].val, key |-> sets[s].key,
              deleted |-> FALSE]
        ELSE IF s \in dels /\ secrets[s].ver > 0
        THEN [secrets[s] EXCEPT !.deleted = TRUE]
        ELSE secrets[s]]

HistoryOfOverwritten(sets) ==
    history \cup {[secret |-> s, ver |-> sets[s].ver, val |-> secrets[s].val,
                   key |-> sets[s].key] : s \in DOMAIN sets}

HistoryOfInserts(sets) ==
    history \cup {[secret |-> s, ver |-> sets[s].ver, val |-> sets[s].val,
                   key |-> sets[s].key] : s \in DOMAIN sets \ Present(secrets)}

HistoryLatestOnly(sets) ==
    {h \in history : h.secret \notin DOMAIN sets}
        \cup {[secret |-> s, ver |-> sets[s].ver, val |-> sets[s].val,
               key |-> sets[s].key] : s \in DOMAIN sets}

HistoryAfter(sets) ==
    history \cup {[secret |-> s, ver |-> sets[s].ver, val |-> sets[s].val,
                   key |-> sets[s].key] : s \in DOMAIN sets}

(* Rotation rewraps exactly the rows the request names. *)
RewrapSecrets(ids, k) ==
    [s \in Secrets |-> IF s \in ids THEN [secrets[s] EXCEPT !.key = k]
                                    ELSE secrets[s]]

RewrapHistory(versions, k) ==
    {IF <<h.secret, h.ver>> \in versions THEN [h EXCEPT !.key = k] ELSE h
        : h \in history}

ResealTokens(ids, k) ==
    [t \in Tokens |-> IF t \in ids THEN [tokens[t] EXCEPT !.sealed = k]
                                   ELSE tokens[t]]

(* What a member removal revokes: every token the user created. *)
RevokeNothing(u) == [t \in Tokens |-> tokens[t]]

RevokeTokensOf(u) ==
    [t \in Tokens |->
        IF tokens[t].status = "active" /\ tokens[t].creator = u
        THEN [tokens[t] EXCEPT !.status = "revoked"]
        ELSE tokens[t]]

KeepGrant(u) == grants

WithoutGrant(u) == [grants EXCEPT ![u] = NoGrant]

(* Optimistic concurrency: a request names the revision it was computed     *)
(* against, and every accepted write or rotation moves the revision on.     *)
BaseIgnored(base) == base \in Nat

BaseIsCurrent(base) == base = revision

SameRevision == revision

NextRevision == revision + 1

-----------------------------------------------------------------------------
(* An organisation with one freshly created environment: its creator holds  *)
(* the first vault key, nobody else belongs to it.                          *)

Init ==
    /\ lifecycle = "active"
    /\ role = [u \in Users |-> IF u = Creator THEN "owner" ELSE "none"]
    /\ pubkey = [u \in Users |-> 0]
    /\ revision = 0
    /\ secrets = [s \in Secrets |-> Absent]
    /\ history = {}
    /\ grants = [u \in Users |-> IF u = Creator
                                 THEN [key |-> 0, to |-> 0, seal |-> 0]
                                 ELSE NoGrant]
    /\ tokens = [t \in Tokens |->
                    [status |-> "none", creator |-> Creator, sealed |-> 0]]
    /\ vaultKey = 0

-----------------------------------------------------------------------------
(* Secrets *)

(* The batch is rejected whole on a stale base revision, and on a set whose *)
(* version the history already holds.                                       *)
PositiveVersions(sets) == \A s \in DOMAIN sets : sets[s].ver >= 1

FreshVersions(sets) ==
    \A s \in DOMAIN sets :
        /\ sets[s].ver >= 1
        /\ <<s, sets[s].ver>> \notin VersionsOf(history)

WriteSecrets(u, base, sets, dels) ==
    /\ MayWrite(u)
    /\ DOMAIN sets \cup dels # {}
    /\ BaseIsCurrent(base)
    /\ FreshVersions(sets)
    /\ secrets' = SecretsAfter(sets, dels)
    /\ history' = HistoryAfter(sets)
    /\ revision' = NextRevision
    /\ UNCHANGED <<lifecycle, role, pubkey, grants, tokens, vaultKey>>

-----------------------------------------------------------------------------
(* Grants and rotation *)

CreateGrant(u, target, sealed) ==
    /\ MayManage(u)
    /\ role[target] # "none"
    /\ grants' = [grants EXCEPT ![target] = sealed]
    /\ UNCHANGED <<lifecycle, role, pubkey, revision, secrets, history,
                   tokens, vaultKey>>

(* A rotation request names the base revision, the sealed box for each new  *)
(* holder, and the ids of the rows and tokens it rewraps under the key.     *)
RotationCoversRows(req) ==
    /\ req.secrets = Present(secrets)
    /\ req.versions = VersionsOf(history)

RotationCovers(req) ==
    /\ req.secrets = Present(secrets)
    /\ req.versions = VersionsOf(history)
    /\ req.tokens = ActiveTokens

Rotate(u, req) ==
    /\ MayManage(u)
    /\ u \in DOMAIN req.grants
    /\ \A h \in DOMAIN req.grants : role[h] # "none"
    /\ BaseIsCurrent(req.base)
    /\ RotationCovers(req)
    /\ history' = RewrapHistory(req.versions, req.key)
    /\ tokens' = ResealTokens(req.tokens, req.key)
    /\ secrets' = RewrapSecrets(req.secrets, req.key)
    /\ grants' = [h \in Users |-> IF h \in DOMAIN req.grants
                                  THEN req.grants[h] ELSE NoGrant]
    /\ revision' = NextRevision
    /\ vaultKey' = req.key
    /\ UNCHANGED <<lifecycle, role, pubkey>>

-----------------------------------------------------------------------------
(* Machine tokens *)

CreateToken(u, t, k) ==
    /\ MayManage(u)
    /\ tokens[t].status = "none"
    /\ tokens' = [tokens EXCEPT
                    ![t] = [status |-> "active", creator |-> u, sealed |-> k]]
    /\ UNCHANGED <<lifecycle, role, pubkey, revision, secrets, history,
                   grants, vaultKey>>

RevokeToken(u, t) ==
    /\ MayManage(u)
    /\ tokens[t].status = "active"
    /\ tokens' = [tokens EXCEPT ![t].status = "revoked"]
    /\ UNCHANGED <<lifecycle, role, pubkey, revision, secrets, history,
                   grants, vaultKey>>

-----------------------------------------------------------------------------
(* Membership *)

(* add_member; an invite is the same step with role "member".  A rejoin     *)
(* wipes whatever grant an earlier membership left behind.                  *)
AddMember(u, target, r) ==
    /\ MayManage(u)
    /\ r = "owner" => role[u] = "owner"
    /\ role[target] = "none"
    /\ role' = [role EXCEPT ![target] = r]
    /\ grants' = WithoutGrant(target)
    /\ UNCHANGED <<lifecycle, pubkey, revision, secrets, history, tokens,
                   vaultKey>>

UpdateMember(u, target, r) ==
    /\ MayManage(u)
    /\ role[target] # "none"
    /\ "owner" \in {r, role[target]} => role[u] = "owner"
    /\ ~(SoleOwner(target) /\ r # "owner")
    /\ role' = [role EXCEPT ![target] = r]
    /\ UNCHANGED <<lifecycle, pubkey, revision, secrets, history, grants,
                   tokens, vaultKey>>

(* If another member also holds the environment, the caller must hold it    *)
(* too: only then can the removal have been preceded by a rotation.         *)
CallerCanRekey(u, target) ==
    (/\ grants[target] # NoGrant
     /\ \E peer \in Members \ {target} : grants[peer] # NoGrant)
    => grants[u] # NoGrant

RemoveMember(u, target) ==
    /\ MayManage(u)
    /\ role[target] # "none"
    /\ role[target] = "owner" => role[u] = "owner" /\ ~SoleOwner(target)
    /\ CallerCanRekey(u, target)
    /\ grants' = WithoutGrant(target)
    /\ tokens' = RevokeTokensOf(target)
    /\ role' = [role EXCEPT ![target] = "none"]
    /\ UNCHANGED <<lifecycle, pubkey, revision, secrets, history, vaultKey>>

(* A reset replaces the account's keypair, so every grant sealed to the old *)
(* one is deleted with it; refused while any organisation is being deleted. *)
ResetAccount(u) ==
    /\ pubkey[u] < MaxReset
    /\ role[u] # "none" => lifecycle = "active"
    /\ pubkey' = [pubkey EXCEPT ![u] = @ + 1]
    /\ grants' = WithoutGrant(u)
    /\ UNCHANGED <<lifecycle, role, revision, secrets, history, tokens,
                   vaultKey>>

-----------------------------------------------------------------------------
(* What the deletion lifecycle does to these tables: an accepted request    *)
(* freezes the organisation, recovery thaws it, the purge empties it.       *)

RequestDeletion(u) ==
    /\ lifecycle = "active"
    /\ role[u] = "owner"
    /\ lifecycle' = "deleting"
    /\ UNCHANGED <<role, pubkey, revision, secrets, history, grants, tokens,
                   vaultKey>>

FinishRecovery ==
    /\ lifecycle = "deleting"
    /\ lifecycle' = "active"
    /\ UNCHANGED <<role, pubkey, revision, secrets, history, grants, tokens,
                   vaultKey>>

(* Deleting the projects cascades to the environment and all of its rows.   *)
Purge ==
    /\ lifecycle = "deleting"
    /\ lifecycle' = "deleted"
    /\ role' = [u \in Users |-> "none"]
    /\ secrets' = [s \in Secrets |-> Absent]
    /\ history' = {}
    /\ grants' = [u \in Users |-> NoGrant]
    /\ tokens' = [t \in Tokens |->
                    [status |-> "none", creator |-> Creator, sealed |-> 0]]
    /\ UNCHANGED <<pubkey, revision, vaultKey>>

-----------------------------------------------------------------------------
(* Clients that send any well-formed request.  A member can only wrap under *)
(* a key that exists, and a rotation brings a fresh one.                    *)

Boxes(u) == [key : 0..vaultKey, to : {pubkey[u]}, seal : {0}]

SetBatches ==
    UNION {[D -> [ver : 1..MaxVersion, val : Contents, key : 0..vaultKey]]
              : D \in SUBSET Secrets}

SomeWrite(u) ==
    \E sets \in SetBatches : \E dels \in SUBSET (Secrets \ DOMAIN sets) :
        WriteSecrets(u, revision, sets, dels)

SomeGrant(u) ==
    \E target \in Users : \E sealed \in Boxes(target) :
        CreateGrant(u, target, sealed)

SomeRotation(u) ==
    \E holders \in SUBSET Users, ids \in SUBSET Secrets,
       versions \in SUBSET (Secrets \X (1..MaxVersion)),
       reseal \in SUBSET Tokens :
        Rotate(u, [base |-> revision, key |-> vaultKey + 1,
                   grants |-> [h \in holders |->
                                 [key |-> vaultKey + 1, to |-> pubkey[h],
                                  seal |-> 0]],
                   secrets |-> ids, versions |-> versions,
                   tokens |-> reseal])

SomeToken(u) ==
    \/ \E t \in Tokens : \E k \in 0..vaultKey : CreateToken(u, t, k)
    \/ \E t \in Tokens : RevokeToken(u, t)

SomeMembership(u) ==
    \/ \E target \in Users, r \in Roles \ {"none"} : AddMember(u, target, r)
    \/ \E target \in Users, r \in Roles \ {"none"} : UpdateMember(u, target, r)
    \/ \E target \in Users : RemoveMember(u, target)

Next ==
    \/ \E u \in Users :
        \/ revision < MaxRevision /\ SomeWrite(u)
        \/ revision < MaxRevision /\ vaultKey < MaxKey /\ SomeRotation(u)
        \/ SomeGrant(u)
        \/ SomeToken(u)
        \/ SomeMembership(u)
        \/ ResetAccount(u)
        \/ RequestDeletion(u)
    \/ FinishRecovery
    \/ Purge

Spec == Init /\ [][Next]_serverVars

-----------------------------------------------------------------------------
(* Properties *)

(* Key access follows membership: whatever mix of joins, removals, resets,  *)
(* shares and rotations ran, only a current member has a grant row          *)
(* (remove_member and rotate delete the others, a rejoin starts grantless). *)
GrantsOnlyForMembers ==
    \A u \in Users : grants[u] # NoGrant => role[u] # "none"

(* A live machine token answers to a current member: nobody who left keeps  *)
(* one they created (remove_member revokes them in the same transaction).   *)
TokensAnswerToMembers ==
    \A t \in ActiveTokens : role[tokens[t].creator] # "none"

(* An organisation is never left without an owner, whatever owners demote   *)
(* or remove each other (lock_owner_count and the last-owner guards).       *)
SomeOwner ==
    lifecycle # "deleted" => \E u \in Users : role[u] = "owner"

(* The current row of a secret is one of its retained versions, under the   *)
(* same key: what `history` and `rollback` read agrees with the snapshot,   *)
(* through sets, tombstones, resurrections and rotations.                   *)
CurrentRowInHistory ==
    \A s \in Present(secrets) :
        [secret |-> s, ver |-> secrets[s].ver, val |-> secrets[s].val,
         key |-> secrets[s].key] \in history

(* A version of a secret means one content for ever: two retained rows of   *)
(* the same secret and version are the same row.                            *)
OneRowPerVersion ==
    \A g, h \in history :
        g.secret = h.secret /\ g.ver = h.ver => g = h

(* Retained versions are never lost or altered before the purge: a step     *)
(* keeps the content of every version, whatever it does to the keys.        *)
HistoryKept ==
    [][lifecycle' # "deleted" =>
          \A h \in history : \E g \in history' :
              g.secret = h.secret /\ g.ver = h.ver /\ g.val = h.val]_serverVars

(* A rotation leaves nothing behind: whoever called it and however stale    *)
(* the view its request was built from, once it is accepted every row,      *)
(* every retained version, every grant and every live token is under the    *)
(* new key (the exact-cover checks of the rotate handler).                  *)
RotationRekeysEverything ==
    [][vaultKey' # vaultKey =>
          /\ \A s \in Present(secrets') : secrets'[s].key = vaultKey'
          /\ \A h \in history' : h.key = vaultKey'
          /\ \A u \in Users : grants'[u] # NoGrant =>
                                  grants'[u].key = vaultKey'
          /\ \A t \in Tokens : tokens'[t].status = "active" =>
                                  tokens'[t].sealed = vaultKey']_serverVars

(* A revision names one content: as long as it stays, so do the rows (the   *)
(* 304 answer of `snapshot` and the base check of `write_secrets` rely on   *)
(* it), and it never goes back.                                             *)
RevisionNamesContent ==
    [][/\ revision' >= revision
       /\ revision' = revision /\ lifecycle' # "deleted" =>
             secrets' = secrets /\ history' = history]_serverVars

(* While the organisation is being deleted no member-visible table changes, *)
(* whoever asks: only recovery and the purge move it on.                    *)
FrozenWhileDeleting ==
    [][lifecycle = "deleting" /\ lifecycle' = "deleting" =>
          UNCHANGED <<role, revision, secrets, history, tokens, vaultKey>>
             /\ \A u \in Members : grants'[u] = grants[u]]_serverVars

=============================================================================
