# Sotto in TLA+

Sotto is an end-to-end encrypted secrets manager: a CLI (and a web application)
keeps projects, environments and secrets in a local store, and a server
(`crates/server`, axum and PostgreSQL) stores and shares ciphertext it cannot
read. These modules model the parts where several actors touch the same state:
the sync server and its clients, the team and account commands of the CLI, the
local store, sign-in and share links, billing, Cloud coverage, and the staged
deletion of an organisation. Paths below are relative to `src/`.

## 1. Inventory

### Server (`crates/server/src`)

| Component | State | Operations | Must be correct | Module |
|---|---|---|---|---|
| Secret sync (`sync/secrets.rs`, `sync/access.rs`) | `environments.revision`, `secrets`, `secret_versions` | `snapshot` (ETag/304), `write_secrets`, `history` | optimistic concurrency by revision; a 304 hides nothing; versions are never reused, lost or changed | EnvServer, SyncClient |
| Grants and rotation (`sync/grants.rs`) | `environment_grants` | `create_grant`, `get_grant`, list holders, `rotate` | only members hold grants; a rotation leaves nothing under the old key | EnvServer, TeamClient |
| Machine tokens (`machine.rs`) | `machine_tokens` | create, list, revoke, two machine reads | a live token answers to a current member and is rewrapped by every rotation | EnvServer |
| Membership (`org.rs`) | `organizations`, `organization_memberships`, `org_name_keys` | create, add, invite, change role, remove | always an owner; removal takes grants and tokens along | EnvServer, Provisioning |
| Account keys (`account.rs`) | `users` (public key, wrapped secrets) | first upload, download, reset | the server only has material a device holds; a reset orphans no grant | Account |
| Projects and environments (`sync/projects.rs`, `sync/environments.rs`) | `projects`, `environments` | create, list | repeats are answered, a name means one environment | Provisioning |
| Entitlements (`entitlements.rs`) | `organizations.tier` (read) | creation-time quota gates | limits hold under concurrent creation | Billing |
| Organisation deletion (`org_deletion.rs`, `org_deletion_worker.rs`) | `organization_deletions`, `organizations.lifecycle_state` | request, retry, cancel, operator observation; worker: claim under a lease, billing cancellation, retention, purge, recovery | never purge against an accepted cancellation, before the deadline, or under a subscription that can still bill; always reach a decision | OrgDeletion |
| Billing (`billing.rs`) | tier, `stripe_*` columns, event and watermark tables | webhooks, checkout, provider lookup and cancellation | late, duplicated and reordered events do not undo newer state | Billing |
| Cloud coverage (`cloud_coverage*.rs`) | sources, coordinators, attempts, revisions, heads | register, begin and finish a collection, publish, load, evaluate | a snapshot speaks for all sources; a superseded attempt publishes nothing; the decision is the promised one at every instant | CloudCoverage |
| Share links (`share.rs`) | `share_links` | create, read (counts a view), revoke | view limits and expiry hold under concurrent readers | ShareLinks |
| Sign-in (`auth/*.rs`) | login states, codes, sessions | start, callback, exchange, logout | one login gives one session at most | SignIn |
| Audit, community, telemetry, health, configuration | append-only or none | | | not modelled |

Every mutating organisation handler authorises without a lock, then opens a
transaction, takes the `organizations` row `FOR UPDATE`, repeats the checks
(`access_for_update`) and commits. Handlers of one organisation are therefore
serialised; the deletion worker locks the same row when it commits an outcome,
but calls the billing provider with no lock held.

### Client (`crates/cli/src`, `crates/core/src`)

| Component | State | Operations | Must be correct | Module |
|---|---|---|---|---|
| Sync client (`remote/sync.rs`) | `sync_state.synced_revision` | `pull`, `push`, `adopt_rotation`, history, rollback; `ensure_project_env` | no lost update, no stale key, resumable after any failed request | SyncClient, Provisioning |
| Team commands (`remote/team.rs`) | none of its own | `clone`, `share`, `rotate`, member removal, tokens | who is removed leaves without the key; who stays keeps it | TeamClient, Provisioning |
| Local store (`store.rs`, `vault.rs`) | SQLite: environments, secrets, versions | set, import, copy, roll back, remove | no write overwrites one unseen; one row per name | LocalVault |
| Session and keychain (`session.rs`, `keychain.rs`) | OS keychain, identity rows | init, reset, setup, unlock, lock | the two stores agree after a crash | Account |
| CLI sign-in (`remote/auth.rs`) | keychain `server-session` | login over a loopback listener | a redirect of another run is not taken | SignIn |
| Commands (`main.rs`, `commands.rs`) | `sotto.toml` | order the steps of the above | a configuration reported usable resolves | Provisioning and the above |
| Core cryptography | none | wrap, seal, derive | taken as ideal here | not modelled |

### What is hard to test

Interleavings of two clients' request sequences with a rotation, lost replies,
a snapshot read by two statements, a worker that outlives its lease, provider
replies lost after the effect, webhooks during deletion, retries of a failed
purge, two terminals writing keychain and store, commands that stop half way and
are run again, browsers that replay a callback, collections during which a source
is registered. `PROJECT.json` lists each at its line under `hazards`, with the
properties that cover it or the reason why none does.

## 2. Modules

    DeletionLifecycle   what deletion promises (abstract)
      ^ implemented by
    OrgDeletion         operation row, workers, provider, webhooks, clock
    EnvServer           the sync server of one organisation
      SyncClient          devices; EXTENDS EnvServer and calls its actions
      TeamClient          administrators; EXTENDS EnvServer and calls its actions
    Account             key material on the server, in stores and keychains
    LocalVault          processes editing the secrets of one local store
    Provisioning        organisations, projects, environments, configurations
    SignIn              logins, codes, sessions, the loopback listener
      ShareLinks          share links; EXTENDS SignIn for the sessions
    Billing             events, watermarks, tier, quotas
    CoverageFacts       evaluation of coverage facts (pure)
      CloudCoverage       sources, collections, revisions
        implements CoverageService   what the store promises (abstract)

`MC<module>` instantiates a module for TLC. `<module>Proofs` holds its theorems,
except that those of Account, SignIn and ShareLinks are in IdentityProofs and those
of Billing and Provisioning in OrganisationProofs.

### EnvServer

One organisation with one shared environment. The variables are the tables:
`role` (memberships), `pubkey` (generation of each account's keypair),
`revision`, `secrets` (tombstones included), `history`, `grants`, `tokens`,
`lifecycle`. Each handler is one action, guarded by the checks it makes under
the organisation lock; that is sound because the lock serialises the handlers
and what they did before taking it is only a refusal. `vaultKey` is a history
variable: the number of the key of the last accepted rotation.

The server is zero-knowledge, so a ciphertext is kept as its content and the
number of the key it is wrapped under, and a sealed box as the key inside, the
public-key generation it is sealed to, and a sealing number (two sealings of
one key differ as bytes, which is what `grant_changed` compares). No guard of
the server looks inside one. Under its own specification `Spec`, EnvServer is
driven by clients that send any well-formed request, with any rows, ids, holders
and old keys. A personal project is the case of one member.

Reading the snapshot is not an action here: it is two statements, and
SyncClient takes them as two steps.

### SyncClient

Devices, several of them possibly of one account, each with its store
(`local`), the grant in it (`vault`), `synced` and the command it is running
(`op`, whose `pc` names the next step). One action per request or local
statement of `pull` and `push`; between any two of them other devices,
rotations, shares, crashes and edits of the same store may fall. `Abort` stands for a
crash, a transport error and a lost reply alike: at `ack` the write has been
applied and its reply is lost. A snapshot is merged row by row, and each row in two
steps: `FindRow` reads the row and decides whether the server wins, `PutRow` replaces
it, whatever another terminal has made of it since. `Diff` reads the store once, and
what is posted is what was there then (`mine`).

A device runs one `pull` or `push` at a time, which is a bound of the model and not
a lock of the code; `set`, `rm` and `rollback` of its other terminals are not bounded
so and are one step each (LocalVault takes races between edits apart).

Names are ciphertext, so finding a secret by name means decrypting rows;
`CanFind` says when `set`, `delete` and `rollback` find theirs. New secrets get
fresh ids (UUIDs): `Unused`. `share` and `rotate` are single
steps here, made with the key the code makes them with: the caller's local key
for shares, the grant fetched from the server for rotations.
TeamClient takes them apart.

### TeamClient

Administrators running `rotate`, `org remove`, `grant` and `token create`, one
request at a time over the same server. A command is a record `cmd[u]` whose
`at` names the next request; what it has read (`held`, `members`, `holders`,
`rows`, `tokens`) is in the record and may be stale when it is used, public keys
included, which `rotate` reads once before its retry loop. `Abort` ends a command
at any point. `since` collects whom a share, an invitation or a reset touched
while the command ran, so the properties can name their exceptions; `held` is a
history variable of the keys a member was ever given: by a grant, or by a machine
token the member made, which opens what a rotation reseals to it (`TokenKeys`) and
outlives a reset. Since the rotation of a removal reseals the target's own tokens and
only the DELETE revokes them (`team.rs:386-389`), a member with a token that holds the
key in force is an exception of `RemovalLeavesNoKey`, beside a new grant, invitation or
reset of the target or the remover while the removal runs. `RemovalLeavesNoKey` speaks of
the removal whose own last request goes through (`cmd'[u] = Idle`): of two owners
removing the same member, the one that comes second finds nobody to remove and
promises nothing about the key.

### Account

One account over devices with a store and a keychain each, and several terminals
per device. An identity (salt, secret key, key pair, recovery blob, made together
by `reinit`) is a number. Each storage operation and each request of `init`,
`reset`, `setup`, `unlock`, `lock` and of the account part of `push` is a step;
between two of them a crash, a failing store or keychain, a refused or lost
request, or another terminal may fall. What is sent to the server is read in two
statements, the identity row with the salt (`ReadSalt`) and the account keys
(`ReadKeys`), and leaves in a third step (`SendReset`, `EnsureAccount`); the salt of
one identity beside the keys of another is the bundle `Mixed`, which opens for nobody.

A `reset` of another terminal of the same device that writes in between puts such
material, or material no device holds any more, on the server, and its Emergency Kit is
not that of the account. The code does nothing against it. `ServerKeyIsHeld` therefore
excepts exactly this overtaking (`crossed`, a history field of the command), and devices
where a reset was cut short or two commands made keys at once; it speaks of every other
mix of `init`, `setup`, `unlock`, `push`, failures and crashes.

### LocalVault

Processes running `set`, `import`, `rollback`, `env copy` and `rm` on one SQLite
file. Finding the row of a name is one step (rows are read and decrypted), the
write by id another, as in the code, which takes no transaction around both.
Versions are compared when written; a process that lost the race stops with the
code's conflict error.

### Provisioning

`org create`, `org invite`, `init`, the structural requests of `push`, `share`,
`clone`, `setup`, and changes of role, of the machine and of membership. A
command is several requests and several statements on the local store; it may
stop after any of them (`Stop`) and be run again. Handing out an environment and
handing out the organisation's name key are two requests. An environment has an
id and a name; the name a device shows is the one it could decrypt, or `Shared`
when the request for the organisation key failed. `ready` is the configuration
the device last reported as usable. `clone` takes the ids `share` prints, with or without
`--org`, and any name after `--as` (`CloneOptions`); such a name replaces the one found,
hides the environment that has it from that device, and is what `DevicesAgree` excepts:
`renamed`, a mark the code does not store.
`PushElsewhere` stands for a push of another project, which uploads the account.

`deleting` is the lifecycle flag: while a deletion is in progress the structural requests
answer 409, invitations, grants and role changes are refused, and reads go on; a recovery
clears it. The purge, after which no member is left, is in OrgDeletion.

### SignIn and ShareLinks

Flows are runs of `sotto login`, "web" a login in the browser. The callback and
the exchange are two statements each, the row consumed first and the code or the
session inserted later; requests that consumed a row may stop there. Browsers may
repeat a callback, redirects of a run that gave up reach whichever run listens on
the port now, answers are lost, and whatever expires is removed. ShareLinks adds
the links: a view is counted in one statement (`views < max_views`), and its
content is on the way when the link is revoked, expires, or the reader goes away.

### Billing

Stripe's subscription changes status and emits events with ids, a time in
seconds and an API version; it delivers each until it hears success, in any order.
A delivery is one transaction under the subscription's advisory lock, except when
the event ties with the watermark: then the provider is looked up with the lock
held and everything else going on. Receipts may be pruned, checkout links a
subscription. Requests for projects and members check the quota and insert under the
organisation row's lock. `Moves` says how a subscription's status may change, to a status
the server does not know too: an event with one is ignored, a lookup with one gives the
free tier, as in the code. Stripe keeps a canceled subscription, so a lookup finds it.

A deletion request freezes the organisation (`Freeze`), and events are then used up
without effect. A recovery looks the linked subscription up before it takes a lock
(`LookUpForRecovery`), and commits the tier of what it found (`CommitRecovery`), or the free
tier without a lookup when nothing is linked. `unseen` is a history variable: the
subscriptions with events that were used up while the organisation was frozen and that
no lookup before the commit, and no event after it, made up for. `TierSettles` is about
the others, in organisations that never were deleted and in those that came back.
The workers, leases and states of the deletion are in OrgDeletion.

### CoverageFacts, CloudCoverage and CoverageService

CoverageFacts translates the evaluation: sorted, merged episodes, the decision
inside and after one (`Evaluate`), beside the same decision instant by instant
(`PromisedAt`). The loop over the sorted list is a fold over the set of intervals
that absorbs the final one (`Final`, by the order the code sorts with) into what the
others have been merged to, which is the same and can be reasoned about: nothing can
be proved of TLC's sort. CloudCoverage has the tables; every call is one transaction under
the coordinator's or the head's row lock, the provider calls lie between begin
and finish, and every call may be repeated after its answer was lost.
CoverageService is the abstract specification: an append-only ledger per person
in which an operation occurs once, a registration withdraws the coverage in the
step that adds the source, and a collection publishes, in one step, a snapshot of
exactly the sources the person then has.

### OrgDeletion and DeletionLifecycle

`del` is the newest row of `organization_deletions`, with the columns the code
tests; `work[w]` is a server instance's deletion worker: the lease it holds and
how far it has got with it. A worker claims the row (`Claim`), calls the
provider (`Lookup`, `CancelAtProvider`, `Relook`, one action per call), and
commits the outcome by compare-and-set on `state_version` (`Settle`). Only
equality with the current version is ever tested, so a worker keeps a flag
`current` instead of a number, and each accepted update of the row makes all
other workers stale. `ConstraintsHold` is the row's CHECK constraints: an
update that breaks one fails, which ends the worker's round with the lease left
in place.

The provider's statuses are grouped as `purge_gate` and `entitlement_tier` tell
them apart. A call answers with the present status or fails; a cancellation may
take effect and its reply be lost. The provider changes subscriptions on its own
and each change may produce one webhook, delivered at any later time, with the
status of then: older events are ignored by `event_created` watermarks.

Time is counted in ticks: deadlines as the ticks left (`wait`), the billing observation
as its age. `owed` is a ghost of the row: what is left of the window the request
announced, which only time uses up, so that a retry that shortens the deadline shows
in `PurgeAfterRetention`. The clock stops when there is no open operation.

`DeletionLifecycle` is the abstract specification: a request means to delete, an
accepted cancellation means to keep, only what is meant to be deleted is purged,
and only recovery follows a cancellation. OrgDeletion instantiates it with
`intent <- Intent`, computed from the row.

## 3. Runs

All bounds are CONSTANTS in the `.cfg` files. Deadlock checking is off except in
`local`: version, revision, rotation, identifier and retry bounds end behaviours
that the program would continue, and a deleted organisation really is the end.

| Run | Question | Bounds, and why they are enough |
|---|---|---|
| `server` | grants, tokens, ownership, rows, history, keys and revision stay consistent under any mix of requests | two users (an actor and a target, either of whom may be the owner or an administrator), two secrets (one a batch has and one it leaves out), two versions, two contents, one token, two accepted changes of which one may be a rotation, one reset |
| `sync` | a 304 hides nothing; the grant check holds at commit; a push replaces only what its device had merged; no push takes a secret back | two devices of two users, who both push; a secret with two versions of one content (what a version holds is told apart by its number and key), edits at any point; three accepted changes, so that a write may precede and follow a rotation; one sealing (a rotation or a share, by the owner), two attempts per push |
| `team` | a removed member leaves without the key; a rotation keeps everybody else's access | an owner who removes, an administrator who rotates, shares, writes and makes a machine token, a member who may reset; the owner may remove either; two rotations, so that one command's rotation falls between another's requests; two attempts |
| `account` | an initialised device unlocks; the server gets only material that is held | two devices, one with two terminals, none initialised at the start; two identities, so that what one command made is replaced or overtaken by another, from the same device or the other |
| `links` | one session per login; views bounded | two users, two flows that meet on a port, five rows over logins, codes and sessions; one link of up to two views, the least at which readers race for the last one |
| `local` | no write overwrites one unseen; one row per name | two processes, two environments (copy needs both), one name, two values, two rows of three versions |
| `provisioning` | configurations resolve, devices agree on names, structural pushes go through | a founder and a newcomer, one project, two environments, one key pair each (resets are the subject of Account and TeamClient); clones with `--org` and the name found, and without it and with `--as` the name of the other environment |
| `coverage` | the store implements its service; evaluation is the promise | two people who claim each other's source, three bindings, two registrations, two attempts, a direct publisher; answers with gaps, overlaps, touching intervals, failed renewals and contradictions, evaluated at every instant up to nine, the end of time, past which the recovery of a late interval runs |
| `billing` | no event decides twice; watermarks go forward; the tier settles; the quota holds | one subscription that fails, recovers, is canceled or takes a status the server does not know; three events in two seconds, so that two tie and one is newer; deletions and recoveries at any time; a quota of one project and two requests (the member gate is the same guard; the theorem has both) |
| `deletion_safety` | the lifecycle implements its promise; nothing is purged against the gates | three servers, one without billing credentials, of any speed: a worker may stay in the middle of a call for ever, which is as good as a crash; one subscription; leases of one tick, a window of one tick, an observation fresh only within the tick it was made in, so that leases expire, observations go stale and deadlines pass during calls |
| `deletion_live` | every operation under way is decided | two servers, a crash, one retry step, a provider that may fail for ever |
| `sync_stale_key` | a statement of the code's own comments that does not hold, see section 6 | the smallest instance that shows it |

Contents, values, identifiers, terminals of one device, users other than the
creator, and servers of one configuration are interchangeable; runs without
liveness use that symmetry.

### Fairness

Only `deletion_live` uses fairness. `WF_vars(WorkerStep(w))`:
`org_deletion_worker::run` is an endless polling loop, and every provider call
has a timeout. `WF_vars(PromptTick)`: clocks run. `PromptTick` restricts time
rather than the workers: a lease is five minutes and a provider call ends within
seconds, so a live worker has finished before its lease is over (a crashed one
has not). Without that assumption two workers that are both always too late could
take the row from each other for ever. Safety runs use the plain `Tick`, with no
such assumption. `Decided` does not hold once an operator's observation can
precede a cancellation (section 6), which is why the run has the operator endpoint
off (its default: the token is unset).

The commands of the CLI have no liveness to state: they run when their user runs
them, and give up after a bounded number of attempts.

## 4. Proofs

Theorems hold for all values of the constants, under the named ASSUMEs of the
modules: well-typed bounds, the creator is a user, null values are no data, a
retry ladder that is not empty, a recovery period that is positive, reports that are finite lists of
dated intervals, and a provider that does not revive an ended subscription.

**EnvServerProofs.** `TypeCorrect`, then the invariant `Inv`: types, grants only
for members, tokens answer to members, an owner, current row in history, one row
per version. The membership parts are inductive with the types alone; the row
part and the one-row-per-version part need each other, since a set must not
collide with a retained version and a rotation must rewrap rows and versions
alike. The action properties `RotationRekeysEverything`, `HistoryKept`,
`RevisionNamesContent` and `FrozenWhileDeleting` follow step by step from it.

**SyncClientProofs.** The inductive invariant is `SyncInv`: types and, for each
device, `DeviceKnows`: what the rows a command has read say of the server of the
revision it named, whether the server moved on or not, at each `pc`, and what an
applied row has done to the store. It is what carries a device through the
two-statement snapshot, the conflict and the acknowledgement. From it follow
`SyncedCoversServer`, `CommitUnderCheckedKey`, `VersionsMoveForward` and
`NothingReplacedUnseen`, for any number of devices, secrets and attempts. Edits in the middle
of a merge only raise the versions it has reached; a row that `PutRow` takes back is taken
back to the snapshot's version, which is why the merged rows stay at or above it.

**TeamClientProofs.** A command acts on lists it read several requests ago. `TeamInv`
says what they are still good for, with `since` naming whoever a share, an invitation
or a reset touched meanwhile. A rotation about to be posted (`RotationKnows`) has the
present public key of every listed member, and whoever holds a grant is among its
holders: that is `RotationKeepsAccess`, since an accepted rotation seals the new key
to exactly those. A removal at its last request (`RemovalKnows`) found the member or
the remover without a grant. Without a grant the member does not know the key in force
(`KnowingHold`: only a rotation, a reset or a removal takes a grant away, and each
leaves its holder with an old key or with none that counts); with a remover who has
none, the server accepts the removal only if nobody who stays has a grant. Either way
`RemovalLeavesNoKey`. Machine tokens are the second way to a key: a member who knows one
in force holds a grant or made a token sealed with it (`HasToken`), which is the exception;
no other token matters, since tokens answer to members (`TokensAnswerToMembers`) and
nothing is sealed with a key nobody has made yet (`SealedUnderMade`). The server's own steps come from EnvServerProofs.

**IdentityProofs, Account.** `NoHalfInit` is not inductive, since a command between its two
writes may leave the device as it finds it. `AccountInv` adds what such a command
knows (`MakerOK`): it is alone on an undisturbed device, after its first write the
keychain has its secret key, and unless it is a reset the store is still empty.
`ServerKeyIsHeld` needs what a command carries from its writes through both reads to the
request: unless a reset crossed it, or is between its writes, store and keychain still
have the identity it wrote or read (`CarryOK`). A `setup` on the device finds it
initialised, an `unlock` writes neither, and whoever makes keys beside another disturbs
the device.

**LocalVaultProofs.** `VaultInv`: history is complete and single-valued, and a
version some process found and nobody superseded still has the value found with
it, because only a removal changes a row without a new version and a removal
leaves the value. That is what makes the comparison of versions enough for
`NothingOverwritten`. `OneSecretPerName` adds what a command that has the store to
itself knows of the names it has looked up.

**IdentityProofs, SignIn and ShareLinks.** For `LoginOnce`: a login is in one place, its row, a
callback that consumed it, a code, an exchange that consumed that, or a session
(`OnePlace`), and each statement moves it on. For `ViewsBounded` (`LinkOK`): views
received and on their way never exceed those granted, and none is granted after
the link was closed.

**OrganisationProofs, Billing.** The argument is the watermark. `WebhookInv`: whatever was
decided, marked processed or reported to Stripe has been passed by the watermark of
its subscription, so that a repeated event whose receipt was pruned is recognised
as old, and an event being looked up, under the lock, has not been passed. From it
`AppliedOnce` and `WatermarkForward`. `TierInv` adds that the newest event
carries the status Stripe has and that, once the watermark is at it, the tier is what
that status pays for (while the organisation is deleting: that what a recovery has found
is that status), or the subscription is unseen, which gives `TierSettles` (`Settled`). A
status found stays that of the newest event unless another is emitted, and one that is
used up before the recovery commits makes the subscription unseen. `QuotaInv`, that requests between check and
insert exclude each other by the row lock, gives `FreeQuota`.

**OrganisationProofs, Provisioning.** `ConfigResolves` says that an environment is found
by name, and found once. The second half is the point: `init` inserts its default
environments without looking, every other command checks the name first, and two
terminals may be at it at once. `ProvisioningInv` says who can know of a project. While
`init` inserts (`InsertingAlone`) no configuration of the project is committed, no other
terminal makes it, and what is in the store is exactly the labels already done; so no
push, share, `setup` or clone is about it, and its names are free unchecked. From the
commit on, whatever a command is about is announced (`AboutAnnounced`), and every name
that was not given with `--as` comes from the label, the id or is "shared" (`WellNamed`),
which is `DevicesAgree`: a readable name is a function of the environment. `PushGoesThrough` needs of the invariant
only what a push is about; the work is to show that each of the three requests, refused,
leaves one of the excuses, and that no other step stops a push (`WhoStops`).

**CloudCoverageProofs.** `CoverageInv`: generations number a person's sources
without reuse, so an attempt's bindings are the sources of its generation however
many come later; a revision named after an attempt means a completed attempt; a
head named after an attempt means no source came after it. From it the corruption
checks (`StoredRowsValid`), `RegistrationsValid`, `HeadCoversSources`, and the
refinement `AtomicCollections`, in which the ledger entry of a collection is
computed from the attempt's bindings and shown never to change again.

`EvaluationAgrees` is about the pure evaluation. Of the loop: what it has made of the
intervals so far (`MergedOK`) are episodes with gaps between them, every interval lies
within one, and every instant of one lies within an interval (`AbsorbKeeps`, one turn;
`MergedIsOK`, all of it). So episodes are the maximal stretches of covered instants, the
end of the current one is the first uncovered instant, and the end of the last one
follows the last covered instant (`EpisodesAre`, `EpisodeEnds`, `LastEnded`), from
which the two decisions are the same case by case, with the integer arithmetic at
the bounds (`EvaluationIsPromised`, for any finite set of facts). The inductions on
the number of intervals are by the least element of a set of naturals
(`SetInduction`), as the induction theorems of the library have an operator
parameter. What is published stays finite and dated, so the theorem applies to
whatever a reader loads.

**OrgDeletionProofs.** The inductive invariant `Inv` has three parts: what the
row stores (`GoodRow`: constraints hold, the purge is past its deadline, a gate
stored as over is over at the provider), what a worker relies on (`GoodWork`: a
current worker sees what it claimed; a final answer that says over is true
however old), and agreement of the lifecycle flag with the row. The second part
is needed because workers act on answers long after the row has moved on. From
it: `TypeOK`, `LifecycleAgrees`, `PurgeConfirmed`, `PurgeAfterRetention`,
`BillingFrozen`, and the refinement `KeepsPromise`.

Only model-checked: liveness (`Decided`), which is out of the prover's reach. The
statements of section 6 are refuted, or not checked by a run, and have no theorem.

What the proofs corrected in the models: the recovery period, which must not be zero
(an empty recovery interval would start an episode that covers nothing); the exact case `LeavesWithKey` is about (above);
`TeamAssumption`, that the null grant is no grant; and the server's answers in
Provisioning (`ProjectReply`, `EnvReply`), whose cases overlapped and are now taken in the
order of the code's checks. TLC had agreed with the earlier forms, since its instance has
one remover and takes the first case that applies.

## 5. What is left

1. Removal of a member from several environments, one rotation after the other.
2. Different key pairs of one user in Provisioning (`MaxKeys` above 1): a machine
   replaced between an invitation and the set-up.
3. The lock order of `reset_account` over several organisations: below the grain
   of these models, which take a handler's transaction as one step.

## 6. Divergences

Where the code does other than a comment or a document says. The first has a run;
the others were met while modelling and are stated as properties of their modules
that no run checks (the name in front; TLC refutes each on an instance like the
module's own), or seen in the code alone.

- `TeamCanDecrypt`, run `sync_stale_key` (`sync.rs:109`): a secret created before
  a rotation and pushed after adopting the new grant is uploaded under the
  retired key; the grant check passes.
- `RefusedPushCanPull` (`sync.rs:112`): a push refused because of a rotation has
  already stored the new revision (97), so the pull it recommends is a 304.
- `SyncedRowsOpen` (`sync.rs:38-39`): the forced refresh of rewrapped rows happens
  once, with the snapshot read before the grant; a crash or a rotation in between
  leaves rows of equal version under a key the device no longer has.
- `PushUploadsLocalChanges` (`sync.rs:79-80`, `main.rs:139`): two devices that set
  the same next version; the second push reports success and uploads nothing.
- `RecoveryEnds` (`docs/ORGANISATION-DELETION.md:544`): cancelling after an
  operator observation can never recover (`org_deletion.rs:1146`); every attempt
  violates the observation-actor CHECK.
- `FailedPurgeResumes` (`docs/ORGANISATION-DELETION.md:149-150`): a purge that
  failed on a stale observation fails on every retry, since nothing looks the
  subscription up again.
- `TierSettlesInAnyOrder` (`docs/ORGANISATION-DELETION.md:366-368`): two distinct events
  with the same timestamp are to trigger a lookup. The second one to arrive does not when
  its id is the smaller: it is ignored, and the tier stays at what the first one said.
- A recovery may bring a stale tier back (`org_deletion.rs:643-695`, `1122-1190`): an event
  used up between its lookup and its commit is not looked up again, and an organisation whose
  link was never written, because an event overtook the checkout (`billing.rs:1067`), is set
  to the free tier unasked. `TierSettles` excepts both by `unseen`; without any of its
  clauses TLC refutes it.
- `RemovedCannotRead` (`team.rs:377-378`): a grant made to the member, or to the
  remover, while the removal runs lets the member leave with the key in force; so does
  a machine token of the member's own until the DELETE, as the comment at 386-389 says.
- `MergeTakesOnlyNewer` (`sync.rs:225-226`): "server wins on a strictly newer version" is
  decided in one statement and done in another; a `set` of another terminal in between is
  overwritten (`store.rs:554-590`), and its version is used up for another content.
- The Emergency Kit a `reset` prints (`main.rs:1041`) is not that of the account when
  another terminal's `reset` falls between its storage, the two reads of
  `account.rs:57-66` and the request (`crossed` in Account).
- `NoDuplicates` (`vault.rs:93-95`): two commands that overlap may both find no
  row of a name and both insert one.
- `ClonedAsAsked` (`team.rs:199-220`, `main.rs:913`): a second environment cloned
  while the request for the organisation key fails is named "shared" like the
  first, and the configuration then resolves to the first.
- `sync.rs:156-158` says the master key encrypts names only when no copy of the
  organisation key is held; any failed request has that effect.
- `docs/ORGANISATION-DELETION.md:467-470`: an event of another API version is
  "recorded and acknowledged"; the handler refuses it.
- `main.rs:1001`: "Require a working login first" checks that a token is stored.
- The sign-in callback's "never an orphan session" holds for logins abandoned
  before the exchange, not for an exchange whose answer is lost.
- A `setup` cut short after it restored the identity cannot be run again
  (`AlreadyInitialized`), and `clone` refuses while `sotto.toml` exists.

Behaviours worth knowing that contradict nothing written: two overlapping `init`s
may leave keychain and store with different identities, and so may a `reset` whose
store write fails, since the old secret key is gone by then (both are the
exemption of `NoHalfInit`); `ensure_account` takes a 409 as success whatever
identity the server has (`sync.rs:142-144`); a `reset` whose upload was applied and
not answered never prints its Emergency Kit; `rm` may delete a version its user
never saw; the CLI's logout does not revoke the session.

## 7. Not modelled, and why

Cryptography is ideal: a ciphertext opens exactly under its key. Audit rows,
metrics, telemetry, rate limits, HTTP encoding, themes, the clipboard helper and
presentation are left out: nothing decides anything from them. The machine runner
and the transport are request plumbing; their status mapping is built into the
clients. The web application is a second client of the same server; the CLI is the
one modelled. The customer portal and webhook signatures are the provider's. An
operator's evidence is taken to be true; the server cannot check it. Deadlocks
between row locks are below the grain: a transaction is one step.
