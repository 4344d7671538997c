-------------------------------- MODULE Billing --------------------------------
(***************************************************************************)
(* Billing of one organisation: Stripe's subscriptions and the events it   *)
(* sends about them, the webhook handler that turns events into the        *)
(* organisation's tier, and the quota checks that read the tier.           *)
(*                                                                         *)
(* Stripe delivers every event until it hears a success, possibly several  *)
(* times and in any order; event ids are not ordered by time.  A delivery  *)
(* is one transaction under the subscription's advisory lock, hence one    *)
(* step, except when it looks the subscription up: then the lock spans a   *)
(* provider call, during which everything else moves on.  A quota check    *)
(* and the insert behind it are two statements under the organisation's    *)
(* row lock.                                                               *)
(***************************************************************************)
EXTENDS Integers, Sequences, FiniteSets

CONSTANTS
    Subs,               \* Stripe subscriptions
    NoSub,              \* stripe_subscription_id IS NULL
    Hinted,             \* subscriptions whose metadata names the organisation
    EventIds,           \* event ids, ordered as strings are
    Moves,              \* how a subscription's status may change: [from, to]
    MaxClock,           \* bound on the seconds that pass
    Requests,           \* concurrent requests to add something: [kind, item]
    Limit               \* free-tier quota per kind

Statuses == {m.to : m \in Moves}

ASSUME BillingAssumption ==
    /\ NoSub \notin Subs
    /\ Hinted \subseteq Subs
    /\ EventIds \subseteq Nat \ {0}
    /\ MaxClock \in Nat \ {0}
    /\ "none" \notin Statuses
    /\ \A r \in Requests : Limit[r.kind] \in Nat

VARIABLES
    stripe,             \* status of every subscription at the provider
    clock,              \* the provider's clock, in seconds
    upgraded,           \* Stripe sends events of a newer API version
    events,             \* events emitted, in the order they happened
    heard,              \* events whose delivery Stripe has seen succeed
    checkouts,          \* checkout sessions the organisation has opened
    receipts,           \* stripe_webhook_events: "none", "pending", "processed"
    watermark,          \* stripe_subscription_watermarks
    lookup,             \* the reconciliation that holds a subscription's lock
    supported,          \* the newer API version is in the accepted list
    tier,               \* organizations.tier
    linked,             \* organizations.stripe_subscription_id
    lifecycle,          \* organizations.lifecycle_state
    finding,            \* the status a recovery has looked up, or "none"
    trial,              \* the trial is still running
    used,               \* members and projects that exist, per kind
    adding,             \* requests that hold the organisation's row
    effects,            \* how often an event has changed or settled the tier
    entitled,           \* the organisation has had the Team tier or a trial
    unseen              \* subscriptions the last recovery took no account of

providerVars == <<stripe, clock, upgraded, events, checkouts>>
deliveryVars == <<heard, receipts, watermark, lookup, supported, effects>>
orgVars == <<tier, linked, lifecycle>>
quotaVars == <<trial, used, adding>>
recoveryVars == <<finding, unseen>>
billingVars == <<providerVars, deliveryVars, orgVars, quotaVars, entitled, recoveryVars>>

-----------------------------------------------------------------------------
(* Values *)

EntitlementTier(status) ==
    IF status \in {"active", "trialing", "past_due"} THEN "team" ELSE "free"

(* What SubscriptionStatus::parse knows. *)
KnownStatuses == {"active", "trialing", "past_due", "incomplete", "paused", "unpaid",
                  "canceled", "incomplete_expired"}

Kinds == {r.kind : r \in Requests}

NoLookup == [event |-> 0, status |-> "none"]

NoMark == [created |-> 0, id |-> 0]

(* (created, id) pairs compare like rows do in SQL. *)
Newer(a, b) ==
    \/ a.created > b.created
    \/ a.created = b.created /\ a.id > b.id

Mark(i) == [created |-> events[i].created, id |-> events[i].id]

EventsOf(s) == {i \in DOMAIN events : events[i].sub = s}

(* Nobody holds the organisation's row. *)
RowFree == adding = {}

(* An event of s is decided: while the organisation is being deleted it     *)
(* counts for nothing, afterwards a decision makes up for what was missed.  *)
Notice(s) ==
    /\ unseen' = IF lifecycle = "active" THEN unseen \ {s} ELSE unseen \cup {s}
    /\ UNCHANGED finding

-----------------------------------------------------------------------------
(* Stripe *)

Emit(s, kind, status) ==
    \E id \in EventIds \ {events[i].id : i \in DOMAIN events} :
        events' = Append(events, [id |-> id, created |-> clock, sub |-> s,
                                  kind |-> kind, status |-> status,
                                  newer |-> upgraded])

(* A customer pays at a session this server opened. *)
CompleteCheckout(s) ==
    /\ Cardinality({t \in Subs : stripe[t] # "none"}) < checkouts
    /\ stripe[s] = "none"
    /\ stripe' = [stripe EXCEPT ![s] = "active"]
    /\ Emit(s, "checkout", "active")
    /\ UNCHANGED <<clock, upgraded, checkouts, deliveryVars, orgVars, quotaVars,
                   entitled, recoveryVars>>

(* Payments fail and recover, customers cancel. *)
ChangeStatus(s, status) ==
    /\ stripe[s] \notin {"none", "canceled", status}
    /\ [from |-> stripe[s], to |-> status] \in Moves
    /\ stripe' = [stripe EXCEPT ![s] = status]
    /\ Emit(s, IF status = "canceled" THEN "deleted" ELSE "updated", status)
    /\ UNCHANGED <<clock, upgraded, checkouts, deliveryVars, orgVars, quotaVars,
                   entitled, recoveryVars>>

Tick ==
    /\ clock < MaxClock
    /\ clock' = clock + 1
    /\ UNCHANGED <<stripe, upgraded, events, checkouts, deliveryVars, orgVars, quotaVars,
                   entitled, recoveryVars>>

(* The account's API version changes under the server. *)
Upgrade ==
    /\ ~upgraded
    /\ upgraded' = TRUE
    /\ UNCHANGED <<stripe, clock, events, checkouts, deliveryVars, orgVars,
                   quotaVars, entitled, recoveryVars>>

-----------------------------------------------------------------------------
(* The organisation's row *)

Entitle == entitled' = (entitled \/ tier' = "team" \/ trial)

(* A checkout names the organisation, a subscription's metadata may, and    *)
(* otherwise the organisation's link decides.                               *)
Concerns(e) == e.kind = "checkout" \/ e.sub \in Hinted \/ linked = e.sub

SetTier(t, link) ==
    /\ RowFree
    /\ IF lifecycle = "active"
       THEN tier' = t /\ linked' = link
       ELSE UNCHANGED <<tier, linked>>
    /\ Entitle
    /\ UNCHANGED lifecycle

SkipTier == UNCHANGED <<orgVars, entitled>>

(* checkout_completed, subscription_updated, subscription_deleted.  A status *)
(* the server does not know is left alone.                                  *)
ApplyPayload(e) ==
    CASE e.kind = "checkout" -> SetTier("team", e.sub)
      [] e.kind = "updated" /\ Concerns(e) /\ e.status \in KnownStatuses ->
            SetTier(EntitlementTier(e.status), linked)
      [] e.kind = "deleted" /\ Concerns(e) -> SetTier("free", NoSub)
      [] OTHER -> SkipTier

(* reconcile_subscription; here a status the server does not know is free.  *)
ApplyObservation(e, status) ==
    IF Concerns(e) THEN SetTier(EntitlementTier(status), e.sub) ELSE SkipTier

-----------------------------------------------------------------------------
(* The webhook *)

Id(i) == events[i].id

Accepted(i) == events[i].newer => supported

LockFree(s) == lookup[s] = NoLookup

(* Every delivery prunes receipts that are old enough, processed or pending, *)
(* but none a watermark names.                                              *)
Prunable == {id \in EventIds : /\ receipts[id] # "none"
                               /\ \A s \in Subs : watermark[s].id # id}

Pruned(old) == [id \in EventIds |-> IF id \in old THEN "none" ELSE receipts[id]]

(* Slips the runs notice: only the seconds are compared; only the ids are.  *)
OlderSecond(m, w) == m.created < w.created

BehindById(m, w) == m.id <= w.id

(* Not newer than what was applied last. *)
Behind(m, w) ==
    \/ m.created < w.created
    \/ m.created = w.created /\ m.id <= w.id

Tied(m, w) == m.created = w.created

(* A success that Stripe never hears of is one more reason to deliver an    *)
(* event again, and any event may be delivered again at any time.           *)
Answer(i) == heard' = heard \cup {Id(i)}

(* An unsupported API version: the receipt is left pending and the answer   *)
(* is an error, so that Stripe sends the event again.                       *)
Refuse(i) ==
    /\ ~Accepted(i)
    /\ \E old \in SUBSET Prunable :
          receipts' = [Pruned(old) EXCEPT
                         ![Id(i)] = IF @ = "none" THEN "pending" ELSE @]
    /\ UNCHANGED <<providerVars, heard, watermark, lookup, supported, effects,
                   orgVars, quotaVars, entitled, recoveryVars>>

(* A repeat, or an event older than what was applied. *)
Ignore(i) ==
    LET s == events[i].sub IN
    /\ Accepted(i)
    /\ LockFree(s)
    /\ \E old \in SUBSET Prunable :
          /\ \/ Pruned(old)[Id(i)] = "processed"
             \/ Behind(Mark(i), watermark[s])
          /\ receipts' = [Pruned(old) EXCEPT ![Id(i)] = "processed"]
    /\ Answer(i)
    /\ UNCHANGED <<providerVars, watermark, lookup, supported, effects, orgVars,
                   quotaVars, entitled, recoveryVars>>

(* An event newer than what was applied: its payload decides. *)
Apply(i) ==
    LET s == events[i].sub IN
    /\ Accepted(i)
    /\ LockFree(s)
    /\ ~Behind(Mark(i), watermark[s])
    /\ ~Tied(Mark(i), watermark[s])
    /\ \E old \in SUBSET Prunable :
          /\ Pruned(old)[Id(i)] # "processed"
          /\ receipts' = [Pruned(old) EXCEPT ![Id(i)] = "processed"]
    /\ ApplyPayload(events[i])
    /\ watermark' = [watermark EXCEPT ![s] = Mark(i)]
    /\ effects' = [effects EXCEPT ![Id(i)] = @ + 1]
    /\ Answer(i)
    /\ Notice(s)
    /\ UNCHANGED <<providerVars, lookup, supported, quotaVars>>

(* A tie with a greater id: ask Stripe, holding the subscription's lock.    *)
LookUp(i) ==
    LET s == events[i].sub IN
    /\ Accepted(i)
    /\ LockFree(s)
    /\ receipts[Id(i)] # "processed"
    /\ ~Behind(Mark(i), watermark[s])
    /\ Tied(Mark(i), watermark[s])
    /\ lookup' = [lookup EXCEPT ![s] = [event |-> i, status |-> stripe[s]]]
    /\ UNCHANGED <<providerVars, heard, receipts, watermark, supported, effects,
                   orgVars, quotaVars, entitled, recoveryVars>>

Reconcile(s) ==
    LET i == lookup[s].event IN
    /\ ~LockFree(s)
    /\ \E old \in SUBSET Prunable :
          receipts' = [Pruned(old) EXCEPT ![Id(i)] = "processed"]
    /\ ApplyObservation(events[i], lookup[s].status)
    /\ watermark' = [watermark EXCEPT ![s] = Mark(i)]
    /\ effects' = [effects EXCEPT ![Id(i)] = @ + 1]
    /\ lookup' = [lookup EXCEPT ![s] = NoLookup]
    /\ Answer(i)
    /\ Notice(s)
    /\ UNCHANGED <<providerVars, supported, quotaVars>>

(* The lookup fails or the server dies: the transaction is rolled back.     *)
LookupFails(s) ==
    /\ ~LockFree(s)
    /\ lookup' = [lookup EXCEPT ![s] = NoLookup]
    /\ UNCHANGED <<providerVars, heard, receipts, watermark, supported, effects,
                   orgVars, quotaVars, entitled, recoveryVars>>

(* A release that adds the version to the accepted list.  One made before   *)
(* Stripe sends such events is as if there were none.                       *)
Deploy ==
    /\ upgraded /\ ~supported
    /\ supported' = TRUE
    /\ UNCHANGED <<providerVars, heard, receipts, watermark, lookup, effects,
                   orgVars, quotaVars, entitled, recoveryVars>>

-----------------------------------------------------------------------------
(* Checkout and quotas *)

(* The organisation's row is held while Stripe opens the session. *)
CreateCheckout ==
    /\ RowFree
    /\ lifecycle = "active"
    /\ checkouts < Cardinality(Subs)
    /\ checkouts' = checkouts + 1
    /\ UNCHANGED <<stripe, clock, upgraded, events, deliveryVars, orgVars,
                   quotaVars, entitled, recoveryVars>>

EffectivelyTeam == tier = "team" \/ trial

(* A project that exists may be created again: clients send creates twice.  *)
WithinQuota(r) ==
    \/ EffectivelyTeam
    \/ r.kind = "project" /\ r.item \in used[r.kind]
    \/ Cardinality(used[r.kind]) < Limit[r.kind]

(* A slip the runs notice: the check is made without the row lock.          *)
AdmitUnlocked(r) ==
    /\ lifecycle = "active"
    /\ WithinQuota(r)
    /\ adding' = adding \cup {r}
    /\ UNCHANGED <<providerVars, deliveryVars, orgVars, trial, used, entitled,
                   recoveryVars>>

(* The check takes the row, the insert and the commit give it back.         *)
Admit(r) ==
    /\ RowFree
    /\ lifecycle = "active"
    /\ WithinQuota(r)
    /\ adding' = {r}
    /\ UNCHANGED <<providerVars, deliveryVars, orgVars, trial, used, entitled,
                   recoveryVars>>

Insert(r) ==
    /\ r \in adding
    /\ used' = [used EXCEPT ![r.kind] = @ \cup {r.item}]
    /\ adding' = adding \ {r}
    /\ UNCHANGED <<providerVars, deliveryVars, orgVars, trial, entitled, recoveryVars>>

Rollback(r) ==
    /\ r \in adding
    /\ adding' = adding \ {r}
    /\ UNCHANGED <<providerVars, deliveryVars, orgVars, trial, used, entitled,
                   recoveryVars>>

EndTrial ==
    /\ trial
    /\ trial' = FALSE
    /\ UNCHANGED <<providerVars, deliveryVars, orgVars, used, adding, entitled,
                   recoveryVars>>

(* A deletion request freezes the organisation (see OrgDeletion); what it   *)
(* records of the subscription is the link, which then stands still.        *)
Freeze ==
    /\ RowFree
    /\ lifecycle = "active"
    /\ lifecycle' = "deleting"
    /\ finding' = "none"
    /\ UNCHANGED <<providerVars, deliveryVars, tier, linked, quotaVars, entitled, unseen>>

(* A recovery looks the subscription up before it takes any lock, and tries *)
(* again if it does not know the status.                                    *)
LookUpForRecovery ==
    /\ lifecycle = "deleting"
    /\ linked # NoSub
    /\ stripe[linked] \in KnownStatuses
    /\ finding' = stripe[linked]
    /\ unseen' = unseen \ {linked}
    /\ UNCHANGED <<providerVars, deliveryVars, orgVars, quotaVars, entitled>>

(* Then it commits what it found.  Without a link it looks nothing up and   *)
(* takes the organisation to pay for nothing.                               *)
CommitRecovery ==
    /\ RowFree
    /\ lifecycle = "deleting"
    /\ linked # NoSub => finding # "none"
    /\ lifecycle' = "active"
    /\ tier' = IF linked = NoSub THEN "free" ELSE EntitlementTier(finding)
    /\ unseen' = IF linked = NoSub THEN {s \in Subs : watermark[s] # NoMark} ELSE unseen
    /\ finding' = "none"
    /\ Entitle
    /\ UNCHANGED <<providerVars, deliveryVars, linked, quotaVars>>

-----------------------------------------------------------------------------
(* Specification *)

BillingInit ==
    /\ stripe = [s \in Subs |-> "none"]
    /\ clock = 1
    /\ upgraded = FALSE
    /\ events = <<>>
    /\ heard = {}
    /\ checkouts = 0
    /\ receipts = [id \in EventIds |-> "none"]
    /\ watermark = [s \in Subs |-> NoMark]
    /\ lookup = [s \in Subs |-> NoLookup]
    /\ supported = FALSE
    /\ tier = "free"
    /\ linked = NoSub
    /\ lifecycle = "active"
    /\ trial \in BOOLEAN
    /\ used = [k \in Kinds |-> {}]
    /\ adding = {}
    /\ effects = [id \in EventIds |-> 0]
    /\ entitled = trial
    /\ finding = "none"
    /\ unseen = {}

Provider ==
    \/ \E s \in Subs : CompleteCheckout(s)
    \/ \E s \in Subs, status \in Statuses : ChangeStatus(s, status)
    \/ Tick
    \/ Upgrade

Deliver(i) == Refuse(i) \/ Ignore(i) \/ Apply(i) \/ LookUp(i)

Quota ==
    \/ CreateCheckout \/ EndTrial
    \/ \E r \in Requests : Admit(r) \/ Insert(r) \/ Rollback(r)

Deletion == Freeze \/ LookUpForRecovery \/ CommitRecovery

BillingNext ==
    \/ Provider
    \/ \E i \in DOMAIN events : Deliver(i)
    \/ \E s \in Subs : Reconcile(s) \/ LookupFails(s)
    \/ Deploy
    \/ Quota
    \/ Deletion

BillingSpec == BillingInit /\ [][BillingNext]_billingVars

-----------------------------------------------------------------------------
(* Properties *)

(* The variables' values; a watermark names a processed receipt, which the  *)
(* pruning in every delivery must leave in place.                           *)
BillingTypeOK ==
    /\ clock \in 1 .. MaxClock
    /\ \A i \in DOMAIN events : events[i].created \in 1 .. clock
    /\ heard \subseteq {events[i].id : i \in DOMAIN events}
    /\ receipts \in [EventIds -> {"none", "pending", "processed"}]
    /\ \A s \in Subs : lookup[s].event \in EventsOf(s) \cup {0}
    /\ \A s \in Subs : watermark[s] # NoMark
                          => receipts[watermark[s].id] = "processed"
    /\ tier \in {"free", "team"}
    /\ linked \in Subs \cup {NoSub}

(* Repeats, reorderings, lost answers, refusals and pruned receipts never   *)
(* let an event decide the tier twice.                                      *)
AppliedOnce == \A id \in EventIds : effects[id] <= 1

(* The watermark only moves forward, and an event moves it only if it is    *)
(* newer: an old event never overwrites a newer decision.                   *)
WatermarkForward ==
    [][\A s \in Subs : watermark'[s] # watermark[s]
                          => Newer(watermark'[s], watermark[s])]_billingVars

(* The last thing that happened to s, and whether it sorts last.            *)
LastOf(s) == CHOOSE i \in EventsOf(s) : \A j \in EventsOf(s) : j <= i

LastSortsLast(s) ==
    \A j \in EventsOf(s) \ {LastOf(s)} : Newer(Mark(LastOf(s)), Mark(j))

OnlySub(s) == \A t \in Subs : stripe[t] # "none" <=> t = s

AllHeard == \A i \in DOMAIN events : events[i].id \in heard

(* Once Stripe has heard of every event, an active organisation with one    *)
(* subscription has the tier that subscription pays for, if its last event  *)
(* sorts last and the server knows its status - after a deletion that was   *)
(* taken back as well, unless the recovery took no account of it: an event  *)
(* was used up between its lookup and its commit, or it looked nothing up   *)
(* because the events' order had left the subscription unlinked.            *)
TierSettles ==
    \A s \in Hinted \ unseen :
        /\ OnlySub(s) /\ AllHeard /\ LastSortsLast(s)
        /\ lifecycle = "active" /\ stripe[s] \in KnownStatuses
        => tier = EntitlementTier(stripe[s])

(* The same when the last event does not sort last: events of one second    *)
(* are ordered by ids that say nothing of time, and one with the smaller id *)
(* is ignored without a lookup.  The code does not keep it.                 *)
TierSettlesInAnyOrder ==
    \A s \in Hinted \ unseen :
        /\ OnlySub(s) /\ AllHeard
        /\ lifecycle = "active" /\ stripe[s] \in KnownStatuses
        => tier = EntitlementTier(stripe[s])

(* An organisation that was never entitled stays within the free quota,     *)
(* whatever requests race.                                                  *)
FreeQuota ==
    ~entitled => \A k \in Kinds : Cardinality(used[k]) <= Limit[k]
=============================================================================
