----------------------------- MODULE OrgDeletion -----------------------------
(***************************************************************************)
(* The staged deletion of one organisation: the owner's request and        *)
(* cancellation, the background workers that carry the operation through   *)
(* billing cancellation, retention and purge (or through recovery), the    *)
(* operator's billing observation, and the organisation's billing record.  *)
(*                                                                         *)
(* A worker claims a due operation under a lease, calls the billing        *)
(* provider WITHOUT a lock, and applies the outcome by compare-and-set on  *)
(* state_version.  Only equality with the current version is ever tested,  *)
(* so a worker remembers whether its version is still `current`; every     *)
(* update of the operation makes the other workers' versions stale.        *)
(*                                                                         *)
(* Time is counted in ticks.  Deadlines are kept as the ticks left until   *)
(* them (0 is "due", as is a NULL), the billing observation as its age.    *)
(***************************************************************************)
EXTENDS Naturals, Sequences

CONSTANTS
    Workers,            \* server instances that run the deletion worker
    Subs,               \* subscriptions at the billing provider
    NoSub,              \* no linked subscription
    Configured,         \* the servers that have billing credentials
    OperatorEnabled,    \* whether the operator endpoint has its token
    ProviderMoves,      \* status changes the provider makes by itself
    RetryDelays,        \* RETRY_DELAYS
    LeaseTime,          \* how long a claim keeps other workers away
    FreshTime,          \* BILLING_OBSERVATION_MAX_AGE
    RetentionTime,      \* the recovery window
    MaxCrashes          \* bound on worker crashes

ASSUME TimeAssumption ==
    /\ LeaseTime \in Nat \ {0}
    /\ FreshTime \in Nat
    /\ RetentionTime \in Nat
    /\ RetentionTime > FreshTime
    /\ MaxCrashes \in Nat

ASSUME RetryAssumption == RetryDelays \in Seq(Nat) /\ Len(RetryDelays) > 0

ASSUME ConfigAssumption ==
    /\ NoSub \notin Subs
    /\ Configured \subseteq Workers
    /\ OperatorEnabled \in BOOLEAN

(* A subscription that is over never comes back, and none is undone.        *)
ASSUME MovesAssumption ==
    \A move \in ProviderMoves :
        move[1] \notin {"ended", "missing"} /\ move[2] # "none"

VARIABLES
    life,       \* organizations.lifecycle_state
    tier,       \* organizations.tier
    linked,     \* organizations.stripe_subscription_id
    del,        \* the newest row of organization_deletions
    work,       \* what each worker is doing
    stripe,     \* the provider's status of each subscription
    notice,     \* subscriptions whose last change has an undelivered webhook
    crashes     \* worker crashes so far

orgVars == <<life, tier, linked>>
stripeVars == <<stripe, notice>>
vars == <<orgVars, del, work, stripeVars, crashes>>

-----------------------------------------------------------------------------
(* Types *)

Working == {"requested", "cancelling_billing", "retention", "purging",
            "recovering"}

(* NOT IN ('cancelled', 'completed') *)
Open == Working \cup {"failed"}

(* SubscriptionStatus, as far as gate and tier tell statuses apart: paying  *)
(* is active, trialing or past_due; unpaid is incomplete, paused or unpaid; *)
(* ended is canceled or incomplete_expired.                                 *)
Statuses == {"none", "paying", "unpaid", "ended", "missing"}

(* A provider call may fail: with an authentication error, or in a way that *)
(* is retried (transport, 5xx, a status the adapter does not know).         *)
Failures == {"auth", "retry"}

Tries == 0..(Len(RetryDelays) + 1)

(* `wait` is purge_after; `owed`, which no code reads, is what is left of   *)
(* the window the request announced.                                        *)
Operation ==
    [state : {"none", "cancelled", "completed"} \cup Open,
     resume : {"none"} \cup Working,
     sub : Subs \cup {NoSub},
     billing : {"none", "blocking", "terminal", "missing"},
     source : {"none", "provider", "operator"},
     actor : BOOLEAN,
     age : 0..(FreshTime + 1),
     attempts : Tries,
     retry : Nat,
     lease : 0..LeaseTime,
     wait : 0..RetentionTime,
     owed : 0..RetentionTime]

NoOperation ==
    [state |-> "none", resume |-> "none", sub |-> NoSub, billing |-> "none",
     source |-> "none", actor |-> FALSE, age |-> 0, attempts |-> 0,
     retry |-> 0, lease |-> 0, wait |-> 0, owed |-> 0]

(* A lease, and how far the worker has got with it: `state` and `sub` are   *)
(* those claimed, `answer` the last word from the provider.                 *)
Work ==
    [pc : {"idle", "claimed", "delete", "relook", "finish"},
     state : {"none"} \cup Working,
     sub : Subs \cup {NoSub},
     answer : Statuses \cup Failures \cup {"ok"},
     current : BOOLEAN]

NoWork == [pc |-> "idle", state |-> "none", sub |-> NoSub,
           answer |-> "none", current |-> FALSE]

TypeOK ==
    /\ life \in {"active", "deleting", "deleted"}
    /\ tier \in {"free", "team"}
    /\ linked \in Subs \cup {NoSub}
    /\ del \in Operation
    /\ work \in [Workers -> Work]
    /\ stripe \in [Subs -> Statuses]
    /\ notice \subseteq Subs
    /\ crashes \in 0..MaxCrashes

-----------------------------------------------------------------------------
(* Billing *)

(* purge_gate: an unpaid subscription is free for the product and can still *)
(* be resumed at the provider.                                              *)
GateOfEntitlement(status) ==
    IF status = "paying" THEN "blocking"
    ELSE IF status \in {"unpaid", "ended"} THEN "terminal" ELSE "missing"

Gate(status) ==
    IF status \in {"paying", "unpaid"} THEN "blocking"
    ELSE IF status = "ended" THEN "terminal" ELSE "missing"

EntitlementTier(status) == IF status = "paying" THEN "team" ELSE "free"

Over == {"terminal", "missing"}

Answers(s) == {stripe[s]} \cup Failures

-----------------------------------------------------------------------------
(* The operation row *)

Recovering(d) == "recovering" \in {d.state, d.resume}

(* The CHECK constraints a row must pass on the way to its update: a failed *)
(* operation has a state to resume, an observation has a source, and only   *)
(* an operator's observation names who made it.                             *)
ConstraintsHold(d) ==
    /\ (d.state = "failed") <=> (d.resume # "none")
    /\ (d.billing = "none") <=> (d.source = "none")
    /\ d.actor <=> (d.source = "operator")

(* Any accepted update bumps state_version: no worker's version is current. *)
KeepVersions == work

Superseded == [w \in Workers |-> [work[w] EXCEPT !.current = FALSE]]

(* A worker's compare-and-set.  It changes nothing when the version moved   *)
(* on, and nothing when the row would break a constraint: the statement     *)
(* fails, and the lease stays until it runs out.                            *)
AppliesAnyway(w, new) == work[w].pc # "idle" /\ ConstraintsHold(new)

Applies(w, new) == work[w].current /\ ConstraintsHold(new)

Settle(w, new) ==
    IF Applies(w, new)
    THEN /\ del' = new
         /\ work' = [Superseded EXCEPT ![w] = NoWork]
    ELSE /\ UNCHANGED del
         /\ work' = [work EXCEPT ![w] = NoWork]

Provided(d, billing) ==
    [d EXCEPT !.billing = billing, !.source = "provider", !.age = 0]

(* retry_delay: none left after the last one of the ladder. *)
RetryDelay(attempts) ==
    RetryDelays[IF attempts = 0 THEN 1 ELSE attempts]

LadderEnded(attempts) == attempts > Len(RetryDelays)

-----------------------------------------------------------------------------

Init ==
    /\ life = "active"
    /\ tier \in {"free", "team"}
    /\ linked \in Subs \cup {NoSub}
    /\ linked # NoSub => tier = "team"
    /\ del = NoOperation
    /\ work = [w \in Workers |-> NoWork]
    /\ stripe = [s \in Subs |-> IF s = linked THEN "paying" ELSE "none"]
    /\ notice = {}
    /\ crashes = 0

-----------------------------------------------------------------------------
(* Owners *)

(* request_with_retention on an active organisation.  On a deleting one it  *)
(* changes nothing, unless the operation has failed.                        *)
Request ==
    /\ life = "active"
    /\ life' = "deleting"
    /\ del' = [NoOperation EXCEPT !.state = "requested", !.sub = linked,
                                  !.wait = RetentionTime,
                                  !.owed = RetentionTime]
    /\ UNCHANGED <<tier, linked, work, stripeVars, crashes>>

RetryAtOnce ==
    /\ del.state = "failed"
    /\ del' = [del EXCEPT !.state = del.resume, !.resume = "none",
                          !.retry = 0, !.attempts = 0, !.lease = 0,
                          !.wait = 0]
    /\ work' = Superseded
    /\ UNCHANGED <<orgVars, stripeVars, crashes>>

Retry ==
    /\ del.state = "failed"
    /\ del' = [del EXCEPT !.state = del.resume, !.resume = "none",
                          !.retry = 0, !.attempts = 0, !.lease = 0]
    /\ work' = Superseded
    /\ UNCHANGED <<orgVars, stripeVars, crashes>>

(* can_cancel: everything but a purge under way, and recovery itself. *)
CancelKeepingVersions ==
    /\ del.state \in Open \ {"purging", "recovering"}
    /\ del' = [del EXCEPT !.state = "recovering", !.resume = "none",
                          !.attempts = 0, !.retry = 0, !.lease = 0]
    /\ work' = KeepVersions
    /\ UNCHANGED <<orgVars, stripeVars, crashes>>

Cancel ==
    /\ del.state \in Open \ {"purging", "recovering"}
    /\ del' = [del EXCEPT !.state = "recovering", !.resume = "none",
                          !.attempts = 0, !.retry = 0, !.lease = 0]
    /\ work' = Superseded
    /\ UNCHANGED <<orgVars, stripeVars, crashes>>

-----------------------------------------------------------------------------
(* The operator *)

(* record_operator_observation: evidence that the subscription was over     *)
(* `age` ticks ago, not before the request.  The evidence is taken to be    *)
(* true: the server cannot check it.                                        *)
Elapsed == RetentionTime - del.wait

ObserveWhileRecovering(age) ==
    /\ OperatorEnabled
    /\ del.state \in Open \ {"purging"}
    /\ del.sub # NoSub
    /\ Gate(stripe[del.sub]) \in Over
    /\ age <= Elapsed
    /\ del' = [del EXCEPT !.state = "retention", !.resume = "none",
                          !.attempts = 0, !.retry = 0, !.lease = 0,
                          !.billing = Gate(stripe[del.sub]),
                          !.source = "operator", !.actor = TRUE, !.age = age]
    /\ work' = Superseded
    /\ UNCHANGED <<orgVars, stripeVars, crashes>>

RecordOperatorObservation(age) ==
    /\ OperatorEnabled
    /\ del.state \in Open \ {"purging", "recovering"}
    /\ del.resume \notin {"purging", "recovering"}
    /\ del.sub # NoSub
    /\ Gate(stripe[del.sub]) \in Over
    /\ age <= Elapsed
    /\ del' = [del EXCEPT !.state = "retention", !.resume = "none",
                          !.attempts = 0, !.retry = 0, !.lease = 0,
                          !.billing = Gate(stripe[del.sub]),
                          !.source = "operator", !.actor = TRUE, !.age = age]
    /\ work' = Superseded
    /\ UNCHANGED <<orgVars, stripeVars, crashes>>

-----------------------------------------------------------------------------
(* Workers *)

(* claim_due: unleased or expired, and due. *)
Due ==
    /\ del.lease = 0
    /\ \/ del.state = "purging" /\ del.wait = 0
       \/ del.state = "retention" /\ del.wait = 0 /\ del.retry = 0
       \/ del.state \in {"requested", "cancelling_billing", "recovering"}
          /\ del.retry = 0

(* Attempts count towards the retry ladder only where the provider is       *)
(* called; past its end they no longer matter.                              *)
OneMoreAttempt == IF LadderEnded(del.attempts) THEN del.attempts
                                               ELSE del.attempts + 1

AttemptsOfBilling ==
    IF del.state \in {"cancelling_billing", "recovering"}
    THEN OneMoreAttempt ELSE del.attempts

AttemptsAfterClaim ==
    IF \/ del.state \in {"cancelling_billing", "recovering"}
       \/ del.state = "retention" /\ del.sub # NoSub
    THEN OneMoreAttempt ELSE del.attempts

Claim(w) ==
    /\ work[w].pc = "idle"
    /\ Due
    /\ del' = [del EXCEPT !.lease = LeaseTime, !.attempts = AttemptsAfterClaim]
    /\ work' = [Superseded EXCEPT
                  ![w] = [pc |-> "claimed", state |-> del.state,
                          sub |-> del.sub, answer |-> "none",
                          current |-> TRUE]]
    /\ UNCHANGED <<orgVars, stripeVars, crashes>>

Holds(w, states) == work[w].pc = "claimed" /\ work[w].state \in states

(* fail_attempt and schedule_retry.  While the version is current, so are   *)
(* the attempts the lease was claimed with.                                 *)
FailAttempt(w) ==
    /\ Settle(w, [del EXCEPT !.state = "failed", !.resume = work[w].state,
                             !.retry = 0, !.lease = 0])
    /\ UNCHANGED <<orgVars, stripeVars, crashes>>

ScheduleRetry(w) ==
    /\ Settle(w, [del EXCEPT !.retry = RetryDelay(del.attempts), !.lease = 0])
    /\ UNCHANGED <<orgVars, stripeVars, crashes>>

HandleProviderError(w, kind) ==
    IF kind = "auth" \/ LadderEnded(del.attempts)
    THEN FailAttempt(w)
    ELSE ScheduleRetry(w)

StartBilling(w) ==
    /\ Holds(w, {"requested"})
    /\ Settle(w, [del EXCEPT !.state = "cancelling_billing", !.retry = 0,
                             !.lease = 0])
    /\ UNCHANGED <<orgVars, stripeVars, crashes>>

(* finish_billing, finish_recovery: what the provider, or the absence of a  *)
(* subscription, settles.                                                   *)
FinishBilling(w, gate) ==
    /\ Settle(w, [Provided(del, gate) EXCEPT !.state = "retention",
                             !.attempts = 0, !.retry = 0, !.lease = 0])
    /\ UNCHANGED <<orgVars, stripeVars, crashes>>

FinishRecovery(w, status) ==
    LET new == [Provided(del, Gate(status)) EXCEPT !.state = "cancelled",
                             !.attempts = 0, !.retry = 0, !.lease = 0]
    IN /\ Settle(w, new)
       /\ IF Applies(w, new)
          THEN life' = "active" /\ tier' = EntitlementTier(status)
          ELSE UNCHANGED <<life, tier>>
       /\ UNCHANGED <<linked, stripeVars, crashes>>

(* enter_purging, without asking the provider: there is no subscription, or *)
(* an operator has just looked.                                             *)
EnterPurging(w) ==
    /\ Settle(w, [del EXCEPT !.state = "purging", !.attempts = 0,
                             !.age = IF del.sub = NoSub THEN 0 ELSE @,
                             !.retry = 0, !.lease = 0])
    /\ UNCHANGED <<orgVars, stripeVars, crashes>>

OperatorObservationIsFresh(w) ==
    /\ work[w].current
    /\ del.source = "operator"
    /\ del.billing \in Over
    /\ del.age <= FreshTime

(* advance_billing and advance_retention where no call is made. *)
WithoutSubscription(w) ==
    /\ work[w].sub = NoSub
    /\ \/ Holds(w, {"cancelling_billing"}) /\ FinishBilling(w, "missing")
       \/ Holds(w, {"recovering"}) /\ FinishRecovery(w, "missing")
       \/ Holds(w, {"retention"}) /\ EnterPurging(w)

WithoutProvider(w) ==
    /\ work[w].sub # NoSub
    /\ w \notin Configured
    /\ \/ Holds(w, {"cancelling_billing", "recovering"}) /\ FailAttempt(w)
       \/ /\ Holds(w, {"retention"})
          /\ IF OperatorObservationIsFresh(w)
             THEN EnterPurging(w) ELSE FailAttempt(w)

(* get_subscription; cancel_subscription starts with the same lookup, and   *)
(* goes on only if the subscription blocks the purge.                       *)
Lookup(w) ==
    /\ Holds(w, {"cancelling_billing", "recovering", "retention"})
    /\ work[w].sub # NoSub
    /\ w \in Configured
    /\ \E answer \in Answers(work[w].sub) :
        work' = [work EXCEPT
            ![w].answer = answer,
            ![w].pc = IF /\ work[w].state = "cancelling_billing"
                         /\ answer \notin Failures
                         /\ Gate(answer) = "blocking"
                      THEN "delete" ELSE "finish"]
    /\ UNCHANGED <<orgVars, del, stripeVars, crashes>>

(* The DELETE may be accepted and its reply lost. *)
CancelAtProvider(w) ==
    /\ work[w].pc = "delete"
    /\ \/ /\ Gate(stripe[work[w].sub]) = "blocking"
          /\ stripe' = [stripe EXCEPT ![work[w].sub] = "ended"]
          /\ notice' = notice \cup {work[w].sub}
          /\ \E reply \in {"ok", "retry"} :
              work' = [work EXCEPT ![w].pc = "relook", ![w].answer = reply]
       \/ /\ UNCHANGED stripeVars
          /\ \E reply \in Failures :
              work' = [work EXCEPT ![w].pc = "relook", ![w].answer = reply]
    /\ UNCHANGED <<orgVars, del, crashes>>

(* cancellation_outcome: the fresh lookup decides if it shows the end,      *)
(* otherwise a failed cancellation stays failed.                            *)
Relook(w) ==
    /\ work[w].pc = "relook"
    /\ \E fresh \in Answers(work[w].sub) :
        work' = [work EXCEPT
            ![w].pc = "finish",
            ![w].answer =
                IF \/ work[w].answer = "ok"
                   \/ fresh \notin Failures /\ Gate(fresh) \in Over
                THEN fresh ELSE work[w].answer]
    /\ UNCHANGED <<orgVars, del, stripeVars, crashes>>

(* finish_retention_reconciliation *)
FinishRetention(w, gate) ==
    /\ Settle(w, [Provided(del, gate) EXCEPT
                    !.state = IF gate = "blocking" THEN "cancelling_billing"
                                                   ELSE "purging",
                    !.attempts = 0, !.retry = 0, !.lease = 0])
    /\ UNCHANGED <<orgVars, stripeVars, crashes>>

Finish(w) ==
    LET answer == work[w].answer IN
    /\ work[w].pc = "finish"
    /\ \/ answer \in Failures /\ HandleProviderError(w, answer)
       \/ /\ answer \notin Failures
          /\ \/ work[w].state = "recovering" /\ FinishRecovery(w, answer)
             \/ work[w].state = "retention" /\ FinishRetention(w, Gate(answer))
             \/ /\ work[w].state = "cancelling_billing"
                /\ IF Gate(answer) \in Over
                   THEN FinishBilling(w, Gate(answer))
                   ELSE HandleProviderError(w, "retry")

(* purge: every gate is checked again under the row locks. *)
PurgeGatesHold ==
    /\ del.state = "purging"
    /\ life = "deleting"
    /\ del.wait = 0
    /\ del.billing \in Over
    /\ del.age <= FreshTime
    /\ linked \in {NoSub, del.sub}

Purge(w) ==
    /\ Holds(w, {"purging"})
    /\ IF work[w].current /\ PurgeGatesHold
       THEN /\ Settle(w, [del EXCEPT !.state = "completed", !.lease = 0])
            /\ life' = "deleted"
            /\ tier' = "free"
            /\ linked' = NoSub
            /\ UNCHANGED <<stripeVars, crashes>>
       ELSE FailAttempt(w)

(* A worker dies, or an error ends its round; its lease stays. *)
Crash(w) ==
    /\ crashes < MaxCrashes
    /\ work[w].pc # "idle"
    /\ work' = [work EXCEPT ![w] = NoWork]
    /\ crashes' = crashes + 1
    /\ UNCHANGED <<orgVars, del, stripeVars>>

-----------------------------------------------------------------------------
(* The provider, its webhooks, and time *)

(* What the server has no part in: a checkout is paid, a payment fails or   *)
(* recovers, the customer cancels.                                          *)
ProviderChanges(s) ==
    /\ \E status \in Statuses :
        /\ <<stripe[s], status>> \in ProviderMoves
        /\ stripe' = [stripe EXCEPT ![s] = status]
    /\ notice' = notice \cup {s}
    /\ UNCHANGED <<orgVars, del, work, crashes>>

(* The provider no longer knows a subscription that is over.                *)
ProviderForgets(s) ==
    /\ stripe[s] = "ended"
    /\ stripe' = [stripe EXCEPT ![s] = "missing"]
    /\ UNCHANGED <<orgVars, notice, del, work, crashes>>

(* checkout_completed, subscription_updated or subscription_deleted: each   *)
(* is an UPDATE of an active organisation; otherwise the event is consumed  *)
(* without effect.  Older events of a subscription are ignored (Billing).   *)
WebhookIgnoringLifecycle(s) ==
    /\ s \in notice
    /\ notice' = notice \ {s}
    /\ tier' = EntitlementTier(stripe[s])
    /\ linked' = IF Gate(stripe[s]) \in Over THEN NoSub ELSE s
    /\ UNCHANGED <<life, del, work, stripe, crashes>>

Webhook(s) ==
    /\ s \in notice
    /\ notice' = notice \ {s}
    /\ IF life = "active"
       THEN /\ tier' = EntitlementTier(stripe[s])
            /\ linked' = IF Gate(stripe[s]) \in Over THEN NoSub ELSE s
       ELSE UNCHANGED <<tier, linked>>
    /\ UNCHANGED <<life, del, work, stripe, crashes>>

Down(ticks) == IF ticks = 0 THEN 0 ELSE ticks - 1

Tick ==
    /\ del.state \in Open
    /\ del' = [del EXCEPT !.lease = Down(@), !.retry = Down(@),
                          !.wait = Down(@), !.owed = Down(@),
                          !.age = IF del.billing = "none" \/ @ > FreshTime
                                  THEN @ ELSE @ + 1]
    /\ UNCHANGED <<orgVars, work, stripeVars, crashes>>

-----------------------------------------------------------------------------

WorkerStep(w) ==
    \/ Claim(w)
    \/ StartBilling(w)
    \/ WithoutSubscription(w)
    \/ WithoutProvider(w)
    \/ Lookup(w)
    \/ CancelAtProvider(w)
    \/ Relook(w)
    \/ Finish(w)
    \/ Purge(w)

Observation == \E age \in 0..(FreshTime + 1) : RecordOperatorObservation(age)

Activity ==
    \/ Request
    \/ Retry
    \/ Cancel
    \/ Observation
    \/ \E w \in Workers : WorkerStep(w) \/ Crash(w)
    \/ \E s \in Subs : ProviderChanges(s) \/ ProviderForgets(s) \/ Webhook(s)

Next == Activity \/ Tick

Spec == Init /\ [][Next]_vars

(* Each server instance polls for ever (`run`), and clocks run.  A lease is *)
(* minutes long and a provider call times out in seconds: a worker that is  *)
(* alive is done before its lease is over.  Without that, two workers that  *)
(* are always too late could take the operation from each other for ever.   *)
PromptTick ==
    /\ Tick
    /\ \A w \in Workers : work[w].current => del'.lease > 0

Fairness == WF_vars(PromptTick) /\ \A w \in Workers : WF_vars(WorkerStep(w))

FairSpec == Init /\ [][Activity \/ PromptTick]_vars /\ Fairness

(* The owners repeat their request whenever the operation has failed.       *)
PatientOwnerSpec == FairSpec /\ WF_vars(Retry)

-----------------------------------------------------------------------------
(* The promise to the owner *)

Intent ==
    IF life # "deleting" THEN "none"
    ELSE IF Recovering(del) THEN "keep" ELSE "delete"

Promise == INSTANCE DeletionLifecycle WITH intent <- Intent

(* However workers, crashes, late results, owners and the operator overlap, *)
(* the organisation is frozen, recovered and purged only as promised: above *)
(* all, an accepted cancellation never ends in a purge (state_version).     *)
KeepsPromise == Promise!Spec

-----------------------------------------------------------------------------
(* Properties the code keeps *)

(* The organisation's lifecycle flag and its operation, two tables that are *)
(* updated together, never disagree about what is going on.                 *)
LifecycleAgrees ==
    /\ life = "active" <=> del.state \in {"none", "cancelled"}
    /\ life = "deleting" <=> del.state \in Open
    /\ life = "deleted" <=> del.state = "completed"

(* Data is never purged while the linked subscription can still bill or     *)
(* resume at the provider, whatever the provider answered, lost or delayed  *)
(* on the way and whatever an operator recorded (purge_gate and the gates   *)
(* of cancelling_billing, retention and purging).                           *)
PurgeConfirmed ==
    del.state = "completed" /\ del.sub # NoSub =>
        Gate(stripe[del.sub]) \in Over

(* The purge never starts before the deadline fixed by the request, and no  *)
(* retry, resumption or observation moves the deadline, either way          *)
(* (purge_after).                                                           *)
PurgeAfterRetention ==
    "purging" \in {del.state, del.resume} \/ del.state = "completed" =>
        del.wait = 0 /\ del.owed = 0

(* A late webhook restores nothing to a deleting organisation and puts      *)
(* nothing back on the tombstone of a deleted one.                          *)
BillingFrozen ==
    [][life # "active" /\ life' = life => UNCHANGED <<tier, linked>>]_vars

(* An operation that is under way gets somewhere: it completes, is          *)
(* cancelled, or is reported as failed, in spite of crashes, expired leases *)
(* and a provider that never answers (leases and the retry ladder), unless  *)
(* an operator repeats an observation for ever, which begins it anew.       *)
OperatorStops == <>[][~Observation]_vars

Decided ==
    OperatorStops =>
        ((del.state \in Working) ~> (del.state \notin Working))

-----------------------------------------------------------------------------
(* Properties the code does not keep *)

(* Recovery ends: it is reconciled with the provider or reported as failed, *)
(* after an operator's observation as after any other state.                *)
RecoveryEnds == (del.state = "recovering") ~> (del.state # "recovering")

(* A purge that failed can be carried on with: repeating the request, as    *)
(* often as it takes, schedules it again until it completes or the owner    *)
(* cancels.                                                                 *)
FailedPurgeResumes ==
    (del.state = "failed" /\ del.resume = "purging")
        ~> (del.state = "completed" \/ Recovering(del))

=============================================================================
