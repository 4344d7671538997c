-------------------------- MODULE OrgDeletionProofs --------------------------
(***************************************************************************)
(* What the deletion lifecycle keeps for any number of server instances    *)
(* and subscriptions, any lease, freshness and retention times, any retry  *)
(* ladder, any crashes and any provider that does not revive an ended      *)
(* subscription.  Workers race, so the invariant says what the row stores, *)
(* what a worker that is still current may rely on, and what a worker,     *)
(* current or not, knows of the provider.                                  *)
(***************************************************************************)
EXTENDS OrgDeletion, TLAPS

-----------------------------------------------------------------------------
(* The inductive invariant *)

Ends == {"ended", "missing"}

(* A row is typed and passes its constraints; it reaches the purge only     *)
(* past its deadline; a gate it stores as over is over at the provider, and *)
(* it is completed only with such a gate.                                   *)
GoodRow(d, st) ==
    /\ d \in Operation
    /\ ConstraintsHold(d)
    /\ "purging" \in {d.state, d.resume} \/ d.state = "completed" => d.wait = 0
    /\ d.owed = d.wait
    /\ d.sub # NoSub => st[d.sub] # "none"
    /\ d.sub # NoSub /\ d.billing \in Over => st[d.sub] \in Ends
    /\ d.state = "completed" => d.billing \in Over

(* A worker with the current version still sees the state and subscription  *)
(* it claimed, past the deadline if that mattered; a final answer that says *)
(* over is true, however old it is.                                         *)
GoodWork(k, d, st) ==
    /\ k \in Work
    /\ k.pc # "idle" => k.state \in Working
    /\ k.current => /\ k.pc # "idle"
                    /\ k.state = d.state
                    /\ k.sub = d.sub
                    /\ d.state \in {"retention", "purging"} => d.wait = 0
    /\ k.pc # "idle" /\ k.sub # NoSub => st[k.sub] # "none"
    /\ k.pc \in {"delete", "relook", "finish"} => k.sub # NoSub
    /\ k.pc = "relook" => k.answer \in Failures \cup {"ok"}
    /\ k.pc = "finish" /\ k.answer \notin Failures /\ Gate(k.answer) \in Over
          => st[k.sub] \in Ends

OrgTypes ==
    /\ life \in {"active", "deleting", "deleted"}
    /\ tier \in {"free", "team"}
    /\ linked \in Subs \cup {NoSub}
    /\ stripe \in [Subs -> Statuses]
    /\ notice \subseteq Subs
    /\ crashes \in 0..MaxCrashes
    /\ linked # NoSub => stripe[linked] # "none"

AllWork == \A w \in Workers : GoodWork(work[w], del, stripe)

Inv ==
    /\ OrgTypes
    /\ LifecycleAgrees
    /\ GoodRow(del, stripe)
    /\ work \in [Workers -> Work]
    /\ AllWork

(* What no step may do to the billing record of a frozen organisation.      *)
Frozen == life # "active" /\ life' = life => UNCHANGED <<tier, linked>>

(* A step that leaves the owner's view of the organisation alone.           *)
Quiet == UNCHANGED <<life, tier, linked>> /\ Intent' = Intent

-----------------------------------------------------------------------------
(* Facts about gates, rows and workers *)

(* The three gates, and what they say of a subscription that exists.        *)
LEMMA GateFacts ==
    ASSUME NEW status
    PROVE  /\ Gate(status) \in {"blocking", "terminal", "missing"}
           /\ status \in Statuses \ {"none"} =>
                 (Gate(status) \in Over <=> status \in Ends)
    BY DEF Gate, Over, Ends, Statuses

(* Losing the current version costs a worker nothing it knows for good.     *)
LEMMA StaleWork ==
    ASSUME NEW k, NEW d, NEW e, NEW st, GoodWork(k, d, st)
    PROVE  GoodWork([k EXCEPT !.current = FALSE], e, st)
    BY DEF GoodWork, Work

LEMMA IdleWork ==
    ASSUME NEW d, NEW st
    PROVE  GoodWork(NoWork, d, st)
    BY ConfigAssumption DEF GoodWork, NoWork, Work, Statuses

(* The provider's own moves: nothing un-exists, nothing ended comes back.   *)
Onward(st, new) ==
    \A s \in Subs : /\ st[s] # "none" => new[s] # "none"
                    /\ st[s] \in Ends => new[s] \in Ends

LEMMA OnwardKeeps ==
    ASSUME NEW st, NEW new, Onward(st, new)
    PROVE  /\ \A d : GoodRow(d, st) => GoodRow(d, new)
           /\ \A k, d : GoodWork(k, d, st) => GoodWork(k, d, new)
  <1>1. ASSUME NEW d, GoodRow(d, st) PROVE GoodRow(d, new)
    <2>1. d.sub \in Subs \cup {NoSub}
      BY <1>1 DEF GoodRow, Operation
    <2>2. QED
      BY <1>1, <2>1 DEF GoodRow, Onward
  <1>2. ASSUME NEW k, NEW d, GoodWork(k, d, st) PROVE GoodWork(k, d, new)
    <2>1. k.sub \in Subs \cup {NoSub}
      BY <1>2 DEF GoodWork, Work
    <2>2. QED
      BY <1>2, <2>1 DEF GoodWork, Onward
  <1>3. QED
    BY <1>1, <1>2

-----------------------------------------------------------------------------

LEMMA InitInv == Init => Inv /\ Intent = "none"
  <1> SUFFICES ASSUME Init PROVE Inv /\ Intent = "none"
    OBVIOUS
  <1>1. OrgTypes
    BY TimeAssumption, ConfigAssumption DEF Init, OrgTypes, Statuses
  <1>2. LifecycleAgrees
    BY DEF Init, LifecycleAgrees, NoOperation, Open, Working
  <1>3. GoodRow(del, stripe)
    BY TimeAssumption, RetryAssumption DEF Init, GoodRow, NoOperation,
       Operation, ConstraintsHold, Tries, Over
  <1>4. work \in [Workers -> Work] /\ AllWork
    <2>1. NoWork \in Work
      BY DEF NoWork, Work, Statuses
    <2>2. QED
      BY <2>1, IdleWork DEF Init, AllWork
  <1>5. QED
    BY <1>1, <1>2, <1>3, <1>4 DEF Inv, Intent, Init

-----------------------------------------------------------------------------
(* A compare-and-set: either the row is the new one and every other worker  *)
(* is stale, or nothing but the worker's own lease is gone.                 *)

LEMMA SettleRows ==
    ASSUME Inv, NEW w \in Workers, NEW new, Settle(w, new),
           stripe' = stripe,
           Applies(w, new) => GoodRow(new, stripe)
    PROVE  /\ GoodRow(del', stripe')
           /\ work' \in [Workers -> Work]
           /\ \A v \in Workers : GoodWork(work'[v], del', stripe')
  <1>1. NoWork \in Work
    BY ConfigAssumption DEF NoWork, Work, Statuses
  <1>2. CASE Applies(w, new)
    <2>1. del' = new /\ work' = [Superseded EXCEPT ![w] = NoWork]
      BY <1>2 DEF Settle
    <2>2. \A v \in Workers :
              [work[v] EXCEPT !.current = FALSE] \in Work
      BY DEF Inv, Work
    <2>3. Superseded \in [Workers -> Work]
      BY <2>2 DEF Superseded
    <2>4. ASSUME NEW v \in Workers
          PROVE  GoodWork(work'[v], del', stripe')
      <3>1. CASE v = w
        BY <3>1, <2>1, <2>3, IdleWork
      <3>2. CASE v # w
        <4>1. work'[v] = [work[v] EXCEPT !.current = FALSE]
          BY <3>2, <2>1, <2>3 DEF Superseded
        <4>2. QED
          BY <4>1, StaleWork DEF Inv, AllWork
      <3>3. QED
        BY <3>1, <3>2
    <2>5. QED
      BY <1>1, <1>2, <2>1, <2>3, <2>4
  <1>3. CASE ~Applies(w, new)
    <2>1. del' = del /\ work' = [work EXCEPT ![w] = NoWork]
      BY <1>3 DEF Settle
    <2>2. QED
      BY <1>1, <2>1, IdleWork DEF Inv, AllWork
  <1>4. QED
    BY <1>2, <1>3

(* What a worker may rely on when its compare-and-set goes through.         *)
LEMMA Current ==
    ASSUME Inv, NEW w \in Workers, work[w].current
    PROVE  /\ work[w].pc # "idle"
           /\ del.state = work[w].state
           /\ del.sub = work[w].sub
           /\ del.state \in Working
           /\ del.resume = "none"
           /\ del.state \in {"retention", "purging"} => del.wait = 0
           /\ life = "deleting"
  <1>1. GoodWork(work[w], del, stripe)
    BY DEF Inv, AllWork
  <1>2. GoodRow(del, stripe) /\ LifecycleAgrees
    BY DEF Inv
  <1>3. QED
    BY <1>1, <1>2 DEF GoodWork, GoodRow, ConstraintsHold, LifecycleAgrees,
       Open, Working, Operation

(* An outcome that keeps the operation open and the owner's intent.         *)
LEMMA SettleQuiet ==
    ASSUME Inv, NEW w \in Workers, NEW new, Settle(w, new),
           UNCHANGED <<orgVars, stripeVars, crashes>>,
           Applies(w, new) =>
               /\ GoodRow(new, stripe)
               /\ new.state \in Open
               /\ Recovering(new) <=> Recovering(del)
    PROVE  Inv' /\ Quiet
  <1>1. /\ GoodRow(del', stripe')
        /\ work' \in [Workers -> Work]
        /\ \A v \in Workers : GoodWork(work'[v], del', stripe')
    BY SettleRows DEF stripeVars
  <1>2. OrgTypes' /\ UNCHANGED <<life, tier, linked>>
    BY DEF Inv, OrgTypes, orgVars, stripeVars
  <1>3. LifecycleAgrees' /\ Intent' = Intent
    <2>1. CASE Applies(w, new)
      <3>1. del' = new
        BY <2>1 DEF Settle
      <3>2. life = "deleting"
        BY <2>1, Current DEF Applies
      <3>3. QED
        BY <1>2, <2>1, <3>1, <3>2 DEF LifecycleAgrees, Intent, Open, Working
    <2>2. CASE ~Applies(w, new)
      BY <1>2, <2>2 DEF Settle, Inv, LifecycleAgrees, Intent
    <2>3. QED
      BY <2>1, <2>2
  <1>4. QED
    BY <1>1, <1>2, <1>3 DEF Inv, AllWork, Quiet

(* An update of the row by anyone else: every worker is stale.              *)
LEMMA Overtaken ==
    ASSUME Inv, work' = Superseded, stripe' = stripe
    PROVE  /\ work' \in [Workers -> Work]
           /\ \A v \in Workers : GoodWork(work'[v], del', stripe')
  <1>1. \A v \in Workers : [work[v] EXCEPT !.current = FALSE] \in Work
    BY DEF Inv, Work
  <1>2. ASSUME NEW v \in Workers
        PROVE  GoodWork(work'[v], del', stripe')
    <2>1. work'[v] = [work[v] EXCEPT !.current = FALSE]
      BY DEF Superseded
    <2>2. QED
      BY <2>1, StaleWork DEF Inv, AllWork
  <1>3. QED
    BY <1>1, <1>2 DEF Superseded

-----------------------------------------------------------------------------
(* Types of the values steps put into the row                               *)

LEMMA Values ==
    /\ 0 \in Tries
    /\ 0 \in 0..LeaseTime /\ LeaseTime \in 0..LeaseTime
    /\ 0 \in 0..(FreshTime + 1)
    /\ RetentionTime \in 0..RetentionTime
  BY TimeAssumption, RetryAssumption DEF Tries

LEMMA StateTypes ==
    \A s \in Working \cup {"failed", "cancelled", "completed"} :
        s \in {"none", "cancelled", "completed"} \cup Open
  BY DEF Open

(* The updates of the row, by the fields they touch.                        *)
LEMMA UpdateTypes ==
    ASSUME NEW d \in Operation
    PROVE  /\ \A s \in {"none", "cancelled", "completed"} \cup Open :
              /\ [d EXCEPT !.state = s, !.lease = 0] \in Operation
              /\ [d EXCEPT !.state = s, !.retry = 0, !.lease = 0] \in Operation
              /\ [d EXCEPT !.state = s, !.attempts = 0, !.retry = 0,
                           !.lease = 0] \in Operation
              /\ \A r \in {"none"} \cup Working :
                    [d EXCEPT !.state = s, !.resume = r, !.retry = 0,
                              !.lease = 0] \in Operation
              /\ \A a \in 0..(FreshTime + 1) :
                    [d EXCEPT !.state = s, !.attempts = 0, !.age = a,
                              !.retry = 0, !.lease = 0] \in Operation
           /\ \A n \in Nat : [d EXCEPT !.retry = n, !.lease = 0] \in Operation
           /\ \A b \in {"none", "blocking", "terminal", "missing"} :
                 Provided(d, b) \in Operation
  <1>1. ASSUME NEW s \in {"none", "cancelled", "completed"} \cup Open
        PROVE  /\ [d EXCEPT !.state = s, !.lease = 0] \in Operation
               /\ [d EXCEPT !.state = s, !.retry = 0, !.lease = 0]
                     \in Operation
               /\ [d EXCEPT !.state = s, !.attempts = 0, !.retry = 0,
                            !.lease = 0] \in Operation
    BY Values DEF Operation
  <1>2. ASSUME NEW s \in {"none", "cancelled", "completed"} \cup Open,
               NEW r \in {"none"} \cup Working
        PROVE  [d EXCEPT !.state = s, !.resume = r, !.retry = 0, !.lease = 0]
                  \in Operation
    BY Values DEF Operation
  <1>3. ASSUME NEW s \in {"none", "cancelled", "completed"} \cup Open,
               NEW a \in 0..(FreshTime + 1)
        PROVE  [d EXCEPT !.state = s, !.attempts = 0, !.age = a, !.retry = 0,
                         !.lease = 0] \in Operation
    BY Values DEF Operation
  <1>4. ASSUME NEW n \in Nat
        PROVE  [d EXCEPT !.retry = n, !.lease = 0] \in Operation
    BY Values DEF Operation
  <1>5. ASSUME NEW b \in {"none", "blocking", "terminal", "missing"}
        PROVE  Provided(d, b) \in Operation
    BY Values DEF Operation, Provided
  <1>6. QED
    BY <1>1, <1>2, <1>3, <1>4, <1>5

LEMMA FailQuiet ==
    ASSUME Inv, NEW w \in Workers, FailAttempt(w)
    PROVE  Inv' /\ Quiet
  <1> DEFINE new == [del EXCEPT !.state = "failed", !.resume = work[w].state,
                                !.retry = 0, !.lease = 0]
  <1>1. Settle(w, new) /\ UNCHANGED <<orgVars, stripeVars, crashes>>
    BY DEF FailAttempt
  <1>2. ASSUME Applies(w, new)
        PROVE  /\ GoodRow(new, stripe)
               /\ new.state \in Open
               /\ Recovering(new) <=> Recovering(del)
    <2>1. work[w].current /\ ConstraintsHold(new)
      BY <1>2 DEF Applies
    <2>2. del.state = work[w].state /\ del.state \in Working
          /\ del.resume = "none" /\ (del.state = "purging" => del.wait = 0)
      BY <2>1, Current
    <2>3. GoodRow(del, stripe) /\ del \in Operation
      BY DEF Inv, GoodRow
    <2>4. new \in Operation
      BY <2>2, <2>3, StateTypes, UpdateTypes DEF Working
    <2>5. /\ new.state = "failed" /\ new.resume = del.state
          /\ new.sub = del.sub /\ new.billing = del.billing
          /\ new.wait = del.wait /\ new.owed = del.owed
      BY <2>2, <2>3 DEF Operation
    <2> HIDE DEF new
    <2>6. GoodRow(new, stripe)
      BY <2>1, <2>2, <2>3, <2>4, <2>5 DEF GoodRow
    <2>7. QED
      BY <2>2, <2>5, <2>6 DEF Recovering, Open
  <1>3. QED
    BY <1>1, <1>2, SettleQuiet

LEMMA ScheduleQuiet ==
    ASSUME Inv, NEW w \in Workers, ScheduleRetry(w),
           ~LadderEnded(del.attempts)
    PROVE  Inv' /\ Quiet
  <1> DEFINE new == [del EXCEPT !.retry = RetryDelay(del.attempts),
                                !.lease = 0]
  <1>1. Settle(w, new) /\ UNCHANGED <<orgVars, stripeVars, crashes>>
    BY DEF ScheduleRetry
  <1>2. ASSUME Applies(w, new)
        PROVE  /\ GoodRow(new, stripe)
               /\ new.state \in Open
               /\ Recovering(new) <=> Recovering(del)
    <2>1. work[w].current /\ ConstraintsHold(new)
      BY <1>2 DEF Applies
    <2>2. del.state \in Working
      BY <2>1, Current
    <2>3. GoodRow(del, stripe) /\ del \in Operation
      BY DEF Inv, GoodRow
    <2>4. RetryDelay(del.attempts) \in Nat
      <3>1. del.attempts \in 0..Len(RetryDelays)
        BY <2>3, RetryAssumption DEF Operation, Tries, LadderEnded
      <3>2. QED
        BY <3>1, RetryAssumption DEF RetryDelay
    <2>5. new \in Operation
      BY <2>3, <2>4, UpdateTypes
    <2>6. /\ new.state = del.state /\ new.resume = del.resume
          /\ new.sub = del.sub /\ new.billing = del.billing
          /\ new.wait = del.wait /\ new.owed = del.owed
      BY <2>3 DEF Operation
    <2> HIDE DEF new
    <2>7. GoodRow(new, stripe)
      BY <2>1, <2>3, <2>5, <2>6 DEF GoodRow
    <2>8. QED
      BY <2>2, <2>6, <2>7 DEF Recovering, Open
  <1>3. QED
    BY <1>1, <1>2, SettleQuiet

LEMMA ErrorQuiet ==
    ASSUME Inv, NEW w \in Workers, NEW kind, HandleProviderError(w, kind)
    PROVE  Inv' /\ Quiet
  BY FailQuiet, ScheduleQuiet DEF HandleProviderError

LEMMA StartQuiet ==
    ASSUME Inv, NEW w \in Workers, StartBilling(w)
    PROVE  Inv' /\ Quiet
  <1> DEFINE new == [del EXCEPT !.state = "cancelling_billing", !.retry = 0,
                                !.lease = 0]
  <1>1. Settle(w, new) /\ UNCHANGED <<orgVars, stripeVars, crashes>>
    BY DEF StartBilling
  <1>2. ASSUME Applies(w, new)
        PROVE  /\ GoodRow(new, stripe)
               /\ new.state \in Open
               /\ Recovering(new) <=> Recovering(del)
    <2>1. work[w].current /\ ConstraintsHold(new)
      BY <1>2 DEF Applies
    <2>2. del.state = "requested" /\ del.resume = "none"
      BY <2>1, Current DEF StartBilling, Holds
    <2>3. GoodRow(del, stripe) /\ del \in Operation
      BY DEF Inv, GoodRow
    <2>4. new \in Operation
      BY <2>3, StateTypes, UpdateTypes DEF Working
    <2>5. /\ new.state = "cancelling_billing" /\ new.resume = "none"
          /\ new.sub = del.sub /\ new.billing = del.billing
          /\ new.wait = del.wait /\ new.owed = del.owed
      BY <2>2, <2>3 DEF Operation
    <2> HIDE DEF new
    <2>6. GoodRow(new, stripe)
      BY <2>1, <2>3, <2>4, <2>5 DEF GoodRow
    <2>7. QED
      BY <2>2, <2>5, <2>6 DEF Recovering, Open, Working
  <1>3. QED
    BY <1>1, <1>2, SettleQuiet

LEMMA BillingQuiet ==
    ASSUME Inv, NEW w \in Workers, NEW gate \in Over, FinishBilling(w, gate),
           work[w].state = "cancelling_billing",
           work[w].sub # NoSub => stripe[work[w].sub] \in Ends
    PROVE  Inv' /\ Quiet
  <1> DEFINE new == [Provided(del, gate) EXCEPT !.state = "retention",
                          !.attempts = 0, !.retry = 0, !.lease = 0]
  <1>1. Settle(w, new) /\ UNCHANGED <<orgVars, stripeVars, crashes>>
    BY DEF FinishBilling
  <1>2. ASSUME Applies(w, new)
        PROVE  /\ GoodRow(new, stripe)
               /\ new.state \in Open
               /\ Recovering(new) <=> Recovering(del)
    <2>1. work[w].current /\ ConstraintsHold(new)
      BY <1>2 DEF Applies
    <2>2. /\ del.state = "cancelling_billing" /\ del.resume = "none"
          /\ del.sub = work[w].sub
      BY <2>1, Current
    <2>3. GoodRow(del, stripe) /\ del \in Operation
      BY DEF Inv, GoodRow
    <2>4. new \in Operation
      <3>1. Provided(del, gate) \in Operation
        BY <2>3, UpdateTypes DEF Over
      <3>2. QED
        BY <3>1, StateTypes, UpdateTypes DEF Working
    <2>5. /\ new.state = "retention" /\ new.resume = "none"
          /\ new.sub = del.sub
          /\ new.wait = del.wait /\ new.owed = del.owed
      BY <2>2, <2>3 DEF Operation, Provided
    <2> HIDE DEF new
    <2>6. GoodRow(new, stripe)
      BY <2>1, <2>2, <2>3, <2>4, <2>5 DEF GoodRow
    <2>7. QED
      BY <2>2, <2>5, <2>6 DEF Recovering, Open, Working
  <1>3. QED
    BY <1>1, <1>2, SettleQuiet

LEMMA RetentionQuiet ==
    ASSUME Inv, NEW w \in Workers, NEW gate \in {"blocking"} \cup Over,
           FinishRetention(w, gate),
           work[w].state = "retention",
           gate \in Over => stripe[work[w].sub] \in Ends
    PROVE  Inv' /\ Quiet
  <1> DEFINE next == IF gate = "blocking" THEN "cancelling_billing"
                                          ELSE "purging"
             new == [Provided(del, gate) EXCEPT !.state = next,
                          !.attempts = 0, !.retry = 0, !.lease = 0]
  <1>1. Settle(w, new) /\ UNCHANGED <<orgVars, stripeVars, crashes>>
    BY DEF FinishRetention
  <1>2. ASSUME Applies(w, new)
        PROVE  /\ GoodRow(new, stripe)
               /\ new.state \in Open
               /\ Recovering(new) <=> Recovering(del)
    <2>1. work[w].current /\ ConstraintsHold(new)
      BY <1>2 DEF Applies
    <2>2. /\ del.state = "retention" /\ del.resume = "none"
          /\ del.sub = work[w].sub /\ del.wait = 0
      BY <2>1, Current
    <2>3. GoodRow(del, stripe) /\ del \in Operation
      BY DEF Inv, GoodRow
    <2>4. new \in Operation
      <3>1. Provided(del, gate) \in Operation
        BY <2>3, UpdateTypes DEF Over
      <3>2. QED
        BY <3>1, StateTypes, UpdateTypes DEF Working
    <2>5. /\ new.state \in {"cancelling_billing", "purging"}
          /\ new.resume = "none" /\ new.billing = gate
          /\ new.sub = del.sub
          /\ new.wait = del.wait /\ new.owed = del.owed
      BY <2>2, <2>3 DEF Operation, Provided
    <2> HIDE DEF new
    <2>6. GoodRow(new, stripe)
      BY <2>1, <2>2, <2>3, <2>4, <2>5 DEF GoodRow
    <2>7. QED
      BY <2>2, <2>5, <2>6 DEF Recovering, Open, Working
  <1>3. QED
    BY <1>1, <1>2, SettleQuiet

LEMMA PurgingQuiet ==
    ASSUME Inv, NEW w \in Workers, EnterPurging(w),
           work[w].state = "retention"
    PROVE  Inv' /\ Quiet
  <1> DEFINE age == IF del.sub = NoSub THEN 0 ELSE del.age
             new == [del EXCEPT !.state = "purging", !.attempts = 0,
                                !.age = age, !.retry = 0, !.lease = 0]
  <1>1. Settle(w, new) /\ UNCHANGED <<orgVars, stripeVars, crashes>>
    BY DEF EnterPurging
  <1>2. ASSUME Applies(w, new)
        PROVE  /\ GoodRow(new, stripe)
               /\ new.state \in Open
               /\ Recovering(new) <=> Recovering(del)
    <2>1. work[w].current /\ ConstraintsHold(new)
      BY <1>2 DEF Applies
    <2>2. del.state = "retention" /\ del.resume = "none" /\ del.wait = 0
      BY <2>1, Current
    <2>3. GoodRow(del, stripe) /\ del \in Operation
      BY DEF Inv, GoodRow
    <2>4. new \in Operation
      <3>1. age \in 0..(FreshTime + 1)
        BY <2>3, Values DEF Operation
      <3>2. QED
        BY <2>3, <3>1, StateTypes, UpdateTypes DEF Working
    <2>5. /\ new.state = "purging" /\ new.resume = "none"
          /\ new.sub = del.sub /\ new.billing = del.billing
          /\ new.wait = del.wait /\ new.owed = del.owed
      BY <2>2, <2>3 DEF Operation
    <2> HIDE DEF new
    <2>6. GoodRow(new, stripe)
      BY <2>1, <2>2, <2>3, <2>4, <2>5 DEF GoodRow
    <2>7. QED
      BY <2>2, <2>5, <2>6 DEF Recovering, Open, Working
  <1>3. QED
    BY <1>1, <1>2, SettleQuiet

-----------------------------------------------------------------------------
(* Every step keeps the invariant, the promise and the frozen billing.      *)

Kept == Inv' /\ [Promise!Next]_<<life, Intent>> /\ Frozen

LEMMA QuietKept == Inv' /\ Quiet => Kept
  BY DEF Kept, Quiet, Frozen

LEMMA RecoveryKept ==
    ASSUME Inv, NEW w \in Workers, NEW status, FinishRecovery(w, status),
           work[w].state = "recovering",
           work[w].sub # NoSub /\ Gate(status) \in Over
               => stripe[work[w].sub] \in Ends
    PROVE  Kept
  <1> DEFINE new == [Provided(del, Gate(status)) EXCEPT !.state = "cancelled",
                          !.attempts = 0, !.retry = 0, !.lease = 0]
  <1>1. /\ Settle(w, new)
        /\ IF Applies(w, new)
           THEN life' = "active" /\ tier' = EntitlementTier(status)
           ELSE UNCHANGED <<life, tier>>
        /\ UNCHANGED <<linked, stripeVars, crashes>>
    BY DEF FinishRecovery
  <1>2. CASE ~Applies(w, new)
    <2>1. UNCHANGED <<orgVars, stripeVars, crashes>>
      BY <1>1, <1>2 DEF orgVars
    <2> HIDE DEF new
    <2>2. QED
      BY <1>1, <1>2, <2>1, SettleQuiet, QuietKept
  <1>3. CASE Applies(w, new)
    <2>1. work[w].current /\ ConstraintsHold(new)
      BY <1>3 DEF Applies
    <2>2. /\ del.state = "recovering" /\ del.resume = "none"
          /\ del.sub = work[w].sub /\ life = "deleting"
      BY <2>1, Current
    <2>3. GoodRow(del, stripe) /\ del \in Operation
      BY DEF Inv, GoodRow
    <2>4. new \in Operation
      <3>1. Provided(del, Gate(status)) \in Operation
        BY <2>3, UpdateTypes, GateFacts
      <3>2. QED
        BY <3>1, StateTypes, UpdateTypes
    <2>5. /\ new.state = "cancelled" /\ new.resume = "none"
          /\ new.sub = del.sub /\ new.billing = Gate(status)
          /\ new.wait = del.wait /\ new.owed = del.owed
      BY <2>2, <2>3 DEF Operation, Provided
    <2> HIDE DEF new
    <2>6. GoodRow(new, stripe)
      BY <2>1, <2>2, <2>3, <2>4, <2>5 DEF GoodRow
    <2>7. /\ GoodRow(del', stripe')
          /\ work' \in [Workers -> Work]
          /\ \A v \in Workers : GoodWork(work'[v], del', stripe')
      BY <1>1, <2>6, SettleRows DEF stripeVars
    <2>8. del' = new /\ life' = "active" /\ tier' \in {"free", "team"}
      BY <1>1, <1>3 DEF Settle, EntitlementTier
    <2>9. OrgTypes' /\ LifecycleAgrees'
      BY <1>1, <2>5, <2>8
         DEF Inv, OrgTypes, LifecycleAgrees, Open, Working, stripeVars
    <2>10. Promise!Recover
      BY <2>2, <2>8 DEF Promise!Recover, Intent, Recovering
    <2>11. QED
      BY <2>2, <2>7, <2>8, <2>9, <2>10
         DEF Kept, Inv, AllWork, Promise!Next, Frozen
  <1>4. QED
    BY <1>2, <1>3

LEMMA PurgeKept ==
    ASSUME Inv, NEW w \in Workers, Purge(w)
    PROVE  Kept
  <1>1. CASE ~(work[w].current /\ PurgeGatesHold)
    BY <1>1, FailQuiet, QuietKept DEF Purge
  <1>2. CASE work[w].current /\ PurgeGatesHold
    <2> DEFINE new == [del EXCEPT !.state = "completed", !.lease = 0]
    <2>1. /\ Settle(w, new) /\ UNCHANGED <<stripeVars, crashes>>
          /\ life' = "deleted" /\ tier' = "free" /\ linked' = NoSub
      BY <1>2 DEF Purge
    <2>2. /\ del.state = "purging" /\ del.resume = "none" /\ del.wait = 0
          /\ del.billing \in Over /\ life = "deleting"
      BY <1>2, Current DEF PurgeGatesHold
    <2>3. GoodRow(del, stripe) /\ del \in Operation
      BY DEF Inv, GoodRow
    <2>4. new \in Operation
      BY <2>3, StateTypes, UpdateTypes
    <2>5. /\ new.state = "completed" /\ new.resume = del.resume
          /\ new.sub = del.sub /\ new.billing = del.billing
          /\ new.source = del.source /\ new.actor = del.actor
          /\ new.wait = del.wait /\ new.owed = del.owed
      BY <2>3 DEF Operation
    <2> HIDE DEF new
    <2>6. ConstraintsHold(new)
      BY <2>2, <2>3, <2>5 DEF GoodRow, ConstraintsHold
    <2>7. GoodRow(new, stripe)
      BY <2>2, <2>3, <2>4, <2>5, <2>6 DEF GoodRow
    <2>8. /\ GoodRow(del', stripe')
          /\ work' \in [Workers -> Work]
          /\ \A v \in Workers : GoodWork(work'[v], del', stripe')
      BY <2>1, <2>7, SettleRows DEF stripeVars
    <2>9. del' = new
      BY <1>2, <2>1, <2>6 DEF Settle, Applies
    <2>10. OrgTypes' /\ LifecycleAgrees'
      BY <2>1, <2>5, <2>9
         DEF Inv, OrgTypes, LifecycleAgrees, Open, Working, stripeVars
    <2>11. Promise!Purge
      BY <2>1, <2>2 DEF Promise!Purge, Intent, Recovering
    <2>12. QED
      BY <2>1, <2>2, <2>8, <2>10, <2>11
         DEF Kept, Inv, AllWork, Promise!Next, Frozen
  <1>3. QED
    BY <1>1, <1>2

-----------------------------------------------------------------------------
(* Owners, the operator and the clock                                       *)

LEMMA RequestKept ==
    ASSUME Inv, Request
    PROVE  Kept
  <1>1. /\ life = "active" /\ life' = "deleting"
        /\ UNCHANGED <<tier, linked, work, stripe, notice, crashes>>
    BY DEF Request, stripeVars
  <1>2. /\ del'.state = "requested" /\ del'.resume = "none"
        /\ del'.sub = linked /\ del'.billing = "none"
        /\ del'.source = "none" /\ del'.actor = FALSE
        /\ del'.owed = del'.wait
    BY DEF Request, NoOperation
  <1>3. linked \in Subs \cup {NoSub} /\ (linked # NoSub => stripe[linked] # "none")
    BY DEF Inv, OrgTypes
  <1>4. del' \in Operation
    BY <1>3, Values DEF Request, NoOperation, Operation, Open, Working
  <1>5. GoodRow(del', stripe')
    BY <1>1, <1>2, <1>3, <1>4 DEF GoodRow, ConstraintsHold, Over
  <1>6. ASSUME NEW w \in Workers
        PROVE  GoodWork(work'[w], del', stripe')
    <2>1. ~work[w].current
      BY <1>1, Current
    <2>2. GoodWork(work[w], del, stripe)
      BY DEF Inv, AllWork
    <2>3. QED
      BY <1>1, <2>1, <2>2 DEF GoodWork
  <1>7. OrgTypes' /\ LifecycleAgrees'
    BY <1>1, <1>2 DEF Inv, OrgTypes, LifecycleAgrees, Open, Working
  <1>8. Promise!Request
    BY <1>1, <1>2 DEF Promise!Request, Intent, Recovering
  <1>9. QED
    BY <1>1, <1>5, <1>6, <1>7, <1>8
       DEF Kept, Inv, AllWork, Promise!Next, Frozen

(* An accepted change of an open operation by somebody who is no worker.    *)
LEMMA OverrideKept ==
    ASSUME Inv, del.state \in Open, work' = Superseded,
           UNCHANGED <<orgVars, stripeVars, crashes>>,
           GoodRow(del', stripe), del'.state \in Open,
           Recovering(del) => Recovering(del')
    PROVE  Kept
  <1>1. life = "deleting" /\ OrgTypes /\ LifecycleAgrees
    BY DEF Inv, LifecycleAgrees
  <1>2. UNCHANGED <<life, tier, linked, stripe, notice, crashes>>
    BY DEF orgVars, stripeVars
  <1>3. OrgTypes' /\ LifecycleAgrees'
    BY <1>1, <1>2 DEF OrgTypes, LifecycleAgrees, Open, Working
  <1>4. Inv'
    BY <1>2, <1>3, Overtaken DEF Inv, AllWork
  <1>5. Intent' = Intent \/ Promise!Cancel
    BY <1>1, <1>2 DEF Intent, Promise!Cancel
  <1>6. QED
    BY <1>2, <1>4, <1>5 DEF Kept, Promise!Next, Frozen

LEMMA RetryKept ==
    ASSUME Inv, Retry
    PROVE  Kept
  <1>1. GoodRow(del, stripe) /\ del \in Operation /\ del.state = "failed"
    BY DEF Inv, GoodRow, Retry
  <1>2. del.resume \in Working
    BY <1>1 DEF GoodRow, ConstraintsHold, Operation
  <1>3. /\ del'.state = del.resume /\ del'.resume = "none"
        /\ del'.sub = del.sub /\ del'.billing = del.billing
        /\ del'.source = del.source /\ del'.actor = del.actor
        /\ del'.wait = del.wait /\ del'.owed = del.owed
    BY <1>1 DEF Retry, Operation
  <1>4. del' \in Operation
    BY <1>1, <1>2, Values DEF Retry, Operation, Open
  <1>5. ConstraintsHold(del')
    BY <1>1, <1>2, <1>3 DEF GoodRow, ConstraintsHold, Working
  <1>6. GoodRow(del', stripe)
    BY <1>1, <1>2, <1>3, <1>4, <1>5 DEF GoodRow, Working
  <1>7. QED
    BY <1>1, <1>2, <1>3, <1>6, OverrideKept DEF Retry, Open, Recovering

LEMMA CancelKept ==
    ASSUME Inv, Cancel
    PROVE  Kept
  <1>1. GoodRow(del, stripe) /\ del \in Operation /\ del.state \in Open
    BY DEF Inv, GoodRow, Cancel
  <1>2. /\ del'.state = "recovering" /\ del'.resume = "none"
        /\ del'.sub = del.sub /\ del'.billing = del.billing
        /\ del'.source = del.source /\ del'.actor = del.actor
        /\ del'.wait = del.wait /\ del'.owed = del.owed
    BY <1>1 DEF Cancel, Operation
  <1>3. del' \in Operation
    BY <1>1, Values DEF Cancel, Operation, Open, Working
  <1>4. GoodRow(del', stripe)
    BY <1>1, <1>2, <1>3 DEF GoodRow, ConstraintsHold
  <1>5. QED
    BY <1>1, <1>2, <1>4, OverrideKept DEF Cancel, Open, Working, Recovering

LEMMA ObservationKept ==
    ASSUME Inv, NEW age \in 0..(FreshTime + 1), RecordOperatorObservation(age)
    PROVE  Kept
  <1>1. /\ GoodRow(del, stripe) /\ del \in Operation /\ del.state \in Open
        /\ ~Recovering(del) /\ del.sub # NoSub
        /\ Gate(stripe[del.sub]) \in Over
    BY DEF Inv, GoodRow, RecordOperatorObservation, Recovering
  <1>2. /\ del'.state = "retention" /\ del'.resume = "none"
        /\ del'.sub = del.sub /\ del'.billing = Gate(stripe[del.sub])
        /\ del'.source = "operator" /\ del'.actor = TRUE
        /\ del'.wait = del.wait /\ del'.owed = del.owed
    BY <1>1 DEF RecordOperatorObservation, Operation
  <1>3. Gate(stripe[del.sub]) \in {"blocking", "terminal", "missing"}
    BY GateFacts
  <1>4. del' \in Operation
    BY <1>1, <1>3, Values
       DEF RecordOperatorObservation, Operation, Open, Working
  <1>5. stripe[del.sub] \in Ends
    <2>1. del.sub \in Subs
      BY <1>1 DEF Operation
    <2>2. stripe[del.sub] \in Statuses \ {"none"}
      BY <1>1, <2>1 DEF GoodRow, Inv, OrgTypes
    <2>3. QED
      BY <1>1, <2>2, GateFacts
  <1>6. GoodRow(del', stripe)
    BY <1>1, <1>2, <1>4, <1>5 DEF GoodRow, ConstraintsHold, Over
  <1>7. QED
    BY <1>1, <1>2, <1>6, OverrideKept
       DEF RecordOperatorObservation, Open, Working

LEMMA TickKept ==
    ASSUME Inv, Tick
    PROVE  Kept
  <1>1. /\ GoodRow(del, stripe) /\ del \in Operation
        /\ UNCHANGED <<life, tier, linked, work, stripe, notice, crashes>>
    BY DEF Inv, GoodRow, Tick, orgVars, stripeVars
  <1>2. /\ Down(del.lease) \in 0..LeaseTime
        /\ Down(del.retry) \in Nat
        /\ Down(del.wait) \in 0..RetentionTime
        /\ del.wait = 0 => Down(del.wait) = 0
        /\ del.owed = del.wait
        /\ (IF del.billing = "none" \/ del.age > FreshTime
            THEN del.age ELSE del.age + 1) \in 0..(FreshTime + 1)
    BY <1>1, TimeAssumption DEF Operation, Down, GoodRow
  <1>3. /\ del'.state = del.state /\ del'.resume = del.resume
        /\ del'.sub = del.sub /\ del'.billing = del.billing
        /\ del'.source = del.source /\ del'.actor = del.actor
        /\ del.wait = 0 => del'.wait = 0
        /\ del'.owed = del'.wait
    BY <1>1, <1>2 DEF Tick, Operation
  <1>4. del' \in Operation
    BY <1>1, <1>2 DEF Tick, Operation
  <1>5. GoodRow(del', stripe')
    BY <1>1, <1>3, <1>4 DEF GoodRow, ConstraintsHold
  <1>6. ASSUME NEW w \in Workers
        PROVE  GoodWork(work'[w], del', stripe')
    <2>1. GoodWork(work[w], del, stripe)
      BY DEF Inv, AllWork
    <2>2. QED
      BY <1>1, <1>3, <2>1 DEF GoodWork
  <1>7. Inv'
    BY <1>1, <1>3, <1>5, <1>6 DEF Inv, AllWork, OrgTypes, LifecycleAgrees
  <1>8. Intent' = Intent
    BY <1>1, <1>3 DEF Intent, Recovering
  <1>9. QED
    BY <1>1, <1>7, <1>8 DEF Kept, Frozen

-----------------------------------------------------------------------------
(* Workers that have not settled yet, and the provider                      *)

(* Only the record of one worker changes, and the provider moves onward.    *)
LEMMA WorkKept ==
    ASSUME Inv, NEW w \in Workers, NEW k,
           work' = [work EXCEPT ![w] = k], GoodWork(k, del, stripe'),
           UNCHANGED <<orgVars, del>>,
           stripe' \in [Subs -> Statuses], Onward(stripe, stripe'),
           notice' \subseteq Subs, crashes' \in 0..MaxCrashes
    PROVE  Kept
  <1>1. UNCHANGED <<life, tier, linked, del>>
    BY DEF orgVars
  <1>2. GoodRow(del', stripe')
    BY <1>1, OnwardKeeps DEF Inv
  <1>3. ASSUME NEW v \in Workers
        PROVE  GoodWork(work'[v], del', stripe')
    <2>1. GoodWork(work[v], del, stripe)
      BY DEF Inv, AllWork
    <2>2. GoodWork(work[v], del, stripe')
      BY <2>1, OnwardKeeps
    <2>3. QED
      BY <1>1, <2>2 DEF Inv
  <1>4. work' \in [Workers -> Work]
    BY DEF Inv, GoodWork
  <1>5. OrgTypes'
    BY <1>1 DEF Inv, OrgTypes, Onward
  <1>6. Inv'
    BY <1>1, <1>2, <1>3, <1>4, <1>5 DEF Inv, AllWork, LifecycleAgrees
  <1>7. QED
    BY <1>1, <1>6 DEF Kept, Frozen, Intent

LEMMA StayOnward == \A st : Onward(st, st)
  BY DEF Onward

LEMMA ClaimKept ==
    ASSUME Inv, NEW w \in Workers, Claim(w)
    PROVE  Kept
  <1> DEFINE k == [pc |-> "claimed", state |-> del.state, sub |-> del.sub,
                   answer |-> "none", current |-> TRUE]
  <1>1. /\ Due /\ work' = [Superseded EXCEPT ![w] = k]
        /\ del' = [del EXCEPT !.lease = LeaseTime,
                              !.attempts = AttemptsAfterClaim]
        /\ UNCHANGED <<life, tier, linked, stripe, notice, crashes>>
    BY DEF Claim, orgVars, stripeVars
  <1>2. GoodRow(del, stripe) /\ del \in Operation
    BY DEF Inv, GoodRow
  <1>3. AttemptsAfterClaim \in Tries
    BY <1>2, RetryAssumption
       DEF AttemptsAfterClaim, OneMoreAttempt, LadderEnded, Operation, Tries
  <1>4. /\ del'.state = del.state /\ del'.resume = del.resume
        /\ del'.sub = del.sub /\ del'.billing = del.billing
        /\ del'.source = del.source /\ del'.actor = del.actor
        /\ del'.wait = del.wait /\ del'.owed = del.owed
    BY <1>1, <1>2 DEF Operation
  <1>5. del' \in Operation
    BY <1>1, <1>2, <1>3, Values DEF Operation
  <1>6. GoodRow(del', stripe')
    BY <1>1, <1>2, <1>4, <1>5 DEF GoodRow, ConstraintsHold
  <1>7. /\ del.state \in Working
        /\ del.state \in {"retention", "purging"} => del.wait = 0
    BY <1>1 DEF Due, Working
  <1>8. k \in Work /\ GoodWork(k, del', stripe')
    <2>1. k \in Work
      BY <1>2, <1>7 DEF Work, Operation, Statuses
    <2>2. QED
      BY <1>1, <1>2, <1>4, <1>7, <2>1 DEF GoodWork, GoodRow
  <1> HIDE DEF k
  <1>9. \A v \in Workers : [work[v] EXCEPT !.current = FALSE] \in Work
    BY DEF Inv, Work
  <1>10. ASSUME NEW v \in Workers
         PROVE  GoodWork(work'[v], del', stripe')
    <2>1. CASE v = w
      BY <1>1, <1>8, <2>1 DEF Superseded
    <2>2. CASE v # w
      <3>1. work'[v] = [work[v] EXCEPT !.current = FALSE]
        BY <1>1, <2>2 DEF Superseded
      <3>2. QED
        BY <1>1, <3>1, StaleWork DEF Inv, AllWork
    <2>3. QED
      BY <2>1, <2>2
  <1>11. work' \in [Workers -> Work]
    BY <1>1, <1>8, <1>9 DEF Superseded
  <1>12. Inv'
    BY <1>1, <1>4, <1>6, <1>10, <1>11
       DEF Inv, AllWork, OrgTypes, LifecycleAgrees
  <1>13. Intent' = Intent
    BY <1>1, <1>4 DEF Intent, Recovering
  <1>14. QED
    BY <1>1, <1>12, <1>13 DEF Kept, Frozen

(* What a worker in the middle of a call knows.                             *)
LEMMA Calling ==
    ASSUME Inv, NEW w \in Workers, work[w].pc # "idle", work[w].sub # NoSub
    PROVE  /\ work[w].sub \in Subs
           /\ stripe[work[w].sub] \in Statuses \ {"none"}
           /\ work[w] \in Work
           /\ GoodWork(work[w], del, stripe)
  BY DEF Inv, AllWork, GoodWork, Work, OrgTypes

LEMMA LookupKept ==
    ASSUME Inv, NEW w \in Workers, Lookup(w)
    PROVE  Kept
  <1>1. /\ work[w].pc = "claimed" /\ work[w].sub # NoSub
        /\ UNCHANGED <<orgVars, del, stripe, notice, crashes>>
    BY DEF Lookup, Holds, stripeVars
  <1>2. /\ work[w].sub \in Subs
        /\ stripe[work[w].sub] \in Statuses \ {"none"}
        /\ work[w] \in Work /\ GoodWork(work[w], del, stripe)
    BY <1>1, Calling
  <1>3. PICK answer \in Answers(work[w].sub), pc \in {"delete", "finish"} :
            work' = [work EXCEPT ![w].answer = answer, ![w].pc = pc]
    BY DEF Lookup
  <1> DEFINE k == [work[w] EXCEPT !.answer = answer, !.pc = pc]
  <1>4. work' = [work EXCEPT ![w] = k]
    BY <1>3 DEF Inv
  <1>5. answer \in Failures \/ answer = stripe[work[w].sub]
    BY DEF Answers
  <1>6. k \in Work /\ k.pc = pc /\ k.answer = answer /\ k.sub = work[w].sub
        /\ k.state = work[w].state /\ k.current = work[w].current
    BY <1>2, <1>5 DEF Work
  <1> HIDE DEF k
  <1>7. GoodWork(k, del, stripe)
    <2>1. answer \notin Failures /\ Gate(answer) \in Over
             => stripe[work[w].sub] \in Ends
      BY <1>2, <1>5, GateFacts
    <2>2. QED
      BY <1>1, <1>2, <1>6, <2>1 DEF GoodWork
  <1>8. QED
    BY <1>1, <1>4, <1>7, WorkKept, StayOnward DEF Inv, OrgTypes

LEMMA CancelAtProviderKept ==
    ASSUME Inv, NEW w \in Workers, CancelAtProvider(w)
    PROVE  Kept
  <1>1. /\ work[w].pc = "delete" /\ UNCHANGED <<orgVars, del, crashes>>
    BY DEF CancelAtProvider
  <1>2. /\ work[w].sub \in Subs /\ work[w].sub # NoSub
        /\ stripe[work[w].sub] \in Statuses \ {"none"}
        /\ work[w] \in Work /\ GoodWork(work[w], del, stripe)
    BY <1>1, Calling DEF Inv, AllWork, GoodWork
  <1>3. /\ stripe' \in [Subs -> Statuses] /\ Onward(stripe, stripe')
        /\ notice' \subseteq Subs
    <2>1. CASE stripe' = [stripe EXCEPT ![work[w].sub] = "ended"]
               /\ notice' = notice \cup {work[w].sub}
      BY <1>2, <2>1 DEF Inv, OrgTypes, Onward, Ends, Statuses
    <2>2. CASE UNCHANGED stripeVars
      BY <2>2, StayOnward DEF Inv, OrgTypes, stripeVars
    <2>3. QED
      BY <2>1, <2>2 DEF CancelAtProvider
  <1>4. PICK reply \in Failures \cup {"ok"} :
            work' = [work EXCEPT ![w].pc = "relook", ![w].answer = reply]
    BY DEF CancelAtProvider, Failures
  <1> DEFINE k == [work[w] EXCEPT !.pc = "relook", !.answer = reply]
  <1>5. work' = [work EXCEPT ![w] = k]
    BY <1>4 DEF Inv
  <1>6. k \in Work /\ k.pc = "relook" /\ k.answer = reply
        /\ k.sub = work[w].sub
        /\ k.state = work[w].state /\ k.current = work[w].current
    BY <1>2 DEF Work
  <1> HIDE DEF k
  <1>7. GoodWork(k, del, stripe')
    BY <1>1, <1>2, <1>3, <1>6 DEF GoodWork, Onward
  <1>8. QED
    BY <1>1, <1>3, <1>5, <1>7, WorkKept DEF Inv, OrgTypes

LEMMA RelookKept ==
    ASSUME Inv, NEW w \in Workers, Relook(w)
    PROVE  Kept
  <1>1. /\ work[w].pc = "relook"
        /\ UNCHANGED <<orgVars, del, stripe, notice, crashes>>
    BY DEF Relook, stripeVars
  <1>2. /\ work[w].sub \in Subs /\ work[w].sub # NoSub
        /\ stripe[work[w].sub] \in Statuses \ {"none"}
        /\ work[w] \in Work /\ GoodWork(work[w], del, stripe)
    BY <1>1, Calling DEF Inv, AllWork, GoodWork
  <1>3. PICK fresh \in Answers(work[w].sub) :
            work' = [work EXCEPT
              ![w].pc = "finish",
              ![w].answer =
                  IF \/ work[w].answer = "ok"
                     \/ fresh \notin Failures /\ Gate(fresh) \in Over
                  THEN fresh ELSE work[w].answer]
    BY DEF Relook
  <1> DEFINE last == IF \/ work[w].answer = "ok"
                        \/ fresh \notin Failures /\ Gate(fresh) \in Over
                     THEN fresh ELSE work[w].answer
             k == [work[w] EXCEPT !.pc = "finish", !.answer = last]
  <1>4. work' = [work EXCEPT ![w] = k]
    BY <1>3 DEF Inv
  <1>5. fresh \in Failures \/ fresh = stripe[work[w].sub]
    BY DEF Answers
  <1>6. last \in Statuses \cup Failures \cup {"ok"}
    BY <1>2, <1>5 DEF Work
  <1>7. k \in Work /\ k.pc = "finish" /\ k.answer = last
        /\ k.sub = work[w].sub /\ k.state = work[w].state
        /\ k.current = work[w].current
    BY <1>2, <1>6 DEF Work
  <1>8. last \notin Failures /\ Gate(last) \in Over
            => stripe[work[w].sub] \in Ends
    <2>1. work[w].answer \in Failures \cup {"ok"}
      BY <1>1, <1>2 DEF GoodWork
    <2>2. last \in Failures \/ last = stripe[work[w].sub]
      BY <1>5, <2>1
    <2>3. QED
      BY <1>2, <2>2, GateFacts
  <1> HIDE DEF k, last
  <1>9. GoodWork(k, del, stripe)
    BY <1>1, <1>2, <1>7, <1>8 DEF GoodWork
  <1>10. QED
    BY <1>1, <1>4, <1>9, WorkKept, StayOnward DEF Inv, OrgTypes

LEMMA FinishKept ==
    ASSUME Inv, NEW w \in Workers, Finish(w)
    PROVE  Kept
  <1>1. work[w].pc = "finish" /\ GoodWork(work[w], del, stripe)
    BY DEF Finish, Inv, AllWork
  <1>2. CASE work[w].answer \in Failures
                /\ HandleProviderError(w, work[w].answer)
    BY <1>2, ErrorQuiet, QuietKept
  <1>3. CASE work[w].answer \notin Failures
    <2>1. Gate(work[w].answer) \in Over => stripe[work[w].sub] \in Ends
      BY <1>1, <1>3 DEF GoodWork
    <2>2. Gate(work[w].answer) \in {"blocking"} \cup Over
      BY GateFacts DEF Over
    <2>3. CASE work[w].state = "recovering" /\ FinishRecovery(w, work[w].answer)
      BY <2>1, <2>3, RecoveryKept
    <2>4. CASE work[w].state = "retention"
                  /\ FinishRetention(w, Gate(work[w].answer))
      BY <2>1, <2>2, <2>4, RetentionQuiet, QuietKept
    <2>5. CASE work[w].state = "cancelling_billing"
                  /\ Gate(work[w].answer) \in Over
                  /\ FinishBilling(w, Gate(work[w].answer))
      BY <2>1, <2>5, BillingQuiet, QuietKept
    <2>6. CASE HandleProviderError(w, "retry")
      BY <2>6, ErrorQuiet, QuietKept
    <2>7. QED
      BY <1>3, <2>3, <2>4, <2>5, <2>6 DEF Finish
  <1>4. QED
    BY <1>2, <1>3 DEF Finish

LEMMA UncalledKept ==
    ASSUME Inv, NEW w \in Workers,
           WithoutSubscription(w) \/ WithoutProvider(w)
    PROVE  Kept
  <1>1. "missing" \in Over
    BY DEF Over
  <1>2. CASE WithoutSubscription(w)
    <2>1. CASE Holds(w, {"cancelling_billing"}) /\ FinishBilling(w, "missing")
      BY <1>1, <1>2, <2>1, BillingQuiet, QuietKept
         DEF Holds, WithoutSubscription
    <2>2. CASE Holds(w, {"recovering"}) /\ FinishRecovery(w, "missing")
      BY <1>2, <2>2, RecoveryKept DEF Holds, WithoutSubscription
    <2>3. CASE Holds(w, {"retention"}) /\ EnterPurging(w)
      BY <2>3, PurgingQuiet, QuietKept DEF Holds
    <2>4. QED
      BY <1>2, <2>1, <2>2, <2>3 DEF WithoutSubscription
  <1>3. CASE WithoutProvider(w)
    <2>1. CASE FailAttempt(w)
      BY <2>1, FailQuiet, QuietKept
    <2>2. CASE Holds(w, {"retention"}) /\ EnterPurging(w)
      BY <2>2, PurgingQuiet, QuietKept DEF Holds
    <2>3. QED
      BY <1>3, <2>1, <2>2 DEF WithoutProvider
  <1>4. QED
    BY <1>2, <1>3

LEMMA CrashKept ==
    ASSUME Inv, NEW w \in Workers, Crash(w)
    PROVE  Kept
  <1>1. /\ work' = [work EXCEPT ![w] = NoWork]
        /\ UNCHANGED <<orgVars, del>> /\ UNCHANGED stripeVars
        /\ crashes' = crashes + 1 /\ crashes < MaxCrashes
    BY DEF Crash
  <1>2. crashes' \in 0..MaxCrashes
    BY <1>1, TimeAssumption DEF Inv, OrgTypes
  <1>3. QED
    BY <1>1, <1>2, IdleWork, WorkKept, StayOnward
       DEF Inv, OrgTypes, stripeVars

(* The provider moves on its own: no worker's record changes.               *)
LEMMA ProviderKept ==
    ASSUME Inv, UNCHANGED <<orgVars, del, work, crashes>>,
           stripe' \in [Subs -> Statuses], Onward(stripe, stripe'),
           notice' \subseteq Subs
    PROVE  Kept
  <1>1. UNCHANGED <<life, tier, linked, del, work, crashes>>
    BY DEF orgVars
  <1>2. GoodRow(del', stripe')
    BY <1>1, OnwardKeeps DEF Inv
  <1>3. ASSUME NEW v \in Workers
        PROVE  GoodWork(work'[v], del', stripe')
    BY <1>1, OnwardKeeps DEF Inv, AllWork
  <1>4. Inv'
    BY <1>1, <1>2, <1>3 DEF Inv, AllWork, LifecycleAgrees, OrgTypes, Onward
  <1>5. QED
    BY <1>1, <1>4 DEF Kept, Frozen, Intent

LEMMA ProviderStepKept ==
    ASSUME Inv, NEW s \in Subs, ProviderChanges(s) \/ ProviderForgets(s)
    PROVE  Kept
  <1>1. UNCHANGED <<orgVars, del, work, crashes>> /\ notice' \subseteq Subs
    BY DEF ProviderChanges, ProviderForgets, Inv, OrgTypes
  <1>2. CASE ProviderChanges(s)
    <2>1. PICK status \in Statuses :
              /\ <<stripe[s], status>> \in ProviderMoves
              /\ stripe' = [stripe EXCEPT ![s] = status]
      BY <1>2 DEF ProviderChanges
    <2>2. stripe[s] \notin Ends /\ status # "none"
      BY <2>1, MovesAssumption DEF Ends
    <2>3. stripe' \in [Subs -> Statuses] /\ Onward(stripe, stripe')
      BY <2>1, <2>2 DEF Inv, OrgTypes, Onward
    <2>4. QED
      BY <1>1, <2>3, ProviderKept
  <1>3. CASE ProviderForgets(s)
    <2>1. stripe' \in [Subs -> Statuses] /\ Onward(stripe, stripe')
      BY <1>3 DEF ProviderForgets, Inv, OrgTypes, Onward, Ends, Statuses
    <2>2. QED
      BY <1>1, <2>1, ProviderKept
  <1>4. QED
    BY <1>2, <1>3

LEMMA WebhookKept ==
    ASSUME Inv, NEW s \in Subs, Webhook(s)
    PROVE  Kept
  <1>1. /\ UNCHANGED <<life, del, work, stripe, crashes>>
        /\ notice' = notice \ {s}
        /\ life # "active" => UNCHANGED <<tier, linked>>
        /\ tier' \in {tier, EntitlementTier(stripe[s])}
        /\ linked' \in {linked, NoSub, s}
        /\ linked' \notin {linked, NoSub} => Gate(stripe[s]) \notin Over
    BY DEF Webhook
  <1>2. Gate(stripe[s]) \notin Over => stripe[s] # "none"
    BY DEF Gate, Over
  <1>3. OrgTypes'
    BY <1>1, <1>2, ConfigAssumption DEF Inv, OrgTypes, EntitlementTier
  <1>4. Inv'
    BY <1>1, <1>3 DEF Inv, AllWork, LifecycleAgrees
  <1>5. QED
    BY <1>1, <1>4 DEF Kept, Frozen, Intent

-----------------------------------------------------------------------------

LEMMA NextKept ==
    ASSUME Inv, [Next]_vars
    PROVE  Kept
  <1>1. CASE Request \/ Retry \/ Cancel \/ Observation
    BY <1>1, RequestKept, RetryKept, CancelKept, ObservationKept
       DEF Observation
  <1>2. CASE \E w \in Workers : WorkerStep(w) \/ Crash(w)
    <2>1. PICK w \in Workers : WorkerStep(w) \/ Crash(w)
      BY <1>2
    <2>2. CASE StartBilling(w)
      BY <2>2, StartQuiet, QuietKept
    <2>3. QED
      BY <2>1, <2>2, ClaimKept, UncalledKept, LookupKept,
         CancelAtProviderKept, RelookKept, FinishKept, PurgeKept, CrashKept
         DEF WorkerStep
  <1>3. CASE \E s \in Subs :
                ProviderChanges(s) \/ ProviderForgets(s) \/ Webhook(s)
    BY <1>3, ProviderStepKept, WebhookKept
  <1>4. CASE Tick
    BY <1>4, TickKept
  <1>5. CASE UNCHANGED vars
    <2>1. UNCHANGED <<life, tier, linked, del, work, stripe, notice, crashes>>
      BY <1>5 DEF vars, orgVars, stripeVars
    <2>2. Inv' /\ Intent' = Intent
      BY <2>1 DEF Inv, AllWork, OrgTypes, LifecycleAgrees, Intent
    <2>3. QED
      BY <2>1, <2>2 DEF Kept, Frozen
  <1>6. QED
    BY <1>1, <1>2, <1>3, <1>4, <1>5 DEF Next, Activity

(* The invariant holds throughout: rows are sound, current workers see what *)
(* they claimed, and answers that say over stay true (state_version, the    *)
(* CHECK constraints and purge_gate).                                       *)
THEOREM InvariantHolds == Spec => []Inv
  <1>1. Init => Inv
    BY InitInv
  <1>2. Inv /\ [Next]_vars => Inv'
    BY NextKept DEF Kept
  <1>3. QED
    BY <1>1, <1>2, PTL DEF Spec

(* The row, the workers and the organisation stay well typed, whatever      *)
(* steps overlap.                                                           *)
THEOREM TypeCorrect == Spec => []TypeOK
  <1>1. Inv => TypeOK
    BY DEF Inv, OrgTypes, GoodRow, TypeOK
  <1>2. QED
    BY <1>1, InvariantHolds, PTL

(* organizations.lifecycle_state and the operation's state, two tables,     *)
(* agree after any step of any worker, however late.                        *)
THEOREM LifecycleAgreement == Spec => []LifecycleAgrees
  <1>1. Inv => LifecycleAgrees
    BY DEF Inv
  <1>2. QED
    BY <1>1, InvariantHolds, PTL

(* Nothing is purged whose subscription is not over at the provider         *)
(* (purge_gate, and the gates of `purge`).                                  *)
THEOREM PurgeIsConfirmed == Spec => []PurgeConfirmed
  <1>1. Inv => PurgeConfirmed
    <2> SUFFICES ASSUME Inv, del.state = "completed", del.sub # NoSub
                 PROVE  Gate(stripe[del.sub]) \in Over
      BY DEF PurgeConfirmed
    <2>1. stripe[del.sub] \in Ends
      BY DEF Inv, GoodRow
    <2>2. QED
      BY <2>1 DEF Ends, Gate, Over
  <1>2. QED
    BY <1>1, InvariantHolds, PTL

(* The purge waits for the deadline of the request, whatever is retried,    *)
(* cancelled or observed meanwhile (purge_after).                           *)
THEOREM PurgeWaits == Spec => []PurgeAfterRetention
  <1>1. Inv => PurgeAfterRetention
    BY DEF Inv, GoodRow, PurgeAfterRetention
  <1>2. QED
    BY <1>1, InvariantHolds, PTL

(* No webhook, worker or owner changes the tier or the link of an           *)
(* organisation while it is deleting, nor after it was deleted.             *)
THEOREM BillingStaysFrozen == Spec => BillingFrozen
  <1>1. Inv /\ [Next]_vars =>
            [life # "active" /\ life' = life => UNCHANGED <<tier, linked>>]_vars
    BY NextKept DEF Kept, Frozen
  <1>2. QED
    BY <1>1, InvariantHolds, PTL DEF Spec, BillingFrozen

(* The staged deletion implements the abstract one: an accepted             *)
(* cancellation is never followed by a purge, a request never undone but by *)
(* recovery, and a deleted organisation stays deleted.                      *)
THEOREM PromiseKept == Spec => KeepsPromise
  <1>1. Init => Promise!Init
    BY InitInv DEF Init, Promise!Init
  <1>2. Inv /\ [Next]_vars => [Promise!Next]_<<life, Intent>>
    BY NextKept DEF Kept
  <1>3. QED
    BY <1>1, <1>2, InvariantHolds, PTL DEF Spec, KeepsPromise, Promise!Spec

=============================================================================
