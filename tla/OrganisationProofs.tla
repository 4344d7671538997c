------------------------- MODULE OrganisationProofs -------------------------
(***************************************************************************)
(* Organisations: theorems about the plan they are billed for, and about how *)
(* they, their projects and their environments come to exist.              *)
(***************************************************************************)
EXTENDS Billing, Provisioning, SequenceTheorems, FiniteSetTheorems, TLAPS

-----------------------------------------------------------------------------
(***************************************************************************)
(* Theorems about the webhook and the quotas, for any number of            *)
(* subscriptions, events and requests.  The argument is the watermark: a   *)
(* decision moves it past the event that made it, nothing moves it back,   *)
(* and a lookup holds the lock under which it was found to be newer.       *)
(***************************************************************************)

AnyStatus == Statuses \cup {"none", "active", "canceled"}

EventType == [id : EventIds, created : Nat \ {0}, sub : Subs,
              kind : {"checkout", "updated", "deleted"}, status : AnyStatus,
              newer : BOOLEAN]

MarkType == [created : Nat, id : Nat]

LookupType == {NoLookup} \cup [event : Nat \ {0}, status : AnyStatus]

(* What the argument needs of the variables' values.                        *)
Typed ==
    /\ clock \in Nat \ {0}
    /\ events \in Seq(EventType)
    /\ receipts \in [EventIds -> {"none", "pending", "processed"}]
    /\ watermark \in [Subs -> MarkType]
    /\ lookup \in [Subs -> LookupType]
    /\ effects \in [EventIds -> Nat]
    /\ stripe \in [Subs -> AnyStatus]
    /\ upgraded \in BOOLEAN

DistinctIds ==
    \A i, j \in DOMAIN events : events[i].id = events[j].id => i = j

(* The watermark of its subscription has passed the event.                  *)
Passed(i) == Behind(Mark(i), watermark[events[i].sub])

Done(id) == effects[id] # 0 \/ receipts[id] = "processed" \/ id \in heard

(* Whatever was decided, marked processed or reported has been passed, and  *)
(* what is being looked up has not.                                         *)
PassedWhenDone ==
    \A id \in EventIds :
        /\ effects[id] \in 0 .. 1
        /\ Done(id) => \E i \in DOMAIN events : events[i].id = id /\ Passed(i)

LookingAhead ==
    \A s \in Subs, i \in Nat \ {0} :
        lookup[s].event = i => i \in EventsOf(s) /\ ~Passed(i)

MarksAreEvents ==
    \A s \in Subs :
        watermark[s] # NoMark =>
            \E i \in EventsOf(s) : watermark[s] = Mark(i)

WebhookInv ==
    /\ Typed
    /\ DistinctIds
    /\ PassedWhenDone
    /\ LookingAhead
    /\ MarksAreEvents

-----------------------------------------------------------------------------
(* Watermarks are ordered like pairs. *)

LEMMA MarkOrder ==
  ASSUME NEW a \in MarkType, NEW b \in MarkType
  PROVE  /\ Newer(a, b) <=> ~Behind(a, b)
         /\ Behind(a, a)
         /\ \A c \in MarkType : Behind(c, b) /\ Newer(a, b) => Behind(c, a)
BY DEF MarkType, Newer, Behind

LEMMA MarkTyped ==
  ASSUME Typed, NEW i \in DOMAIN events
  PROVE  /\ events[i] \in EventType
         /\ events[i].sub \in Subs
         /\ Mark(i) \in MarkType
         /\ Id(i) \in EventIds
         /\ Mark(i).created # 0
         /\ i \in Nat \ {0}
<1>1. events \in Seq(EventType)
  BY DEF Typed
<1>2. DOMAIN events = 1 .. Len(events) /\ Len(events) \in Nat
  BY <1>1
<1>3. events[i] \in EventType /\ i \in Nat \ {0}
  BY <1>1, <1>2
<1>4. /\ events[i].id \in EventIds
      /\ events[i].created \in Nat \ {0}
      /\ events[i].sub \in Subs
  BY <1>3 DEF EventType
<1>5. Mark(i) = [created |-> events[i].created, id |-> events[i].id]
  BY DEF Mark
<1>6. events[i].id \in Nat
  BY <1>4, BillingAssumption
<1>7. Mark(i) \in MarkType /\ Mark(i).created # 0
  BY <1>4, <1>5, <1>6 DEF MarkType
<1>8. Id(i) \in EventIds
  BY <1>4 DEF Id
<1> QED BY <1>3, <1>4, <1>7, <1>8

(* A decision moves the watermark past its event and past no fewer.         *)
LEMMA DecisionPasses ==
  ASSUME WebhookInv, NEW i \in DOMAIN events, ~Passed(i), UNCHANGED events,
         watermark' = [watermark EXCEPT ![events[i].sub] = Mark(i)]
  PROVE  /\ Passed(i)'
         /\ \A j \in DOMAIN events : Passed(j) => Passed(j)'
<1>1. Typed
  BY DEF WebhookInv
<1>2. events[i].sub \in Subs /\ Mark(i) \in MarkType
  BY <1>1, MarkTyped
<1>3. /\ watermark'[events[i].sub] = Mark(i)
      /\ \A s \in Subs : s # events[i].sub => watermark'[s] = watermark[s]
      /\ \A s \in Subs : watermark[s] \in MarkType
  BY <1>1, <1>2 DEF Typed
<1>4. \A j \in DOMAIN events : Mark(j)' = Mark(j)
  BY DEF Mark
<1>5. Passed(i)'
  BY <1>2, <1>3, <1>4, MarkOrder DEF Passed
<1>6. ASSUME NEW j \in DOMAIN events, Passed(j)
      PROVE  Passed(j)'
  <2>1. events[j].sub \in Subs /\ Mark(j) \in MarkType
    BY <1>1, MarkTyped
  <2>2. CASE events[j].sub # events[i].sub
    BY <1>3, <1>4, <1>6, <2>1, <2>2 DEF Passed
  <2>3. CASE events[j].sub = events[i].sub
    <3>1. Newer(Mark(i), watermark[events[i].sub])
      BY <1>2, <1>3, MarkOrder DEF Passed
    <3>2. Behind(Mark(j), watermark[events[i].sub])
      BY <1>6, <2>3 DEF Passed
    <3>3. Behind(Mark(j), Mark(i))
      BY <1>2, <1>3, <2>1, <3>1, <3>2, MarkOrder
    <3> QED BY <1>3, <1>4, <2>3, <3>3 DEF Passed
  <2> QED BY <2>2, <2>3
<1> QED BY <1>5, <1>6

-----------------------------------------------------------------------------
(* What the steps of the webhook's invariant have in common. *)

(* The receipts a delivery may prune are receipts of known events.          *)
LEMMA PrunedTyped ==
  ASSUME Typed, NEW old \in SUBSET Prunable
  PROVE  /\ Pruned(old) \in [EventIds -> {"none", "pending", "processed"}]
         /\ \A id \in EventIds :
               Pruned(old)[id] = "processed" => receipts[id] = "processed"
BY DEF Typed, Pruned

(* A new event: nothing has been decided about it.                          *)
LEMMA EmitStep ==
  ASSUME WebhookInv, NEW s \in Subs, NEW kind \in {"checkout", "updated", "deleted"},
         NEW status \in AnyStatus, Emit(s, kind, status),
         stripe' \in [Subs -> AnyStatus], UNCHANGED <<clock, upgraded, deliveryVars>>
  PROVE  WebhookInv'
<1>1. PICK id \in EventIds \ {events[i].id : i \in DOMAIN events} :
         events' = Append(events, [id |-> id, created |-> clock, sub |-> s,
                                   kind |-> kind, status |-> status,
                                   newer |-> upgraded])
  BY DEF Emit
<1> DEFINE e == [id |-> id, created |-> clock, sub |-> s, kind |-> kind,
                 status |-> status, newer |-> upgraded]
<1>2. Typed
  BY DEF WebhookInv
<1>3. e \in EventType
  BY <1>2 DEF Typed, EventType
<1>4. /\ Len(events) \in Nat
      /\ DOMAIN events = 1 .. Len(events)
      /\ DOMAIN events' = 1 .. (Len(events) + 1)
      /\ events' \in Seq(EventType)
      /\ \A i \in DOMAIN events : events'[i] = events[i]
      /\ events'[Len(events) + 1] = e
  <2> HIDE DEF e
  <2>1. events \in Seq(EventType) /\ events' = Append(events, e)
    BY <1>1, <1>2 DEF e, Typed
  <2> QED BY <1>3, <2>1
<1> HIDE DEF e
<1>5. Typed'
  BY <1>2, <1>4 DEF Typed, deliveryVars
<1>6. e.id = id /\ e.sub = s /\ (\A i \in DOMAIN events : events[i].id # id)
  BY <1>1 DEF e
<1>7. DistinctIds'
  BY <1>4, <1>6 DEF WebhookInv, DistinctIds
<1>8. \A i \in DOMAIN events : /\ Mark(i)' = Mark(i) /\ Id(i)' = Id(i)
                               /\ Passed(i)' <=> Passed(i)
  BY <1>4 DEF Mark, Id, Passed, deliveryVars
<1>9. PassedWhenDone'
  <2>1. \A x \in EventIds : effects'[x] = effects[x] /\ (Done(x)' <=> Done(x))
    BY DEF deliveryVars, Done
  <2>2. ASSUME NEW x \in EventIds, Done(x)'
        PROVE  \E i \in DOMAIN events' : events'[i].id = x /\ Passed(i)'
    <3>1. PICK i \in DOMAIN events : events[i].id = x /\ Passed(i)
      BY <2>1, <2>2 DEF WebhookInv, PassedWhenDone
    <3>2. i \in DOMAIN events' /\ events'[i].id = x /\ Passed(i)'
      BY <1>4, <1>8, <3>1
    <3> QED BY <3>2
  <2> QED BY <2>1, <2>2 DEF WebhookInv, PassedWhenDone
<1>10. LookingAhead'
  <2> SUFFICES ASSUME NEW t \in Subs, NEW j \in Nat \ {0}, lookup'[t].event = j
               PROVE  j \in EventsOf(t)' /\ ~Passed(j)'
    BY DEF LookingAhead
  <2>1. j \in EventsOf(t) /\ ~Passed(j)
    BY DEF WebhookInv, LookingAhead, deliveryVars
  <2>2. j \in DOMAIN events /\ j \in EventsOf(t)'
    BY <1>4, <2>1 DEF EventsOf
  <2> QED BY <1>8, <2>1, <2>2
<1>11. MarksAreEvents'
  <2> SUFFICES ASSUME NEW t \in Subs, watermark'[t] # NoMark
               PROVE  \E i \in EventsOf(t)' : watermark'[t] = Mark(i)'
    BY DEF MarksAreEvents
  <2>1. watermark' = watermark
    BY DEF deliveryVars
  <2>2. PICK i \in EventsOf(t) : watermark[t] = Mark(i)
    BY <2>1 DEF WebhookInv, MarksAreEvents
  <2>3. i \in DOMAIN events /\ i \in EventsOf(t)'
    BY <1>4, <2>2 DEF EventsOf
  <2> QED BY <1>8, <2>1, <2>2, <2>3
<1> QED BY <1>5, <1>7, <1>9, <1>10, <1>11 DEF WebhookInv

(* A delivery that decides nothing: it may mark an event processed only if  *)
(* the event has been passed already.                                       *)
LEMMA IdleStep ==
  ASSUME WebhookInv, UNCHANGED <<events, watermark, effects>>,
         clock' \in Nat \ {0}, stripe' \in [Subs -> AnyStatus],
         upgraded' \in BOOLEAN,
         receipts' \in [EventIds -> {"none", "pending", "processed"}],
         lookup' \in [Subs -> LookupType],
         \A id \in EventIds :
            (receipts'[id] = "processed" \/ id \in heard') =>
                \/ receipts[id] = "processed" \/ id \in heard
                \/ \E i \in DOMAIN events : events[i].id = id /\ Passed(i),
         \A s \in Subs, i \in Nat \ {0} :
            lookup'[s].event = i =>
                lookup[s].event = i \/ (i \in EventsOf(s) /\ ~Passed(i))
  PROVE  WebhookInv'
<1>1. Typed'
  BY DEF WebhookInv, Typed
<1>2. DistinctIds'
  BY DEF WebhookInv, DistinctIds
<1>3. \A i : /\ Mark(i)' = Mark(i) /\ (Passed(i)' <=> Passed(i))
             /\ \A s : EventsOf(s)' = EventsOf(s)
  BY DEF Mark, Passed, EventsOf
<1>4. PassedWhenDone'
  <2>1. \A id \in EventIds :
           Done(id)' => \/ Done(id)
                        \/ \E i \in DOMAIN events : events[i].id = id /\ Passed(i)
    BY DEF Done
  <2> QED BY <1>3, <2>1 DEF WebhookInv, PassedWhenDone
<1>5. LookingAhead'
  BY <1>3 DEF WebhookInv, LookingAhead
<1>6. MarksAreEvents'
  BY <1>3 DEF WebhookInv, MarksAreEvents
<1> QED BY <1>1, <1>2, <1>4, <1>5, <1>6 DEF WebhookInv

(* A delivery that decides: its event had not been passed.                  *)
LEMMA DecideStep ==
  ASSUME WebhookInv, NEW i \in DOMAIN events, ~Passed(i),
         UNCHANGED <<events, clock, stripe, upgraded>>,
         watermark' = [watermark EXCEPT ![events[i].sub] = Mark(i)],
         effects' = [effects EXCEPT ![Id(i)] = @ + 1],
         receipts' \in [EventIds -> {"none", "pending", "processed"}],
         \A id \in EventIds :
            receipts'[id] = "processed" => receipts[id] = "processed" \/ id = Id(i),
         heard' = heard \cup {Id(i)},
         lookup' = [lookup EXCEPT ![events[i].sub] = NoLookup]
  PROVE  WebhookInv'
<1>1. Typed
  BY DEF WebhookInv
<1>2. events[i].sub \in Subs /\ Mark(i) \in MarkType /\ Id(i) \in EventIds
  BY <1>1, MarkTyped
<1>3. \A j \in DOMAIN events : Passed(j) => Passed(j)'
  BY DecisionPasses
<1>4. Passed(i)' /\ events[i].id = Id(i)
  BY DecisionPasses DEF Id
<1>5. effects[Id(i)] = 0
  <2>1. ASSUME effects[Id(i)] # 0
        PROVE  FALSE
    <3>1. PICK j \in DOMAIN events : events[j].id = Id(i) /\ Passed(j)
      BY <1>2, <2>1 DEF WebhookInv, PassedWhenDone, Done
    <3>2. j = i
      BY <1>4, <3>1 DEF WebhookInv, DistinctIds
    <3> QED BY <3>1, <3>2
  <2> QED BY <2>1
<1>6. \A x \in EventIds : effects'[x] = IF x = Id(i) THEN 1 ELSE effects[x]
  BY <1>1, <1>2, <1>5 DEF Typed
<1>7. Typed'
  <2>1. watermark' \in [Subs -> MarkType]
    BY <1>1, <1>2 DEF Typed
  <2>2. effects' \in [EventIds -> Nat]
    BY <1>1, <1>2 DEF Typed
  <2>3. NoLookup \in LookupType
    BY DEF NoLookup, LookupType, AnyStatus
  <2>4. lookup' \in [Subs -> LookupType]
    BY <1>1, <2>3 DEF Typed
  <2> QED BY <1>1, <2>1, <2>2, <2>4 DEF Typed
<1>8. DistinctIds'
  BY DEF WebhookInv, DistinctIds
<1>9. PassedWhenDone'
  <2>1. \A x \in EventIds : Done(x)' => Done(x) \/ x = Id(i)
    BY <1>6 DEF Done
  <2>2. ASSUME NEW x \in EventIds, Done(x)'
        PROVE  \E j \in DOMAIN events : events[j].id = x /\ Passed(j)'
    <3>1. CASE x = Id(i)
      BY <1>4, <3>1
    <3>2. CASE Done(x)
      BY <1>3, <3>2 DEF WebhookInv, PassedWhenDone
    <3> QED BY <2>1, <2>2, <3>1, <3>2
  <2>3. \A x \in EventIds : effects'[x] \in 0 .. 1
    BY <1>6 DEF WebhookInv, PassedWhenDone
  <2> QED BY <2>2, <2>3 DEF PassedWhenDone
<1>10. LookingAhead'
  <2> SUFFICES ASSUME NEW t \in Subs, NEW j \in Nat \ {0}, lookup'[t].event = j
               PROVE  j \in EventsOf(t)' /\ ~Passed(j)'
    BY DEF LookingAhead
  <2>1. t # events[i].sub /\ lookup'[t] = lookup[t]
    BY <1>1, <1>2 DEF NoLookup, Typed
  <2>2. j \in EventsOf(t) /\ ~Passed(j)
    BY <2>1 DEF WebhookInv, LookingAhead
  <2>3. events[j].sub = t /\ watermark'[t] = watermark[t]
    BY <1>1, <2>1, <2>2 DEF EventsOf, Typed
  <2> QED BY <2>1, <2>2, <2>3 DEF EventsOf, Passed, Mark
<1>11. MarksAreEvents'
  <2> SUFFICES ASSUME NEW t \in Subs, watermark'[t] # NoMark
               PROVE  \E j \in EventsOf(t)' : watermark'[t] = Mark(j)'
    BY DEF MarksAreEvents
  <2>1. \A j : Mark(j)' = Mark(j) /\ EventsOf(t)' = EventsOf(t)
    BY DEF Mark, EventsOf
  <2>2. CASE t = events[i].sub
    BY <1>1, <1>2, <2>1, <2>2 DEF EventsOf, Typed
  <2>3. CASE t # events[i].sub
    BY <1>1, <1>2, <2>1, <2>3 DEF WebhookInv, MarksAreEvents, Typed
  <2> QED BY <2>2, <2>3
<1> QED BY <1>7, <1>8, <1>9, <1>10, <1>11 DEF WebhookInv

-----------------------------------------------------------------------------
(* The invariant of the webhook, action by action. *)

LEMMA WebhookInit == BillingInit => WebhookInv
<1> SUFFICES ASSUME BillingInit
             PROVE  WebhookInv
  OBVIOUS
<1>1. /\ events = << >> /\ DOMAIN events = {}
      /\ events \in Seq(EventType)
  BY DEF BillingInit
<1>2. NoMark \in MarkType /\ NoLookup \in LookupType
  BY DEF NoMark, MarkType, NoLookup, LookupType, AnyStatus
<1>3. Typed
  <2>1. clock \in Nat \ {0}
    BY DEF BillingInit
  <2>5. upgraded \in BOOLEAN
    BY DEF BillingInit
  <2>2. stripe \in [Subs -> AnyStatus] /\ lookup \in [Subs -> LookupType]
    BY <1>2 DEF BillingInit, AnyStatus
  <2>3. watermark \in [Subs -> MarkType] /\ effects \in [EventIds -> Nat]
    BY <1>2 DEF BillingInit
  <2>4. receipts \in [EventIds -> {"none", "pending", "processed"}]
    BY DEF BillingInit
  <2> QED BY <1>1, <2>1, <2>2, <2>3, <2>4, <2>5 DEF Typed
<1> QED
  BY <1>1, <1>3 DEF BillingInit, WebhookInv, DistinctIds, PassedWhenDone, Done,
                    LookingAhead, MarksAreEvents, NoLookup

LEMMA DeliverStep ==
  ASSUME WebhookInv, NEW i \in DOMAIN events, Deliver(i)
  PROVE  WebhookInv'
<1> DEFINE s == events[i].sub
<1>1. Typed
  BY DEF WebhookInv
<1>2. /\ s \in Subs /\ Mark(i) \in MarkType /\ Id(i) \in EventIds
      /\ watermark[s] \in MarkType /\ i \in Nat \ {0} /\ lookup[s] \in LookupType
  BY <1>1, MarkTyped DEF Typed
<1>3. CASE Refuse(i)
  <2>1. PICK old \in SUBSET Prunable :
           receipts' = [Pruned(old) EXCEPT ![Id(i)] = IF @ = "none" THEN "pending" ELSE @]
    BY <1>3 DEF Refuse
  <2>2. /\ receipts' \in [EventIds -> {"none", "pending", "processed"}]
        /\ \A id \in EventIds : receipts'[id] = "processed" => receipts[id] = "processed"
    BY <1>1, <1>2, <2>1, PrunedTyped
  <2>3. /\ UNCHANGED <<events, watermark, effects, clock, stripe, upgraded, lookup, heard>>
    BY <1>3 DEF Refuse, providerVars
  <2>4. /\ clock' \in Nat \ {0} /\ stripe' \in [Subs -> AnyStatus]
        /\ upgraded' \in BOOLEAN /\ lookup' \in [Subs -> LookupType]
    BY <1>1, <2>3 DEF Typed
  <2>5. \A id \in EventIds :
           (receipts'[id] = "processed" \/ id \in heard') =>
               receipts[id] = "processed" \/ id \in heard
    BY <2>2, <2>3
  <2> QED BY <2>2, <2>3, <2>4, <2>5, IdleStep
<1>4. CASE Ignore(i)
  <2>1. PICK old \in SUBSET Prunable :
           /\ Pruned(old)[Id(i)] = "processed" \/ Behind(Mark(i), watermark[s])
           /\ receipts' = [Pruned(old) EXCEPT ![Id(i)] = "processed"]
    BY <1>4 DEF Ignore
  <2>2. /\ receipts' \in [EventIds -> {"none", "pending", "processed"}]
        /\ \A id \in EventIds \ {Id(i)} :
              receipts'[id] = "processed" => receipts[id] = "processed"
    BY <1>1, <1>2, <2>1, PrunedTyped
  <2>3. receipts[Id(i)] = "processed" \/ (events[i].id = Id(i) /\ Passed(i))
    BY <1>1, <1>2, <2>1, PrunedTyped DEF Passed, Id
  <2>4. /\ UNCHANGED <<events, watermark, effects, clock, stripe, upgraded, lookup>>
        /\ heard' = heard \cup {Id(i)}
    BY <1>4 DEF Ignore, Answer, providerVars
  <2>5. /\ clock' \in Nat \ {0} /\ stripe' \in [Subs -> AnyStatus]
        /\ upgraded' \in BOOLEAN /\ lookup' \in [Subs -> LookupType]
    BY <1>1, <2>4 DEF Typed
  <2>6. \A id \in EventIds :
           (receipts'[id] = "processed" \/ id \in heard') =>
               \/ receipts[id] = "processed" \/ id \in heard
               \/ \E j \in DOMAIN events : events[j].id = id /\ Passed(j)
    BY <2>2, <2>3, <2>4
  <2> QED BY <2>2, <2>4, <2>5, <2>6, IdleStep
<1>5. CASE Apply(i)
  <2>1. PICK old \in SUBSET Prunable :
           receipts' = [Pruned(old) EXCEPT ![Id(i)] = "processed"]
    BY <1>5 DEF Apply
  <2>2. /\ receipts' \in [EventIds -> {"none", "pending", "processed"}]
        /\ \A id \in EventIds :
              receipts'[id] = "processed" => receipts[id] = "processed" \/ id = Id(i)
    BY <1>1, <1>2, <2>1, PrunedTyped
  <2>3. /\ ~Passed(i) /\ lookup[s] = NoLookup
        /\ UNCHANGED <<events, clock, stripe, upgraded, lookup>>
        /\ watermark' = [watermark EXCEPT ![s] = Mark(i)]
        /\ effects' = [effects EXCEPT ![Id(i)] = @ + 1]
        /\ heard' = heard \cup {Id(i)}
    BY <1>5 DEF Apply, Answer, providerVars, Passed, LockFree
  <2>4. lookup' = [lookup EXCEPT ![s] = NoLookup]
    BY <1>1, <1>2, <2>3 DEF Typed
  <2> QED BY <2>2, <2>3, <2>4, DecideStep
<1>6. CASE LookUp(i)
  <2>1. /\ UNCHANGED <<events, watermark, effects, clock, stripe, upgraded, receipts, heard>>
        /\ lookup' = [lookup EXCEPT ![s] = [event |-> i, status |-> stripe[s]]]
        /\ ~Passed(i)
    BY <1>6 DEF LookUp, providerVars, Passed
  <2>2. [event |-> i, status |-> stripe[s]] \in LookupType
    BY <1>1, <1>2 DEF LookupType, Typed
  <2>3. /\ clock' \in Nat \ {0} /\ stripe' \in [Subs -> AnyStatus]
        /\ upgraded' \in BOOLEAN /\ lookup' \in [Subs -> LookupType]
        /\ receipts' \in [EventIds -> {"none", "pending", "processed"}]
    BY <1>1, <2>1, <2>2 DEF Typed
  <2>4. \A t \in Subs, j \in Nat \ {0} :
            lookup'[t].event = j =>
                lookup[t].event = j \/ (j \in EventsOf(t) /\ ~Passed(j))
    BY <1>1, <1>2, <2>1 DEF EventsOf, Typed
  <2> QED BY <2>1, <2>3, <2>4, IdleStep
<1> QED BY <1>3, <1>4, <1>5, <1>6 DEF Deliver

LEMMA LockStep ==
  ASSUME WebhookInv, NEW s \in Subs, Reconcile(s) \/ LookupFails(s)
  PROVE  WebhookInv'
<1>1. Typed
  BY DEF WebhookInv
<1>2. CASE Reconcile(s)
  <2> DEFINE i == lookup[s].event
  <2>1. lookup[s] \in LookupType /\ lookup[s] # NoLookup
    BY <1>1, <1>2 DEF Reconcile, LockFree, Typed
  <2>2. i \in Nat \ {0}
    BY <2>1 DEF LookupType
  <2>3. i \in EventsOf(s) /\ ~Passed(i)
    BY <2>2 DEF WebhookInv, LookingAhead
  <2>4. i \in DOMAIN events /\ events[i].sub = s /\ Id(i) \in EventIds
    BY <1>1, <2>3, MarkTyped DEF EventsOf
  <2>5. PICK old \in SUBSET Prunable :
           receipts' = [Pruned(old) EXCEPT ![Id(i)] = "processed"]
    BY <1>2 DEF Reconcile
  <2>6. /\ receipts' \in [EventIds -> {"none", "pending", "processed"}]
        /\ \A id \in EventIds :
              receipts'[id] = "processed" => receipts[id] = "processed" \/ id = Id(i)
    BY <1>1, <2>4, <2>5, PrunedTyped
  <2>7. /\ UNCHANGED <<events, clock, stripe, upgraded>>
        /\ watermark' = [watermark EXCEPT ![s] = Mark(i)]
        /\ effects' = [effects EXCEPT ![Id(i)] = @ + 1]
        /\ heard' = heard \cup {Id(i)}
        /\ lookup' = [lookup EXCEPT ![s] = NoLookup]
    BY <1>2 DEF Reconcile, Answer, providerVars
  <2> HIDE DEF i
  <2>8. /\ watermark' = [watermark EXCEPT ![events[i].sub] = Mark(i)]
        /\ lookup' = [lookup EXCEPT ![events[i].sub] = NoLookup]
    BY <2>4, <2>7
  <2> QED BY <2>3, <2>4, <2>6, <2>7, <2>8, DecideStep
<1>3. CASE LookupFails(s)
  <2>1. /\ UNCHANGED <<events, watermark, effects, clock, stripe, upgraded, receipts, heard>>
        /\ lookup' = [lookup EXCEPT ![s] = NoLookup]
    BY <1>3 DEF LookupFails, providerVars
  <2>2. NoLookup \in LookupType /\ NoLookup.event = 0
    BY DEF NoLookup, LookupType, AnyStatus
  <2>3. /\ lookup' \in [Subs -> LookupType]
        /\ \A t \in Subs, j \in Nat \ {0} :
               lookup'[t].event = j => lookup[t].event = j
    BY <1>1, <2>1, <2>2 DEF Typed
  <2>4. /\ clock' \in Nat \ {0} /\ stripe' \in [Subs -> AnyStatus]
        /\ upgraded' \in BOOLEAN
        /\ receipts' \in [EventIds -> {"none", "pending", "processed"}]
    BY <1>1, <2>1 DEF Typed
  <2>5. \A id \in EventIds :
           (receipts'[id] = "processed" \/ id \in heard') =>
               receipts[id] = "processed" \/ id \in heard
    BY <2>1
  <2> QED BY <2>1, <2>3, <2>4, <2>5, IdleStep
<1> QED BY <1>2, <1>3

(* Steps that leave the deliveries alone. *)
LEMMA QuietStep ==
  ASSUME WebhookInv, UNCHANGED <<stripe, events, heard, receipts, watermark, lookup, effects>>,
         clock' \in Nat \ {0}, upgraded' \in BOOLEAN
  PROVE  WebhookInv'
<1>1. Typed
  BY DEF WebhookInv
<1>2. /\ stripe' \in [Subs -> AnyStatus] /\ lookup' \in [Subs -> LookupType]
      /\ receipts' \in [EventIds -> {"none", "pending", "processed"}]
  BY <1>1 DEF Typed
<1>3. \A t \in Subs, j \in Nat \ {0} : lookup'[t].event = j => lookup[t].event = j
  OBVIOUS
<1>4. \A id \in EventIds :
         (receipts'[id] = "processed" \/ id \in heard') =>
             receipts[id] = "processed" \/ id \in heard
  OBVIOUS
<1> QED BY <1>2, <1>3, <1>4, IdleStep

LEMMA WebhookStep == WebhookInv /\ [BillingNext]_billingVars => WebhookInv'
<1> SUFFICES ASSUME WebhookInv, [BillingNext]_billingVars
             PROVE  WebhookInv'
  OBVIOUS
<1>1. clock \in Nat \ {0} /\ upgraded \in BOOLEAN /\ stripe \in [Subs -> AnyStatus]
  BY DEF WebhookInv, Typed
<1>2. ASSUME NEW s \in Subs, CompleteCheckout(s)
      PROVE  WebhookInv'
  <2>1. /\ Emit(s, "checkout", "active")
        /\ UNCHANGED <<clock, upgraded, deliveryVars>>
        /\ stripe' = [stripe EXCEPT ![s] = "active"]
    BY <1>2 DEF CompleteCheckout
  <2>2. stripe' \in [Subs -> AnyStatus] /\ "active" \in AnyStatus
    BY <1>1, <2>1 DEF AnyStatus
  <2> QED BY <2>1, <2>2, EmitStep
<1>3. ASSUME NEW s \in Subs, NEW status \in Statuses, ChangeStatus(s, status)
      PROVE  WebhookInv'
  <2> DEFINE kind == IF status = "canceled" THEN "deleted" ELSE "updated"
  <2>1. /\ Emit(s, kind, status)
        /\ UNCHANGED <<clock, upgraded, deliveryVars>>
        /\ stripe' = [stripe EXCEPT ![s] = status]
    BY <1>3 DEF ChangeStatus
  <2>2. kind \in {"checkout", "updated", "deleted"}
    OBVIOUS
  <2>3. stripe' \in [Subs -> AnyStatus] /\ status \in AnyStatus
    BY <1>1, <2>1 DEF AnyStatus
  <2> HIDE DEF kind
  <2> QED BY <2>1, <2>2, <2>3, EmitStep
<1>4. ASSUME Tick \/ Upgrade
      PROVE  WebhookInv'
  <2>1. UNCHANGED <<stripe, events, heard, receipts, watermark, lookup, effects>>
    BY <1>4 DEF Tick, Upgrade, deliveryVars
  <2>2. clock' \in Nat \ {0}
    BY <1>1, <1>4 DEF Tick, Upgrade
  <2>3. upgraded' \in BOOLEAN
    BY <1>1, <1>4 DEF Tick, Upgrade
  <2> QED BY <2>1, <2>2, <2>3, QuietStep
<1>5. ASSUME NEW i \in DOMAIN events, Deliver(i)
      PROVE  WebhookInv'
  BY <1>5, DeliverStep
<1>6. ASSUME NEW s \in Subs, Reconcile(s) \/ LookupFails(s)
      PROVE  WebhookInv'
  BY <1>6, LockStep
<1>7. ASSUME Deploy \/ Quota \/ Deletion
      PROVE  WebhookInv'
  <2>1. UNCHANGED <<stripe, clock, upgraded, events, heard, receipts, watermark, lookup, effects>>
    BY <1>7 DEF Deploy, Quota, CreateCheckout, EndTrial, Admit, Insert, Rollback,
                Deletion, Freeze, LookUpForRecovery, CommitRecovery, providerVars, deliveryVars
  <2> QED BY <1>1, <2>1, QuietStep
<1>8. CASE UNCHANGED billingVars
  <2>1. UNCHANGED <<stripe, clock, upgraded, events, heard, receipts, watermark, lookup, effects>>
    BY <1>8 DEF billingVars, providerVars, deliveryVars
  <2> QED BY <1>1, <2>1, QuietStep
<1> QED BY <1>2, <1>3, <1>4, <1>5, <1>6, <1>7, <1>8 DEF BillingNext, Provider

(* The invariant of the webhook holds in every state: a decided event has   *)
(* been passed, whatever is redelivered, reordered, refused or pruned.      *)
THEOREM WebhookInvariant == BillingSpec => []WebhookInv
<1> QED BY WebhookInit, WebhookStep, PTL DEF BillingSpec

(* An event decides the tier at most once, through repeats, lost answers,   *)
(* failed lookups and receipts pruned early.                                *)
THEOREM DecidedOnce == BillingSpec => []AppliedOnce
<1>1. WebhookInv => AppliedOnce
  BY DEF WebhookInv, PassedWhenDone, AppliedOnce
<1> QED BY <1>1, WebhookInvariant, PTL

(* The watermark of a subscription only moves to newer events, although a   *)
(* reconciliation compares at one step and writes at a later one.           *)
THEOREM WatermarkNeverBack == BillingSpec => WatermarkForward
<1> DEFINE Forward == \A s \in Subs : watermark'[s] # watermark[s]
                                        => Newer(watermark'[s], watermark[s])
<1>1. WebhookInv /\ [BillingNext]_billingVars => [Forward]_billingVars
  <2> SUFFICES ASSUME WebhookInv, BillingNext, NEW s \in Subs,
                      watermark'[s] # watermark[s]
               PROVE  Newer(watermark'[s], watermark[s])
    OBVIOUS
  <2>1. Typed
    BY DEF WebhookInv
  <2>2. ASSUME NEW i \in DOMAIN events, ~Passed(i),
               watermark' = [watermark EXCEPT ![events[i].sub] = Mark(i)]
        PROVE  Newer(watermark'[s], watermark[s])
    <3>1. /\ events[i].sub \in Subs /\ Mark(i) \in MarkType
          /\ watermark[s] \in MarkType
      BY <2>1, MarkTyped DEF Typed
    <3>2. s = events[i].sub /\ watermark'[s] = Mark(i)
      BY <2>1, <2>2, <3>1 DEF Typed
    <3> QED BY <2>2, <3>1, <3>2, MarkOrder DEF Passed
  <2>3. ASSUME NEW i \in DOMAIN events, Deliver(i)
        PROVE  Newer(watermark'[s], watermark[s])
    <3>1. CASE Apply(i)
      BY <2>2, <3>1 DEF Apply, Passed
    <3>2. CASE Refuse(i) \/ Ignore(i) \/ LookUp(i)
      BY <3>2 DEF Refuse, Ignore, LookUp
    <3> QED BY <2>3, <3>1, <3>2 DEF Deliver
  <2>4. ASSUME NEW t \in Subs, Reconcile(t)
        PROVE  Newer(watermark'[s], watermark[s])
    <3>1. lookup[t] \in LookupType /\ lookup[t] # NoLookup
      BY <2>1, <2>4 DEF Reconcile, LockFree, Typed
    <3>2. PICK i \in Nat \ {0} : i = lookup[t].event
      BY <3>1 DEF LookupType
    <3>3. i \in DOMAIN events /\ events[i].sub = t /\ ~Passed(i)
      BY <3>2 DEF WebhookInv, LookingAhead, EventsOf
    <3>4. watermark' = [watermark EXCEPT ![t] = Mark(i)]
      BY <2>4, <3>2 DEF Reconcile
    <3> QED BY <2>2, <3>3, <3>4
  <2>5. ASSUME NEW t \in Subs, LookupFails(t)
        PROVE  watermark' = watermark
    BY <2>5 DEF LookupFails
  <2>6. ASSUME Provider \/ Deploy \/ Quota \/ Deletion
        PROVE  watermark' = watermark
    BY <2>6 DEF Provider, CompleteCheckout, ChangeStatus, Tick, Upgrade, Deploy, Quota,
                CreateCheckout, EndTrial, Admit, Insert, Rollback, Deletion, Freeze,
                LookUpForRecovery, CommitRecovery, deliveryVars
  <2> QED BY <2>3, <2>4, <2>5, <2>6 DEF BillingNext
<1> QED BY <1>1, WebhookInvariant, PTL DEF BillingSpec, WatermarkForward

-----------------------------------------------------------------------------
(* Types *)

(* What is behind the types: pruning spares the receipts watermarks name,   *)
(* and nothing turns a processed receipt back into a pending one.           *)
TypeInv == WebhookInv /\ BillingTypeOK

LEMMA ReceiptsKept ==
  ASSUME TypeInv, NEW i \in DOMAIN events, NEW old \in SUBSET Prunable,
         NEW mark \in {"pending", "processed"},
         receipts' = [Pruned(old) EXCEPT
                        ![Id(i)] = IF mark = "processed" \/ @ = "none" THEN mark ELSE @]
  PROVE  \A s \in Subs : watermark[s] # NoMark => receipts'[watermark[s].id] = "processed"
<1> SUFFICES ASSUME NEW s \in Subs, watermark[s] # NoMark
             PROVE  receipts'[watermark[s].id] = "processed"
  OBVIOUS
<1>1. Typed
  BY DEF TypeInv, WebhookInv
<1>2. PICK j \in EventsOf(s) : watermark[s] = Mark(j)
  BY DEF TypeInv, WebhookInv, MarksAreEvents
<1>3. watermark[s].id \in EventIds /\ Id(i) \in EventIds
  <2>1. j \in DOMAIN events /\ watermark[s].id = Id(j)
    BY <1>2 DEF EventsOf, Mark, Id
  <2> QED BY <1>1, <2>1, MarkTyped
<1>4. receipts[watermark[s].id] = "processed"
  BY DEF TypeInv, BillingTypeOK
<1>5. watermark[s].id \notin old
  BY DEF Prunable
<1>6. Pruned(old)[watermark[s].id] = "processed"
  BY <1>3, <1>4, <1>5 DEF Pruned
<1> QED BY <1>1, <1>3, <1>6, PrunedTyped

(* BillingTypeOK in the parts that WebhookInv does not have.                *)
Parts ==
    /\ WebhookInv
    /\ clock \in 1 .. MaxClock
    /\ \A i \in DOMAIN events : events[i].created <= clock
    /\ \A id \in heard : \E i \in DOMAIN events : events[i].id = id
    /\ \A s \in Subs : watermark[s] # NoMark => receipts[watermark[s].id] = "processed"
    /\ tier \in {"free", "team"}
    /\ linked \in Subs \cup {NoSub}

LEMMA TypeParts == Parts => TypeInv
<1> SUFFICES ASSUME Parts
             PROVE  TypeInv
  OBVIOUS
<1> USE DEF Parts
<1>1. Typed
  BY DEF WebhookInv
<1>2. \A i \in DOMAIN events : events[i].created \in 1 .. clock
  <2>1. \A i \in DOMAIN events : events[i].created \in Nat \ {0}
    BY <1>1, MarkTyped DEF EventType
  <2> QED BY <1>1, <2>1 DEF Typed
<1>3. heard \subseteq {events[i].id : i \in DOMAIN events}
  OBVIOUS
<1>4. \A s \in Subs : lookup[s].event \in EventsOf(s) \cup {0}
  <2> SUFFICES ASSUME NEW s \in Subs, lookup[s].event # 0
               PROVE  lookup[s].event \in EventsOf(s)
    OBVIOUS
  <2>1. lookup[s] \in LookupType
    BY <1>1 DEF Typed
  <2>2. lookup[s].event \in Nat \ {0}
    BY <2>1 DEF LookupType, NoLookup
  <2> QED BY <2>2 DEF WebhookInv, LookingAhead
<1>5. receipts \in [EventIds -> {"none", "pending", "processed"}]
  BY <1>1 DEF Typed
<1> QED BY <1>2, <1>3, <1>4, <1>5 DEF TypeInv, BillingTypeOK

(* The tier and the link, set for a known subscription.                     *)
LEMMA SetTierTyped ==
  ASSUME TypeInv, NEW e \in EventType, NEW status,
         ApplyPayload(e) \/ ApplyObservation(e, status)
  PROVE  tier' \in {"free", "team"} /\ linked' \in Subs \cup {NoSub}
<1>1. tier \in {"free", "team"} /\ linked \in Subs \cup {NoSub} /\ e.sub \in Subs
  BY DEF TypeInv, BillingTypeOK, EventType
<1>2. \A x : EntitlementTier(x) \in {"free", "team"}
  BY DEF EntitlementTier
<1>3. CASE ApplyPayload(e)
  BY <1>1, <1>2, <1>3 DEF ApplyPayload, SetTier, SkipTier, orgVars
<1>4. CASE ApplyObservation(e, status)
  BY <1>1, <1>2, <1>4 DEF ApplyObservation, SetTier, SkipTier, orgVars
<1> QED BY <1>3, <1>4

LEMMA TypeStep == TypeInv /\ [BillingNext]_billingVars => TypeInv'
<1> SUFFICES ASSUME TypeInv, [BillingNext]_billingVars
             PROVE  TypeInv'
  OBVIOUS
<1> DEFINE Named == \A s \in Subs : watermark[s] # NoMark
                                      => receipts[watermark[s].id] = "processed"
<1>1. /\ WebhookInv /\ WebhookInv' /\ Typed /\ Typed'
      /\ clock \in 1 .. MaxClock
      /\ \A i \in DOMAIN events : events[i].created <= clock
      /\ \A id \in heard : \E i \in DOMAIN events : events[i].id = id
      /\ Named
      /\ tier \in {"free", "team"}
      /\ linked \in Subs \cup {NoSub}
  BY WebhookStep DEF TypeInv, BillingTypeOK, WebhookInv
<1>0. Parts' => TypeInv'
  BY TypeParts, PTL
<1>2. ASSUME NEW s \in Subs, NEW kind, NEW status, Emit(s, kind, status),
             UNCHANGED <<clock, deliveryVars, orgVars>>
      PROVE  TypeInv'
  <2>1. PICK e : events' = Append(events, e) /\ e.created = clock
    BY <1>2 DEF Emit
  <2>2. /\ Len(events) \in Nat /\ DOMAIN events = 1 .. Len(events)
        /\ events \in Seq(EventType)
    BY <1>1 DEF Typed
  <2>3. /\ DOMAIN events' = 1 .. (Len(events) + 1)
        /\ \A i \in DOMAIN events : i \in DOMAIN events' /\ events'[i] = events[i]
        /\ events'[Len(events) + 1] = e
    BY <2>1, <2>2
  <2>4. \A i \in DOMAIN events' : events'[i].created <= clock'
    <3>1. clock \in Nat /\ clock' = clock
      BY <1>1, <1>2 DEF Typed
    <3>2. \A i \in DOMAIN events' : i \in DOMAIN events \/ i = Len(events) + 1
      BY <2>2, <2>3
    <3> QED BY <1>1, <2>1, <2>3, <3>1, <3>2
  <2>5. \A id \in heard' : \E i \in DOMAIN events' : events'[i].id = id
    BY <1>1, <1>2, <2>3 DEF deliveryVars
  <2> QED BY <1>1, <1>2, <2>4, <2>5, <1>0 DEF Parts, deliveryVars, orgVars
<1>3. ASSUME UNCHANGED <<events, heard, receipts, watermark, tier, linked>>,
             clock' \in 1 .. MaxClock, clock <= clock'
      PROVE  TypeInv'
  <2>1. \A i \in DOMAIN events' : events'[i].created <= clock'
    BY <1>1, <1>3, MarkTyped DEF Typed, EventType
  <2> QED BY <1>1, <1>3, <2>1, <1>0 DEF Parts
<1>4. ASSUME UNCHANGED <<clock, events>>, Named',
             NEW i \in DOMAIN events, heard' \subseteq heard \cup {Id(i)},
             tier' \in {"free", "team"}, linked' \in Subs \cup {NoSub}
      PROVE  TypeInv'
  BY <1>1, <1>4, <1>0 DEF Parts, Id
<1>5. ASSUME NEW s \in Subs, NEW i \in DOMAIN events, events[i].sub = s,
             UNCHANGED <<clock, events>>, NEW old,
             receipts' = [Pruned(old) EXCEPT ![Id(i)] = "processed"],
             old \in SUBSET Prunable, Answer(i),
             watermark' = [watermark EXCEPT ![s] = Mark(i)],
             tier' \in {"free", "team"}, linked' \in Subs \cup {NoSub}
      PROVE  TypeInv'
  <2>1. receipts'[Id(i)] = "processed" /\ watermark'[s].id = Id(i)
    BY <1>1, <1>5, MarkTyped, PrunedTyped DEF Typed, Mark, Id
  <2>2. ASSUME NEW t \in Subs \ {s}, watermark'[t] # NoMark
        PROVE  receipts'[watermark'[t].id] = "processed"
    <3>1. watermark'[t] = watermark[t]
      BY <1>1, <1>5 DEF Typed
    <3>2. receipts' = [Pruned(old) EXCEPT
                         ![Id(i)] = IF "processed" = "processed" \/ @ = "none"
                                    THEN "processed" ELSE @]
      BY <1>5
    <3>3. \A u \in Subs : watermark[u] # NoMark => receipts'[watermark[u].id] = "processed"
      BY <1>5, <3>2, ReceiptsKept
    <3> QED BY <2>2, <3>1, <3>3
  <2> QED BY <1>4, <1>5, <2>1, <2>2 DEF Answer
<1>6. CASE Provider
  <2>1. ASSUME NEW s \in Subs, CompleteCheckout(s) \/ (\E x \in Statuses : ChangeStatus(s, x))
        PROVE  TypeInv'
    BY <1>2, <2>1 DEF CompleteCheckout, ChangeStatus
  <2>2. CASE Tick \/ Upgrade
    <3>1. UNCHANGED <<events, heard, receipts, watermark, tier, linked>>
      BY <2>2 DEF Tick, Upgrade, deliveryVars, orgVars
    <3>2. clock' \in 1 .. MaxClock /\ clock <= clock'
      BY <1>1, <2>2, BillingAssumption DEF Tick, Upgrade
    <3> QED BY <1>3, <3>1, <3>2
  <2> QED BY <1>6, <2>1, <2>2 DEF Provider
<1>7. CASE Deploy \/ Quota \/ UNCHANGED billingVars
  <2>1. UNCHANGED <<events, clock, heard, receipts, watermark, tier, linked>>
    BY <1>7 DEF Deploy, Quota, CreateCheckout, EndTrial, Admit, Insert, Rollback,
                providerVars, deliveryVars, orgVars, billingVars
  <2> QED BY <1>1, <1>3, <2>1
<1>13. CASE Deletion
  <2>1. /\ UNCHANGED <<events, clock, heard, receipts, watermark, linked>>
        /\ tier' = tier \/ tier' \in {"free", "team"}
    BY <1>13 DEF Deletion, Freeze, LookUpForRecovery, CommitRecovery, EntitlementTier,
                 providerVars, deliveryVars, orgVars
  <2> QED BY <1>0, <1>1, <2>1 DEF Parts
<1>8. ASSUME NEW i \in DOMAIN events, Refuse(i) \/ Ignore(i)
      PROVE  TypeInv'
  <2>1. UNCHANGED <<clock, events, watermark, tier, linked>>
        /\ heard' \subseteq heard \cup {Id(i)}
    BY <1>8 DEF Refuse, Ignore, Answer, providerVars, orgVars
  <2>2. PICK old \in SUBSET Prunable, mark \in {"pending", "processed"} :
           receipts' = [Pruned(old) EXCEPT
                          ![Id(i)] = IF mark = "processed" \/ @ = "none" THEN mark ELSE @]
    <3>1. CASE Refuse(i)
      <4>1. PICK old \in SUBSET Prunable :
               receipts' = [Pruned(old) EXCEPT ![Id(i)] = IF @ = "none" THEN "pending" ELSE @]
        BY <3>1 DEF Refuse
      <4>2. receipts' = [Pruned(old) EXCEPT
                           ![Id(i)] = IF "pending" = "processed" \/ @ = "none"
                                      THEN "pending" ELSE @]
        BY <4>1
      <4> QED BY <4>2
    <3>2. CASE Ignore(i)
      <4>1. PICK old \in SUBSET Prunable :
               receipts' = [Pruned(old) EXCEPT ![Id(i)] = "processed"]
        BY <3>2 DEF Ignore
      <4>2. receipts' = [Pruned(old) EXCEPT
                           ![Id(i)] = IF "processed" = "processed" \/ @ = "none"
                                      THEN "processed" ELSE @]
        BY <4>1
      <4> QED BY <4>2
    <3> QED BY <1>8, <3>1, <3>2
  <2>3. \A s \in Subs : watermark[s] # NoMark => receipts'[watermark[s].id] = "processed"
    BY <2>2, ReceiptsKept
  <2>4. Named'
    BY <2>1, <2>3
  <2> QED BY <1>1, <1>4, <2>1, <2>4
<1>9. ASSUME NEW i \in DOMAIN events, Apply(i)
      PROVE  TypeInv'
  <2>1. events[i] \in EventType /\ events[i].sub \in Subs
    BY <1>1, MarkTyped
  <2>2. PICK old \in SUBSET Prunable :
           receipts' = [Pruned(old) EXCEPT ![Id(i)] = "processed"]
    BY <1>9 DEF Apply
  <2>3. /\ UNCHANGED <<clock, events>> /\ Answer(i) /\ ApplyPayload(events[i])
        /\ watermark' = [watermark EXCEPT ![events[i].sub] = Mark(i)]
    BY <1>9 DEF Apply, providerVars
  <2>4. tier' \in {"free", "team"} /\ linked' \in Subs \cup {NoSub}
    BY <2>1, <2>3, SetTierTyped
  <2> QED BY <1>5, <2>1, <2>2, <2>3, <2>4
<1>10. ASSUME NEW i \in DOMAIN events, LookUp(i)
       PROVE  TypeInv'
  BY <1>1, <1>3, <1>10 DEF LookUp, providerVars, orgVars, Typed
<1>11. ASSUME NEW s \in Subs, Reconcile(s)
       PROVE  TypeInv'
  <2>1. lookup[s] \in LookupType /\ lookup[s] # NoLookup
    BY <1>1, <1>11 DEF Reconcile, LockFree, Typed
  <2>2. PICK i \in Nat \ {0} : i = lookup[s].event
    BY <2>1 DEF LookupType
  <2>3. i \in DOMAIN events /\ events[i].sub = s
    BY <1>1, <2>2 DEF WebhookInv, LookingAhead, EventsOf
  <2>4. events[i] \in EventType
    BY <1>1, <2>3, MarkTyped
  <2>5. PICK old \in SUBSET Prunable :
           receipts' = [Pruned(old) EXCEPT ![Id(i)] = "processed"]
    BY <1>11, <2>2 DEF Reconcile
  <2>6. /\ UNCHANGED <<clock, events>> /\ Answer(i)
        /\ ApplyObservation(events[i], lookup[s].status)
        /\ watermark' = [watermark EXCEPT ![s] = Mark(i)]
    BY <1>11, <2>2 DEF Reconcile, providerVars
  <2>7. tier' \in {"free", "team"} /\ linked' \in Subs \cup {NoSub}
    BY <2>4, <2>6, SetTierTyped
  <2> QED BY <1>5, <2>3, <2>5, <2>6, <2>7
<1>12. ASSUME NEW s \in Subs, LookupFails(s)
       PROVE  TypeInv'
  BY <1>1, <1>3, <1>12 DEF LookupFails, providerVars, orgVars, Typed
<1> QED BY <1>6, <1>7, <1>8, <1>9, <1>10, <1>11, <1>12, <1>13 DEF BillingNext, Deliver

LEMMA TypeInit == BillingInit => TypeInv
<1> SUFFICES ASSUME BillingInit
             PROVE  TypeInv
  OBVIOUS
<1>1. WebhookInv /\ clock \in 1 .. MaxClock
  BY WebhookInit, BillingAssumption DEF BillingInit
<1>2. DOMAIN events = {} /\ heard = {}
  BY DEF BillingInit
<1>3. /\ \A s \in Subs : watermark[s] = NoMark
      /\ tier = "free" /\ linked = NoSub
  BY DEF BillingInit
<1> QED BY <1>1, <1>2, <1>3, TypeParts DEF Parts

(* Every variable keeps its type, and the receipt a watermark names stays   *)
(* processed, whatever old receipts a delivery prunes.                      *)
THEOREM TypeCorrect == BillingSpec => []BillingTypeOK
<1>1. TypeInv => BillingTypeOK
  BY DEF TypeInv
<1> QED BY <1>1, TypeInit, TypeStep, PTL DEF BillingSpec

-----------------------------------------------------------------------------
(* Quotas *)

(* A request that holds the row keeps the room it was admitted to, because  *)
(* no other holds it.                                                       *)
QuotaInv ==
    /\ used \in [Kinds -> {S \in SUBSET {r.item : r \in Requests} : IsFiniteSet(S)}]
    /\ adding \subseteq Requests
    /\ \A q, r \in adding : q = r
    /\ ~entitled =>
          /\ tier # "team"
          /\ ~trial
          /\ \A k \in Kinds : Cardinality(used[k]) <= Limit[k]
          /\ \A r \in adding : \/ r.item \in used[r.kind]
                               \/ Cardinality(used[r.kind]) < Limit[r.kind]

LEMMA QuotaStep == QuotaInv /\ [BillingNext]_billingVars => QuotaInv'
<1> SUFFICES ASSUME QuotaInv, [BillingNext]_billingVars
             PROVE  QuotaInv'
  OBVIOUS
<1>1. ASSUME UNCHANGED quotaVars, ~entitled' => ~entitled /\ tier' # "team"
      PROVE  QuotaInv'
  BY <1>1 DEF QuotaInv, quotaVars
<1>2. ASSUME SkipTier \/ (\E t, link : SetTier(t, link))
      PROVE  ~entitled' => ~entitled /\ tier' # "team"
  BY <1>2 DEF SkipTier, SetTier, Entitle, QuotaInv, orgVars
<1>3. ASSUME NEW r \in Requests, Admit(r)
      PROVE  QuotaInv'
  <2>1. adding' = {r} /\ UNCHANGED <<tier, trial, used, entitled>>
    BY <1>3 DEF Admit, orgVars
  <2>2. ~entitled => \/ r.item \in used[r.kind]
                     \/ Cardinality(used[r.kind]) < Limit[r.kind]
    BY <1>3 DEF Admit, WithinQuota, EffectivelyTeam, QuotaInv
  <2> QED BY <2>1, <2>2 DEF QuotaInv
<1>4. ASSUME NEW r \in Requests, Insert(r)
      PROVE  QuotaInv'
  <2>1. /\ r \in adding
        /\ used' = [used EXCEPT ![r.kind] = @ \cup {r.item}]
        /\ adding' = adding \ {r}
        /\ UNCHANGED <<tier, trial, entitled>>
    BY <1>4 DEF Insert, orgVars
  <2>2. adding' = {}
    BY <2>1 DEF QuotaInv
  <2>3. r.kind \in Kinds /\ Limit[r.kind] \in Nat
    BY BillingAssumption DEF Kinds
  <2>4. /\ IsFiniteSet(used[r.kind]) /\ used[r.kind] \subseteq {q.item : q \in Requests}
        /\ used'[r.kind] = used[r.kind] \cup {r.item}
        /\ \A k \in Kinds \ {r.kind} : used'[k] = used[k]
    BY <2>1, <2>3 DEF QuotaInv
  <2>5. /\ IsFiniteSet(used'[r.kind])
        /\ Cardinality(used'[r.kind]) \in {Cardinality(used[r.kind]),
                                           Cardinality(used[r.kind]) + 1}
        /\ r.item \in used[r.kind] =>
              Cardinality(used'[r.kind]) = Cardinality(used[r.kind])
        /\ Cardinality(used[r.kind]) \in Nat
    BY <2>4, FS_AddElement, FS_CardinalityType
  <2>6. ~entitled => Cardinality(used'[r.kind]) <= Limit[r.kind]
    BY <2>1, <2>3, <2>5 DEF QuotaInv
  <2>7. used' \in [Kinds -> {S \in SUBSET {q.item : q \in Requests} : IsFiniteSet(S)}]
    BY <2>1, <2>3, <2>4, <2>5 DEF QuotaInv
  <2>8. ~entitled => \A k \in Kinds : Cardinality(used'[k]) <= Limit[k]
    BY <2>4, <2>6 DEF QuotaInv
  <2> QED BY <2>1, <2>2, <2>7, <2>8 DEF QuotaInv
<1>5. ASSUME NEW r \in Requests, Rollback(r)
      PROVE  QuotaInv'
  BY <1>5 DEF Rollback, QuotaInv, orgVars
<1>6. CASE EndTrial
  BY <1>6 DEF EndTrial, QuotaInv, orgVars
<1>7. CASE \/ CreateCheckout \/ Freeze \/ LookUpForRecovery \/ Deploy \/ Provider
           \/ UNCHANGED billingVars
  <2>1. UNCHANGED <<quotaVars, tier, entitled>>
    BY <1>7 DEF CreateCheckout, Freeze, LookUpForRecovery, Deploy, Provider, CompleteCheckout, ChangeStatus,
                Tick, Upgrade, orgVars, billingVars
  <2> QED BY <1>1, <2>1 DEF QuotaInv
<1>8. ASSUME NEW i \in DOMAIN events, Deliver(i)
      PROVE  QuotaInv'
  <2>1. UNCHANGED quotaVars
    BY <1>8 DEF Deliver, Refuse, Ignore, Apply, LookUp
  <2>2. CASE Apply(i)
    <3>1. SkipTier \/ (\E t, link : SetTier(t, link))
      BY <2>2 DEF Apply, ApplyPayload
    <3> QED BY <1>1, <1>2, <2>1, <3>1
  <2>3. CASE Refuse(i) \/ Ignore(i) \/ LookUp(i)
    <3>1. UNCHANGED <<tier, entitled>>
      BY <2>3 DEF Refuse, Ignore, LookUp, orgVars
    <3> QED BY <1>1, <2>1, <3>1 DEF QuotaInv
  <2> QED BY <1>8, <2>2, <2>3 DEF Deliver
<1>9. ASSUME NEW s \in Subs, Reconcile(s) \/ LookupFails(s)
      PROVE  QuotaInv'
  <2>1. UNCHANGED quotaVars
    BY <1>9 DEF Reconcile, LookupFails
  <2>2. CASE Reconcile(s)
    <3>1. SkipTier \/ (\E t, link : SetTier(t, link))
      BY <2>2 DEF Reconcile, ApplyObservation
    <3> QED BY <1>1, <1>2, <2>1, <3>1
  <2>3. CASE LookupFails(s)
    <3>1. UNCHANGED <<tier, entitled>>
      BY <2>3 DEF LookupFails, orgVars
    <3> QED BY <1>1, <2>1, <3>1 DEF QuotaInv
  <2> QED BY <1>9, <2>2, <2>3
<1>10. CASE CommitRecovery
  <2>1. UNCHANGED quotaVars /\ (~entitled' => ~entitled /\ tier' # "team")
    BY <1>10 DEF CommitRecovery, Entitle
  <2> QED BY <1>1, <2>1
<1> QED BY <1>3, <1>4, <1>5, <1>6, <1>7, <1>8, <1>9, <1>10 DEF BillingNext, Quota, Deletion

LEMMA QuotaInit == BillingInit => QuotaInv
<1> SUFFICES ASSUME BillingInit
             PROVE  QuotaInv
  OBVIOUS
<1>1. IsFiniteSet({}) /\ Cardinality({}) = 0
  BY FS_EmptySet
<1>2. \A k \in Kinds : Limit[k] \in Nat
  BY BillingAssumption DEF Kinds
<1>3. used = [k \in Kinds |-> {}] /\ adding = {} /\ tier = "free"
  BY DEF BillingInit
<1>4. \A k \in Kinds : used[k] = {} /\ Cardinality(used[k]) <= Limit[k]
  BY <1>1, <1>2, <1>3
<1>5. ~entitled => ~trial
  BY DEF BillingInit
<1> QED BY <1>1, <1>3, <1>4, <1>5 DEF QuotaInv

(* An organisation that was never entitled stays within the free limits,    *)
(* for any limits and any number of concurrent requests.                    *)
THEOREM QuotaHolds == BillingSpec => []FreeQuota
<1>1. QuotaInv => FreeQuota
  BY DEF QuotaInv, FreeQuota
<1> QED BY <1>1, QuotaInit, QuotaStep, PTL DEF BillingSpec

-----------------------------------------------------------------------------
(* The tier *)

(* Nothing has happened to the subscription of i since.                     *)
Latest(i) == \A j \in EventsOf(events[i].sub) : j <= i

(* The newest event of a subscription carries the status Stripe has, and so *)
(* does a lookup made for it.                                               *)
NewsIsTrue ==
    /\ \A i \in DOMAIN events :
          /\ stripe[events[i].sub] # "none"
          /\ events[i].kind = "checkout" => events[i].status = "active"
          /\ events[i].kind = "deleted" => events[i].status = "canceled"
          /\ Latest(i) => events[i].status = stripe[events[i].sub]
    /\ \A s \in Subs :
          stripe[s] # "none" => \E i \in EventsOf(s) : Latest(i)
    /\ \A s \in Subs, i \in Nat \ {0} :
          lookup[s].event = i /\ Latest(i) => lookup[s].status = stripe[s]

(* What Stripe says of s is in the tier, or in what a recovery has found.   *)
Agrees(s) ==
    IF lifecycle = "active" THEN tier = EntitlementTier(stripe[s])
                            ELSE finding \in {"none", stripe[s]}

(* Once the watermark is at the newest event, the two agree.                *)
Settled ==
    \A s \in Hinted \ unseen, i \in DOMAIN events :
        OnlySub(s) /\ i \in EventsOf(s) /\ Latest(i) /\ watermark[s] = Mark(i)
            /\ stripe[s] \in KnownStatuses
            => Agrees(s)

TierInv == WebhookInv /\ TypeInv /\ NewsIsTrue /\ Settled

LEMMA EmitKeepsTier ==
  ASSUME TierInv, WebhookInv', NEW s \in Subs,
         NEW kind \in {"checkout", "updated", "deleted"},
         NEW status \in AnyStatus, status # "none",
         kind = "checkout" => status = "active",
         kind = "deleted" => status = "canceled",
         Emit(s, kind, status), stripe' = [stripe EXCEPT ![s] = status],
         UNCHANGED <<deliveryVars, orgVars>>
  PROVE  NewsIsTrue' /\ Settled'
<1>1. PICK id \in EventIds \ {events[i].id : i \in DOMAIN events} :
         events' = Append(events, [id |-> id, created |-> clock, sub |-> s,
                                   kind |-> kind, status |-> status,
                                   newer |-> upgraded])
  BY DEF Emit
<1> DEFINE e == [id |-> id, created |-> clock, sub |-> s, kind |-> kind,
                 status |-> status, newer |-> upgraded]
<1>0. PICK n \in Nat \ {0} : n = Len(events) + 1
  <2>1. Len(events) \in Nat
    BY DEF TierInv, WebhookInv, Typed
  <2> QED BY <2>1
<1>2. Typed /\ Typed'
  BY DEF TierInv, WebhookInv
<1>3. /\ e.sub = s /\ e.kind = kind /\ e.status = status /\ e.id = id
      /\ \A i \in DOMAIN events : events[i].id # id
  BY <1>1
<1>4. /\ Len(events) \in Nat
      /\ DOMAIN events = 1 .. Len(events)
      /\ DOMAIN events' = 1 .. n
      /\ \A i \in DOMAIN events : events'[i] = events[i]
      /\ events'[n] = e
  <2> HIDE DEF e
  <2>1. events \in Seq(EventType) /\ events' = Append(events, e)
    BY <1>1, <1>2 DEF e, Typed
  <2>2. Len(events) \in Nat /\ DOMAIN events = 1 .. Len(events)
    BY <2>1
  <2>3. DOMAIN events' = 1 .. n /\ events'[n] = e
    BY <2>1, <2>2, <1>0, AppendProperties
  <2> QED BY <2>1, <2>2, <2>3, AppendProperties
<1>5. n \in Nat \ {0} /\ n \notin DOMAIN events
  BY <1>4, <1>0
<1> HIDE DEF e
<1>6. stripe'[s] = status /\ \A t \in Subs \ {s} : stripe'[t] = stripe[t]
  BY <1>2 DEF Typed
<1>7. \A i \in DOMAIN events : events[i].sub \in Subs
  BY <1>2, MarkTyped
<1>8. \A t \in Subs : EventsOf(t)' = IF t = s THEN EventsOf(t) \cup {n} ELSE EventsOf(t)
  <2>1. \A i : i \in DOMAIN events' <=> i \in DOMAIN events \/ i = n
    BY <1>0, <1>4, <1>5
  <2> QED BY <1>3, <1>4, <2>1 DEF EventsOf
<1>9. Latest(n)'
  BY <1>3, <1>0, <1>4, <1>8 DEF Latest, EventsOf
<1>10. ASSUME NEW i \in DOMAIN events
       PROVE  Latest(i)' <=> Latest(i) /\ events[i].sub # s
  <2>1. events'[i] = events[i] /\ i < n /\ i \in Nat
    BY <1>0, <1>4, <1>10
  <2> QED BY <1>5, <1>7, <1>8, <1>10, <2>1 DEF Latest
<1>11. NewsIsTrue'
  <2>1. ASSUME NEW i \in DOMAIN events'
        PROVE  /\ stripe'[events'[i].sub] # "none"
               /\ events'[i].kind = "checkout" => events'[i].status = "active"
               /\ events'[i].kind = "deleted" => events'[i].status = "canceled"
               /\ Latest(i)' => events'[i].status = stripe'[events'[i].sub]
    <3>1. CASE i = n
      BY <1>3, <1>4, <1>6, <3>1
    <3>2. CASE i \in DOMAIN events
      <4>1. events'[i] = events[i] /\ events[i].sub \in Subs
        BY <1>4, <1>7, <3>2
      <4>2. stripe'[events[i].sub] # "none"
        BY <1>6, <3>2, <4>1 DEF TierInv, NewsIsTrue
      <4> QED BY <1>6, <1>10, <3>2, <4>1, <4>2 DEF TierInv, NewsIsTrue
    <3> QED BY <1>0, <1>4, <2>1, <3>1, <3>2
  <2>2. ASSUME NEW t \in Subs, stripe'[t] # "none"
        PROVE  \E i \in EventsOf(t)' : Latest(i)'
    <3>1. CASE t = s
      <4>1. n \in EventsOf(t)'
        BY <1>8, <3>1
      <4> QED BY <1>9, <4>1
    <3>2. CASE t # s
      <4>1. PICK i \in EventsOf(t) : Latest(i)
        BY <1>6, <2>2, <3>2 DEF TierInv, NewsIsTrue
      <4>2. i \in DOMAIN events /\ events[i].sub = t
        BY <4>1 DEF EventsOf
      <4> QED BY <1>8, <1>10, <3>2, <4>1, <4>2
    <3> QED BY <3>1, <3>2
  <2>3. ASSUME NEW t \in Subs, NEW i \in Nat \ {0}, lookup'[t].event = i, Latest(i)'
        PROVE  lookup'[t].status = stripe'[t]
    <3>1. lookup' = lookup
      BY DEF deliveryVars
    <3>2. i \in DOMAIN events /\ events[i].sub = t
      BY <2>3, <3>1 DEF TierInv, WebhookInv, LookingAhead, EventsOf
    <3>3. Latest(i) /\ t # s
      BY <1>10, <2>3, <3>2
    <3> QED BY <1>6, <2>3, <3>1, <3>3 DEF TierInv, NewsIsTrue
  <2> QED BY <2>1, <2>2, <2>3 DEF NewsIsTrue
<1>12. Settled'
  <2> SUFFICES ASSUME NEW t \in Hinted, NEW i \in DOMAIN events', OnlySub(t)',
                      i \in EventsOf(t)', Latest(i)', watermark'[t] = Mark(i)'
               PROVE  FALSE
    BY DEF Settled
  <2>1. t \in Subs /\ watermark' = watermark
    BY BillingAssumption DEF deliveryVars
  <2>2. t = s
    BY <1>6 DEF OnlySub
  <2>3. i = n
    <3>1. events'[i].sub = s
      BY <2>2 DEF EventsOf
    <3> QED BY <1>0, <1>4, <1>10, <3>1
  <2>4. Mark(i)' = [created |-> clock, id |-> id] /\ Mark(i)'.created # 0
    BY <1>2, <1>4, <2>3, MarkTyped DEF Mark, e, Typed
  <2>5. watermark[t] # NoMark
    BY <2>1, <2>4 DEF NoMark
  <2>6. PICK j \in EventsOf(t) : watermark[t] = Mark(j)
    BY <2>1, <2>5 DEF TierInv, WebhookInv, MarksAreEvents
  <2>7. events[j].id = id /\ j \in DOMAIN events
    BY <2>1, <2>4, <2>6 DEF Mark, EventsOf
  <2> QED BY <1>3, <2>7
<1> QED BY <1>11, <1>12

(* A step that decides nothing and tells the server nothing new, except     *)
(* perhaps a recovery.                                                      *)
LEMMA TierFrame ==
  ASSUME TierInv, UNCHANGED <<stripe, events, watermark>>,
         \A s \in Hinted \ unseen' :
            OnlySub(s) /\ watermark[s] # NoMark =>
                Agrees(s)' \/ (s \notin unseen /\ (Agrees(s) => Agrees(s)')),
         \A s \in Subs, i \in Nat \ {0} :
            lookup'[s].event = i => \/ lookup'[s] = lookup[s]
                                    \/ lookup'[s].status = stripe[s]
  PROVE  NewsIsTrue' /\ Settled'
<1>1. \A i : /\ Mark(i)' = Mark(i) /\ (Latest(i)' <=> Latest(i))
             /\ \A s : EventsOf(s)' = EventsOf(s) /\ (OnlySub(s)' <=> OnlySub(s))
  BY DEF Mark, Latest, EventsOf, OnlySub
<1>2. NewsIsTrue'
  BY <1>1 DEF TierInv, NewsIsTrue
<1>3. Settled'
  <2> SUFFICES ASSUME NEW s \in Hinted \ unseen', NEW i \in DOMAIN events, OnlySub(s),
                      i \in EventsOf(s), Latest(i), watermark[s] = Mark(i),
                      stripe[s] \in KnownStatuses
               PROVE  Agrees(s)'
    BY <1>1 DEF Settled
  <2>1. watermark[s] # NoMark
    BY MarkTyped DEF TierInv, WebhookInv, NoMark
  <2>2. s \notin unseen => Agrees(s)
    BY DEF TierInv, Settled
  <2> QED BY <2>1, <2>2
<1> QED BY <1>2, <1>3

(* The decision about event i sets the tier to the present status, if i is  *)
(* the latest and the only subscription is one that names the organisation. *)
LEMMA DecisionSettles ==
  ASSUME TierInv, NEW i \in DOMAIN events,
         UNCHANGED <<stripe, events>>,
         watermark' = [watermark EXCEPT ![events[i].sub] = Mark(i)],
         lookup' = [lookup EXCEPT ![events[i].sub] = NoLookup],
         Notice(events[i].sub), UNCHANGED lifecycle,
         OnlySub(events[i].sub) /\ events[i].sub \in Hinted
            /\ lifecycle = "active" /\ Latest(i) /\ stripe[events[i].sub] \in KnownStatuses
            => tier' = EntitlementTier(stripe[events[i].sub])
  PROVE  NewsIsTrue' /\ Settled'
<1>1. \A j : /\ Mark(j)' = Mark(j) /\ (Latest(j)' <=> Latest(j))
             /\ \A s : EventsOf(s)' = EventsOf(s) /\ (OnlySub(s)' <=> OnlySub(s))
  BY DEF Mark, Latest, EventsOf, OnlySub
<1>2. Typed /\ events[i].sub \in Subs
  BY MarkTyped DEF TierInv, WebhookInv
<1>3. NewsIsTrue'
  <2>1. \A s \in Subs, j \in Nat \ {0} :
           lookup'[s].event = j => lookup'[s] = lookup[s]
    BY <1>2 DEF Typed, NoLookup
  <2> QED BY <1>1, <2>1 DEF TierInv, NewsIsTrue
<1>4. Settled'
  <2> SUFFICES ASSUME NEW s \in Hinted \ unseen', NEW j \in DOMAIN events, OnlySub(s),
                      j \in EventsOf(s), Latest(j), watermark'[s] = Mark(j),
                      stripe[s] \in KnownStatuses
               PROVE  Agrees(s)'
    BY <1>1 DEF Settled
  <2>1. s \in Subs
    BY BillingAssumption
  <2>2. events[i].sub = s
    BY <1>2, <2>1 DEF OnlySub, TierInv, NewsIsTrue
  <2>3. events[i].id = events[j].id
    BY <1>2, <2>1, <2>2 DEF Typed, Mark
  <2>4. i = j
    BY <2>3 DEF TierInv, WebhookInv, DistinctIds
  <2>5. lifecycle = "active"
    BY <2>2 DEF Notice
  <2> QED BY <2>2, <2>4, <2>5 DEF Agrees
<1> QED BY <1>3, <1>4

LEMMA TierStep == TierInv /\ [BillingNext]_billingVars => TierInv'
<1> SUFFICES ASSUME TierInv, [BillingNext]_billingVars
             PROVE  NewsIsTrue' /\ Settled'
  BY WebhookStep, TypeStep DEF TierInv
<1>1. /\ WebhookInv /\ WebhookInv' /\ Typed
      /\ linked \in Subs \cup {NoSub}
  BY WebhookStep DEF TierInv, WebhookInv, TypeInv, BillingTypeOK
<1>2. ASSUME NEW s \in Subs, CompleteCheckout(s)
      PROVE  NewsIsTrue' /\ Settled'
  <2>1. /\ Emit(s, "checkout", "active") /\ "active" \in AnyStatus
        /\ stripe' = [stripe EXCEPT ![s] = "active"]
        /\ UNCHANGED <<deliveryVars, orgVars>>
    BY <1>2 DEF CompleteCheckout, AnyStatus
  <2> QED BY <1>1, <2>1, EmitKeepsTier
<1>3. ASSUME NEW s \in Subs, NEW status \in Statuses, ChangeStatus(s, status)
      PROVE  NewsIsTrue' /\ Settled'
  <2> DEFINE kind == IF status = "canceled" THEN "deleted" ELSE "updated"
  <2>1. /\ Emit(s, kind, status) /\ status \in AnyStatus /\ status # "none"
        /\ stripe' = [stripe EXCEPT ![s] = status]
        /\ UNCHANGED <<deliveryVars, orgVars>>
    BY <1>3, BillingAssumption DEF ChangeStatus, AnyStatus
  <2>2. /\ kind \in {"checkout", "updated", "deleted"}
        /\ kind # "checkout"
        /\ kind = "deleted" => status = "canceled"
    OBVIOUS
  <2> HIDE DEF kind
  <2> QED BY <1>1, <2>1, <2>2, EmitKeepsTier
<1>4. CASE Tick \/ Upgrade \/ Deploy \/ Quota \/ UNCHANGED billingVars
  <2>1. UNCHANGED <<stripe, events, watermark, tier, lookup, lifecycle, finding, unseen>>
    BY <1>4 DEF Tick, Upgrade, Deploy, Quota, CreateCheckout, EndTrial, Admit, Insert,
                Rollback, providerVars, deliveryVars, orgVars, recoveryVars, billingVars
  <2>2. \A s : Agrees(s)' <=> Agrees(s)
    BY <2>1 DEF Agrees
  <2> QED BY <2>1, <2>2, TierFrame
<1>9. CASE Deletion
  <2>1. UNCHANGED <<stripe, events, watermark, lookup>>
    BY <1>9 DEF Deletion, Freeze, LookUpForRecovery, CommitRecovery, providerVars, deliveryVars
  <2>2. ASSUME NEW s \in Hinted \ unseen', OnlySub(s), watermark[s] # NoMark
        PROVE  Agrees(s)' \/ (s \notin unseen /\ (Agrees(s) => Agrees(s)'))
    <3>1. CASE Freeze
      BY <3>1 DEF Freeze, Agrees
    <3>2. CASE LookUpForRecovery
      <4>1. linked \in Subs /\ stripe[linked] # "none"
        <5>1. linked \in Subs /\ stripe[linked] \in KnownStatuses
          BY <1>1, <3>2 DEF LookUpForRecovery
        <5> QED BY <5>1 DEF KnownStatuses
      <4>2. linked = s
        BY <2>2, <4>1 DEF OnlySub
      <4>3. lifecycle' = "deleting" /\ finding' = stripe'[s]
        BY <2>1, <3>2, <4>2 DEF LookUpForRecovery, orgVars
      <4> QED BY <4>3 DEF Agrees
    <3>3. CASE CommitRecovery
      <4>1. linked # NoSub
        BY <2>2, <3>3, BillingAssumption DEF CommitRecovery
      <4>2. /\ lifecycle = "deleting" /\ finding # "none" /\ s \notin unseen
            /\ lifecycle' = "active" /\ tier' = EntitlementTier(finding)
        BY <2>2, <3>3, <4>1 DEF CommitRecovery
      <4> QED BY <2>1, <4>2 DEF Agrees
    <3> QED BY <1>9, <3>1, <3>2, <3>3 DEF Deletion
  <2> QED BY <2>1, <2>2, TierFrame
<1>5. ASSUME NEW i \in DOMAIN events, Refuse(i) \/ Ignore(i) \/ LookUp(i)
      PROVE  NewsIsTrue' /\ Settled'
  <2>1. UNCHANGED <<stripe, events, watermark, tier, lifecycle, finding, unseen>>
    BY <1>5 DEF Refuse, Ignore, LookUp, providerVars, orgVars, recoveryVars
  <2>3. \A s : Agrees(s)' <=> Agrees(s)
    BY <2>1 DEF Agrees
  <2>2. \A s \in Subs, j \in Nat \ {0} :
            lookup'[s].event = j => \/ lookup'[s] = lookup[s]
                                    \/ lookup'[s].status = stripe[s]
    <3>1. CASE LookUp(i)
      BY <1>1, <3>1 DEF LookUp, Typed
    <3>2. CASE Refuse(i) \/ Ignore(i)
      BY <3>2 DEF Refuse, Ignore
    <3> QED BY <1>5, <3>1, <3>2
  <2> QED BY <2>1, <2>2, <2>3, TierFrame
<1>6. ASSUME NEW i \in DOMAIN events, Apply(i)
      PROVE  NewsIsTrue' /\ Settled'
  <2> DEFINE s == events[i].sub
  <2>1. /\ UNCHANGED <<stripe, events, lookup>>
        /\ lookup[s] = NoLookup
        /\ watermark' = [watermark EXCEPT ![s] = Mark(i)]
        /\ ApplyPayload(events[i]) /\ Notice(s)
    BY <1>6 DEF Apply, providerVars, LockFree
  <2>5. UNCHANGED lifecycle
    BY <2>1 DEF ApplyPayload, SetTier, SkipTier, orgVars
  <2>2. s \in Subs /\ events[i].kind \in {"checkout", "updated", "deleted"}
    BY <1>1, MarkTyped DEF EventType
  <2>3. lookup' = [lookup EXCEPT ![s] = NoLookup]
    BY <1>1, <2>1, <2>2 DEF Typed
  <2>4. ASSUME s \in Hinted, lifecycle = "active", Latest(i), stripe[s] \in KnownStatuses
        PROVE  tier' = EntitlementTier(stripe[s])
    <3>1. /\ events[i].status = stripe[s]
          /\ events[i].kind = "checkout" => events[i].status = "active"
          /\ events[i].kind = "deleted" => events[i].status = "canceled"
      BY <2>4 DEF TierInv, NewsIsTrue
    <3>2. CASE events[i].kind = "checkout"
      BY <2>1, <2>4, <3>1, <3>2 DEF ApplyPayload, SetTier, EntitlementTier
    <3>3. CASE events[i].kind = "updated"
      BY <2>1, <2>4, <3>1, <3>3 DEF ApplyPayload, SetTier, Concerns
    <3>4. CASE events[i].kind = "deleted"
      BY <2>1, <2>4, <3>1, <3>4 DEF ApplyPayload, SetTier, Concerns, EntitlementTier
    <3> QED BY <2>2, <3>2, <3>3, <3>4
  <2> QED BY <2>1, <2>3, <2>4, <2>5, DecisionSettles
<1>7. ASSUME NEW s \in Subs, Reconcile(s)
      PROVE  NewsIsTrue' /\ Settled'
  <2>1. lookup[s] \in LookupType /\ lookup[s] # NoLookup
    BY <1>1, <1>7 DEF Reconcile, LockFree, Typed
  <2>2. PICK i \in Nat \ {0} : i = lookup[s].event
    BY <2>1 DEF LookupType
  <2>3. i \in DOMAIN events /\ events[i].sub = s
    BY <1>1, <2>2 DEF WebhookInv, LookingAhead, EventsOf
  <2>4. /\ UNCHANGED <<stripe, events>>
        /\ watermark' = [watermark EXCEPT ![events[i].sub] = Mark(i)]
        /\ lookup' = [lookup EXCEPT ![events[i].sub] = NoLookup]
        /\ ApplyObservation(events[i], lookup[s].status) /\ Notice(events[i].sub)
    BY <1>7, <2>2, <2>3 DEF Reconcile, providerVars
  <2>6. UNCHANGED lifecycle
    BY <2>4 DEF ApplyObservation, SetTier, SkipTier, orgVars
  <2>5. ASSUME s \in Hinted, lifecycle = "active", Latest(i)
        PROVE  tier' = EntitlementTier(stripe[s])
    <3>1. lookup[s].status = stripe[s]
      BY <2>2, <2>5 DEF TierInv, NewsIsTrue
    <3> QED BY <2>3, <2>4, <2>5, <3>1 DEF ApplyObservation, Concerns, SetTier
  <2> QED BY <2>3, <2>4, <2>5, <2>6, DecisionSettles
<1>8. ASSUME NEW s \in Subs, LookupFails(s)
      PROVE  NewsIsTrue' /\ Settled'
  <2>1. /\ UNCHANGED <<stripe, events, watermark, tier, lifecycle, finding, unseen>>
        /\ lookup' = [lookup EXCEPT ![s] = NoLookup]
    BY <1>8 DEF LookupFails, providerVars, orgVars, recoveryVars
  <2>2. \A t \in Subs, j \in Nat \ {0} :
            lookup'[t].event = j => lookup'[t] = lookup[t]
    BY <1>1, <2>1 DEF Typed, NoLookup
  <2>3. \A t : Agrees(t)' <=> Agrees(t)
    BY <2>1 DEF Agrees
  <2> QED BY <2>1, <2>2, <2>3, TierFrame
<1> QED BY <1>2, <1>3, <1>4, <1>5, <1>6, <1>7, <1>8, <1>9 DEF BillingNext, Provider, Deliver

LEMMA TierInit == BillingInit => TierInv
<1> SUFFICES ASSUME BillingInit
             PROVE  TierInv
  OBVIOUS
<1>1. DOMAIN events = {} /\ \A s \in Subs : stripe[s] = "none" /\ lookup[s].event = 0
  BY DEF BillingInit, NoLookup
<1>2. NewsIsTrue
  BY <1>1 DEF NewsIsTrue
<1>3. Settled
  BY <1>1 DEF Settled
<1> QED BY <1>2, <1>3, WebhookInit, TypeInit DEF TierInv

(* When Stripe has heard of every event and the last one sorts last, the    *)
(* organisation's tier is what its subscription pays for, whatever the      *)
(* deliveries went through, and after a deletion that was taken back unless *)
(* an event was used up between the recovery's lookup and its commit or the *)
(* recovery had no link to look up.                                         *)
THEOREM TierIsWhatIsPaidFor == BillingSpec => []TierSettles
<1>1. TierInv => TierSettles
  <2> SUFFICES ASSUME TierInv, NEW s \in Hinted \ unseen, OnlySub(s), AllHeard,
                      LastSortsLast(s), lifecycle = "active",
                      stripe[s] \in KnownStatuses
               PROVE  tier = EntitlementTier(stripe[s])
    BY DEF TierSettles
  <2>1. s \in Subs /\ WebhookInv /\ Typed
    BY BillingAssumption DEF TierInv, WebhookInv
  <2>2. PICK i \in EventsOf(s) : Latest(i)
    BY <2>1 DEF OnlySub, TierInv, NewsIsTrue
  <2>3. i \in DOMAIN events /\ events[i].sub = s
    BY <2>2 DEF EventsOf
  <2>4. \A j \in EventsOf(s) : j <= i /\ j \in DOMAIN events /\ j \in Nat
    BY <2>1, <2>2, <2>3, MarkTyped DEF Latest, EventsOf
  <2>5. LastOf(s) = i
    BY <2>2, <2>4 DEF LastOf
  <2>6. Mark(i) \in MarkType /\ Mark(i).created # 0 /\ Id(i) \in EventIds
        /\ watermark[s] \in MarkType
    BY <2>1, <2>3, MarkTyped DEF Typed
  <2>7. Passed(i)
    <3>1. Done(Id(i))
      BY <2>3 DEF AllHeard, Done, Id
    <3>2. PICK j \in DOMAIN events : events[j].id = Id(i) /\ Passed(j)
      BY <2>1, <2>6, <3>1 DEF WebhookInv, PassedWhenDone
    <3>3. j = i
      BY <2>1, <2>3, <3>2 DEF WebhookInv, DistinctIds, Id
    <3> QED BY <3>2, <3>3
  <2>8. Behind(Mark(i), watermark[s])
    BY <2>3, <2>7 DEF Passed
  <2>9. watermark[s] # NoMark
    BY <2>6, <2>8 DEF NoMark, Behind, MarkType
  <2>10. PICK j \in EventsOf(s) : watermark[s] = Mark(j)
    BY <2>1, <2>9 DEF WebhookInv, MarksAreEvents
  <2>11. j = i
    <3>1. j # i => Newer(Mark(i), Mark(j))
      BY <2>5, <2>10 DEF LastSortsLast
    <3>2. ~Newer(Mark(i), Mark(j))
      BY <2>6, <2>8, <2>10, MarkOrder
    <3> QED BY <3>1, <3>2
  <2> QED BY <2>2, <2>3, <2>10, <2>11 DEF TierInv, Settled, Agrees
<1> QED BY <1>1, TierInit, TierStep, PTL DEF BillingSpec

-----------------------------------------------------------------------------
(***************************************************************************)
(* Proofs about Provisioning, for any number of people, terminals and      *)
(* projects and any list of default environments.                          *)
(*                                                                         *)
(* Everything rests on who can know of a project.  While `init` inserts    *)
(* its environments, no configuration of the project is committed, so no   *)
(* push, share, setup or clone of it exists and its names are free without *)
(* a check; from then on every insertion checks the name.                  *)
(***************************************************************************)

-----------------------------------------------------------------------------
(* The invariant *)

Elements(s) == {s[i] : i \in DOMAIN s}

Distinct(s) == \A i, j \in DOMAIN s : s[i] = s[j] => i = j

Labels == Elements(DefaultEnvironments)

Ids == [project : Nat, label : Labels]

Displayed == [by : {"name", "id"}, text : STRING \cup {"shared"}]

EncryptedUnder == [of : Users \cup {"organisation"}, key : Nat]

ServerEnvs == [id : Ids, name : EncryptedUnder]

LocalEnvs == [id : Ids, project : Nat, name : Displayed, key : Nat,
              renamed : BOOLEAN]

Configs == [project : Nat, environment : Displayed, org : BOOLEAN]

Items == [env : ServerEnvs, key : Nat]

Inits == [at : {"create"}, org : BOOLEAN]

Inserting == [at : {"inserting"}, org : BOOLEAN, project : Nat,
              todo : Seq(Labels)]

Naming == [at : {"account", "name"}, org : BOOLEAN, env : LocalEnvs, key : Nat]

Pushes == [at : {"project", "env", "snapshot"}, org : BOOLEAN,
           env : LocalEnvs, name : EncryptedUnder]

Setups == [at : {"restore", "list", "restoring"}, config : Configs, key : Nat,
           opens : SUBSET EncryptedUnder, todo : SUBSET Items]

Labelling == [at : {"label"}, env : ServerEnvs, key : Nat,
              options : [org : BOOLEAN, as : STRING]]

Cloning == [at : {"clone"}, env : ServerEnvs, key : Nat, config : Configs,
            renamed : BOOLEAN]

Cloned == [at : {"cloned"}, config : Configs, asked : Ids]

Sharing == [at : {"share"}, env : Ids, to : Users, public : Nat]

KeySends == [at : {"key", "seal"}, to : Users, public : Nat]

Tasks == {Idle, Stopped} \cup Inits \cup Inserting \cup Naming \cup Pushes
            \cup Setups \cup Labelling \cup Cloning \cup Cloned \cup Sharing
            \cup KeySends

ServerTypes ==
    /\ account \in [Users -> Nat] /\ orgKey \in [Users -> Nat]
    /\ role \in [Users -> {"none", "member", "admin", "owner"}]
    /\ deleting \in BOOLEAN
    /\ projects \subseteq [id : Nat, owner : Users, org : BOOLEAN]
    /\ envs \subseteq ServerEnvs
    /\ grants \subseteq [env : Ids, user : Users, key : Nat]

ProvisioningTypeOK ==
    /\ ServerTypes
    /\ device \in [Users -> Nat]
    /\ local \in [Users -> [projects : SUBSET Nat, envs : SUBSET LocalEnvs]]
    /\ ready \in [Users -> SUBSET Configs]
    /\ published \subseteq Configs
    /\ task \in [Terminals -> Tasks]
    /\ made \in [keys : [Users -> Nat], projects : Nat]

(* The projects whose configuration was ever committed. *)
Announced == {c.project : c \in published}

(* An environment is called by its label, by its id, or "shared", unless    *)
(* its user renamed it.                                                     *)
WellNamed(e) ==
    /\ e.project = e.id.project
    /\ e.renamed \/ e.name \in {Plain(e.id.label), IdOf(e.id), Shared}

LocalsNamed == \A u \in Users : \A e \in local[u].envs : WellNamed(e)

(* UNIQUE (project_id, name) *)
NamesUnique ==
    \A u \in Users : \A d, e \in local[u].envs :
        d.project = e.project /\ d.name = e.name => d = e

(* Project ids come from `init`. *)
ProjectsMade ==
    /\ \A id \in Announced : id <= made.projects
    /\ \A u \in Users : \A e \in local[u].envs : e.project <= made.projects

ServerAnnounced == \A e \in envs : e.id.project \in Announced

Usable(u, c) ==
    /\ c.project \in Announced
    /\ c.project \in local[u].projects
    /\ LocalEnv(u, c.project, c.environment) # {}

ReadyUsable == \A u \in Users : \A c \in ready[u] : Usable(u, c)

(* An `init` in the middle of its project. *)
InsertingAlone(t) ==
    task[t].at = "inserting" =>
        LET id == task[t].project
            todo == Elements(task[t].todo)
            inserted == {e \in local[User[t]].envs : e.project = id}
        IN  /\ id <= made.projects /\ id \notin Announced
            /\ id \in local[User[t]].projects
            /\ Distinct(task[t].todo)
            /\ \A e \in inserted :
                  e.name = Plain(e.id.label) /\ e.id.label \notin todo
            /\ \A label \in Labels \ todo :
                  \E e \in inserted : e.name = Plain(label)
            /\ \A s \in Terminals \ {t} :
                  task[s].at = "inserting" => task[s].project # id

(* What the other commands are about is announced, and a set-up or a clone  *)
(* past its first statement has the project in its store.                   *)
AboutAnnounced(t) ==
    /\ task[t].at \in {"account", "name", "project", "env", "snapshot"} =>
          /\ task[t].env.project = task[t].env.id.project
          /\ task[t].env.project \in Announced
    /\ task[t].at \in {"restore", "list", "restoring", "clone", "cloned"} =>
          task[t].config.project \in Announced
    /\ task[t].at \in {"list", "restoring", "clone", "cloned"} =>
          task[t].config.project \in local[User[t]].projects
    /\ task[t].at \in {"restore", "list", "restoring"} =>
          \A item \in task[t].todo :
             item.env.id.project = task[t].config.project
    /\ task[t].at = "label" => task[t].env.id.project \in Announced
    /\ task[t].at = "clone" =>
          /\ task[t].env.id.project = task[t].config.project
          /\ task[t].renamed \/ task[t].config.environment \in
                                   {Shared, Plain(task[t].env.id.label)}

ProvisioningInv ==
    /\ ProvisioningTypeOK
    /\ LocalsNamed
    /\ NamesUnique
    /\ ProjectsMade
    /\ ServerAnnounced
    /\ ReadyUsable
    /\ \A t \in Terminals : InsertingAlone(t) /\ AboutAnnounced(t)

-----------------------------------------------------------------------------
(* Tasks *)

(* Which fields a task has follows from the request it is at. *)
LEMMA TaskFields ==
    ASSUME NEW c \in Tasks
    PROVE  /\ c.at = "idle" <=> c = Idle
           /\ c.at = "create" <=> c \in Inits
           /\ c.at = "inserting" <=> c \in Inserting
           /\ c.at \in {"account", "name"} <=> c \in Naming
           /\ c.at \in {"project", "env", "snapshot"} <=> c \in Pushes
           /\ c.at = "stopped" <=> c = Stopped
           /\ c.at \in {"restore", "list", "restoring"} <=> c \in Setups
           /\ c.at = "label" <=> c \in Labelling
           /\ c.at = "clone" <=> c \in Cloning
           /\ c.at = "cloned" <=> c \in Cloned
           /\ c.at = "share" <=> c \in Sharing
           /\ c.at \in {"key", "seal"} <=> c \in KeySends
<1>1. c = Idle => c.at = "idle"
  BY DEF Idle
<1>2. c \in Inits => c.at = "create"
  BY DEF Inits
<1>3. c \in Inserting => c.at = "inserting"
  BY DEF Inserting
<1>4. c \in Naming => c.at \in {"account", "name"}
  BY DEF Naming
<1>5. c \in Pushes => c.at \in {"project", "env", "snapshot"}
  BY DEF Pushes
<1>6. c = Stopped => c.at = "stopped"
  BY DEF Stopped
<1>7. c \in Setups => c.at \in {"restore", "list", "restoring"}
  BY DEF Setups
<1>8. c \in Labelling => c.at = "label"
  BY DEF Labelling
<1>9. c \in Cloning => c.at = "clone"
  BY DEF Cloning
<1>10. c \in Cloned => c.at = "cloned"
  BY DEF Cloned
<1>11. c \in Sharing => c.at = "share"
  BY DEF Sharing
<1>12. c \in KeySends => c.at \in {"key", "seal"}
  BY DEF KeySends
<1> QED BY <1>1, <1>2, <1>3, <1>4, <1>5, <1>6, <1>7, <1>8, <1>9, <1>10, <1>11,
           <1>12 DEF Tasks

(* A command that is not the one that acts keeps what it knows, if no       *)
(* project of its store goes, and nobody touches what `init` is making.     *)
LEMMA OthersKeep ==
    ASSUME ProvisioningInv, NEW s \in Terminals, task'[s] = task[s],
           published \subseteq published',
           made.projects <= made'.projects, made'.projects \in Nat,
           local[User[s]].projects \subseteq local'[User[s]].projects,
           task[s].at = "inserting" =>
              /\ \A e \in local[User[s]].envs \cup local'[User[s]].envs :
                    e.project = task[s].project =>
                       e \in local[User[s]].envs /\ e \in local'[User[s]].envs
              /\ task[s].project \notin Announced'
              /\ \A r \in Terminals \ {s} :
                    task'[r].at = "inserting" =>
                       task'[r].project # task[s].project
    PROVE  InsertingAlone(s)' /\ AboutAnnounced(s)'
<1>1. InsertingAlone(s) /\ AboutAnnounced(s) /\ task[s] \in Tasks
      /\ made.projects \in Nat
  BY DEF ProvisioningInv, ProvisioningTypeOK
<1>2. Announced \subseteq Announced'
  BY DEF Announced
<1>3. AboutAnnounced(s)'
  BY <1>1, <1>2 DEF AboutAnnounced
<1>4. ASSUME task[s].at = "inserting" PROVE InsertingAlone(s)'
  <2> DEFINE id == task[s].project
             todo == Elements(task[s].todo)
             before == {e \in local[User[s]].envs : e.project = id}
             after == {e \in local'[User[s]].envs : e.project = id}
  <2>1. before = after
    BY <1>4
  <2>2. id \in Nat
    BY <1>1, <1>4, TaskFields DEF Inserting
  <2>3. /\ id <= made.projects /\ id \in local[User[s]].projects
        /\ Distinct(task[s].todo)
        /\ \A e \in before : e.name = Plain(e.id.label) /\ e.id.label \notin todo
        /\ \A label \in Labels \ todo : \E e \in before : e.name = Plain(label)
    BY <1>1, <1>4 DEF InsertingAlone
  <2>4. id <= made'.projects
    BY <1>1, <2>2, <2>3
  <2> QED BY <1>4, <2>1, <2>3, <2>4 DEF InsertingAlone
<1> QED BY <1>1, <1>3, <1>4 DEF InsertingAlone

(* The store of every device, and what it was told, stay. *)
LEMMA StoresKeep ==
    ASSUME ProvisioningInv, UNCHANGED <<local, ready, published>>,
           made'.projects = made.projects
    PROVE  LocalsNamed' /\ NamesUnique' /\ ProjectsMade' /\ ReadyUsable'
<1>1. LocalsNamed' /\ NamesUnique'
  BY DEF ProvisioningInv, LocalsNamed, NamesUnique
<1>2. ProjectsMade'
  BY DEF ProvisioningInv, ProjectsMade, Announced
<1>3. ReadyUsable'
  BY DEF ProvisioningInv, ReadyUsable, Usable, Announced, LocalEnv
<1> QED BY <1>1, <1>2, <1>3

(* A request or an answer: one task goes on, no store changes. *)
LEMMA TaskStep ==
    ASSUME ProvisioningInv, NEW t \in Terminals, NEW c \in Tasks,
           task' = [task EXCEPT ![t] = c],
           UNCHANGED <<local, ready, published>>,
           device' \in [Users -> Nat],
           made' \in [keys : [Users -> Nat], projects : Nat],
           made'.projects = made.projects,
           ServerTypes', ServerAnnounced',
           c.at # "inserting", AboutAnnounced(t)'
    PROVE  ProvisioningInv'
<1>1. ProvisioningTypeOK'
  BY DEF ProvisioningInv, ProvisioningTypeOK
<1>2. \A s \in Terminals : task'[s] = IF s = t THEN c ELSE task[s]
  BY DEF ProvisioningInv, ProvisioningTypeOK
<1>3. ASSUME NEW s \in Terminals \ {t}
      PROVE  InsertingAlone(s)' /\ AboutAnnounced(s)'
  <2>1. InsertingAlone(s) /\ Announced' = Announced
    BY DEF ProvisioningInv, Announced
  <2>2. task[s].at = "inserting" =>
           /\ task[s].project \notin Announced'
           /\ \A r \in Terminals \ {s} :
                 task'[r].at = "inserting" => task'[r].project # task[s].project
    BY <1>2, <2>1 DEF InsertingAlone
  <2>3. made.projects <= made'.projects /\ made'.projects \in Nat
    <3>1. made'.projects \in Nat
      OBVIOUS
    <3> QED BY <3>1
  <2> QED BY <1>2, <2>2, <2>3, OthersKeep
<1>4. InsertingAlone(t)'
  BY <1>2 DEF InsertingAlone
<1>5. LocalsNamed' /\ NamesUnique' /\ ProjectsMade' /\ ReadyUsable'
  BY StoresKeep
<1> QED BY <1>1, <1>3, <1>4, <1>5 DEF ProvisioningInv

(* The server's tables alone. *)
LEMMA ServerStep ==
    ASSUME ProvisioningInv, UNCHANGED <<store, task>>,
           ServerTypes', ServerAnnounced'
    PROVE  ProvisioningInv'
<1>1. ProvisioningTypeOK'
  BY DEF ProvisioningInv, ProvisioningTypeOK, store
<1>2. LocalsNamed' /\ NamesUnique' /\ ProjectsMade' /\ ReadyUsable'
  BY StoresKeep DEF store
<1>3. ASSUME NEW s \in Terminals
      PROVE  InsertingAlone(s)' /\ AboutAnnounced(s)'
  BY DEF ProvisioningInv, InsertingAlone, AboutAnnounced, Announced, store
<1> QED BY <1>1, <1>2, <1>3 DEF ProvisioningInv

-----------------------------------------------------------------------------
(* Pushes *)

LEMMA NameKeyType ==
    ASSUME ProvisioningInv, NEW t \in Terminals, task[t].key \in Nat,
           NEW org, NEW key \in NameKeys(t, org)
    PROVE  key \in EncryptedUnder
<1>1. User[t] \in Users
  BY ProvisioningAssumption
<1>2. key \in {Master(t), OrganisationKey}
  BY DEF NameKeys
<1> QED BY <1>1, <1>2 DEF Master, OrganisationKey, EncryptedUnder

(* The requests that change no table but the tasks. *)
LEMMA QuietTask ==
    ASSUME ProvisioningInv, NEW t \in Terminals, NEW c \in Tasks,
           task' = [task EXCEPT ![t] = c],
           UNCHANGED <<server, store>>,
           c.at # "inserting", AboutAnnounced(t)'
    PROVE  ProvisioningInv'
<1>1. ServerTypes' /\ ServerAnnounced'
  BY DEF ProvisioningInv, ProvisioningTypeOK, ServerTypes, ServerAnnounced,
         Announced, server, store
<1>2. /\ UNCHANGED <<local, ready, published>>
      /\ device' \in [Users -> Nat]
      /\ made' \in [keys : [Users -> Nat], projects : Nat]
      /\ made'.projects = made.projects
  BY DEF ProvisioningInv, ProvisioningTypeOK, store
<1> QED BY <1>1, <1>2, TaskStep

LEMMA EndOfTask ==
    ASSUME ProvisioningInv, NEW t \in Terminals,
           NEW c \in {Idle, Stopped} \cup Inits \cup Sharing \cup KeySends,
           task' = [task EXCEPT ![t] = c]
    PROVE  c \in Tasks /\ c.at # "inserting" /\ AboutAnnounced(t)'
<1>1. c \in Tasks
  BY DEF Tasks
<1>2. c.at \in {"idle", "stopped", "create", "share", "key", "seal"}
  BY DEF Idle, Stopped, Inits, Sharing, KeySends
<1>3. task'[t] = c
  BY DEF ProvisioningInv, ProvisioningTypeOK
<1> QED BY <1>1, <1>2, <1>3 DEF AboutAnnounced

LEMMA StartPushKeeps ==
    ASSUME ProvisioningInv, NEW t \in Terminals,
           NEW config \in published \cup ready[User[t]], NEW name,
           StartPush(t, config, name)
    PROVE  ProvisioningInv'
<1>1. User[t] \in Users
  BY ProvisioningAssumption
<1>2. config \in Configs /\ config.project \in Announced
  BY <1>1 DEF ProvisioningInv, ProvisioningTypeOK, ReadyUsable, Usable, Announced
<1>3. PICK e \in LocalEnv(User[t], config.project, name) :
         /\ task' = [task EXCEPT ![t] = [at |-> "account", org |-> config.org,
                                         env |-> e, key |-> device[User[t]]]]
         /\ UNCHANGED <<server, store>>
  BY DEF StartPush, Start
<1>4. e \in LocalEnvs /\ e.project = config.project /\ e.project = e.id.project
  BY <1>1 DEF LocalEnv, ProvisioningInv, ProvisioningTypeOK, LocalsNamed,
              WellNamed
<1>5. PICK c : c = [at |-> "account", org |-> config.org, env |-> e,
                    key |-> device[User[t]]]
  OBVIOUS
<1>6. device[User[t]] \in Nat
  BY <1>1 DEF ProvisioningInv, ProvisioningTypeOK
<1>7. c \in Naming /\ c.at = "account" /\ c.env = e
  BY <1>2, <1>4, <1>5, <1>6 DEF Naming, Configs
<1>8. task' = [task EXCEPT ![t] = c] /\ task'[t] = c
  BY <1>3, <1>5 DEF ProvisioningInv, ProvisioningTypeOK
<1>9. Announced' = Announced
  BY <1>3 DEF Announced, store
<1>10. AboutAnnounced(t)'
  BY <1>2, <1>4, <1>7, <1>8, <1>9 DEF AboutAnnounced
<1> QED BY <1>3, <1>7, <1>8, <1>10, QuietTask DEF Tasks

LEMMA EnsureAccountKeeps ==
    ASSUME ProvisioningInv, NEW t \in Terminals, EnsureAccount(t)
    PROVE  ProvisioningInv'
<1>1. User[t] \in Users /\ task[t] \in Tasks
  BY ProvisioningAssumption DEF ProvisioningInv, ProvisioningTypeOK
<1>2. task[t] \in Naming /\ task[t].at = "account" /\ AboutAnnounced(t)
  BY <1>1, TaskFields DEF EnsureAccount, ProvisioningInv
<1>3. PICK c : c = [task[t] EXCEPT !.at = "name"]
  OBVIOUS
<1>4. c \in Naming /\ c.at = "name" /\ c.env = task[t].env
  BY <1>2, <1>3 DEF Naming
<1>5. task' = [task EXCEPT ![t] = c] /\ task'[t] = c
  BY <1>3 DEF EnsureAccount, Become, ProvisioningInv, ProvisioningTypeOK
<1>6. UNCHANGED <<role, deleting, orgKey, projects, envs, grants, store>>
  BY DEF EnsureAccount
<1>7. account' \in [Users -> Nat]
  BY <1>1 DEF EnsureAccount, ProvisioningInv, ProvisioningTypeOK, ServerTypes
<1>8. ServerTypes' /\ ServerAnnounced' /\ Announced' = Announced
  BY <1>6, <1>7 DEF ProvisioningInv, ProvisioningTypeOK, ServerTypes,
                    ServerAnnounced, Announced, store
<1>9. AboutAnnounced(t)'
  BY <1>2, <1>4, <1>5, <1>8 DEF AboutAnnounced
<1>10. /\ UNCHANGED <<local, ready, published>>
       /\ device' \in [Users -> Nat]
       /\ made' \in [keys : [Users -> Nat], projects : Nat]
       /\ made'.projects = made.projects
  BY <1>6 DEF ProvisioningInv, ProvisioningTypeOK, store
<1> QED BY <1>4, <1>5, <1>8, <1>9, <1>10, TaskStep DEF Tasks

LEMMA PushElsewhereKeeps ==
    ASSUME ProvisioningInv, NEW t \in Terminals, PushElsewhere(t)
    PROVE  ProvisioningInv'
<1>1. User[t] \in Users
  BY ProvisioningAssumption
<1>2. account' \in [Users -> Nat]
  BY <1>1 DEF PushElsewhere, ProvisioningInv, ProvisioningTypeOK, ServerTypes
<1>3. UNCHANGED <<role, deleting, orgKey, projects, envs, grants, store, task>>
  BY DEF PushElsewhere
<1>4. ServerTypes' /\ ServerAnnounced'
  BY <1>2, <1>3 DEF ProvisioningInv, ProvisioningTypeOK, ServerTypes,
                    ServerAnnounced, Announced, store
<1> QED BY <1>3, <1>4, ServerStep

LEMMA PickNameKeyKeeps ==
    ASSUME ProvisioningInv, NEW t \in Terminals, PickNameKey(t)
    PROVE  ProvisioningInv'
<1>1. User[t] \in Users /\ task[t] \in Tasks
  BY ProvisioningAssumption DEF ProvisioningInv, ProvisioningTypeOK
<1>2. task[t] \in Naming /\ task[t].at = "name" /\ AboutAnnounced(t)
  BY <1>1, TaskFields DEF PickNameKey, ProvisioningInv
<1>3. PICK key \in NameKeys(t, task[t].org) :
         task' = [task EXCEPT ![t] = [at |-> "project", org |-> task[t].org,
                                      env |-> task[t].env, name |-> key]]
  BY DEF PickNameKey, Become
<1>4. PICK c : c = [at |-> "project", org |-> task[t].org,
                    env |-> task[t].env, name |-> key]
  OBVIOUS
<1>5. key \in EncryptedUnder
  BY <1>2, NameKeyType DEF Naming
<1>6. c \in Pushes /\ c.at = "project" /\ c.env = task[t].env
  BY <1>2, <1>4, <1>5 DEF Naming, Pushes
<1>7. task' = [task EXCEPT ![t] = c] /\ task'[t] = c
  BY <1>3, <1>4 DEF ProvisioningInv, ProvisioningTypeOK
<1>8. UNCHANGED <<server, store>>
  BY DEF PickNameKey
<1>9. AboutAnnounced(t)'
  BY <1>2, <1>6, <1>7, <1>8 DEF AboutAnnounced, Announced, store
<1> QED BY <1>6, <1>7, <1>8, <1>9, QuietTask DEF Tasks

Replies == {"missing", "forbidden", "created", "ok", "conflict"}

LEMMA AfterReply ==
    ASSUME ProvisioningInv, NEW t \in Terminals, task[t] \in Pushes,
           NEW reply \in Replies, NEW next \in {"env", "snapshot"},
           After(t, reply, next), UNCHANGED published
    PROVE  \E c \in Tasks :
              /\ task' = [task EXCEPT ![t] = c]
              /\ c.at # "inserting" /\ AboutAnnounced(t)'
<1>1. CASE GoesOn(reply, task[t].org)
  <2>1. PICK c : c = [task[t] EXCEPT !.at = next]
    OBVIOUS
  <2>2. c \in Pushes /\ c.at = next /\ c.env = task[t].env
    BY <2>1 DEF Pushes
  <2>3. task' = [task EXCEPT ![t] = c] /\ task'[t] = c
    BY <1>1, <2>1 DEF After, Become, ProvisioningInv, ProvisioningTypeOK
  <2>4. AboutAnnounced(t) /\ task[t].at \in {"project", "env", "snapshot"}
    BY DEF ProvisioningInv, Pushes
  <2>5. AboutAnnounced(t)'
    BY <2>2, <2>3, <2>4 DEF AboutAnnounced, Announced
  <2> QED BY <2>2, <2>3, <2>5 DEF Tasks
<1>2. CASE ~GoesOn(reply, task[t].org)
  <2>1. task' = [task EXCEPT ![t] = Stopped]
    BY <1>2 DEF After, Become
  <2> QED BY <2>1, EndOfTask
<1> QED BY <1>1, <1>2

LEMMA CreateProjectKeeps ==
    ASSUME ProvisioningInv, NEW t \in Terminals, CreateProject(t)
    PROVE  ProvisioningInv'
<1>1. User[t] \in Users /\ task[t] \in Tasks
  BY ProvisioningAssumption DEF ProvisioningInv, ProvisioningTypeOK
<1>2. task[t] \in Pushes
  BY <1>1, TaskFields DEF CreateProject
<1>3. PICK reply :
         /\ reply = ProjectReply(User[t], task[t].env.project, task[t].org)
         /\ projects' = projects \cup
               IF reply = "created"
               THEN {[id |-> task[t].env.project, owner |-> User[t],
                      org |-> task[t].org]}
               ELSE {}
         /\ After(t, reply, "env")
         /\ UNCHANGED <<account, role, deleting, orgKey, envs, grants, store>>
  BY DEF CreateProject
<1>4. reply \in Replies
  BY <1>3 DEF ProjectReply, Replies
<1>5. PICK c \in Tasks :
         task' = [task EXCEPT ![t] = c] /\ c.at # "inserting" /\ AboutAnnounced(t)'
  BY <1>2, <1>3, <1>4, AfterReply DEF store
<1>6. [id |-> task[t].env.project, owner |-> User[t], org |-> task[t].org]
         \in [id : Nat, owner : Users, org : BOOLEAN]
  BY <1>1, <1>2 DEF Pushes, LocalEnvs
<1>7. ServerTypes' /\ ServerAnnounced'
  BY <1>3, <1>6 DEF ProvisioningInv, ProvisioningTypeOK, ServerTypes,
                    ServerAnnounced, Announced, store
<1>8. /\ UNCHANGED <<local, ready, published>>
      /\ device' \in [Users -> Nat]
      /\ made' \in [keys : [Users -> Nat], projects : Nat]
      /\ made'.projects = made.projects
  BY <1>3 DEF ProvisioningInv, ProvisioningTypeOK, store
<1> QED BY <1>5, <1>7, <1>8, TaskStep

LEMMA CreateEnvironmentKeeps ==
    ASSUME ProvisioningInv, NEW t \in Terminals, CreateEnvironment(t)
    PROVE  ProvisioningInv'
<1>1. User[t] \in Users /\ task[t] \in Tasks
  BY ProvisioningAssumption DEF ProvisioningInv, ProvisioningTypeOK
<1>2. task[t] \in Pushes /\ task[t].at = "env" /\ AboutAnnounced(t)
  BY <1>1, TaskFields DEF CreateEnvironment, ProvisioningInv
<1>3. PICK reply, id :
         /\ id = task[t].env.id
         /\ reply = EnvReply(User[t], id)
         /\ envs' = envs \cup
               IF reply = "created" THEN {[id |-> id, name |-> task[t].name]}
               ELSE {}
         /\ grants' = grants \cup
               IF reply = "created"
               THEN {[env |-> id, user |-> User[t], key |-> task[t].env.key]}
               ELSE {}
         /\ After(t, reply, "snapshot")
         /\ UNCHANGED <<account, role, deleting, orgKey, projects, store>>
  BY DEF CreateEnvironment
<1>4. reply \in Replies
  BY <1>3 DEF EnvReply, Replies
<1>5. PICK c \in Tasks :
         task' = [task EXCEPT ![t] = c] /\ c.at # "inserting" /\ AboutAnnounced(t)'
  BY <1>2, <1>3, <1>4, AfterReply DEF store
<1>6. /\ id \in Ids /\ task[t].name \in EncryptedUnder /\ task[t].env.key \in Nat
      /\ id.project \in Announced
  BY <1>2, <1>3 DEF Pushes, LocalEnvs, AboutAnnounced
<1>7. /\ [id |-> id, name |-> task[t].name] \in ServerEnvs
      /\ [env |-> id, user |-> User[t], key |-> task[t].env.key]
            \in [env : Ids, user : Users, key : Nat]
  BY <1>1, <1>6 DEF ServerEnvs
<1>8. ServerTypes'
  BY <1>3, <1>7 DEF ProvisioningInv, ProvisioningTypeOK, ServerTypes
<1>9. ServerAnnounced'
  BY <1>3, <1>6 DEF ProvisioningInv, ServerAnnounced, Announced, store
<1>10. /\ UNCHANGED <<local, ready, published>>
       /\ device' \in [Users -> Nat]
       /\ made' \in [keys : [Users -> Nat], projects : Nat]
       /\ made'.projects = made.projects
  BY <1>3 DEF ProvisioningInv, ProvisioningTypeOK, store
<1> QED BY <1>5, <1>8, <1>9, <1>10, TaskStep

LEMMA ReadSnapshotKeeps ==
    ASSUME ProvisioningInv, NEW t \in Terminals, ReadSnapshot(t)
    PROVE  ProvisioningInv'
<1>1. UNCHANGED <<server, store>>
  BY DEF ReadSnapshot
<1>2. PICK c \in {Idle, Stopped} : task' = [task EXCEPT ![t] = c]
  BY DEF ReadSnapshot, Become
<1> QED BY <1>1, <1>2, EndOfTask, QuietTask

LEMMA StopKeeps ==
    ASSUME ProvisioningInv, NEW t \in Terminals, Stop(t)
    PROVE  ProvisioningInv'
<1>1. UNCHANGED <<server, store>> /\ task' = [task EXCEPT ![t] = Idle]
  BY DEF Stop, Become
<1> QED BY <1>1, EndOfTask, QuietTask

-----------------------------------------------------------------------------
(* The organisation, its key and its members *)

LEMMA OrganisationKeeps ==
    ASSUME ProvisioningInv,
           UNCHANGED <<account, projects, envs, store, task>>,
           role' \in [Users -> {"none", "member", "admin", "owner"}],
           deleting' \in BOOLEAN,
           orgKey' \in [Users -> Nat], grants' \subseteq grants
    PROVE  ProvisioningInv'
<1>1. ServerTypes' /\ ServerAnnounced'
  BY DEF ProvisioningInv, ProvisioningTypeOK, ServerTypes, ServerAnnounced,
         Announced, store
<1> QED BY <1>1, ServerStep

LEMMA CreateOrgKeeps ==
    ASSUME ProvisioningInv, NEW t \in Terminals, CreateOrg(t)
    PROVE  ProvisioningInv'
<1>1. User[t] \in Users
  BY ProvisioningAssumption
<1>2. /\ role' \in [Users -> {"none", "member", "admin", "owner"}]
      /\ orgKey' \in [Users -> Nat] /\ deleting' \in BOOLEAN
      /\ UNCHANGED <<account, projects, envs, grants, store, task>>
  BY <1>1 DEF CreateOrg, ProvisioningInv, ProvisioningTypeOK, ServerTypes
<1> QED BY <1>2, OrganisationKeeps

LEMMA MembershipKeeps ==
    ASSUME ProvisioningInv, NEW v \in Users,
           Promote(v) \/ Demote(v) \/ RemoveMember(v)
    PROVE  ProvisioningInv'
<1>1. /\ role \in [Users -> {"none", "member", "admin", "owner"}]
      /\ orgKey \in [Users -> Nat] /\ deleting \in BOOLEAN
  BY DEF ProvisioningInv, ProvisioningTypeOK, ServerTypes
<1>2. /\ \E r \in {"none", "member", "admin"} : role' = [role EXCEPT ![v] = r]
      /\ orgKey' = orgKey \/ orgKey' = [orgKey EXCEPT ![v] = 0]
      /\ grants' \subseteq grants
      /\ UNCHANGED <<account, deleting, projects, envs, store, task>>
  BY DEF Promote, Demote, RemoveMember
<1>3. /\ role' \in [Users -> {"none", "member", "admin", "owner"}]
      /\ orgKey' \in [Users -> Nat] /\ deleting' \in BOOLEAN
  BY <1>1, <1>2
<1> QED BY <1>2, <1>3, OrganisationKeeps

LEMMA LifecycleKeeps ==
    ASSUME ProvisioningInv, Recover \/ \E u \in Users : RequestDeletion(u)
    PROVE  ProvisioningInv'
<1>1. /\ role' = role /\ orgKey' = orgKey /\ grants' = grants
      /\ deleting' \in BOOLEAN
      /\ UNCHANGED <<account, projects, envs, store, task>>
  BY DEF Recover, RequestDeletion
<1>2. /\ role \in [Users -> {"none", "member", "admin", "owner"}]
      /\ orgKey \in [Users -> Nat]
  BY DEF ProvisioningInv, ProvisioningTypeOK, ServerTypes
<1> QED BY <1>1, <1>2, OrganisationKeeps

(* A request of an administrator that ends, starts or moves on a task. *)
LEMMA AdminTask ==
    ASSUME ProvisioningInv, NEW t \in Terminals,
           NEW c \in {Idle} \cup Sharing \cup KeySends,
           task' = [task EXCEPT ![t] = c],
           UNCHANGED <<envs, store>>, ServerTypes'
    PROVE  ProvisioningInv'
<1>1. c \in Tasks /\ c.at # "inserting" /\ AboutAnnounced(t)'
  BY EndOfTask
<1>2. ServerAnnounced'
  BY DEF ProvisioningInv, ServerAnnounced, Announced, store
<1>3. /\ UNCHANGED <<local, ready, published>>
      /\ device' \in [Users -> Nat]
      /\ made' \in [keys : [Users -> Nat], projects : Nat]
      /\ made'.projects = made.projects
  BY DEF ProvisioningInv, ProvisioningTypeOK, store
<1> QED BY <1>1, <1>2, <1>3, TaskStep

LEMMA InviteKeepsStores ==
    ASSUME ProvisioningInv, NEW t \in Terminals, NEW v \in Users, Invite(t, v)
    PROVE  ProvisioningInv'
<1>1. ServerTypes
  BY DEF ProvisioningInv, ProvisioningTypeOK
<1>2. PICK c : /\ c = IF account[v] = 0 THEN Idle
                      ELSE [at |-> "key", to |-> v, public |-> account[v]]
               /\ task' = [task EXCEPT ![t] = c]
  BY DEF Invite, Start
<1>3. c \in {Idle} \cup KeySends
  BY <1>1, <1>2 DEF KeySends, ServerTypes
<1>4. UNCHANGED <<account, deleting, projects, envs, store>>
  BY DEF Invite
<1>5. ServerTypes'
  BY <1>1, <1>4 DEF Invite, ServerTypes
<1> QED BY <1>2, <1>3, <1>4, <1>5, AdminTask

LEMMA StartShareKeepsStores ==
    ASSUME ProvisioningInv, NEW t \in Terminals, NEW v \in Users,
           NEW env \in local[User[t]].envs, StartShare(t, env, v)
    PROVE  ProvisioningInv'
<1>1. /\ UNCHANGED <<server, store>>
      /\ task' = [task EXCEPT ![t] = [at |-> "share", env |-> env.id, to |-> v,
                                      public |-> account[v]]]
  BY DEF StartShare, Start
<1>2. ServerTypes /\ ServerTypes' /\ UNCHANGED envs
  BY <1>1 DEF ProvisioningInv, ProvisioningTypeOK, ServerTypes, server
<1>3. env \in LocalEnvs
  BY ProvisioningAssumption DEF ProvisioningInv, ProvisioningTypeOK
<1>4. PICK c : c = [at |-> "share", env |-> env.id, to |-> v,
                    public |-> account[v]]
  OBVIOUS
<1>5. c \in Sharing
  BY <1>2, <1>3, <1>4 DEF Sharing, LocalEnvs, ServerTypes
<1> QED BY <1>1, <1>2, <1>4, <1>5, AdminTask

LEMMA CreateGrantKeeps ==
    ASSUME ProvisioningInv, NEW t \in Terminals, CreateGrant(t)
    PROVE  ProvisioningInv'
<1>1. ServerTypes /\ task[t] \in Sharing
  BY TaskFields DEF CreateGrant, ProvisioningInv, ProvisioningTypeOK
<1>2. PICK c : c = [at |-> "key", to |-> task[t].to, public |-> task[t].public]
  OBVIOUS
<1>3. c \in KeySends
  BY <1>1, <1>2 DEF Sharing, KeySends
<1>4. /\ task' = [task EXCEPT ![t] = c]
      /\ UNCHANGED <<account, role, deleting, orgKey, projects, envs, store>>
  BY <1>2 DEF CreateGrant, Become
<1>5. [env |-> task[t].env, user |-> task[t].to, key |-> task[t].public]
         \in [env : Ids, user : Users, key : Nat]
  BY <1>1 DEF Sharing
<1>6. ServerTypes'
  BY <1>1, <1>4, <1>5 DEF CreateGrant, ServerTypes
<1> QED BY <1>3, <1>4, <1>6, AdminTask

LEMMA OpenOrgKeyKeeps ==
    ASSUME ProvisioningInv, NEW t \in Terminals, OpenOrgKey(t)
    PROVE  ProvisioningInv'
<1>1. ServerTypes /\ task[t] \in KeySends
  BY TaskFields DEF OpenOrgKey, ProvisioningInv, ProvisioningTypeOK
<1>2. PICK c : c = [task[t] EXCEPT !.at = "seal"]
  OBVIOUS
<1>3. c \in KeySends
  BY <1>1, <1>2 DEF KeySends
<1>4. task' = [task EXCEPT ![t] = c] /\ UNCHANGED <<server, store>>
  BY <1>2 DEF OpenOrgKey, Become
<1>5. ServerTypes' /\ UNCHANGED envs
  BY <1>1, <1>4 DEF ServerTypes, server
<1> QED BY <1>3, <1>4, <1>5, AdminTask

LEMMA GrantOrgKeyKeeps ==
    ASSUME ProvisioningInv, NEW t \in Terminals, GrantOrgKey(t)
    PROVE  ProvisioningInv'
<1>1. ServerTypes /\ task[t] \in KeySends
  BY TaskFields DEF GrantOrgKey, ProvisioningInv, ProvisioningTypeOK
<1>2. task[t].public \in Nat /\ task[t].to \in Users
  BY <1>1 DEF KeySends
<1>3. /\ task' = [task EXCEPT ![t] = Idle]
      /\ UNCHANGED <<account, role, deleting, projects, envs, grants, store>>
  BY DEF GrantOrgKey, Become
<1>4. ServerTypes'
  BY <1>1, <1>2, <1>3 DEF GrantOrgKey, ServerTypes
<1> QED BY <1>3, <1>4, AdminTask

-----------------------------------------------------------------------------
(* Setting up a device, and the reads before its store changes *)

LEMMA StartInitKeeps ==
    ASSUME ProvisioningInv, NEW t \in Terminals, NEW org \in BOOLEAN,
           StartInit(t, org)
    PROVE  ProvisioningInv'
<1>1. User[t] \in Users
  BY ProvisioningAssumption
<1>2. PICK c : c = [at |-> "create", org |-> org]
  OBVIOUS
<1>3. c \in Inits
  BY <1>2 DEF Inits
<1>4. /\ task' = [task EXCEPT ![t] = c]
      /\ UNCHANGED <<server, local, ready, published>>
  BY <1>2 DEF StartInit, Start
<1>5. c \in Tasks /\ c.at # "inserting" /\ AboutAnnounced(t)'
  BY <1>3, <1>4, EndOfTask
<1>6. made \in [keys : [Users -> Nat], projects : Nat]
      /\ device \in [Users -> Nat]
  BY DEF ProvisioningInv, ProvisioningTypeOK
<1>7. /\ device' \in [Users -> Nat]
      /\ made' \in [keys : [Users -> Nat], projects : Nat]
      /\ made'.projects = made.projects
  <2>1. CASE device[User[t]] = 0
    <3>1. /\ made' = [made EXCEPT !.keys[User[t]] = made.keys[User[t]] + 1]
          /\ device' = [device EXCEPT ![User[t]] = made.keys[User[t]] + 1]
      BY <2>1 DEF StartInit
    <3>2. made.keys \in [Users -> Nat] /\ made.keys[User[t]] + 1 \in Nat
      BY <1>1, <1>6
    <3> QED BY <1>1, <1>6, <3>1, <3>2
  <2>2. CASE device[User[t]] # 0
    BY <1>6, <2>2 DEF StartInit
  <2> QED BY <2>1, <2>2
<1>8. ServerTypes' /\ ServerAnnounced'
  BY <1>4 DEF ProvisioningInv, ProvisioningTypeOK, ServerTypes,
              ServerAnnounced, Announced, server
<1> QED BY <1>4, <1>5, <1>7, <1>8, TaskStep

LEMMA StartSetupKeeps ==
    ASSUME ProvisioningInv, NEW t \in Terminals, NEW config \in published,
           StartSetup(t, config)
    PROVE  ProvisioningInv'
<1>1. User[t] \in Users
  BY ProvisioningAssumption
<1>2. config \in Configs /\ config.project \in Announced
  BY DEF ProvisioningInv, ProvisioningTypeOK, Announced
<1>3. account[User[t]] \in Nat
  BY <1>1 DEF ProvisioningInv, ProvisioningTypeOK, ServerTypes
<1>4. PICK c : c = [at |-> "restore", config |-> config,
                    key |-> account[User[t]], opens |-> {}, todo |-> {}]
  OBVIOUS
<1>5. /\ c \in Setups /\ c.at = "restore" /\ c.config = config
      /\ c.todo = {}
  BY <1>2, <1>3, <1>4 DEF Setups
<1>6. /\ task' = [task EXCEPT ![t] = c]
      /\ device' = [device EXCEPT ![User[t]] = account[User[t]]]
      /\ UNCHANGED <<server, local, ready, published, made>>
  BY <1>4 DEF StartSetup, Start
<1>7. task'[t] = c /\ Announced' = Announced
  BY <1>6 DEF ProvisioningInv, ProvisioningTypeOK, Announced
<1>8. AboutAnnounced(t)'
  BY <1>2, <1>5, <1>7 DEF AboutAnnounced
<1>9. /\ device' \in [Users -> Nat]
      /\ made' \in [keys : [Users -> Nat], projects : Nat]
      /\ made'.projects = made.projects
  BY <1>1, <1>3, <1>6 DEF ProvisioningInv, ProvisioningTypeOK
<1>10. ServerTypes' /\ ServerAnnounced'
  BY <1>6 DEF ProvisioningInv, ProvisioningTypeOK, ServerTypes,
              ServerAnnounced, Announced, server
<1> QED BY <1>5, <1>6, <1>8, <1>9, <1>10, TaskStep DEF Tasks

LEMMA ListEnvironmentsKeeps ==
    ASSUME ProvisioningInv, NEW t \in Terminals, ListEnvironments(t)
    PROVE  ProvisioningInv'
<1>1. User[t] \in Users /\ task[t] \in Tasks
  BY ProvisioningAssumption DEF ProvisioningInv, ProvisioningTypeOK
<1>2. task[t] \in Setups /\ task[t].at = "list" /\ AboutAnnounced(t)
  BY <1>1, TaskFields DEF ListEnvironments, ProvisioningInv
<1>3. PICK todo : todo = Granted(User[t], task[t].config.project)
  OBVIOUS
<1>4. \A item \in todo : /\ item \in Items
                         /\ item.env.id.project = task[t].config.project
  BY <1>3 DEF Granted, Items, ProvisioningInv, ProvisioningTypeOK, ServerTypes
<1>5. PICK c : c = [task[t] EXCEPT !.at = "restoring", !.todo = todo]
  OBVIOUS
<1>6. /\ c \in Setups /\ c.at = "restoring" /\ c.config = task[t].config
      /\ c.todo = todo
  BY <1>2, <1>4, <1>5 DEF Setups
<1>7. task' = [task EXCEPT ![t] = c] /\ UNCHANGED <<server, store>>
  BY <1>3, <1>5 DEF ListEnvironments, Become
<1>8. task'[t] = c /\ UNCHANGED <<published, local>>
  BY <1>7 DEF ProvisioningInv, ProvisioningTypeOK, store
<1>9. AboutAnnounced(t)'
  BY <1>2, <1>4, <1>6, <1>8 DEF AboutAnnounced, Announced
<1> QED BY <1>6, <1>7, <1>9, QuietTask DEF Tasks

LEMMA StartCloneKeeps ==
    ASSUME ProvisioningInv, NEW t \in Terminals, NEW env \in envs,
           NEW o \in CloneOptions, StartClone(t, env, o)
    PROVE  ProvisioningInv'
<1>1. User[t] \in Users
  BY ProvisioningAssumption
<1>2. env \in ServerEnvs /\ env.id.project \in Announced
      /\ device[User[t]] \in Nat
  BY <1>1 DEF ProvisioningInv, ProvisioningTypeOK, ServerTypes, ServerAnnounced
<1>3. PICK c : c = [at |-> "label", env |-> env, options |-> o,
                    key |-> device[User[t]]]
  OBVIOUS
<1>4. c \in Labelling /\ c.at = "label" /\ c.env = env
  BY <1>2, <1>3, ProvisioningAssumption DEF Labelling
<1>5. task' = [task EXCEPT ![t] = c] /\ UNCHANGED <<server, store>>
  BY <1>3 DEF StartClone, Start
<1>6. task'[t] = c /\ UNCHANGED published
  BY <1>5 DEF ProvisioningInv, ProvisioningTypeOK, store
<1>7. AboutAnnounced(t)'
  BY <1>2, <1>4, <1>6 DEF AboutAnnounced, Announced
<1> QED BY <1>4, <1>5, <1>7, QuietTask DEF Tasks

-----------------------------------------------------------------------------
(* The local stores *)

(* A store that only grows still has what its device was told is usable. *)
LEMMA StillUsable ==
    ASSUME ProvisioningInv, UNCHANGED <<ready, published>>,
           \A u \in Users : /\ local[u].projects \subseteq local'[u].projects
                            /\ local[u].envs \subseteq local'[u].envs
    PROVE  ReadyUsable'
<1> SUFFICES ASSUME NEW u \in Users, NEW c \in ready[u]
             PROVE  Usable(u, c)'
  BY DEF ReadyUsable
<1>1. Usable(u, c)
  BY DEF ProvisioningInv, ReadyUsable
<1>2. PICK e \in local[u].envs :
         e.project = c.project /\ e.name = c.environment
  BY <1>1 DEF Usable, LocalEnv
<1>3. e \in LocalEnv(u, c.project, c.environment)'
  BY <1>2 DEF LocalEnv
<1> QED BY <1>1, <1>3 DEF Usable, Announced

(* A project enters a store, and its command goes on. *)
LEMMA ProjectStored ==
    ASSUME ProvisioningInv, NEW t \in Terminals, NEW id \in Nat, NEW c \in Tasks,
           InsertProject(User[t], id), task' = [task EXCEPT ![t] = c],
           UNCHANGED <<server, device, ready, published>>,
           made' \in [keys : [Users -> Nat], projects : Nat],
           made.projects <= made'.projects,
           \A s \in Terminals \ {t} :
              task[s].at = "inserting" /\ c.at = "inserting"
                 => task[s].project # c.project,
           InsertingAlone(t)', AboutAnnounced(t)'
    PROVE  ProvisioningInv'
<1>1. User[t] \in Users /\ ProvisioningTypeOK /\ made.projects \in Nat
  BY ProvisioningAssumption DEF ProvisioningInv, ProvisioningTypeOK
<1>2. local \in [Users -> [projects : SUBSET Nat, envs : SUBSET LocalEnvs]]
  BY <1>1 DEF ProvisioningTypeOK
<1>3. local' = [local EXCEPT ![User[t]] =
                  [local[User[t]] EXCEPT !.projects =
                     local[User[t]].projects \cup {id}]]
  BY <1>1, <1>2 DEF InsertProject
<1>4. [local[User[t]] EXCEPT !.projects = local[User[t]].projects \cup {id}]
         \in [projects : SUBSET Nat, envs : SUBSET LocalEnvs]
  BY <1>1, <1>2
<1>5. /\ local' \in [Users -> [projects : SUBSET Nat, envs : SUBSET LocalEnvs]]
      /\ \A u \in Users : /\ local[u].projects \subseteq local'[u].projects
                          /\ local'[u].envs = local[u].envs
  BY <1>1, <1>2, <1>3, <1>4
<1>6. ServerTypes' /\ ServerAnnounced' /\ Announced' = Announced
  BY <1>1 DEF ProvisioningInv, ProvisioningTypeOK, ServerTypes,
              ServerAnnounced, Announced, server
<1>7. ProvisioningTypeOK'
  BY <1>1, <1>5, <1>6 DEF ProvisioningTypeOK
<1>8. LocalsNamed' /\ NamesUnique'
  BY <1>5 DEF ProvisioningInv, LocalsNamed, NamesUnique
<1>9. ProjectsMade'
  <2>1. \A n \in Nat : n <= made.projects => n <= made'.projects
    BY <1>1
  <2>2. Announced \subseteq Nat
    BY <1>1 DEF Announced, ProvisioningTypeOK, Configs
  <2>3. \A u \in Users : \A e \in local[u].envs : e.project \in Nat
    BY <1>2 DEF LocalEnvs
  <2> QED BY <1>5, <1>6, <2>1, <2>2, <2>3 DEF ProvisioningInv, ProjectsMade
<1>10. ReadyUsable'
  BY <1>5, StillUsable
<1>11. \A s \in Terminals : task'[s] = IF s = t THEN c ELSE task[s]
  BY <1>1 DEF ProvisioningTypeOK
<1>12. ASSUME NEW s \in Terminals \ {t}
       PROVE  InsertingAlone(s)' /\ AboutAnnounced(s)'
  <2>1. User[s] \in Users /\ InsertingAlone(s)
    BY ProvisioningAssumption DEF ProvisioningInv
  <2>2. task[s].at = "inserting" =>
           /\ task[s].project \notin Announced'
           /\ \A r \in Terminals \ {s} :
                 task'[r].at = "inserting" => task'[r].project # task[s].project
    BY <1>6, <1>11, <2>1 DEF InsertingAlone
  <2>3. made'.projects \in Nat
    OBVIOUS
  <2> QED BY <1>5, <1>11, <2>1, <2>2, <2>3, OthersKeep
<1> QED BY <1>6, <1>7, <1>8, <1>9, <1>10, <1>12 DEF ProvisioningInv

(* An environment enters a store under a free name.  Only the command that  *)
(* is making its project may do so before the project is announced.         *)
LEMMA EnvStored ==
    ASSUME ProvisioningInv, NEW t \in Terminals, NEW e \in LocalEnvs,
           NEW c \in Tasks, WellNamed(e), e.project <= made.projects,
           \A d \in local[User[t]].envs :
              ~(d.project = e.project /\ d.name = e.name),
           local' = [local EXCEPT ![User[t]] =
                       [local[User[t]] EXCEPT !.envs =
                          local[User[t]].envs \cup {e}]],
           task' = [task EXCEPT ![t] = c],
           UNCHANGED <<server, device, ready, published, made>>,
           \A s \in Terminals \ {t} :
              task[s].at = "inserting" => task[s].project # e.project,
           c.at = "inserting" => c.project = e.project,
           InsertingAlone(t)', AboutAnnounced(t)'
    PROVE  ProvisioningInv'
<1>1. User[t] \in Users /\ ProvisioningTypeOK /\ made.projects \in Nat
  BY ProvisioningAssumption DEF ProvisioningInv, ProvisioningTypeOK
<1>2. local \in [Users -> [projects : SUBSET Nat, envs : SUBSET LocalEnvs]]
  BY <1>1 DEF ProvisioningTypeOK
<1>3. [local[User[t]] EXCEPT !.envs = local[User[t]].envs \cup {e}]
         \in [projects : SUBSET Nat, envs : SUBSET LocalEnvs]
  BY <1>1, <1>2
<1>4. /\ local' \in [Users -> [projects : SUBSET Nat, envs : SUBSET LocalEnvs]]
      /\ \A u \in Users :
            /\ local'[u].projects = local[u].projects
            /\ local'[u].envs = IF u = User[t] THEN local[u].envs \cup {e}
                                ELSE local[u].envs
  BY <1>1, <1>2, <1>3
<1>5. ServerTypes' /\ ServerAnnounced' /\ Announced' = Announced
  BY <1>1 DEF ProvisioningInv, ProvisioningTypeOK, ServerTypes,
              ServerAnnounced, Announced, server
<1>6. ProvisioningTypeOK'
  BY <1>1, <1>4, <1>5 DEF ProvisioningTypeOK
<1>7. LocalsNamed'
  BY <1>4 DEF ProvisioningInv, LocalsNamed, WellNamed
<1>8. NamesUnique'
  BY <1>4 DEF ProvisioningInv, NamesUnique
<1>9. ProjectsMade'
  BY <1>4, <1>5 DEF ProvisioningInv, ProjectsMade
<1>10. ReadyUsable'
  BY <1>4, StillUsable
<1>11. \A s \in Terminals : task'[s] = IF s = t THEN c ELSE task[s]
  BY <1>1 DEF ProvisioningTypeOK
<1>12. ASSUME NEW s \in Terminals \ {t}
       PROVE  InsertingAlone(s)' /\ AboutAnnounced(s)'
  <2>1. User[s] \in Users /\ InsertingAlone(s)
    BY ProvisioningAssumption DEF ProvisioningInv
  <2>2. ASSUME task[s].at = "inserting"
        PROVE  /\ \A d \in local[User[s]].envs \cup local'[User[s]].envs :
                     d.project = task[s].project =>
                        d \in local[User[s]].envs /\ d \in local'[User[s]].envs
               /\ task[s].project \notin Announced'
               /\ \A r \in Terminals \ {s} :
                     task'[r].at = "inserting" =>
                        task'[r].project # task[s].project
    <3>1. task[s].project # e.project /\ task[s].project \notin Announced'
      BY <1>5, <2>1, <2>2 DEF InsertingAlone
    <3>2. \A d \in local[User[s]].envs \cup local'[User[s]].envs :
             d.project = task[s].project =>
                d \in local[User[s]].envs /\ d \in local'[User[s]].envs
      BY <1>4, <2>1, <3>1
    <3>3. \A r \in Terminals \ {s} :
             task'[r].at = "inserting" => task'[r].project # task[s].project
      BY <1>11, <2>1, <2>2, <3>1 DEF InsertingAlone
    <3> QED BY <3>1, <3>2, <3>3
  <2>3. made.projects <= made'.projects /\ made'.projects \in Nat
    BY <1>1
  <2>4. local[User[s]].projects \subseteq local'[User[s]].projects
    BY <1>4, <2>1
  <2> QED BY <1>11, <2>2, <2>3, <2>4, OthersKeep
<1> QED BY <1>5, <1>6, <1>7, <1>8, <1>9, <1>10, <1>12 DEF ProvisioningInv

-----------------------------------------------------------------------------
(* `init` *)

LEMMA DefaultsType ==
    /\ DefaultEnvironments \in Seq(Labels)
    /\ Head(DefaultEnvironments) \in Labels
<1>1. /\ DefaultEnvironments \in Seq(STRING) /\ DefaultEnvironments # << >>
  BY ProvisioningAssumption
<1>2. \A i \in 1 .. Len(DefaultEnvironments) : DefaultEnvironments[i] \in Labels
  BY <1>1 DEF Labels, Elements
<1>3. DefaultEnvironments \in Seq(Labels)
  BY <1>1, <1>2
<1> QED BY <1>1, <1>2, <1>3

LEMMA LabelsType == Labels \subseteq STRING
BY ProvisioningAssumption DEF Labels, Elements

LEMMA TextDisplayed ==
    /\ \A x \in STRING : Plain(x) \in Displayed
    /\ \A id \in Ids : Plain(id.label) \in Displayed /\ IdOf(id) \in Displayed
    /\ Shared \in Displayed
<1>1. \A x \in STRING : Plain(x) \in Displayed
  BY DEF Plain, Displayed
<1>2. \A id \in Ids : id.label \in STRING
  BY LabelsType DEF Ids
<1>3. \A id \in Ids : IdOf(id) \in Displayed
  BY <1>2 DEF IdOf, Displayed
<1>4. Shared \in Displayed
  BY DEF Shared, Plain, Displayed
<1> QED BY <1>1, <1>2, <1>3, <1>4

(* What is left of a list without repetitions when its head is taken off. *)
LEMMA RestOfList ==
    ASSUME NEW S, NEW s \in Seq(S), s # << >>,
           Distinct(s)
    PROVE  /\ Head(s) \in S /\ Tail(s) \in Seq(S)
           /\ Elements(Tail(s)) = Elements(s) \ {Head(s)}
           /\ Head(s) \in Elements(s)
           /\ Distinct(Tail(s))
<1>1. /\ Len(s) \in Nat \ {0} /\ DOMAIN s = 1 .. Len(s)
      /\ Head(s) = s[1] /\ Tail(s) \in Seq(S)
      /\ DOMAIN Tail(s) = 1 .. (Len(s) - 1)
      /\ \A i \in 1 .. (Len(s) - 1) : Tail(s)[i] = s[i + 1]
  OBVIOUS
<1>2. ASSUME NEW i \in DOMAIN Tail(s)
      PROVE  i + 1 \in DOMAIN s /\ Tail(s)[i] = s[i + 1] /\ s[i + 1] # s[1]
  BY <1>1 DEF Distinct
<1>3. ASSUME NEW i \in DOMAIN s, s[i] # s[1]
      PROVE  i - 1 \in DOMAIN Tail(s) /\ Tail(s)[i - 1] = s[i]
  BY <1>1, <1>3
<1>4. Elements(Tail(s)) = Elements(s) \ {s[1]}
  <2>1. \A x \in Elements(Tail(s)) : x \in Elements(s) \ {s[1]}
    BY <1>2 DEF Elements
  <2>2. \A x \in Elements(s) \ {s[1]} : x \in Elements(Tail(s))
    <3> SUFFICES ASSUME NEW i \in DOMAIN s, s[i] # s[1]
                 PROVE  \E j \in DOMAIN Tail(s) : s[i] = Tail(s)[j]
      BY DEF Elements
    <3>1. i - 1 \in DOMAIN Tail(s) /\ s[i] = Tail(s)[i - 1]
      BY <1>3
    <3> QED BY <3>1
  <2> QED BY <2>1, <2>2
<1>5. Distinct(Tail(s))
  BY <1>1, <1>2 DEF Distinct
<1>6. Head(s) \in Elements(s)
  BY <1>1 DEF Elements
<1> QED BY <1>1, <1>4, <1>5, <1>6

LEMMA InitProjectKeeps ==
    ASSUME ProvisioningInv, NEW t \in Terminals, InitProject(t)
    PROVE  ProvisioningInv'
<1>1. User[t] \in Users /\ task[t] \in Tasks /\ made.projects \in Nat
  BY ProvisioningAssumption DEF ProvisioningInv, ProvisioningTypeOK
<1>2. task[t] \in Inits
  BY <1>1, TaskFields DEF InitProject
<1>3. PICK id \in Nat : id = made.projects + 1
  BY <1>1
<1>4. PICK c : c = [at |-> "inserting", org |-> task[t].org, project |-> id,
                    todo |-> DefaultEnvironments]
  OBVIOUS
<1>5. c \in Inserting /\ c \in Tasks
  BY <1>2, <1>4, DefaultsType DEF Inits, Inserting, Tasks
<1>6. c.at = "inserting" /\ c.project = id /\ c.todo = DefaultEnvironments
  BY <1>4
<1>7. /\ made' = [made EXCEPT !.projects = made.projects + 1]
      /\ InsertProject(User[t], id) /\ task' = [task EXCEPT ![t] = c]
      /\ UNCHANGED <<server, device, ready, published>>
  BY <1>3, <1>4 DEF InitProject, Become
<1>8. /\ made' \in [keys : [Users -> Nat], projects : Nat]
      /\ made'.projects = id /\ made.projects <= made'.projects
  BY <1>1, <1>3, <1>7 DEF ProvisioningInv, ProvisioningTypeOK
<1>9. task'[t] = c /\ Announced' = Announced
  BY <1>7 DEF ProvisioningInv, ProvisioningTypeOK, Announced
<1>10. /\ id \in local'[User[t]].projects
       /\ local'[User[t]].envs = local[User[t]].envs
  BY <1>1, <1>7 DEF InsertProject, ProvisioningInv, ProvisioningTypeOK
<1>11. \A e \in local[User[t]].envs : e.project # id
  <2>1. \A e \in local[User[t]].envs :
           e.project <= made.projects /\ e.project \in Nat
    BY <1>1 DEF ProvisioningInv, ProvisioningTypeOK, ProjectsMade, LocalEnvs
  <2> QED BY <1>1, <1>3, <2>1
<1>12. id \notin Announced
  <2>1. \A n \in Announced : n <= made.projects /\ n \in Nat
    BY DEF ProvisioningInv, ProvisioningTypeOK, ProjectsMade, Announced, Configs
  <2> QED BY <1>1, <1>3, <2>1
<1>13. \A s \in Terminals \ {t} :
          task[s].at = "inserting" => task[s].project # id
  <2>1. ASSUME NEW s \in Terminals, task[s].at = "inserting"
        PROVE  task[s].project <= made.projects /\ task[s].project \in Nat
    BY <2>1, TaskFields DEF ProvisioningInv, ProvisioningTypeOK, InsertingAlone,
                            Inserting
  <2> QED BY <1>1, <1>3, <2>1
<1>14. InsertingAlone(t)'
  <2> DEFINE todo == Elements(c.todo)
             inserted == {e \in local'[User[t]].envs : e.project = id}
  <2>1. inserted = {} /\ todo = Labels
    BY <1>6, <1>10, <1>11 DEF Labels
  <2>2. Distinct(c.todo)
    BY <1>6, ProvisioningAssumption DEF Distinct
  <2>3. \A s \in Terminals \ {t} :
           task'[s].at = "inserting" => task'[s].project # id
    BY <1>7, <1>13 DEF ProvisioningInv, ProvisioningTypeOK
  <2>4. id <= made'.projects
    BY <1>3, <1>8
  <2> QED BY <1>6, <1>9, <1>10, <1>12, <2>1, <2>2, <2>3, <2>4
             DEF InsertingAlone
<1>15. AboutAnnounced(t)'
  BY <1>6, <1>9 DEF AboutAnnounced
<1> QED BY <1>5, <1>6, <1>7, <1>8, <1>13, <1>14, <1>15, ProjectStored

LEMMA OneLabelPerName ==
    ASSUME NEW x, NEW y, Plain(x) = Plain(y)
    PROVE  x = y
BY DEF Plain

LEMMA InitEnvKeeps ==
    ASSUME ProvisioningInv, NEW t \in Terminals, InitEnv(t)
    PROVE  ProvisioningInv'
<1>1. User[t] \in Users /\ task[t] \in Tasks /\ device[User[t]] \in Nat
  BY ProvisioningAssumption DEF ProvisioningInv, ProvisioningTypeOK
<1>2. /\ task[t] \in Inserting /\ task[t].at = "inserting"
      /\ task[t].todo # << >>
  BY <1>1, TaskFields DEF InitEnv
<1>3. PICK id, todo, label, rest :
         /\ id = task[t].project /\ todo = task[t].todo
         /\ label = Head(todo) /\ rest = Tail(todo)
  OBVIOUS
<1>4. id \in Nat /\ todo \in Seq(Labels) /\ todo # << >>
  BY <1>2, <1>3 DEF Inserting
<1>5. /\ id <= made.projects /\ id \notin Announced
      /\ id \in local[User[t]].projects
      /\ Distinct(todo)
      /\ \A e \in local[User[t]].envs : e.project = id =>
            /\ e.name = Plain(e.id.label)
            /\ e.id.label \notin Elements(todo)
      /\ \A l \in Labels \ Elements(todo) :
            \E e \in local[User[t]].envs : e.project = id /\ e.name = Plain(l)
      /\ \A s \in Terminals \ {t} :
            task[s].at = "inserting" => task[s].project # id
  <2>1. InsertingAlone(t)
    BY DEF ProvisioningInv
  <2> QED BY <1>2, <1>3, <2>1 DEF InsertingAlone
<1>6. /\ label \in Labels /\ rest \in Seq(Labels)
      /\ Elements(rest) = Elements(todo) \ {label}
      /\ label \in Elements(todo)
      /\ Distinct(rest)
  BY <1>3, <1>4, <1>5, RestOfList
<1>7. PICK new : new = [id |-> [project |-> id, label |-> label],
                        project |-> id, name |-> Plain(label),
                        key |-> device[User[t]], renamed |-> FALSE]
  OBVIOUS
<1>8. PICK c : c = [task[t] EXCEPT !.todo = rest]
  OBVIOUS
<1>9. /\ c \in Inserting /\ c.at = "inserting" /\ c.project = id
      /\ c.todo = rest
  BY <1>2, <1>3, <1>6, <1>8 DEF Inserting
<1>10. new \in LocalEnvs /\ WellNamed(new)
  BY <1>1, <1>4, <1>6, <1>7, LabelsType
     DEF LocalEnvs, Ids, Displayed, Plain, WellNamed
<1>11. /\ local' = [local EXCEPT ![User[t]] =
                      [local[User[t]] EXCEPT !.envs =
                         local[User[t]].envs \cup {new}]]
       /\ task' = [task EXCEPT ![t] = c]
       /\ UNCHANGED <<server, device, ready, published, made>>
  BY <1>1, <1>3, <1>7, <1>8
     DEF InitEnv, InsertEnv, Become, ProvisioningInv, ProvisioningTypeOK
<1>12. \A d \in local[User[t]].envs : ~(d.project = id /\ d.name = Plain(label))
  BY <1>5, <1>6, OneLabelPerName
<1>13. /\ local'[User[t]].projects = local[User[t]].projects
       /\ local'[User[t]].envs = local[User[t]].envs \cup {new}
       /\ Announced' = Announced
  BY <1>1, <1>11 DEF ProvisioningInv, ProvisioningTypeOK, Announced
<1>14. \A s \in Terminals : task'[s] = IF s = t THEN c ELSE task[s]
  BY <1>11 DEF ProvisioningInv, ProvisioningTypeOK
<1>15. InsertingAlone(t)'
  <2> DEFINE left == Elements(c.todo)
             inserted == {e \in local'[User[t]].envs : e.project = id}
  <2>1. left = Elements(todo) \ {label}
    BY <1>6, <1>9
  <2>2. new.project = id /\ new.name = Plain(label) /\ new.id.label = label
    BY <1>7
  <2>3. \A e \in inserted : e.name = Plain(e.id.label) /\ e.id.label \notin left
    BY <1>5, <1>13, <2>1, <2>2
  <2>4. ASSUME NEW l \in Labels \ left
        PROVE  \E e \in inserted : e.name = Plain(l)
    BY <1>5, <1>13, <2>1, <2>2
  <2>5. Distinct(c.todo)
    BY <1>6, <1>9
  <2>6. id <= made'.projects /\ id \notin Announced' /\ id \in local'[User[t]].projects
    BY <1>5, <1>11, <1>13
  <2>7. \A s \in Terminals \ {t} :
           task'[s].at = "inserting" => task'[s].project # id
    BY <1>5, <1>14
  <2>8. task'[t] = c
    BY <1>14
  <2> QED BY <1>9, <2>3, <2>4, <2>5, <2>6, <2>7, <2>8 DEF InsertingAlone
<1>16. AboutAnnounced(t)'
  BY <1>9, <1>14 DEF AboutAnnounced
<1>17. new.project = id /\ new.name = Plain(label)
  BY <1>7
<1> QED BY <1>5, <1>9, <1>10, <1>11, <1>12, <1>15, <1>16, <1>17, EnvStored
           DEF Tasks

(* The project is complete: its first environment is there, once. *)
LEMMA SaveInitKeeps ==
    ASSUME ProvisioningInv, NEW t \in Terminals, SaveInit(t)
    PROVE  ProvisioningInv'
<1>1. User[t] \in Users /\ task[t] \in Tasks /\ ProvisioningTypeOK
  BY ProvisioningAssumption DEF ProvisioningInv, ProvisioningTypeOK
<1>2. /\ task[t] \in Inserting /\ task[t].at = "inserting"
      /\ task[t].todo = << >>
  BY <1>1, TaskFields DEF SaveInit
<1>3. PICK id, config :
         /\ id = task[t].project
         /\ config = Config(id, Plain(Head(DefaultEnvironments)), task[t].org)
  OBVIOUS
<1>4. id \in Nat /\ config \in Configs /\ config.project = id
      /\ config.environment = Plain(Head(DefaultEnvironments))
  BY <1>2, <1>3, DefaultsType, LabelsType
     DEF Inserting, Config, Configs, Displayed, Plain
<1>5. /\ ready' = [ready EXCEPT ![User[t]] = {config}]
      /\ published' = published \cup {config}
      /\ task' = [task EXCEPT ![t] = Idle]
      /\ UNCHANGED <<server, device, local, made>>
  BY <1>3 DEF SaveInit, Become
<1>6. /\ id <= made.projects /\ id \in local[User[t]].projects
      /\ \E e \in local[User[t]].envs :
            e.project = id /\ e.name = Plain(Head(DefaultEnvironments))
      /\ \A s \in Terminals \ {t} :
            task[s].at = "inserting" => task[s].project # id
  <2>1. InsertingAlone(t)
    BY DEF ProvisioningInv
  <2>2. Elements(task[t].todo) = {}
    BY <1>2 DEF Elements
  <2>3. Head(DefaultEnvironments)
           \in Labels \ Elements(task[t].todo)
    BY <2>2, DefaultsType
  <2> QED BY <1>2, <1>3, <2>1, <2>3 DEF InsertingAlone
<1>7. Announced' = Announced \cup {id}
  BY <1>4, <1>5 DEF Announced
<1>8. ServerTypes' /\ ServerAnnounced'
  BY <1>1, <1>5, <1>7 DEF ProvisioningInv, ProvisioningTypeOK, ServerTypes,
                          ServerAnnounced, server
<1>9. ProvisioningTypeOK'
  BY <1>1, <1>4, <1>5, <1>8 DEF ProvisioningTypeOK, Tasks
<1>10. LocalsNamed' /\ NamesUnique' /\ ProjectsMade'
  BY <1>5, <1>6, <1>7 DEF ProvisioningInv, LocalsNamed, NamesUnique,
                          ProjectsMade
<1>11. ReadyUsable'
  <2> SUFFICES ASSUME NEW u \in Users, NEW c \in ready'[u]
               PROVE  Usable(u, c)'
    BY DEF ReadyUsable
  <2>1. CASE c \in ready[u]
    BY <1>5, <1>7, <2>1 DEF ProvisioningInv, ReadyUsable, Usable, LocalEnv
  <2>2. CASE u = User[t] /\ c = config
    BY <1>4, <1>5, <1>6, <1>7, <2>2 DEF Usable, LocalEnv
  <2> QED BY <1>1, <1>5, <2>1, <2>2 DEF ProvisioningTypeOK
<1>12. \A s \in Terminals : task'[s] = IF s = t THEN Idle ELSE task[s]
  BY <1>1, <1>5 DEF ProvisioningTypeOK
<1>13. ASSUME NEW s \in Terminals \ {t}
       PROVE  InsertingAlone(s)' /\ AboutAnnounced(s)'
  <2>1. InsertingAlone(s) /\ Idle.at # "inserting"
    BY DEF ProvisioningInv, Idle
  <2>2. task[s].at = "inserting" =>
           /\ task[s].project \notin Announced'
           /\ \A r \in Terminals \ {s} :
                 task'[r].at = "inserting" => task'[r].project # task[s].project
    BY <1>6, <1>7, <1>12, <2>1 DEF InsertingAlone
  <2>3. /\ made.projects <= made'.projects /\ made'.projects \in Nat
        /\ local'[User[s]] = local[User[s]] /\ published \subseteq published'
    BY <1>1, <1>5 DEF ProvisioningTypeOK
  <2> QED BY <1>12, <2>2, <2>3, OthersKeep
<1>14. InsertingAlone(t)' /\ AboutAnnounced(t)'
  BY <1>12 DEF InsertingAlone, AboutAnnounced, Idle
<1> QED BY <1>8, <1>9, <1>10, <1>11, <1>13, <1>14 DEF ProvisioningInv

-----------------------------------------------------------------------------
(* `setup` and `clone` *)

(* Nobody is making an announced project. *)
LEMMA AnnouncedIsMade ==
    ASSUME ProvisioningInv, NEW id \in Announced
    PROVE  /\ id \in Nat /\ id <= made.projects
           /\ \A s \in Terminals :
                 task[s].at = "inserting" => task[s].project # id
<1>1. id \in Nat /\ id <= made.projects
  BY DEF ProvisioningInv, ProvisioningTypeOK, ProjectsMade, Announced, Configs
<1> QED BY <1>1 DEF ProvisioningInv, InsertingAlone

(* An announced project enters a store. *)
LEMMA AnnouncedStored ==
    ASSUME ProvisioningInv, NEW t \in Terminals, NEW id \in Announced,
           NEW c \in Tasks, c.at # "inserting",
           InsertProject(User[t], id), task' = [task EXCEPT ![t] = c],
           UNCHANGED <<server, device, ready, published, made>>,
           AboutAnnounced(t)'
    PROVE  ProvisioningInv'
<1>1. id \in Nat
  BY AnnouncedIsMade
<1>2. /\ made' \in [keys : [Users -> Nat], projects : Nat]
      /\ made.projects <= made'.projects
  <2>1. made \in [keys : [Users -> Nat], projects : Nat]
    BY DEF ProvisioningInv, ProvisioningTypeOK
  <2> QED BY <2>1
<1>3. InsertingAlone(t)'
  BY DEF ProvisioningInv, ProvisioningTypeOK, InsertingAlone
<1> QED BY <1>1, <1>2, <1>3, ProjectStored

LEMMA RestoreProjectKeeps ==
    ASSUME ProvisioningInv, NEW t \in Terminals, RestoreProject(t)
    PROVE  ProvisioningInv'
<1>1. User[t] \in Users /\ task[t] \in Tasks
  BY ProvisioningAssumption DEF ProvisioningInv, ProvisioningTypeOK
<1>2. task[t] \in Setups /\ task[t].at = "restore" /\ AboutAnnounced(t)
  BY <1>1, TaskFields DEF RestoreProject, ProvisioningInv
<1>3. PICK id \in Announced : id = task[t].config.project
  BY <1>2 DEF AboutAnnounced
<1>4. PICK key \in NameKeys(t, task[t].config.org) :
         task' = [task EXCEPT ![t] =
                    [task[t] EXCEPT !.at = "list", !.opens = {key, Master(t)}]]
  BY DEF RestoreProject, Become
<1>5. key \in EncryptedUnder /\ Master(t) \in EncryptedUnder
  BY <1>1, <1>2, NameKeyType DEF Setups, Master, EncryptedUnder
<1>6. PICK c : c = [task[t] EXCEPT !.at = "list", !.opens = {key, Master(t)}]
  OBVIOUS
<1>7. /\ c \in Setups /\ c.at = "list" /\ c.config = task[t].config
      /\ c.todo = task[t].todo
  BY <1>2, <1>5, <1>6 DEF Setups
<1>8. /\ task' = [task EXCEPT ![t] = c] /\ InsertProject(User[t], id)
      /\ UNCHANGED <<server, device, ready, published, made>>
  BY <1>3, <1>4, <1>6 DEF RestoreProject
<1>9. /\ task'[t] = c /\ Announced' = Announced
      /\ id \in local'[User[t]].projects
  BY <1>1, <1>8 DEF ProvisioningInv, ProvisioningTypeOK, Announced,
                    InsertProject
<1>10. AboutAnnounced(t)'
  BY <1>2, <1>3, <1>7, <1>9 DEF AboutAnnounced
<1> QED BY <1>7, <1>8, <1>10, AnnouncedStored DEF Tasks

LEMMA CloneProjectKeeps ==
    ASSUME ProvisioningInv, NEW t \in Terminals, CloneProject(t)
    PROVE  ProvisioningInv'
<1>1. User[t] \in Users /\ task[t] \in Tasks
  BY ProvisioningAssumption DEF ProvisioningInv, ProvisioningTypeOK
<1>2. task[t] \in Labelling /\ task[t].at = "label" /\ AboutAnnounced(t)
  BY <1>1, TaskFields DEF CloneProject, ProvisioningInv
<1>3. PICK env \in ServerEnvs : env = task[t].env
  BY <1>2 DEF Labelling
<1>4. PICK id \in Announced : id = env.id.project
  BY <1>2, <1>3 DEF AboutAnnounced
<1>5. PICK renamed \in BOOLEAN :
         renamed = (task[t].options.as \notin {NoName, env.id.label})
  OBVIOUS
<1>6. PICK name \in CloneNames(User[t], env, task[t].options) :
         task' = [task EXCEPT ![t] =
                    [at |-> "clone", env |-> env, key |-> task[t].key,
                     renamed |-> renamed,
                     config |-> Config(id, name, task[t].options.org)]]
  BY <1>3, <1>4, <1>5 DEF CloneProject, Become
<1>7. renamed \/ name \in {Shared, Plain(env.id.label)}
  BY <1>5, <1>6 DEF CloneNames, FoundNames
<1>8. PICK config : config = Config(id, name, task[t].options.org)
  OBVIOUS
<1>9. /\ config \in Configs /\ config.project = id
      /\ config.environment = name
  <2>1. name \in {Shared, Plain(env.id.label), Plain(task[t].options.as)}
    BY DEF CloneNames, FoundNames
  <2>2. /\ env.id \in Ids /\ task[t].options.as \in STRING
        /\ task[t].options.org \in BOOLEAN
    BY <1>2, <1>3 DEF Labelling, ServerEnvs
  <2>3. name \in Displayed
    BY <2>1, <2>2, TextDisplayed
  <2>4. id \in Nat
    BY AnnouncedIsMade
  <2> QED BY <1>8, <2>2, <2>3, <2>4 DEF Config, Configs
<1>10. PICK c : c = [at |-> "clone", env |-> env, key |-> task[t].key,
                     renamed |-> renamed, config |-> config]
  OBVIOUS
<1>11. /\ c \in Cloning /\ c.at = "clone" /\ c.config = config
       /\ c.env = env /\ c.renamed = renamed
  BY <1>2, <1>9, <1>10 DEF Labelling, Cloning
<1>12. /\ task' = [task EXCEPT ![t] = c] /\ InsertProject(User[t], id)
       /\ UNCHANGED <<server, device, ready, published, made>>
  BY <1>3, <1>4, <1>6, <1>8, <1>10 DEF CloneProject
<1>13. /\ task'[t] = c /\ Announced' = Announced
       /\ id \in local'[User[t]].projects
  BY <1>1, <1>12 DEF ProvisioningInv, ProvisioningTypeOK, Announced,
                     InsertProject
<1>14. AboutAnnounced(t)'
  BY <1>4, <1>7, <1>9, <1>11, <1>13 DEF AboutAnnounced
<1> QED BY <1>11, <1>12, <1>14, AnnouncedStored DEF Tasks

(* An environment of an announced project enters a store, or is there.      *)
LEMMA AnnouncedEnvStored ==
    ASSUME ProvisioningInv, NEW t \in Terminals, NEW id \in Ids,
           NEW name \in Displayed, NEW renamed \in BOOLEAN,
           NEW key \in Nat, NEW c \in Tasks, c.at # "inserting",
           id.project \in Announced,
           renamed \/ name \in {Plain(id.label), IdOf(id), Shared},
           NameFree(User[t], id.project, name),
           InsertEnv(User[t], id, name, key, renamed),
           task' = [task EXCEPT ![t] = c],
           UNCHANGED <<server, device, ready, published, made>>,
           local'[User[t]].projects = local[User[t]].projects =>
              AboutAnnounced(t)'
    PROVE  ProvisioningInv'
<1>1. User[t] \in Users
  BY ProvisioningAssumption
<1>2. PICK e : e = [id |-> id, project |-> id.project, name |-> name,
                    key |-> key, renamed |-> renamed]
  OBVIOUS
<1>3. /\ e.id = id /\ e.project = id.project /\ e.name = name
      /\ e \in LocalEnvs /\ WellNamed(e)
  <2>1. id.project \in Nat
    BY DEF Ids
  <2> QED BY <1>2, <2>1 DEF LocalEnvs, WellNamed
<1>4. local' = [local EXCEPT ![User[t]] =
                  [local[User[t]] EXCEPT !.envs =
                     local[User[t]].envs \cup {e}]]
  BY <1>1, <1>2 DEF InsertEnv, ProvisioningInv, ProvisioningTypeOK
<1>5. \A d \in local[User[t]].envs : ~(d.project = e.project /\ d.name = e.name)
  BY <1>3 DEF NameFree, LocalEnv
<1>6. /\ e.project <= made.projects
      /\ \A s \in Terminals \ {t} :
            task[s].at = "inserting" => task[s].project # e.project
  BY <1>3, AnnouncedIsMade
<1>7. local'[User[t]].projects = local[User[t]].projects
  BY <1>1, <1>4 DEF ProvisioningInv, ProvisioningTypeOK
<1>8. InsertingAlone(t)'
  BY DEF ProvisioningInv, ProvisioningTypeOK, InsertingAlone
<1> QED BY <1>3, <1>4, <1>5, <1>6, <1>7, <1>8, EnvStored

LEMMA RestoreEnvKeeps ==
    ASSUME ProvisioningInv, NEW t \in Terminals, task[t].at = "restoring",
           NEW item \in task[t].todo, RestoreEnv(t, item)
    PROVE  ProvisioningInv'
<1>1. User[t] \in Users /\ task[t] \in Tasks
  BY ProvisioningAssumption DEF ProvisioningInv, ProvisioningTypeOK
<1>2. task[t] \in Setups /\ AboutAnnounced(t)
  BY <1>1, TaskFields DEF ProvisioningInv
<1>3. item \in Items
  BY <1>2 DEF Setups
<1>4. PICK id \in Ids, key \in Nat : id = item.env.id /\ key = item.key
  BY <1>3 DEF Items, ServerEnvs
<1>5. id.project = task[t].config.project /\ id.project \in Announced
  BY <1>2, <1>4 DEF AboutAnnounced
<1>6. PICK c : c = [task[t] EXCEPT !.todo = task[t].todo \ {item}]
  OBVIOUS
<1>7. /\ c \in Setups /\ c.at = "restoring" /\ c.config = task[t].config
      /\ c.todo \subseteq task[t].todo
  BY <1>2, <1>6 DEF Setups
<1>8. /\ task' = [task EXCEPT ![t] = c] /\ task'[t] = c
      /\ UNCHANGED <<server, device, ready, published, made>>
  BY <1>6 DEF RestoreEnv, Become, ProvisioningInv, ProvisioningTypeOK
<1>9. local'[User[t]].projects = local[User[t]].projects => AboutAnnounced(t)'
  BY <1>2, <1>7, <1>8 DEF AboutAnnounced, Announced
<1>10. CASE UNCHANGED local
  BY <1>7, <1>8, <1>9, <1>10, QuietTask DEF store, Tasks
<1>11. CASE ~UNCHANGED local
  <2>1. PICK name : name = RestoredName(t, item.env)
    OBVIOUS
  <2>2. name \in {Plain(id.label), IdOf(id), Shared}
    BY <1>4, <2>1 DEF RestoredName
  <2>3. /\ NameFree(User[t], id.project, name)
        /\ InsertEnv(User[t], id, name, key, FALSE)
    BY <1>4, <1>11, <2>1 DEF RestoreEnv
  <2>4. c \in Tasks
    BY <1>7 DEF Tasks
  <2>5. name \in Displayed
    BY <2>2, TextDisplayed
  <2> QED BY <1>5, <1>7, <1>8, <1>9, <2>2, <2>3, <2>4, <2>5,
             AnnouncedEnvStored
<1> QED BY <1>10, <1>11

LEMMA CloneEnvKeeps ==
    ASSUME ProvisioningInv, NEW t \in Terminals, CloneEnv(t)
    PROVE  ProvisioningInv'
<1>1. User[t] \in Users /\ task[t] \in Tasks
  BY ProvisioningAssumption DEF ProvisioningInv, ProvisioningTypeOK
<1>2. task[t] \in Cloning /\ task[t].at = "clone" /\ AboutAnnounced(t)
  BY <1>1, TaskFields DEF CloneEnv, ProvisioningInv
<1>3. PICK id \in Ids, key \in Nat, name \in Displayed, renamed \in BOOLEAN :
         /\ id = task[t].env.id /\ key = task[t].key
         /\ name = task[t].config.environment /\ renamed = task[t].renamed
  BY <1>2 DEF Cloning, ServerEnvs, Configs
<1>4. /\ id.project = task[t].config.project /\ id.project \in Announced
      /\ renamed \/ name \in {Plain(id.label), IdOf(id), Shared}
  BY <1>2, <1>3 DEF AboutAnnounced
<1>5. PICK c : c = [at |-> "cloned", config |-> task[t].config, asked |-> id]
  OBVIOUS
<1>6. c \in Cloned /\ c.at = "cloned" /\ c.config = task[t].config
  BY <1>2, <1>5 DEF Cloning, Cloned
<1>7. /\ task' = [task EXCEPT ![t] = c] /\ task'[t] = c
      /\ UNCHANGED <<server, device, ready, published, made>>
  BY <1>3, <1>5 DEF CloneEnv, Become, ProvisioningInv, ProvisioningTypeOK
<1>8. local'[User[t]].projects = local[User[t]].projects => AboutAnnounced(t)'
  BY <1>2, <1>6, <1>7 DEF AboutAnnounced, Announced
<1>9. CASE UNCHANGED local
  BY <1>6, <1>7, <1>8, <1>9, QuietTask DEF store, Tasks
<1>10. CASE ~UNCHANGED local
  <2>1. /\ NameFree(User[t], id.project, name)
        /\ InsertEnv(User[t], id, name, key, renamed)
    BY <1>3, <1>10 DEF CloneEnv
  <2>2. c \in Tasks
    BY <1>6 DEF Tasks
  <2> QED BY <1>4, <1>6, <1>7, <1>8, <2>1, <2>2, AnnouncedEnvStored
<1> QED BY <1>9, <1>10

(* The pull found the environment of the configuration. *)
LEMMA DeclaredReady ==
    ASSUME ProvisioningInv, NEW t \in Terminals, NEW config \in Configs,
           config.project \in Announced,
           config.project \in local[User[t]].projects,
           PullWorks(User[t], config),
           ready' = [ready EXCEPT ![User[t]] = {config}],
           task' = [task EXCEPT ![t] = Idle],
           UNCHANGED <<server, device, local, published, made>>
    PROVE  ProvisioningInv'
<1>1. User[t] \in Users /\ ProvisioningTypeOK
  BY ProvisioningAssumption DEF ProvisioningInv
<1>2. ServerTypes' /\ ServerAnnounced' /\ Announced' = Announced
  BY <1>1 DEF ProvisioningInv, ProvisioningTypeOK, ServerTypes,
              ServerAnnounced, Announced, server
<1>3. ProvisioningTypeOK'
  BY <1>1, <1>2 DEF ProvisioningTypeOK, Tasks
<1>4. LocalsNamed' /\ NamesUnique' /\ ProjectsMade'
  BY <1>2 DEF ProvisioningInv, LocalsNamed, NamesUnique, ProjectsMade
<1>5. LocalEnv(User[t], config.project, config.environment) # {}
  BY DEF PullWorks
<1>6. ReadyUsable'
  <2> SUFFICES ASSUME NEW u \in Users, NEW c \in ready'[u]
               PROVE  Usable(u, c)'
    BY DEF ReadyUsable
  <2>1. CASE c \in ready[u]
    BY <1>2, <2>1 DEF ProvisioningInv, ReadyUsable, Usable, LocalEnv
  <2>2. CASE u = User[t] /\ c = config
    BY <1>2, <1>5, <2>2 DEF Usable, LocalEnv
  <2> QED BY <1>1, <2>1, <2>2 DEF ProvisioningTypeOK
<1>7. \A s \in Terminals : task'[s] = IF s = t THEN Idle ELSE task[s]
  BY <1>1 DEF ProvisioningTypeOK
<1>8. ASSUME NEW s \in Terminals \ {t}
      PROVE  InsertingAlone(s)' /\ AboutAnnounced(s)'
  <2>1. InsertingAlone(s) /\ Idle.at # "inserting"
    BY DEF ProvisioningInv, Idle
  <2>2. task[s].at = "inserting" =>
           /\ task[s].project \notin Announced'
           /\ \A r \in Terminals \ {s} :
                 task'[r].at = "inserting" => task'[r].project # task[s].project
    BY <1>2, <1>7, <2>1 DEF InsertingAlone
  <2>3. made.projects <= made'.projects /\ made'.projects \in Nat
    <3>1. made.projects \in Nat
      BY <1>1 DEF ProvisioningTypeOK
    <3> QED BY <3>1
  <2> QED BY <1>7, <2>2, <2>3, OthersKeep
<1>9. InsertingAlone(t)' /\ AboutAnnounced(t)'
  BY <1>7 DEF InsertingAlone, AboutAnnounced, Idle
<1> QED BY <1>2, <1>3, <1>4, <1>6, <1>8, <1>9 DEF ProvisioningInv

LEMMA FinishSetupKeeps ==
    ASSUME ProvisioningInv, NEW t \in Terminals, FinishSetup(t)
    PROVE  ProvisioningInv'
<1>1. task[t] \in Setups /\ task[t].at = "restoring" /\ AboutAnnounced(t)
  BY TaskFields DEF FinishSetup, ProvisioningInv, ProvisioningTypeOK
<1>2. PICK config \in Configs : config = task[t].config
  BY <1>1 DEF Setups
<1>3. /\ config.project \in Announced
      /\ config.project \in local[User[t]].projects
  BY <1>1, <1>2 DEF AboutAnnounced
<1> QED BY <1>2, <1>3, DeclaredReady DEF FinishSetup, Become

LEMMA FinishCloneKeeps ==
    ASSUME ProvisioningInv, NEW t \in Terminals, FinishClone(t)
    PROVE  ProvisioningInv'
<1>1. task[t] \in Cloned /\ task[t].at = "cloned" /\ AboutAnnounced(t)
  BY TaskFields DEF FinishClone, ProvisioningInv, ProvisioningTypeOK
<1>2. PICK config \in Configs : config = task[t].config
  BY <1>1 DEF Cloned
<1>3. /\ config.project \in Announced
      /\ config.project \in local[User[t]].projects
  BY <1>1, <1>2 DEF AboutAnnounced
<1> QED BY <1>2, <1>3, DeclaredReady DEF FinishClone, Become

(* A new machine has nothing, and no command was running on the old one.    *)
LEMMA ReplaceKeeps ==
    ASSUME ProvisioningInv, NEW u \in Users, Replace(u)
    PROVE  ProvisioningInv'
<1>1. /\ \A t \in Terminals : User[t] = u => task[t] = Idle
      /\ device' = [device EXCEPT ![u] = 0]
      /\ local' = [local EXCEPT ![u] = [projects |-> {}, envs |-> {}]]
      /\ ready' = [ready EXCEPT ![u] = {}]
      /\ UNCHANGED <<server, published, made, task>>
  BY DEF Replace
<1>2. ProvisioningTypeOK
  BY DEF ProvisioningInv
<1>3. ServerTypes' /\ ServerAnnounced' /\ Announced' = Announced
  BY <1>1, <1>2 DEF ProvisioningInv, ProvisioningTypeOK, ServerTypes,
                    ServerAnnounced, Announced, server
<1>4. ProvisioningTypeOK'
  <2>1. [projects |-> {}, envs |-> {}]
           \in [projects : SUBSET Nat, envs : SUBSET LocalEnvs]
    OBVIOUS
  <2>2. local' \in [Users -> [projects : SUBSET Nat, envs : SUBSET LocalEnvs]]
    BY <1>1, <1>2, <2>1 DEF ProvisioningTypeOK
  <2> QED BY <1>1, <1>2, <1>3, <2>2 DEF ProvisioningTypeOK
<1>5. \A v \in Users : IF v = u THEN local'[v].envs = {} /\ ready'[v] = {}
                       ELSE local'[v] = local[v] /\ ready'[v] = ready[v]
  BY <1>1, <1>2 DEF ProvisioningTypeOK
<1>6. LocalsNamed' /\ NamesUnique' /\ ProjectsMade'
  BY <1>1, <1>3, <1>5
     DEF ProvisioningInv, LocalsNamed, NamesUnique, ProjectsMade
<1>7. ReadyUsable'
  BY <1>3, <1>5 DEF ProvisioningInv, ReadyUsable, Usable, LocalEnv
<1>8. ASSUME NEW t \in Terminals
      PROVE  InsertingAlone(t)' /\ AboutAnnounced(t)'
  <2>1. InsertingAlone(t) /\ AboutAnnounced(t) /\ User[t] \in Users
    BY ProvisioningAssumption DEF ProvisioningInv
  <2>2. CASE User[t] = u
    BY <1>1, <2>2 DEF InsertingAlone, AboutAnnounced, Idle
  <2>3. CASE User[t] # u
    <3>1. local'[User[t]] = local[User[t]] /\ task' = task /\ made' = made
      BY <1>1, <1>5, <2>1, <2>3
    <3> QED BY <1>3, <2>1, <3>1 DEF InsertingAlone, AboutAnnounced
  <2> QED BY <2>2, <2>3
<1> QED BY <1>3, <1>4, <1>6, <1>7, <1>8 DEF ProvisioningInv

-----------------------------------------------------------------------------
(* The invariant holds *)

LEMMA InitProvisioning == Init => ProvisioningInv
<1> SUFFICES ASSUME Init PROVE ProvisioningInv
  OBVIOUS
<1>1. ServerTypes
  BY DEF Init, ServerTypes
<1>2. ProvisioningTypeOK
  BY <1>1 DEF Init, ProvisioningTypeOK, Tasks
<1>3. \A u \in Users : local[u].envs = {} /\ ready[u] = {}
  BY DEF Init
<1>4. Announced = {} /\ envs = {}
  BY DEF Init, Announced
<1>5. \A t \in Terminals : InsertingAlone(t) /\ AboutAnnounced(t)
  BY DEF Init, InsertingAlone, AboutAnnounced, Idle
<1> QED BY <1>2, <1>3, <1>4, <1>5
           DEF ProvisioningInv, LocalsNamed, NamesUnique, ProjectsMade,
               ServerAnnounced, ReadyUsable

LEMMA NextProvisioning == ProvisioningInv /\ [Next]_vars => ProvisioningInv'
<1> SUFFICES ASSUME ProvisioningInv, [Next]_vars PROVE ProvisioningInv'
  OBVIOUS
<1>1. ASSUME NEW t \in Terminals, Commands(t) PROVE ProvisioningInv'
  <2>1. ASSUME \/ \E org \in BOOLEAN : StartInit(t, org)
               \/ InitProject(t) \/ InitEnv(t) \/ SaveInit(t)
        PROVE  ProvisioningInv'
    BY <2>1, StartInitKeeps, InitProjectKeeps, InitEnvKeeps, SaveInitKeeps
  <2>2. ASSUME \/ \E c \in published \cup ready[User[t]], name \in Names :
                     StartPush(t, c, name)
               \/ EnsureAccount(t) \/ PushElsewhere(t) \/ PickNameKey(t)
               \/ CreateProject(t) \/ CreateEnvironment(t) \/ ReadSnapshot(t)
        PROVE  ProvisioningInv'
    BY <2>2, StartPushKeeps, EnsureAccountKeeps, PushElsewhereKeeps,
       PickNameKeyKeeps, CreateProjectKeeps, CreateEnvironmentKeeps,
       ReadSnapshotKeeps
  <2>3. ASSUME \/ \E c \in published : StartSetup(t, c)
               \/ RestoreProject(t) \/ ListEnvironments(t)
               \/ /\ task[t].at = "restoring"
                  /\ \E item \in task[t].todo : RestoreEnv(t, item)
               \/ FinishSetup(t)
        PROVE  ProvisioningInv'
    BY <2>3, StartSetupKeeps, RestoreProjectKeeps, ListEnvironmentsKeeps,
       RestoreEnvKeeps, FinishSetupKeeps
  <2>4. ASSUME \/ \E e \in envs, o \in CloneOptions : StartClone(t, e, o)
               \/ CloneProject(t) \/ CloneEnv(t) \/ FinishClone(t)
        PROVE  ProvisioningInv'
    BY <2>4, StartCloneKeeps, CloneProjectKeeps, CloneEnvKeeps,
       FinishCloneKeeps
  <2>5. ASSUME \/ CreateOrg(t)
               \/ \E v \in Users : Invite(t, v)
               \/ \E e \in local[User[t]].envs, v \in Users : StartShare(t, e, v)
               \/ CreateGrant(t) \/ OpenOrgKey(t) \/ GrantOrgKey(t)
               \/ Stop(t)
        PROVE  ProvisioningInv'
    BY <2>5, CreateOrgKeeps, InviteKeepsStores, StartShareKeepsStores,
       CreateGrantKeeps, OpenOrgKeyKeeps, GrantOrgKeyKeeps, StopKeeps
  <2> QED BY <1>1, <2>1, <2>2, <2>3, <2>4, <2>5 DEF Commands, Starts, Continues
<1>2. ASSUME NEW u \in Users,
             Promote(u) \/ Demote(u) \/ RemoveMember(u) \/ Replace(u)
      PROVE  ProvisioningInv'
  BY <1>2, MembershipKeeps, ReplaceKeeps
<1>3. ASSUME Recover \/ \E u \in Users : RequestDeletion(u)
      PROVE  ProvisioningInv'
  BY <1>3, LifecycleKeeps
<1>4. CASE UNCHANGED vars
  <2>1. ServerTypes' /\ ServerAnnounced'
    BY <1>4 DEF ProvisioningInv, ProvisioningTypeOK, ServerTypes,
                ServerAnnounced, Announced, vars, server, store
  <2> QED BY <1>4, <2>1, ServerStep DEF vars
<1> QED BY <1>1, <1>2, <1>3, <1>4 DEF Next

(* The records on the server, in the stores and of the running commands are *)
(* well-formed, for whatever commands run, stop or are repeated.            *)
THEOREM ProvisioningTypeCorrect == Spec => []ProvisioningTypeOK
<1>1. ProvisioningInv => ProvisioningTypeOK
  BY DEF ProvisioningInv
<1> QED BY <1>1, InitProvisioning, NextProvisioning, PTL DEF Spec

(* Nobody but the command making it knows a project before it is committed, *)
(* and every store has one environment per name of a project.               *)
THEOREM ProvisioningInvariant == Spec => []ProvisioningInv
BY InitProvisioning, NextProvisioning, PTL DEF Spec

(* Whatever `init`, `clone` or `setup` reported usable names one project    *)
(* and one environment of the device's store, after any interruption,       *)
(* repetition or interleaving of the commands of any terminals.             *)
THEOREM ReadyResolves == Spec => []ConfigResolves
<1>1. ProvisioningInv => ConfigResolves
  <2> SUFFICES ASSUME ProvisioningInv, NEW u \in Users, NEW c \in ready[u]
               PROVE  /\ c.project \in local[u].projects
                      /\ Cardinality(LocalEnv(u, c.project, c.environment)) = 1
    BY DEF ConfigResolves
  <2>1. Usable(u, c)
    BY DEF ProvisioningInv, ReadyUsable
  <2>2. PICK e : e \in LocalEnv(u, c.project, c.environment)
    BY <2>1 DEF Usable
  <2>3. \A d \in LocalEnv(u, c.project, c.environment) : d = e
    BY <2>2 DEF LocalEnv, ProvisioningInv, NamesUnique
  <2>4. LocalEnv(u, c.project, c.environment) = {e}
    BY <2>2, <2>3
  <2> QED BY <2>1, <2>4, FS_Singleton DEF Usable
<1> QED BY <1>1, ProvisioningInvariant, PTL

(* A name other than "shared" means one environment of a project on all     *)
(* devices, made by `init`, restored by `setup` or labelled by `clone`,     *)
(* unless a user renamed one of them with `clone --as`.                     *)
THEOREM NamesMeanTheSame == Spec => []DevicesAgree
<1>1. ProvisioningInv => DevicesAgree
  <2> SUFFICES ASSUME ProvisioningInv, NEW u \in Users, NEW v \in Users,
                      NEW d \in local[u].envs, NEW e \in local[v].envs,
                      d.project = e.project, d.name = e.name, d.name # Shared,
                      ~d.renamed, ~e.renamed
               PROVE  d.id = e.id
    BY DEF DevicesAgree
  <2>1. WellNamed(d) /\ WellNamed(e)
    BY DEF ProvisioningInv, LocalsNamed
  <2>2. d.id \in Ids /\ e.id \in Ids
    BY DEF ProvisioningInv, ProvisioningTypeOK, LocalEnvs
  <2>3. d.id.project = e.id.project
    BY <2>1 DEF WellNamed
  <2>4. d.id.label = e.id.label
    <3>1. d.name.text = d.id.label /\ e.name.text = e.id.label
      BY <2>1 DEF WellNamed, Plain, IdOf
    <3> QED BY <3>1
  <2> QED BY <2>2, <2>3, <2>4 DEF Ids
<1> QED BY <1>1, ProvisioningInvariant, PTL

-----------------------------------------------------------------------------
(* A push of what is there *)

(* Somebody the server turns away cannot reach the environment, or it is    *)
(* not there, or the organisation is being deleted, or the configuration    *)
(* has the wrong one.                                                       *)
Excused(t) ==
    LET id == task[t].env.id
    IN  \/ ~Reaches(User[t], id.project)
        \/ \A e \in envs : e.id # id
        \/ deleting /\ task[t].org /\ task[t].at # "snapshot"
        \/ \E p \in Project(id.project) : p.org # task[t].org

LEMMA PushTask ==
    ASSUME ProvisioningInv, NEW t \in Terminals,
           task[t].at \in {"project", "env", "snapshot"}
    PROVE  /\ task[t] \in Pushes /\ task[t].org \in BOOLEAN
           /\ task[t].env.project = task[t].env.id.project
           /\ \A p \in projects : p.org \in BOOLEAN
<1>1. task[t] \in Pushes /\ AboutAnnounced(t)
  BY TaskFields DEF ProvisioningInv, ProvisioningTypeOK
<1>2. \A p \in projects : p.org \in BOOLEAN
  BY DEF ProvisioningInv, ProvisioningTypeOK, ServerTypes
<1> QED BY <1>1, <1>2 DEF AboutAnnounced, Pushes

LEMMA RefusedProject ==
    ASSUME ProvisioningInv, NEW t \in Terminals, CreateProject(t),
           task'[t].at = "stopped"
    PROVE  Excused(t)
<1>1. /\ task[t] \in Pushes /\ task[t].org \in BOOLEAN
      /\ task[t].env.project = task[t].env.id.project
      /\ \A p \in projects : p.org \in BOOLEAN
  BY PushTask DEF CreateProject
<1>2. PICK reply : /\ reply = ProjectReply(User[t], task[t].env.id.project,
                                           task[t].org)
                   /\ After(t, reply, "env")
  BY <1>1 DEF CreateProject
<1>3. ~GoesOn(reply, task[t].org)
  <2> SUFFICES ASSUME GoesOn(reply, task[t].org) PROVE FALSE
    OBVIOUS
  <2>1. task'[t] = [task[t] EXCEPT !.at = "env"]
    BY <1>2 DEF After, Become, ProvisioningInv, ProvisioningTypeOK
  <2> QED BY <1>1, <2>1 DEF Pushes
<1>4. reply \in {"missing", "forbidden", "conflict"}
  BY <1>2, <1>3 DEF GoesOn, ProjectReply
<1>5. CASE reply = "missing"
  BY <1>1, <1>2, <1>5 DEF ProjectReply, Excused, Reaches
<1>6. CASE reply = "forbidden"
  BY <1>2, <1>3, <1>6 DEF ProjectReply, GoesOn
<1>7. CASE reply = "conflict"
  BY <1>2, <1>7 DEF ProjectReply, Excused, CreateProject
<1> QED BY <1>4, <1>5, <1>6, <1>7

LEMMA RefusedEnvironment ==
    ASSUME ProvisioningInv, NEW t \in Terminals, CreateEnvironment(t),
           task'[t].at = "stopped"
    PROVE  Excused(t)
<1>1. /\ task[t] \in Pushes /\ task[t].org \in BOOLEAN
      /\ \A p \in projects : p.org \in BOOLEAN
  BY PushTask DEF CreateEnvironment
<1>2. PICK reply : /\ reply = EnvReply(User[t], task[t].env.id)
                   /\ After(t, reply, "snapshot")
  BY DEF CreateEnvironment
<1>3. ~GoesOn(reply, task[t].org)
  <2> SUFFICES ASSUME GoesOn(reply, task[t].org) PROVE FALSE
    OBVIOUS
  <2>1. task'[t] = [task[t] EXCEPT !.at = "snapshot"]
    BY <1>2 DEF After, Become, ProvisioningInv, ProvisioningTypeOK
  <2> QED BY <1>1, <2>1 DEF Pushes
<1>4. reply \in {"missing", "forbidden", "conflict"}
  BY <1>2, <1>3 DEF GoesOn, EnvReply
<1>5. CASE reply = "missing"
  BY <1>2, <1>5 DEF EnvReply, Excused
<1>6. CASE reply = "forbidden"
  <2>1. PICK p \in Project(task[t].env.id.project) : p.org
    BY <1>2, <1>6 DEF EnvReply, OfOrganisation
  <2>2. ~task[t].org
    BY <1>3, <1>6 DEF GoesOn
  <2>3. p.org # task[t].org
    BY <2>1, <2>2
  <2> QED BY <2>1, <2>3 DEF Excused
<1>7. CASE reply = "conflict"
  <2>1. /\ deleting
        /\ \E p \in Project(task[t].env.id.project) : p.org
    BY <1>2, <1>7 DEF EnvReply, OfOrganisation
  <2>2. CASE task[t].org
    BY <2>1, <2>2 DEF Excused, CreateEnvironment
  <2>3. CASE ~task[t].org
    BY <2>1, <2>3 DEF Excused
  <2> QED BY <1>1, <2>2, <2>3
<1> QED BY <1>4, <1>5, <1>6, <1>7

LEMMA RefusedSnapshot ==
    ASSUME ProvisioningInv, NEW t \in Terminals, ReadSnapshot(t),
           task'[t].at = "stopped"
    PROVE  Excused(t)
<1> SUFFICES ASSUME Reaches(User[t], task[t].env.id.project),
                    \E e \in envs : e.id = task[t].env.id
             PROVE  FALSE
  BY DEF Excused
<1>1. task'[t] = Idle
  BY DEF ReadSnapshot, Become, ProvisioningInv, ProvisioningTypeOK
<1> QED BY <1>1 DEF Idle

(* A command of one terminal leaves what the others are doing alone.        *)
LEMMA OneTask ==
    ASSUME NEW t \in Terminals, Commands(t)
    PROVE  task' = task \/ \E c : task' = [task EXCEPT ![t] = c]
<1>1. ASSUME \/ \E org \in BOOLEAN : StartInit(t, org)
             \/ InitProject(t) \/ InitEnv(t) \/ SaveInit(t)
      PROVE  \E c : task' = [task EXCEPT ![t] = c]
  BY <1>1 DEF StartInit, InitProject, InitEnv, SaveInit, Start, Become
<1>2. ASSUME \E c \in published \cup ready[User[t]], name \in Names :
                 StartPush(t, c, name)
      PROVE  \E c : task' = [task EXCEPT ![t] = c]
  BY <1>2 DEF StartPush, Start
<1>3. ASSUME EnsureAccount(t) \/ PushElsewhere(t) \/ PickNameKey(t)
      PROVE  task' = task \/ \E c : task' = [task EXCEPT ![t] = c]
  BY <1>3 DEF EnsureAccount, PushElsewhere, PickNameKey, Become
<1>4. ASSUME CreateProject(t) \/ CreateEnvironment(t) \/ ReadSnapshot(t)
      PROVE  \E c : task' = [task EXCEPT ![t] = c]
  BY <1>4 DEF CreateProject, CreateEnvironment, ReadSnapshot, After, Become
<1>5. ASSUME \/ \E c \in published : StartSetup(t, c)
             \/ RestoreProject(t) \/ ListEnvironments(t)
             \/ \E item \in task[t].todo : RestoreEnv(t, item)
             \/ FinishSetup(t)
      PROVE  \E c : task' = [task EXCEPT ![t] = c]
  BY <1>5 DEF StartSetup, RestoreProject, ListEnvironments, RestoreEnv,
              FinishSetup, Start, Become
<1>6. ASSUME \/ \E e \in envs, o \in CloneOptions : StartClone(t, e, o)
             \/ CloneProject(t) \/ CloneEnv(t) \/ FinishClone(t)
      PROVE  \E c : task' = [task EXCEPT ![t] = c]
  BY <1>6 DEF StartClone, CloneProject, CloneEnv, FinishClone, Start, Become
<1>7. ASSUME \/ CreateOrg(t) \/ \E v \in Users : Invite(t, v)
             \/ \E e \in local[User[t]].envs, v \in Users : StartShare(t, e, v)
             \/ CreateGrant(t) \/ OpenOrgKey(t) \/ GrantOrgKey(t) \/ Stop(t)
      PROVE  task' = task \/ \E c : task' = [task EXCEPT ![t] = c]
  BY <1>7 DEF CreateOrg, Invite, StartShare, CreateGrant, OpenOrgKey,
              GrantOrgKey, Stop, Start, Become
<1> QED BY <1>1, <1>2, <1>3, <1>4, <1>5, <1>6, <1>7
           DEF Commands, Starts, Continues

(* Only the three requests of its own push stop it like this.               *)
LEMMA WhoStops ==
    ASSUME ProvisioningInv, [Next]_vars, NEW t \in Terminals,
           task[t].at \in {"project", "env", "snapshot"},
           task'[t].at = "stopped"
    PROVE  CreateProject(t) \/ CreateEnvironment(t) \/ ReadSnapshot(t)
<1>1. task'[t] # task[t]
  OBVIOUS
<1>2. PICK s \in Terminals : Commands(s)
  BY <1>1 DEF Next, vars, Promote, Demote, RemoveMember, Replace,
              RequestDeletion, Recover
<1>3. s = t
  BY <1>1, <1>2, OneTask DEF ProvisioningInv, ProvisioningTypeOK
<1>4. task \in [Terminals -> Tasks] /\ task[t] # Idle
  BY DEF ProvisioningInv, ProvisioningTypeOK, Idle
<1>5. Continues(t)
  BY <1>2, <1>3, <1>4 DEF Commands
<1>6. ~(\/ InitProject(t) \/ InitEnv(t) \/ SaveInit(t)
        \/ EnsureAccount(t) \/ PickNameKey(t))
  BY DEF InitProject, InitEnv, SaveInit, EnsureAccount, PickNameKey
<1>7. ~(\/ RestoreProject(t) \/ ListEnvironments(t)
        \/ task[t].at = "restoring"
        \/ FinishSetup(t))
  BY DEF RestoreProject, ListEnvironments, FinishSetup
<1>8. ~(\/ CloneProject(t) \/ CloneEnv(t) \/ FinishClone(t)
        \/ CreateGrant(t) \/ OpenOrgKey(t) \/ GrantOrgKey(t))
  BY DEF CloneProject, CloneEnv, FinishClone, CreateGrant, OpenOrgKey,
         GrantOrgKey
<1>9. ~Stop(t)
  BY <1>4 DEF Stop, Become, Idle
<1> QED BY <1>5, <1>6, <1>7, <1>8, <1>9 DEF Continues

(* The requests of a push stop nobody who can reach an environment that is  *)
(* on the server and asks for it under the right organisation: a creation   *)
(* that had been done before is "ok", and one a member may not do is        *)
(* tolerated.                                                               *)
THEOREM PushesPass == Spec => PushGoesThrough
<1> DEFINE Passes ==
        \A t \in Terminals :
            /\ task[t].at \in {"project", "env", "snapshot"}
            /\ task'[t].at = "stopped"
            => LET id == task[t].env.id
               IN  \/ ~Reaches(User[t], id.project)
                   \/ \A e \in envs : e.id # id
                   \/ deleting /\ task[t].org /\ task[t].at # "snapshot"
                   \/ \E p \in Project(id.project) : p.org # task[t].org
<1>1. ProvisioningInv /\ [Next]_vars => Passes
  <2> SUFFICES ASSUME ProvisioningInv, [Next]_vars, NEW t \in Terminals,
                      task[t].at \in {"project", "env", "snapshot"},
                      task'[t].at = "stopped"
               PROVE  Excused(t)
    BY DEF Excused
  <2> QED BY WhoStops, RefusedProject, RefusedEnvironment, RefusedSnapshot
<1>2. ProvisioningInv /\ [Next]_vars => [Passes]_vars
  BY <1>1
<1> QED BY <1>2, ProvisioningInvariant, PTL DEF Spec, PushGoesThrough

=============================================================================
