----------------------------- MODULE CoverageFacts -----------------------------
(***************************************************************************)
(* The pure evaluation of one person's Cloud coverage: which sets of paid  *)
(* intervals are accepted, the episodes they merge into, and the decision  *)
(* at an instant.  A list of facts is a set here: the code's answer does   *)
(* not depend on order or repetition, only on which facts are present.     *)
(***************************************************************************)
EXTENDS Integers, SequencesExt

CONSTANTS
    Recovery,           \* RENEWAL_RECOVERY_SECONDS
    ExportWindow,       \* EXPORT_WINDOW_SECONDS
    MaxTime,            \* the largest timestamp, i64::MAX
    NoRenewal           \* failed_renewal_id of an interval whose renewal has not failed

ASSUME PeriodsAssumption ==
    Recovery \in Nat \ {0} /\ ExportWindow \in Nat /\ MaxTime \in Nat

-----------------------------------------------------------------------------
(* Accepted facts.  A fact is                                               *)
(*   [cov, src : ids, from, until : instants, renewal : id or NoRenewal].   *)

HasRenewal(f) == f.renewal # NoRenewal

RenewalIdentity(f) == <<f.cov, f.src, f.from, f.until>>

WellFormed(f) ==
    /\ f.from < f.until
    /\ HasRenewal(f) => f.until + Recovery <= MaxTime

(* normalise_confirmed_intervals: the facts a collection may carry. *)
Normal(facts) ==
    /\ \A f \in facts : WellFormed(f)
    /\ \A f, g \in facts :
          /\ f.cov = g.cov => f = g
          /\ HasRenewal(f) /\ f.renewal = g.renewal
                => RenewalIdentity(f) = RenewalIdentity(g)

-----------------------------------------------------------------------------
(* Evaluation *)

(* A paid interval counts, and a failed renewal opens a recovery behind it. *)
EligibleIntervals(facts) ==
    {[from |-> f.from, until |-> f.until, paid |-> TRUE] : f \in facts}
    \cup {[from |-> f.until, until |-> f.until + Recovery, paid |-> FALSE] :
             f \in {g \in facts : HasRenewal(g)}}

Before(i, j) ==
    \/ i.from < j.from
    \/ i.from = j.from /\ i.until < j.until
    \/ i.from = j.from /\ i.until = j.until /\ i.paid /\ ~j.paid

Later(a, b) == IF a > b THEN a ELSE b

(* A slip the runs notice: touching intervals are not joined.               *)
ExtendsInside(episode, i) == i.from < episode.until

(* An interval that starts inside the last episode, or just at its end,     *)
(* extends it.                                                              *)
Extends(episode, i) == i.from <= episode.until

Absorb(i, merged) ==
    IF merged # <<>> /\ Extends(Last(merged), i)
    THEN [merged EXCEPT ![Len(merged)].until = Later(@, i.until)]
    ELSE Append(merged, [from |-> i.from, until |-> i.until])

(* The one a sorted list of the intervals ends with.                        *)
Final(intervals) ==
    CHOOSE i \in intervals : \A j \in intervals \ {i} : Before(j, i)

(* The loop over the sorted intervals: the final one is absorbed into what  *)
(* the others have been merged to.                                          *)
Merged(intervals) ==
    MapThenFoldSet(Absorb, <<>>, LAMBDA i : i, Final, intervals)

Episodes(facts) == Range(Merged(EligibleIntervals(facts)))

Covers(i, now) == i.from <= now /\ now < i.until

Decision(state, active, recovery, export) ==
    [state |-> state, active |-> active, recovery |-> recovery,
     export |-> export]

(* No deadline. *)
Never == -1

LatestOf(times) == CHOOSE t \in times : \A u \in times : u <= t

DecideInside(facts, episode, now) ==
    LET covering == {i \in EligibleIntervals(facts) : Covers(i, now)}
    IN  IF \E i \in covering : i.paid
        THEN Decision("paid", episode.until, Never, Never)
        ELSE Decision("recovery", episode.until,
                      LatestOf({i.until : i \in covering}), Never)

DecideAfter(last, now) ==
    LET export == last + ExportWindow
    IN  IF export > MaxTime THEN Decision("invalid", Never, Never, Never)
        ELSE IF now < export THEN Decision("export_only", Never, Never, export)
        ELSE Decision("expired", Never, Never, export)

Evaluate(facts, now) ==
    LET episodes == Episodes(facts)
        current  == {e \in episodes : Covers(e, now)}
        ended    == {e.until : e \in {f \in episodes : f.until <= now}}
    IN  IF current # {} THEN DecideInside(facts, CHOOSE e \in current : TRUE, now)
        ELSE IF ended # {} THEN DecideAfter(LatestOf(ended), now)
        ELSE Decision("free", Never, Never, Never)

-----------------------------------------------------------------------------
(* The same decision instant by instant: what a person is promised, without *)
(* lists, sorting or merging.                                               *)

PaidAt(facts, t) == \E f \in facts : f.from <= t /\ t < f.until

RecoveringAt(facts, t) ==
    \E f \in facts : HasRenewal(f) /\ f.until <= t /\ t < f.until + Recovery

CoveredAt(facts, t) == PaidAt(facts, t) \/ RecoveringAt(facts, t)

(* The instants that matter lie between the first start and the last end.   *)
Horizon(facts) ==
    UNION {f.from .. (f.until + Recovery) : f \in facts}

EarliestOf(times) == CHOOSE t \in times : \A u \in times : t <= u

PromisedAt(facts, now) ==
    LET uncovered == {t \in Horizon(facts) : t > now /\ ~CoveredAt(facts, t)}
        past == {t \in Horizon(facts) : t < now /\ CoveredAt(facts, t)}
        export == LatestOf(past) + 1 + ExportWindow
    IN  CASE PaidAt(facts, now) ->
                Decision("paid", EarliestOf(uncovered), Never, Never)
          [] ~PaidAt(facts, now) /\ RecoveringAt(facts, now) ->
                Decision("recovery", EarliestOf(uncovered),
                         LatestOf({f.until + Recovery :
                            f \in {g \in facts : /\ HasRenewal(g)
                                                 /\ g.until <= now
                                                 /\ now < g.until + Recovery}}),
                         Never)
          [] ~CoveredAt(facts, now) /\ past = {} ->
                Decision("free", Never, Never, Never)
          [] OTHER ->
                IF export > MaxTime THEN Decision("invalid", Never, Never, Never)
                ELSE IF now < export
                THEN Decision("export_only", Never, Never, export)
                ELSE Decision("expired", Never, Never, export)
=============================================================================
