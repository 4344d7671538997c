----------------------------- MODULE CoverageService ---------------------------
(***************************************************************************)
(* What the coverage store promises its readers and writers.  Every person *)
(* has a ledger of publications, numbered from 1, that is only appended    *)
(* to; an operation takes effect at most once; a registration makes the    *)
(* coverage unavailable in the same step that adds the source; and a       *)
(* collection publishes, in one step, a snapshot of exactly the sources    *)
(* the person has at that step.  Provider calls, attempts and generations  *)
(* are how the service keeps that promise (CloudCoverage).                 *)
(***************************************************************************)
EXTENDS Naturals

CONSTANTS People, Names, Projections, SourceIds, Pending

VARIABLES
    owned,              \* owned[p]: the sources of p
    size,               \* size[p]: publications so far
    ledger              \* ledger[p][n]: the n-th publication

serviceVars == <<owned, size, ledger>>

ServiceInit ==
    /\ owned = [p \in People |-> {}]
    /\ size = [p \in People |-> 0]
    /\ ledger = [p \in People |-> [n \in {} |-> n]]

(* Compare and swap: an entry goes to the end or nowhere.                   *)
Append1(p, op, covers, proj) ==
    /\ size' = [size EXCEPT ![p] = @ + 1]
    /\ \A n \in 1 .. size[p] : ledger[p][n].op # op
    /\ ledger' = [ledger EXCEPT ![p] =
                     [n \in 1 .. (size[p] + 1) |->
                        IF n <= size[p] THEN ledger[p][n]
                        ELSE [op |-> op, covers |-> covers, proj |-> proj]]]

(* A source has one owner for ever. *)
AddSource(p, s, op) ==
    /\ \A q \in People : s \notin owned[q]
    /\ owned' = [owned EXCEPT ![p] = @ \cup {s}]
    /\ Append1(p, op, {}, Pending)

Collect(p, op, proj) ==
    /\ owned[p] # {}
    /\ Append1(p, op, owned[p], proj)
    /\ UNCHANGED owned

Record(p, op, proj) ==
    /\ Append1(p, op, {}, proj)
    /\ UNCHANGED owned

ServiceNext ==
    \E p \in People, op \in Names :
        \/ \E s \in SourceIds : AddSource(p, s, op)
        \/ \E proj \in Projections : Collect(p, op, proj) \/ Record(p, op, proj)

ServiceSpec == ServiceInit /\ [][ServiceNext]_serviceVars
=============================================================================
