---------------------------- MODULE MCCloudCoverage ----------------------------
(* CloudCoverage of two people, one with two sources, for TLC. *)
EXTENDS CloudCoverage, TLC

CONSTANTS ann, ben, card, seat, cardRef, seatRef

(* Ann's two sources, and Ben's claim of one of them under another id.      *)
TwoSources ==
    {[who |-> ann, src |-> card, alloc |-> cardRef],
     [who |-> ann, src |-> seat, alloc |-> seatRef],
     [who |-> ben, src |-> seat, alloc |-> cardRef]}

Fact(c, s, from, until, r) ==
    [cov |-> c, src |-> s, from |-> from, until |-> until, renewal |-> r]

(* Intervals that overlap, touch or leave a gap, renewals that failed, and  *)
(* one renewal that two sources claim.                                      *)
SomeReports ==
    {{},
     {Fact(1, card, 1, 3, NoRenewal)},
     {Fact(1, card, 1, 3, 9), Fact(2, card, 6, 7, NoRenewal)},
     {Fact(3, seat, 3, 4, NoRenewal), Fact(4, seat, 2, 5, 8)},
     {Fact(3, seat, 5, 6, 9)},
     {Fact(5, seat, 2, 2, NoRenewal)}}

(* Paid, then recovering, then paid again before the recovery has ended.    *)
RenewedLate == {{Fact(6, seat, 1, 2, 7), Fact(7, seat, 3, 6, NoRenewal)}}

(* Operation and attempt ids are interchangeable. *)
AnyId == Permutations(RegOps) \cup Permutations(Attempts)

=============================================================================
