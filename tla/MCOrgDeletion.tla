--------------------------- MODULE MCOrgDeletion ---------------------------
(* OrgDeletion with one to three servers and one subscription, for TLC. *)
EXTENDS OrgDeletion, TLC

(* A retry ladder of one step. *)
OneRetry == <<1>>

(* Checkouts are paid, payments fail and recover, customers cancel. *)
AllMoves ==
    {<<"none", "paying">>, <<"paying", "unpaid">>, <<"unpaid", "paying">>,
     <<"paying", "ended">>, <<"unpaid", "ended">>}

(* Servers with the same configuration are interchangeable. *)
AnyServer == Permutations(Configured)

=============================================================================
