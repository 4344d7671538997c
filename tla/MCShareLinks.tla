----------------------------- MODULE MCShareLinks -----------------------------
(* Instance for TLC: two users, two runs of `sotto login` that may meet on  *)
(* one port, and one link.                                                  *)
EXTENDS ShareLinks, TLC

CONSTANTS u1, u2, f1, f2

MCUsers == {u1, u2}
MCFlows == {f1, f2}

(* Users and runs are compared, never told apart.                           *)
AnyName == Permutations(MCUsers) \cup Permutations(MCFlows)

=============================================================================
