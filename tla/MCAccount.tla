------------------------------ MODULE MCAccount ------------------------------
(* Two devices of one user, one of them with two terminals, for TLC. *)
EXTENDS Account, TLC

CONSTANTS laptop, desktop, left, right, only

Desks == left :> laptop @@ right :> laptop @@ only :> desktop

(* The terminals of the laptop are interchangeable. *)
EitherTerminal == Permutations({left, right})

==============================================================================
