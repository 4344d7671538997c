----------------------------- MODULE MCLocalVault -----------------------------
(* Instance for TLC: two processes on one name in two environments of one   *)
(* project.                                                                 *)
EXTENDS LocalVault, TLC

CONSTANTS p1, p2, dev, prod, n, x, y

MCProcesses == {p1, p2}
MCEnvironments == {dev, prod}
MCNames == {n}
MCValues == {x, y}

(* Nothing tells two processes, environments or values apart.               *)
Alike == Permutations(MCProcesses) \cup Permutations(MCEnvironments)
         \cup Permutations(MCValues)

=============================================================================
