---------------------------- MODULE MCEnvServer ----------------------------
(* EnvServer on a small organisation, for TLC. *)
EXTENDS EnvServer, TLC

(* Users other than the creator, and contents, are interchangeable. *)
Others == Permutations(Users \ {Creator}) \cup Permutations(Contents)

=============================================================================
