----------------------------- MODULE MCTeamClient -----------------------------
(* An owner, an administrator and a member at their command lines, for TLC. *)
EXTENDS TeamClient, TLC

CONSTANTS alice, bob, carol

Trio == alice :> "owner" @@ bob :> "admin" @@ carol :> "member"

(* One removes, the other shares and rotates. *)
Shifts == alice :> {"remove"} @@ bob :> {"rotate", "share"} @@ carol :> {}
=============================================================================
