-------------------------- MODULE DeletionLifecycle --------------------------
(***************************************************************************)
(* What organisation deletion promises an owner, with no worker, billing   *)
(* provider, lease or retry in sight: a confirmed request freezes the      *)
(* organisation and means to delete it; an accepted cancellation means to  *)
(* keep it, and nothing but recovery follows from there; only one that is  *)
(* still meant to be deleted is purged, and a purged one stays purged.     *)
(***************************************************************************)

VARIABLES
    life,       \* "active", "deleting" or "deleted"
    intent      \* what the owners of a deleting organisation last asked for

Init ==
    /\ life = "active"
    /\ intent = "none"

Request ==
    /\ life = "active"
    /\ life' = "deleting"
    /\ intent' = "delete"

Cancel ==
    /\ intent = "delete"
    /\ intent' = "keep"
    /\ UNCHANGED life

Recover ==
    /\ intent = "keep"
    /\ life' = "active"
    /\ intent' = "none"

Purge ==
    /\ intent = "delete"
    /\ life' = "deleted"
    /\ intent' = "none"

Next == Request \/ Cancel \/ Recover \/ Purge

Spec == Init /\ [][Next]_<<life, intent>>

=============================================================================
