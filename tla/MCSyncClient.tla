---------------------------- MODULE MCSyncClient ---------------------------
(* SyncClient on two devices of two accounts, for TLC. *)
EXTENDS SyncClient, TLC

CONSTANTS alice, bob, laptop, desktop

(* One device each. *)
OneEach == laptop :> alice @@ desktop :> bob

=============================================================================
