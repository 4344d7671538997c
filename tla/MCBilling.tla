------------------------------- MODULE MCBilling -------------------------------
(* Billing of an organisation with one subscription, for TLC. *)
EXTENDS Billing, TLC

CONSTANTS p, q

(* Two projects at a limit of one.  (Requests for members multiply the      *)
(* states and meet the same guard; the theorem covers both kinds.)          *)
Growth == {[kind |-> "project", item |-> p], [kind |-> "project", item |-> q]}

AnyProject == Permutations({p, q})

(* A payment fails and recovers, a customer cancels, Stripe reports a       *)
(* status this server does not know.                                        *)
Payments ==
    {[from |-> "active", to |-> "unpaid"], [from |-> "unpaid", to |-> "active"],
     [from |-> "unpaid", to |-> "canceled"], [from |-> "active", to |-> "not known"]}

OneOfEach == [k \in {"project", "member"} |-> 1]
=============================================================================
