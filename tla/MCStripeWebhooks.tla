-------------------------- MODULE MCStripeWebhooks --------------------------
(* Instances of StripeWebhooks for TLC. *)
EXTENDS StripeWebhooks, TLC

CONSTANTS paid, failed, refunded, refundedAll, deleted, updated, completed, inv

Says(type, status, cancels, amount) ==
  [type |-> type, invoice |-> inv,
   report |-> [status |-> status, cancels |-> cancels], refunded |-> amount]

\* One event of each type and a second refund, which completes the first; the
\* subscription was active, or past due and ending.
Log ==
     paid      :> Says("invoice.paid", "ACTIVE", FALSE, 0)
  @@ failed    :> Says("invoice.payment_failed", "PAST_DUE", TRUE, 0)
  @@ refunded  :> Says("charge.refunded", "ACTIVE", FALSE, 1)
  @@ refundedAll :> Says("charge.refunded", "ACTIVE", FALSE, 2)
  @@ updated   :> Says("customer.subscription.updated", "PAST_DUE", TRUE, 0)
  @@ deleted   :> Says("customer.subscription.deleted", "PAST_DUE", TRUE, 0)
  @@ completed :> Says("checkout.session.completed", "ACTIVE", FALSE, 0)

Payloads == [e \in Events |-> Log[e]]

Symmetry == Permutations(Calls)
=============================================================================
