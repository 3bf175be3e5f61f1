---------------------------- MODULE MCStripeSync ----------------------------
(* Bounds for StripeSync.  One webhook handler crosses the reconcile while *)
(* everything happens.  A second one, on the same event, joins only before *)
(* Stripe changes anything, on the largest quantity, and while it is there *)
(* neither Stripe nor the vendor does anything.                            *)
EXTENDS StripeSync

CONSTANT Second

SecondIsEarly ==
  /\ slot'[Second] # slot[Second] =>
       emitted = 1 /\ ban = "none" /\ sub.qty = MaxQty
  /\ slot[Second].stage # "idle" =>
       UNCHANGED <<stripe, vendor>> /\ (lic' = lic \/ slot' # slot)
=============================================================================
