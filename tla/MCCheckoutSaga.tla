--------------------------- MODULE MCCheckoutSaga ---------------------------
(* Instances of CheckoutSaga: who sends what. *)
EXTENDS CheckoutSaga, TLC

CONSTANTS r1, r2, k1, k2, w1, w2

\* The same request sent twice, or two buyers.
SameKey == (r1 :> k1) @@ (r2 :> k1)
TwoKeys == (r1 :> k1) @@ (r2 :> k2)

\* The gateway delivers every notification about the first order.
AboutFirst == [w \in Webhooks |-> r1]
=============================================================================
