---------------------------- MODULE MCFlashSale ----------------------------
(* Instances of FlashSaleCheckout: who calls with which body. *)
EXTENDS FlashSaleCheckout, TLC

CONSTANTS c1, c2, c3, r1, r2, k1, k2, k3, u1, u2, u3

\* A retry: c1 and c2 are the same request sent twice, c3 is another user's.
RetryKeys == (c1 :> k1) @@ (c2 :> k1) @@ (c3 :> k2)
RetryUsers == (c1 :> u1) @@ (c2 :> u1) @@ (c3 :> u2)

\* Three buyers.
BuyerKeys == (c1 :> k1) @@ (c2 :> k2) @@ (c3 :> k3)
BuyerUsers == (c1 :> u1) @@ (c2 :> u2) @@ (c3 :> u3)

\* One device per user; every device hashes to its own primary bucket.
TwoDevices == (u1 :> 0) @@ (u2 :> 1)
ThreeDevices == (u1 :> 0) @@ (u2 :> 1) @@ (u3 :> 1)

\* The third call wants two units.
Quantities == (c1 :> 1) @@ (c2 :> 1) @@ (c3 :> 2)
Singles == (c1 :> 1) @@ (c2 :> 1) @@ (c3 :> 1)
=============================================================================
