---------------------------- MODULE MCInventory ----------------------------
(* Instance of Inventory: SKU s1 is bought alone, s2 and s3 together. *)
EXTENDS Inventory, TLC

CONSTANTS s1, s2, s3, s4, q1, q2, q3

Item(s, q) == [sku |-> s, qty |-> q]
Carts == (q1 :> <<Item(s1, 1)>>) @@ (q2 :> <<Item(s1, 2)>>)
         @@ (q3 :> <<Item(s2, 1), Item(s3, 2)>>)
Stock == (s1 :> 2) @@ (s2 :> 1) @@ (s3 :> 2)
\* An admin takes s3 off sale.
Overwritten == {<<s3, 0>>}

\* One cart of three SKUs, the last of which is short.
BigCart == (q1 :> <<Item(s1, 1), Item(s2, 2), Item(s3, 2)>>)
           @@ (q2 :> <<Item(s3, 1)>>) @@ (q3 :> <<Item(s1, 1)>>)
ShortStock == (s1 :> 2) @@ (s2 :> 2) @@ (s3 :> 1) @@ (s4 :> 0)
=============================================================================
