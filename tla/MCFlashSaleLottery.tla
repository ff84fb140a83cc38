------------------------- MODULE MCFlashSaleLottery -------------------------
(* Instance of FlashSaleLottery: two draws, one for one prize, one for two. *)
EXTENDS FlashSaleLottery, TLC

CONSTANTS d1, d2, e1, e2

OneAndTwo == (d1 :> 1) @@ (d2 :> 2)
=============================================================================
