------------------------------- MODULE MCSales -------------------------------
(***************************************************************************)
(* The three keepers of stock in Redis in one run: the flash-sale checkout, *)
(* the lottery of the same service, and the inventory service.  They run    *)
(* one at a time: `active` is chosen once, and only the component it names  *)
(* moves.  The instances are those of the modules extended here; the        *)
(* constants are in the .cfg.                                               *)
(***************************************************************************)
EXTENDS MCFlashSale, MCFlashSaleLottery, MCInventory

VARIABLE active

salesVars == <<vars, lotteryVars, inventoryVars, active>>

SalesInit ==
    active \in {"checkout", "lottery", "inventory"} /\ Init /\ LotteryInit /\ InventoryInit

\* Calls that are alike come in turn: c1 and c2 are one request sent twice, releases and
\* the users of the lottery differ in nothing but their names.
InTurn ==
    /\ pc'[c2] # "idempotency" => pc'[c1] # "idempotency"
    /\ rpc'[r2] # "new" => rpc'[r1] # "new"
    /\ entering'[e2] # "checkDrawn" => entering'[e1] # "checkDrawn"

CheckoutStep == active = "checkout" /\ Next /\ UNCHANGED <<lotteryVars, inventoryVars, active>>
LotteryStep == active = "lottery" /\ LotteryNext /\ UNCHANGED <<vars, inventoryVars, active>>
InventoryStep == active = "inventory" /\ InventoryNext /\ UNCHANGED <<vars, lotteryVars, active>>

\* Only the checkout has to go on until every call is answered (Finished).
Rest == active # "checkout" /\ UNCHANGED salesVars

SalesNext == (CheckoutStep \/ LotteryStep \/ InventoryStep \/ Rest) /\ InTurn
SalesSpec == SalesInit /\ [][SalesNext]_salesVars
=============================================================================
