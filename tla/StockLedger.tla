---------------------------- MODULE StockLedger ----------------------------
(***************************************************************************)
(* What a stock keeper promises, with nothing about how it keeps stock:    *)
(* a quantity is available, claims take whole amounts of it, and an amount *)
(* that was taken comes back at most once.  The flash-sale checkout        *)
(* (FlashSaleCheckout, FlashSaleProofs) and the inventory service, for     *)
(* what is bought alone (Inventory, InventoryProofs), implement it.        *)
(***************************************************************************)
EXTENDS Integers, FiniteSets

CONSTANTS
    Claims,     \* whoever may take stock: one claim per reservation
    Size,       \* Size[c]: the amount claim c takes
    MaxSize,    \* no claim is larger
    Initial     \* the stock that is there at the beginning

\* What an instance owes the ledger: the theorems of StockLedgerProofs are about
\* instances that meet it; FlashSaleProofs and InventoryProofs show that theirs do.
Legal ==
    /\ IsFiniteSet(Claims)
    /\ MaxSize \in Nat
    /\ Size \in [Claims -> 1..MaxSize]
    /\ Initial \in Nat

VARIABLES
    available,  \* stock nobody holds
    claim       \* claim[c]: "none", "held" or "returned"

vars == <<available, claim>>

\* One element per unit of stock that the claims of S hold: the total size of
\* S is the number of these units.
Units(S) == {u \in S \X (1..MaxSize) : u[2] <= Size[u[1]]}

Held == {c \in Claims : claim[c] = "held"}

TypeOK ==
    /\ available \in Int
    /\ claim \in [Claims -> {"none", "held", "returned"}]

Init ==
    /\ available = Initial
    /\ claim = [c \in Claims |-> "none"]

Take(c) ==
    /\ Size[c] <= available /\ available' = available - Size[c]
    /\ claim[c] = "none" /\ claim' = [claim EXCEPT ![c] = "held"]

GiveBack(c) ==
    /\ available' = available + Size[c]
    /\ claim[c] = "held" /\ claim' = [claim EXCEPT ![c] = "returned"]

Next == \E c \in Claims : Take(c) \/ GiveBack(c)

Spec == Init /\ [][Next]_vars

\* Nothing is oversold and nothing is lost: what is available and what is held
\* add up to what there was at the beginning, and availability is not negative.
Conserved ==
    /\ available >= 0
    /\ available + Cardinality(Units(Held)) = Initial
=============================================================================
