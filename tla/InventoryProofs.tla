--------------------------- MODULE InventoryProofs ---------------------------
(***************************************************************************)
(* Inventory for any carts, quantities, stock, overwrites and number of    *)
(* faults.  Hashed says what a reservation hash remembers, Unspent that    *)
(* what may still be given back was not given back, and Alone what the     *)
(* hash of a request for one item stands for; from them the reservations   *)
(* of a SKU that is bought alone are claims of the ledger (StockLedger).   *)
(***************************************************************************)
EXTENDS Inventory, FiniteSetTheorems, TLAPS

Full == [status : {"RESERVED", "RELEASED", "CONFIRMED", "EXPIRED"}, sku : Skus, qty : 1..MaxItemQty]

\* InventoryTypeOK, and that the counters of a call are functions.
Shape ==
    /\ InventoryTypeOK
    /\ done \in [Requests -> Nat] /\ undone \in [Requests -> Nat]

\* A hash that can be released has its SKU and quantity: only a hash that
\* Confirm or the reaper made anew lacks them, and its status is another.
Hashed == \A r \in Requests : hash[r].status = "RESERVED" => hash[r] \in Full

\* Only a reservation that was answered is confirmed.
Answered == \A r \in confirming : reserving[r] = "reserved"

\* A request that is still reserving, or whose hash is RESERVED, has given
\* nothing back.
GaveNothing(r) == \A s \in Skus : gave[r][s] = 0
Unspent == \A r \in Requests :
    reserving[r] = "reserve" \/ hash[r].status = "RESERVED" => GaveNothing(r)

\* The one item of a request is not taken before its script has run, and its
\* hash describes it.
Alone == \A r \in Requests : Len(Items[r]) = 1 =>
    /\ reserving[r] = "reserve" /\ done[r] = 0 => \A s \in Skus : taken[r][s] = 0
    /\ hash[r] \in Full =>
          /\ hash[r].sku = Items[r][1].sku /\ hash[r].qty = Items[r][1].qty
          /\ taken[r][hash[r].sku] > 0

Inv == Shape /\ Hashed /\ Answered /\ Unspent /\ Alone

\* Inv holds in the initial states.
LEMMA Initially == InventoryInit => Inv
<1> SUFFICES ASSUME InventoryInit PROVE Inv
  OBVIOUS
<1>1. InventoryTypeOK
  BY InventoryAssumption DEF InventoryInit, InventoryTypeOK, Hashes, NoHash, Idle
<1>2. done \in [Requests -> Nat] /\ undone \in [Requests -> Nat]
  BY DEF InventoryInit
<1>3. \A r \in Requests : hash[r] = NoHash /\ hash[r] \notin Full
  BY DEF InventoryInit, NoHash, Full
<1>4. \A r \in Requests : \A s \in Skus : taken[r][s] = 0 /\ gave[r][s] = 0
  BY DEF InventoryInit
<1> QED
  BY <1>1, <1>2, <1>3, <1>4 DEF InventoryInit, Inv, Shape, Hashed, Answered, Unspent, GaveNothing, Alone, NoHash

-----------------------------------------------------------------------------
(* Items, hashes and the two scripts *)

\* The constants and the items of every request are typed.
LEMMA Numbers ==
    /\ MaxInventoryFaults \in Nat /\ MaxItemQty \in Nat \ {0}
    /\ \A r \in Requests : Len(Items[r]) \in Nat /\ DOMAIN Items[r] = 1..Len(Items[r])
    /\ \A w \in Overwrites : w[1] \in Skus /\ w[2] \in Nat
<1> DEFINE Item == [sku : Skus, qty : 1..MaxItemQty]
<1>1. \A r \in Requests : Items[r] \in Seq(Item)
  BY InventoryAssumption
<1> HIDE DEF Item
<1>2. \A r \in Requests : Len(Items[r]) \in Nat /\ DOMAIN Items[r] = 1..Len(Items[r])
  BY <1>1
<1>3. \A w \in Overwrites : w[1] \in Skus /\ w[2] \in Nat
  BY InventoryAssumption
<1> QED
  BY <1>2, <1>3, InventoryAssumption

\* An item of a request has a sku and a quantity.
LEMMA ItemTypes ==
    ASSUME NEW r \in Requests, NEW i \in 1..Len(Items[r])
    PROVE  /\ Len(Items[r]) \in Nat /\ DOMAIN Items[r] = 1..Len(Items[r])
           /\ Items[r][i] \in [sku : Skus, qty : 1..MaxItemQty]
           /\ Items[r][i].sku \in Skus /\ Items[r][i].qty \in 1..MaxItemQty
<1> DEFINE Item == [sku : Skus, qty : 1..MaxItemQty]
<1>1. Items[r] \in Seq(Item)
  BY InventoryAssumption
<1> HIDE DEF Item
<1>2. Len(Items[r]) \in Nat /\ DOMAIN Items[r] = 1..Len(Items[r]) /\ Items[r][i] \in Item
  BY <1>1
<1> QED
  BY <1>2 DEF Item

\* Setting a status leaves the rest of a hash, and does not complete one.
LEMMA StatusSet ==
    ASSUME NEW h \in Hashes, NEW s \in {"RELEASED", "CONFIRMED", "EXPIRED"}
    PROVE  /\ SetStatus(h, s) \in Hashes /\ SetStatus(h, s).status = s
           /\ SetStatus(h, s) \in Full =>
                h \in Full /\ SetStatus(h, s).sku = h.sku /\ SetStatus(h, s).qty = h.qty
BY DEF Hashes, Full, SetStatus, NoHash

\* The hash written for an item is a full, reserved one with that item in it.
LEMMA HashTypes ==
    ASSUME NEW item \in [sku : Skus, qty : 1..MaxItemQty]
    PROVE  /\ Hash(item.sku, item.qty) \in Hashes \cap Full
           /\ Hash(item.sku, item.qty).status = "RESERVED"
           /\ Hash(item.sku, item.qty).sku = item.sku
           /\ Hash(item.sku, item.qty).qty = item.qty
BY DEF Hash, Hashes, Full

\* What a successful reserve script leaves.
LEMMA ScriptReserves ==
    ASSUME Inv, NEW r \in Requests, done[r] < Len(Items[r]), ReserveScript(r, NextItem(r))
    PROVE  /\ NextItem(r) \in [sku : Skus, qty : 1..MaxItemQty]
           /\ stock' \in [Skus -> Int] /\ taken' \in [Requests -> [Skus -> Nat]]
           /\ hash' \in [Requests -> Hashes]
           /\ hash'[r] \in Full /\ hash'[r].status = "RESERVED"
           /\ hash'[r].sku = NextItem(r).sku /\ hash'[r].qty = NextItem(r).qty
           /\ taken'[r][NextItem(r).sku] > 0
           /\ \A q \in Requests \ {r} : hash'[q] = hash[q] /\ taken'[q] = taken[q]
<1>1. done[r] + 1 \in 1..Len(Items[r])
  BY InventoryAssumption DEF Inv, Shape
<1>2. NextItem(r) \in [sku : Skus, qty : 1..MaxItemQty]
  BY <1>1, ItemTypes DEF NextItem
<1> DEFINE item == NextItem(r)
<1>3. item.sku \in Skus /\ item.qty \in 1..MaxItemQty /\ item.qty \in Nat \ {0}
  BY <1>2, InventoryAssumption
<1> HIDE DEF item
<1>4. stock' \in [Skus -> Int]
  BY <1>3 DEF ReserveScript, Inv, Shape, InventoryTypeOK, item
<1>5. /\ taken' \in [Requests -> [Skus -> Nat]]
      /\ taken'[r][item.sku] > 0
      /\ \A q \in Requests \ {r} : taken'[q] = taken[q]
  BY SMTT(30), <1>3 DEF ReserveScript, Inv, Shape, InventoryTypeOK, item
<1>6. Hash(item.sku, item.qty) \in Hashes \cap Full
  BY <1>2, HashTypes DEF item
<1>7. /\ hash' \in [Requests -> Hashes] /\ hash'[r] = Hash(item.sku, item.qty)
      /\ \A q \in Requests \ {r} : hash'[q] = hash[q]
  BY <1>6 DEF ReserveScript, Inv, Shape, InventoryTypeOK, item
<1> QED
  BY <1>2, <1>4, <1>5, <1>6, <1>7, HashTypes DEF item

\* What a release script leaves: the hash is closed and something was given
\* back, or nothing has changed.
LEMMA ScriptReleases ==
    ASSUME Inv, NEW r \in Requests, NEW sku \in Skus, ReleaseScript(r, sku)
    PROVE  \/ UNCHANGED <<stock, gave, hash>>
           \/ /\ hash[r].status = "RESERVED" /\ hash[r] \in Full
              /\ stock' = [stock EXCEPT ![sku] = @ + hash[r].qty]
              /\ gave' = [gave EXCEPT ![r][sku] = @ + hash[r].qty]
              /\ stock' \in [Skus -> Int] /\ gave' \in [Requests -> [Skus -> Nat]]
              /\ hash' \in [Requests -> Hashes]
              /\ hash'[r].status = "RELEASED"
              /\ hash'[r] \in Full => hash'[r].sku = hash[r].sku /\ hash'[r].qty = hash[r].qty
              /\ \A q \in Requests \ {r} : hash'[q] = hash[q] /\ gave'[q] = gave[q]
<1> SUFFICES ASSUME hash[r].status = "RESERVED"
             PROVE  /\ hash[r] \in Full
                    /\ stock' = [stock EXCEPT ![sku] = @ + hash[r].qty]
                    /\ gave' = [gave EXCEPT ![r][sku] = @ + hash[r].qty]
                    /\ stock' \in [Skus -> Int] /\ gave' \in [Requests -> [Skus -> Nat]]
                    /\ hash' \in [Requests -> Hashes]
                    /\ hash'[r].status = "RELEASED"
                    /\ hash'[r] \in Full => hash'[r].sku = hash[r].sku /\ hash'[r].qty = hash[r].qty
                    /\ \A q \in Requests \ {r} : hash'[q] = hash[q] /\ gave'[q] = gave[q]
  BY DEF ReleaseScript
<1>1. /\ stock' = [stock EXCEPT ![sku] = @ + hash[r].qty]
      /\ gave' = [gave EXCEPT ![r][sku] = @ + hash[r].qty]
      /\ hash' = [hash EXCEPT ![r] = SetStatus(@, "RELEASED")]
  BY DEF ReleaseScript
<1>2. hash[r] \in Full /\ hash[r].qty \in Nat
  BY InventoryAssumption DEF Inv, Hashed, Full
<1>3. stock' \in [Skus -> Int] /\ gave' \in [Requests -> [Skus -> Nat]]
      /\ \A q \in Requests \ {r} : gave'[q] = gave[q]
  BY SMTT(30), <1>1, <1>2 DEF Inv, Shape, InventoryTypeOK
<1>4. hash \in [Requests -> Hashes]
  BY DEF Inv, Shape, InventoryTypeOK
<1>5. /\ hash' \in [Requests -> Hashes] /\ hash'[r] = SetStatus(hash[r], "RELEASED")
      /\ \A q \in Requests \ {r} : hash'[q] = hash[q]
  BY <1>1, <1>4, StatusSet
<1> QED
  BY <1>1, <1>2, <1>3, <1>4, <1>5, StatusSet

-----------------------------------------------------------------------------
(* Every step keeps the invariant *)

\* A call whose script ran, as the next item or as one whose answer was lost.
LEMMA Reserving ==
    ASSUME Inv, NEW r \in Requests, reserving[r] = "reserve", done[r] < Len(Items[r]),
           ReserveScript(r, NextItem(r)),
           \/ done' = [done EXCEPT ![r] = @ + 1] /\ UNCHANGED <<reserving, inventoryFaults>>
           \/ ReserveGoto(r, "reserve", "rollback") /\ InventoryFault /\ UNCHANGED done,
           UNCHANGED <<stray, undone, confirming, reaper, gave>>
    PROVE  Inv'
<1> USE DEF Inv
<1>1. /\ NextItem(r) \in [sku : Skus, qty : 1..MaxItemQty]
      /\ stock' \in [Skus -> Int] /\ taken' \in [Requests -> [Skus -> Nat]]
      /\ hash' \in [Requests -> Hashes]
      /\ hash'[r] \in Full /\ hash'[r].status = "RESERVED"
      /\ hash'[r].sku = NextItem(r).sku /\ hash'[r].qty = NextItem(r).qty
      /\ taken'[r][NextItem(r).sku] > 0
      /\ \A q \in Requests \ {r} : hash'[q] = hash[q] /\ taken'[q] = taken[q]
  BY ScriptReserves
<1>2. /\ done' \in [Requests -> Nat] /\ undone' \in [Requests -> Nat]
      /\ \A q \in Requests : done'[q] \in {done[q], done[q] + 1}
      /\ done'[r] <= Len(Items[r])
      /\ \A q \in Requests \ {r} : done'[q] = done[q]
  BY Numbers DEF Shape, InventoryTypeOK
<1>3. /\ reserving' \in [Requests -> {"reserve", "rollback", "reserved", "failed", "dead"}]
      /\ \A q \in Requests \ {r} : reserving'[q] = reserving[q]
      /\ reserving'[r] = "reserve" => done'[r] = done[r] + 1
  BY DEF Shape, InventoryTypeOK, ReserveGoto
<1>4. Shape'
  <2>1. \A q \in Requests : undone'[q] \in 0..done'[q] /\ done'[q] \in 0..Len(Items[q])
    BY <1>2, Numbers DEF Shape, InventoryTypeOK
  <2>2. inventoryFaults' \in 0..MaxInventoryFaults
    BY Numbers DEF Shape, InventoryTypeOK, InventoryFault
  <2> QED
    BY <1>1, <1>2, <1>3, <2>1, <2>2 DEF Shape, InventoryTypeOK
<1>5. Hashed' /\ Answered'
  BY <1>1, <1>3 DEF Hashed, Answered, Shape, InventoryTypeOK
<1>6. Unspent'
  <2>1. \A q \in Requests \ {r} : reserving'[q] = reserving[q] /\ hash'[q] = hash[q]
    BY <1>1, <1>3
  <2>2. GaveNothing(r) /\ \A q : GaveNothing(q)' <=> GaveNothing(q)
    BY <1>1 DEF Unspent, GaveNothing
  <2> QED
    BY <2>1, <2>2 DEF Unspent
<1>7. Alone'
  <2>1. ASSUME NEW q \in Requests \ {r} PROVE reserving'[q] = reserving[q] /\ done'[q] = done[q] /\ hash'[q] = hash[q] /\ taken'[q] = taken[q]
    BY <1>1, <1>2, <1>3
  <2>2. ASSUME Len(Items[r]) = 1 PROVE NextItem(r) = Items[r][1] /\ ~(reserving'[r] = "reserve" /\ done'[r] = 0)
    BY <1>3, <2>2 DEF NextItem, Shape, InventoryTypeOK
  <2>3. ASSUME NEW q \in Requests, Len(Items[q]) = 1
        PROVE  /\ reserving'[q] = "reserve" /\ done'[q] = 0 => \A s \in Skus : taken'[q][s] = 0
               /\ hash'[q] \in Full =>
                     /\ hash'[q].sku = Items[q][1].sku /\ hash'[q].qty = Items[q][1].qty
                     /\ taken'[q][hash'[q].sku] > 0
    <3>1. CASE q = r
      BY <1>1, <2>2, <2>3, <3>1
    <3>2. CASE q # r
      BY <2>1, <2>3, <3>2 DEF Alone
    <3> QED
      BY <3>1, <3>2
  <2> QED
    BY <2>3 DEF Alone, Full
<1> QED
  BY <1>4, <1>5, <1>6, <1>7

\* A script that releases, for a call that is rolling back or was answered.
LEMMA Releasing ==
    ASSUME Inv, NEW r \in Requests, NEW sku \in Skus, ReleaseScript(r, sku), reserving[r] # "reserve",
           undone' \in [Requests -> Nat], \A q \in Requests : undone'[q] \in 0..done[q],
           UNCHANGED <<stray, reserving, done, confirming, reaper, taken, inventoryFaults>>
    PROVE  Inv'
<1> USE DEF Inv
<1>1. CASE UNCHANGED <<stock, gave, hash>>
  BY SMTT(30), <1>1 DEF Shape, InventoryTypeOK, Hashed, Answered, Unspent, GaveNothing, Alone
<1>2. CASE /\ hash[r].status = "RESERVED" /\ hash[r] \in Full
           /\ stock' \in [Skus -> Int] /\ gave' \in [Requests -> [Skus -> Nat]]
           /\ hash' \in [Requests -> Hashes]
           /\ hash'[r].status = "RELEASED"
           /\ hash'[r] \in Full => hash'[r].sku = hash[r].sku /\ hash'[r].qty = hash[r].qty
           /\ \A q \in Requests \ {r} : hash'[q] = hash[q] /\ gave'[q] = gave[q]
  <2>1. Shape'
    BY <1>2 DEF Shape, InventoryTypeOK
  <2>2. Hashed' /\ Answered'
    BY <1>2 DEF Hashed, Answered
  <2>3. Unspent'
    BY <1>2 DEF Unspent, GaveNothing
  <2>4. Alone'
    BY <1>2 DEF Alone
  <2> QED
    BY <2>1, <2>2, <2>3, <2>4
<1> QED
  BY <1>1, <1>2, ScriptReleases

\* A status set by Confirm or the reaper.
LEMMA Marking ==
    ASSUME Inv, NEW r \in Requests, NEW s \in {"CONFIRMED", "EXPIRED"},
           hash' = [hash EXCEPT ![r] = SetStatus(@, s)],
           confirming' \in SUBSET confirming,
           reaper' \in {reaper, Idle},
           UNCHANGED <<stock, stray, reserving, done, undone, taken, gave, inventoryFaults>>
    PROVE  Inv'
<1> USE DEF Inv
<1>1. hash \in [Requests -> Hashes]
  BY DEF Shape, InventoryTypeOK
<1>2. /\ hash' \in [Requests -> Hashes] /\ hash'[r].status = s
      /\ hash'[r] \in Full =>
           hash[r] \in Full /\ hash'[r].sku = hash[r].sku /\ hash'[r].qty = hash[r].qty
      /\ \A q \in Requests \ {r} : hash'[q] = hash[q]
  BY <1>1, StatusSet
<1>3. Shape'
  BY <1>2 DEF Shape, InventoryTypeOK
<1>4. Hashed' /\ Unspent'
  BY <1>2 DEF Hashed, Unspent, GaveNothing
<1>6. Answered'
  BY DEF Answered
<1>5. Alone'
  BY <1>2 DEF Alone
<1> QED
  BY <1>3, <1>4, <1>5, <1>6

\* Every step keeps Inv.
LEMMA Step == Inv /\ [InventoryNext]_inventoryVars => Inv'
<1> SUFFICES ASSUME Inv, [InventoryNext]_inventoryVars PROVE Inv'
  OBVIOUS
<1> USE DEF Inv
<1>1. ASSUME NEW r \in Requests, ReserveItem(r) PROVE Inv'
  <2>1. CASE ReserveScript(r, NextItem(r)) /\ done' = [done EXCEPT ![r] = @ + 1] /\ UNCHANGED reserving
    BY <1>1, <2>1, Reserving DEF ReserveItem
  <2>2. CASE ReserveGoto(r, "reserve", "rollback") /\ UNCHANGED <<stock, taken, hash, done>>
    BY <1>1, <2>2 DEF ReserveItem, ReserveGoto, Shape, InventoryTypeOK, Hashed, Answered, Unspent, GaveNothing, Alone
  <2> QED
    BY <1>1, <2>1, <2>2 DEF ReserveItem
<1>2. ASSUME NEW r \in Requests, ReserveItemFails(r) PROVE Inv'
  <2>1. CASE ReserveScript(r, NextItem(r))
    BY <1>2, <2>1, Reserving DEF ReserveItemFails, ReserveGoto
  <2>2. CASE UNCHANGED <<stock, taken, hash>>
    <3>1. Shape'
      BY <1>2, <2>2, Numbers DEF ReserveItemFails, InventoryFault, ReserveGoto, Shape, InventoryTypeOK
    <3>2. Hashed' /\ Answered' /\ Unspent' /\ Alone'
      BY <1>2, <2>2 DEF ReserveItemFails, ReserveGoto, Shape, InventoryTypeOK, Hashed, Answered, Unspent, GaveNothing, Alone
    <3> QED
      BY <3>1, <3>2
  <2> QED
    BY <1>2, <2>1, <2>2 DEF ReserveItemFails
<1>3. ASSUME NEW r \in Requests, Rollback(r) PROVE Inv'
  <2>1. undone[r] + 1 \in 1..Len(Items[r])
    BY <1>3, Numbers DEF Rollback, Shape, InventoryTypeOK
  <2>2. Items[r][undone[r] + 1].sku \in Skus
    BY <2>1, ItemTypes
  <2>3. undone' \in [Requests -> Nat] /\ \A q \in Requests : undone'[q] \in 0..done[q]
    BY <1>3 DEF Rollback, Shape, InventoryTypeOK
  <2> QED
    BY <1>3, <2>2, <2>3, Releasing DEF Rollback
<1>4. ASSUME NEW r \in Requests, RollbackFails(r) PROVE Inv'
  BY <1>4, Numbers DEF RollbackFails, InventoryFault, Shape, InventoryTypeOK, Hashed, Answered, Unspent, GaveNothing, Alone
<1>5. ASSUME NEW r \in Requests, AnswerReserve(r) \/ ReserveDies(r) PROVE Inv'
  <2>1. UNCHANGED <<stock, stray, hash, done, undone, confirming, reaper, taken, gave>>
    BY <1>5 DEF AnswerReserve, ReserveDies
  <2>2. /\ reserving' \in [Requests -> {"reserve", "rollback", "reserved", "failed", "dead"}]
        /\ \A q \in Requests : /\ reserving'[q] = "reserve" => reserving[q] = "reserve"
                               /\ reserving[q] = "reserved" => reserving'[q] = "reserved"
    BY <1>5 DEF AnswerReserve, ReserveDies, ReserveGoto, Shape, InventoryTypeOK
  <2>3. inventoryFaults' \in 0..MaxInventoryFaults
    BY <1>5, Numbers DEF AnswerReserve, ReserveDies, InventoryFault, Shape, InventoryTypeOK
  <2>4. Shape'
    BY <2>1, <2>2, <2>3 DEF Shape, InventoryTypeOK
  <2>5. Hashed' /\ Answered' /\ Unspent' /\ Alone'
    BY <2>1, <2>2 DEF Hashed, Answered, Unspent, GaveNothing, Alone, Shape, InventoryTypeOK
  <2> QED
    BY <2>4, <2>5
<1>6. ASSUME NEW r \in Requests, Release(r) PROVE Inv'
  <2>1. PICK i \in DOMAIN Items[r] : ReleaseScript(r, Items[r][i].sku)
    BY <1>6 DEF Release
  <2>2. Items[r][i].sku \in Skus
    BY ItemTypes, Numbers
  <2> QED
    BY <1>6, <2>1, <2>2, Releasing DEF Release, Shape, InventoryTypeOK
<1>7. ASSUME NEW r \in Requests, BeginConfirm(r) PROVE Inv'
  BY <1>7 DEF BeginConfirm, Shape, InventoryTypeOK, Hashed, Answered, Unspent, GaveNothing, Alone
<1>8. ASSUME NEW r \in Requests, ConfirmReservation(r) PROVE Inv'
  BY <1>8, Marking DEF ConfirmReservation
<1>9. ASSUME NEW r \in Requests, HashExpires(r) PROVE Inv'
  <2>1. NoHash \in Hashes /\ NoHash \notin Full /\ NoHash.status # "RESERVED"
    BY DEF NoHash, Hashes, Full
  <2> QED
    BY <1>9, <2>1 DEF HashExpires, Shape, InventoryTypeOK, Hashed, Answered, Unspent, GaveNothing, Alone
<1>10. ASSUME NEW r \in Requests, ReaperReads(r) PROVE Inv'
  <2>1. hash[r].sku \in Skus /\ hash[r].qty \in 1..MaxItemQty
    BY <1>10 DEF ReaperReads, Hashed, Full
  <2>2. reaper' \in [step : {"credit", "mark"}, key : Requests, sku : Skus, qty : 1..MaxItemQty]
    BY <1>10, <2>1 DEF ReaperReads
  <2> QED
    BY <1>10, <2>2 DEF ReaperReads, Shape, InventoryTypeOK, Hashed, Answered, Unspent, GaveNothing, Alone
<1>11. ASSUME ReaperCredits PROVE Inv'
  <2>1. reaper \in [step : {"credit", "mark"}, key : Requests, sku : Skus, qty : 1..MaxItemQty]
    BY <1>11 DEF ReaperCredits, Reaper, Shape, InventoryTypeOK, Idle
  <2>2. reaper' \in [step : {"credit", "mark"}, key : Requests, sku : Skus, qty : 1..MaxItemQty]
    BY <1>11, <2>1 DEF ReaperCredits, Reaper
  <2>3. reaper.sku \in Skus /\ reaper.qty \in Nat
    BY <2>1, Numbers
  <2>4. stray' \in [Skus -> Nat]
    BY <1>11, <2>3 DEF ReaperCredits, Shape, InventoryTypeOK
  <2> QED
    BY SMTT(30), <1>11, <2>2, <2>4 DEF ReaperCredits, Shape, InventoryTypeOK, Hashed, Answered, Unspent, GaveNothing, Alone
<1>12. ASSUME ReaperMarks PROVE Inv'
  <2>1. reaper.key \in Requests
    BY <1>12 DEF ReaperMarks, Shape, InventoryTypeOK, Idle
  <2> QED
    BY <1>12, <2>1, Marking DEF ReaperMarks
<1>13. ASSUME NEW w \in Overwrites, SetStock(w[1], w[2]) PROVE Inv'
  <2>1. w[1] \in Skus /\ w[2] \in Int
    BY Numbers
  <2>2. stock' \in [Skus -> Int]
    BY <1>13, <2>1 DEF SetStock, Shape, InventoryTypeOK
  <2> QED
    BY <1>13, <2>2 DEF SetStock, Shape, InventoryTypeOK, Hashed, Answered, Unspent, GaveNothing, Alone
<1>14. CASE UNCHANGED inventoryVars
  BY <1>14 DEF inventoryVars, Shape, InventoryTypeOK, Hashed, Answered, Unspent, GaveNothing, Alone
<1> QED
  BY <1>1, <1>2, <1>3, <1>4, <1>5, <1>6, <1>7, <1>8, <1>9, <1>10, <1>11, <1>12, <1>13, <1>14 DEF InventoryNext

\* The invariant holds of every state.
THEOREM Invariance == InventorySpec => []Inv
BY Initially, Step, PTL DEF InventorySpec

\* The store, the calls and the reaper keep their types.
THEOREM TypeCorrect == InventorySpec => []InventoryTypeOK
<1>1. Inv => InventoryTypeOK
  BY DEF Inv, Shape
<1> QED
  BY <1>1, Invariance, PTL

-----------------------------------------------------------------------------
(* A reservation gives back at most once *)

\* Whatever its items, no reservation gives stock back a second time.
THEOREM OneGiveBack == InventorySpec => GivesBackOnce
<1> DEFINE Once == \A r \in Requests : gave'[r] # gave[r] => \A s \in Skus : gave[r][s] = 0
<1>1. ASSUME Inv, NEW r \in Requests, NEW sku \in Skus, ReleaseScript(r, sku) PROVE Once
  BY <1>1, ScriptReleases DEF Inv, Unspent, GaveNothing
<1>2. Inv /\ [InventoryNext]_inventoryVars => [Once]_inventoryVars
  <2> SUFFICES ASSUME Inv, InventoryNext PROVE Once
    OBVIOUS
  <2>1. ASSUME NEW r \in Requests, Rollback(r) PROVE Once
    <3>1. undone[r] + 1 \in 1..Len(Items[r])
      BY <2>1, Numbers DEF Rollback, Inv, Shape, InventoryTypeOK
    <3>2. Items[r][undone[r] + 1].sku \in Skus
      BY <3>1, ItemTypes
    <3> QED
      BY <1>1, <2>1, <3>2 DEF Rollback
  <2>2. ASSUME NEW r \in Requests, Release(r) PROVE Once
    <3>1. PICK i \in DOMAIN Items[r] : ReleaseScript(r, Items[r][i].sku)
      BY <2>2 DEF Release
    <3>2. Items[r][i].sku \in Skus
      BY ItemTypes, Numbers
    <3> QED
      BY <1>1, <3>1, <3>2
  <2>3. ASSUME UNCHANGED gave PROVE Once
    BY <2>3
  <2> QED
    BY <2>1, <2>2, <2>3 DEF InventoryNext, ReserveItem, ReserveItemFails, RollbackFails, AnswerReserve, ReserveDies,
       BeginConfirm, ConfirmReservation, HashExpires, ReaperReads, ReaperCredits, ReaperMarks, SetStock
<1> QED
  BY <1>2, Invariance, PTL DEF InventorySpec, GivesBackOnce

-----------------------------------------------------------------------------
(* Short rollbacks *)

\* The reaper has not touched anything that it is not still holding.
Marks == reaper.step = "mark" => \E s \in Skus : stray[s] > 0

Undisturbed == inventoryFaults = 0 /\ NoReaper

\* A call that is reserving two items at most, or that failed, has one item to
\* return, which its hash describes, or none.
Owing(r) ==
    /\ reserving[r] = "reserve" => undone[r] = 0
    /\ reserving[r] # "reserve" => done[r] <= 1
    /\ reserving[r] = "failed" => undone[r] = done[r]
    /\ undone[r] = done[r] => taken[r] = gave[r]
    /\ done[r] = 1 /\ undone[r] = 0 =>
          /\ hash[r].status = "RESERVED" /\ hash[r].qty = Items[r][1].qty
          /\ taken[r] = [gave[r] EXCEPT ![Items[r][1].sku] = @ + Items[r][1].qty]

Short == \A r \in Requests :
    Undisturbed /\ Len(Items[r]) <= 2 /\ reserving[r] \in {"reserve", "rollback", "failed"} => Owing(r)

\* What no step undoes: a fault counts for ever, and what the reaper took up it
\* credits before it lets go.
LEMMA Disturbing ==
    ASSUME Inv, Marks, [InventoryNext]_inventoryVars
    PROVE  Marks' /\ (Undisturbed' => Undisturbed /\ UNCHANGED <<reaper, inventoryFaults>>)
<1> USE DEF Inv
<1>1. stray \in [Skus -> Nat] /\ inventoryFaults \in Nat
  BY Numbers DEF Shape, InventoryTypeOK
<1>2. CASE \E r \in Requests : ReaperReads(r)
  BY <1>2 DEF ReaperReads, Marks, Undisturbed, NoReaper, Idle
<1>3. CASE ReaperCredits
  <2>1. reaper \in [step : {"credit", "mark"}, key : Requests, sku : Skus, qty : 1..MaxItemQty]
    BY <1>3 DEF ReaperCredits, Reaper, Shape, InventoryTypeOK, Idle
  <2>2. reaper.sku \in Skus /\ reaper.qty \in Nat \ {0}
    BY <2>1, Numbers
  <2>3. stray'[reaper.sku] > 0
    BY <1>1, <1>3, <2>2 DEF ReaperCredits
  <2>4. reaper'.step = "mark"
    BY <1>3, <2>1 DEF ReaperCredits, Reaper
  <2> QED
    BY <2>2, <2>3, <2>4 DEF Marks, Undisturbed, NoReaper, Idle
<1>4. CASE ReaperMarks
  <2>1. PICK s \in Skus : stray'[s] > 0
    BY <1>4 DEF ReaperMarks, Marks
  <2>2. ~ Undisturbed'
    BY <2>1 DEF Undisturbed, NoReaper
  <2> QED
    BY <1>4, <2>2 DEF ReaperMarks, Marks, Idle
<1>5. CASE UNCHANGED <<stray, reaper, inventoryFaults>>
  BY <1>5 DEF Marks, Undisturbed, NoReaper
<1>6. CASE UNCHANGED <<stray, reaper>> /\ InventoryFault
  BY <1>1, <1>6 DEF Marks, Undisturbed, NoReaper, InventoryFault
<1> QED
  BY <1>2, <1>3, <1>4, <1>5, <1>6 DEF InventoryNext, ReserveItem, ReserveItemFails, Rollback, RollbackFails,
     AnswerReserve, ReserveDies, Release, BeginConfirm, ConfirmReservation, HashExpires, SetStock, inventoryVars

\* Steps that leave what is owed alone.
LEMMA OwedKept ==
    ASSUME NEW r \in Requests, Owing(r), UNCHANGED <<reserving[r], done[r], undone[r], taken[r], gave[r], hash[r]>>
    PROVE  Owing(r)'
BY DEF Owing

\* Every step keeps what an answer of too little stock stands for.
LEMMA ShortStep == Inv /\ Marks /\ Short /\ [InventoryNext]_inventoryVars => Short'
<1> SUFFICES ASSUME Inv, Marks, Short, [InventoryNext]_inventoryVars, NEW r \in Requests,
                    Undisturbed', Len(Items[r]) <= 2, reserving'[r] \in {"reserve", "rollback", "failed"}
             PROVE  Owing(r)'
  BY DEF Short
<1> USE DEF Inv
<1>0. Undisturbed /\ UNCHANGED <<reaper, inventoryFaults>>
  BY Disturbing
<1>1. /\ inventoryFaults \in Nat /\ done[r] \in Nat /\ undone[r] \in Nat
      /\ undone[r] <= done[r] /\ done[r] <= Len(Items[r]) /\ Len(Items[r]) \in Nat
  BY Numbers DEF Shape, InventoryTypeOK
<1>2. /\ taken \in [Requests -> [Skus -> Nat]] /\ gave \in [Requests -> [Skus -> Nat]]
      /\ hash \in [Requests -> Hashes]
      /\ reserving \in [Requests -> {"reserve", "rollback", "reserved", "failed", "dead"}]
      /\ done \in [Requests -> Nat] /\ undone \in [Requests -> Nat]
  BY DEF Shape, InventoryTypeOK
<1>3. ~ InventoryFault
  BY <1>0, <1>1 DEF InventoryFault
<1>4. reserving[r] \in {"reserve", "rollback", "failed"} => Owing(r)
  BY <1>0 DEF Short
<1>5. ASSUME NEW q \in Requests \ {r},
             \/ ReserveItem(q) \/ Rollback(q) \/ AnswerReserve(q) \/ Release(q) \/ BeginConfirm(q)
             \/ ConfirmReservation(q) \/ HashExpires(q)
      PROVE  Owing(r)'
  <2>1. UNCHANGED <<reserving[r], done[r], undone[r], taken[r]>>
    BY <1>2, <1>5 DEF ReserveItem, ReserveScript, Rollback, AnswerReserve, Release, BeginConfirm,
       ConfirmReservation, HashExpires, ReserveGoto
  <2>2. UNCHANGED <<gave[r], hash[r]>>
    BY <1>2, <1>5 DEF ReserveItem, ReserveScript, Rollback, AnswerReserve, Release, BeginConfirm,
       ConfirmReservation, HashExpires, ReleaseScript
  <2> QED
    BY <1>4, <2>1, <2>2, OwedKept
<1>6. CASE ReserveItem(r)
  <2>1. Owing(r) /\ undone[r] = 0 /\ UNCHANGED <<undone[r], gave>>
    BY <1>4, <1>6 DEF ReserveItem, Owing, ReserveGoto
  <2>2. CASE ReserveScript(r, NextItem(r)) /\ done' = [done EXCEPT ![r] = @ + 1] /\ UNCHANGED reserving
    <3>1. done'[r] = done[r] + 1 /\ reserving'[r] = "reserve"
      BY <1>2, <1>6, <2>2 DEF ReserveItem
    <3>2. CASE done[r] = 0
      <4>1. NextItem(r) = Items[r][1] /\ Items[r][1].sku \in Skus /\ Items[r][1].qty \in Nat
        BY <1>1, <1>6, <3>2, ItemTypes, Numbers DEF NextItem, ReserveItem
      <4>2. taken'[r] = [taken[r] EXCEPT ![Items[r][1].sku] = @ + Items[r][1].qty]
        BY <1>2, <2>2, <4>1 DEF ReserveScript
      <4>3. taken[r] = gave[r]
        BY <2>1, <3>2 DEF Owing
      <4>4. hash'[r].status = "RESERVED" /\ hash'[r].qty = Items[r][1].qty
        BY <1>6, <2>2, <4>1, ScriptReserves DEF ReserveItem
      <4> QED
        BY <2>1, <3>1, <3>2, <4>2, <4>3, <4>4 DEF Owing
    <3>3. CASE done[r] >= 1
      BY <1>1, <2>1, <3>1, <3>3 DEF Owing
    <3> QED
      BY <1>1, <3>2, <3>3
  <2>3. CASE ReserveGoto(r, "reserve", "rollback") /\ UNCHANGED <<taken, hash, done>>
    <3>1. done[r] <= 1 /\ reserving'[r] = "rollback"
      BY <1>1, <1>2, <1>6, <2>3 DEF ReserveItem, ReserveGoto
    <3> QED
      BY <2>1, <2>3, <3>1 DEF Owing
  <2> QED
    BY <1>6, <2>2, <2>3 DEF ReserveItem
<1>7. CASE Rollback(r)
  <2>1. Owing(r) /\ done[r] = 1 /\ undone[r] = 0
    BY <1>1, <1>4, <1>7 DEF Rollback, Owing
  <2>2. undone'[r] = 1 /\ reserving'[r] = "rollback" /\ UNCHANGED <<done[r], taken[r]>>
    BY <1>2, <1>7, <2>1 DEF Rollback
  <2>3. Items[r][1].sku \in Skus /\ Items[r][1].qty \in Nat
    BY <1>1, <2>1, ItemTypes, Numbers
  <2>4. hash[r].status = "RESERVED" /\ hash[r].qty = Items[r][1].qty
    BY <2>1 DEF Owing
  <2>5. gave' = [gave EXCEPT ![r][Items[r][1].sku] = @ + Items[r][1].qty]
    BY <1>7, <2>1, <2>4 DEF Rollback, ReleaseScript
  <2>6. gave'[r] = [gave[r] EXCEPT ![Items[r][1].sku] = @ + Items[r][1].qty]
    BY <1>2, <2>3, <2>5
  <2>7. taken[r] = [gave[r] EXCEPT ![Items[r][1].sku] = @ + Items[r][1].qty]
    BY <2>1 DEF Owing
  <2> QED
    BY <2>1, <2>2, <2>6, <2>7 DEF Owing
<1>8. CASE AnswerReserve(r)
  <2>1. reserving[r] = "rollback" /\ reserving'[r] = "failed" /\ undone[r] = done[r]
    BY <1>1, <1>2, <1>8 DEF AnswerReserve, ReserveGoto
  <2> QED
    BY <1>4, <1>8, <2>1 DEF AnswerReserve, Owing
<1>9. CASE Release(r) \/ BeginConfirm(r) \/ ConfirmReservation(r)
  BY <1>9 DEF Release, BeginConfirm, ConfirmReservation, Answered
<1>10. CASE HashExpires(r)
  <2>1. reserving[r] = "failed" /\ undone[r] = done[r]
    BY <1>4, <1>10 DEF HashExpires, Owing
  <2> QED
    BY <1>4, <1>10, <2>1 DEF HashExpires, Owing
<1>11. CASE UNCHANGED <<reserving, done, undone, taken, gave, hash>>
  BY <1>4, <1>11, OwedKept
<1>12. CASE ReaperReads(r) \/ ReaperCredits \/ ReaperMarks
  BY <1>0, <1>12 DEF ReaperReads, ReaperCredits, ReaperMarks, Reaper, Undisturbed, NoReaper, Idle
<1> QED
  BY <1>3, <1>5, <1>6, <1>7, <1>8, <1>9, <1>10, <1>11, <1>12 DEF InventoryNext, ReserveItemFails, RollbackFails, ReserveDies,
     ReaperReads, SetStock, inventoryVars

\* A reserve of at most two items that failed has given back exactly what it took.
THEOREM ShortRollbacks == InventorySpec => []ShortRollbackExact
<1>1. InventoryInit => Marks /\ Short
  <2> SUFFICES ASSUME InventoryInit PROVE Marks /\ Short
    OBVIOUS
  <2> QED
    BY DEF InventoryInit, Marks, Short, Owing, Idle
<1>2. Inv /\ Marks /\ Short /\ [InventoryNext]_inventoryVars => Marks' /\ Short'
  BY Disturbing, ShortStep
<1>3. Short => ShortRollbackExact
  BY DEF Short, Owing, Undisturbed, ShortRollbackExact
<1> QED
  BY <1>1, <1>2, <1>3, Invariance, PTL DEF InventorySpec

-----------------------------------------------------------------------------
(* The ledger of a SKU that is bought alone *)

\* A buyer of the single sku has that one item.
LEMMA BuyerTypes ==
    ASSUME NEW r \in SingleBuyers
    PROVE  /\ r \in Requests /\ Len(Items[r]) = 1
           /\ Items[r][1].sku = Single /\ Items[r][1].qty \in 1..MaxItemQty
<1>1. r \in Requests /\ Len(Items[r]) = 1
  BY SingleAssumption DEF SingleBuyers
<1>2. PICK i \in DOMAIN Items[r] : Items[r][i].sku = Single
  BY DEF SingleBuyers
<1>3. i = 1
  BY <1>1, <1>2, Numbers
<1> QED
  BY <1>1, <1>2, <1>3, ItemTypes

\* Whoever asks for the SKU is a buyer.
LEMMA OnlyBuyers ==
    ASSUME NEW r \in Requests, NEW i \in 1..Len(Items[r]), Items[r][i].sku = Single
    PROVE  r \in SingleBuyers /\ i = 1
<1>1. r \in SingleBuyers
  BY Numbers DEF SingleBuyers
<1> QED
  BY <1>1, BuyerTypes

\* Ledger!Init holds in the initial states.
LEMMA LedgerInit == InventoryInit => SkuLedger!Init
<1> SUFFICES ASSUME InventoryInit PROVE SkuLedger!Init
  OBVIOUS
<1>1. Single \in Skus
  BY SingleAssumption
<1>2. \A r \in SingleBuyers : taken[r][Single] = 0
  BY <1>1 DEF InventoryInit, SingleBuyers
<1> QED
  BY <1>1, <1>2 DEF InventoryInit, SkuLedger!Init

\* The reserve script takes a claim of the ledger, or units of another SKU.
LEMMA ReserveIsTake ==
    ASSUME Inv, NEW r \in Requests, reserving[r] = "reserve", done[r] < Len(Items[r]),
           ReserveScript(r, NextItem(r)), UNCHANGED gave
    PROVE  SkuLedger!Next \/ UNCHANGED SkuLedger!vars
<1> DEFINE item == NextItem(r)
<1>1. done[r] + 1 \in 1..Len(Items[r])
  BY Numbers DEF Inv, Shape
<1>2. item.sku \in Skus /\ item.qty \in Nat \ {0} /\ item = Items[r][done[r] + 1]
  BY <1>1, ItemTypes, Numbers DEF NextItem
<1>3. /\ item.qty <= stock[item.sku] /\ stock[item.sku] \in Int
      /\ stock' = [stock EXCEPT ![item.sku] = @ - item.qty]
      /\ taken' = [taken EXCEPT ![r][item.sku] = @ + item.qty]
  BY <1>2 DEF ReserveScript, Inv, Shape, InventoryTypeOK
<1> HIDE DEF item
<1>4. Single \in Skus
  BY SingleAssumption
<1>5. stock \in [Skus -> Int] /\ taken \in [Requests -> [Skus -> Nat]]
  BY DEF Inv, Shape, InventoryTypeOK
<1>6. CASE item.sku # Single
  <2>1. stock'[Single] = stock[Single]
    BY <1>2, <1>3, <1>4, <1>5, <1>6
  <2>2. \A q \in SingleBuyers : taken'[q][Single] = taken[q][Single]
    BY <1>2, <1>3, <1>4, <1>5, <1>6, BuyerTypes
  <2> QED
    BY <2>1, <2>2 DEF SkuLedger!vars
<1>7. CASE item.sku = Single
  <2>1. r \in SingleBuyers /\ done[r] = 0 /\ item = Items[r][1]
    <3>1. r \in SingleBuyers /\ done[r] + 1 = 1
      BY <1>1, <1>2, <1>7, OnlyBuyers
    <3>2. done[r] \in Nat
      BY DEF Inv, Shape
    <3> QED
      BY <1>2, <3>1, <3>2
  <2>2. taken[r][Single] = 0 /\ gave[r][Single] = 0
    BY <1>4, <2>1, BuyerTypes DEF Inv, Alone, Unspent, GaveNothing
  <2>3. stock'[Single] = stock[Single] - item.qty /\ item.qty <= stock[Single]
    BY <1>2, <1>3, <1>4, <1>5, <1>7
  <2>4. taken'[r][Single] = item.qty /\ \A q \in SingleBuyers \ {r} : taken'[q][Single] = taken[q][Single]
    BY <1>2, <1>3, <1>4, <1>5, <1>7, <2>2, BuyerTypes
  <2>5. SkuLedger!Take(r)
    BY <1>2, <2>1, <2>2, <2>3, <2>4 DEF SkuLedger!Take
  <2> QED
    BY <2>1, <2>5 DEF SkuLedger!Next
<1> QED
  BY <1>6, <1>7

\* A release gives a claim back, whole, or touches another SKU, or nothing.
LEMMA ReleaseIsGiveBack ==
    ASSUME Inv, NEW r \in Requests, NEW i \in 1..Len(Items[r]),
           ReleaseScript(r, Items[r][i].sku), UNCHANGED taken
    PROVE  SkuLedger!Next \/ UNCHANGED SkuLedger!vars
<1> DEFINE sku == Items[r][i].sku
<1>1. sku \in Skus /\ Single \in Skus
  BY ItemTypes, SingleAssumption
<1>2. stock \in [Skus -> Int] /\ gave \in [Requests -> [Skus -> Nat]] /\ taken \in [Requests -> [Skus -> Nat]]
  BY DEF Inv, Shape, InventoryTypeOK
<1>3. CASE UNCHANGED <<stock, gave>>
  BY <1>3 DEF SkuLedger!vars
<1>4. CASE /\ hash[r].status = "RESERVED" /\ hash[r] \in Full
           /\ stock' = [stock EXCEPT ![sku] = @ + hash[r].qty]
           /\ gave' = [gave EXCEPT ![r][sku] = @ + hash[r].qty]
  <2>1. hash[r].qty \in Nat \ {0}
    BY <1>4, Numbers DEF Full
  <2>2. CASE sku # Single
    <3>1. stock'[Single] = stock[Single]
      BY <1>1, <1>2, <1>4, <2>2
    <3>2. \A q \in SingleBuyers : gave'[q][Single] = gave[q][Single]
      BY <1>1, <1>2, <1>4, <2>1, <2>2, BuyerTypes
    <3> QED
      BY <3>1, <3>2 DEF SkuLedger!vars
  <2>3. CASE sku = Single
    <3>1. r \in SingleBuyers
      BY <2>3, OnlyBuyers
    <3>2. hash[r].qty = Items[r][1].qty /\ taken[r][Single] > 0
      BY <1>4, <3>1, BuyerTypes DEF Inv, Alone
    <3>3. gave[r][Single] = 0
      BY <1>1, <1>4 DEF Inv, Unspent, GaveNothing
    <3>4. stock'[Single] = stock[Single] + Items[r][1].qty
      BY <1>1, <1>2, <1>4, <2>3, <3>2
    <3>5. gave'[r][Single] # 0 /\ \A q \in SingleBuyers \ {r} : gave'[q][Single] = gave[q][Single]
      BY <1>1, <1>2, <1>4, <2>1, <2>3, <3>3, BuyerTypes
    <3>6. taken[r][Single] # 0
      BY <1>1, <1>2, <3>1, <3>2
    <3>7. SkuLedger!GiveBack(r)
      BY <3>1, <3>3, <3>4, <3>5, <3>6 DEF SkuLedger!GiveBack
    <3> QED
      BY <3>1, <3>7 DEF SkuLedger!Next
  <2> QED
    BY <2>2, <2>3
<1> HIDE DEF sku
<1> QED
  BY <1>1, <1>3, <1>4, ScriptReleases DEF sku

\* Every step is a step of the ledger, or leaves it unchanged.
LEMMA LedgerStep == Inv /\ [InventoryNext]_inventoryVars => [SkuLedger!Next]_(SkuLedger!vars)
<1> SUFFICES ASSUME Inv, [InventoryNext]_inventoryVars PROVE SkuLedger!Next \/ UNCHANGED SkuLedger!vars
  OBVIOUS
<1>1. ASSUME UNCHANGED <<stock, taken, gave>> PROVE UNCHANGED SkuLedger!vars
  BY <1>1 DEF SkuLedger!vars
<1>2. ASSUME NEW r \in Requests, ReserveItem(r) \/ ReserveItemFails(r)
      PROVE  SkuLedger!Next \/ UNCHANGED SkuLedger!vars
  BY <1>1, <1>2, ReserveIsTake DEF ReserveItem, ReserveItemFails, ReserveGoto
<1>3. ASSUME NEW r \in Requests, Rollback(r) PROVE SkuLedger!Next \/ UNCHANGED SkuLedger!vars
  <2>1. undone[r] + 1 \in 1..Len(Items[r])
    BY <1>3, Numbers DEF Rollback, Inv, Shape, InventoryTypeOK
  <2> QED
    BY <1>3, <2>1, ReleaseIsGiveBack DEF Rollback
<1>4. ASSUME NEW r \in Requests, Release(r) PROVE SkuLedger!Next \/ UNCHANGED SkuLedger!vars
  <2>1. PICK i \in 1..Len(Items[r]) : ReleaseScript(r, Items[r][i].sku)
    BY <1>4, Numbers DEF Release
  <2> QED
    BY <1>4, <2>1, ReleaseIsGiveBack DEF Release
<1>5. ASSUME NEW w \in Overwrites, SetStock(w[1], w[2]) PROVE UNCHANGED SkuLedger!vars
  <2>1. w[1] # Single
    BY SingleAssumption
  <2>2. stock'[Single] = stock[Single]
    BY <1>5, <2>1, SingleAssumption DEF SetStock, Inv, Shape, InventoryTypeOK
  <2> QED
    BY <1>5, <2>2 DEF SetStock, SkuLedger!vars
<1>6. ASSUME NEW r \in Requests,
             \/ RollbackFails(r) \/ AnswerReserve(r) \/ ReserveDies(r) \/ BeginConfirm(r)
             \/ ConfirmReservation(r) \/ HashExpires(r) \/ ReaperReads(r)
      PROVE  UNCHANGED SkuLedger!vars
  BY <1>1, <1>6 DEF RollbackFails, AnswerReserve, ReserveDies, BeginConfirm, ConfirmReservation, HashExpires, ReaperReads
<1>7. ASSUME ReaperCredits \/ ReaperMarks \/ UNCHANGED inventoryVars PROVE UNCHANGED SkuLedger!vars
  BY <1>1, <1>7 DEF ReaperCredits, ReaperMarks, inventoryVars
<1> QED
  BY <1>2, <1>3, <1>4, <1>5, <1>6, <1>7 DEF InventoryNext

\* For a SKU that is bought alone the service implements the ledger.
THEOREM Refinement == InventorySpec => SkuImplementsLedger
<1>1. InventoryInit => SkuLedger!Init
  BY LedgerInit
<1>2. Inv /\ [InventoryNext]_inventoryVars => [SkuLedger!Next]_(SkuLedger!vars)
  BY LedgerStep
<1> QED
  BY <1>1, <1>2, Invariance, PTL DEF InventorySpec, SkuImplementsLedger, SkuLedger!Spec

LP == INSTANCE StockLedgerProofs WITH
    Claims <- SingleBuyers, Size <- [r \in SingleBuyers |-> Items[r][1].qty],
    MaxSize <- MaxItemQty, Initial <- LoadedStock[Single], available <- stock[Single],
    claim <- [r \in SingleBuyers |-> IF taken[r][Single] = 0 THEN "none"
                                       ELSE IF gave[r][Single] = 0 THEN "held" ELSE "returned"]

\* Such a SKU is never oversold and none of its units is lost: its stock and the
\* units taken and not given back always add up to what SetStock loaded.
THEOREM SingleConserved == InventorySpec => []SkuLedger!Conserved
<1>1. LP!Spec => []LP!Conserved
  <2>1. IsFiniteSet(Requests) /\ SingleBuyers \subseteq Requests
    BY InventoryAssumption DEF SingleBuyers
  <2>2. IsFiniteSet(SingleBuyers)
    BY <2>1, FS_Subset
  <2>3. [r \in SingleBuyers |-> Items[r][1].qty] \in [SingleBuyers -> 1..MaxItemQty]
    BY BuyerTypes
  <2>4. MaxItemQty \in Nat /\ LoadedStock[Single] \in Nat
    BY InventoryAssumption, SingleAssumption
  <2>5. LP!Legal
    BY <2>2, <2>3, <2>4 DEF LP!Legal, LP!IsFiniteSet, IsFiniteSet
  <2> QED
    BY <2>5, LP!Conservation, PTL
<1>2. SkuLedger!Init => LP!Init
  BY DEF SkuLedger!Init, LP!Init
<1>3. [SkuLedger!Next]_(SkuLedger!vars) => [LP!Next]_(LP!vars)
  BY DEF SkuLedger!Next, SkuLedger!Take, SkuLedger!GiveBack, SkuLedger!vars,
         LP!Next, LP!Take, LP!GiveBack, LP!vars
<1>4. LP!Conserved => SkuLedger!Conserved
  BY DEF LP!Conserved, LP!Units, LP!Held, LP!Cardinality,
         SkuLedger!Conserved, SkuLedger!Units, SkuLedger!Held, SkuLedger!Cardinality
<1> QED
  BY <1>1, <1>2, <1>3, <1>4, Refinement, PTL DEF SkuImplementsLedger, SkuLedger!Spec, LP!Spec
=============================================================================
