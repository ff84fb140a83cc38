----------------------------- MODULE Inventory -----------------------------
(***************************************************************************)
(* services/inventory-service: stock of one hub, reserved, released and    *)
(* confirmed in Redis.  One HTTP reserve call makes one reservation, and   *)
(* reserves its items one script after the other under the same            *)
(* reservation hash, which remembers only the last item.  A script is      *)
(* atomic; Confirm, the reaper and the loop over the items are not.        *)
(* Commands may fail and processes may die, MaxInventoryFaults times.      *)
(***************************************************************************)
EXTENDS Integers, Sequences, FiniteSets

CONSTANTS
    Skus,
    Requests,           \* POST /reserve calls, one reservation id each
    Items,              \* Items[r]: the sequence of [sku, qty] of request r
    MaxItemQty,         \* max=50 of an item's quantity
    LoadedStock,        \* what SetStock loaded before the requests
    Overwrites,         \* bound: the <<sku, quantity>> an admin stores while requests run
    Confirmed,          \* bound: the requests whose client calls confirm
    Single,             \* a SKU that is only reserved alone
    MaxInventoryFaults  \* bound: failed commands and dead processes

ASSUME InventoryAssumption ==
    /\ IsFiniteSet(Skus) /\ IsFiniteSet(Requests)
    /\ MaxItemQty \in Nat \ {0}
    /\ Items \in [Requests -> Seq([sku : Skus, qty : 1..MaxItemQty])]
    /\ LoadedStock \in [Skus -> Nat]
    /\ Overwrites \subseteq Skus \X Nat /\ Confirmed \subseteq Requests
    /\ MaxInventoryFaults \in Nat

SingleBuyers == {r \in Requests : \E i \in DOMAIN Items[r] : Items[r][i].sku = Single}
ASSUME SingleAssumption ==
    Single \in Skus \ {w[1] : w \in Overwrites} /\ \A r \in SingleBuyers : Len(Items[r]) = 1

VARIABLES
    stock,              \* inv:stock:{hub}:{sku}
    stray,              \* inv:stock:reservation:{sku}, which no hub reads
    hash,               \* inv:reservation:{r}
    reserving,          \* what a reserve call does next
    done,               \* the number of its items that are reserved
    undone,             \* the number of items its rollback has gone through
    confirming,         \* requests whose Confirm has read the hash
    reaper,             \* the hash that the reaper has read, and its next step
    taken, gave,        \* history: the units of each SKU that r took and gave back
    inventoryFaults

inventoryVars ==
    <<stock, stray, hash, reserving, done, undone, confirming, reaper, taken, gave, inventoryFaults>>

Idle == [step |-> "idle"]
NoHash == [status |-> "absent"]
Hash(sku, qty) == [status |-> "RESERVED", sku |-> sku, qty |-> qty]
\* HSET on a hash that is gone makes one with the status alone.
SetStatus(h, s) == IF h = NoHash THEN [status |-> s] ELSE [h EXCEPT !.status = s]

InventoryInit ==
    /\ stock = LoadedStock
    /\ stray = [s \in Skus |-> 0]
    /\ hash = [r \in Requests |-> NoHash]
    /\ reserving = [r \in Requests |-> "reserve"]
    /\ done = [r \in Requests |-> 0]
    /\ undone = [r \in Requests |-> 0]
    /\ confirming = {}
    /\ reaper = Idle
    /\ taken = [r \in Requests |-> [s \in Skus |-> 0]]
    /\ gave = [r \in Requests |-> [s \in Skus |-> 0]]
    /\ inventoryFaults = 0

InventoryFault == inventoryFaults < MaxInventoryFaults /\ inventoryFaults' = inventoryFaults + 1
ReserveGoto(r, from, to) == reserving[r] = from /\ reserving' = [reserving EXCEPT ![r] = to]

-----------------------------------------------------------------------------
(* The two scripts *)

\* Mutant: the stock is not compared with the quantity.
ReserveScript_Unchecked(r, item) ==
    /\ stock' = [stock EXCEPT ![item.sku] = @ - item.qty]
    /\ taken' = [taken EXCEPT ![r][item.sku] = @ + item.qty]
    /\ hash' = [hash EXCEPT ![r] = Hash(item.sku, item.qty)]

ReserveScript(r, item) ==
    /\ stock[item.sku] >= item.qty
    /\ stock' = [stock EXCEPT ![item.sku] = @ - item.qty]
    /\ taken' = [taken EXCEPT ![r][item.sku] = @ + item.qty]
    /\ hash' = [hash EXCEPT ![r] = Hash(item.sku, item.qty)]

\* Mutant: a reservation that was released can be released again.
ReleaseScript_Repeated(r, sku) ==
    IF hash[r] # NoHash /\ hash[r].status \in {"RESERVED", "RELEASED"}
    THEN /\ stock' = [stock EXCEPT ![sku] = @ + hash[r].qty]
         /\ gave' = [gave EXCEPT ![r][sku] = @ + hash[r].qty]
         /\ hash' = [hash EXCEPT ![r] = SetStatus(@, "RELEASED")]
    ELSE UNCHANGED <<stock, gave, hash>>

\* The quantity comes from the hash, the SKU from the caller.
ReleaseScript(r, sku) ==
    IF hash[r].status = "RESERVED"
    THEN /\ stock' = [stock EXCEPT ![sku] = @ + hash[r].qty]
         /\ gave' = [gave EXCEPT ![r][sku] = @ + hash[r].qty]
         /\ hash' = [hash EXCEPT ![r] = SetStatus(@, "RELEASED")]
    ELSE UNCHANGED <<stock, gave, hash>>

-----------------------------------------------------------------------------
(* POST /reserve *)

NextItem(r) == Items[r][done[r] + 1]

ReserveItem(r) ==
    /\ reserving[r] = "reserve" /\ done[r] < Len(Items[r])
    /\ \/ /\ ReserveScript(r, NextItem(r))
          /\ done' = [done EXCEPT ![r] = @ + 1]
          /\ UNCHANGED reserving
       \/ /\ stock[NextItem(r).sku] < NextItem(r).qty
          /\ ReserveGoto(r, "reserve", "rollback")
          /\ UNCHANGED <<stock, taken, hash, done>>
    /\ UNCHANGED <<stray, undone, confirming, reaper, gave, inventoryFaults>>

\* The command fails, with or without effect: the items before it are rolled back.
ReserveItemFails(r) ==
    /\ InventoryFault
    /\ done[r] < Len(Items[r]) /\ ReserveGoto(r, "reserve", "rollback")
    /\ ReserveScript(r, NextItem(r)) \/ UNCHANGED <<stock, taken, hash>>
    /\ UNCHANGED <<stray, done, undone, confirming, reaper, gave>>

\* Mutant: the rollback includes the item that failed.
Rollback_Late(r) ==
    /\ reserving[r] = "rollback" /\ undone[r] <= done[r]
    /\ ReleaseScript(r, Items[r][undone[r] + 1].sku)
    /\ undone' = [undone EXCEPT ![r] = @ + 1]
    /\ UNCHANGED <<stray, reserving, done, confirming, reaper, taken, inventoryFaults>>

Rollback(r) ==
    /\ reserving[r] = "rollback" /\ undone[r] < done[r]
    /\ ReleaseScript(r, Items[r][undone[r] + 1].sku)
    /\ undone' = [undone EXCEPT ![r] = @ + 1]
    /\ UNCHANGED <<stray, reserving, done, confirming, reaper, taken, inventoryFaults>>

\* The error of a release is ignored by the rollback.
RollbackFails(r) ==
    /\ InventoryFault
    /\ reserving[r] = "rollback" /\ undone[r] < done[r]
    /\ undone' = [undone EXCEPT ![r] = @ + 1]
    /\ UNCHANGED <<stock, stray, taken, gave, hash, reserving, done, confirming, reaper>>

\* Mutant: the error is answered without a rollback.
AnswerReserve_NoRollback(r) ==
    /\ \/ ReserveGoto(r, "reserve", "reserved") /\ done[r] = Len(Items[r])
       \/ ReserveGoto(r, "rollback", "failed")
    /\ UNCHANGED <<stock, stray, hash, done, undone, confirming, reaper, taken, gave, inventoryFaults>>

AnswerReserve(r) ==
    /\ \/ ReserveGoto(r, "reserve", "reserved") /\ done[r] = Len(Items[r])
       \/ ReserveGoto(r, "rollback", "failed") /\ undone[r] >= done[r]
    /\ UNCHANGED <<stock, stray, hash, done, undone, confirming, reaper, taken, gave, inventoryFaults>>

ReserveDies(r) ==
    /\ InventoryFault
    /\ reserving[r] \in {"reserve", "rollback"} /\ reserving' = [reserving EXCEPT ![r] = "dead"]
    /\ UNCHANGED <<stock, stray, hash, done, undone, confirming, reaper, taken, gave>>

-----------------------------------------------------------------------------
(* POST /release and POST /confirm, for a reservation the client was given *)

Release(r) ==
    /\ reserving[r] = "reserved"
    /\ \E i \in DOMAIN Items[r] : ReleaseScript(r, Items[r][i].sku)
    /\ UNCHANGED <<stray, reserving, done, undone, confirming, reaper, taken, inventoryFaults>>

BeginConfirm(r) ==
    /\ r \in Confirmed /\ reserving[r] = "reserved" /\ hash[r] # NoHash
    /\ confirming' = confirming \cup {r}
    /\ UNCHANGED <<stock, stray, hash, reserving, done, undone, reaper, taken, gave, inventoryFaults>>

\* The status that was read is not looked at.
ConfirmReservation(r) ==
    /\ r \in confirming
    /\ confirming' = confirming \ {r}
    /\ hash' = [hash EXCEPT ![r] = SetStatus(@, "CONFIRMED")]
    /\ UNCHANGED <<stock, stray, reserving, done, undone, reaper, taken, gave, inventoryFaults>>

-----------------------------------------------------------------------------
(* Time and the admin *)

\* EXPIRE 15 minutes; a hash that Confirm made anew has no time to live.
HashExpires(r) ==
    /\ "sku" \in DOMAIN hash[r] /\ reserving[r] \notin {"reserve", "rollback"}
    /\ hash' = [hash EXCEPT ![r] = NoHash]
    /\ UNCHANGED <<stock, stray, reserving, done, undone, confirming, reaper, taken, gave, inventoryFaults>>

\* RunReaper: expires_at is counted in seconds and compared with milliseconds,
\* so every reserved hash it reads is overdue; the key it credits is made from
\* the second part of the hash's key, which is the word "reservation".
\* The scan handles one hash after the other.
Reaper(step, next) == reaper.step = step /\ reaper' = [reaper EXCEPT !.step = next]

ReaperReads(r) ==
    /\ reaper = Idle /\ hash[r].status = "RESERVED"
    /\ reaper' = [step |-> "credit", key |-> r, sku |-> hash[r].sku, qty |-> hash[r].qty]
    /\ UNCHANGED <<stock, stray, hash, reserving, done, undone, confirming, taken, gave, inventoryFaults>>

ReaperCredits ==
    /\ Reaper("credit", "mark")
    /\ stray' = [stray EXCEPT ![reaper.sku] = @ + reaper.qty]
    /\ UNCHANGED <<stock, hash, reserving, done, undone, confirming, taken, gave, inventoryFaults>>

ReaperMarks ==
    /\ reaper.step = "mark" /\ reaper' = Idle
    /\ hash' = [hash EXCEPT ![reaper.key] = SetStatus(@, "EXPIRED")]
    /\ UNCHANGED <<stock, stray, reserving, done, undone, confirming, taken, gave, inventoryFaults>>

\* POST /admin/stock overwrites the count, reservations or not.
SetStock(s, quantity) ==
    /\ stock' = [stock EXCEPT ![s] = quantity]
    /\ UNCHANGED <<stray, hash, reserving, done, undone, confirming, reaper, taken, gave, inventoryFaults>>

InventoryNext ==
    \/ \E r \in Requests :
          \/ ReserveItem(r) \/ ReserveItemFails(r) \/ Rollback(r) \/ RollbackFails(r)
          \/ AnswerReserve(r) \/ ReserveDies(r)
          \/ Release(r) \/ BeginConfirm(r) \/ ConfirmReservation(r)
          \/ HashExpires(r) \/ ReaperReads(r)
    \/ ReaperCredits \/ ReaperMarks
    \/ \E w \in Overwrites : SetStock(w[1], w[2])

InventorySpec == InventoryInit /\ [][InventoryNext]_inventoryVars

-----------------------------------------------------------------------------
(* Properties *)

Hashes == LET statuses == {"RESERVED", "RELEASED", "CONFIRMED", "EXPIRED"}
          IN  {NoHash} \cup [status : statuses]
              \cup [status : statuses, sku : Skus, qty : 1..MaxItemQty]

InventoryTypeOK ==
    /\ stock \in [Skus -> Int] /\ stray \in [Skus -> Nat]
    /\ hash \in [Requests -> Hashes]
    /\ reserving \in [Requests -> {"reserve", "rollback", "reserved", "failed", "dead"}]
    /\ \A r \in Requests : undone[r] \in 0..done[r] /\ done[r] \in 0..Len(Items[r])
    /\ confirming \subseteq Requests
    /\ reaper \in {Idle} \cup
          [step : {"credit", "mark"}, key : Requests, sku : Skus, qty : 1..MaxItemQty]
    /\ taken \in [Requests -> [Skus -> Nat]] /\ gave \in [Requests -> [Skus -> Nat]]
    /\ inventoryFaults \in 0..MaxInventoryFaults

SkuLedger == INSTANCE StockLedger WITH
    Claims <- SingleBuyers, Size <- [r \in SingleBuyers |-> Items[r][1].qty],
    MaxSize <- MaxItemQty, Initial <- LoadedStock[Single], available <- stock[Single],
    claim <- [r \in SingleBuyers |-> IF taken[r][Single] = 0 THEN "none"
                                       ELSE IF gave[r][Single] = 0 THEN "held" ELSE "returned"]

\* For a SKU that is reserved alone the service implements the ledger, through
\* failing commands, releases that race a confirm, the reaper and the time to
\* live: nothing is oversold and nothing comes back twice (redis.go:19-81).
SkuImplementsLedger == SkuLedger!Spec

\* Whatever its items, a reservation gives stock back at most once: the status
\* is tested and set in one script, and no other step makes it RESERVED again
\* (redis.go:74-79, 154-161, 190).
GivesBackOnce == [][\A r \in Requests :
    gave'[r] # gave[r] => \A s \in Skus : gave[r][s] = 0]_inventoryVars

\* The rollback of a reserve that failed on its first or second item is exact,
\* as long as no command fails and the reaper stays away: the one hash that the
\* items share then still describes the only item to return (service.go:38-47).
NoReaper == reaper = Idle /\ \A s \in Skus : stray[s] = 0
ShortRollbackExact == \A r \in Requests :
    reserving[r] = "failed" /\ Len(Items[r]) <= 2 /\ inventoryFaults = 0 /\ NoReaper
        => taken[r] = gave[r]

-----------------------------------------------------------------------------
(* What the documentation says and the code does not do *)

\* service.go:42 says of a reserve that fails: roll back previous reservations.
\* Without a failing command and without the reaper, no stock stays taken and
\* no SKU gets more than was taken from it.
RollbackExact == \A r \in Requests :
    reserving[r] = "failed" /\ inventoryFaults = 0 /\ NoReaper => taken[r] = gave[r]
=============================================================================
