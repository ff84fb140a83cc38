-------------------------- MODULE FlashSaleProofs --------------------------
(***************************************************************************)
(* FlashSaleCheckout for any number of calls, buckets, units, slots and    *)
(* failures.  The invariant Linked says which step of a call goes with     *)
(* which stock; from it every step of the handlers is a step of the ledger *)
(* (StockLedger) or none, and the ledger conserves stock.  Told, Answers   *)
(* and Locks say what callers were answered and who may hold the lock of a *)
(* key; the buckets and the slots add up by counting sets of units and of  *)
(* calls, one element for each.                                            *)
(***************************************************************************)
EXTENDS FlashSaleCheckout, FiniteSetTheorems, FunctionTheorems, TLAPS

\* A call has taken nothing before ReserveStock, holds a bucket's units and no
\* reservation yet at CreateReservation, and no reservation exists without them.
Before == {"idempotency", "readCached", "attestation", "rateLimit", "acquireSlot", "reserveStock"}
Linked == \A c \in Calls :
    /\ pc[c] \in Before => took[c] = NoBucket
    /\ pc[c] = "createReservation" => took[c] # NoBucket /\ reservation[c] = "none"
    /\ reservation[c] # "none" => took[c] # NoBucket

Inv == TypeOK /\ Linked

\* The probes of the script stay within the buckets.
LEMMA ProbeInRange ==
    ASSUME NEW c \in Calls, NEW i \in Buckets
    PROVE  Probe(c, i) \in Buckets
<1>1. DeviceOf[c] \in Devices /\ Primary[DeviceOf[c]] \in Nat
  BY BodyAssumption, StoreAssumption DEF Buckets
<1>2. Primary[DeviceOf[c]] + i \in Nat /\ NumBuckets \in Nat \ {0}
  BY <1>1, StoreAssumption DEF Buckets
<1> QED
  BY <1>2 DEF Probe, Buckets

\* Inv holds in the initial states.
LEMMA Initially == Init => Inv
<1> SUFFICES ASSUME Init PROVE Inv
  OBVIOUS
<1>1. InitBucket \in [Buckets -> Int]
  BY StoreAssumption DEF InitBucket, Buckets
<1>2. TypeOK
  BY <1>1, StoreAssumption, BoundAssumption DEF Init, TypeOK, Steps
<1>3. Linked
  BY DEF Init, Linked
<1> QED
  BY <1>2, <1>3 DEF Inv

-----------------------------------------------------------------------------
(* Types *)

\* Every response of Checkout is a response.
LEMMA ReplyTypes ==
    /\ \A status \in Statuses : Plain(status) \in Replies
    /\ \A c \in Calls : Completed(c) \in Replies
    /\ \A r \in Replies : [r EXCEPT !.status = "idempotency_conflict"] \in Replies
BY DEF Replies, Plain, Completed, Statuses

\* Taking and giving back stock keeps the counters integers.
LEMMA StockTypes ==
    ASSUME TypeOK, NEW c \in Calls
    PROVE  /\ TakeStock(c) => /\ total' \in Int /\ bucket' \in [Buckets -> Int]
                              /\ took' \in [Calls -> Buckets \cup {NoBucket}]
           /\ GiveBackStock(c) =>
                /\ total' \in Int /\ bucket' \in [Buckets -> Int]
                /\ reservation' \in [Calls -> {"none", "reserved", "released"}]
<1>1. QtyOf[c] \in Int
  BY BodyAssumption
<1>2. ASSUME TakeStock(c)
      PROVE  /\ total' \in Int /\ bucket' \in [Buckets -> Int]
             /\ took' \in [Calls -> Buckets \cup {NoBucket}]
  <2>1. PICK i \in Buckets : /\ took' = [took EXCEPT ![c] = Probe(c, i)]
                            /\ bucket' = [bucket EXCEPT ![Probe(c, i)] = @ - QtyOf[c]]
                            /\ total' = total - QtyOf[c]
    BY <1>2 DEF TakeStock
  <2>2. Probe(c, i) \in Buckets
    BY ProbeInRange
  <2> QED
    BY <1>1, <2>1, <2>2 DEF TypeOK
<1>3. ASSUME GiveBackStock(c)
      PROVE  /\ total' \in Int /\ bucket' \in [Buckets -> Int]
             /\ reservation' \in [Calls -> {"none", "reserved", "released"}]
  BY <1>1, <1>3 DEF TypeOK, GiveBackStock
<1> QED
  BY <1>2, <1>3

\* A fault stays within the bound on faults.
LEMMA FaultType == TypeOK /\ Fault => faults' \in 0..MaxFaults
BY BoundAssumption DEF TypeOK, Fault

\* Where the code goes and what it answers after a failed command.
LEMMA FailsType ==
    ASSUME TypeOK, NEW c \in Calls, Fails(c, pc[c])
    PROVE  pc' \in [Calls -> Steps] /\ reply' \in [Calls -> Replies \cup {NoReply}]
BY ReplyTypes DEF TypeOK, Fails, Goto, Respond, Steps, Statuses

\* Every step keeps TypeOK.
LEMMA TypeStep == Inv /\ [Next]_vars => TypeOK'
<1> SUFFICES ASSUME Inv, [Next]_vars PROVE TypeOK'
  OBVIOUS
<1> USE DEF Inv
<1> USE ReplyTypes, BodyAssumption
<1>1. ASSUME NEW c \in Calls, CheckIdempotency(c) PROVE TypeOK'
  BY <1>1 DEF TypeOK, CheckIdempotency, Goto, Respond, Steps, Statuses, redis
<1>2. ASSUME NEW c \in Calls, ReadCached(c) PROVE TypeOK'
  BY <1>2 DEF TypeOK, ReadCached, Goto, Respond, Steps, Statuses, redis
<1>3. ASSUME NEW c \in Calls, VerifyAttestation(c) PROVE TypeOK'
  BY <1>3 DEF TypeOK, VerifyAttestation, Goto, Respond, Steps, Statuses, redis
<1>4. ASSUME NEW c \in Calls, CheckRateLimit(c) PROVE TypeOK'
  BY <1>4 DEF TypeOK, CheckRateLimit, Goto, Respond, Steps, Statuses, redis
<1>5. ASSUME NEW c \in Calls, AcquireSlot(c) PROVE TypeOK'
  BY <1>5 DEF TypeOK, AcquireSlot, Goto, Respond, Steps, Statuses, redis, TakeSlot
<1>6. ASSUME NEW c \in Calls, ReserveStock(c) PROVE TypeOK'
  BY <1>6, StockTypes DEF TypeOK, ReserveStock, Goto, Respond, Steps, Statuses, redis
<1>7. ASSUME NEW c \in Calls, CreateReservation(c) PROVE TypeOK'
  BY <1>7 DEF TypeOK, CreateReservation, Goto, Respond, Steps, Statuses, redis
<1>8. ASSUME NEW c \in Calls, ReleaseSlot(c) PROVE TypeOK'
  BY <1>8 DEF TypeOK, ReleaseSlot, Goto, Respond, Steps, Statuses, redis, DropSlot
<1>9. ASSUME NEW c \in Calls, JoinWaitingRoom(c) PROVE TypeOK'
  BY <1>9 DEF TypeOK, JoinWaitingRoom, Goto, Respond, Steps, Statuses, redis
<1>10. ASSUME NEW c \in Calls, CacheResult(c) PROVE TypeOK'
  BY <1>10 DEF TypeOK, CacheResult, Goto, Respond, Steps, Statuses, redis
<1>11. ASSUME NEW c \in Calls, CommandFails(c) PROVE TypeOK'
  BY <1>11, FailsType, FaultType DEF TypeOK, CommandFails, redis
<1>12. ASSUME NEW c \in Calls, AnswerLost(c) PROVE TypeOK'
  BY <1>12, StockTypes, FailsType, FaultType DEF TypeOK, AnswerLost, TakeSlot
<1>13. ASSUME NEW c \in Calls, Dies(c) PROVE TypeOK'
  BY <1>13, FaultType DEF TypeOK, Dies, Steps, redis
<1>14. ASSUME NEW r \in Returns, NEW c \in Calls, ReleaseReservation(r, c) PROVE TypeOK'
  BY <1>14, StockTypes DEF TypeOK, ReleaseReservation
<1>15. ASSUME NEW r \in Returns, NEW c \in Calls, ReleaseFails(r, c) PROVE TypeOK'
  BY <1>15, StockTypes, FaultType DEF TypeOK, ReleaseFails
<1>16. ASSUME NEW r \in Returns, ReleaseSlotOfReservation(r) PROVE TypeOK'
  BY <1>16 DEF TypeOK, ReleaseSlotOfReservation, DropSlot
<1>17. ASSUME NEW k \in Keys, LockExpires(k) PROVE TypeOK'
  BY <1>17, BoundAssumption DEF TypeOK, LockExpires
<1>18. ASSUME NEW k \in Keys, ResultExpires(k) PROVE TypeOK'
  BY <1>18 DEF TypeOK, ResultExpires
<1>19. ASSUME NEW u \in Users, SessionExpires(u) PROVE TypeOK'
  BY <1>19 DEF TypeOK, SessionExpires
<1>20. CASE Finished \/ UNCHANGED vars
  BY <1>20 DEF TypeOK, Finished, vars, redis
<1> QED
  BY <1>1, <1>2, <1>3, <1>4, <1>5, <1>6, <1>7, <1>8, <1>9, <1>10, <1>11, <1>12, <1>13,
     <1>14, <1>15, <1>16, <1>17, <1>18, <1>19, <1>20 DEF Next, Checkout

-----------------------------------------------------------------------------
(* The inductive invariant *)

\* Every step keeps Linked.
LEMMA LinkedStep == Inv /\ [Next]_vars => Linked'
<1> SUFFICES ASSUME Inv, [Next]_vars PROVE Linked'
  OBVIOUS
<1> USE DEF Inv, TypeOK, Linked, Before
<1>1. ASSUME NEW c \in Calls, CheckIdempotency(c) PROVE Linked'
  BY <1>1 DEF CheckIdempotency, Goto, redis
<1>2. ASSUME NEW c \in Calls, ReadCached(c) PROVE Linked'
  BY <1>2 DEF ReadCached, Goto, redis
<1>3. ASSUME NEW c \in Calls, VerifyAttestation(c) PROVE Linked'
  BY <1>3 DEF VerifyAttestation, Goto, redis
<1>4. ASSUME NEW c \in Calls, CheckRateLimit(c) PROVE Linked'
  BY <1>4 DEF CheckRateLimit, Goto, redis
<1>5. ASSUME NEW c \in Calls, AcquireSlot(c) PROVE Linked'
  BY <1>5 DEF AcquireSlot, Goto, redis
<1>6. ASSUME NEW c \in Calls, ReserveStock(c) PROVE Linked'
  <2>1. CASE TakeStock(c)
    <3>1. PICK i \in Buckets : took' = [took EXCEPT ![c] = Probe(c, i)]
      BY <2>1 DEF TakeStock
    <3>2. Probe(c, i) # NoBucket
      BY ProbeInRange, StoreAssumption
    <3> QED
      BY <1>6, <3>1, <3>2 DEF ReserveStock, Goto
  <2>2. CASE UNCHANGED took /\ Goto(c, "reserveStock", "releaseSlot")
    BY <1>6, <2>2 DEF ReserveStock, Goto
  <2> QED
    BY <1>6, <2>1, <2>2 DEF ReserveStock
<1>7. ASSUME NEW c \in Calls, CreateReservation(c) PROVE Linked'
  BY <1>7 DEF CreateReservation, Goto
<1>8. ASSUME NEW c \in Calls, ReleaseSlot(c) PROVE Linked'
  BY <1>8 DEF ReleaseSlot, Goto
<1>9. ASSUME NEW c \in Calls, JoinWaitingRoom(c) PROVE Linked'
  BY <1>9 DEF JoinWaitingRoom, Goto
<1>10. ASSUME NEW c \in Calls, CacheResult(c) PROVE Linked'
  BY <1>10 DEF CacheResult, Goto
<1>11. ASSUME NEW c \in Calls, CommandFails(c) PROVE Linked'
  BY <1>11 DEF CommandFails, Fails, Goto, redis
<1>12. ASSUME NEW c \in Calls, AnswerLost(c) PROVE Linked'
  <2>1. CASE TakeStock(c) /\ pc[c] = "reserveStock"
    <3>1. PICK i \in Buckets : took' = [took EXCEPT ![c] = Probe(c, i)]
      BY <2>1 DEF TakeStock
    <3>2. Probe(c, i) # NoBucket
      BY ProbeInRange, StoreAssumption
    <3>3. pc' = [pc EXCEPT ![c] = "releaseSlotAndFail"]
      BY <1>12, <2>1 DEF AnswerLost, Fails, Goto
    <3> QED
      BY <1>12, <3>1, <3>2, <3>3 DEF AnswerLost
  <2>2. CASE UNCHANGED took /\ pc' = [pc EXCEPT ![c] = "done"]
    BY <1>12, <2>2 DEF AnswerLost
  <2> QED
    BY <1>12, <2>1, <2>2 DEF AnswerLost, Fails, Goto
<1>13. ASSUME NEW c \in Calls, Dies(c) PROVE Linked'
  BY <1>13 DEF Dies, redis
<1>14. ASSUME NEW r \in Returns, NEW c \in Calls, ReleaseReservation(r, c) PROVE Linked'
  BY <1>14 DEF ReleaseReservation, GiveBackStock
<1>15. ASSUME NEW r \in Returns, NEW c \in Calls, ReleaseFails(r, c) PROVE Linked'
  <2>1. CASE pc[c] = "done" /\ GiveBackStock(c)
    BY <1>15, <2>1 DEF ReleaseFails, GiveBackStock
  <2>2. CASE UNCHANGED reservation
    BY <1>15, <2>2 DEF ReleaseFails
  <2> QED
    BY <1>15, <2>1, <2>2 DEF ReleaseFails
<1>16. ASSUME NEW r \in Returns, ReleaseSlotOfReservation(r) PROVE Linked'
  BY <1>16 DEF ReleaseSlotOfReservation
<1>17. ASSUME NEW k \in Keys, LockExpires(k) \/ ResultExpires(k) PROVE Linked'
  BY <1>17 DEF LockExpires, ResultExpires
<1>18. ASSUME NEW u \in Users, SessionExpires(u) PROVE Linked'
  BY <1>18 DEF SessionExpires
<1>19. CASE Finished \/ UNCHANGED vars
  BY <1>19 DEF Finished, vars, redis
<1> QED
  BY <1>1, <1>2, <1>3, <1>4, <1>5, <1>6, <1>7, <1>8, <1>9, <1>10, <1>11, <1>12, <1>13,
     <1>14, <1>15, <1>16, <1>17, <1>18, <1>19 DEF Next, Checkout

\* The invariant of FlashSaleCheckout, for every value of its constants.
THEOREM Invariance == Spec => []Inv
<1>1. Init => Inv
  BY Initially
<1>2. Inv /\ [Next]_vars => Inv'
  BY TypeStep, LinkedStep DEF Inv
<1> QED
  BY <1>1, <1>2, PTL DEF Spec

\* The model's variables keep their types.
THEOREM TypeCorrect == Spec => []TypeOK
BY Invariance, PTL DEF Inv

-----------------------------------------------------------------------------
(* The handlers implement the ledger *)

\* The script that takes stock, run by a call that holds none, is the ledger's Take.
LEMMA TakeIsTake ==
    ASSUME Inv, NEW c \in Calls, took[c] = NoBucket, TakeStock(c), UNCHANGED reservation
    PROVE  Ledger!Take(c)
<1>1. PICK i \in Buckets : took' = [took EXCEPT ![c] = Probe(c, i)]
  BY DEF TakeStock
<1>2. Probe(c, i) # NoBucket
  BY ProbeInRange, StoreAssumption
<1>3. reservation[c] = "none"
  BY DEF Inv, TypeOK, Linked
<1>4. QtyOf[c] <= total /\ total' = total - QtyOf[c]
  BY BodyAssumption DEF TakeStock, Inv, TypeOK
<1> QED
  BY <1>1, <1>2, <1>3, <1>4 DEF Inv, TypeOK, Ledger!Take

\* The script that gives stock back is the ledger's GiveBack, or nothing when the
\* reservation was released before.
LEMMA GiveBackIsGiveBack ==
    ASSUME Inv, NEW c \in Calls, GiveBackStock(c), UNCHANGED took
    PROVE  Ledger!GiveBack(c) \/ UNCHANGED Ledger!vars
<1>1. CASE reservation[c] = "reserved" /\ reservation' = [reservation EXCEPT ![c] = "released"]
           /\ total' = total + QtyOf[c]
  BY <1>1 DEF Inv, TypeOK, Linked, Ledger!GiveBack
<1>2. CASE UNCHANGED <<reservation, total>>
  BY <1>2 DEF Ledger!vars
<1> QED
  BY <1>1, <1>2 DEF GiveBackStock

\* Ledger!Init holds in the initial states.
LEMMA LedgerInit == Init => Ledger!Init
BY DEF Init, Ledger!Init

\* Every step takes one claim, gives one back, or does not touch the ledger.
LEMMA LedgerStep == Inv /\ [Next]_vars => [Ledger!Next]_(Ledger!vars)
<1> SUFFICES ASSUME Inv, [Next]_vars PROVE Ledger!Next \/ UNCHANGED Ledger!vars
  OBVIOUS
<1>1. ASSUME UNCHANGED <<total, took, reservation>> PROVE UNCHANGED Ledger!vars
  BY <1>1 DEF Ledger!vars
<1>2. ASSUME NEW c \in Calls, ReserveStock(c) PROVE Ledger!Next \/ UNCHANGED Ledger!vars
  <2>1. took[c] = NoBucket /\ UNCHANGED reservation
    BY <1>2 DEF ReserveStock, Goto, Inv, Linked, Before
  <2> QED
    BY <1>1, <1>2, <2>1, TakeIsTake DEF ReserveStock, Ledger!Next
<1>3. ASSUME NEW c \in Calls, CreateReservation(c) PROVE UNCHANGED Ledger!vars
  <2>1. reservation[c] = "none" /\ reservation' = [reservation EXCEPT ![c] = "reserved"]
        /\ UNCHANGED <<total, took>>
    BY <1>3 DEF CreateReservation, Goto, Inv, Linked
  <2>2. \A d \in Calls : (reservation'[d] = "released") <=> (reservation[d] = "released")
    BY <2>1 DEF Inv, TypeOK
  <2> QED
    BY <2>1, <2>2 DEF Ledger!vars
<1>4. ASSUME NEW c \in Calls, AnswerLost(c) PROVE Ledger!Next \/ UNCHANGED Ledger!vars
  <2>1. CASE TakeStock(c) /\ pc[c] = "reserveStock"
    <3>1. took[c] = NoBucket /\ UNCHANGED reservation
      BY <1>4, <2>1 DEF AnswerLost, Inv, Linked, Before
    <3> QED
      BY <2>1, <3>1, TakeIsTake DEF Ledger!Next
  <2> QED
    BY <1>1, <1>4, <2>1 DEF AnswerLost
<1>5. ASSUME NEW r \in Returns, NEW c \in Calls, ReleaseReservation(r, c) \/ ReleaseFails(r, c)
      PROVE  Ledger!Next \/ UNCHANGED Ledger!vars
  BY <1>1, <1>5, GiveBackIsGiveBack DEF ReleaseReservation, ReleaseFails, Ledger!Next
<1>6. ASSUME NEW c \in Calls,
             \/ CheckIdempotency(c) \/ ReadCached(c) \/ VerifyAttestation(c)
             \/ CheckRateLimit(c) \/ AcquireSlot(c) \/ ReleaseSlot(c)
             \/ JoinWaitingRoom(c) \/ CacheResult(c) \/ CommandFails(c) \/ Dies(c)
      PROVE  UNCHANGED Ledger!vars
  BY <1>1, <1>6 DEF CheckIdempotency, ReadCached, VerifyAttestation, CheckRateLimit, AcquireSlot,
     ReleaseSlot, JoinWaitingRoom, CacheResult, CommandFails, Dies, redis
<1>7. ASSUME \/ \E r \in Returns : ReleaseSlotOfReservation(r)
             \/ \E k \in Keys : LockExpires(k) \/ ResultExpires(k)
             \/ \E u \in Users : SessionExpires(u)
             \/ Finished \/ UNCHANGED vars
      PROVE  UNCHANGED Ledger!vars
  BY <1>1, <1>7 DEF ReleaseSlotOfReservation, LockExpires, ResultExpires, SessionExpires,
     Finished, vars, redis
<1> QED
  BY <1>2, <1>3, <1>4, <1>5, <1>6, <1>7 DEF Next, Checkout

\* Checkout and release implement the ledger: whatever fails, a call takes its
\* quantity once, whole, and it comes back at most once.
THEOREM Refinement == Spec => ImplementsLedger
<1>1. Init => Ledger!Init
  BY LedgerInit
<1>2. Inv /\ [Next]_vars => [Ledger!Next]_(Ledger!vars)
  BY LedgerStep
<1> QED
  BY <1>1, <1>2, Invariance, PTL DEF Spec, ImplementsLedger, Ledger!Spec

-----------------------------------------------------------------------------
(* Stock *)

LP == INSTANCE StockLedgerProofs WITH
    Claims <- Calls, Size <- QtyOf, MaxSize <- MaxQty, Initial <- InitialStock,
    available <- total,
    claim <- [c \in Calls |-> IF took[c] = NoBucket THEN "none"
                              ELSE IF reservation[c] = "released" THEN "returned" ELSE "held"]

\* No flash sale oversells or loses a unit that no call holds: the total and
\* the units taken and not released always add up to the initial stock.
THEOREM StockIsConserved == Spec => []StockConserved
<1>1. LP!Spec => []LP!Conserved
  <2>1. LP!Legal
    BY SetsAssumption, BodyAssumption, StoreAssumption DEF LP!Legal, LP!IsFiniteSet, IsFiniteSet
  <2> QED
    BY <2>1, LP!Conservation, PTL
<1>2. Ledger!Init => LP!Init
  BY DEF Ledger!Init, LP!Init
<1>3. [Ledger!Next]_(Ledger!vars) => [LP!Next]_(LP!vars)
  BY DEF Ledger!Next, Ledger!Take, Ledger!GiveBack, Ledger!vars,
         LP!Next, LP!Take, LP!GiveBack, LP!vars
<1>4. LP!Conserved => StockConserved
  BY DEF LP!Conserved, LP!Units, LP!Held, LP!Cardinality, StockConserved,
         Ledger!Conserved, Ledger!Units, Ledger!Held, Ledger!Cardinality
<1> QED
  BY <1>1, <1>2, <1>3, <1>4, Refinement, PTL DEF ImplementsLedger, Ledger!Spec, LP!Spec
-----------------------------------------------------------------------------
(* What calls are told *)

\* A call is told its answer once, when it has only the result to cache.
After == {"cacheResult", "done", "dead"}
Bought(d) == took[d] # NoBucket /\ reply[d] = Completed(d)
Replied == \A c \in Calls : reply[c] # NoReply => pc[c] \in After
Genuine == \A d \in Calls :
    /\ \A c \in Calls : reply[c] # NoReply /\ reply[c].reservation = d =>
          Bought(d) /\ KeyOf[d] = KeyOf[c]
    /\ \A k \in Keys : cached[k] # NoReply /\ cached[k].reservation = d =>
          Bought(d) /\ KeyOf[d] = k
Told == Replied /\ Genuine

\* As long as no command fails, stock is held by calls that are about to
\* create their reservation or were told of it.
Answers == faults = 0 => \A c \in Calls :
    /\ reply[c] = Completed(c) => reservation[c] # "none"
    /\ took[c] # NoBucket => pc[c] = "createReservation" \/ reply[c] = Completed(c)

\* The calls that passed the lock of key k and may take stock, or took it.
Entered(k) == {c \in Calls : KeyOf[c] = k /\
    (pc[c] \in {"attestation", "rateLimit", "acquireSlot", "reserveStock"} \/ took[c] # NoBucket)}
Locks == \A k \in Keys :
    Cardinality(Entered(k)) <= expiries[k] + (IF k \in locked THEN 1 ELSE 0)

\* An answer that names no call, the call that bought, or what was cached for
\* the same key keeps what calls are told genuine.
LEMMA Tells ==
    ASSUME Inv, Told, NEW c \in Calls, NEW r \in Replies, pc[c] \notin After,
           reply' = [reply EXCEPT ![c] = r], UNCHANGED <<took, cached>>,
           NEW to \in After, pc' = [pc EXCEPT ![c] = to],
           \/ r.reservation = NoCall
           \/ r = Completed(c) /\ took[c] # NoBucket
           \/ cached[KeyOf[c]] # NoReply /\ r.reservation = cached[KeyOf[c]].reservation
    PROVE  Told'
<1>1. reply[c] = NoReply
  BY DEF Told, Replied
<1>2. Replied'
  BY DEF Told, Replied, Inv, TypeOK
<1>3. \A d \in Calls : Bought(d) => Bought(d)'
  BY <1>1, ReplyTypes, AbsentAssumption DEF Bought, Inv, TypeOK
<1>4. ASSUME NEW d \in Calls, NEW b \in Calls, reply'[b] # NoReply, reply'[b].reservation = d
      PROVE  Bought(d)' /\ KeyOf[d] = KeyOf[b]
  <2>1. CASE b # c
    BY <1>3, <1>4, <2>1 DEF Told, Genuine, Inv, TypeOK
  <2>2. CASE b = c
    <3>1. reply'[c] = r
      BY DEF Inv, TypeOK
    <3>2. CASE r.reservation = NoCall
      BY <1>4, <2>2, <3>1, <3>2, SetsAssumption
    <3>3. CASE r = Completed(c) /\ took[c] # NoBucket
      BY <1>4, <2>2, <3>1, <3>3 DEF Completed, Bought
    <3>4. CASE cached[KeyOf[c]] # NoReply /\ r.reservation = cached[KeyOf[c]].reservation
      BY <1>3, <1>4, <2>2, <3>1, <3>4, BodyAssumption DEF Told, Genuine
    <3> QED
      BY <3>2, <3>3, <3>4
  <2> QED
    BY <2>1, <2>2
<1>5. ASSUME NEW d \in Calls, NEW k \in Keys, cached'[k] # NoReply, cached'[k].reservation = d
      PROVE  Bought(d)' /\ KeyOf[d] = k
  BY <1>3, <1>5 DEF Told, Genuine
<1>6. Genuine'
  BY <1>4, <1>5 DEF Genuine
<1> QED
  BY <1>2, <1>6 DEF Told

\* A step that tells nobody anything and undoes no purchase.
LEMMA Silent ==
    ASSUME Told, UNCHANGED reply,
           \A c \in Calls : pc[c] \in After => pc'[c] \in After,
           \A c \in Calls : took[c] # NoBucket => took'[c] # NoBucket,
           \A k \in Keys : cached'[k] \in {NoReply, cached[k]}
    PROVE  Told'
<1>1. Replied'
  BY DEF Told, Replied
<1>2. \A d \in Calls : Bought(d) => Bought(d)'
  BY DEF Bought
<1>3. Genuine'
  BY <1>2 DEF Told, Genuine
<1> QED
  BY <1>1, <1>3 DEF Told

\* A failed command is answered as the code takes it.
LEMMA FailsSays ==
    ASSUME Inv, NEW c \in Calls, Fails(c, pc[c])
    PROVE  \/ /\ UNCHANGED reply
              /\ \E to \in {"releaseSlotAndFail", "joinWaitingRoom", "done"} :
                    /\ pc' = [pc EXCEPT ![c] = to]
                    /\ pc[c] \in After => to = "done"
              /\ pc[c] # "createReservation"
           \/ /\ pc[c] \notin After
              /\ \E to \in {"cacheResult", "done"} : pc' = [pc EXCEPT ![c] = to]
              /\ \E r \in Replies :
                    /\ reply' = [reply EXCEPT ![c] = r]
                    /\ \/ r.reservation = NoCall /\ pc[c] # "createReservation"
                       \/ r = Completed(c) /\ pc[c] = "createReservation"
<1>1. \A status \in {"error", "idempotency_conflict"} :
        Plain(status) \in Replies /\ Plain(status).reservation = NoCall
  BY DEF Plain, Replies, Statuses
<1>2. CASE pc[c] \in {"idempotency", "acquireSlot", "joinWaitingRoom", "releaseSlotAndFail"}
  BY <1>1, <1>2 DEF Fails, Goto, Respond, After
<1>3. CASE pc[c] = "readCached"
  BY <1>1, <1>3 DEF Fails, Goto, Respond, After
<1>4. CASE pc[c] = "createReservation"
  BY <1>4, ReplyTypes DEF Fails, Goto, Respond, After
<1>5. CASE pc[c] \in {"reserveStock", "releaseSlot", "cacheResult"}
  BY <1>5 DEF Fails, Goto, Respond, After
<1> QED
  BY <1>2, <1>3, <1>4, <1>5 DEF Fails

\* Taking stock forgets no other purchase.
LEMMA TakeKeeps ==
    ASSUME Inv, NEW c \in Calls, TakeStock(c)
    PROVE  /\ took' \in [Calls -> Buckets \cup {NoBucket}]
           /\ took'[c] # NoBucket
           /\ \A d \in Calls : d # c => took'[d] = took[d]
<1>1. PICK i \in Buckets : took' = [took EXCEPT ![c] = Probe(c, i)]
  BY DEF TakeStock
<1>2. Probe(c, i) \in Buckets /\ Probe(c, i) # NoBucket
  BY ProbeInRange, StoreAssumption
<1> QED
  BY <1>1, <1>2 DEF Inv, TypeOK

\* Every step keeps Told.
LEMMA ToldStep == Inv /\ Inv' /\ Told /\ [Next]_vars => Told'
<1> SUFFICES ASSUME Inv, Inv', Told, [Next]_vars PROVE Told'
  OBVIOUS
<1> USE ReplyTypes DEF Goto, After
<1>0. /\ pc \in [Calls -> Steps] /\ reply \in [Calls -> Replies \cup {NoReply}]
      /\ cached \in [Keys -> Replies \cup {NoReply}] /\ KeyOf \in [Calls -> Keys]
  BY BodyAssumption DEF Inv, TypeOK
<1>p. \A status \in Statuses : Plain(status).reservation = NoCall
  BY DEF Plain
<1>1. ASSUME NEW c \in Calls, CheckIdempotency(c) PROVE Told'
  BY <1>0, <1>1, Silent DEF CheckIdempotency
<1>2. ASSUME NEW c \in Calls, ReadCached(c) PROVE Told'
  <2> DEFINE r == IF cached[KeyOf[c]] = NoReply THEN Plain("idempotency_conflict")
                  ELSE [cached[KeyOf[c]] EXCEPT !.status = "idempotency_conflict"]
  <2>1. r \in Replies
    BY <1>0 DEF Statuses
  <2>2. \/ r.reservation = NoCall
        \/ cached[KeyOf[c]] # NoReply /\ r.reservation = cached[KeyOf[c]].reservation
    BY <1>0, <1>p DEF Statuses, Replies
  <2>3. reply' = [reply EXCEPT ![c] = r] /\ pc' = [pc EXCEPT ![c] = "done"]
        /\ UNCHANGED <<took, cached>> /\ pc[c] \notin After
    BY <1>2 DEF ReadCached, Respond, redis
  <2> HIDE DEF r
  <2> QED
    BY <2>1, <2>2, <2>3, Tells
<1>3. ASSUME NEW c \in Calls, VerifyAttestation(c) PROVE Told'
  BY <1>0, <1>p, <1>3, Silent, Tells DEF VerifyAttestation, Respond, redis, Statuses
<1>4. ASSUME NEW c \in Calls, CheckRateLimit(c) PROVE Told'
  BY <1>0, <1>p, <1>4, Silent, Tells DEF CheckRateLimit, Respond, redis, Statuses
<1>5. ASSUME NEW c \in Calls, AcquireSlot(c) PROVE Told'
  BY <1>0, <1>p, <1>5, Silent, Tells DEF AcquireSlot, Respond, Statuses
<1>6. ASSUME NEW c \in Calls, ReserveStock(c) PROVE Told'
  BY <1>0, <1>6, Silent, TakeKeeps DEF ReserveStock
<1>7. ASSUME NEW c \in Calls, CreateReservation(c) PROVE Told'
  BY <1>0, <1>7, Tells DEF CreateReservation, Respond, Inv, Linked
<1>8. ASSUME NEW c \in Calls, ReleaseSlot(c) PROVE Told'
  BY <1>0, <1>p, <1>8, Silent, Tells DEF ReleaseSlot, Respond, Statuses
<1>9. ASSUME NEW c \in Calls, JoinWaitingRoom(c) PROVE Told'
  BY <1>0, <1>p, <1>9, Tells DEF JoinWaitingRoom, Respond, Statuses
<1>10. ASSUME NEW c \in Calls, CacheResult(c) PROVE Told'
  <2>1. /\ UNCHANGED <<reply, took>> /\ pc' = [pc EXCEPT ![c] = "done"]
        /\ cached' = [cached EXCEPT ![KeyOf[c]] = reply[c]]
    BY <1>10 DEF CacheResult
  <2>2. Replied'
    BY <1>0, <2>1 DEF Told, Replied
  <2>3. \A d \in Calls : Bought(d) <=> Bought(d)'
    BY <2>1 DEF Bought
  <2>4. Genuine'
    BY <1>0, <2>1, <2>3 DEF Told, Genuine
  <2> QED
    BY <2>2, <2>4 DEF Told
<1>11. ASSUME NEW c \in Calls, CommandFails(c) \/ AnswerLost(c) PROVE Told'
  <2>1. Fails(c, pc[c]) /\ UNCHANGED cached
    BY <1>11 DEF CommandFails, AnswerLost, redis
  <2>2. UNCHANGED took \/ (TakeStock(c) /\ pc[c] = "reserveStock")
    BY <1>11 DEF CommandFails, AnswerLost, redis
  <2>3. CASE UNCHANGED reply
    BY <1>0, <2>1, <2>2, <2>3, FailsSays, Silent, TakeKeeps
  <2>4. CASE ~UNCHANGED reply
    <3>1. UNCHANGED took
      BY <2>1, <2>2, <2>4 DEF Fails
    <3> QED
      BY <2>1, <2>4, <3>1, FailsSays, Tells DEF Inv, Linked
  <2> QED
    BY <2>3, <2>4
<1>12. ASSUME NEW c \in Calls, Dies(c) PROVE Told'
  BY <1>0, <1>12, Silent DEF Dies, redis
<1>13. ASSUME NEW k \in Keys, ResultExpires(k) PROVE Told'
  BY <1>0, <1>13, Silent DEF ResultExpires
<1>14. ASSUME UNCHANGED <<pc, took, reply, cached>> PROVE Told'
  BY <1>14, Silent
<1> QED
  BY <1>1, <1>2, <1>3, <1>4, <1>5, <1>6, <1>7, <1>8, <1>9, <1>10, <1>11, <1>12, <1>13, <1>14
     DEF Next, Checkout, ReleaseReservation, ReleaseFails, ReleaseSlotOfReservation,
         LockExpires, SessionExpires, Finished, vars, redis

\* Told holds in the initial states.
LEMMA ToldInitially == Init => Told
BY BodyAssumption DEF Init, Told, Replied, Genuine

\* An answer that names a reservation names one that a call with the same key
\* made and was told of.
THEOREM EchoesAreGenuine == Spec => []EchoIsGenuine
<1>1. Told /\ Inv => EchoIsGenuine
  BY DEF Told, Genuine, EchoIsGenuine, Bought, Inv, TypeOK, Replies
<1>2. Inv /\ Inv' /\ Told /\ [Next]_vars => Told'
  BY ToldStep
<1> QED
  BY <1>1, <1>2, ToldInitially, Invariance, PTL DEF Spec

-----------------------------------------------------------------------------
(* Answers and stock while no command fails *)

\* Every step keeps Answers.
LEMMA AnswersStep == Inv /\ Inv' /\ Told /\ Answers /\ [Next]_vars => Answers'
<1> SUFFICES ASSUME Inv, Inv', Told, Answers, [Next]_vars PROVE Answers'
  OBVIOUS
<1> USE DEF Goto
<1>0. /\ pc \in [Calls -> Steps] /\ reply \in [Calls -> Replies \cup {NoReply}]
      /\ reservation \in [Calls -> {"none", "reserved", "released"}]
      /\ cached \in [Keys -> Replies \cup {NoReply}]
      /\ \A c \in Calls : Completed(c) # NoReply
  BY ReplyTypes, AbsentAssumption DEF Inv, TypeOK
\* A fault ends the promise.
<1>1. ASSUME Fault PROVE Answers'
  <2>1. faults' # 0
    BY <1>1 DEF Fault, Inv, TypeOK
  <2> QED
    BY <2>1 DEF Answers
\* A step that keeps stock and reservations, and takes no "completed" back.
<1>2. ASSUME NEW c \in Calls, UNCHANGED <<took, reservation, faults>>,
             pc[c] \notin {"createReservation"}, took[c] = NoBucket,
             \A d \in Calls : d # c => pc'[d] = pc[d] /\ reply'[d] = reply[d],
             reply'[c] # Completed(c)
      PROVE  Answers'
  BY <1>2 DEF Answers
<1>3. ASSUME NEW c \in Calls, UNCHANGED <<took, reservation, faults, reply>>,
             pc[c] # "createReservation",
             \A d \in Calls : d # c => pc'[d] = pc[d]
      PROVE  Answers'
  BY <1>3 DEF Answers
<1>4. ASSUME NEW c \in Calls, NEW status \in Statuses \ {"completed"}, UNCHANGED <<took, reservation, faults>>,
             pc[c] \in {"readCached", "attestation", "rateLimit", "acquireSlot",
                        "releaseSlotAndFail", "joinWaitingRoom"},
             NEW r \in Replies, r.status = status,
             reply' = [reply EXCEPT ![c] = r], NEW to \in Steps, pc' = [pc EXCEPT ![c] = to]
      PROVE  Answers'
  <2>1. reply[c] # Completed(c)
    BY <1>0, <1>4 DEF Told, Replied, After
  <2>2. reply'[c] # Completed(c)
    BY <1>0, <1>4 DEF Completed
  <2> QED
    BY <1>0, <1>4, <2>1, <2>2 DEF Answers
<1>p. \A status \in Statuses : Plain(status) \in Replies /\ Plain(status).status = status
  BY DEF Plain, Replies
<1>5. ASSUME NEW c \in Calls, CheckIdempotency(c) PROVE Answers'
  BY <1>0, <1>3, <1>5 DEF CheckIdempotency
<1>6. ASSUME NEW c \in Calls, ReadCached(c) PROVE Answers'
  <2> DEFINE r == IF cached[KeyOf[c]] = NoReply THEN Plain("idempotency_conflict")
                  ELSE [cached[KeyOf[c]] EXCEPT !.status = "idempotency_conflict"]
  <2>1. r \in Replies /\ r.status = "idempotency_conflict"
    BY <1>0, <1>p, BodyAssumption DEF Statuses, Replies
  <2>2. reply' = [reply EXCEPT ![c] = r] /\ pc' = [pc EXCEPT ![c] = "done"] /\ pc[c] = "readCached"
        /\ UNCHANGED <<took, reservation, faults>>
    BY <1>6 DEF ReadCached, Respond, redis
  <2> HIDE DEF r
  <2> QED
    BY <1>4, <2>1, <2>2 DEF Statuses, Steps
<1>7. ASSUME NEW c \in Calls, VerifyAttestation(c) PROVE Answers'
  BY <1>0, <1>3, <1>4, <1>p, <1>7 DEF VerifyAttestation, Respond, redis, Statuses, Steps
<1>8. ASSUME NEW c \in Calls, CheckRateLimit(c) PROVE Answers'
  BY <1>0, <1>3, <1>4, <1>p, <1>8 DEF CheckRateLimit, Respond, redis, Statuses, Steps
<1>9. ASSUME NEW c \in Calls, AcquireSlot(c) PROVE Answers'
  BY <1>0, <1>3, <1>4, <1>p, <1>9 DEF AcquireSlot, Respond, Statuses, Steps
<1>10. ASSUME NEW c \in Calls, ReserveStock(c) PROVE Answers'
  <2>1. CASE TakeStock(c) /\ pc' = [pc EXCEPT ![c] = "createReservation"]
    BY <1>0, <1>10, <2>1, TakeKeeps DEF ReserveStock, Answers
  <2>2. CASE UNCHANGED took
    BY <1>0, <1>3, <1>10, <2>2 DEF ReserveStock
  <2> QED
    BY <1>10, <2>1, <2>2 DEF ReserveStock
<1>11. ASSUME NEW c \in Calls, CreateReservation(c) PROVE Answers'
  BY <1>0, <1>11 DEF CreateReservation, Respond, Answers
<1>12. ASSUME NEW c \in Calls, ReleaseSlot(c) PROVE Answers'
  BY <1>0, <1>3, <1>4, <1>p, <1>12 DEF ReleaseSlot, Respond, Statuses, Steps
<1>13. ASSUME NEW c \in Calls, JoinWaitingRoom(c) PROVE Answers'
  BY <1>0, <1>4, <1>p, <1>13 DEF JoinWaitingRoom, Respond, Statuses, Steps
<1>14. ASSUME NEW c \in Calls, CacheResult(c) PROVE Answers'
  BY <1>0, <1>3, <1>14 DEF CacheResult
<1>15. ASSUME NEW r \in Returns, NEW c \in Calls, ReleaseReservation(r, c) PROVE Answers'
  BY <1>0, <1>15 DEF ReleaseReservation, GiveBackStock, Answers
<1>16. ASSUME UNCHANGED <<pc, took, reply, reservation, faults>> PROVE Answers'
  BY <1>16 DEF Answers
<1> QED
  BY <1>1, <1>5, <1>6, <1>7, <1>8, <1>9, <1>10, <1>11, <1>12, <1>13, <1>14, <1>15, <1>16
     DEF Next, Checkout, CommandFails, AnswerLost, Dies, ReleaseFails, ReleaseSlotOfReservation,
         LockExpires, ResultExpires, SessionExpires, Finished, vars, redis

\* Answers holds in the initial states.
LEMMA AnswersInitially == Init => Answers
BY ReplyTypes, AbsentAssumption DEF Init, Answers

\* While no command fails, what a client is told is what happened: "completed"
\* comes with a reservation to release, anything else with no stock taken.
THEOREM AnswersAreTrue == Spec => []AnswersMatchStock
<1>1. Answers => AnswersMatchStock
  BY DEF Answers, AnswersMatchStock
<1>2. Inv /\ Inv' /\ Told /\ Answers /\ [Next]_vars => Answers'
  BY AnswersStep
<1>3. Inv /\ Inv' /\ Told /\ [Next]_vars => Told'
  BY ToldStep
<1> QED
  BY <1>1, <1>2, <1>3, AnswersInitially, ToldInitially, Invariance, PTL DEF Spec

-----------------------------------------------------------------------------
(* One purchase per life of a lock *)

\* The users who entered under a key can be counted.
LEMMA EnteredFinite ==
    ASSUME NEW k \in Keys
    PROVE  IsFiniteSet(Entered(k)) /\ Cardinality(Entered(k)) \in Nat
BY SetsAssumption, FS_Subset, FS_CardinalityType DEF Entered

\* Locks survives a step that lets nobody past a lock and removes none.
LEMMA NobodyEnters ==
    ASSUME Inv, Locks, UNCHANGED expiries, locked \subseteq locked',
           \A c \in Calls : \/ pc'[c] = pc[c]
                            \/ pc'[c] \notin {"attestation", "rateLimit", "acquireSlot", "reserveStock"}
                            \/ pc[c] \in {"attestation", "rateLimit", "acquireSlot", "reserveStock"},
           \A c \in Calls : took'[c] # NoBucket => took[c] # NoBucket \/ pc[c] = "reserveStock"
    PROVE  Locks'
<1>1. ASSUME NEW k \in Keys
      PROVE  Cardinality(Entered(k))' <= expiries'[k] + (IF k \in locked' THEN 1 ELSE 0)
  <2>1. Entered(k)' \in SUBSET Entered(k)
    BY DEF Entered
  <2>2. Cardinality(Entered(k))' \in Nat /\ Cardinality(Entered(k))' <= Cardinality(Entered(k))
    BY <2>1, EnteredFinite, FS_Subset, FS_CardinalityType
  <2> QED
    BY <2>2, EnteredFinite DEF Locks, Inv, TypeOK
<1> QED
  BY <1>1 DEF Locks

\* Every step keeps Locks.
LEMMA LocksStep == Inv /\ Locks /\ [Next]_vars => Locks'
<1> SUFFICES ASSUME Inv, Locks, [Next]_vars PROVE Locks'
  OBVIOUS
<1> USE DEF Goto
<1>0. /\ pc \in [Calls -> Steps] /\ KeyOf \in [Calls -> Keys]
      /\ expiries \in [Keys -> 0..MaxExpiries] /\ MaxExpiries \in Nat
  BY BodyAssumption, BoundAssumption DEF Inv, TypeOK
<1>1. ASSUME NEW c \in Calls, CheckIdempotency(c) PROVE Locks'
  <2>1. CASE KeyOf[c] \in locked
    BY <1>0, <1>1, <2>1, NobodyEnters DEF CheckIdempotency
  <2>2. CASE KeyOf[c] \notin locked
    <3>1. /\ pc' = [pc EXCEPT ![c] = "attestation"] /\ locked' = locked \cup {KeyOf[c]}
          /\ UNCHANGED <<took, expiries>>
      BY <1>1, <2>2 DEF CheckIdempotency
    <3>2. ASSUME NEW k \in Keys
          PROVE  Cardinality(Entered(k))' <= expiries'[k] + (IF k \in locked' THEN 1 ELSE 0)
      <4>1. CASE k = KeyOf[c]
        <5>1. Entered(k)' = Entered(k) \cup {c}
          BY <1>0, <3>1, <4>1 DEF Entered
        <5> DEFINE E == Entered(k)
        <5>2. IsFiniteSet(E) /\ Cardinality(E) \in Nat
          BY EnteredFinite
        <5>3. E' = E \cup {c}
          BY <5>1
        <5>4. Cardinality(E) <= expiries[k]
          BY <1>0, <2>2, <4>1, <5>2 DEF Locks
        <5> HIDE DEF E
        <5>5. Cardinality(E \cup {c}) \in {Cardinality(E), Cardinality(E) + 1}
          BY <5>2, FS_AddElement
        <5>6. Cardinality(E') <= expiries[k] + 1
          BY <1>0, <5>2, <5>3, <5>4, <5>5
        <5> QED
          BY <3>1, <4>1, <5>6 DEF E
      <4>2. CASE k # KeyOf[c]
        <5>1. Entered(k)' = Entered(k)
          BY <1>0, <3>1, <4>2 DEF Entered
        <5> QED
          BY <3>1, <4>2, <5>1 DEF Locks
      <4> QED
        BY <4>1, <4>2
    <3> QED
      BY <3>2 DEF Locks
  <2> QED
    BY <2>1, <2>2
<1>2. ASSUME NEW c \in Calls,
             \/ ReadCached(c) \/ VerifyAttestation(c) \/ CheckRateLimit(c) \/ AcquireSlot(c)
             \/ CreateReservation(c) \/ ReleaseSlot(c) \/ JoinWaitingRoom(c) \/ CacheResult(c)
             \/ Dies(c)
      PROVE  Locks'
  <2>1. UNCHANGED <<locked, expiries, took>>
    BY <1>2 DEF ReadCached, VerifyAttestation, CheckRateLimit, AcquireSlot,
       CreateReservation, ReleaseSlot, JoinWaitingRoom, CacheResult, Dies, redis
  <2>2. \E to \in Steps :
          /\ pc' = [pc EXCEPT ![c] = to]
          /\ \/ to \notin {"attestation", "rateLimit", "acquireSlot", "reserveStock"}
             \/ pc[c] \in {"attestation", "rateLimit", "acquireSlot", "reserveStock"}
    BY <1>2 DEF ReadCached, VerifyAttestation, CheckRateLimit, AcquireSlot,
       CreateReservation, ReleaseSlot, JoinWaitingRoom, CacheResult, Dies, Steps
  <2> QED
    BY <1>0, <2>1, <2>2, NobodyEnters
<1>3. ASSUME NEW c \in Calls, ReserveStock(c) PROVE Locks'
  <2>1. UNCHANGED <<locked, expiries>> /\ pc[c] = "reserveStock"
        /\ \A d \in Calls : d # c => took'[d] = took[d]
    BY <1>3, TakeKeeps DEF ReserveStock
  <2>2. pc' = [pc EXCEPT ![c] = "createReservation"] \/ pc' = [pc EXCEPT ![c] = "releaseSlot"]
    BY <1>3 DEF ReserveStock
  <2> QED
    BY <1>0, <2>1, <2>2, NobodyEnters
<1>4. ASSUME NEW c \in Calls, CommandFails(c) \/ AnswerLost(c) PROVE Locks'
  <2>1. UNCHANGED expiries /\ locked \subseteq locked' /\ Fails(c, pc[c])
    BY <1>4 DEF CommandFails, AnswerLost, redis
  <2>2. \A d \in Calls : took'[d] = took[d] \/ (d = c /\ pc[c] = "reserveStock")
    BY <1>4, TakeKeeps DEF CommandFails, AnswerLost, redis
  <2> QED
    BY <1>0, <2>1, <2>2, FailsSays, NobodyEnters
<1>5. ASSUME NEW k \in Keys, LockExpires(k) PROVE Locks'
  <2>1. UNCHANGED <<pc, took>> /\ k \in locked /\ locked' = locked \ {k}
        /\ expiries' = [expiries EXCEPT ![k] = @ + 1]
    BY <1>5 DEF LockExpires
  <2>2. \A j \in Keys : Entered(j)' = Entered(j)
    BY <2>1 DEF Entered
  <2>3. ASSUME NEW j \in Keys
        PROVE  Cardinality(Entered(j))' <= expiries'[j] + (IF j \in locked' THEN 1 ELSE 0)
    <3>1. Cardinality(Entered(j))' = Cardinality(Entered(j)) /\ Cardinality(Entered(j)) \in Nat
      BY <2>2, EnteredFinite
    <3> QED
      BY <1>0, <2>1, <3>1 DEF Locks
  <2> QED
    BY <2>3 DEF Locks
<1>6. ASSUME UNCHANGED <<pc, took, locked, expiries>> PROVE Locks'
  BY <1>6, NobodyEnters
<1> QED
  BY <1>1, <1>2, <1>3, <1>4, <1>5, <1>6
     DEF Next, Checkout, ReleaseReservation, ReleaseFails, ReleaseSlotOfReservation,
         ResultExpires, SessionExpires, Finished, vars, redis

\* Locks holds in the initial states.
LEMMA LocksInitially == Init => Locks
<1> SUFFICES ASSUME Init PROVE Locks
  OBVIOUS
<1>1. \A k \in Keys : Entered(k) = {} /\ expiries[k] = 0 /\ k \notin locked
  BY DEF Init, Entered
<1> QED
  BY <1>1, FS_EmptySet DEF Locks

\* A key takes stock at most once for each time its lock was set, whatever
\* commands fail, answers get lost and processes die.
THEOREM OneTakePerLife == Spec => []OneTakePerLock
<1>1. Inv /\ Locks => OneTakePerLock
  <2> SUFFICES ASSUME Inv, Locks, NEW k \in Keys
               PROVE  Cardinality({c \in Calls : KeyOf[c] = k /\ took[c] # NoBucket}) <= 1 + expiries[k]
    BY DEF OneTakePerLock
  <2> DEFINE Takers == {c \in Calls : KeyOf[c] = k /\ took[c] # NoBucket}
  <2>1. Takers \in SUBSET Entered(k)
    BY DEF Entered
  <2>2. Cardinality(Takers) \in Nat /\ Cardinality(Takers) <= Cardinality(Entered(k))
    BY <2>1, EnteredFinite, FS_Subset, FS_CardinalityType
  <2>3. expiries[k] \in Nat /\ Cardinality(Entered(k)) \in Nat
    BY EnteredFinite, BoundAssumption DEF Inv, TypeOK
  <2> HIDE DEF Takers
  <2>4. Cardinality(Takers) <= 1 + expiries[k]
    BY <2>2, <2>3 DEF Locks
  <2> QED
    BY <2>4 DEF Takers
<1>2. Inv /\ Locks /\ [Next]_vars => Locks'
  BY LocksStep
<1> QED
  BY <1>1, <1>2, LocksInitially, Invariance, PTL DEF Spec

-----------------------------------------------------------------------------
(* Buckets and slots *)

\* Units of calls are counted; a call that joins a set brings its quantity.
LEMMA UnitsOfCalls ==
    ASSUME NEW S \in SUBSET Calls
    PROVE  /\ Cardinality(Ledger!Units(S)) \in Nat
           /\ \A c \in Calls \ S :
                Cardinality(Ledger!Units(S \cup {c})) = Cardinality(Ledger!Units(S)) + QtyOf[c]
<1>1. LP!Legal
  BY SetsAssumption, BodyAssumption, StoreAssumption DEF LP!Legal, LP!IsFiniteSet, IsFiniteSet
<1>2. LP!Cardinality(LP!Units(S)) \in Nat
  BY <1>1, LP!UnitsFinite
<1>3. \A c \in Calls \ S : LP!Cardinality(LP!Units(S \cup {c})) = LP!Cardinality(LP!Units(S)) + QtyOf[c]
  BY <1>1, LP!UnitsAdd
<1> QED
  BY <1>2, <1>3 DEF LP!Units, LP!Cardinality, Cardinality, Ledger!Units

\* The units taken from a bucket can be counted.
LEMMA TakenTypes ==
    ASSUME NEW b \in Buckets
    PROVE  /\ TakenFrom(b) \in SUBSET Calls
           /\ Cardinality(Ledger!Units(TakenFrom(b))) \in Nat
BY UnitsOfCalls DEF TakenFrom, Outstanding

\* Taking stock keeps every bucket at what was put in less what is out.
LEMMA TakeFromBucket ==
    ASSUME Inv, BucketsConserved, NEW c \in Calls, took[c] = NoBucket, TakeStock(c),
           UNCHANGED reservation
    PROVE  BucketsConserved'
<1>1. PICK i \in Buckets : /\ Fits(c, i) /\ took' = [took EXCEPT ![c] = Probe(c, i)]
                           /\ bucket' = [bucket EXCEPT ![Probe(c, i)] = @ - QtyOf[c]]
  BY DEF TakeStock
<1> DEFINE p == Probe(c, i)
<1>2. p \in Buckets /\ p # NoBucket
  BY ProbeInRange, StoreAssumption
<1>3. /\ QtyOf[c] \in Nat /\ bucket \in [Buckets -> Int] /\ bucket[p] >= QtyOf[c]
      /\ took \in [Calls -> Buckets \cup {NoBucket}] /\ reservation[c] = "none"
  <2>1. QtyOf[c] \in Nat /\ bucket[p] >= QtyOf[c]
    BY <1>1, BodyAssumption DEF Fits
  <2> QED
    BY <2>1 DEF Inv, TypeOK, Linked
<1>4. /\ took' = [took EXCEPT ![c] = p] /\ bucket' = [bucket EXCEPT ![p] = @ - QtyOf[c]]
  BY <1>1
<1> HIDE DEF p
<1>5. ASSUME NEW b \in Buckets
      PROVE  /\ bucket'[b] >= 0
             /\ bucket'[b] + Cardinality(Ledger!Units(TakenFrom(b)))' = InitBucket[b]
  <2> DEFINE T == TakenFrom(b)
  <2>1. /\ T \in SUBSET Calls /\ Cardinality(Ledger!Units(T)) \in Nat
        /\ bucket[b] >= 0 /\ bucket[b] + Cardinality(Ledger!Units(T)) = InitBucket[b]
    BY TakenTypes DEF BucketsConserved
  <2>2. CASE b = p
    <3>1. T' = T \cup {c} /\ c \notin T
      BY <1>2, <1>3, <1>4, <2>2 DEF TakenFrom, Outstanding
    <3> HIDE DEF T
    <3>2. Cardinality(Ledger!Units(T \cup {c})) = Cardinality(Ledger!Units(T)) + QtyOf[c]
      BY <2>1, <3>1, UnitsOfCalls
    <3>3. bucket'[b] = bucket[b] - QtyOf[c]
      BY <1>3, <1>4, <2>2
    <3>4. Ledger!Units(T)' = Ledger!Units(T \cup {c})
      BY <3>1 DEF Ledger!Units
    <3>5. bucket'[b] >= 0 /\ bucket'[b] + Cardinality(Ledger!Units(T))' = InitBucket[b]
      BY <1>3, <2>1, <2>2, <3>2, <3>3, <3>4
    <3> QED
      BY <3>5 DEF T
  <2>3. CASE b # p
    <3>1. T' = T /\ bucket'[b] = bucket[b]
      BY <1>2, <1>3, <1>4, <2>3 DEF TakenFrom, Outstanding
    <3>2. Ledger!Units(T)' = Ledger!Units(T)
      BY <3>1 DEF Ledger!Units
    <3> QED
      BY <2>1, <3>1, <3>2
  <2> QED
    BY <2>2, <2>3
<1> QED
  BY <1>5 DEF BucketsConserved, Ledger!Units

\* Giving stock back keeps every bucket at what was put in less what is out.
LEMMA GiveBackToBucket ==
    ASSUME Inv, BucketsConserved, NEW c \in Calls, GiveBackStock(c), UNCHANGED took
    PROVE  BucketsConserved'
<1>1. CASE UNCHANGED <<reservation, bucket>>
  BY <1>1 DEF BucketsConserved, TakenFrom, Outstanding, Ledger!Units
<1>2. CASE ~UNCHANGED <<reservation, bucket>>
  <2> DEFINE p == took[c]
  <2>1. /\ reservation[c] = "reserved" /\ reservation' = [reservation EXCEPT ![c] = "released"]
        /\ bucket' = [bucket EXCEPT ![p] = @ + QtyOf[c]]
    BY <1>2 DEF GiveBackStock
  <2>2. /\ QtyOf[c] \in Nat /\ bucket \in [Buckets -> Int] /\ p \in Buckets /\ p # NoBucket
        /\ reservation \in [Calls -> {"none", "reserved", "released"}]
    <3>1. QtyOf[c] \in Nat
      BY BodyAssumption
    <3> QED
      BY <2>1, <3>1 DEF Inv, TypeOK, Linked
  <2>3. ASSUME NEW b \in Buckets
        PROVE  /\ bucket'[b] >= 0
               /\ bucket'[b] + Cardinality(Ledger!Units(TakenFrom(b)))' = InitBucket[b]
    <3> DEFINE T == TakenFrom(b)
    <3>1. /\ T \in SUBSET Calls /\ Cardinality(Ledger!Units(T)) \in Nat
          /\ bucket[b] >= 0 /\ bucket[b] + Cardinality(Ledger!Units(T)) = InitBucket[b]
      BY TakenTypes DEF BucketsConserved
    <3>2. CASE b = p
      <4>1. T = T' \cup {c} /\ c \notin T' /\ T' \in SUBSET Calls
        BY <2>1, <2>2, <3>2 DEF TakenFrom, Outstanding
      <4> HIDE DEF T
      <4>2. Cardinality(Ledger!Units(T' \cup {c})) = Cardinality(Ledger!Units(T')) + QtyOf[c]
        BY <4>1, UnitsOfCalls
      <4>3. bucket'[b] = bucket[b] + QtyOf[c]
        BY <2>1, <2>2, <3>2
      <4>4. Cardinality(Ledger!Units(T')) \in Nat
        BY <4>1, UnitsOfCalls
      <4>5. Ledger!Units(T)' = Ledger!Units(T')
        BY DEF Ledger!Units
      <4>6. bucket'[b] >= 0 /\ bucket'[b] + Cardinality(Ledger!Units(T))' = InitBucket[b]
        BY <2>2, <3>1, <3>2, <4>1, <4>2, <4>3, <4>4, <4>5
      <4> QED
        BY <4>6 DEF T
    <3>3. CASE b # p
      <4>1. T' = T /\ bucket'[b] = bucket[b]
        BY <2>1, <2>2, <3>3 DEF TakenFrom, Outstanding
      <4>2. Ledger!Units(T)' = Ledger!Units(T)
        BY <4>1 DEF Ledger!Units
      <4> QED
        BY <3>1, <4>1, <4>2
    <3> QED
      BY <3>2, <3>3
  <2> QED
    BY <2>3 DEF BucketsConserved, Ledger!Units
<1> QED
  BY <1>1, <1>2

\* Every step keeps BucketsConserved.
LEMMA BucketsStep == Inv /\ BucketsConserved /\ [Next]_vars => BucketsConserved'
<1> SUFFICES ASSUME Inv, BucketsConserved, [Next]_vars PROVE BucketsConserved'
  OBVIOUS
<1>1. ASSUME UNCHANGED <<bucket, took>>,
             \A c \in Calls : reservation'[c] = "released" <=> reservation[c] = "released"
      PROVE  BucketsConserved'
  <2>1. \A b \in Buckets : TakenFrom(b)' = TakenFrom(b)
    BY <1>1 DEF TakenFrom, Outstanding
  <2> QED
    BY <1>1, <2>1 DEF BucketsConserved, Ledger!Units
<1>2. ASSUME NEW c \in Calls, ReserveStock(c) PROVE BucketsConserved'
  <2>1. took[c] = NoBucket /\ UNCHANGED reservation
    BY <1>2 DEF ReserveStock, Goto, Inv, Linked, Before
  <2> QED
    BY <1>1, <1>2, <2>1, TakeFromBucket DEF ReserveStock
<1>3. ASSUME NEW c \in Calls, CreateReservation(c) PROVE BucketsConserved'
  <2>1. reservation[c] = "none" /\ reservation' = [reservation EXCEPT ![c] = "reserved"]
        /\ UNCHANGED <<bucket, took>>
    BY <1>3 DEF CreateReservation, Goto, Inv, Linked
  <2>2. \A d \in Calls : (reservation'[d] = "released") <=> (reservation[d] = "released")
    BY <2>1 DEF Inv, TypeOK
  <2> QED
    BY <1>1, <2>1, <2>2
<1>4. ASSUME NEW c \in Calls, AnswerLost(c) PROVE BucketsConserved'
  <2>1. CASE TakeStock(c) /\ pc[c] = "reserveStock"
    <3>1. took[c] = NoBucket /\ UNCHANGED reservation
      BY <1>4, <2>1 DEF AnswerLost, Inv, Linked, Before
    <3> QED
      BY <2>1, <3>1, TakeFromBucket
  <2> QED
    BY <1>1, <1>4, <2>1 DEF AnswerLost
<1>5. ASSUME NEW r \in Returns, NEW c \in Calls, ReleaseReservation(r, c) \/ ReleaseFails(r, c)
      PROVE  BucketsConserved'
  BY <1>1, <1>5, GiveBackToBucket DEF ReleaseReservation, ReleaseFails
<1>6. ASSUME UNCHANGED <<bucket, took, reservation>> PROVE BucketsConserved'
  BY <1>1, <1>6
<1> QED
  BY <1>2, <1>3, <1>4, <1>5, <1>6 DEF Next, Checkout, CheckIdempotency, ReadCached,
     VerifyAttestation, CheckRateLimit, AcquireSlot, ReleaseSlot, JoinWaitingRoom, CacheResult,
     CommandFails, Dies, ReleaseSlotOfReservation, LockExpires, ResultExpires, SessionExpires,
     Finished, vars, redis

\* BucketsConserved holds in the initial states.
LEMMA BucketsInitially == Init => BucketsConserved
<1> SUFFICES ASSUME Init, NEW b \in Buckets
             PROVE  bucket[b] >= 0 /\ bucket[b] + Cardinality(Ledger!Units(TakenFrom(b))) = InitBucket[b]
  BY DEF BucketsConserved
<1>1. TakenFrom(b) = {}
  BY DEF Init, TakenFrom, Outstanding
<1>2. Ledger!Units({}) = {}
  BY DEF Ledger!Units
<1>3. Cardinality(Ledger!Units(TakenFrom(b))) = 0
  BY <1>1, <1>2, FS_EmptySet
<1>4. InitialStock \div NumBuckets \in Nat /\ InitBucket[b] \in Nat
  BY StoreAssumption DEF InitBucket, Buckets
<1> QED
  BY <1>3, <1>4 DEF Init

GaveSlot == {r \in Returns : rpc[r] = "done"}

\* What the code really counts: every call in the pool, the same session or not.
SlotsMatchCalls ==
    /\ slotCount <= MaxSlots
    /\ faults = 0 => slotCount = Cardinality(InsidePool) - Cardinality(GaveSlot)

\* The calls in the pool, and those that gave a slot back, can be counted.
LEMMA PoolFinite ==
    /\ IsFiniteSet(InsidePool) /\ Cardinality(InsidePool) \in Nat
    /\ IsFiniteSet(GaveSlot) /\ Cardinality(GaveSlot) \in Nat
<1>1. InsidePool \in SUBSET Calls /\ GaveSlot \in SUBSET Returns
  BY DEF InsidePool, GaveSlot
<1> QED
  BY <1>1, SetsAssumption, FS_Subset, FS_CardinalityType

\* The count moves with the pool.
LEMMA PoolKept ==
    ASSUME SlotsMatchCalls, UNCHANGED <<slotCount, faults>>,
           InsidePool' = InsidePool, GaveSlot' = GaveSlot
    PROVE  SlotsMatchCalls'
BY DEF SlotsMatchCalls, GaveSlot

\* A call that enters the pool with a slot keeps the count of slots right.
LEMMA PoolGrows ==
    ASSUME Inv, SlotsMatchCalls, NEW c \in Calls \ InsidePool, InsidePool' = InsidePool \cup {c},
           slotCount + 1 <= MaxSlots, slotCount' = slotCount + 1, UNCHANGED faults,
           GaveSlot' = GaveSlot
    PROVE  SlotsMatchCalls'
<1>1. Cardinality(InsidePool') = Cardinality(InsidePool) + 1
  <2> DEFINE P == InsidePool
  <2>1. IsFiniteSet(P) /\ c \notin P /\ P' = P \cup {c}
    BY PoolFinite
  <2> HIDE DEF P
  <2>2. Cardinality(P \cup {c}) = Cardinality(P) + 1
    BY <2>1, FS_AddElement
  <2>3. Cardinality(P') = Cardinality(P) + 1
    BY <2>1, <2>2
  <2> QED
    BY <2>3 DEF P
<1>2. Cardinality(GaveSlot') = Cardinality(GaveSlot)
  OBVIOUS
<1>3. slotCount \in Int
  BY DEF Inv, TypeOK
<1> QED
  BY <1>1, <1>2, <1>3, PoolFinite DEF SlotsMatchCalls, GaveSlot

\* A call that leaves the pool and returns its slot keeps the count of slots right.
LEMMA PoolShrinks ==
    ASSUME Inv, SlotsMatchCalls, NEW c \in InsidePool, InsidePool' = InsidePool \ {c},
           slotCount' = slotCount - 1, UNCHANGED faults, GaveSlot' = GaveSlot
    PROVE  SlotsMatchCalls'
<1>1. Cardinality(InsidePool') = Cardinality(InsidePool) - 1
  <2> DEFINE P == InsidePool
  <2>1. IsFiniteSet(P) /\ c \in P /\ P' = P \ {c}
    BY PoolFinite
  <2> HIDE DEF P
  <2>2. Cardinality(P \ {c}) = Cardinality(P) - 1
    BY <2>1, FS_RemoveElement
  <2>3. Cardinality(P') = Cardinality(P) - 1
    BY <2>1, <2>2
  <2> QED
    BY <2>3 DEF P
<1>2. Cardinality(GaveSlot') = Cardinality(GaveSlot)
  OBVIOUS
<1>3. slotCount \in Int /\ MaxSlots \in Int
  BY StoreAssumption DEF Inv, TypeOK
<1> QED
  BY <1>1, <1>2, <1>3, PoolFinite DEF SlotsMatchCalls, GaveSlot

\* Every step keeps SlotsMatchCalls.
LEMMA SlotsStep == Inv /\ Inv' /\ Told /\ SlotsMatchCalls /\ [Next]_vars => SlotsMatchCalls'
<1> SUFFICES ASSUME Inv, Inv', Told, SlotsMatchCalls, [Next]_vars PROVE SlotsMatchCalls'
  OBVIOUS
<1> USE DEF Goto
<1>0. /\ pc \in [Calls -> Steps] /\ reply \in [Calls -> Replies \cup {NoReply}]
      /\ cached \in [Keys -> Replies \cup {NoReply}]
      /\ rpc \in [Returns -> {"new", "releaseSlot", "done", "notFound", "failed"}]
      /\ slotCount \in Int /\ MaxSlots \in Nat
  BY StoreAssumption DEF Inv, TypeOK
<1>r. \A c \in Calls : pc[c] \notin After => reply[c] # Completed(c)
  BY <1>0, ReplyTypes, AbsentAssumption DEF Told, Replied
<1>p. \A status \in Statuses : Plain(status) \in Replies /\ Plain(status).status = status
  BY DEF Plain, Replies
\* A fault leaves only the bound to show.
<1>1. ASSUME Fault, slotCount' <= MaxSlots PROVE SlotsMatchCalls'
  <2>1. faults' # 0
    BY <1>1 DEF Fault, Inv, TypeOK
  <2> QED
    BY <1>1, <2>1 DEF SlotsMatchCalls
\* A call outside the pool that is answered anything but "completed" stays outside.
<1>2. ASSUME NEW c \in Calls, NEW r \in Replies, r.status # "completed",
             pc[c] \in {"readCached", "attestation", "rateLimit", "acquireSlot", "joinWaitingRoom"},
             UNCHANGED <<slotCount, faults, rpc>>,
             reply' = [reply EXCEPT ![c] = r],
             NEW to \in {"done", "cacheResult"}, pc' = [pc EXCEPT ![c] = to]
      PROVE  SlotsMatchCalls'
  <2>1. r # Completed(c)
    BY <1>2 DEF Completed
  <2>2. \A d \in Calls : d \in InsidePool' <=> d \in InsidePool
    BY <1>0, <1>2, <1>r, <2>1 DEF InsidePool, After
  <2>3. InsidePool' = InsidePool /\ GaveSlot' = GaveSlot
    BY <1>2, <2>2 DEF InsidePool, GaveSlot
  <2> QED
    BY <1>2, <2>3, PoolKept
\* So does one that only goes on, and a call inside that goes on stays inside.
<1>3. ASSUME NEW c \in Calls, UNCHANGED <<slotCount, faults, rpc, reply>>,
             NEW to \in Steps, pc' = [pc EXCEPT ![c] = to],
             LET inside == {"reserveStock", "createReservation", "releaseSlot", "releaseSlotAndFail"}
             IN  pc[c] \in inside <=> to \in inside
      PROVE  SlotsMatchCalls'
  <2>1. InsidePool' = InsidePool /\ GaveSlot' = GaveSlot
    BY <1>0, <1>3 DEF InsidePool, GaveSlot
  <2> QED
    BY <1>3, <2>1, PoolKept
<1>4. ASSUME NEW c \in Calls, CheckIdempotency(c) PROVE SlotsMatchCalls'
  BY <1>3, <1>4 DEF CheckIdempotency, Steps
<1>5. ASSUME NEW c \in Calls, ReadCached(c) PROVE SlotsMatchCalls'
  <2> DEFINE r == IF cached[KeyOf[c]] = NoReply THEN Plain("idempotency_conflict")
                  ELSE [cached[KeyOf[c]] EXCEPT !.status = "idempotency_conflict"]
  <2>1. r \in Replies /\ r.status = "idempotency_conflict"
    BY <1>0, <1>p, BodyAssumption DEF Statuses, Replies
  <2>2. reply' = [reply EXCEPT ![c] = r] /\ pc' = [pc EXCEPT ![c] = "done"] /\ pc[c] = "readCached"
        /\ UNCHANGED <<slotCount, faults, rpc>>
    BY <1>5 DEF ReadCached, Respond, redis
  <2> HIDE DEF r
  <2> QED
    BY <1>2, <2>1, <2>2
<1>6. ASSUME NEW c \in Calls, VerifyAttestation(c) PROVE SlotsMatchCalls'
  BY <1>2, <1>3, <1>p, <1>6 DEF VerifyAttestation, Respond, redis, Statuses, Steps
<1>7. ASSUME NEW c \in Calls, CheckRateLimit(c) PROVE SlotsMatchCalls'
  BY <1>2, <1>3, <1>p, <1>7 DEF CheckRateLimit, Respond, redis, Statuses, Steps
<1>8. ASSUME NEW c \in Calls, AcquireSlot(c) PROVE SlotsMatchCalls'
  <2>1. CASE TakeSlot(c) /\ pc' = [pc EXCEPT ![c] = "reserveStock"] /\ UNCHANGED reply
    <3>1. pc[c] = "acquireSlot" /\ reply[c] # Completed(c) /\ UNCHANGED <<faults, rpc>>
      BY <1>8, <1>r DEF AcquireSlot, After
    <3>2. c \notin InsidePool /\ InsidePool' = InsidePool \cup {c} /\ GaveSlot' = GaveSlot
      BY <1>0, <2>1, <3>1 DEF InsidePool, GaveSlot
    <3> QED
      BY <2>1, <3>1, <3>2, PoolGrows DEF TakeSlot
  <2>2. CASE UNCHANGED slotCount /\ Goto(c, "acquireSlot", "cacheResult") /\ Respond(c, Plain("slot_full"))
    BY <1>2, <1>8, <1>p, <2>2 DEF AcquireSlot, Respond, Statuses
  <2> QED
    BY <1>8, <2>1, <2>2 DEF AcquireSlot
<1>9. ASSUME NEW c \in Calls, ReserveStock(c) PROVE SlotsMatchCalls'
  BY <1>3, <1>9 DEF ReserveStock, Steps
<1>10. ASSUME NEW c \in Calls, CreateReservation(c) PROVE SlotsMatchCalls'
  <2>1. /\ pc[c] = "createReservation" /\ pc' = [pc EXCEPT ![c] = "cacheResult"]
        /\ reply' = [reply EXCEPT ![c] = Completed(c)] /\ UNCHANGED <<slotCount, faults, rpc>>
    BY <1>10 DEF CreateReservation, Respond
  <2>2. \A d \in Calls : d \in InsidePool' <=> d \in InsidePool
    BY <1>0, <2>1 DEF InsidePool
  <2>3. InsidePool' = InsidePool /\ GaveSlot' = GaveSlot
    BY <2>1, <2>2 DEF InsidePool, GaveSlot
  <2> QED
    BY <2>1, <2>3, PoolKept
<1>11. ASSUME NEW c \in Calls, ReleaseSlot(c) PROVE SlotsMatchCalls'
  <2>1. pc[c] \in {"releaseSlot", "releaseSlotAndFail"} /\ reply[c] # Completed(c)
    BY <1>11, <1>r DEF ReleaseSlot, After
  <2>2. /\ \E to \in {"joinWaitingRoom", "done"} : pc' = [pc EXCEPT ![c] = to]
        /\ reply' = reply \/ reply' = [reply EXCEPT ![c] = Plain("error")]
        /\ slotCount' = slotCount - 1 /\ UNCHANGED <<faults, rpc>>
    BY <1>11 DEF ReleaseSlot, DropSlot, Respond
  <2>3. Plain("error") # Completed(c)
    BY DEF Plain, Completed
  <2>4. \A d \in Calls : d \in InsidePool' <=> d \in InsidePool /\ d # c
    BY <1>0, <2>1, <2>2, <2>3 DEF InsidePool
  <2>5. c \in InsidePool /\ InsidePool' = InsidePool \ {c} /\ GaveSlot' = GaveSlot
    BY <2>1, <2>2, <2>4 DEF InsidePool, GaveSlot
  <2> QED
    BY <2>2, <2>5, PoolShrinks
<1>12. ASSUME NEW c \in Calls, JoinWaitingRoom(c) PROVE SlotsMatchCalls'
  BY <1>2, <1>p, <1>12 DEF JoinWaitingRoom, Respond, Statuses
<1>13. ASSUME NEW c \in Calls, CacheResult(c) PROVE SlotsMatchCalls'
  BY <1>3, <1>13 DEF CacheResult, Steps
<1>14. ASSUME NEW c \in Calls, CommandFails(c) \/ AnswerLost(c) \/ Dies(c) PROVE SlotsMatchCalls'
  <2>1. slotCount' <= MaxSlots
    BY <1>0, <1>14 DEF CommandFails, AnswerLost, Dies, TakeSlot, SlotsMatchCalls, redis
  <2> QED
    BY <1>1, <1>14, <2>1 DEF CommandFails, AnswerLost, Dies
<1>15. ASSUME NEW r \in Returns, NEW c \in Calls, ReleaseReservation(r, c) PROVE SlotsMatchCalls'
  <2>1. /\ UNCHANGED <<slotCount, faults, pc, reply>>
        /\ \E to \in {"releaseSlot", "notFound"} : rpc' = [rpc EXCEPT ![r] = to]
        /\ rpc[r] = "new"
    BY <1>15 DEF ReleaseReservation
  <2>2. InsidePool' = InsidePool /\ GaveSlot' = GaveSlot
    BY <1>0, <2>1 DEF InsidePool, GaveSlot
  <2> QED
    BY <2>1, <2>2, PoolKept
<1>16. ASSUME NEW r \in Returns, NEW c \in Calls, ReleaseFails(r, c) PROVE SlotsMatchCalls'
  BY <1>1, <1>16 DEF ReleaseFails, SlotsMatchCalls
<1>17. ASSUME NEW r \in Returns, ReleaseSlotOfReservation(r) PROVE SlotsMatchCalls'
  <2>1. /\ UNCHANGED <<faults, pc, reply>> /\ slotCount' = slotCount - 1
        /\ rpc[r] = "releaseSlot" /\ rpc' = [rpc EXCEPT ![r] = "done"]
    BY <1>17 DEF ReleaseSlotOfReservation, DropSlot
  <2>2. InsidePool' = InsidePool /\ r \notin GaveSlot /\ GaveSlot' = GaveSlot \cup {r}
    BY <1>0, <2>1 DEF InsidePool, GaveSlot
  <2>3. Cardinality(GaveSlot') = Cardinality(GaveSlot) + 1
    <3> DEFINE G == GaveSlot
    <3>1. IsFiniteSet(G) /\ r \notin G /\ G' = G \cup {r}
      BY <2>2, PoolFinite
    <3> HIDE DEF G
    <3>2. Cardinality(G \cup {r}) = Cardinality(G) + 1
      BY <3>1, FS_AddElement
    <3>3. Cardinality(G') = Cardinality(G) + 1
      BY <3>1, <3>2
    <3> QED
      BY <3>3 DEF G
  <2>4. Cardinality(InsidePool') = Cardinality(InsidePool)
    BY <2>2
  <2> QED
    BY <1>0, <2>1, <2>3, <2>4, PoolFinite DEF SlotsMatchCalls, GaveSlot
<1>18. ASSUME UNCHANGED <<pc, reply, rpc, slotCount, faults>> PROVE SlotsMatchCalls'
  BY <1>18 DEF SlotsMatchCalls, InsidePool, GaveSlot
<1> QED
  BY <1>4, <1>5, <1>6, <1>7, <1>8, <1>9, <1>10, <1>11, <1>12, <1>13, <1>14, <1>15, <1>16, <1>17, <1>18
     DEF Next, Checkout, LockExpires, ResultExpires, SessionExpires, Finished, vars, redis

\* SlotsMatchCalls holds in the initial states.
LEMMA SlotsInitially == Init => SlotsMatchCalls
<1> SUFFICES ASSUME Init PROVE SlotsMatchCalls
  OBVIOUS
<1>1. InsidePool = {} /\ GaveSlot = {}
  BY ReplyTypes, AbsentAssumption DEF Init, InsidePool, GaveSlot
<1>2. Cardinality(InsidePool) = 0 /\ Cardinality(GaveSlot) = 0
  BY <1>1, FS_EmptySet
<1> QED
  BY <1>2, StoreAssumption DEF Init, SlotsMatchCalls, GaveSlot

\* When each session is inside once, the calls in the pool are as many as the sessions.
LEMMA SessionsOfCalls == SlotsMatchCalls => SlotsMatchSessions
<1> SUFFICES ASSUME InsideOnce PROVE Cardinality(SessionsInside) = Cardinality(InsidePool)
  BY DEF SlotsMatchCalls, SlotsMatchSessions, GaveSlot
<1> DEFINE session == [c \in InsidePool |-> UserOf[c]]
<1>1. session \in Bijection(InsidePool, SessionsInside)
  <2>1. session \in [InsidePool -> SessionsInside]
    BY DEF SessionsInside
  <2>2. \A c, d \in InsidePool : session[c] = session[d] => c = d
    BY DEF InsideOnce
  <2>3. \A u \in SessionsInside : \E c \in InsidePool : session[c] = u
    BY DEF SessionsInside
  <2> QED
    BY <2>1, <2>2, <2>3, Fun_IsBij
<1> QED
  BY <1>1, PoolFinite, FS_Bijection DEF ExistsBijection

\* Every bucket is its part of the stock less the units taken from it, and,
\* while no command fails and no session is inside twice, the slot count is
\* that of the sessions in the pool.
THEOREM CountersMatch == Spec => []CountersAgree
<1>1. Inv /\ Inv' /\ Told /\ (BucketsConserved /\ SlotsMatchCalls) /\ [Next]_vars
        => (BucketsConserved /\ SlotsMatchCalls)'
  BY BucketsStep, SlotsStep
<1>2. Init => BucketsConserved /\ SlotsMatchCalls
  BY BucketsInitially, SlotsInitially
<1>4. BucketsConserved /\ SlotsMatchCalls => CountersAgree
  BY SessionsOfCalls DEF CountersAgree
<1>3. Inv /\ Inv' /\ Told /\ [Next]_vars => Told'
  BY ToldStep
<1> QED
  BY <1>1, <1>2, <1>3, <1>4, ToldInitially, Invariance, PTL DEF Spec
=============================================================================
