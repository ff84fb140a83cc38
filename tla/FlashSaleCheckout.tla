------------------------- MODULE FlashSaleCheckout -------------------------
(***************************************************************************)
(* The checkout and release handlers of services/flash-sale, for one       *)
(* product.  Each HTTP call is a goroutine that issues Redis commands one  *)
(* after the other; a command or a Lua script is atomic, and everything    *)
(* interleaves between two of them.  pc[c] is the next command of call c.  *)
(*                                                                         *)
(* A command may fail, with or without its effect on Redis (the connection *)
(* breaks, the client goes away and cancels the request context), and the  *)
(* process that runs a call may die: both are bounded by MaxFaults.  Keys  *)
(* with a time to live may expire at any moment, MaxExpiries times a key.  *)
(* The attestation and the sliding-window limiter only decide whether the  *)
(* call goes on; either answer is possible here.                           *)
(*                                                                         *)
(* Operators named Action_Bug are mutants: the code with one bug.  Nothing *)
(* uses them; each shows that some property would notice that bug.         *)
(***************************************************************************)
EXTENDS Integers, FiniteSets

CONSTANTS
    Calls,          \* POST /flash-sale/checkout requests
    Returns,        \* POST /flash-sale/release requests
    Keys, Users, Devices,
    KeyOf, UserOf, DeviceOf, QtyOf,   \* what a call's body says
    MaxQty,
    NumBuckets,     \* defaultBucketCount
    Primary,        \* Primary[d]: the hash of device d modulo NumBuckets
    InitialStock,   \* totalStock given to InitProduct
    MaxSlots,       \* defaultMaxSlots
    MaxFaults,      \* bound: failed commands and dead processes
    MaxExpiries,    \* bound: expiries of one idempotency lock
    NoBucket, NoCall, NoReply

Buckets == 0..(NumBuckets - 1)

ASSUME SetsAssumption == IsFiniteSet(Calls) /\ IsFiniteSet(Returns) /\ NoCall \notin Calls
ASSUME BodyAssumption ==
    /\ KeyOf \in [Calls -> Keys]
    /\ UserOf \in [Calls -> Users]
    /\ DeviceOf \in [Calls -> Devices]
    /\ MaxQty \in Nat
    /\ QtyOf \in [Calls -> 1..MaxQty]   \* binding:"min=1"
ASSUME StoreAssumption ==
    /\ NumBuckets \in Nat \ {0}
    /\ Primary \in [Devices -> Buckets]
    /\ InitialStock \in Nat
    /\ MaxSlots \in Nat
    /\ NoBucket \notin Buckets
ASSUME BoundAssumption == MaxFaults \in Nat /\ MaxExpiries \in Nat

VARIABLES
    \* Redis
    total,          \* flash:total:{product}
    bucket,         \* flash:bucket:{product}:{i}
    locked,         \* the keys k for which flash:idem:k exists
    cached,         \* flash:idem:k:result, NoReply when absent
    slotCount,      \* flash:slot:count:{product}
    sessions,       \* the users for which flash:slot:session: exists
    reservation,    \* the status of the hash flash:res: that call c created
    waiting,        \* the members of flash:waiting:{product}
    \* the goroutines
    pc,             \* the next command of a checkout call
    took,           \* the bucket luaBucketDecr took from for the call
    reply,          \* the response a call has built
    rpc,            \* the next command of a release call
    target,         \* the call whose reservation a release call names
    \* bounds
    faults, expiries

redis == <<total, bucket, locked, cached, slotCount, sessions, reservation, waiting>>
vars == <<redis, pc, took, reply, rpc, target, faults, expiries>>

Statuses == {"completed", "queued", "rate_limited", "invalid_attestation",
             "idempotency_conflict", "slot_full", "error"}
Replies == [status : Statuses, reservation : Calls \cup {NoCall}]
Steps == {"idempotency", "readCached", "attestation", "rateLimit", "acquireSlot",
          "reserveStock", "createReservation", "releaseSlot", "joinWaitingRoom",
          "releaseSlotAndFail", "cacheResult", "done", "dead"}

ASSUME AbsentAssumption == NoReply \notin Replies

Plain(status) == [status |-> status, reservation |-> NoCall]
\* Mutant: a status of its own that no client knows.
Completed_Misnamed(c) == [status |-> "confirmed", reservation |-> c]
Completed(c) == [status |-> "completed", reservation |-> c]

Outstanding == {c \in Calls : took[c] # NoBucket /\ reservation[c] # "released"}
Ledger == INSTANCE StockLedger WITH
    Claims <- Calls, Size <- QtyOf, MaxSize <- MaxQty, Initial <- InitialStock,
    available <- total,
    claim <- [c \in Calls |-> IF took[c] = NoBucket THEN "none"
                              ELSE IF reservation[c] = "released" THEN "returned" ELSE "held"]

\* InitProduct spreads the stock evenly, the remainder over the first buckets.
InitBucket == [b \in Buckets |->
    InitialStock \div NumBuckets + (IF b < InitialStock % NumBuckets THEN 1 ELSE 0)]

Init ==
    /\ total = InitialStock
    /\ bucket = InitBucket
    /\ locked = {}
    /\ cached = [k \in Keys |-> NoReply]
    /\ slotCount = 0
    /\ sessions = {}
    /\ reservation = [c \in Calls |-> "none"]
    /\ waiting = {}
    /\ pc = [c \in Calls |-> "idempotency"]
    /\ took = [c \in Calls |-> NoBucket]
    /\ reply = [c \in Calls |-> NoReply]
    /\ rpc = [r \in Returns |-> "new"]
    /\ target = [r \in Returns |-> NoCall]
    /\ faults = 0
    /\ expiries = [k \in Keys |-> 0]

\* Call c goes from one command to the next, or builds its response on the way.
Goto(c, from, to) == pc[c] = from /\ pc' = [pc EXCEPT ![c] = to]
Respond(c, r) == reply' = [reply EXCEPT ![c] = r]
Fault == faults < MaxFaults /\ faults' = faults + 1

-----------------------------------------------------------------------------
(* POST /flash-sale/checkout *)

\* Mutant: GET of the lock instead of SETNX.
CheckIdempotency_NoLock(c) ==
    /\ KeyOf[c] \notin locked /\ Goto(c, "idempotency", "attestation")
    /\ UNCHANGED <<redis, took, reply, rpc, target, faults, expiries>>

\* SETNX of the lock: whoever finds it there answers a conflict.
CheckIdempotency(c) ==
    /\ \/ /\ KeyOf[c] \notin locked
          /\ locked' = locked \cup {KeyOf[c]}
          /\ Goto(c, "idempotency", "attestation")
       \/ /\ KeyOf[c] \in locked
          /\ Goto(c, "idempotency", "readCached")
          /\ UNCHANGED locked
    /\ UNCHANGED <<total, bucket, cached, slotCount, sessions, reservation, waiting,
                   took, reply, rpc, target, faults, expiries>>

\* The conflict repeats the cached response when there is one.
ReadCached(c) ==
    /\ Goto(c, "readCached", "done")
    /\ Respond(c, IF cached[KeyOf[c]] = NoReply THEN Plain("idempotency_conflict")
                  ELSE [cached[KeyOf[c]] EXCEPT !.status = "idempotency_conflict"])
    /\ UNCHANGED <<redis, took, rpc, target, faults, expiries>>

VerifyAttestation(c) ==
    /\ \/ Goto(c, "attestation", "rateLimit") /\ UNCHANGED reply
       \/ Goto(c, "attestation", "cacheResult") /\ Respond(c, Plain("invalid_attestation"))
    /\ UNCHANGED <<redis, took, rpc, target, faults, expiries>>

\* An error of the limiter counts as a refusal.
CheckRateLimit(c) ==
    /\ \/ Goto(c, "rateLimit", "acquireSlot") /\ UNCHANGED reply
       \/ Goto(c, "rateLimit", "cacheResult") /\ Respond(c, Plain("rate_limited"))
    /\ UNCHANGED <<redis, took, rpc, target, faults, expiries>>

\* luaSlotAcquire: the count is kept only when it does not exceed MaxSlots.
TakeSlot(c) ==
    /\ slotCount + 1 <= MaxSlots
    /\ slotCount' = slotCount + 1
    /\ sessions' = sessions \cup {UserOf[c]}

AcquireSlot(c) ==
    /\ \/ Goto(c, "acquireSlot", "reserveStock") /\ TakeSlot(c) /\ UNCHANGED reply
       \/ /\ slotCount + 1 > MaxSlots
          /\ Goto(c, "acquireSlot", "cacheResult")
          /\ Respond(c, Plain("slot_full"))
          /\ UNCHANGED <<slotCount, sessions>>
    /\ UNCHANGED <<total, bucket, locked, cached, reservation, waiting,
                   took, rpc, target, faults, expiries>>

\* luaBucketDecr: starting at the primary bucket of the device, the first
\* bucket that holds the whole quantity.
Probe(c, i) == (Primary[DeviceOf[c]] + i) % NumBuckets
Fits(c, i) == bucket[Probe(c, i)] >= QtyOf[c]

\* Mutant: the primary bucket is decremented, whatever it holds.
TakeStock_Unchecked(c) ==
    /\ took' = [took EXCEPT ![c] = Probe(c, 0)]
    /\ bucket' = [bucket EXCEPT ![Probe(c, 0)] = @ - QtyOf[c]]
    /\ total' = total - QtyOf[c]

TakeStock(c) ==
    /\ total >= QtyOf[c]
    /\ \E i \in Buckets :
          /\ Fits(c, i) /\ \A j \in 0..(i - 1) : ~Fits(c, j)
          /\ took' = [took EXCEPT ![c] = Probe(c, i)]
          /\ bucket' = [bucket EXCEPT ![Probe(c, i)] = @ - QtyOf[c]]
          /\ total' = total - QtyOf[c]

ReserveStock(c) ==
    /\ \/ Goto(c, "reserveStock", "createReservation") /\ TakeStock(c)
       \/ /\ total < QtyOf[c] \/ \A i \in Buckets : ~Fits(c, i)
          /\ Goto(c, "reserveStock", "releaseSlot")
          /\ UNCHANGED <<total, bucket, took>>
    /\ UNCHANGED <<locked, cached, slotCount, sessions, reservation, waiting,
                   reply, rpc, target, faults, expiries>>

\* Mutant: the answer is built, the hash is not.
CreateReservation_Skipped(c) ==
    /\ Goto(c, "createReservation", "cacheResult")
    /\ Respond(c, Completed(c))
    /\ UNCHANGED <<redis, took, rpc, target, faults, expiries>>

CreateReservation(c) ==
    /\ Goto(c, "createReservation", "cacheResult")
    /\ reservation' = [reservation EXCEPT ![c] = "reserved"]
    /\ Respond(c, Completed(c))
    /\ UNCHANGED <<total, bucket, locked, cached, slotCount, sessions, waiting,
                   took, rpc, target, faults, expiries>>

\* ReleaseSlot: DECR and DEL in one pipeline, with no condition.
DropSlot(user) == slotCount' = slotCount - 1 /\ sessions' = sessions \ {user}

ReleaseSlot(c) ==
    /\ \/ Goto(c, "releaseSlot", "joinWaitingRoom") /\ UNCHANGED reply
       \/ Goto(c, "releaseSlotAndFail", "done") /\ Respond(c, Plain("error"))
    /\ DropSlot(UserOf[c])
    /\ UNCHANGED <<total, bucket, locked, cached, reservation, waiting,
                   took, rpc, target, faults, expiries>>

\* ZADD NX and ZRANK; the order of the queue is the subject of WaitingRoom.
JoinWaitingRoom(c) ==
    /\ Goto(c, "joinWaitingRoom", "cacheResult")
    /\ waiting' = waiting \cup {UserOf[c]}
    /\ Respond(c, Plain("queued"))
    /\ UNCHANGED <<total, bucket, locked, cached, slotCount, sessions, reservation,
                   took, rpc, target, faults, expiries>>

\* Mutant: one result key for all idempotency keys.
CacheResult_SharedKey(c) ==
    /\ Goto(c, "cacheResult", "done")
    /\ cached' = [k \in Keys |-> reply[c]]
    /\ UNCHANGED <<total, bucket, locked, slotCount, sessions, reservation, waiting,
                   took, reply, rpc, target, faults, expiries>>

CacheResult(c) ==
    /\ Goto(c, "cacheResult", "done")
    /\ cached' = [cached EXCEPT ![KeyOf[c]] = reply[c]]
    /\ UNCHANGED <<total, bucket, locked, slotCount, sessions, reservation, waiting,
                   took, reply, rpc, target, faults, expiries>>

Checkout(c) ==
    \/ CheckIdempotency(c) \/ ReadCached(c) \/ VerifyAttestation(c)
    \/ CheckRateLimit(c) \/ AcquireSlot(c) \/ ReserveStock(c)
    \/ CreateReservation(c) \/ ReleaseSlot(c) \/ JoinWaitingRoom(c) \/ CacheResult(c)

-----------------------------------------------------------------------------
(* POST /flash-sale/release *)

\* Mutant: the status is not looked at.
GiveBackStock_Repeated(c) ==
    /\ reservation[c] # "none"
    /\ reservation' = [reservation EXCEPT ![c] = "released"]
    /\ bucket' = [bucket EXCEPT ![took[c]] = @ + QtyOf[c]]
    /\ total' = total + QtyOf[c]

\* Mutant: the stock goes to the primary bucket.
GiveBackStock_ToPrimary(c) ==
    /\ reservation[c] # "none"
    /\ reservation' = [reservation EXCEPT ![c] = "released"]
    /\ IF reservation[c] = "released" THEN UNCHANGED <<bucket, total>>
       ELSE /\ bucket' = [bucket EXCEPT ![Probe(c, 0)] = @ + QtyOf[c]]
            /\ total' = total + QtyOf[c]

\* luaRelease: the status decides whether the stock comes back.
GiveBackStock(c) ==
    \/ /\ reservation[c] = "reserved"
       /\ reservation' = [reservation EXCEPT ![c] = "released"]
       /\ bucket' = [bucket EXCEPT ![took[c]] = @ + QtyOf[c]]
       /\ total' = total + QtyOf[c]
    \/ /\ reservation[c] = "released"
       /\ UNCHANGED <<reservation, bucket, total>>

\* A client releases a reservation it got in a response; the script is
\* followed by ReleaseSlot whether or not it returned stock, and a missing
\* hash ends the call.
ReleaseReservation(r, c) ==
    /\ rpc[r] = "new"
    /\ pc[c] = "done" /\ reply[c] = Completed(c)
    /\ target' = [target EXCEPT ![r] = c]
    /\ \/ GiveBackStock(c) /\ rpc' = [rpc EXCEPT ![r] = "releaseSlot"]
       \/ /\ reservation[c] = "none"
          /\ rpc' = [rpc EXCEPT ![r] = "notFound"]
          /\ UNCHANGED <<reservation, bucket, total>>
    /\ UNCHANGED <<locked, cached, slotCount, sessions, waiting,
                   pc, took, reply, faults, expiries>>

ReleaseSlotOfReservation(r) ==
    /\ rpc[r] = "releaseSlot"
    /\ rpc' = [rpc EXCEPT ![r] = "done"]
    /\ DropSlot(UserOf[target[r]])
    /\ UNCHANGED <<total, bucket, locked, cached, reservation, waiting,
                   pc, took, reply, target, faults, expiries>>

-----------------------------------------------------------------------------
(* What goes wrong around the handlers *)

\* A command fails without effect: where the code looks at the error it
\* answers 500, elsewhere it goes on as if the command had worked.
Fails(c, from) ==
    IF from \in {"idempotency", "acquireSlot", "joinWaitingRoom", "releaseSlotAndFail"}
    THEN Goto(c, from, "done") /\ Respond(c, Plain("error"))
    ELSE \/ from = "readCached" /\ Goto(c, from, "done")
            /\ Respond(c, Plain("idempotency_conflict"))
         \/ from = "reserveStock" /\ Goto(c, from, "releaseSlotAndFail") /\ UNCHANGED reply
         \/ from = "createReservation" /\ Goto(c, from, "cacheResult")
            /\ Respond(c, Completed(c))
         \/ from = "releaseSlot" /\ Goto(c, from, "joinWaitingRoom") /\ UNCHANGED reply
         \/ from = "cacheResult" /\ Goto(c, from, "done") /\ UNCHANGED reply

CommandFails(c) ==
    /\ Fault /\ Fails(c, pc[c])
    /\ UNCHANGED <<redis, took, rpc, target, expiries>>

\* The command has its effect but its answer is lost, which the code takes for
\* a failure.
AnswerLost(c) ==
    /\ Fault /\ Fails(c, pc[c])
    /\ \/ /\ pc[c] = "idempotency" /\ KeyOf[c] \notin locked
          /\ locked' = locked \cup {KeyOf[c]}
          /\ UNCHANGED <<total, bucket, slotCount, sessions, took>>
       \/ /\ pc[c] = "acquireSlot" /\ TakeSlot(c)
          /\ UNCHANGED <<total, bucket, locked, took>>
       \/ /\ pc[c] = "reserveStock" /\ TakeStock(c)
          /\ UNCHANGED <<locked, slotCount, sessions>>
    /\ UNCHANGED <<cached, reservation, waiting, rpc, target, expiries>>

\* The release script fails, with or without effect, and the handler returns
\* before ReleaseSlot; or ReleaseSlot fails, which is ignored.
ReleaseFails(r, c) ==
    /\ Fault
    /\ \/ /\ rpc[r] = "new" /\ pc[c] = "done" /\ reply[c] = Completed(c)
          /\ \/ GiveBackStock(c)
             \/ UNCHANGED <<reservation, bucket, total>>
          /\ target' = [target EXCEPT ![r] = c]
       \/ /\ rpc[r] = "releaseSlot"
          /\ UNCHANGED <<reservation, bucket, total, target>>
    /\ rpc' = [rpc EXCEPT ![r] = "failed"]
    /\ UNCHANGED <<locked, cached, slotCount, sessions, waiting, pc, took, reply, expiries>>

\* The process of a call that has begun dies between two commands.
Dies(c) ==
    /\ Fault
    /\ pc[c] \notin {"idempotency", "done", "dead"}
    /\ pc' = [pc EXCEPT ![c] = "dead"]
    /\ UNCHANGED <<redis, took, reply, rpc, target, expiries>>

\* The lock lives 30 seconds, the cached result ten minutes.
LockExpires(k) ==
    /\ k \in locked /\ expiries[k] < MaxExpiries
    /\ locked' = locked \ {k}
    /\ expiries' = [expiries EXCEPT ![k] = @ + 1]
    /\ UNCHANGED <<total, bucket, cached, slotCount, sessions, reservation, waiting,
                   pc, took, reply, rpc, target, faults>>

ResultExpires(k) ==
    /\ cached[k] # NoReply
    /\ cached' = [cached EXCEPT ![k] = NoReply]
    /\ UNCHANGED <<total, bucket, locked, slotCount, sessions, reservation, waiting,
                   pc, took, reply, rpc, target, faults, expiries>>

\* The session key lives 15 minutes; the count has no time to live.
SessionExpires(u) ==
    /\ u \in sessions
    /\ sessions' = sessions \ {u}
    /\ UNCHANGED <<total, bucket, locked, cached, slotCount, reservation, waiting,
                   pc, took, reply, rpc, target, faults, expiries>>

\* Every handler has finished and every request has been made.
Finished ==
    /\ \A c \in Calls : pc[c] \in {"done", "dead"}
    /\ UNCHANGED vars

Next ==
    \/ \E c \in Calls : Checkout(c) \/ CommandFails(c) \/ AnswerLost(c) \/ Dies(c)
    \/ \E r \in Returns, c \in Calls : ReleaseReservation(r, c) \/ ReleaseFails(r, c)
    \/ \E r \in Returns : ReleaseSlotOfReservation(r)
    \/ \E k \in Keys : LockExpires(k) \/ ResultExpires(k)
    \/ \E u \in Users : SessionExpires(u)
    \/ Finished

Spec == Init /\ [][Next]_vars

-----------------------------------------------------------------------------
(* Properties *)

TypeOK ==
    /\ total \in Int /\ bucket \in [Buckets -> Int]
    /\ locked \subseteq Keys /\ cached \in [Keys -> Replies \cup {NoReply}]
    /\ slotCount \in Int /\ sessions \subseteq Users
    /\ reservation \in [Calls -> {"none", "reserved", "released"}]
    /\ waiting \subseteq Users
    /\ pc \in [Calls -> Steps]
    /\ took \in [Calls -> Buckets \cup {NoBucket}]
    /\ reply \in [Calls -> Replies \cup {NoReply}]
    /\ rpc \in [Returns -> {"new", "releaseSlot", "done", "notFound", "failed"}]
    /\ target \in [Returns -> Calls \cup {NoCall}]
    /\ faults \in 0..MaxFaults
    /\ expiries \in [Keys -> 0..MaxExpiries]

\* No oversell and no stock returned twice, whatever fails: the total and the
\* units taken by calls and not released add up to the initial stock
\* (luaBucketDecr and luaRelease, store.go:34-68).
StockConserved == Ledger!Conserved

\* The same bucket by bucket: a release gives the stock back to the bucket it
\* came from, so the total stays the sum of the buckets (store.go:43-44, 65-66).
TakenFrom(b) == {c \in Outstanding : took[c] = b}
BucketsConserved == \A b \in Buckets :
    /\ bucket[b] >= 0
    /\ bucket[b] + Cardinality(Ledger!Units(TakenFrom(b))) = InitBucket[b]

\* Checkout and release together implement the ledger: every step of theirs
\* takes a claim, gives one back, or leaves the ledger alone.
ImplementsLedger == Ledger!Spec

\* A key takes stock at most once for each time its lock was set
\* (CheckIdempotency, store.go:157-167): within the 30 seconds a retry that
\* races the first call, or follows its crash, takes nothing.
OneTakePerLock == \A k \in Keys :
    Cardinality({c \in Calls : KeyOf[c] = k /\ took[c] # NoBucket}) <= 1 + expiries[k]

\* A conflict that repeats a reservation repeats one that a call with the same
\* key really made (service.go:30-37, 82-87).
EchoIsGenuine == \A c \in Calls :
    reply[c] # NoReply /\ reply[c].reservation # NoCall =>
        LET d == reply[c].reservation
        IN  KeyOf[d] = KeyOf[c] /\ took[d] # NoBucket /\ reply[d] = Completed(d)

\* As long as no command fails and no session is inside twice, every path of
\* Checkout that gives up after AcquireSlot has given its slot back: the count
\* is that of the sessions inside the pool, minus one for each release call
\* (service.go:57-93, 110-118).  What a session that is inside twice does to
\* the count is NoDoubleAcquire's subject, below.
InsidePool == {c \in Calls :
    \/ pc[c] \in {"reserveStock", "createReservation", "releaseSlot", "releaseSlotAndFail"}
    \/ reply[c] = Completed(c)}
SessionsInside == {UserOf[c] : c \in InsidePool}
InsideOnce == \A c, d \in InsidePool : UserOf[c] = UserOf[d] => c = d
SlotsMatchSessions ==
    /\ slotCount <= MaxSlots
    /\ faults = 0 /\ InsideOnce =>
        slotCount = Cardinality(SessionsInside) - Cardinality({r \in Returns : rpc[r] = "done"})

\* Redis's counters are what the calls in flight and the reservations left of them:
\* units per bucket, and sessions in the slot pool.
CountersAgree == BucketsConserved /\ SlotsMatchSessions

\* As long as no command fails, a client that is told "completed" can release:
\* its hash exists before the answer does, and a call told anything else holds
\* no stock (service.go:76-102).
AnswersMatchStock == faults = 0 => \A c \in Calls :
    /\ reply[c] = Completed(c) => reservation[c] # "none"
    /\ pc[c] = "done" /\ reply[c] # Completed(c) => took[c] = NoBucket

-----------------------------------------------------------------------------
(* What the documentation says and the code does not do *)

\* flash-sale.md:183 says of a retry two minutes later: same result, no
\* duplicate.  One key never makes two purchases.
NoDuplicatePurchase == \A c, d \in Calls :
    c # d /\ KeyOf[c] = KeyOf[d] => ~(reply[c] = Completed(c) /\ reply[d] = Completed(d))

\* store.go:267-269 says that ReleaseSlot is safe to call multiple times; the
\* pool exists to bound the concurrent sessions (service.go:54-56).
SlotCapacity == Cardinality(sessions) <= MaxSlots

\* store.go:252-253 says that the count is undone at once when the same session
\* retries (no double-acquire).  A session occupies one slot, however many of
\* its calls are in the pool.
NoDoubleAcquire == slotCount <= Cardinality(SessionsInside)
=============================================================================
