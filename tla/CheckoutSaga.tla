---------------------------- MODULE CheckoutSaga ----------------------------
(***************************************************************************)
(* services/checkout-service: POST /checkout behind its idempotency        *)
(* middleware, the five-step saga with its compensations, POST             *)
(* /webhook/payment, and the outbox channel with its consumer goroutine.   *)
(* A request is a goroutine: it interleaves with the others between two    *)
(* Redis commands, two saga steps or two channel operations.               *)
(*                                                                         *)
(* The map of orders has no lock.  Two insertions that overlap, or a       *)
(* lookup during an insertion, are a data race: an entry of the overlap    *)
(* may be lost, the lookup may miss, the runtime may kill the process      *)
(* (Crash).  A crash loses the memory; Redis and what the other services   *)
(* were told remain.                                                       *)
(*                                                                         *)
(* Operators named Action_Bug are mutants: the code with one bug.          *)
(***************************************************************************)
EXTENDS Integers, Sequences, FiniteSets

CONSTANTS
    Requests,      \* POST /checkout requests; each makes the order of its name
    Keys, KeyOf,   \* the Idempotency-Key of a request
    Webhooks,      \* deliveries of POST /webhook/payment
    OrderOf,       \* the order a delivery names, its transaction being "txn_" + order
    Succeeded,     \* the deliveries with status "succeeded"
    MayFail,       \* the stubbed services that may refuse: "inventory", "payment"
    OutboxCap,     \* capacity of the outbox channel
    MaxMishaps,    \* bound: failed commands, expired keys and crashes, together
    NoOrder

ASSUME RequestAssumption ==
    /\ KeyOf \in [Requests -> Keys]
    /\ OrderOf \in [Webhooks -> Requests]
    /\ Succeeded \subseteq Webhooks
    /\ MayFail \subseteq {"inventory", "payment"}
    /\ NoOrder \notin Requests
ASSUME SizeAssumption ==
    /\ OutboxCap \in Nat \ {0}
    /\ MaxMishaps \in Nat

VARIABLES
    \* Redis
    locked,      \* the keys k for which idem:lock:k exists
    cached,      \* the order of idem:result:k, NoOrder when absent
    marked,      \* the orders whose transaction webhook:payment: knows
    \* the process
    orderStatus, \* the status of an order in the map, "none" when absent
    racing,      \* the requests whose map insertions overlap, {} when none runs
    outbox,      \* the buffered channel of events
    pc, echo,    \* next step or answer of a request; the order a cached answer names
    hpc,         \* next step or answer of a webhook delivery
    \* the other services
    did,         \* what inventory and payment were told for an order
    sent, consumed,   \* how often an event was enqueued, was processed
    \* bounds
    faults, expiries, crashes

redis == <<locked, cached, marked>>
events == <<outbox, sent, consumed>>
bounds == <<faults, expiries, crashes>>
sagaVars == <<redis, orderStatus, racing, events, pc, echo, hpc, did, bounds>>

EventTypes == {"order.created", "payment.charged", "payment.confirmed"}
Events == EventTypes \X Requests
Statuses == {"none", "pending", "confirmed", "cancelled"}
Steps == {"tryLock", "reserve", "create", "inserting", "charge", "confirm",
          "publishCreated", "publishCharged", "getOrder", "storeResult", "storeNil",
          "undoCharge", "undoCreate", "undoReserve"}
Answers == {"created", "cached", "conflict", "failed", "panicked", "dead"}
HookSteps == {"mark", "confirm", "send"}
HookAnswers == {"ok", "already_processed", "already_processing", "error", "dead"}

SagaInit ==
    /\ locked = {}
    /\ cached = [k \in Keys |-> NoOrder]
    /\ marked = {}
    /\ orderStatus = [r \in Requests |-> "none"]
    /\ racing = {}
    /\ outbox = <<>>
    /\ pc = [r \in Requests |-> "new"]
    /\ echo = [r \in Requests |-> NoOrder]
    /\ hpc = [w \in Webhooks |-> "new"]
    /\ did = [r \in Requests |-> {}]
    /\ sent = [e \in Events |-> 0]
    /\ consumed = [e \in Events |-> 0]
    /\ faults = 0 /\ expiries = 0 /\ crashes = 0

Goto(r, from, to) == pc[r] = from /\ pc' = [pc EXCEPT ![r] = to]
HookGoto(w, from, to) == hpc[w] = from /\ hpc' = [hpc EXCEPT ![w] = to]
Tell(r, what) == did' = [did EXCEPT ![r] = @ \cup {what}]
SetStatus(r, status) == orderStatus' = [orderStatus EXCEPT ![r] = status]

\* A Redis command may fail; the code takes the answer that lets the request go on.
MayGoWrong == faults + expiries + crashes < MaxMishaps
Fault == MayGoWrong /\ faults' = faults + 1 /\ UNCHANGED <<expiries, crashes>>

\* GetOrder: what the lookup of r's order in the map can return.
GetOrder(r) == {orderStatus[r]} \cup (IF racing = {} THEN {} ELSE {"none"})

\* outbox <- evt: blocks while the channel is full.
\* Mutant: a queue without a capacity.
Send_Unbounded(e) ==
    /\ outbox' = Append(outbox, e)
    /\ sent' = [sent EXCEPT ![e] = @ + 1]
    /\ UNCHANGED consumed
Send(e) ==
    /\ Len(outbox) < OutboxCap
    /\ outbox' = Append(outbox, e)
    /\ sent' = [sent EXCEPT ![e] = @ + 1]
    /\ UNCHANGED consumed

-----------------------------------------------------------------------------
(* The idempotency middleware *)

GetResult(r) ==
    LET stored == cached[KeyOf[r]] IN
    /\ \/ /\ stored # NoOrder
          /\ Goto(r, "new", "cached")
          /\ echo' = [echo EXCEPT ![r] = stored]
          /\ UNCHANGED bounds
       \/ /\ Goto(r, "new", "tryLock")
          /\ \/ stored = NoOrder /\ UNCHANGED bounds
             \/ Fault
          /\ UNCHANGED echo
    /\ UNCHANGED <<redis, orderStatus, racing, events, hpc, did>>

\* SETNX with a 5-second expiry; on an error the request is let through.
TryLock(r) ==
    /\ \/ /\ KeyOf[r] \in locked
          /\ Goto(r, "tryLock", "conflict")
          /\ UNCHANGED <<locked, bounds>>
       \/ /\ KeyOf[r] \notin locked
          /\ Goto(r, "tryLock", "reserve")
          /\ locked' = locked \cup {KeyOf[r]}
          /\ UNCHANGED bounds
       \/ /\ Fault
          /\ Goto(r, "tryLock", "reserve")
          /\ locked' \in {locked, locked \cup {KeyOf[r]}}
    /\ UNCHANGED <<cached, marked, orderStatus, racing, events, echo, hpc, did>>

-----------------------------------------------------------------------------
(* The saga: SagaOrchestrator.Execute over the five steps *)

ReserveInventory(r) ==
    /\ \/ Goto(r, "reserve", "create") /\ Tell(r, "reserved")
       \/ "inventory" \in MayFail /\ Goto(r, "reserve", "failed") /\ UNCHANGED did
    /\ UNCHANGED <<redis, orderStatus, racing, events, echo, hpc, bounds>>

\* s.orders[id] = order begins ...
InsertOrder(r) ==
    /\ Goto(r, "create", "inserting")
    /\ racing' = racing \cup {r}
    /\ UNCHANGED <<redis, orderStatus, events, echo, hpc, did, bounds>>

\* ... and ends.  When insertions overlap, some of their entries may be lost.
OrderInserted(r) ==
    /\ Goto(r, "inserting", "charge")
    /\ \E lost \in SUBSET (IF racing = {r} THEN {} ELSE racing) :
          orderStatus' = [q \in Requests |-> IF q \in lost THEN "none"
                                       ELSE IF q = r THEN "pending" ELSE orderStatus[q]]
    /\ racing' = IF \E q \in Requests \ {r} : pc[q] = "inserting" THEN racing ELSE {}
    /\ UNCHANGED <<redis, events, echo, hpc, did, bounds>>

\* Mutant: a refused charge is answered without compensation.
ChargePayment_NoCompensation(r) ==
    /\ \/ Goto(r, "charge", "confirm") /\ Tell(r, "charged")
       \/ "payment" \in MayFail /\ Goto(r, "charge", "failed") /\ UNCHANGED did
    /\ UNCHANGED <<redis, orderStatus, racing, events, echo, hpc, bounds>>
ChargePayment(r) ==
    /\ \/ Goto(r, "charge", "confirm") /\ Tell(r, "charged")
       \/ "payment" \in MayFail /\ Goto(r, "charge", "undoCreate") /\ UNCHANGED did
    /\ UNCHANGED <<redis, orderStatus, racing, events, echo, hpc, bounds>>

\* Fails when the map no longer has the order.
\* Mutant: the last completed step is left out of the compensation.
ConfirmOrder_OffByOne(r) ==
    /\ \E found \in GetOrder(r) :
          \/ found # "none" /\ Goto(r, "confirm", "publishCreated") /\ SetStatus(r, "confirmed")
          \/ found = "none" /\ Goto(r, "confirm", "undoCreate") /\ UNCHANGED orderStatus
    /\ UNCHANGED <<redis, racing, events, echo, hpc, did, bounds>>
ConfirmOrder(r) ==
    /\ \E found \in GetOrder(r) :
          \/ found # "none" /\ Goto(r, "confirm", "publishCreated") /\ SetStatus(r, "confirmed")
          \/ found = "none" /\ Goto(r, "confirm", "undoCharge") /\ UNCHANGED orderStatus
    /\ UNCHANGED <<redis, racing, events, echo, hpc, did, bounds>>

\* Mutant: the two events change places.
PublishEvents_Swapped(r) ==
    /\ \/ /\ Goto(r, "publishCreated", "publishCharged")
          /\ Send(<<"payment.charged", r>>)
       \/ /\ Goto(r, "publishCharged", "getOrder")
          /\ Send(<<"order.created", r>>)
    /\ UNCHANGED <<redis, orderStatus, racing, echo, hpc, did, bounds>>
PublishEvents(r) ==
    /\ \/ /\ Goto(r, "publishCreated", "publishCharged")
          /\ Send(<<"order.created", r>>)
       \/ /\ Goto(r, "publishCharged", "getOrder")
          /\ Send(<<"payment.charged", r>>)
    /\ UNCHANGED <<redis, orderStatus, racing, echo, hpc, did, bounds>>

\* SagaOrchestrator.compensate, one completed step at a time, last one first.
RefundPayment(r) ==
    /\ Goto(r, "undoCharge", "undoCreate")
    /\ Tell(r, "refunded")
    /\ UNCHANGED <<redis, orderStatus, racing, events, echo, hpc, bounds>>

CancelOrder(r) ==
    /\ Goto(r, "undoCreate", "undoReserve")
    /\ \E found \in GetOrder(r) :
          IF found = "none" THEN UNCHANGED orderStatus ELSE SetStatus(r, "cancelled")
    /\ UNCHANGED <<redis, racing, events, echo, hpc, did, bounds>>

\* Mutant: the result of a failed saga is cached as well.
ReleaseInventory_Cached(r) ==
    /\ Goto(r, "undoReserve", "failed")
    /\ Tell(r, "released")
    /\ cached' = [cached EXCEPT ![KeyOf[r]] = r]
    /\ UNCHANGED <<locked, marked, orderStatus, racing, events, echo, hpc, bounds>>
ReleaseInventory(r) ==
    /\ Goto(r, "undoReserve", "failed")
    /\ Tell(r, "released")
    /\ UNCHANGED <<redis, orderStatus, racing, events, echo, hpc, bounds>>

-----------------------------------------------------------------------------
(* The end of a successful checkout *)

\* NewOrder looks the order up for the result; a miss leaves result.Order nil.
FetchOrder(r) ==
    /\ \E found \in GetOrder(r) :
          Goto(r, "getOrder", IF found = "none" THEN "storeNil" ELSE "storeResult")
    /\ UNCHANGED <<redis, orderStatus, racing, events, echo, hpc, did, bounds>>

\* StoreResult, then 201, or a panic on the nil order.
StoreResult(r) ==
    /\ \/ Goto(r, "storeResult", "created")
       \/ Goto(r, "storeNil", "panicked")
    /\ \/ /\ cached' = [cached EXCEPT ![KeyOf[r]] = r]
          /\ UNCHANGED bounds
       \/ /\ Fault
          /\ cached' \in {cached, [cached EXCEPT ![KeyOf[r]] = r]}
    /\ UNCHANGED <<locked, marked, orderStatus, racing, events, echo, hpc, did>>

-----------------------------------------------------------------------------
(* POST /webhook/payment: the gateway has charged the order it names *)

IsWebhookProcessed(w) ==
    /\ "charged" \in did[OrderOf[w]]
    /\ \/ /\ OrderOf[w] \in marked
          /\ HookGoto(w, "new", "already_processed")
          /\ UNCHANGED bounds
       \/ /\ HookGoto(w, "new", "mark")
          /\ \/ OrderOf[w] \notin marked /\ UNCHANGED bounds
             \/ Fault
    /\ UNCHANGED <<redis, orderStatus, racing, events, pc, echo, did>>

MarkedNext(w) == HookGoto(w, "mark", IF w \in Succeeded THEN "confirm" ELSE "ok")
\* Mutant: the answer of SETNX is ignored.
MarkWebhookProcessed_Ignored(w) ==
    /\ MarkedNext(w)
    /\ marked' = marked \cup {OrderOf[w]}
    /\ UNCHANGED <<locked, cached, orderStatus, racing, events, pc, echo, did, bounds>>
MarkWebhookProcessed(w) ==
    /\ \/ /\ OrderOf[w] \in marked
          /\ HookGoto(w, "mark", "already_processing")
          /\ UNCHANGED <<marked, bounds>>
       \/ /\ OrderOf[w] \notin marked
          /\ MarkedNext(w)
          /\ marked' = marked \cup {OrderOf[w]}
          /\ UNCHANGED bounds
       \/ /\ Fault
          /\ MarkedNext(w)
          /\ marked' \in {marked, marked \cup {OrderOf[w]}}
    /\ UNCHANGED <<locked, cached, orderStatus, racing, events, pc, echo, did>>

\* Mutant: a pending order is good enough.
ConfirmPayment_Pending(w) ==
    /\ \E found \in GetOrder(OrderOf[w]) :
          HookGoto(w, "confirm", IF found \in {"pending", "confirmed"} THEN "send" ELSE "error")
    /\ UNCHANGED <<redis, orderStatus, racing, events, pc, echo, did, bounds>>
ConfirmPayment(w) ==
    /\ \E found \in GetOrder(OrderOf[w]) :
          HookGoto(w, "confirm", IF found = "confirmed" THEN "send" ELSE "error")
    /\ UNCHANGED <<redis, orderStatus, racing, events, pc, echo, did, bounds>>

SendConfirmation(w) ==
    /\ HookGoto(w, "send", "ok")
    /\ Send(<<"payment.confirmed", OrderOf[w]>>)
    /\ UNCHANGED <<redis, orderStatus, racing, pc, echo, did, bounds>>

-----------------------------------------------------------------------------
(* The consumer, time, and crashes *)

\* Mutant: the consumer reads one event and returns.
ConsumeOutbox_Once ==
    /\ outbox # <<>>
    /\ \A e \in Events : consumed[e] = 0
    /\ outbox' = Tail(outbox)
    /\ consumed' = [consumed EXCEPT ![Head(outbox)] = @ + 1]
    /\ UNCHANGED <<redis, orderStatus, racing, sent, pc, echo, hpc, did, bounds>>
ConsumeOutbox ==
    /\ outbox # <<>>
    /\ outbox' = Tail(outbox)
    /\ consumed' = [consumed EXCEPT ![Head(outbox)] = @ + 1]
    /\ UNCHANGED <<redis, orderStatus, racing, sent, pc, echo, hpc, did, bounds>>

\* The lock after 5 seconds, a result or a webhook mark after 24 hours.
Expire ==
    /\ MayGoWrong
    /\ expiries' = expiries + 1
    /\ \/ \E k \in locked : locked' = locked \ {k} /\ UNCHANGED <<cached, marked>>
       \/ \E k \in Keys : /\ cached[k] # NoOrder
                          /\ cached' = [cached EXCEPT ![k] = NoOrder]
                          /\ UNCHANGED <<locked, marked>>
       \/ \E r \in marked : marked' = marked \ {r} /\ UNCHANGED <<locked, cached>>
    /\ UNCHANGED <<orderStatus, racing, events, pc, echo, hpc, did, faults, crashes>>

Crash ==
    /\ MayGoWrong
    /\ crashes' = crashes + 1
    /\ orderStatus' = [r \in Requests |-> "none"]
    /\ racing' = {}
    /\ outbox' = <<>>
    /\ pc' = [r \in Requests |-> IF pc[r] \in Steps THEN "dead" ELSE pc[r]]
    /\ hpc' = [w \in Webhooks |-> IF hpc[w] \in HookSteps THEN "dead" ELSE hpc[w]]
    /\ UNCHANGED <<redis, sent, consumed, echo, did, faults, expiries>>

Execute(r) ==
    \/ ReserveInventory(r) \/ InsertOrder(r) \/ OrderInserted(r) \/ ChargePayment(r)
    \/ ConfirmOrder(r) \/ PublishEvents(r)
    \/ RefundPayment(r) \/ CancelOrder(r) \/ ReleaseInventory(r)
Checkout(r) == TryLock(r) \/ Execute(r) \/ FetchOrder(r) \/ StoreResult(r)
Webhook(w) == MarkWebhookProcessed(w) \/ ConfirmPayment(w) \/ SendConfirmation(w)

SagaNext ==
    \/ \E r \in Requests : GetResult(r) \/ Checkout(r)
    \/ \E w \in Webhooks : IsWebhookProcessed(w) \/ Webhook(w)
    \/ ConsumeOutbox
    \/ Expire
    \/ Crash

\* The runtime does not idle while some goroutine can go on; nobody has to send
\* a request.
Run == \/ \E r \in Requests : Checkout(r)
       \/ \E w \in Webhooks : Webhook(w)
       \/ ConsumeOutbox
Fairness == WF_sagaVars(Run)

SagaSpec == SagaInit /\ [][SagaNext]_sagaVars /\ Fairness

-----------------------------------------------------------------------------
(* Properties *)

\* Every variable holds what its declaration says, and the channel respects
\* its capacity.
BoundsOK == {faults, expiries, crashes} \subseteq Nat /\ faults + expiries + crashes <= MaxMishaps
ChannelOK == outbox \in Seq(Events) /\ Len(outbox) <= OutboxCap
CountsOK == sent \in [Events -> Nat] /\ consumed \in [Events -> Nat]
SagaTypeOK ==
    /\ locked \subseteq Keys
    /\ cached \in [Keys -> Requests \cup {NoOrder}]
    /\ marked \subseteq Requests
    /\ orderStatus \in [Requests -> Statuses]
    /\ racing \subseteq Requests
    /\ pc \in [Requests -> {"new"} \cup Steps \cup Answers]
    /\ echo \in [Requests -> Requests \cup {NoOrder}]
    /\ hpc \in [Webhooks -> {"new"} \cup HookSteps \cup HookAnswers]
    /\ did \in [Requests -> SUBSET {"reserved", "released", "charged", "refunded"}]
    /\ ChannelOK /\ CountsOK /\ BoundsOK

StockHeld(r) == "reserved" \in did[r] /\ "released" \notin did[r]
Charged(r) == "charged" \in did[r] /\ "refunded" \notin did[r]

\* A cached answer names an order made under the same key by a saga that went
\* through: paid, not refunded, its events enqueued.
EchoIsGenuine ==
    \A r \in Requests : pc[r] = "cached" =>
        /\ KeyOf[echo[r]] = KeyOf[r]
        /\ Charged(echo[r])
        /\ sent[<<"payment.charged", echo[r]>>] = 1

\* A checkout answered with a failure has been undone in full: no stock held, no
\* money taken, no confirmed order, no event about it.
FailureIsUndone ==
    \A r \in Requests : pc[r] = "failed" =>
        /\ ~StockHeld(r) /\ ~Charged(r)
        /\ orderStatus[r] # "confirmed"
        /\ \A t \in EventTypes : sent[<<t, r>>] = 0

\* At no moment, in the middle of a compensation or after a crash, has somebody
\* paid for stock that is not held or for an order already cancelled.
PaidIsHeld ==
    \A r \in Requests : Charged(r) => StockHeld(r) /\ orderStatus[r] # "cancelled"

\* The consumer sees an order created once and before its charge, whoever else
\* writes to the channel; a checkout answered 201 has enqueued both events.
EventsInOrder ==
    \A r \in Requests :
        LET created == <<"order.created", r>>
            charged == <<"payment.charged", r>>
        IN /\ consumed[charged] <= consumed[created] /\ consumed[created] <= 1
           /\ pc[r] \in {"created", "panicked"} => sent[created] = 1 /\ sent[charged] = 1

\* However often the gateway delivers a webhook, its payment is confirmed once,
\* plus once for every failed command and every expired mark.
ConfirmedOnce ==
    \A r \in Requests : sent[<<"payment.confirmed", r>>] <= 1 + faults + expiries

\* A confirmed payment is never that of a checkout that fails: the webhook cannot
\* overtake a saga that is rolled back.
ConfirmedPaymentStands ==
    \A r \in Requests : sent[<<"payment.confirmed", r>>] > 0 =>
        Charged(r) /\ pc[r] # "failed" /\ orderStatus[r] # "cancelled"

\* Every request and delivery that has begun is answered, or dies in a crash,
\* though the channel it writes to may be full: again and again nobody waits.
EveryoneAnswered ==
    []<>(/\ \A r \in Requests : pc[r] \notin Steps
         /\ \A w \in Webhooks : hpc[w] \notin HookSteps)

\* redis.go:84: a mark "records that a webhook has been processed".  When all the
\* deliveries about an order have been answered, and one with "already processed",
\* its payment has been confirmed.
ProcessedMeansConfirmed ==
    \A r \in Requests :
        LET deliveries == {w \in Webhooks : OrderOf[w] = r}
        IN (/\ \A w \in deliveries : hpc[w] \in HookAnswers
            /\ \E w \in deliveries : hpc[w] = "already_processed")
           => sent[<<"payment.confirmed", r>>] > 0
=============================================================================
