------------------------------ MODULE Dispatch ------------------------------
(***************************************************************************)
(* services/dispatch-service: orders pass through two bounded channels, are *)
(* batched, matched with idle drivers, and accepted or rejected; a reject   *)
(* starts a goroutine that looks for another driver.  The state machine     *)
(* moves drivers under its lock, the matcher writes their status without    *)
(* it.  Scores are abstracted: any order and any driver may be the best     *)
(* pair.  A request that is refused changes nothing and is left out.        *)
(***************************************************************************)
EXTENDS Integers, Sequences, FiniteSets, SequencesExt, FiniteSetsExt

CONSTANTS
    Orders, Drivers,
    OffDuty,                \* the drivers that may be OFFLINE when they are added
    Accepts, Rejects,       \* requests to /dispatch/driver/accept and /reject
    OrderCap, BatchCap,     \* capacities of the two channels: 100 and 10
    MinOrders,              \* a batch of this size does not wait for the window
    MaxAttempts,
    NoDriver

ASSUME DispatchAssumption ==
    /\ IsFiniteSet(Orders) /\ NoDriver \notin Drivers
    /\ OrderCap \in Nat \ {0} /\ BatchCap \in Nat \ {0}
    /\ MinOrders \in Nat \ {0} /\ MaxAttempts \in Nat

States == {"OFFLINE", "IDLE", "ASSIGNED", "TO_HUB", "PICKING", "DELIVERING", "COMPLETED"}

ValidTransitions ==
    {<<"OFFLINE", "IDLE">>, <<"IDLE", "ASSIGNED">>, <<"IDLE", "OFFLINE">>,
     <<"ASSIGNED", "TO_HUB">>, <<"ASSIGNED", "IDLE">>, <<"ASSIGNED", "OFFLINE">>,
     <<"TO_HUB", "PICKING">>, <<"TO_HUB", "IDLE">>, <<"PICKING", "DELIVERING">>,
     <<"PICKING", "IDLE">>, <<"DELIVERING", "COMPLETED">>, <<"DELIVERING", "IDLE">>,
     <<"COMPLETED", "IDLE">>, <<"COMPLETED", "OFFLINE">>}

VARIABLES
    created,    \* created[o]: "none", "sending", "queued", or "left" the pipeline
    orders,     \* the orders channel
    pending,    \* bc.pending
    out,        \* the batch that flush is sending, <<>> when there is none
    batches,    \* the batches channel
    collector,  \* bc.run: "run", "closing" after its last flush, "done"
    stopped,    \* closeCh is closed
    match,      \* processBatches: its pc, batch, snapshot of drivers, and pairs made
    order,      \* order[o]: Status
    driver,     \* driver[d]: Status
    asg,        \* h.assignments: the assignment the matcher made for an order
    accept, reject,     \* the requests in flight; a reject goes on as its retry
    booked,     \* history: <<o, d>> while driver d has been given order o
    disturbed   \* history: drivers moved by a request or a match that came too late

pipeVars == <<created, orders, pending, out, batches, collector, stopped>>
carVars == <<driver, booked, disturbed>>
vars == <<pipeVars, match, order, carVars, asg, accept, reject>>

Idle == {d \in Drivers : driver[d] = "IDLE"}
NoMatch == [pc |-> "recv", batch |-> {}, avail |-> {}, made |-> {}]

Init ==
    /\ created = [o \in Orders |-> "none"]
    /\ orders = <<>> /\ pending = <<>> /\ out = <<>> /\ batches = <<>>
    /\ collector = "run" /\ stopped = FALSE
    /\ match = NoMatch
    /\ order = [o \in Orders |-> "PENDING"]
    /\ driver \in [Drivers -> {"OFFLINE", "IDLE"}]    \* AddDriver
    /\ \A d \in Drivers \ OffDuty : driver[d] = "IDLE"
    /\ asg = [o \in Orders |-> [driver |-> NoDriver, status |-> "NONE"]]
    /\ accept = [a \in Accepts |-> [pc |-> "new", order |-> CHOOSE o \in Orders : TRUE, driver |-> NoDriver]]
    /\ reject = [r \in Rejects |-> [pc |-> "new", order |-> CHOOSE o \in Orders : TRUE,
                                    driver |-> NoDriver, attempt |-> 0, cancelled |-> FALSE]]
    /\ booked = {} /\ disturbed = {}

-----------------------------------------------------------------------------
(* The state machine: a transition that is not in the table is an error.     *)

CanMove(d, to) == <<driver[d], to>> \in ValidTransitions
Move(d, to) == driver' = [driver EXCEPT ![d] = to]

-----------------------------------------------------------------------------
(* POST /dispatch/order, and the batch collector.                            *)

CreateOrder(o) ==
    /\ created[o] = "none"
    /\ created' = [created EXCEPT ![o] = "sending"]
    /\ UNCHANGED <<orders, pending, out, batches, collector, stopped, match, order, carVars, asg, accept, reject>>

Enqueue_Unbounded(o) ==
    /\ created[o] = "sending"
    /\ created' = [created EXCEPT ![o] = "queued"]
    /\ orders' = Append(orders, o)
    /\ UNCHANGED <<pending, out, batches, collector, stopped, match, order, carVars, asg, accept, reject>>

Enqueue(o) ==
    /\ created[o] = "sending" /\ Len(orders) < OrderCap
    /\ created' = [created EXCEPT ![o] = "queued"]
    /\ orders' = Append(orders, o)
    /\ UNCHANGED <<pending, out, batches, collector, stopped, match, order, carVars, asg, accept, reject>>

Flush_Keeps(waiting) == out' = waiting /\ pending' = waiting
Flush(waiting) == out' = waiting /\ pending' = <<>>

Collect ==
    /\ collector = "run" /\ out = <<>> /\ orders # <<>>
    /\ orders' = Tail(orders)
    /\ LET waiting == Append(pending, Head(orders))
       IN  IF Len(waiting) >= MinOrders THEN Flush(waiting)
           ELSE pending' = waiting /\ UNCHANGED out
    /\ UNCHANGED <<created, batches, collector, stopped, match, order, carVars, asg, accept, reject>>

WindowEnds_FullOnly ==
    /\ collector = "run" /\ out = <<>> /\ Len(pending) >= MinOrders
    /\ Flush(pending)
    /\ UNCHANGED <<created, orders, batches, collector, stopped, match, order, carVars, asg, accept, reject>>

WindowEnds ==
    /\ collector = "run" /\ out = <<>> /\ pending # <<>>
    /\ Flush(pending)
    /\ UNCHANGED <<created, orders, batches, collector, stopped, match, order, carVars, asg, accept, reject>>

SendBatch ==
    /\ out # <<>> /\ Len(batches) < BatchCap
    /\ batches' = Append(batches, out) /\ out' = <<>>
    /\ UNCHANGED <<created, orders, pending, collector, stopped, match, order, carVars, asg, accept, reject>>

Stop ==
    /\ ~stopped /\ stopped' = TRUE
    /\ UNCHANGED <<created, orders, pending, out, batches, collector, match, order, carVars, asg, accept, reject>>

\* select takes the closed channel at some time, not at once.
LastFlush ==
    /\ stopped /\ collector = "run" /\ out = <<>>
    /\ collector' = "closing" /\ Flush(pending)
    /\ UNCHANGED <<created, orders, batches, stopped, match, order, carVars, asg, accept, reject>>

CloseBatches ==
    /\ collector = "closing" /\ out = <<>> /\ collector' = "done"
    /\ UNCHANGED <<created, orders, pending, out, batches, stopped, match, order, carVars, asg, accept, reject>>

-----------------------------------------------------------------------------
(* processBatches and GreedyMatcher.Match.                                   *)

Leave(left) == created' = [o \in Orders |-> IF o \in left THEN "left" ELSE created[o]]

BeginMatch ==
    /\ match.pc = "recv" /\ batches # <<>>
    /\ batches' = Tail(batches)
    /\ LET batch == ToSet(Head(batches))
       IN  \/ Idle = {} /\ Leave(batch) /\ UNCHANGED match          \* skipped
           \/ Idle # {} /\ match' = [pc |-> "match", batch |-> batch, avail |-> Idle, made |-> {}]
                        /\ UNCHANGED created
    /\ UNCHANGED <<orders, pending, out, collector, stopped, order, carVars, asg, accept, reject>>

Unmatched == match.batch \ {p[1] : p \in match.made}

MatchPair(o, d) ==
    /\ match.pc = "match" /\ o \in Unmatched /\ d \in match.avail
    /\ match' = [match EXCEPT !.avail = @ \ {d}, !.made = @ \cup {<<o, d>>}]
    /\ order' = [order EXCEPT ![o] = "ASSIGNED"]
    /\ driver' = [driver EXCEPT ![d] = "ASSIGNED"]              \* no lock, no event
    /\ booked' = booked \cup {<<o, d>>}
    /\ disturbed' = IF driver[d] = "IDLE" THEN disturbed ELSE disturbed \cup {d}
    /\ UNCHANGED <<pipeVars, asg, accept, reject>>

Record ==
    /\ match.pc = "match" /\ (Unmatched = {} \/ match.avail = {})
    /\ asg' = [o \in Orders |-> IF \E d \in Drivers : <<o, d>> \in match.made
                  THEN [driver |-> CHOOSE d \in Drivers : <<o, d>> \in match.made, status |-> "PENDING"]
                  ELSE asg[o]]
    /\ order' = [o \in Orders |-> IF o \in match.batch \ Unmatched THEN "ASSIGNED" ELSE order[o]]
    /\ Leave(match.batch)
    /\ match' = NoMatch
    /\ UNCHANGED <<orders, pending, out, batches, collector, stopped, carVars, accept, reject>>

-----------------------------------------------------------------------------
(* POST /dispatch/driver/accept.  The check and the write of the assignment  *)
(* are not atomic, nor is what follows.                                      *)

GoAccept(a, from, to) == accept[a].pc = from /\ accept' = [accept EXCEPT ![a].pc = to]

AcceptCheck(a, o) ==
    /\ accept[a].pc = "new" /\ asg[o].status = "PENDING"
    /\ accept' = [accept EXCEPT ![a] = [pc |-> "mark", order |-> o, driver |-> asg[o].driver]]
    /\ UNCHANGED <<pipeVars, match, order, carVars, asg, reject>>

AcceptMark(a) ==
    /\ GoAccept(a, "mark", IF driver[accept[a].driver] = "IDLE" THEN "assign" ELSE "toHub")
    /\ asg' = [asg EXCEPT ![accept[a].order].status = "ACCEPTED"]
    /\ UNCHANGED <<pipeVars, match, order, carVars, reject>>

\* The transition before the one to the hub, for a driver that was seen idle.
AcceptAssign(a) ==
    LET d == accept[a].driver IN
    /\ \/ GoAccept(a, "assign", "toHub") /\ CanMove(d, "ASSIGNED") /\ Move(d, "ASSIGNED")
       \/ GoAccept(a, "assign", "done") /\ ~CanMove(d, "ASSIGNED") /\ UNCHANGED driver
    /\ disturbed' = disturbed \cup {d}
    /\ UNCHANGED <<pipeVars, match, order, booked, asg, reject>>

AcceptToHub(a) ==
    LET d == accept[a].driver
        o == accept[a].order
    IN  /\ \/ /\ GoAccept(a, "toHub", "dispatch") /\ CanMove(d, "TO_HUB")
              /\ Move(d, "TO_HUB")
              /\ booked' = booked \cup {<<o, d>>}
              /\ disturbed' = IF <<o, d>> \in booked THEN disturbed ELSE disturbed \cup {d}
           \/ GoAccept(a, "toHub", "done") /\ ~CanMove(d, "TO_HUB") /\ UNCHANGED carVars
        /\ UNCHANGED <<pipeVars, match, order, asg, reject>>

AcceptDispatch(a) ==
    /\ GoAccept(a, "dispatch", "cancel")
    /\ order' = [order EXCEPT ![accept[a].order] = "DISPATCHED"]
    /\ UNCHANGED <<pipeVars, match, carVars, asg, reject>>

\* Closes the channel that the waiting retries of the order share.
CancelRetry(a) ==
    /\ GoAccept(a, "cancel", "done")
    /\ reject' = [r \in Rejects |->
          IF reject[r].pc = "wait" /\ reject[r].order = accept[a].order
          THEN [reject[r] EXCEPT !.cancelled = TRUE] ELSE reject[r]]
    /\ UNCHANGED <<pipeVars, match, order, carVars, asg>>

-----------------------------------------------------------------------------
(* POST /dispatch/driver/reject, and the retry goroutine it starts.  Only    *)
(* the driver must exist: the handler trusts the three ids in the body.      *)

GoReject(r, from, to) == reject[r].pc = from /\ reject' = [reject EXCEPT ![r].pc = to]

\* The assignment is marked whatever its order and driver are; one that a retry
\* made, or that does not exist, is unknown here and nothing is marked.
RejectMark(r, o, d) ==
    /\ reject[r].pc = "new"
    /\ asg' \in {asg} \cup {[asg EXCEPT ![x].status = "REJECTED"] :
                             x \in {x \in Orders : asg[x].status # "NONE"}}
    /\ reject' = [reject EXCEPT ![r] = [@ EXCEPT !.pc = "release", !.order = o, !.driver = d]]
    /\ UNCHANGED <<pipeVars, match, order, carVars, accept>>

\* The driver is released first; only an order that was created is tracked and
\* looked for another driver.
HandleReject(r) ==
    LET d == reject[r].driver
        o == reject[r].order
    IN  /\ reject[r].pc = "release"
        /\ \/ /\ CanMove(d, "IDLE")
              /\ IF created[o] # "none"
                 THEN reject' = [reject EXCEPT ![r].pc = "retry", ![r].attempt = 1]
                 ELSE reject' = [reject EXCEPT ![r].pc = "done"]
              /\ Move(d, "IDLE")
              /\ booked' = booked \ {<<o, d>>}
              /\ disturbed' = IF <<o, d>> \in booked THEN disturbed ELSE disturbed \cup {d}
           \/ ~CanMove(d, "IDLE") /\ GoReject(r, "release", "done") /\ UNCHANGED carVars
        /\ UNCHANGED <<pipeVars, match, order, asg, accept>>

Retry(r) ==
    /\ \/ /\ reject[r].attempt > MaxAttempts /\ GoReject(r, "retry", "done")
          /\ order' = [order EXCEPT ![reject[r].order] = "FAILED"]
       \/ /\ reject[r].attempt <= MaxAttempts /\ GoReject(r, "retry", "wait")
          /\ UNCHANGED order
    /\ UNCHANGED <<pipeVars, match, carVars, asg, accept>>

Again(r, from) == reject[r].pc = from /\
    reject' = [reject EXCEPT ![r].pc = "retry", ![r].attempt = @ + 1, ![r].cancelled = FALSE]

\* The backoff ends, or the channel was closed; when both, select may take either.
Wake(r) ==
    /\ reject[r].pc = "wait"
    /\ \/ \E d \in Idle : reject' = [reject EXCEPT ![r].pc = "take", ![r].driver = d, ![r].cancelled = FALSE]
       \/ Idle = {} /\ Again(r, "wait")
       \/ reject[r].cancelled /\ GoReject(r, "wait", "done")
    /\ UNCHANGED <<pipeVars, match, order, carVars, asg, accept>>

TakeBest_Unchecked(r) ==
    LET d == reject[r].driver
        o == reject[r].order
    IN  /\ GoReject(r, "take", "done") /\ Move(d, "ASSIGNED")
        /\ order' = [order EXCEPT ![o] = "ASSIGNED"]
        /\ booked' = booked \cup {<<o, d>>}
        /\ UNCHANGED <<pipeVars, match, disturbed, asg, accept>>

TakeBest(r) ==
    LET d == reject[r].driver
        o == reject[r].order
    IN  /\ \/ /\ GoReject(r, "take", "done") /\ CanMove(d, "ASSIGNED") /\ Move(d, "ASSIGNED")
              /\ order' = [order EXCEPT ![o] = "ASSIGNED"]
              /\ booked' = booked \cup {<<o, d>>}
           \/ Again(r, "take") /\ ~CanMove(d, "ASSIGNED") /\ UNCHANGED <<order, driver, booked>>
        /\ UNCHANGED <<pipeVars, match, disturbed, asg, accept>>

-----------------------------------------------------------------------------
Pipeline ==
    \/ \E o \in Orders : Enqueue(o)
    \/ Collect \/ WindowEnds \/ SendBatch \/ LastFlush \/ CloseBatches
    \/ BeginMatch \/ Record
    \/ \E o \in Orders, d \in Drivers : MatchPair(o, d)

Next ==
    \/ Pipeline \/ Stop
    \/ \E o \in Orders : CreateOrder(o)
    \/ \E a \in Accepts :
          \/ \E o \in Orders : AcceptCheck(a, o)
          \/ AcceptMark(a) \/ AcceptAssign(a) \/ AcceptToHub(a) \/ AcceptDispatch(a) \/ CancelRetry(a)
    \/ \E r \in Rejects :
          \/ \E o \in Orders, d \in Drivers : RejectMark(r, o, d)
          \/ HandleReject(r) \/ Retry(r) \/ Wake(r) \/ TakeBest(r)

Spec == Init /\ [][Next]_vars

\* The goroutines of the pipeline are scheduled; the window's timer fires.
FairSpec == Spec /\ WF_vars(Pipeline)

-----------------------------------------------------------------------------
(* Properties.                                                               *)

\* The channels hold orders and batches within their capacities, a retry never
\* goes beyond one attempt more than MaxAttempts, and the rest has its type.
TypeOK ==
    /\ created \in [Orders -> {"none", "sending", "queued", "left"}]
    /\ Len(orders) <= OrderCap /\ Len(batches) <= BatchCap
    /\ Range(orders) \cup Range(pending) \cup Range(out) \cup UNION {Range(batches[i]) : i \in DOMAIN batches} \subseteq Orders
    /\ collector \in {"run", "closing", "done"} /\ stopped \in BOOLEAN
    /\ match.pc \in {"recv", "match"} /\ match.batch \subseteq Orders /\ match.avail \subseteq Drivers
    /\ match.made \subseteq Orders \X Drivers
    /\ order \in [Orders -> {"PENDING", "ASSIGNED", "DISPATCHED", "FAILED"}]
    /\ driver \in [Drivers -> States]
    /\ asg \in [Orders -> [driver : Drivers \cup {NoDriver}, status : {"NONE", "PENDING", "ACCEPTED", "REJECTED"}]]
    /\ \A a \in Accepts : accept[a].pc \in {"new", "mark", "assign", "toHub", "dispatch", "cancel", "done"}
    /\ \A r \in Rejects : /\ reject[r].pc \in {"new", "release", "retry", "wait", "take", "done"}
                          /\ reject[r].attempt \in 0 .. MaxAttempts + 1
    /\ booked \subseteq Orders \X Drivers /\ disturbed \subseteq Drivers

Channels == <<orders, pending, out>> \o batches
Places(s) == UNION {{i} \X DOMAIN s[i] : i \in DOMAIN s}

\* Every order that was sent and has not left the pipeline is in exactly one of
\* its places: a channel, the pending batch, the batch being sent, the matcher.
OrdersConserved ==
    \A o \in Orders :
        Cardinality({p \in Places(Channels) : Channels[p[1]][p[2]] = o}) + (IF o \in match.batch THEN 1 ELSE 0)
            = IF created[o] = "queued" THEN 1 ELSE 0

\* A driver holds two orders only after a match worked from a stale snapshot of
\* idle drivers, or after a request about an order the driver no longer held.
OneOrderPerDriver ==
    \A d \in Drivers \ disturbed :
        /\ Cardinality({o \in Orders : <<o, d>> \in booked}) <= 1
        /\ driver[d] = "IDLE" => \A o \in Orders : <<o, d>> \notin booked

\* Until the collector is stopped, every order that a request created reaches the
\* matcher, which assigns it or drops it: no send blocks for ever, and a batch
\* below MinOrders does not wait for more orders.
EveryOrderLeaves == []<>(stopped \/ \A o \in Orders : created[o] \in {"none", "left"})
=============================================================================
