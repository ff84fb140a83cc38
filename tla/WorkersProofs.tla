--------------------------- MODULE WorkersProofs ----------------------------
(***************************************************************************)
(* Dispatch for any number of orders, drivers, requests and attempts, and   *)
(* any capacity of its channels: the types, that a driver has one order,    *)
(* that no order is lost on its way.                                        *)
(* The crawler for any web and any number of workers: its pages fit, and    *)
(* no page is stored twice.  A behaviour of MCWorkers is one of each.       *)
(***************************************************************************)
EXTENDS MCWorkers, FiniteSetTheorems, TLAPS

\* Before a request arrives its order is whatever Init chose.
Named == Orders \cup {CHOOSE o \in Orders : TRUE}

PipeTyped ==
    /\ created \in [Orders -> {"none", "sending", "queued", "left"}]
    /\ orders \in Seq(Orders) /\ pending \in Seq(Orders) /\ out \in Seq(Orders)
    /\ batches \in Seq(Seq(Orders))
    /\ Len(orders) <= OrderCap /\ Len(batches) <= BatchCap
    /\ collector \in {"run", "closing", "done"} /\ stopped \in BOOLEAN

MatchTyped ==
    /\ match \in [pc : {"recv", "match"}, batch : SUBSET Orders, avail : SUBSET Drivers,
                  made : SUBSET (Orders \X Drivers)]
    /\ order \in [Orders -> {"PENDING", "ASSIGNED", "DISPATCHED", "FAILED"}]
    /\ asg \in [Orders -> [driver : Drivers \cup {NoDriver}, status : {"NONE", "PENDING", "ACCEPTED", "REJECTED"}]]
    /\ \A o \in Orders : asg[o].status = "PENDING" => asg[o].driver \in Drivers

CarsTyped ==
    /\ driver \in [Drivers -> States]
    /\ booked \subseteq Orders \X Drivers /\ disturbed \subseteq Drivers

AcceptsTyped ==
    /\ accept \in [Accepts -> [pc : {"new", "mark", "assign", "toHub", "dispatch", "cancel", "done"},
                               order : Named, driver : Drivers \cup {NoDriver}]]
    /\ \A a \in Accepts : accept[a].pc # "new" => accept[a].order \in Orders /\ accept[a].driver \in Drivers

RejectsTyped ==
    /\ reject \in [Rejects -> [pc : {"new", "release", "retry", "wait", "take", "done"}, order : Named,
                               driver : Drivers \cup {NoDriver}, attempt : 0 .. MaxAttempts + 1, cancelled : BOOLEAN]]
    /\ \A r \in Rejects : /\ reject[r].pc # "new" => reject[r].order \in Orders /\ reject[r].driver \in Drivers
                          /\ reject[r].pc \in {"wait", "take"} => reject[r].attempt <= MaxAttempts

Typed == PipeTyped /\ MatchTyped /\ CarsTyped /\ AcceptsTyped /\ RejectsTyped

\* Typed holds in the initial states.
LEMMA Initially == Init => Typed
<1> SUFFICES ASSUME Init PROVE Typed
  OBVIOUS
<1>1. PipeTyped
  <2>1. <<>> \in Seq(Orders) /\ <<>> \in Seq(Seq(Orders)) /\ Len(<<>>) = 0
    OBVIOUS
  <2>2. 0 <= OrderCap /\ 0 <= BatchCap
    BY DispatchAssumption
  <2> QED
    BY <2>1, <2>2 DEF Init, PipeTyped
<1>2. MatchTyped
  BY DEF Init, MatchTyped, NoMatch
<1>3. CarsTyped
  BY DEF Init, CarsTyped, States
<1>4. AcceptsTyped
  BY DEF Init, AcceptsTyped, Named
<1>5. RejectsTyped
  BY DispatchAssumption DEF Init, RejectsTyped, Named
<1> QED
  BY <1>1, <1>2, <1>3, <1>4, <1>5 DEF Typed

\* Every step keeps PipeTyped.
LEMMA PipePreserved == ASSUME PipeTyped, MatchTyped, [Next]_vars PROVE PipeTyped'
<1> USE DEF PipeTyped
<1>1. ASSUME NEW o \in Orders, CreateOrder(o) \/ Enqueue(o) PROVE PipeTyped'
  <2>1. Append(orders, o) \in Seq(Orders) /\ Len(Append(orders, o)) = Len(orders) + 1 /\ Len(orders) \in Nat
    OBVIOUS
  <2>2. Len(orders) < OrderCap => Len(orders) + 1 <= OrderCap
    BY <2>1, DispatchAssumption
  <2>3. CASE CreateOrder(o)
    BY <2>3 DEF CreateOrder
  <2>4. CASE Enqueue(o)
    BY <2>4, <2>1, <2>2 DEF Enqueue
  <2> QED
    BY <1>1, <2>3, <2>4
<1>2. CASE Collect
  <2>1. orders # <<>> /\ Head(orders) \in Orders /\ Tail(orders) \in Seq(Orders) /\ Len(Tail(orders)) <= OrderCap
    BY <1>2, DispatchAssumption DEF Collect
  <2>2. Append(pending, Head(orders)) \in Seq(Orders)
    BY <2>1
  <2> QED
    BY <1>2, <2>1, <2>2 DEF Collect, Flush
<1>3. CASE WindowEnds \/ LastFlush \/ CloseBatches \/ Stop
  BY <1>3 DEF WindowEnds, LastFlush, CloseBatches, Stop, Flush
<1>4. CASE SendBatch
  <2>1. /\ Append(batches, out) \in Seq(Seq(Orders)) /\ <<>> \in Seq(Orders)
        /\ Len(Append(batches, out)) = Len(batches) + 1 /\ Len(batches) \in Nat
    OBVIOUS
  <2>2. Len(batches) < BatchCap => Len(batches) + 1 <= BatchCap
    BY <2>1, DispatchAssumption
  <2> QED
    BY <1>4, <2>1, <2>2 DEF SendBatch
<1>5. CASE BeginMatch
  <2>1. Tail(batches) \in Seq(Seq(Orders)) /\ Len(Tail(batches)) <= BatchCap
    BY <1>5, DispatchAssumption DEF BeginMatch
  <2> QED
    BY <1>5, <2>1 DEF BeginMatch, Leave
<1>6. CASE Record
  BY <1>6 DEF Record, Leave
<1>7. CASE UNCHANGED pipeVars
  BY <1>7 DEF pipeVars
<1>8. ASSUME NEW o \in Orders, NEW d \in Drivers, MatchPair(o, d) PROVE UNCHANGED pipeVars
  BY <1>8 DEF MatchPair
<1>9. ASSUME NEW a \in Accepts, \/ \E o \in Orders : AcceptCheck(a, o)
                                \/ AcceptMark(a) \/ AcceptAssign(a) \/ AcceptToHub(a) \/ AcceptDispatch(a) \/ CancelRetry(a)
      PROVE UNCHANGED pipeVars
  BY <1>9 DEF AcceptCheck, AcceptMark, AcceptAssign, AcceptToHub, AcceptDispatch, CancelRetry
<1>10. ASSUME NEW r \in Rejects, \/ \E o \in Orders, d \in Drivers : RejectMark(r, o, d)
                                 \/ HandleReject(r) \/ Retry(r) \/ Wake(r) \/ TakeBest(r)
       PROVE UNCHANGED pipeVars
  BY <1>10 DEF RejectMark, HandleReject, Retry, Wake, TakeBest
<1>11. UNCHANGED vars => UNCHANGED pipeVars
  BY DEF vars
<1> QED
  BY <1>1, <1>2, <1>3, <1>4, <1>5, <1>6, <1>7, <1>8, <1>9, <1>10, <1>11 DEF Next, Pipeline

-----------------------------------------------------------------------------
(* Each lemma below has one step for each action that changes its variables, *)
(* and one for all the others.                                              *)

\* Every step keeps MatchTyped.
LEMMA MatchPreserved == ASSUME Typed, [Next]_vars PROVE MatchTyped'
<1> USE DEF Typed, MatchTyped
<1>1. CASE BeginMatch
  <2>1. batches # <<>> /\ Head(batches) \in Seq(Orders)
    BY <1>1 DEF BeginMatch, PipeTyped
  <2>2. ToSet(Head(batches)) \subseteq Orders
    BY <2>1 DEF ToSet
  <2>3. UNCHANGED <<order, asg>>
    BY <1>1 DEF BeginMatch
  <2>4. match' \in [pc : {"recv", "match"}, batch : SUBSET Orders, avail : SUBSET Drivers,
                    made : SUBSET (Orders \X Drivers)]
    BY <1>1, <2>2 DEF BeginMatch, Idle
  <2> QED
    BY <2>3, <2>4
<1>2. ASSUME NEW o \in Orders, NEW d \in Drivers, MatchPair(o, d) PROVE MatchTyped'
  <2>1. UNCHANGED asg /\ order' \in [Orders -> {"PENDING", "ASSIGNED", "DISPATCHED", "FAILED"}]
    BY <1>2 DEF MatchPair
  <2>2. match' = [match EXCEPT !.avail = @ \ {d}, !.made = @ \cup {<<o, d>>}]
    BY <1>2 DEF MatchPair
  <2>3. match.avail \ {d} \in SUBSET Drivers /\ match.made \cup {<<o, d>>} \in SUBSET (Orders \X Drivers)
    OBVIOUS
  <2>4. match' \in [pc : {"recv", "match"}, batch : SUBSET Orders, avail : SUBSET Drivers,
                    made : SUBSET (Orders \X Drivers)]
    BY <2>2, <2>3
  <2> QED
    BY <2>1, <2>4
<1>3. CASE Record
  <2>1. match' = NoMatch /\ order' \in [Orders -> {"PENDING", "ASSIGNED", "DISPATCHED", "FAILED"}]
    BY <1>3 DEF Record
  <2>2. ASSUME NEW o \in Orders
        PROVE /\ asg'[o] \in [driver : Drivers \cup {NoDriver}, status : {"NONE", "PENDING", "ACCEPTED", "REJECTED"}]
              /\ asg'[o].status = "PENDING" => asg'[o].driver \in Drivers
    <3>1. CASE \E d \in Drivers : <<o, d>> \in match.made
      <4>1. asg'[o] = [driver |-> CHOOSE d \in Drivers : <<o, d>> \in match.made, status |-> "PENDING"]
        BY <1>3, <3>1 DEF Record
      <4>2. (CHOOSE d \in Drivers : <<o, d>> \in match.made) \in Drivers
        BY <3>1
      <4> QED
        BY <4>1, <4>2
    <3>2. CASE ~ \E d \in Drivers : <<o, d>> \in match.made
      BY <1>3, <3>2 DEF Record
    <3> QED
      BY <3>1, <3>2
  <2>3. asg' = [o \in Orders |-> asg'[o]]
    BY <1>3 DEF Record
  <2> QED
    BY <2>1, <2>2, <2>3 DEF NoMatch
<1>4. ASSUME NEW a \in Accepts, AcceptMark(a) PROVE MatchTyped'
  <2>1. accept[a].order \in Orders
    BY <1>4 DEF AcceptMark, GoAccept, AcceptsTyped
  <2> QED
    BY <1>4, <2>1 DEF AcceptMark
<1>5. ASSUME NEW a \in Accepts, AcceptDispatch(a) PROVE MatchTyped'
  BY <1>5 DEF AcceptDispatch
<1>6. ASSUME NEW r \in Rejects, NEW o \in Orders, NEW d \in Drivers, RejectMark(r, o, d) PROVE MatchTyped'
  <2>1. UNCHANGED <<match, order>>
    BY <1>6 DEF RejectMark
  <2>2. ASSUME NEW x \in Orders, asg' = [asg EXCEPT ![x].status = "REJECTED"] PROVE MatchTyped'
    BY <2>1, <2>2
  <2> QED
    BY <1>6, <2>1, <2>2 DEF RejectMark
<1>7. ASSUME NEW r \in Rejects, Retry(r) \/ TakeBest(r) PROVE MatchTyped'
  BY <1>7 DEF Retry, TakeBest
<1>8. CASE UNCHANGED <<match, order, asg>>
  BY <1>8
<1>9. CASE Pipeline
  BY <1>9, <1>1, <1>2, <1>3, <1>8 DEF Pipeline, Enqueue, Collect, WindowEnds, SendBatch, LastFlush, CloseBatches
<1>10. ASSUME NEW a \in Accepts, \/ \E o \in Orders : AcceptCheck(a, o)
                                 \/ AcceptAssign(a) \/ AcceptToHub(a) \/ CancelRetry(a)
       PROVE UNCHANGED <<match, order, asg>>
  BY <1>10 DEF AcceptCheck, AcceptAssign, AcceptToHub, CancelRetry
<1>11. ASSUME NEW r \in Rejects, HandleReject(r) \/ Wake(r) PROVE UNCHANGED <<match, order, asg>>
  BY <1>11 DEF HandleReject, Wake
<1>12. (Stop \/ (\E o \in Orders : CreateOrder(o)) \/ UNCHANGED vars) => UNCHANGED <<match, order, asg>>
  BY DEF Stop, CreateOrder, vars
<1> QED
  BY <1>4, <1>5, <1>6, <1>7, <1>8, <1>9, <1>10, <1>11, <1>12 DEF Next

\* Every step keeps CarsTyped.
LEMMA CarsPreserved == ASSUME Typed, [Next]_vars PROVE CarsTyped'
<1> USE DEF Typed, CarsTyped, States
<1>1. ASSUME NEW o \in Orders, NEW d \in Drivers, MatchPair(o, d) PROVE CarsTyped'
  BY <1>1 DEF MatchPair
<1>2. ASSUME NEW a \in Accepts, AcceptAssign(a) \/ AcceptToHub(a) PROVE CarsTyped'
  <2>1. accept[a].order \in Orders /\ accept[a].driver \in Drivers
    BY <1>2 DEF AcceptAssign, AcceptToHub, GoAccept, AcceptsTyped
  <2> QED
    BY <1>2, <2>1 DEF AcceptAssign, AcceptToHub, Move, carVars
<1>3. ASSUME NEW r \in Rejects, HandleReject(r) \/ TakeBest(r) PROVE CarsTyped'
  <2>1. reject[r].order \in Orders /\ reject[r].driver \in Drivers
    BY <1>3 DEF HandleReject, TakeBest, GoReject, Again, RejectsTyped
  <2> QED
    BY <1>3, <2>1 DEF HandleReject, TakeBest, Move, carVars
<1>4. CASE UNCHANGED carVars
  BY <1>4 DEF carVars
<1>5. CASE Pipeline
  BY <1>5, <1>1, <1>4 DEF Pipeline, Enqueue, Collect, WindowEnds, SendBatch, LastFlush, CloseBatches, BeginMatch, Record
<1>6. ASSUME NEW a \in Accepts, \/ \E o \in Orders : AcceptCheck(a, o)
                                \/ AcceptMark(a) \/ AcceptDispatch(a) \/ CancelRetry(a)
      PROVE UNCHANGED carVars
  BY <1>6 DEF AcceptCheck, AcceptMark, AcceptDispatch, CancelRetry
<1>7. ASSUME NEW r \in Rejects, (\E o \in Orders, d \in Drivers : RejectMark(r, o, d)) \/ Retry(r) \/ Wake(r)
      PROVE UNCHANGED carVars
  BY <1>7 DEF RejectMark, Retry, Wake
<1>8. (Stop \/ (\E o \in Orders : CreateOrder(o)) \/ UNCHANGED vars) => UNCHANGED carVars
  BY DEF Stop, CreateOrder, vars
<1> QED
  BY <1>2, <1>3, <1>4, <1>5, <1>6, <1>7, <1>8 DEF Next

\* Every step keeps AcceptsTyped.
LEMMA AcceptsPreserved == ASSUME Typed, [Next]_vars PROVE AcceptsTyped'
<1> USE DEF Typed, AcceptsTyped
<1>1. ASSUME NEW a \in Accepts, NEW o \in Orders, AcceptCheck(a, o) PROVE AcceptsTyped'
  BY <1>1, DispatchAssumption DEF AcceptCheck, MatchTyped, Named
<1>2. ASSUME NEW a \in Accepts, AcceptMark(a) \/ AcceptAssign(a) \/ AcceptToHub(a) \/ AcceptDispatch(a) \/ CancelRetry(a)
      PROVE AcceptsTyped'
  <2>1. PICK p \in {"assign", "toHub", "dispatch", "cancel", "done"} :
           accept[a].pc # "new" /\ accept' = [accept EXCEPT ![a].pc = p]
    BY <1>2 DEF AcceptMark, AcceptAssign, AcceptToHub, AcceptDispatch, CancelRetry, GoAccept
  <2> QED
    BY <2>1
<1>3. CASE UNCHANGED accept
  BY <1>3
<1>4. CASE Pipeline
  BY <1>4, <1>3 DEF Pipeline, Enqueue, Collect, WindowEnds, SendBatch, LastFlush, CloseBatches, BeginMatch, Record, MatchPair
<1>5. ASSUME NEW r \in Rejects, \/ \E o \in Orders, d \in Drivers : RejectMark(r, o, d)
                                \/ HandleReject(r) \/ Retry(r) \/ Wake(r) \/ TakeBest(r)
      PROVE UNCHANGED accept
  BY <1>5 DEF RejectMark, HandleReject, Retry, Wake, TakeBest
<1>6. (Stop \/ (\E o \in Orders : CreateOrder(o)) \/ UNCHANGED vars) => UNCHANGED accept
  BY DEF Stop, CreateOrder, vars
<1> QED
  BY <1>1, <1>2, <1>3, <1>4, <1>5, <1>6 DEF Next

\* Every step keeps RejectsTyped.
LEMMA RejectsPreserved == ASSUME Typed, [Next]_vars PROVE RejectsTyped'
<1> USE DEF Typed, RejectsTyped
<1>1. ASSUME NEW r \in Rejects, NEW o \in Orders, NEW d \in Drivers, RejectMark(r, o, d) PROVE RejectsTyped'
  BY <1>1 DEF RejectMark, Named
<1>2. ASSUME NEW r \in Rejects, HandleReject(r) PROVE RejectsTyped'
  BY <1>2, DispatchAssumption DEF HandleReject, GoReject
<1>3. ASSUME NEW r \in Rejects, Retry(r) PROVE RejectsTyped'
  BY <1>3, DispatchAssumption DEF Retry, GoReject
<1>4. ASSUME NEW r \in Rejects, NEW p \in {"wait", "take"}, Again(r, p) PROVE RejectsTyped'
  BY <1>4, DispatchAssumption DEF Again
<1>5. ASSUME NEW r \in Rejects, Wake(r) PROVE RejectsTyped'
  <2>1. CASE Again(r, "wait")
    BY <2>1, <1>4
  <2>2. CASE reject[r].cancelled /\ GoReject(r, "wait", "done")
    BY <2>2 DEF GoReject
  <2>3. ASSUME NEW d \in Idle, reject[r].pc = "wait",
               reject' = [reject EXCEPT ![r].pc = "take", ![r].driver = d, ![r].cancelled = FALSE]
        PROVE RejectsTyped'
    <3>1. d \in Drivers /\ reject[r].order \in Orders /\ reject[r].attempt <= MaxAttempts
      BY <2>3 DEF Idle
    <3>2. reject' = [reject EXCEPT ![r] = [reject[r] EXCEPT !.pc = "take", !.driver = d, !.cancelled = FALSE]]
      BY <2>3
    <3>3. PICK new : new = [reject[r] EXCEPT !.pc = "take", !.driver = d, !.cancelled = FALSE]
      OBVIOUS
    <3>4. /\ new \in [pc : {"new", "release", "retry", "wait", "take", "done"}, order : Named,
                      driver : Drivers \cup {NoDriver}, attempt : 0 .. MaxAttempts + 1, cancelled : BOOLEAN]
          /\ new.order \in Orders /\ new.driver \in Drivers /\ new.attempt <= MaxAttempts
      BY <3>1, <3>3
    <3> QED
      BY <3>2, <3>3, <3>4
  <2> QED
    BY <1>5, <2>1, <2>2, <2>3 DEF Wake
<1>6. ASSUME NEW r \in Rejects, TakeBest(r) PROVE RejectsTyped'
  <2>1. CASE Again(r, "take")
    BY <2>1, <1>4
  <2>2. CASE GoReject(r, "take", "done")
    BY <2>2 DEF GoReject
  <2> QED
    BY <1>6, <2>1, <2>2 DEF TakeBest
<1>7. ASSUME NEW a \in Accepts, CancelRetry(a) PROVE RejectsTyped'
  BY <1>7 DEF CancelRetry
<1>8. CASE UNCHANGED reject
  BY <1>8
<1>9. CASE Pipeline
  BY <1>9, <1>8 DEF Pipeline, Enqueue, Collect, WindowEnds, SendBatch, LastFlush, CloseBatches, BeginMatch, Record, MatchPair
<1>10. ASSUME NEW a \in Accepts, \/ \E o \in Orders : AcceptCheck(a, o)
                                 \/ AcceptMark(a) \/ AcceptAssign(a) \/ AcceptToHub(a) \/ AcceptDispatch(a)
       PROVE UNCHANGED reject
  BY <1>10 DEF AcceptCheck, AcceptMark, AcceptAssign, AcceptToHub, AcceptDispatch
<1>11. (Stop \/ (\E o \in Orders : CreateOrder(o)) \/ UNCHANGED vars) => UNCHANGED reject
  BY DEF Stop, CreateOrder, vars
<1> QED
  BY <1>1, <1>2, <1>3, <1>5, <1>6, <1>7, <1>8, <1>9, <1>10, <1>11 DEF Next

\* The invariant holds in every state of every behaviour.
LEMMA TypedInvariant == Spec => []Typed
<1>1. Typed /\ [Next]_vars => Typed'
  BY PipePreserved, MatchPreserved, CarsPreserved, AcceptsPreserved, RejectsPreserved DEF Typed
<1> QED
  BY Initially, <1>1, PTL DEF Spec

\* What the channels hold are orders, and their other contents have their types too.
THEOREM TypeCorrect == Spec => []TypeOK
<1>1. ASSUME Typed PROVE TypeOK
  <2> USE <1>1 DEF Typed
  <2>1. Range(orders) \cup Range(pending) \cup Range(out) \subseteq Orders
    BY DEF PipeTyped, Range
  <2>2. \A i \in DOMAIN batches : Range(batches[i]) \subseteq Orders
    BY DEF PipeTyped, Range
  <2>3. Range(orders) \cup Range(pending) \cup Range(out) \cup UNION {Range(batches[i]) : i \in DOMAIN batches} \subseteq Orders
    BY <2>1, <2>2
  <2>4. \A r \in Rejects : /\ reject[r].pc \in {"new", "release", "retry", "wait", "take", "done"}
                           /\ reject[r].attempt \in 0 .. MaxAttempts + 1
    BY DEF RejectsTyped
  <2>5. \A a \in Accepts : accept[a].pc \in {"new", "mark", "assign", "toHub", "dispatch", "cancel", "done"}
    BY DEF AcceptsTyped
  <2>6. /\ created \in [Orders -> {"none", "sending", "queued", "left"}]
        /\ Len(orders) <= OrderCap /\ Len(batches) <= BatchCap
        /\ collector \in {"run", "closing", "done"} /\ stopped \in BOOLEAN
    BY DEF PipeTyped
  <2> QED
    BY <2>3, <2>4, <2>5, <2>6 DEF TypeOK, MatchTyped, CarsTyped
<1> QED
  BY TypedInvariant, <1>1, PTL

-----------------------------------------------------------------------------
(* One order for one driver.                                                 *)

\* OneOrderPerDriver, pair by pair.
OneEach ==
    \A d \in Drivers \ disturbed, o \in Orders :
        <<o, d>> \in booked => driver[d] # "IDLE" /\ \A p \in Orders : <<p, d>> \in booked => p = o

\* A driver is booked when it is IDLE and booked for nothing, and is IDLE again only when
\* the order it holds is taken from it; whatever does otherwise has disturbed it.
LEMMA OneEachPreserved == ASSUME Typed, OneEach, [Next]_vars PROVE OneEach'
<1> USE DEF OneEach
<1>1. ASSUME NEW o \in Orders, NEW d \in Drivers, MatchPair(o, d) PROVE OneEach'
  BY <1>1 DEF MatchPair, Typed, CarsTyped
<1>2. ASSUME NEW a \in Accepts, AcceptAssign(a) PROVE OneEach'
  <2>1. accept[a].driver \in Drivers
    BY <1>2 DEF AcceptAssign, GoAccept, Typed, AcceptsTyped
  <2> QED
    BY <1>2, <2>1 DEF AcceptAssign, Move, Typed, CarsTyped
<1>3. ASSUME NEW a \in Accepts, AcceptToHub(a) PROVE OneEach'
  <2>1. accept[a].driver \in Drivers /\ accept[a].order \in Orders
    BY <1>3 DEF AcceptToHub, GoAccept, Typed, AcceptsTyped
  <2>2. CASE UNCHANGED carVars
    BY <2>2 DEF carVars
  <2>3. CASE Move(accept[a].driver, "TO_HUB") /\ booked' = booked \cup {<<accept[a].order, accept[a].driver>>}
    BY <1>3, <2>1, <2>3 DEF AcceptToHub, Move, Typed, CarsTyped, carVars
  <2> QED
    BY <1>3, <2>2, <2>3 DEF AcceptToHub
<1>4. ASSUME NEW r \in Rejects, HandleReject(r) PROVE OneEach'
  <2>1. reject[r].driver \in Drivers /\ reject[r].order \in Orders
    BY <1>4 DEF HandleReject, GoReject, Typed, RejectsTyped
  <2>2. CASE UNCHANGED carVars
    BY <2>2 DEF carVars
  <2>3. CASE Move(reject[r].driver, "IDLE") /\ booked' = booked \ {<<reject[r].order, reject[r].driver>>}
    BY <1>4, <2>1, <2>3 DEF HandleReject, Move, Typed, CarsTyped, carVars
  <2> QED
    BY <1>4, <2>2, <2>3 DEF HandleReject
<1>5. ASSUME NEW r \in Rejects, TakeBest(r) PROVE OneEach'
  <2>1. reject[r].driver \in Drivers /\ reject[r].order \in Orders
    BY <1>5 DEF TakeBest, GoReject, Again, Typed, RejectsTyped
  <2>2. CASE UNCHANGED <<driver, booked, disturbed>>
    BY <2>2
  <2>3. CASE CanMove(reject[r].driver, "ASSIGNED") /\ Move(reject[r].driver, "ASSIGNED")
             /\ booked' = booked \cup {<<reject[r].order, reject[r].driver>>}
    <3>1. driver[reject[r].driver] = "IDLE"
      BY <2>3 DEF CanMove, ValidTransitions
    <3> QED
      BY <1>5, <2>1, <2>3, <3>1 DEF TakeBest, Move, Typed, CarsTyped
  <2> QED
    BY <1>5, <2>2, <2>3 DEF TakeBest
<1>6. CASE UNCHANGED <<driver, booked, disturbed>>
  BY <1>6
<1>7. CASE Pipeline
  BY <1>7, <1>1, <1>6 DEF Pipeline, Enqueue, Collect, WindowEnds, SendBatch, LastFlush, CloseBatches,
     BeginMatch, Record, carVars
<1>8. ASSUME NEW a \in Accepts, (\E o \in Orders : AcceptCheck(a, o)) \/ AcceptMark(a) \/ AcceptDispatch(a) \/ CancelRetry(a)
      PROVE UNCHANGED <<driver, booked, disturbed>>
  BY <1>8 DEF AcceptCheck, AcceptMark, AcceptDispatch, CancelRetry, carVars
<1>9. ASSUME NEW r \in Rejects, (\E o \in Orders, d \in Drivers : RejectMark(r, o, d)) \/ Retry(r) \/ Wake(r)
      PROVE UNCHANGED <<driver, booked, disturbed>>
  BY <1>9 DEF RejectMark, Retry, Wake, carVars
<1>10. (Stop \/ (\E o \in Orders : CreateOrder(o)) \/ UNCHANGED vars) => UNCHANGED <<driver, booked, disturbed>>
  BY DEF Stop, CreateOrder, vars, carVars
<1> QED
  BY <1>2, <1>3, <1>4, <1>5, <1>6, <1>7, <1>8, <1>9, <1>10 DEF Next

\* A set whose elements are all equal has at most one.
LEMMA AtMostOne == ASSUME NEW S, \A x, y \in S : x = y PROVE Cardinality(S) <= 1
<1>1. CASE S = {}
  BY <1>1, FS_EmptySet
<1>2. ASSUME NEW x \in S PROVE Cardinality(S) <= 1
  <2>1. S = {x}
    BY <1>2
  <2> QED
    BY <2>1, FS_Singleton
<1> QED
  BY <1>1, <1>2

\* Retries, accepts and the matcher may race for a driver: unless a stale snapshot or a late
\* request disturbed it, it holds one order at a time, and none when it is idle.
THEOREM OneOrder == Spec => []OneOrderPerDriver
<1>1. Init => OneEach
  BY DEF Init, OneEach
<1>2. ASSUME OneEach PROVE OneOrderPerDriver
  <2> SUFFICES ASSUME NEW d \in Drivers \ disturbed
               PROVE /\ Cardinality({o \in Orders : <<o, d>> \in booked}) <= 1
                     /\ driver[d] = "IDLE" => \A o \in Orders : <<o, d>> \notin booked
    BY DEF OneOrderPerDriver
  <2>1. \A o, p \in {q \in Orders : <<q, d>> \in booked} : o = p
    BY <1>2 DEF OneEach
  <2> QED
    BY <1>2, <2>1, AtMostOne DEF OneEach
<1> QED
  BY TypedInvariant, OneEachPreserved, <1>1, <1>2, PTL DEF Spec

-----------------------------------------------------------------------------
(* No order is lost or duplicated: the pipeline only moves orders from one   *)
(* of its places to another, as one-to-one functions between places.         *)

At(s, p) == s[p[1]][p[2]]

\* No two places of s hold one order, none holds an order of the matcher's batch, and the
\* orders so held are those that are queued.
OnceEach(s, batch, state) ==
    /\ \A p, q \in Places(s) : At(s, p) = At(s, q) => p = q
    /\ \A p \in Places(s) : At(s, p) \notin batch
    /\ \A o \in Orders : state[o] = "queued" <=> o \in batch \/ \E p \in Places(s) : At(s, p) = o

Conserved ==
    /\ OnceEach(Channels, match.batch, created)
    /\ match.pc = "recv" => match.batch = {}

\* The places of a list of lists.
LEMMA PlacesAre == ASSUME NEW s, NEW i, NEW j
                   PROVE <<i, j>> \in Places(s) <=> i \in DOMAIN s /\ j \in DOMAIN s[i]
  BY DEF Places

\* A pair of indices within the lists is a place.
LEMMA IsPlace == ASSUME NEW s, NEW p, p = <<p[1], p[2]>>, p[1] \in DOMAIN s, p[2] \in DOMAIN s[p[1]] PROVE p \in Places(s)
  BY PlacesAre

\* A place is a pair of indices within the lists.
LEMMA PlaceIsPair == ASSUME NEW s, NEW p \in Places(s) PROVE p = <<p[1], p[2]>> /\ p[1] \in DOMAIN s /\ p[2] \in DOMAIN s[p[1]]
  BY DEF Places

\* The channels of a pipeline: the three first, then the batches.
Line(a, b, c, rest) == <<a, b, c>> \o rest

IsLine(s, a, b, c, rest) ==
    /\ DOMAIN s = 1 .. 3 + Len(rest)
    /\ s[1] = a /\ s[2] = b /\ s[3] = c
    /\ \A i \in 4 .. 3 + Len(rest) : s[i] = rest[i - 3]

\* The three lists of the dispatcher and those in hand, laid end to end.
LEMMA LineIs ==
    ASSUME NEW a \in Seq(Orders), NEW b \in Seq(Orders), NEW c \in Seq(Orders), NEW rest \in Seq(Seq(Orders))
    PROVE  IsLine(Line(a, b, c, rest), a, b, c, rest)
<1> DEFINE Batches == Seq(Orders)
<1>1. <<a, b, c>> \in Seq(Batches) /\ Len(<<a, b, c>>) = 3 /\ rest \in Seq(Batches)
  OBVIOUS
<1>2. <<a, b, c>>[1] = a /\ <<a, b, c>>[2] = b /\ <<a, b, c>>[3] = c
  OBVIOUS
<1> HIDE DEF Batches
<1>3. Len(rest) \in Nat
  BY <1>1
<1> QED
  BY <1>1, <1>2, <1>3 DEF Line, IsLine

\* Moving orders from place to place keeps them apart.
LEMMA Moved ==
    ASSUME NEW s, NEW t, NEW batch, NEW state, NEW f,
           OnceEach(s, batch, state),
           \A p \in Places(t) : f[p] \in Places(s) /\ At(t, p) = At(s, f[p]),
           \A p, q \in Places(t) : f[p] = f[q] => p = q,
           \A p \in Places(s) : \E q \in Places(t) : f[q] = p
    PROVE  OnceEach(t, batch, state)
  BY DEF OnceEach

\* The collector takes the head of the orders and appends it to the pending batch.
LEMMA Taken ==
    ASSUME NEW a \in Seq(Orders), a # <<>>, NEW b \in Seq(Orders), NEW c \in Seq(Orders), NEW rest \in Seq(Seq(Orders)),
           NEW batch, NEW state, OnceEach(Line(a, b, c, rest), batch, state)
    PROVE  OnceEach(Line(Tail(a), Append(b, Head(a)), c, rest), batch, state)
<1> DEFINE s == Line(a, b, c, rest)
           t == Line(Tail(a), Append(b, Head(a)), c, rest)
           f == [p \in Places(t) |-> IF p[1] = 1 THEN <<1, p[2] + 1>>
                                     ELSE IF p = <<2, Len(b) + 1>> THEN <<1, 1>> ELSE p]
<1>1. /\ Tail(a) \in Seq(Orders) /\ Len(Tail(a)) = Len(a) - 1 /\ Len(a) \in Nat \ {0}
      /\ \A j \in 1 .. Len(a) - 1 : Tail(a)[j] = a[j + 1]
      /\ Head(a) = a[1] /\ Head(a) \in Orders
  OBVIOUS
<1>2. /\ Append(b, Head(a)) \in Seq(Orders) /\ Len(Append(b, Head(a))) = Len(b) + 1 /\ Len(b) \in Nat
      /\ \A j \in 1 .. Len(b) : Append(b, Head(a))[j] = b[j]
      /\ Append(b, Head(a))[Len(b) + 1] = a[1]
  BY <1>1
<1>3. /\ DOMAIN s = 1 .. 3 + Len(rest) /\ DOMAIN t = 1 .. 3 + Len(rest) /\ Len(rest) \in Nat
      /\ s[1] = a /\ s[2] = b /\ s[3] = c /\ t[1] = Tail(a) /\ t[2] = Append(b, Head(a)) /\ t[3] = c
      /\ \A i \in DOMAIN s \ {1, 2, 3} : t[i] = s[i]
  <2>1. IsLine(s, a, b, c, rest)
    BY LineIs
  <2>2. IsLine(t, Tail(a), Append(b, Head(a)), c, rest)
    BY <1>1, <1>2, LineIs
  <2>3. Len(rest) \in Nat
    OBVIOUS
  <2> DEFINE less == Tail(a)
             more == Append(b, Head(a))
  <2>4. IsLine(t, less, more, c, rest)
    BY <2>2
  <2> HIDE DEF s, t, less, more
  <2>5. /\ DOMAIN s = 1 .. 3 + Len(rest) /\ DOMAIN t = 1 .. 3 + Len(rest)
        /\ s[1] = a /\ s[2] = b /\ s[3] = c /\ t[1] = less /\ t[2] = more /\ t[3] = c
        /\ \A i \in DOMAIN s \ {1, 2, 3} : t[i] = s[i]
    BY <2>1, <2>4, <2>3 DEF IsLine
  <2> QED
    BY <2>3, <2>5 DEF less, more
<1>4. /\ DOMAIN a = 1 .. Len(a) /\ DOMAIN Tail(a) = 1 .. Len(a) - 1
      /\ DOMAIN b = 1 .. Len(b) /\ DOMAIN Append(b, Head(a)) = 1 .. Len(b) + 1
  BY <1>1, <1>2
<1> HIDE DEF s, t
<1>5. ASSUME NEW p \in Places(t) PROVE f[p] \in Places(s) /\ At(t, p) = At(s, f[p])
  <2>1. p = <<p[1], p[2]>> /\ p[1] \in DOMAIN t /\ p[2] \in DOMAIN t[p[1]]
    BY PlaceIsPair
  <2>2. CASE p[1] = 1
    <3>1. f[p] = <<1, p[2] + 1>> /\ p[2] \in 1 .. Len(a) - 1
      BY <2>1, <2>2, <1>3, <1>4
    <3>2. p[2] + 1 \in DOMAIN s[1] /\ 1 \in DOMAIN s
      BY <3>1, <1>1, <1>3, <1>4
    <3>3. f[p] \in Places(s)
      BY <3>1, <3>2, PlacesAre
    <3>4. At(t, p) = Tail(a)[p[2]]
      BY <2>2, <1>3 DEF At
    <3>5. At(s, f[p]) = a[p[2] + 1]
      BY <3>1, <1>3 DEF At
    <3> QED
      BY <3>1, <3>3, <3>4, <3>5, <1>1
  <2>3. CASE p = <<2, Len(b) + 1>>
    <3>1. f[p] = <<1, 1>> /\ 1 \in DOMAIN s /\ 1 \in DOMAIN s[1]
      BY <2>3, <1>1, <1>3, <1>4
    <3> QED
      BY <3>1, <2>3, <1>2, <1>3, PlacesAre DEF At
  <2>4. CASE p[1] # 1 /\ p # <<2, Len(b) + 1>>
    <3>1. f[p] = p
      BY <2>4
    <3>2. CASE p[1] = 2
      <4>1. p[2] \in 1 .. Len(b) /\ 2 \in DOMAIN s
        BY <2>1, <2>4, <3>2, <1>2, <1>3, <1>4
      <4> QED
        BY <2>1, <3>1, <3>2, <4>1, <1>2, <1>3, <1>4, PlacesAre DEF At
    <3>3. CASE p[1] # 2
      <4>1. p[1] \in DOMAIN s /\ t[p[1]] = s[p[1]]
        BY <2>1, <2>4, <3>3, <1>3
      <4> QED
        BY <2>1, <3>1, <4>1, PlacesAre DEF At
    <3> QED
      BY <3>2, <3>3
  <2> QED
    BY <2>2, <2>3, <2>4
<1>6. ASSUME NEW p \in Places(t), NEW q \in Places(t), f[p] = f[q] PROVE p = q
  <2>1. p = <<p[1], p[2]>> /\ p[1] \in DOMAIN t /\ p[2] \in DOMAIN t[p[1]]
    BY PlaceIsPair
  <2>2. q = <<q[1], q[2]>> /\ q[1] \in DOMAIN t /\ q[2] \in DOMAIN t[q[1]]
    BY PlaceIsPair
  <2>3. /\ p[1] = 1 => p[2] \in 1 .. Len(a) - 1
        /\ q[1] = 1 => q[2] \in 1 .. Len(a) - 1
    BY <2>1, <2>2, <1>3, <1>4
  <2>4. CASE p[1] = 1
    <3>1. f[p] = <<1, p[2] + 1>> /\ p[2] + 1 # 1
      BY <2>4, <2>3, <1>1
    <3>2. q[1] = 1
      BY <1>6, <3>1
    <3> QED
      BY SMTT(30), <1>1, <1>6, <2>1, <2>2, <2>3, <2>4, <3>1, <3>2
  <2>5. CASE q[1] = 1
    <3>1. f[q] = <<1, q[2] + 1>> /\ q[2] + 1 # 1
      BY <2>5, <2>3, <1>1
    <3>2. p[1] = 1
      BY <1>6, <3>1
    <3> QED
      BY <2>4, <3>2
  <2>6. CASE p[1] # 1 /\ q[1] # 1
    <3>1. /\ f[p] = IF p = <<2, Len(b) + 1>> THEN <<1, 1>> ELSE p
          /\ f[q] = IF q = <<2, Len(b) + 1>> THEN <<1, 1>> ELSE q
      BY <2>6
    <3>2. p # <<1, 1>> /\ q # <<1, 1>>
      BY <2>6
    <3> QED
      BY <1>6, <3>1, <3>2
  <2> QED
    BY <2>4, <2>5, <2>6
<1>7. ASSUME NEW p \in Places(s) PROVE \E q \in Places(t) : f[q] = p
  <2>1. p = <<p[1], p[2]>> /\ p[1] \in DOMAIN s /\ p[2] \in DOMAIN s[p[1]]
    BY PlaceIsPair
  <2>2. CASE p = <<1, 1>>
    <3>1. <<2, Len(b) + 1>> \in Places(t)
      BY <1>2, <1>3, <1>4, PlacesAre
    <3>2. <<2, Len(b) + 1>>[1] # 1
      OBVIOUS
    <3>3. f[<<2, Len(b) + 1>>] = <<1, 1>>
      BY <3>1, <3>2
    <3> QED
      BY <2>2, <3>1, <3>3
  <2>3. CASE p[1] = 1 /\ p # <<1, 1>>
    <3>1. p[2] - 1 \in 1 .. Len(a) - 1 /\ (p[2] - 1) + 1 = p[2] /\ 1 \in DOMAIN t
      BY <2>1, <2>3, <1>1, <1>3, <1>4
    <3>2. <<1, p[2] - 1>> \in Places(t)
      BY <3>1, <1>3, <1>4, PlacesAre
    <3> QED
      BY <2>1, <2>3, <3>1, <3>2
  <2>4. CASE p[1] # 1
    <3>1. p[1] \in DOMAIN t /\ p[2] \in DOMAIN t[p[1]]
      <4>1. CASE p[1] = 2
        BY <2>1, <4>1, <1>2, <1>3, <1>4
      <4>2. CASE p[1] # 2
        BY <2>1, <2>4, <4>2, <1>3
      <4> QED
        BY <4>1, <4>2
    <3>3. p \in Places(t)
      BY <2>1, <3>1, IsPlace
    <3>2. p # <<2, Len(b) + 1>>
      BY <2>1, <1>2, <1>3, <1>4
    <3> QED
      BY <2>4, <3>2, <3>3
  <2> QED
    BY <2>2, <2>3, <2>4
<1>8. OnceEach(s, batch, state)
  BY DEF s
<1> HIDE DEF f
<1>9. OnceEach(t, batch, state)
  BY <1>5, <1>6, <1>7, <1>8, Moved
<1> QED
  BY <1>9 DEF t

\* A flush sends what is pending.
LEMMA Flushed ==
    ASSUME NEW a \in Seq(Orders), NEW b \in Seq(Orders), NEW rest \in Seq(Seq(Orders)),
           NEW batch, NEW state, OnceEach(Line(a, b, <<>>, rest), batch, state)
    PROVE  OnceEach(Line(a, <<>>, b, rest), batch, state)
<1> DEFINE s == Line(a, b, <<>>, rest)
           t == Line(a, <<>>, b, rest)
           f == [p \in Places(t) |-> IF p[1] = 3 THEN <<2, p[2]>> ELSE p]
<1>1. <<>> \in Seq(Orders) /\ DOMAIN <<>> = {}
  OBVIOUS
<1>2. /\ DOMAIN s = 1 .. 3 + Len(rest) /\ DOMAIN t = DOMAIN s /\ Len(rest) \in Nat
      /\ s[1] = a /\ s[2] = b /\ s[3] = <<>> /\ t[1] = a /\ t[2] = <<>> /\ t[3] = b
      /\ \A i \in DOMAIN s \ {1, 2, 3} : t[i] = s[i]
  <2>1. IsLine(s, a, b, <<>>, rest)
    BY <1>1, LineIs
  <2>2. IsLine(t, a, <<>>, b, rest)
    BY <1>1, LineIs
  <2>3. Len(rest) \in Nat
    OBVIOUS
  <2> HIDE DEF s, t
  <2>4. DOMAIN s = 1 .. 3 + Len(rest) /\ DOMAIN t = 1 .. 3 + Len(rest)
    BY <2>1, <2>2 DEF IsLine
  <2>5. s[1] = a /\ s[2] = b /\ s[3] = <<>> /\ t[1] = a /\ t[2] = <<>> /\ t[3] = b
    BY <2>1, <2>2 DEF IsLine
  <2>6. ASSUME NEW i \in DOMAIN s \ {1, 2, 3} PROVE t[i] = s[i]
    <3>1. i \in 4 .. 3 + Len(rest)
      BY <2>3, <2>4
    <3> QED
      BY <2>1, <2>2, <3>1 DEF IsLine
  <2> QED
    BY <2>3, <2>4, <2>5, <2>6
<1> HIDE DEF s, t
<1>3. ASSUME NEW p \in Places(t) PROVE f[p] \in Places(s) /\ At(t, p) = At(s, f[p]) /\ p[1] # 2
  BY SMTT(30), <1>1, <1>2, PlaceIsPair, PlacesAre DEF At
<1>8. \A p \in Places(t) : f[p] \in Places(s) /\ At(t, p) = At(s, f[p])
  BY <1>3
<1>4. ASSUME NEW p \in Places(t), NEW q \in Places(t), f[p] = f[q] PROVE p = q
  <2>1. p = <<p[1], p[2]>> /\ q = <<q[1], q[2]>> /\ p[1] # 2 /\ q[1] # 2
    BY <1>3, PlaceIsPair
  <2>2. /\ f[p] = IF p[1] = 3 THEN <<2, p[2]>> ELSE p
        /\ f[q] = IF q[1] = 3 THEN <<2, q[2]>> ELSE q
    OBVIOUS
  <2>3. <<2, p[2]>>[1] = 2 /\ <<2, q[2]>>[1] = 2
    OBVIOUS
  <2>4. p[1] = 3 <=> q[1] = 3
    BY <1>4, <2>1, <2>2, <2>3
  <2>5. CASE p[1] = 3
    <3>1. p[2] = q[2]
      BY <1>4, <2>2, <2>4, <2>5
    <3> QED
      BY <2>1, <2>4, <2>5, <3>1
  <2>6. CASE p[1] # 3
    BY <1>4, <2>2, <2>4, <2>6
  <2> QED
    BY <2>5, <2>6
<1>5. ASSUME NEW p \in Places(s) PROVE \E q \in Places(t) : f[q] = p
  <2>1. p = <<p[1], p[2]>> /\ p[1] \in DOMAIN s /\ p[2] \in DOMAIN s[p[1]] /\ p[1] # 3
    BY PlaceIsPair, <1>1, <1>2
  <2>2. CASE p[1] = 2
    <3>1. <<3, p[2]>> \in Places(t)
      BY <1>2, <2>1, <2>2, PlacesAre
    <3> QED
      BY <2>1, <2>2, <3>1
  <2>3. CASE p[1] # 2
    <3>1. p \in Places(t)
      BY <1>2, <2>1, <2>3, IsPlace
    <3> QED
      BY <2>1, <2>3, <3>1
  <2> QED
    BY <2>2, <2>3
<1>6. OnceEach(s, batch, state)
  BY DEF s
<1> HIDE DEF f
<1>7. OnceEach(t, batch, state)
  BY <1>8, <1>4, <1>5, <1>6, Moved
<1> QED
  BY <1>7 DEF t

\* The batch that was flushed becomes the last of the batches.
LEMMA Sent ==
    ASSUME NEW a \in Seq(Orders), NEW b \in Seq(Orders), NEW c \in Seq(Orders), NEW rest \in Seq(Seq(Orders)),
           NEW batch, NEW state, OnceEach(Line(a, b, c, rest), batch, state)
    PROVE  OnceEach(Line(a, b, <<>>, Append(rest, c)), batch, state)
<1> DEFINE s == Line(a, b, c, rest)
           t == Line(a, b, <<>>, Append(rest, c))
           n == Len(rest) + 4
           f == [p \in Places(t) |-> IF p[1] = n THEN <<3, p[2]>> ELSE p]
<1>1. <<>> \in Seq(Orders) /\ DOMAIN <<>> = {}
  OBVIOUS
<1>2. /\ Append(rest, c) \in Seq(Seq(Orders)) /\ Len(Append(rest, c)) = Len(rest) + 1 /\ Len(rest) \in Nat
      /\ \A i \in 1 .. Len(rest) : Append(rest, c)[i] = rest[i]
      /\ Append(rest, c)[Len(rest) + 1] = c
  OBVIOUS
<1>3. /\ DOMAIN s = 1 .. 3 + Len(rest) /\ DOMAIN t = DOMAIN s \cup {n} /\ n \notin DOMAIN s
      /\ s[1] = a /\ s[2] = b /\ s[3] = c /\ t[1] = a /\ t[2] = b /\ t[3] = <<>> /\ t[n] = c
      /\ \A i \in DOMAIN s \ {3} : t[i] = s[i]
  <2>1. IsLine(s, a, b, c, rest)
    BY LineIs
  <2>2. IsLine(t, a, b, <<>>, Append(rest, c))
    BY <1>1, <1>2, LineIs
  <2> DEFINE more == Append(rest, c)
  <2>3. IsLine(t, a, b, <<>>, more) /\ Len(more) = Len(rest) + 1 /\ more[Len(rest) + 1] = c
        /\ \A i \in 1 .. Len(rest) : more[i] = rest[i]
    BY <2>2, <1>2
  <2> HIDE DEF s, t, more
  <2>4. DOMAIN s = 1 .. 3 + Len(rest) /\ DOMAIN t = 1 .. 4 + Len(rest)
    BY <2>1, <2>3, <1>2 DEF IsLine
  <2>5. \A i \in DOMAIN s \ {1, 2, 3} : i - 3 \in 1 .. Len(rest) /\ s[i] = rest[i - 3] /\ t[i] = more[i - 3]
    BY SMTT(30), <2>1, <2>3, <1>2 DEF IsLine
  <2>6. t[n] = c
    BY <2>3, <1>2 DEF IsLine
  <2>7. s[1] = a /\ s[2] = b /\ s[3] = c /\ t[1] = a /\ t[2] = b /\ t[3] = <<>>
    BY <2>1, <2>3 DEF IsLine
  <2>8. \A i \in DOMAIN s \ {3} : t[i] = s[i]
    BY <2>3, <2>5, <2>7
  <2> QED
    BY <2>4, <2>6, <2>7, <2>8, <1>2
<1>4. n # 3 /\ 3 \in DOMAIN s
  BY <1>2, <1>3
<1> HIDE DEF s, t, n
<1>5. ASSUME NEW p \in Places(t) PROVE f[p] \in Places(s) /\ At(t, p) = At(s, f[p]) /\ p[1] # 3
  <2>1. p = <<p[1], p[2]>> /\ p[1] \in DOMAIN t /\ p[2] \in DOMAIN t[p[1]] /\ p[1] # 3
    BY <1>1, <1>3, PlaceIsPair
  <2>2. CASE p[1] = n
    <3>1. f[p] = <<3, p[2]>> /\ p[2] \in DOMAIN s[3]
      BY <2>1, <2>2, <1>3
    <3>2. f[p] \in Places(s) /\ At(s, f[p]) = s[3][p[2]]
      BY <3>1, <1>4, PlacesAre DEF At
    <3> QED
      BY <2>1, <2>2, <3>2, <1>3 DEF At
  <2>3. CASE p[1] # n
    <3>1. f[p] = p /\ p[1] \in DOMAIN s /\ t[p[1]] = s[p[1]]
      BY <2>1, <2>3, <1>3
    <3> QED
      BY <2>1, <3>1, IsPlace DEF At
  <2> QED
    BY <2>2, <2>3
<1>10. \A p \in Places(t) : f[p] \in Places(s) /\ At(t, p) = At(s, f[p])
  BY <1>5
<1>6. ASSUME NEW p \in Places(t), NEW q \in Places(t), f[p] = f[q] PROVE p = q
  <2>1. p = <<p[1], p[2]>> /\ q = <<q[1], q[2]>> /\ p[1] # 3 /\ q[1] # 3
    BY <1>5, PlaceIsPair
  <2>2. /\ f[p] = IF p[1] = n THEN <<3, p[2]>> ELSE p
        /\ f[q] = IF q[1] = n THEN <<3, q[2]>> ELSE q
    OBVIOUS
  <2>3. <<3, p[2]>>[1] = 3 /\ <<3, q[2]>>[1] = 3
    OBVIOUS
  <2>4. p[1] = n <=> q[1] = n
    BY <1>6, <2>1, <2>2, <2>3
  <2>5. CASE p[1] = n
    <3>1. p[2] = q[2]
      BY <1>6, <2>2, <2>4, <2>5
    <3> QED
      BY <2>1, <2>4, <2>5, <3>1
  <2>6. CASE p[1] # n
    BY <1>6, <2>2, <2>4, <2>6
  <2> QED
    BY <2>5, <2>6
<1>7. ASSUME NEW p \in Places(s) PROVE \E q \in Places(t) : f[q] = p
  <2>1. p = <<p[1], p[2]>> /\ p[1] \in DOMAIN s /\ p[2] \in DOMAIN s[p[1]] /\ p[1] # n
    BY PlaceIsPair, <1>3
  <2>2. CASE p[1] = 3
    <3>1. <<n, p[2]>> \in Places(t)
      BY SMTT(30), <1>3, <2>1, <2>2, PlacesAre
    <3> QED
      BY <2>1, <2>2, <3>1
  <2>3. CASE p[1] # 3
    <3>1. p \in Places(t)
      BY <1>3, <2>1, <2>3, IsPlace
    <3> QED
      BY <2>1, <2>3, <3>1
  <2> QED
    BY <2>2, <2>3
<1>8. OnceEach(s, batch, state)
  BY DEF s
<1> HIDE DEF f
<1>9. OnceEach(t, batch, state)
  BY <1>10, <1>6, <1>7, <1>8, Moved
<1> QED
  BY <1>9 DEF t

\* The first of the batches leaves, for the matcher or for good.
LEMMA Received ==
    ASSUME NEW a \in Seq(Orders), NEW b \in Seq(Orders), NEW c \in Seq(Orders), NEW rest \in Seq(Seq(Orders)), rest # <<>>,
           NEW state, OnceEach(Line(a, b, c, rest), {}, state)
    PROVE  /\ OnceEach(Line(a, b, c, Tail(rest)), ToSet(Head(rest)), state)
           /\ \A later \in [Orders -> {"none", "sending", "queued", "left"}] :
                 (\A o \in Orders : later[o] = IF o \in ToSet(Head(rest)) THEN "left" ELSE state[o])
                     => OnceEach(Line(a, b, c, Tail(rest)), {}, later)
<1> DEFINE s == Line(a, b, c, rest)
           t == Line(a, b, c, Tail(rest))
           batch == ToSet(Head(rest))
           f == [p \in Places(t) |-> IF p[1] > 3 THEN <<p[1] + 1, p[2]>> ELSE p]
<1>1. /\ Tail(rest) \in Seq(Seq(Orders)) /\ Len(Tail(rest)) = Len(rest) - 1 /\ Len(rest) \in Nat \ {0}
      /\ \A i \in 1 .. Len(rest) - 1 : Tail(rest)[i] = rest[i + 1]
      /\ Head(rest) = rest[1] /\ Head(rest) \in Seq(Orders)
  <2> DEFINE Batches == Seq(Orders)
  <2>1. rest \in Seq(Batches)
    OBVIOUS
  <2> HIDE DEF Batches
  <2>2. /\ Tail(rest) \in Seq(Batches) /\ Len(Tail(rest)) = Len(rest) - 1 /\ Len(rest) \in Nat \ {0}
        /\ \A i \in 1 .. Len(rest) - 1 : Tail(rest)[i] = rest[i + 1]
        /\ Head(rest) = rest[1] /\ Head(rest) \in Batches
    BY <2>1
  <2> QED
    BY <2>2 DEF Batches
<1>2. /\ DOMAIN s = 1 .. 3 + Len(rest) /\ DOMAIN t = 1 .. 2 + Len(rest) /\ s[4] = rest[1]
      /\ \A i \in DOMAIN t : i <= 3 => t[i] = s[i]
      /\ \A i \in DOMAIN t : i > 3 => t[i] = s[i + 1]
  <2> DEFINE less == Tail(rest)
  <2>1. IsLine(s, a, b, c, rest)
    BY LineIs
  <2>2. IsLine(t, a, b, c, less)
    BY <1>1, LineIs
  <2>3. Len(less) = Len(rest) - 1 /\ \A i \in 1 .. Len(rest) - 1 : less[i] = rest[i + 1]
    BY <1>1
  <2> HIDE DEF s, t, less
  <2>4. DOMAIN s = 1 .. 3 + Len(rest) /\ DOMAIN t = 1 .. 2 + Len(rest)
    BY <2>1, <2>2, <2>3, <1>1 DEF IsLine
  <2>5. s[4] = rest[1]
    BY <2>1, <1>1 DEF IsLine
  <2>6. ASSUME NEW i \in DOMAIN t, i <= 3 PROVE t[i] = s[i]
    <3>1. i \in {1, 2, 3}
      BY SMTT(30), <2>4, <2>6, <1>1
    <3> QED
      BY <2>1, <2>2, <3>1 DEF IsLine
  <2>7. ASSUME NEW i \in DOMAIN t, i > 3 PROVE t[i] = s[i + 1]
    <3>1. i - 3 \in 1 .. Len(rest) - 1 /\ i \in 4 .. 3 + Len(less) /\ i + 1 \in 4 .. 3 + Len(rest)
      BY SMTT(30), <2>3, <2>4, <2>7, <1>1
    <3>2. t[i] = less[i - 3] /\ s[i + 1] = rest[(i + 1) - 3]
      BY <2>1, <2>2, <3>1 DEF IsLine
    <3>3. (i + 1) - 3 = (i - 3) + 1
      BY <3>1
    <3> QED
      BY <2>3, <3>1, <3>2, <3>3
  <2> QED
    BY <2>4, <2>5, <2>6, <2>7
<1>3. /\ \A j \in DOMAIN rest[1] : rest[1][j] \in batch
      /\ \A o \in batch : \E j \in DOMAIN rest[1] : rest[1][j] = o
      /\ batch \subseteq Orders
  BY <1>1 DEF ToSet
<1> HIDE DEF s, t, batch
<1>4. ASSUME NEW p \in Places(t) PROVE f[p] \in Places(s) /\ At(t, p) = At(s, f[p]) /\ f[p][1] # 4
  <2>1. p = <<p[1], p[2]>> /\ p[1] \in DOMAIN t /\ p[2] \in DOMAIN t[p[1]] /\ p[1] \in Int
    BY <1>2, PlaceIsPair
  <2>2. CASE p[1] > 3
    <3>1. f[p] = <<p[1] + 1, p[2]>> /\ p[1] + 1 \in DOMAIN s /\ t[p[1]] = s[p[1] + 1] /\ p[1] + 1 # 4
      <4>1. f[p] = <<p[1] + 1, p[2]>> /\ t[p[1]] = s[p[1] + 1]
        BY <2>1, <2>2, <1>2
      <4>2. p[1] \in 1 .. 2 + Len(rest)
        BY <2>1, <1>2
      <4>3. p[1] + 1 \in 1 .. 3 + Len(rest) /\ p[1] + 1 # 4
        BY <4>2, <2>2, <1>1
      <4> QED
        BY <4>1, <4>3, <1>2
    <3>2. f[p] \in Places(s) /\ f[p][1] # 4
      BY <2>1, <3>1, PlacesAre
    <3> QED
      BY <2>1, <3>1, <3>2 DEF At
  <2>3. CASE ~(p[1] > 3)
    <3>1. f[p] = p /\ p[1] <= 3 /\ p[1] \in DOMAIN s /\ t[p[1]] = s[p[1]]
      BY <2>1, <2>3, <1>1, <1>2
    <3>2. p[2] \in DOMAIN s[p[1]]
      BY <2>1, <3>1
    <3>3. p \in Places(s)
      BY <2>1, <3>1, <3>2, IsPlace
    <3>4. p[1] # 4
      BY <2>1, <3>1
    <3> QED
      BY <3>1, <3>3, <3>4 DEF At
  <2> QED
    BY <2>2, <2>3
<1>5. ASSUME NEW p \in Places(t), NEW q \in Places(t), f[p] = f[q] PROVE p = q
  <2>1. p = <<p[1], p[2]>> /\ q = <<q[1], q[2]>> /\ p[1] \in Int /\ q[1] \in Int
    BY <1>2, PlaceIsPair
  <2>2. /\ f[p] = IF p[1] > 3 THEN <<p[1] + 1, p[2]>> ELSE p
        /\ f[q] = IF q[1] > 3 THEN <<q[1] + 1, q[2]>> ELSE q
    OBVIOUS
  <2>3. <<p[1] + 1, p[2]>>[1] = p[1] + 1 /\ <<q[1] + 1, q[2]>>[1] = q[1] + 1
    OBVIOUS
  <2>4. p[1] > 3 <=> q[1] > 3
    BY <1>5, <2>1, <2>2, <2>3
  <2>5. CASE p[1] > 3
    <3>1. <<p[1] + 1, p[2]>> = <<q[1] + 1, q[2]>>
      BY <1>5, <2>2, <2>4, <2>5
    <3>2. p[1] = q[1] /\ p[2] = q[2]
      BY <2>1, <3>1
    <3> QED
      BY <2>1, <3>2
  <2>6. CASE ~(p[1] > 3)
    BY <1>5, <2>2, <2>4, <2>6
  <2> QED
    BY <2>5, <2>6
<1>6. ASSUME NEW p \in Places(s), p[1] # 4 PROVE \E q \in Places(t) : f[q] = p
  <2>1. p = <<p[1], p[2]>> /\ p[1] \in DOMAIN s /\ p[2] \in DOMAIN s[p[1]] /\ p[1] \in Int
    BY <1>2, PlaceIsPair
  <2>2. CASE p[1] > 4
    <3>1. p[1] - 1 \in DOMAIN t /\ p[1] - 1 > 3 /\ (p[1] - 1) + 1 = p[1]
      BY <2>1, <2>2, <1>1, <1>2
    <3>2. <<p[1] - 1, p[2]>> \in Places(t)
      BY ZenonT(60), <2>1, <3>1, <1>2, PlacesAre
    <3>3. f[<<p[1] - 1, p[2]>>] = p
      BY <2>1, <3>1, <3>2
    <3> QED
      BY <3>2, <3>3
  <2>3. CASE ~(p[1] > 4)
    <3>1. p[1] \in DOMAIN t /\ ~(p[1] > 3) /\ t[p[1]] = s[p[1]]
      BY <2>1, <2>3, <1>6, <1>1, <1>2
    <3>2. p \in Places(t)
      BY <2>1, <3>1, IsPlace
    <3> QED
      BY <3>1, <3>2
  <2> QED
    BY <2>2, <2>3
<1>7. ASSUME NEW p \in Places(s) PROVE p[1] = 4 => At(s, p) \in batch
  BY <1>2, <1>3, PlaceIsPair DEF At
<1>8. ASSUME NEW o \in batch PROVE \E p \in Places(s) : p[1] = 4 /\ At(s, p) = o
  <2>1. PICK j \in DOMAIN rest[1] : rest[1][j] = o
    BY <1>3
  <2>2. <<4, j>> \in Places(s)
    <3>1. 4 \in DOMAIN s
      BY <1>1, <1>2
    <3> QED
      BY <3>1, <1>2, PlacesAre
  <2>3. At(s, <<4, j>>) = o
    BY <2>1, <1>2 DEF At
  <2> QED
    BY <2>2, <2>3
<1>9. OnceEach(s, {}, state)
  BY DEF s
<1> HIDE DEF f
<1>10. \A p, q \in Places(t) : At(t, p) = At(t, q) => p = q
  BY SMTT(30), <1>4, <1>5, <1>9 DEF OnceEach
<1>11. ASSUME NEW p \in Places(t) PROVE At(t, p) \notin batch
  BY <1>4, <1>8, <1>9 DEF OnceEach
<1>12. ASSUME NEW o \in Orders PROVE (\E p \in Places(s) : At(s, p) = o) <=> o \in batch \/ \E p \in Places(t) : At(t, p) = o
  <2>1. ASSUME NEW p \in Places(s), At(s, p) = o, o \notin batch PROVE \E q \in Places(t) : At(t, q) = o
    <3>1. PICK q \in Places(t) : f[q] = p
      BY <2>1, <1>6, <1>7
    <3> QED
      BY <2>1, <3>1, <1>4
  <2>2. ASSUME NEW q \in Places(t), At(t, q) = o PROVE \E p \in Places(s) : At(s, p) = o
    BY <2>2, <1>4
  <2>3. o \in batch => \E p \in Places(s) : At(s, p) = o
    BY <1>8
  <2> QED
    BY <2>1, <2>2, <2>3
<1>13. OnceEach(t, batch, state)
  BY <1>9, <1>10, <1>11, <1>12 DEF OnceEach
<1>14. ASSUME NEW later \in [Orders -> {"none", "sending", "queued", "left"}],
             \A o \in Orders : later[o] = IF o \in batch THEN "left" ELSE state[o]
      PROVE OnceEach(t, {}, later)
  <2>1. ASSUME NEW o \in Orders PROVE later[o] = "queued" <=> \E p \in Places(t) : At(t, p) = o
    <3>1. state[o] = "queued" <=> \E p \in Places(s) : At(s, p) = o
      BY <1>9 DEF OnceEach
    <3>2. CASE o \in batch
      <4>1. later[o] = "left"
        BY <1>14, <3>2
      <4> QED
        BY <3>2, <4>1, <1>11
    <3>3. CASE o \notin batch
      <4>1. later[o] = state[o]
        BY <1>14, <3>3
      <4> QED
        BY <3>1, <3>3, <4>1, <1>12
    <3> QED
      BY <3>2, <3>3
  <2> QED
    BY <1>10, <2>1 DEF OnceEach
<1> QED
  BY <1>13, <1>14 DEF t, batch

\* An order is sent: it was nowhere.
LEMMA Entered ==
    ASSUME NEW a \in Seq(Orders), NEW b \in Seq(Orders), NEW c \in Seq(Orders), NEW rest \in Seq(Seq(Orders)),
           NEW batch, NEW state \in [Orders -> {"none", "sending", "queued", "left"}],
           OnceEach(Line(a, b, c, rest), batch, state),
           NEW o \in Orders, state[o] # "queued"
    PROVE  OnceEach(Line(Append(a, o), b, c, rest), batch, [state EXCEPT ![o] = "queued"])
<1> DEFINE s == Line(a, b, c, rest)
           more == Append(a, o)
           t == Line(more, b, c, rest)
           n == <<1, Len(a) + 1>>
<1>1. /\ more \in Seq(Orders) /\ Len(more) = Len(a) + 1 /\ Len(a) \in Nat
      /\ \A j \in 1 .. Len(a) : more[j] = a[j]
      /\ more[Len(a) + 1] = o /\ DOMAIN more = 1 .. Len(a) + 1 /\ DOMAIN a = 1 .. Len(a)
  OBVIOUS
<1>2. DOMAIN t = DOMAIN s /\ s[1] = a /\ t[1] = more /\ 1 \in DOMAIN s /\ \A i \in DOMAIN s \ {1} : t[i] = s[i]
  <2>1. IsLine(s, a, b, c, rest)
    BY LineIs
  <2>2. IsLine(t, more, b, c, rest)
    BY <1>1, LineIs
  <2>3. Len(rest) \in Nat
    OBVIOUS
  <2> HIDE DEF s, t, more
  <2>4. DOMAIN s = 1 .. 3 + Len(rest) /\ DOMAIN t = 1 .. 3 + Len(rest) /\ s[1] = a /\ t[1] = more
    BY <2>1, <2>2 DEF IsLine
  <2>5. ASSUME NEW i \in DOMAIN s, i # 1 PROVE t[i] = s[i]
    <3>1. i = 2 \/ i = 3 \/ i \in 4 .. 3 + Len(rest)
      BY <2>3, <2>4, <2>5
    <3> QED
      BY <2>1, <2>2, <3>1 DEF IsLine
  <2> QED
    BY <2>3, <2>4, <2>5
<1> HIDE DEF s, t, more
<1>3. n \in Places(t) /\ At(t, n) = o
  BY <1>1, <1>2, PlacesAre DEF At
<1>4. ASSUME NEW p \in Places(s) PROVE p \in Places(t) /\ At(t, p) = At(s, p) /\ p # n
  <2>1. p = <<p[1], p[2]>> /\ p[1] \in DOMAIN s /\ p[2] \in DOMAIN s[p[1]]
    BY PlaceIsPair
  <2>2. CASE p[1] = 1
    <3>1. p[2] \in 1 .. Len(a) /\ p[2] # Len(a) + 1 /\ p[2] \in DOMAIN more /\ more[p[2]] = a[p[2]]
      BY <2>1, <2>2, <1>1, <1>2
    <3>2. p \in Places(t)
      BY <2>1, <2>2, <3>1, <1>2, IsPlace
    <3>3. At(t, p) = At(s, p)
      BY <2>2, <3>1, <1>2 DEF At
    <3>4. p # n
      BY <3>1
    <3> QED
      BY <3>2, <3>3, <3>4
  <2>3. CASE p[1] # 1
    BY <2>1, <2>3, <1>2, IsPlace DEF At
  <2> QED
    BY <2>2, <2>3
<1>5. ASSUME NEW p \in Places(t), p # n PROVE p \in Places(s)
  <2>1. p = <<p[1], p[2]>> /\ p[1] \in DOMAIN t /\ p[2] \in DOMAIN t[p[1]]
    BY PlaceIsPair
  <2>2. CASE p[1] = 1
    <3>1. p[2] # Len(a) + 1
      BY <2>1, <2>2, <1>5
    <3> QED
      BY <2>1, <2>2, <3>1, <1>1, <1>2, IsPlace
  <2>3. CASE p[1] # 1
    BY <2>1, <2>3, <1>2, IsPlace
  <2> QED
    BY <2>2, <2>3
<1>6. OnceEach(s, batch, state)
  BY DEF s
<1>7. o \notin batch /\ \A p \in Places(s) : At(s, p) # o
  BY <1>6 DEF OnceEach
<1> HIDE DEF n
<1>8. \A p, q \in Places(t) : At(t, p) = At(t, q) => p = q
  BY <1>3, <1>4, <1>5, <1>6, <1>7 DEF OnceEach
<1>9. \A p \in Places(t) : At(t, p) \notin batch
  BY <1>3, <1>4, <1>5, <1>6, <1>7 DEF OnceEach
<1>10. ASSUME NEW x \in Orders
       PROVE [state EXCEPT ![o] = "queued"][x] = "queued" <=> x \in batch \/ \E p \in Places(t) : At(t, p) = x
  <2>1. CASE x = o
    BY <2>1, <1>3
  <2>2. CASE x # o
    <3>1. [state EXCEPT ![o] = "queued"][x] = state[x]
      BY <2>2
    <3> QED
      <4>1. state[x] = "queued" <=> x \in batch \/ \E p \in Places(s) : At(s, p) = x
        BY <1>6 DEF OnceEach
      <4>2. ASSUME NEW p \in Places(s), At(s, p) = x PROVE \E r \in Places(t) : At(t, r) = x
        BY <4>2, <1>4
      <4>3. ASSUME NEW p \in Places(t), At(t, p) = x PROVE \E r \in Places(s) : At(s, r) = x
        BY <4>3, <2>2, <1>3, <1>4, <1>5
      <4> QED
        BY <3>1, <4>1, <4>2, <4>3
  <2> QED
    BY <2>1, <2>2
<1>11. OnceEach(t, batch, [state EXCEPT ![o] = "queued"])
  BY <1>8, <1>9, <1>10 DEF OnceEach
<1> QED
  BY <1>11 DEF t, more

\* Requests and matching change none of the places.
LEMMA OthersKeepPlaces ==
    ASSUME [Next]_vars
    PROVE  \/ \E o \in Orders : Enqueue(o)
           \/ Collect \/ WindowEnds \/ SendBatch \/ LastFlush \/ BeginMatch \/ Record
           \/ \E o \in Orders : CreateOrder(o)
           \/ UNCHANGED <<created, orders, pending, out, batches, match>>
           \/ \E o \in Orders, d \in Drivers : MatchPair(o, d)
<1>1. ASSUME NEW a \in Accepts, \/ \E o \in Orders : AcceptCheck(a, o)
                                \/ AcceptMark(a) \/ AcceptAssign(a) \/ AcceptToHub(a) \/ AcceptDispatch(a) \/ CancelRetry(a)
      PROVE UNCHANGED <<pipeVars, match>>
  BY <1>1 DEF AcceptCheck, AcceptMark, AcceptAssign, AcceptToHub, AcceptDispatch, CancelRetry
<1>2. ASSUME NEW r \in Rejects, \/ \E o \in Orders, d \in Drivers : RejectMark(r, o, d)
                                \/ HandleReject(r) \/ Retry(r) \/ Wake(r) \/ TakeBest(r)
      PROVE UNCHANGED <<pipeVars, match>>
  BY <1>2 DEF RejectMark, HandleReject, Retry, Wake, TakeBest
<1>3. (CloseBatches \/ Stop \/ UNCHANGED vars) => UNCHANGED <<created, orders, pending, out, batches, match>>
  BY DEF CloseBatches, Stop, vars, pipeVars
<1> QED
  BY <1>1, <1>2, <1>3 DEF Next, Pipeline, pipeVars

\* Every step keeps Conserved.
LEMMA ConservedPreserved == ASSUME Typed, Conserved, [Next]_vars PROVE Conserved'
<1> DEFINE Batches == Seq(Orders)
<1>1. /\ orders \in Seq(Orders) /\ pending \in Seq(Orders) /\ out \in Seq(Orders) /\ batches \in Seq(Seq(Orders))
      /\ created \in [Orders -> {"none", "sending", "queued", "left"}]
      /\ match.batch \subseteq Orders
  BY DEF Typed, PipeTyped, MatchTyped
<1>2. <<>> \in Seq(Orders)
  OBVIOUS
<1>3. /\ OnceEach(Line(orders, pending, out, batches), match.batch, created)
      /\ match.pc = "recv" => match.batch = {}
  BY DEF Conserved, Channels, Line
<1>4. ASSUME OnceEach(Line(orders', pending', out', batches'), match'.batch, created'),
             match'.pc = "recv" => match'.batch = {}
      PROVE Conserved'
  BY <1>4 DEF Conserved, Channels, Line
<1>5. ASSUME NEW o \in Orders, CreateOrder(o) PROVE Conserved'
  <2>1. UNCHANGED <<orders, pending, out, batches, match>>
        /\ created' = [created EXCEPT ![o] = "sending"] /\ created[o] = "none"
    BY <1>5 DEF CreateOrder
  <2>2. \A x \in Orders : created'[x] = "queued" <=> created[x] = "queued"
    BY <2>1, <1>1
  <2>3. OnceEach(Line(orders, pending, out, batches), match.batch, created')
    BY <1>3, <2>2 DEF OnceEach
  <2> QED
    BY <1>3, <1>4, <2>1, <2>3
<1>6. ASSUME NEW o \in Orders, Enqueue(o) PROVE Conserved'
  <2>1. /\ UNCHANGED <<pending, out, batches, match>> /\ orders' = Append(orders, o)
        /\ created' = [created EXCEPT ![o] = "queued"] /\ created[o] # "queued"
    BY <1>6 DEF Enqueue
  <2>2. OnceEach(Line(Append(orders, o), pending, out, batches), match.batch, [created EXCEPT ![o] = "queued"])
    BY <1>1, <1>3, <2>1, Entered
  <2> QED
    BY <1>3, <1>4, <2>1, <2>2
<1>7. CASE Collect
  <2>1. UNCHANGED <<batches, match, created>> /\ out = <<>> /\ orders # <<>> /\ orders' = Tail(orders)
    BY <1>7 DEF Collect
  <2>2. OnceEach(Line(Tail(orders), Append(pending, Head(orders)), out, batches), match.batch, created)
    BY <1>1, <1>3, <2>1, Taken
  <2>3. Tail(orders) \in Seq(Orders) /\ Append(pending, Head(orders)) \in Seq(Orders)
    BY <1>1, <2>1
  <2>4. OnceEach(Line(Tail(orders), <<>>, Append(pending, Head(orders)), batches), match.batch, created)
    BY <1>1, <2>1, <2>2, <2>3, Flushed
  <2>5. \/ out' = Append(pending, Head(orders)) /\ pending' = <<>>
        \/ pending' = Append(pending, Head(orders)) /\ out' = out
    BY <1>7 DEF Collect, Flush
  <2> QED
    BY <1>3, <1>4, <2>1, <2>2, <2>4, <2>5
<1>8. CASE WindowEnds \/ LastFlush
  <2>1. UNCHANGED <<orders, batches, match, created>> /\ out = <<>> /\ out' = pending /\ pending' = <<>>
    BY <1>8 DEF WindowEnds, LastFlush, Flush
  <2>2. OnceEach(Line(orders, <<>>, pending, batches), match.batch, created)
    BY <1>1, <1>3, <2>1, Flushed
  <2> QED
    BY <1>3, <1>4, <2>1, <2>2
<1>9. CASE SendBatch
  <2>1. UNCHANGED <<orders, pending, match, created>> /\ batches' = Append(batches, out) /\ out' = <<>>
    BY <1>9 DEF SendBatch
  <2>2. OnceEach(Line(orders, pending, <<>>, Append(batches, out)), match.batch, created)
    BY <1>1, <1>3, Sent
  <2> QED
    BY <1>3, <1>4, <2>1, <2>2
<1>10. CASE BeginMatch
  <2>1. UNCHANGED <<orders, pending, out>> /\ batches # <<>> /\ batches' = Tail(batches)
    BY <1>10 DEF BeginMatch
  <2>2. match.batch = {} /\ match.pc = "recv"
    BY <1>3, <1>10 DEF BeginMatch
  <2>3. /\ OnceEach(Line(orders, pending, out, Tail(batches)), ToSet(Head(batches)), created)
        /\ \A later \in [Orders -> {"none", "sending", "queued", "left"}] :
              (\A o \in Orders : later[o] = IF o \in ToSet(Head(batches)) THEN "left" ELSE created[o])
                  => OnceEach(Line(orders, pending, out, Tail(batches)), {}, later)
    BY <1>1, <1>3, <2>1, <2>2, Received
  <2>4. CASE Leave(ToSet(Head(batches))) /\ UNCHANGED match
    <3>1. /\ created' \in [Orders -> {"none", "sending", "queued", "left"}]
          /\ \A o \in Orders : created'[o] = IF o \in ToSet(Head(batches)) THEN "left" ELSE created[o]
      BY <2>4, <1>1 DEF Leave
    <3> QED
      BY <1>3, <1>4, <2>1, <2>2, <2>3, <2>4, <3>1
  <2>5. CASE match' = [pc |-> "match", batch |-> ToSet(Head(batches)), avail |-> Idle, made |-> {}] /\ UNCHANGED created
    <3>1. match'.batch = ToSet(Head(batches)) /\ match'.pc = "match"
      BY <2>5
    <3> QED
      BY <1>4, <2>1, <2>3, <2>5, <3>1
  <2> QED
    BY <1>10, <2>4, <2>5 DEF BeginMatch
<1>11. CASE Record
  <2>1. /\ UNCHANGED <<orders, pending, out, batches>> /\ match'.batch = {}
        /\ \A o \in Orders : created'[o] = IF o \in match.batch THEN "left" ELSE created[o]
    BY <1>11 DEF Record, Leave, NoMatch
  <2>2. ASSUME NEW o \in Orders
        PROVE created'[o] = "queued" <=> \E p \in Places(Line(orders, pending, out, batches)) :
                                            At(Line(orders, pending, out, batches), p) = o
    <3> DEFINE s == Line(orders, pending, out, batches)
    <3>1. /\ \A p \in Places(s) : At(s, p) \notin match.batch
          /\ created[o] = "queued" <=> o \in match.batch \/ \E p \in Places(s) : At(s, p) = o
      BY <1>3 DEF OnceEach
    <3> HIDE DEF s
    <3> DEFINE Somewhere == created'[o] = "queued" <=> \E p \in Places(s) : At(s, p) = o
    <3>2. ASSUME o \in match.batch PROVE Somewhere
      <4>1. created'[o] = "left"
        BY <2>1, <3>2
      <4>2. ~ \E p \in Places(s) : At(s, p) = o
        BY <3>1, <3>2
      <4> QED
        BY <4>1, <4>2
    <3>3. ASSUME o \notin match.batch PROVE Somewhere
      <4>1. created'[o] = created[o]
        BY <2>1, <3>3
      <4> QED
        BY <3>1, <3>3, <4>1
    <3>4. Somewhere
      BY <3>2, <3>3
    <3> QED
      BY <3>4 DEF s
  <2>3. OnceEach(Line(orders, pending, out, batches), {}, created')
    BY <1>3, <2>2 DEF OnceEach
  <2> QED
    BY <1>4, <2>1, <2>3
<1>12. ASSUME NEW o \in Orders, NEW d \in Drivers, MatchPair(o, d) PROVE Conserved'
  <2>1. UNCHANGED <<created, orders, pending, out, batches>> /\ match'.batch = match.batch /\ match'.pc = match.pc
    BY <1>12 DEF MatchPair, pipeVars, Typed, MatchTyped
  <2> QED
    BY <1>3, <1>4, <2>1
<1>13. CASE UNCHANGED <<created, orders, pending, out, batches, match>>
  BY <1>13, <1>3, <1>4
<1> QED
  BY <1>5, <1>6, <1>7, <1>8, <1>9, <1>10, <1>11, <1>12, <1>13, OthersKeepPlaces

\* No order is lost on its way or handed over twice, whatever the capacities and whenever
\* the collector is stopped: from the request that sent it until the matcher records or
\* drops its batch it is in one place.
THEOREM NoneLost == Spec => []OrdersConserved
<1>1. Init => Conserved
  <2> SUFFICES ASSUME Init PROVE Conserved
    OBVIOUS
  <2>1. Channels = Line(<<>>, <<>>, <<>>, <<>>) /\ match = NoMatch /\ created = [o \in Orders |-> "none"]
    BY DEF Init, Channels, Line
  <2>2. IsLine(Channels, <<>>, <<>>, <<>>, <<>>)
    <3>1. <<>> \in Seq(Orders) /\ <<>> \in Seq(Seq(Orders))
      OBVIOUS
    <3> QED
      BY <2>1, <3>1, LineIs
  <2>3. DOMAIN Channels = {1, 2, 3} /\ \A i \in {1, 2, 3} : Channels[i] = <<>>
    BY <2>2 DEF IsLine
  <2>4. Places(Channels) = {}
    BY <2>3 DEF Places
  <2> QED
    BY <2>1, <2>4 DEF Conserved, OnceEach, NoMatch
<1>2. ASSUME Conserved PROVE OrdersConserved
  <2> SUFFICES ASSUME NEW o \in Orders
               PROVE  Cardinality({p \in Places(Channels) : Channels[p[1]][p[2]] = o}) + (IF o \in match.batch THEN 1 ELSE 0)
                          = IF created[o] = "queued" THEN 1 ELSE 0
    BY DEF OrdersConserved
  <2> DEFINE S == {p \in Places(Channels) : Channels[p[1]][p[2]] = o}
  <2>1. /\ \A p, q \in S : p = q
        /\ o \in match.batch => S = {}
        /\ created[o] = "queued" <=> o \in match.batch \/ S # {}
    BY <1>2 DEF Conserved, OnceEach, At
  <2> HIDE DEF S
  <2>2. S = {} => Cardinality(S) = 0
    BY FS_EmptySet
  <2>3. ASSUME NEW p \in S PROVE S = {p} /\ Cardinality(S) = 1
    BY <2>1, FS_Singleton
  <2>4. Cardinality(S) + (IF o \in match.batch THEN 1 ELSE 0) = IF created[o] = "queued" THEN 1 ELSE 0
    BY <2>1, <2>2, <2>3
  <2> QED
    BY <2>4 DEF S
<1> QED
  BY TypedInvariant, ConservedPreserved, <1>1, <1>2, PTL DEF Spec

-----------------------------------------------------------------------------
(* The crawler: what its channels and workers hold are different urls.       *)

CrawlTyped ==
    /\ status \in {"pending", "running", "completed"}
    /\ visited \subseteq Urls
    /\ queue \in Seq(Urls) /\ results \in Seq(Urls) /\ pages \in Seq(Urls)
    /\ worker \in [Workers -> [pc : {"idle", "fetch", "store", "links", "offer", "done"},
                               url : Urls \cup {NoUrl}, todo : SUBSET Urls]]
    /\ \A w \in Workers : worker[w].pc \in {"fetch", "store", "offer"} => worker[w].url \in Urls
    /\ queueShut \in BOOLEAN /\ panicked \in BOOLEAN

\* The invariant holds in every state of every behaviour.
LEMMA CrawlTypedInvariant == CrawlSpec => []CrawlTyped
<1>1. CrawlInit => CrawlTyped
  <2> SUFFICES ASSUME CrawlInit PROVE CrawlTyped
    OBVIOUS
  <2>1. <<>> \in Seq(Urls)
    OBVIOUS
  <2>2. worker = [w \in Workers |-> [pc |-> "idle", url |-> NoUrl, todo |-> {}]]
    BY DEF CrawlInit
  <2>3. worker \in [Workers -> [pc : {"idle", "fetch", "store", "links", "offer", "done"},
                                url : Urls \cup {NoUrl}, todo : SUBSET Urls]]
    BY <2>2
  <2>4. \A w \in Workers : worker[w].pc = "idle"
    BY <2>2
  <2> QED
    BY <2>1, <2>3, <2>4 DEF CrawlInit, CrawlTyped
<1>2. ASSUME CrawlTyped, [CrawlNext]_crawlVars PROVE CrawlTyped'
  <2> USE DEF CrawlTyped
  <2>1. CASE BeginCrawl
    <3>1. <<Seed>> \in Seq(Urls) /\ Seed \in Urls
      BY CrawlerAssumption
    <3> QED
      BY <2>1, <3>1, <1>2 DEF BeginCrawl
  <2>2. CASE CloseQueue
    BY <2>2, <1>2 DEF CloseQueue
  <2>3. CASE FinishCrawl
    BY <2>3, <1>2 DEF FinishCrawl
  <2>4. ASSUME NEW w \in Workers, TakeUrl(w) PROVE CrawlTyped'
    <3>1. CASE Go(w, "idle", "done") /\ UNCHANGED queue
      BY <2>4, <3>1, <1>2 DEF TakeUrl, Go
    <3>2. CASE queue # <<>> /\ queue' = Tail(queue)
               /\ worker' = [worker EXCEPT ![w] = [pc |-> "fetch", url |-> Head(queue), todo |-> {}]]
      <4>1. Head(queue) \in Urls /\ Tail(queue) \in Seq(Urls)
        BY <3>2, <1>2
      <4> QED
        BY <2>4, <3>2, <4>1, <1>2 DEF TakeUrl
    <3> QED
      BY <2>4, <3>1, <3>2 DEF TakeUrl
  <2>5. ASSUME NEW w \in Workers, Fetch(w) PROVE CrawlTyped'
    <3>1. PICK links \in SUBSET Urls : worker' = [worker EXCEPT ![w].pc = "store", ![w].todo = links]
      <4>1. worker[w].url \in Urls
        BY <2>5, <1>2 DEF Fetch
      <4>2. LinksOf[worker[w].url] \in SUBSET Urls
        BY <4>1, CrawlerAssumption
      <4> QED
        BY <2>5, <4>2 DEF Fetch
    <3>2. worker[w].pc = "fetch"
      BY <2>5 DEF Fetch
    <3>3. worker' \in [Workers -> [pc : {"idle", "fetch", "store", "links", "offer", "done"},
                                   url : Urls \cup {NoUrl}, todo : SUBSET Urls]]
      BY <3>1, <1>2
    <3>4. \A v \in Workers : worker'[v].pc \in {"fetch", "store", "offer"} => worker'[v].url \in Urls
      BY <3>1, <3>2, <1>2
    <3> QED
      BY <2>5, <3>3, <3>4, <1>2 DEF Fetch
  <2>6. ASSUME NEW w \in Workers, StorePage(w) PROVE CrawlTyped'
    <3>1. worker[w].url \in Urls /\ Append(results, worker[w].url) \in Seq(Urls)
      BY <2>6, <1>2 DEF StorePage, Go
    <3> QED
      BY <2>6, <3>1, <1>2 DEF StorePage, Go
  <2>7. ASSUME NEW w \in Workers, NEW u \in Urls, TryVisit(w, u) PROVE CrawlTyped'
    <3>1. worker' \in [Workers -> [pc : {"idle", "fetch", "store", "links", "offer", "done"},
                                   url : Urls \cup {NoUrl}, todo : SUBSET Urls]]
      BY <2>7, <1>2 DEF TryVisit
    <3>2. \A v \in Workers : worker'[v].pc \in {"fetch", "store", "offer"} => worker'[v].url \in Urls
      BY <2>7, <1>2 DEF TryVisit
    <3> QED
      BY <2>7, <3>1, <3>2, <1>2 DEF TryVisit
  <2>8. ASSUME NEW w \in Workers, OfferLink(w) PROVE CrawlTyped'
    <3>1. worker[w].url \in Urls /\ Append(queue, worker[w].url) \in Seq(Urls)
      BY <2>8, <1>2 DEF OfferLink, Go
    <3>2. queue' \in Seq(Urls) /\ panicked' \in BOOLEAN
      BY <2>8, <3>1, <1>2 DEF OfferLink
    <3> QED
      BY <2>8, <3>2, <1>2 DEF OfferLink, Go
  <2>9. ASSUME NEW w \in Workers, NextUrl(w) PROVE CrawlTyped'
    BY <2>9, <1>2 DEF NextUrl, Go
  <2>10. CASE UNCHANGED crawlVars
    BY <2>10, <1>2 DEF crawlVars
  <2> QED
    BY <2>1, <2>2, <2>3, <2>4, <2>5, <2>6, <2>7, <2>8, <2>9, <2>10, <1>2 DEF CrawlNext
<1> QED
  BY <1>1, <1>2, PTL DEF CrawlSpec

Busy == {w \in Workers : worker[w].pc \in {"fetch", "store"}}
Offering == {w \in Workers : worker[w].pc = "offer"}
Held == Range(queue) \cup Range(results) \cup Range(pages) \cup {worker[w].url : w \in Busy}

\* The urls queued, in hand, and stored are all different,
Apart ==
    /\ IsInjective(queue) /\ IsInjective(results) /\ IsInjective(pages)
    /\ Range(queue) \cap Range(results) = {} /\ Range(queue) \cap Range(pages) = {}
    /\ Range(results) \cap Range(pages) = {}
    /\ \A w \in Busy : worker[w].url \notin Range(queue) \cup Range(results) \cup Range(pages)
    /\ \A v, w \in Busy : worker[v].url = worker[w].url => v = w

\* are visited, and so are those to be offered, which are different too;
Known ==
    /\ Held \subseteq visited
    /\ \A w \in Offering : worker[w].url \in visited \ Held
    /\ \A v, w \in Offering : worker[v].url = worker[w].url => v = w

\* they are as many as there is room for pages.
Counted ==
    /\ IsFiniteSet(visited) /\ IsFiniteSet(Busy)
    /\ Cardinality(Held) = Len(queue) + Len(results) + Len(pages) + Cardinality(Busy)
    /\ Cardinality(Held) <= MaxPages

Fresh ==
    /\ status # "completed" => pages = <<>>
    /\ status = "pending" => queue = <<>> /\ results = <<>> /\ \A w \in Workers : worker[w].pc = "idle"

Distinct == Apart /\ Known /\ Counted /\ Fresh

\* What taking the head does to a list without duplicates.
LEMMA TailOf ==
    ASSUME NEW S, NEW s \in Seq(S), s # <<>>, IsInjective(s)
    PROVE  /\ Head(s) \in Range(s) /\ Range(Tail(s)) = Range(s) \ {Head(s)} /\ IsInjective(Tail(s))
           /\ Len(Tail(s)) = Len(s) - 1
<1>1. /\ Len(s) \in Nat \ {0} /\ DOMAIN s = 1 .. Len(s) /\ Head(s) = s[1]
      /\ DOMAIN Tail(s) = 1 .. Len(s) - 1 /\ Len(Tail(s)) = Len(s) - 1
      /\ \A i \in 1 .. Len(s) - 1 : Tail(s)[i] = s[i + 1]
  OBVIOUS
<1>2. \A i, j \in DOMAIN s : s[i] = s[j] => i = j
  BY DEF IsInjective
<1> DEFINE t == Tail(s)
<1>3. DOMAIN t = 1 .. Len(s) - 1 /\ \A i \in 1 .. Len(s) - 1 : t[i] = s[i + 1] /\ i + 1 \in DOMAIN s
  BY <1>1
<1> HIDE DEF t
<1>4. IsInjective(t)
  <2> SUFFICES ASSUME NEW i \in DOMAIN t, NEW j \in DOMAIN t, t[i] = t[j] PROVE i = j
    BY DEF IsInjective
  <2>1. i + 1 = j + 1 /\ i \in Int /\ j \in Int
    BY <1>2, <1>3
  <2> QED
    BY <2>1
<1>5. Range(t) = Range(s) \ {Head(s)}
  <2>1. ASSUME NEW i \in DOMAIN t PROVE t[i] \in Range(s) \ {Head(s)}
    <3>1. i + 1 \in DOMAIN s /\ 1 \in DOMAIN s /\ i + 1 # 1
      BY <1>1, <1>3
    <3> QED
      BY <1>1, <1>2, <1>3, <3>1 DEF Range
  <2>2. ASSUME NEW i \in DOMAIN s, s[i] # Head(s) PROVE s[i] \in Range(t)
    <3>1. i - 1 \in DOMAIN t /\ (i - 1) + 1 = i
      BY <1>1, <1>3, <2>2
    <3> QED
      BY <1>3, <3>1 DEF Range
  <2> QED
    BY <2>1, <2>2 DEF Range
<1>6. Head(s) \in Range(s)
  <2>1. 1 \in DOMAIN s
    BY <1>1
  <2> QED
    BY <1>1, <2>1 DEF Range
<1> QED
  BY <1>1, <1>4, <1>5, <1>6 DEF t

\* What appending does to a list without duplicates.
LEMMA AppendOf ==
    ASSUME NEW S, NEW s \in Seq(S), NEW x \in S
    PROVE  /\ Range(Append(s, x)) = Range(s) \cup {x} /\ Len(Append(s, x)) = Len(s) + 1
           /\ IsInjective(s) /\ x \notin Range(s) => IsInjective(Append(s, x))
<1> DEFINE t == Append(s, x)
<1>1. /\ Len(s) \in Nat /\ DOMAIN s = 1 .. Len(s) /\ DOMAIN t = 1 .. Len(s) + 1 /\ Len(t) = Len(s) + 1
      /\ \A i \in 1 .. Len(s) : t[i] = s[i]
      /\ t[Len(s) + 1] = x
  OBVIOUS
<1> HIDE DEF t
<1>2. DOMAIN t = DOMAIN s \cup {Len(s) + 1}
  BY <1>1
<1>3. Range(t) = Range(s) \cup {x}
  BY <1>1, <1>2 DEF Range
<1>4. ASSUME IsInjective(s), x \notin Range(s) PROVE IsInjective(t)
  BY <1>1, <1>2, <1>4 DEF IsInjective, Range
<1> QED
  BY <1>1, <1>3, <1>4 DEF t

\* The empty list has no members and no duplicates.
LEMMA EmptyOf == Range(<<>>) = {} /\ IsInjective(<<>>) /\ Len(<<>>) = 0
  BY DEF Range, IsInjective

\* A list of one has that member and no duplicates.
LEMMA OneOf == ASSUME NEW x PROVE Range(<<x>>) = {x} /\ IsInjective(<<x>>) /\ Len(<<x>>) = 1
  BY DEF Range, IsInjective

\* What the invariant counts can be counted.
LEMMA Numbers == ASSUME CrawlTyped, Distinct
                 PROVE  /\ Len(queue) \in Nat /\ Len(results) \in Nat /\ Len(pages) \in Nat
                        /\ Cardinality(Busy) \in Nat /\ Cardinality(Held) \in Nat /\ IsFiniteSet(Held)
                        /\ MaxPages \in Nat /\ MaxPages >= 1
<1>1. IsFiniteSet(Held)
  BY FS_Subset DEF Distinct, Known, Counted
<1>2. Cardinality(Busy) \in Nat /\ Cardinality(Held) \in Nat
  BY <1>1, FS_CardinalityType DEF Distinct, Counted
<1> QED
  BY <1>1, <1>2, CrawlerAssumption DEF CrawlTyped

\* Steps that move a worker between the other places change nothing of this.
LEMMA Still ==
    ASSUME Distinct, UNCHANGED <<status, visited, queue, results, pages>>,
           status = "pending" => worker' = worker,
           Busy' = Busy, Offering' = Offering, \A v \in Busy \cup Offering : worker'[v].url = worker[v].url
    PROVE  Distinct'
<1>1. Held' = Held
  BY DEF Held
<1>2. Apart'
  BY DEF Apart, Distinct
<1>3. Known'
  BY <1>1 DEF Known, Distinct
<1>4. Counted' /\ Fresh'
  BY <1>1 DEF Counted, Fresh, Distinct
<1> QED
  BY <1>2, <1>3, <1>4 DEF Distinct

\* A crawl with a worker at work has begun.
LEMMA Moving == ASSUME Distinct, NEW w \in Workers, worker[w].pc # "idle" PROVE status # "pending"
  BY DEF Distinct, Fresh

\* BeginCrawl keeps Distinct.
LEMMA BeginKeeps == ASSUME CrawlTyped, Distinct, BeginCrawl PROVE Distinct'
<1>1. /\ status' = "running" /\ queue' = <<Seed>> /\ visited' = {Seed}
      /\ results' = <<>> /\ pages' = <<>> /\ worker' = worker /\ \A w \in Workers : worker[w].pc = "idle"
  BY DEF BeginCrawl, Distinct, Fresh
<1>2. Busy' = {} /\ Offering' = {}
  BY <1>1 DEF Busy, Offering
<1>3. Range(queue') = {Seed} /\ IsInjective(queue') /\ Len(queue') = 1
  BY <1>1, OneOf
<1>4. /\ Range(results') = {} /\ IsInjective(results') /\ Len(results') = 0
      /\ Range(pages') = {} /\ IsInjective(pages') /\ Len(pages') = 0
  BY <1>1, EmptyOf
<1>5. Held' = {Seed}
  BY <1>2, <1>3, <1>4 DEF Held
<1>6. Apart' /\ Known' /\ Fresh'
  BY <1>1, <1>2, <1>3, <1>4, <1>5 DEF Apart, Known, Fresh
<1>7. Counted'
  <2>1. IsFiniteSet({}) /\ Cardinality({}) = 0 /\ IsFiniteSet({Seed}) /\ Cardinality({Seed}) = 1
    BY FS_EmptySet, FS_Singleton
  <2>2. IsFiniteSet(visited') /\ IsFiniteSet(Busy') /\ Cardinality(Busy') = 0 /\ Cardinality(Held') = 1
    BY <1>1, <1>2, <1>5, <2>1
  <2> QED
    BY <1>3, <1>4, <2>2, CrawlerAssumption DEF Counted
<1> QED
  BY <1>6, <1>7 DEF Distinct

\* TakeUrl keeps Distinct.
LEMMA TakeKeeps == ASSUME CrawlTyped, Distinct, NEW w \in Workers, TakeUrl(w) PROVE Distinct'
<1>1. CASE Go(w, "idle", "done") /\ UNCHANGED queue
  <2>1. UNCHANGED <<status, visited, queue, results, pages>> /\ worker[w].pc = "idle"
        /\ worker' = [worker EXCEPT ![w].pc = "done"]
    BY <1>1 DEF TakeUrl, Go
  <2>2. Busy' = Busy /\ Offering' = Offering /\ \A v \in Busy \cup Offering : worker'[v].url = worker[v].url
    BY <2>1 DEF Busy, Offering, CrawlTyped
  <2> QED
    BY <2>1, <2>2, Still DEF TakeUrl
<1>2. CASE queue # <<>> /\ queue' = Tail(queue) /\ worker[w].pc = "idle"
           /\ worker' = [worker EXCEPT ![w] = [pc |-> "fetch", url |-> Head(queue), todo |-> {}]]
  <2> DEFINE h == Head(queue)
  <2>1. UNCHANGED <<status, visited, results, pages>> /\ status = "running"
    BY DEF TakeUrl
  <2>2. /\ h \in Range(queue) /\ Range(queue') = Range(queue) \ {h} /\ IsInjective(queue')
        /\ Len(queue') = Len(queue) - 1
    BY <1>2, TailOf DEF Distinct, Apart, CrawlTyped
  <2>3. /\ worker'[w].url = h /\ worker'[w].pc = "fetch"
        /\ \A v \in Workers \ {w} : worker'[v] = worker[v]
    BY <1>2 DEF CrawlTyped
  <2> HIDE DEF h
  <2>4. Busy' = Busy \cup {w} /\ w \notin Busy /\ Offering' = Offering /\ w \notin Offering
    BY <2>3, <1>2 DEF Busy, Offering
  <2>5. Held' = Held
    BY <2>1, <2>2, <2>3, <2>4 DEF Held, Busy
  <2>6. Apart'
    BY <2>1, <2>2, <2>3, <2>4 DEF Apart, Distinct, Busy
  <2>7. Known'
    BY <2>1, <2>3, <2>4, <2>5 DEF Known, Distinct, Offering
  <2>8. IsFiniteSet(Busy') /\ Cardinality(Busy') = Cardinality(Busy) + 1
    BY <2>4, FS_AddElement DEF Distinct, Counted
  <2>9. Counted'
    BY <2>1, <2>2, <2>5, <2>8, Numbers DEF Counted, Distinct
  <2>10. Fresh'
    BY <2>1 DEF Fresh, Distinct
  <2> QED
    BY <2>6, <2>7, <2>9, <2>10 DEF Distinct
<1> QED
  BY <1>1, <1>2 DEF TakeUrl

\* StorePage keeps Distinct.
LEMMA StoreKeeps == ASSUME CrawlTyped, Distinct, NEW w \in Workers, StorePage(w) PROVE Distinct'
<1> DEFINE u == worker[w].url
<1>1. /\ UNCHANGED <<status, visited, queue, pages>> /\ results' = Append(results, u)
      /\ worker[w].pc = "store" /\ worker' = [worker EXCEPT ![w].pc = "links"]
  BY DEF StorePage, Go
<1>2. \A v \in Workers : worker'[v].url = worker[v].url /\ worker'[v].pc = IF v = w THEN "links" ELSE worker[v].pc
  BY <1>1 DEF CrawlTyped
<1>3. Busy' = Busy \ {w} /\ w \in Busy /\ Offering' = Offering
  BY <1>1, <1>2 DEF Busy, Offering
<1>4. u \in Urls /\ u \notin Range(results)
  BY <1>1, <1>3 DEF CrawlTyped, Distinct, Apart
<1>5. Range(results') = Range(results) \cup {u} /\ IsInjective(results') /\ Len(results') = Len(results) + 1
  BY <1>1, <1>4, AppendOf DEF CrawlTyped, Distinct, Apart
<1> HIDE DEF u
<1>6. Held' = Held
  <2>1. {worker'[v].url : v \in Busy'} \cup {u} = {worker[v].url : v \in Busy}
    BY <1>2, <1>3 DEF u, Busy
  <2> QED
    BY <1>1, <1>5, <2>1 DEF Held
<1>7. Apart'
  BY <1>1, <1>2, <1>3, <1>5 DEF Apart, Distinct, Busy, u
<1>8. Known'
  BY <1>1, <1>2, <1>3, <1>6 DEF Known, Distinct, Offering
<1>9. IsFiniteSet(Busy') /\ Cardinality(Busy') = Cardinality(Busy) - 1
  BY <1>3, FS_RemoveElement DEF Distinct, Counted
<1>10. Counted'
  BY <1>1, <1>5, <1>6, <1>9, Numbers DEF Counted, Distinct
<1>11. Fresh'
  BY <1>1, Moving DEF Fresh, Distinct
<1> QED
  BY <1>7, <1>8, <1>10, <1>11 DEF Distinct

\* TryVisit keeps Distinct.
LEMMA VisitKeeps == ASSUME CrawlTyped, Distinct, NEW w \in Workers, NEW u \in Urls, TryVisit(w, u) PROVE Distinct'
<1>1. UNCHANGED <<status, queue, results, pages>> /\ visited' = visited \cup {u} /\ worker[w].pc = "links"
  BY DEF TryVisit
<1>2. /\ worker'[w].pc = IF u \in visited THEN "links" ELSE "offer"
      /\ u \notin visited => worker'[w].url = u
      /\ \A v \in Workers \ {w} : worker'[v] = worker[v]
  BY DEF TryVisit, CrawlTyped
<1>3. CASE u \in visited
  <2>1. Busy' = Busy /\ Offering' = Offering /\ \A v \in Busy \cup Offering : worker'[v].url = worker[v].url
    BY <1>1, <1>2, <1>3 DEF Busy, Offering
  <2> QED
    BY <1>1, <1>3, <2>1, Still, Moving
<1>4. CASE u \notin visited
  <2>1. /\ Busy' = Busy /\ Offering' = Offering \cup {w} /\ w \notin Busy /\ w \notin Offering
        /\ worker'[w].url = u
        /\ \A v \in Busy \cup Offering : worker'[v].url = worker[v].url
    BY <1>1, <1>2, <1>4 DEF Busy, Offering
  <2>2. Held' = Held
    BY <1>1, <2>1 DEF Held
  <2>3. Apart'
    BY <1>1, <2>1 DEF Apart, Distinct
  <2>4. Known'
    <3>1. Held' \subseteq visited'
      BY <1>1, <2>2 DEF Known, Distinct
    <3>2. \A v \in Offering' : worker'[v].url \in visited' \ Held'
      BY <1>1, <1>4, <2>1, <2>2 DEF Known, Distinct
    <3>3. \A v, x \in Offering' : worker'[v].url = worker'[x].url => v = x
      BY <1>4, <2>1 DEF Known, Distinct
    <3> QED
      BY <3>1, <3>2, <3>3 DEF Known
  <2>5. IsFiniteSet(visited')
    BY <1>1, FS_AddElement DEF Counted, Distinct
  <2>6. Counted' 
    BY <1>1, <2>1, <2>2, <2>5 DEF Counted, Distinct
  <2>7. Fresh'
    <3>1. status # "pending"
      BY <1>1, Moving
    <3> QED
      BY <1>1, <3>1 DEF Fresh, Distinct
  <2> QED
    BY <2>3, <2>4, <2>6, <2>7 DEF Distinct
<1> QED
  BY <1>3, <1>4

\* OfferLink keeps Distinct.
LEMMA OfferKeeps == ASSUME CrawlTyped, Distinct, NEW w \in Workers, OfferLink(w) PROVE Distinct'
<1> DEFINE u == worker[w].url
<1>1. /\ UNCHANGED <<status, visited, results, pages>>
      /\ worker[w].pc = "offer" /\ worker' = [worker EXCEPT ![w].pc = "links"]
  BY DEF OfferLink, Go
<1>2. \A v \in Workers : worker'[v].url = worker[v].url /\ worker'[v].pc = IF v = w THEN "links" ELSE worker[v].pc
  BY <1>1 DEF CrawlTyped
<1>3. Busy' = Busy /\ Offering' = Offering \ {w} /\ w \in Offering
  BY <1>1, <1>2 DEF Busy, Offering
<1>4. \A v \in Busy \cup Offering : worker'[v].url = worker[v].url
  BY <1>2 DEF Busy, Offering
<1>5. u \in Urls /\ u \in visited /\ u \notin Held
  BY <1>1, <1>3 DEF CrawlTyped, Distinct, Known
<1>6. CASE UNCHANGED queue
  <2>1. Held' = Held
    BY <1>1, <1>3, <1>4, <1>6 DEF Held
  <2>2. Apart'
    BY <1>1, <1>3, <1>4, <1>6 DEF Apart, Distinct
  <2>3. Known'
    BY <1>1, <1>3, <1>4, <2>1 DEF Known, Distinct
  <2>4. Counted' /\ Fresh'
    BY <1>1, <1>3, <1>6, <2>1, Moving DEF Counted, Fresh, Distinct
  <2> QED
    BY <2>2, <2>3, <2>4 DEF Distinct
<1>7. CASE queue' = Append(queue, u) /\ Cardinality(visited) <= MaxPages
  <2>1. u \notin Range(queue) \cup Range(results) \cup Range(pages) /\ \A v \in Busy : worker[v].url # u
    BY <1>5 DEF Held
  <2>2. Range(queue') = Range(queue) \cup {u} /\ IsInjective(queue') /\ Len(queue') = Len(queue) + 1
    BY <1>5, <1>7, <2>1, AppendOf DEF CrawlTyped, Distinct, Apart
  <2> HIDE DEF u
  <2>3. Held' = Held \cup {u}
    BY <1>1, <1>3, <1>4, <2>2 DEF Held
  <2>4. Apart'
    BY <1>1, <1>3, <1>4, <2>1, <2>2 DEF Apart, Distinct
  <2>5. Known'
    <3>1. Held' \subseteq visited'
      BY <1>1, <1>5, <2>3 DEF Known, Distinct
    <3>2. \A v \in Offering' : worker'[v].url \in visited' \ Held'
      BY <1>1, <1>3, <1>4, <2>3 DEF Known, Distinct, u
    <3>3. \A v, x \in Offering' : worker'[v].url = worker'[x].url => v = x
      BY <1>3, <1>4 DEF Known, Distinct
    <3> QED
      BY <3>1, <3>2, <3>3 DEF Known
  <2>6. Cardinality(Held') = Cardinality(Held) + 1
    BY <1>5, <2>3, Numbers, FS_AddElement
  <2>7. Cardinality(Held') <= MaxPages
    <3>1. Held' \subseteq visited /\ IsFiniteSet(visited)
      BY <1>5, <2>3 DEF Known, Counted, Distinct
    <3>2. Cardinality(Held') <= Cardinality(visited)
      BY <3>1, FS_Subset
    <3>3. Cardinality(visited) \in Nat /\ Cardinality(Held') \in Nat
      BY <3>1, <2>6, Numbers, FS_CardinalityType
    <3> QED
      BY <1>7, <3>2, <3>3, Numbers
  <2>8. Counted'
    BY <1>1, <1>3, <2>2, <2>6, <2>7, Numbers DEF Counted, Distinct
  <2>9. Fresh'
    <3>1. status # "pending"
      BY <1>1, Moving
    <3> QED
      BY <1>1, <3>1 DEF Fresh, Distinct
  <2> QED
    BY <2>4, <2>5, <2>8, <2>9 DEF Distinct
<1> QED
  BY <1>6, <1>7 DEF OfferLink

\* FinishCrawl keeps Distinct.
LEMMA FinishKeeps == ASSUME CrawlTyped, Distinct, FinishCrawl PROVE Distinct'
<1>1. /\ UNCHANGED <<visited, queue, worker>> /\ pages = <<>> /\ pages' = results /\ results' = <<>>
      /\ status' = "completed"
  BY DEF FinishCrawl, Distinct, Fresh
<1>2. Busy' = Busy /\ Offering' = Offering
  BY <1>1 DEF Busy, Offering
<1>3. /\ Range(results') = {} /\ IsInjective(results') /\ Len(results') = 0
      /\ Range(pages) = {} /\ Len(pages) = 0
  BY <1>1, EmptyOf
<1>4. Held' = Held
  BY <1>1, <1>2, <1>3 DEF Held
<1>5. Apart'
  BY <1>1, <1>2, <1>3 DEF Apart, Distinct
<1>6. Known' /\ Fresh'
  BY <1>1, <1>2, <1>4 DEF Known, Fresh, Distinct
<1>7. Counted'
  BY <1>1, <1>2, <1>3, <1>4, Numbers DEF Counted, Distinct
<1> QED
  BY <1>5, <1>6, <1>7 DEF Distinct

\* Every step keeps Distinct.
LEMMA DistinctPreserved == ASSUME CrawlTyped, Distinct, [CrawlNext]_crawlVars PROVE Distinct'
<1>1. ASSUME NEW w \in Workers, Fetch(w) PROVE Distinct'
  <2>1. /\ UNCHANGED <<status, visited, queue, results, pages>> /\ worker[w].pc = "fetch"
        /\ worker'[w].pc = "store" /\ worker'[w].url = worker[w].url
        /\ \A v \in Workers \ {w} : worker'[v] = worker[v]
    BY <1>1 DEF Fetch, CrawlTyped
  <2>2. Busy' = Busy /\ Offering' = Offering /\ \A v \in Busy \cup Offering : worker'[v].url = worker[v].url
    BY <2>1 DEF Busy, Offering
  <2> QED
    BY <2>1, <2>2, Still, Moving
<1>2. ASSUME NEW w \in Workers, NextUrl(w) PROVE Distinct'
  <2>1. /\ UNCHANGED <<status, visited, queue, results, pages>> /\ worker[w].pc = "links"
        /\ worker'[w].pc = "idle"
        /\ \A v \in Workers \ {w} : worker'[v] = worker[v]
    BY <1>2 DEF NextUrl, Go, CrawlTyped
  <2>2. Busy' = Busy /\ Offering' = Offering /\ \A v \in Busy \cup Offering : worker'[v].url = worker[v].url
    BY <2>1 DEF Busy, Offering
  <2> QED
    BY <2>1, <2>2, Still, Moving
<1>3. CASE CloseQueue \/ UNCHANGED crawlVars
  <2>1. UNCHANGED <<status, visited, queue, results, pages, worker>>
    BY <1>3 DEF CloseQueue, crawlVars
  <2>2. Busy' = Busy /\ Offering' = Offering /\ \A v \in Busy \cup Offering : worker'[v].url = worker[v].url
    BY <2>1 DEF Busy, Offering
  <2> QED
    BY <2>1, <2>2, Still
<1> QED
  BY <1>1, <1>2, <1>3, BeginKeeps, TakeKeeps, StoreKeeps, VisitKeeps, OfferKeeps, FinishKeeps DEF CrawlNext

\* The invariant holds in every state of every behaviour.
LEMMA DistinctInvariant == CrawlSpec => [](CrawlTyped /\ Distinct)
<1>1. ASSUME CrawlInit PROVE Distinct
  <2>1. /\ status = "pending" /\ visited = {} /\ queue = <<>> /\ results = <<>> /\ pages = <<>>
        /\ worker = [w \in Workers |-> [pc |-> "idle", url |-> NoUrl, todo |-> {}]]
    BY <1>1 DEF CrawlInit
  <2>2. Busy = {} /\ Offering = {}
    BY <2>1 DEF Busy, Offering
  <2>3. Range(queue) = {} /\ IsInjective(queue) /\ Len(queue) = 0 /\ results = queue /\ pages = queue
    BY <2>1, EmptyOf
  <2>4. Held = {}
    BY <2>2, <2>3 DEF Held
  <2>5. Apart /\ Known /\ Fresh
    BY <2>1, <2>2, <2>3, <2>4 DEF Apart, Known, Fresh
  <2>6. Counted
    BY <2>1, <2>2, <2>3, <2>4, CrawlerAssumption, FS_EmptySet DEF Counted
  <2> QED
    BY <2>5, <2>6 DEF Distinct
<1> QED
  BY CrawlTypedInvariant, DistinctPreserved, <1>1, PTL DEF CrawlSpec

\* Joining two lists without duplicates or common members.
LEMMA ConcatOf ==
    ASSUME NEW S, NEW s \in Seq(S), NEW t \in Seq(S), IsInjective(s), IsInjective(t), Range(s) \cap Range(t) = {}
    PROVE  IsInjective(s \o t) /\ Range(s \o t) = Range(s) \cup Range(t) /\ s \o t \in Seq(S)
<1> DEFINE u == s \o t
<1>1. /\ Len(s) \in Nat /\ Len(t) \in Nat /\ DOMAIN s = 1 .. Len(s) /\ DOMAIN t = 1 .. Len(t)
      /\ DOMAIN u = 1 .. Len(s) + Len(t) /\ u \in Seq(S)
      /\ \A i \in 1 .. Len(s) : u[i] = s[i]
      /\ \A i \in Len(s) + 1 .. Len(s) + Len(t) : u[i] = t[i - Len(s)]
  OBVIOUS
<1> HIDE DEF u
<1>2. ASSUME NEW i \in DOMAIN u
      PROVE  \/ i \in DOMAIN s /\ u[i] = s[i]
             \/ i \notin DOMAIN s /\ i - Len(s) \in DOMAIN t /\ u[i] = t[i - Len(s)]
  BY <1>1
<1>3. IsInjective(u)
  <2> SUFFICES ASSUME NEW i \in DOMAIN u, NEW j \in DOMAIN u, u[i] = u[j] PROVE i = j
    BY DEF IsInjective
  <2>1. i \in Int /\ j \in Int
    BY <1>1
  <2>2. \A k \in DOMAIN s, l \in DOMAIN t : s[k] # t[l]
    BY DEF Range
  <2>3. CASE i \in DOMAIN s /\ j \in DOMAIN s
    BY <1>1, <2>3 DEF IsInjective
  <2>4. CASE i \notin DOMAIN s /\ j \notin DOMAIN s
    <3>1. i - Len(s) = j - Len(s)
      BY <1>2, <2>4 DEF IsInjective
    <3> QED
      BY <1>1, <2>1, <3>1
  <2> QED
    BY <1>2, <2>2, <2>3, <2>4
<1>4. Range(u) = Range(s) \cup Range(t)
  <2>1. ASSUME NEW i \in DOMAIN s PROVE i \in DOMAIN u /\ u[i] = s[i]
    BY <1>1
  <2>2. ASSUME NEW i \in DOMAIN t PROVE i + Len(s) \in DOMAIN u /\ u[i + Len(s)] = t[i]
    BY <1>1
  <2> QED
    BY <1>2, <2>1, <2>2 DEF Range
<1> QED
  BY <1>1, <1>3, <1>4 DEF u

\* No worker of a job ever waits for room and no page is stored twice, for any web of
\* links and any number of workers: a url enters the queue at most once, while no more
\* than MaxPages are known, and what entered stays among the queued, in hand and stored.
THEOREM CrawlFits == CrawlSpec => [](CrawlTypeOK /\ PagesFit)
<1>1. ASSUME CrawlTyped, Distinct PROVE PagesFit
  <2> USE <1>1 DEF CrawlTyped, Distinct
  <2>1. Len(queue) + Len(results) + Len(pages) + Cardinality(Busy) <= MaxPages
    BY DEF Counted
  <2>2. IsInjective(results \o queue) /\ Range(results \o queue) = Range(results) \cup Range(queue)
        /\ results \o queue \in Seq(Urls)
    BY ConcatOf DEF Apart
  <2>3. IsInjective(pages) /\ Range(results \o queue) \cap Range(pages) = {}
    BY <2>2 DEF Apart
  <2> DEFINE ahead == results \o queue
  <2>4. ahead \in Seq(Urls) /\ IsInjective(ahead) /\ Range(ahead) \cap Range(pages) = {} /\ pages \in Seq(Urls)
    BY <2>2, <2>3
  <2> HIDE DEF ahead
  <2>5. IsInjective(ahead \o pages)
    BY <2>3, <2>4, ConcatOf
  <2> QED
    BY <2>1, <2>5 DEF PagesFit, Busy, ahead
<1>2. ASSUME CrawlTyped, Distinct PROVE CrawlTypeOK
  <2>1. Len(queue) <= 2 * MaxPages /\ Len(results) <= MaxPages
    BY <1>2, Numbers DEF Distinct, Counted
  <2>2. Range(pages) \subseteq Urls
    BY <1>2 DEF CrawlTyped, Range
  <2> QED
    BY <1>2, <2>1, <2>2 DEF CrawlTypeOK, CrawlTyped
<1> QED
  BY DistinctInvariant, <1>1, <1>2, PTL

-----------------------------------------------------------------------------
(* The services side by side.                                               *)

\* Whichever service runs, a behaviour of all is a behaviour of dispatch and of the crawler.
LEMMA EachRuns == WorkersSpec => Spec /\ CrawlSpec
<1>1. WorkersInit => Init /\ CrawlInit
  BY DEF WorkersInit
<1>2. [WorkersNext]_workersVars => [Next]_vars /\ [CrawlNext]_crawlVars
  BY DEF WorkersNext, DispatchStep, Dispatching, CrawlStep, SagaStep, Saga, workersVars
<1> QED
  BY <1>1, <1>2, PTL DEF WorkersSpec, Spec, CrawlSpec

\* So what is proved of each service holds of the run: the types and capacities of both,
\* and the pages of a crawl.
THEOREM BothTypeCorrect == WorkersSpec => []WorkersTypeOK
  BY EachRuns, TypeCorrect, CrawlFits, PTL DEF WorkersTypeOK
=============================================================================
