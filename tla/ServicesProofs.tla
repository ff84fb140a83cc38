--------------------------- MODULE ServicesProofs ----------------------------
(***************************************************************************)
(* The services that pass messages on and those that keep records, each for *)
(* any values of its constants, and MCServices, which has them all.         *)
(***************************************************************************)
EXTENDS MCServices, TradeProofs

-----------------------------------------------------------------------------
(* Tracking.                                                                 *)

EventNumbers == Seq(Nat)
Live(c) == conn[c].pc \notin {"new", "ended"}

\* The number of events of an order that its consumer took out of the pipe.
TakenFrom(o) == published[o] - Len(pipe[o])
Got(s) == seen[s] \o buffer[s]

InSequence(q, gaps) == \A i \in 1 .. Len(q) - 1 : q[i] < q[i + 1] /\ (~gaps => q[i + 1] = q[i] + 1)
Upto(q, n) == \A i \in 1 .. Len(q) : q[i] <= n
EndsWith(q, n) == Len(q) > 0 => q[Len(q)] = n

-----------------------------------------------------------------------------
(* Sequences of event numbers.                                               *)

\* Moving the head of one queue to the end of another keeps their concatenation.
LEMMA Moved == ASSUME NEW a \in EventNumbers, NEW b \in EventNumbers, Len(b) > 0
               PROVE  /\ Head(b) \in Nat /\ Tail(b) \in EventNumbers /\ Append(a, Head(b)) \in EventNumbers
                      /\ Append(a, Head(b)) \o Tail(b) = a \o b
<1>1. b # <<>> /\ Len(a) \in Nat /\ Len(b) \in Nat
  BY DEF EventNumbers
<1>2. Head(b) \in Nat /\ Tail(b) \in EventNumbers /\ Len(Tail(b)) = Len(b) - 1
  BY <1>1 DEF EventNumbers
<1>3. Append(a, Head(b)) \in EventNumbers /\ Len(Append(a, Head(b))) = Len(a) + 1
  BY <1>2 DEF EventNumbers
<1> DEFINE p == Append(a, Head(b)) \o Tail(b)
           q == a \o b
<1>4. p \in EventNumbers /\ q \in EventNumbers /\ Len(p) = Len(a) + Len(b) /\ Len(q) = Len(a) + Len(b)
  BY <1>1, <1>2, <1>3 DEF EventNumbers
<1>5. ASSUME NEW i \in 1 .. Len(a) + Len(b) PROVE p[i] = q[i]
  <2>1. CASE i <= Len(a)
    BY <1>1, <1>2, <1>3, <2>1 DEF EventNumbers
  <2>2. CASE i = Len(a) + 1
    BY <1>1, <1>2, <1>3, <2>2 DEF EventNumbers
  <2>3. CASE i > Len(a) + 1
    BY <1>1, <1>2, <1>3, <2>3 DEF EventNumbers
  <2> QED
    BY <1>1, <2>1, <2>2, <2>3
<1>6. p = q
  BY <1>4, <1>5, SeqEqual DEF EventNumbers
<1> QED
  BY <1>2, <1>3, <1>6

\* Appending to the second of two queues appends to their concatenation.
LEMMA Added == ASSUME NEW a \in EventNumbers, NEW b \in EventNumbers, NEW m \in Nat
               PROVE  /\ Append(b, m) \in EventNumbers /\ a \o b \in EventNumbers
                      /\ a \o Append(b, m) = Append(a \o b, m)
  BY DEF EventNumbers

\* Appending the next number keeps a queue of event numbers in sequence.
LEMMA Longer == ASSUME NEW q \in EventNumbers, NEW n \in Nat, NEW gaps \in BOOLEAN,
                       InSequence(q, gaps), Upto(q, n), ~gaps => EndsWith(q, n)
                PROVE  /\ InSequence(Append(q, n + 1), gaps) /\ Upto(Append(q, n + 1), n + 1)
                       /\ EndsWith(Append(q, n + 1), n + 1)
<1> DEFINE p == Append(q, n + 1)
<1>1. /\ Len(q) \in Nat /\ Len(p) = Len(q) + 1 /\ p[Len(q) + 1] = n + 1
      /\ \A i \in 1 .. Len(q) : p[i] = q[i] /\ q[i] \in Nat
  BY DEF EventNumbers
<1>2. \A i \in 1 .. Len(q) - 1 : p[i] < p[i + 1] /\ (~gaps => p[i + 1] = p[i] + 1)
  <2>1. ASSUME NEW i \in 1 .. Len(q) - 1 PROVE p[i] = q[i] /\ p[i + 1] = q[i + 1]
    BY <1>1
  <2> QED
    BY <2>1 DEF InSequence
<1>3. Len(q) > 0 => p[Len(q)] < p[Len(q) + 1] /\ (~gaps => p[Len(q) + 1] = p[Len(q)] + 1)
  BY <1>1 DEF Upto, EndsWith
<1>4. InSequence(p, gaps)
  <2> SUFFICES ASSUME NEW i \in 1 .. Len(q)
               PROVE  p[i] < p[i + 1] /\ (~gaps => p[i + 1] = p[i] + 1)
    BY <1>1 DEF InSequence
  <2>1. CASE i = Len(q)
    BY <1>1, <1>3, <2>1
  <2>2. CASE i # Len(q)
    BY <1>1, <1>2, <2>2
  <2> QED
    BY <2>1, <2>2
<1>5. Upto(p, n + 1)
  <2> SUFFICES ASSUME NEW i \in 1 .. Len(q) + 1 PROVE p[i] <= n + 1
    BY <1>1 DEF Upto
  <2>1. CASE i = Len(q) + 1
    BY <1>1, <2>1
  <2>2. CASE i # Len(q) + 1
    BY <1>1, <2>2 DEF Upto
  <2> QED
    BY <2>1, <2>2
<1> QED
  BY <1>1, <1>4, <1>5 DEF EndsWith

-----------------------------------------------------------------------------
(* The pipes and the streams.                                                *)

FanTyped ==
    /\ pipe \in [TrackedOrders -> EventNumbers] /\ published \in [TrackedOrders -> Nat]
    /\ stream \in [Streams -> [on : BOOLEAN, order : TrackedOrders]]
    /\ buffer \in [Streams -> EventNumbers] /\ seen \in [Streams -> EventNumbers]
    /\ missed \subseteq Streams
    /\ \A o \in TrackedOrders : Len(pipe[o]) <= PipeCap
    /\ \A s \in Streams : Len(buffer[s]) <= StreamCap

\* A pipe holds the last events of its order, in order.
PipeNumbered(o) ==
    /\ TakenFrom(o) >= 0
    /\ \A i \in 1 .. Len(pipe[o]) : pipe[o][i] = TakenFrom(o) + i

\* A stream that lost nothing has the last event its pipe handed out.
StreamKept(s) ==
    /\ InSequence(Got(s), s \in missed) /\ Upto(Got(s), TakenFrom(stream[s].order))
    /\ stream[s].on /\ s \notin missed => EndsWith(Got(s), TakenFrom(stream[s].order))

Fan ==
    /\ FanTyped
    /\ \A o \in TrackedOrders : PipeNumbered(o)
    /\ \A s \in Streams : StreamKept(s)

\* Fan holds in the initial states.
LEMMA FanInit == TrackingInit => Fan
<1> SUFFICES ASSUME TrackingInit PROVE Fan
  OBVIOUS
<1>1. FanTyped
  <2>1. <<>> \in EventNumbers /\ Len(<<>>) = 0
    BY DEF EventNumbers
  <2>2. (CHOOSE o \in TrackedOrders : TRUE) \in TrackedOrders
    BY TrackingAssumption
  <2> QED
    BY <2>1, <2>2, TrackingAssumption DEF TrackingInit, FanTyped
<1>2. ASSUME NEW o \in TrackedOrders PROVE PipeNumbered(o)
  BY DEF TrackingInit, PipeNumbered, TakenFrom
<1>3. ASSUME NEW s \in Streams PROVE StreamKept(s)
  <2>1. Got(s) = <<>> /\ Len(Got(s)) = 0
    BY DEF TrackingInit, Got
  <2> QED
    BY <2>1 DEF StreamKept, InSequence, Upto, EndsWith
<1> QED
  BY <1>1, <1>2, <1>3 DEF Fan

\* A full pipe drops the event; else its consumer has one more to take, and no stream changes.
LEMMA FanPublish == ASSUME NEW c \in Conns, conn[c].order \in TrackedOrders, Fan, Publish(c) PROVE Fan'
<1>1. PICK o \in TrackedOrders : o = conn[c].order
  OBVIOUS
<1>2. CASE UNCHANGED <<pipe, published>>
  <2>1. FanTyped' /\ \A r \in TrackedOrders : PipeNumbered(r)'
    BY <1>2 DEF Publish, Fan, FanTyped, PipeNumbered, TakenFrom
  <2>2. \A s \in Streams : StreamKept(s)'
    BY <1>2 DEF Publish, Fan, StreamKept, Got, TakenFrom
  <2> QED
    BY <2>1, <2>2 DEF Fan
<1>3. CASE /\ Len(pipe[o]) < PipeCap
           /\ pipe' = [pipe EXCEPT ![o] = Append(@, published[o] + 1)]
           /\ published' = [published EXCEPT ![o] = @ + 1]
  <2>1. UNCHANGED <<stream, buffer, seen, missed>>
    BY DEF Publish
  <2>2. pipe[o] \in EventNumbers /\ published[o] \in Nat /\ Len(pipe[o]) \in Nat
    BY DEF Fan, FanTyped, EventNumbers
  <2>3. /\ pipe'[o] = Append(pipe[o], published[o] + 1) /\ published'[o] = published[o] + 1
        /\ \A r \in TrackedOrders \ {o} : pipe'[r] = pipe[r] /\ published'[r] = published[r]
    BY <1>3 DEF Fan, FanTyped
  <2>4. /\ pipe'[o] \in EventNumbers /\ Len(pipe'[o]) = Len(pipe[o]) + 1
        /\ pipe'[o][Len(pipe[o]) + 1] = published[o] + 1
        /\ \A i \in 1 .. Len(pipe[o]) : pipe'[o][i] = pipe[o][i]
    BY <2>2, <2>3 DEF EventNumbers
  <2>5. ASSUME NEW r \in TrackedOrders PROVE TakenFrom(r)' = TakenFrom(r)
    <3>1. CASE r = o
      <4>1. published'[o] = published[o] + 1 /\ Len(pipe'[o]) = Len(pipe[o]) + 1
        BY <2>3, <2>4
      <4>2. TakenFrom(o)' = TakenFrom(o)
        BY <2>2, <4>1 DEF TakenFrom
      <4> QED
        BY <3>1, <4>2
    <3>2. CASE r # o
      BY <2>3, <3>2 DEF TakenFrom
    <3> QED
      BY <3>1, <3>2
  <2>6. FanTyped'
    <3>1. pipe' \in [TrackedOrders -> EventNumbers] /\ published' \in [TrackedOrders -> Nat]
      BY <1>3, <2>2, <2>3, <2>4 DEF Fan, FanTyped
    <3>2. \A r \in TrackedOrders : Len(pipe'[r]) <= PipeCap
      <4>1. Len(pipe'[o]) <= PipeCap
        BY <1>3, <2>2, <2>4, TrackingAssumption
      <4> QED
        BY <2>3, <4>1 DEF Fan, FanTyped
    <3> QED
      BY <2>1, <3>1, <3>2 DEF Fan, FanTyped
  <2>7. ASSUME NEW r \in TrackedOrders PROVE PipeNumbered(r)'
    <3>1. CASE r = o
      <4>1. TakenFrom(o) >= 0 /\ \A i \in 1 .. Len(pipe[o]) : pipe'[o][i] = TakenFrom(o) + i
        BY <2>4 DEF Fan, PipeNumbered
      <4>2. pipe'[o][Len(pipe[o]) + 1] = TakenFrom(o) + (Len(pipe[o]) + 1)
        BY <2>2, <2>4 DEF TakenFrom
      <4>3. \A i \in 1 .. Len(pipe'[o]) : i \in 1 .. Len(pipe[o]) \/ i = Len(pipe[o]) + 1
        BY <2>2, <2>4
      <4> QED
        BY <2>5, <3>1, <4>1, <4>2, <4>3 DEF PipeNumbered
    <3>2. CASE r # o
      BY <2>3, <2>5, <3>2 DEF Fan, PipeNumbered
    <3> QED
      BY <3>1, <3>2
  <2>8. ASSUME NEW s \in Streams PROVE StreamKept(s)'
    <3>1. stream[s].order \in TrackedOrders
      BY DEF Fan, FanTyped
    <3>2. Got(s)' = Got(s) /\ TakenFrom(stream[s].order)' = TakenFrom(stream[s].order)
      BY <2>1, <2>5, <3>1 DEF Got, TakenFrom
    <3> QED
      BY <2>1, <3>2 DEF Fan, StreamKept
  <2> QED
    BY <2>6, <2>7, <2>8 DEF Fan
<1> QED
  BY <1>1, <1>2, <1>3 DEF Publish

\* The consumer hands the oldest event to the streams of the order that have room; the others miss it.
LEMMA FanConsume == ASSUME NEW o \in TrackedOrders, Fan, Consume(o) PROVE Fan'
<1> DEFINE full == {s \in Subscribed(o) : Len(buffer[s]) >= StreamCap}
<1>1. /\ pipe' = [pipe EXCEPT ![o] = Tail(@)] /\ pipe[o] # <<>>
      /\ missed' = missed \cup full
      /\ buffer' = [s \in Streams |-> IF s \in Subscribed(o) \ full
                       THEN Append(buffer[s], Head(pipe[o])) ELSE buffer[s]]
      /\ UNCHANGED <<published, stream, seen>>
  BY DEF Consume
<1>2. pipe[o] \in EventNumbers /\ published[o] \in Nat /\ Len(pipe[o]) \in Nat /\ Len(pipe[o]) > 0
  BY <1>1 DEF Fan, FanTyped, EventNumbers
<1>3. /\ Head(pipe[o]) = pipe[o][1] /\ Head(pipe[o]) \in Nat /\ Tail(pipe[o]) \in EventNumbers
      /\ Len(Tail(pipe[o])) = Len(pipe[o]) - 1
      /\ \A i \in 1 .. Len(pipe[o]) - 1 : Tail(pipe[o])[i] = pipe[o][i + 1]
  BY <1>1, <1>2, HeadTailProperties DEF EventNumbers
<1>4. pipe'[o] = Tail(pipe[o]) /\ \A r \in TrackedOrders \ {o} : pipe'[r] = pipe[r]
  BY <1>1 DEF Fan, FanTyped
<1>5. PipeNumbered(o) /\ Head(pipe[o]) = TakenFrom(o) + 1 /\ TakenFrom(o) \in Nat
  <2>1. PipeNumbered(o)
    BY DEF Fan
  <2>2. pipe[o][1] = TakenFrom(o) + 1
    BY <1>2, <2>1 DEF PipeNumbered
  <2> QED
    BY <1>2, <1>3, <2>1, <2>2 DEF PipeNumbered, TakenFrom
<1>6. TakenFrom(o)' = TakenFrom(o) + 1 /\ \A r \in TrackedOrders \ {o} : TakenFrom(r)' = TakenFrom(r)
  <2>1. Len(pipe'[o]) = Len(pipe[o]) - 1 /\ published'[o] = published[o]
    BY <1>1, <1>3, <1>4
  <2>2. TakenFrom(o)' = TakenFrom(o) + 1
    BY <1>2, <2>1 DEF TakenFrom
  <2>3. ASSUME NEW r \in TrackedOrders \ {o} PROVE TakenFrom(r)' = TakenFrom(r)
    BY <1>1, <1>4 DEF TakenFrom
  <2> QED
    BY <2>2, <2>3
<1>7. ASSUME NEW s \in Streams
      PROVE  /\ buffer[s] \in EventNumbers /\ seen[s] \in EventNumbers /\ Len(buffer[s]) \in Nat /\ Len(buffer[s]) <= StreamCap
             /\ stream[s].order \in TrackedOrders /\ stream[s].on \in BOOLEAN
  BY DEF Fan, FanTyped, EventNumbers
<1>8. FanTyped'
  <2>1. pipe' \in [TrackedOrders -> EventNumbers] /\ published' \in [TrackedOrders -> Nat]
    BY <1>1, <1>3 DEF Fan, FanTyped
  <2>2. \A r \in TrackedOrders : Len(pipe'[r]) <= PipeCap
    <3>1. Len(pipe'[o]) <= PipeCap
      BY <1>2, <1>3, <1>4, TrackingAssumption DEF Fan, FanTyped
    <3> QED
      BY <1>4, <3>1 DEF Fan, FanTyped
  <2>3. ASSUME NEW s \in Streams PROVE buffer'[s] \in EventNumbers /\ Len(buffer'[s]) <= StreamCap
    <3>1. CASE s \in Subscribed(o) \ full
      <4>1. buffer'[s] = Append(buffer[s], Head(pipe[o])) /\ Len(buffer[s]) < StreamCap
        BY <1>1, <1>7, <3>1, TrackingAssumption
      <4>2. Len(buffer'[s]) = Len(buffer[s]) + 1 /\ buffer'[s] \in EventNumbers
        BY <1>3, <1>7, <4>1 DEF EventNumbers
      <4> QED
        BY <1>7, <4>1, <4>2, TrackingAssumption
    <3>2. CASE s \notin Subscribed(o) \ full
      BY <1>1, <1>7, <3>2
    <3> QED
      BY <3>1, <3>2
  <2>4. missed' \subseteq Streams
    BY <1>1 DEF Fan, FanTyped, Subscribed
  <2>5. buffer' \in [Streams -> EventNumbers]
    BY <1>1, <2>3
  <2> QED
    BY <1>1, <2>1, <2>2, <2>3, <2>4, <2>5 DEF Fan, FanTyped
<1>9. ASSUME NEW r \in TrackedOrders PROVE PipeNumbered(r)'
  <2>1. CASE r = o
    <3>1. ASSUME NEW i \in 1 .. Len(pipe[o]) - 1 PROVE pipe'[o][i] = TakenFrom(o)' + i
      <4>1. i + 1 \in 1 .. Len(pipe[o]) /\ pipe'[o][i] = pipe[o][i + 1]
        BY <1>2, <1>3, <1>4
      <4>2. pipe[o][i + 1] = TakenFrom(o) + (i + 1)
        BY <1>5, <4>1 DEF PipeNumbered
      <4> QED
        BY <1>5, <1>6, <4>1, <4>2
    <3>2. Len(pipe'[o]) = Len(pipe[o]) - 1 /\ TakenFrom(o)' >= 0
      BY <1>3, <1>4, <1>5, <1>6
    <3>3. PipeNumbered(o)'
      BY <3>1, <3>2 DEF PipeNumbered
    <3> QED
      BY <2>1, <3>3 DEF PipeNumbered, TakenFrom
  <2>2. CASE r # o
    BY <1>4, <1>6, <2>2 DEF Fan, PipeNumbered
  <2> QED
    BY <2>1, <2>2
<1>10. ASSUME NEW s \in Streams PROVE StreamKept(s)'
  <2>1. StreamKept(s) /\ Got(s) \in EventNumbers
    <3>1. seen[s] \o buffer[s] \in EventNumbers
      BY <1>7 DEF EventNumbers
    <3> QED
      BY <3>1 DEF Fan, Got
  <2>2. CASE s \in Subscribed(o) \ full
    <3>1. stream[s].order = o /\ stream[s].on /\ (s \in missed' <=> s \in missed)
      BY <1>1, <2>2 DEF Subscribed
    <3>2. Got(s)' = Append(Got(s), TakenFrom(o) + 1)
      <4>1. buffer'[s] = Append(buffer[s], Head(pipe[o])) /\ seen'[s] = seen[s]
        BY <1>1, <2>2
      <4>2. seen[s] \o Append(buffer[s], Head(pipe[o])) = Append(seen[s] \o buffer[s], Head(pipe[o]))
        <5>1. PICK m \in Nat : m = Head(pipe[o])
          BY <1>3
        <5>2. PICK b \in EventNumbers : b = buffer[s]
          BY <1>7
        <5>3. PICK a \in EventNumbers : a = seen[s]
          BY <1>7
        <5>4. a \o Append(b, m) = Append(a \o b, m)
          BY Added
        <5> QED
          BY <5>1, <5>2, <5>3, <5>4
      <4> QED
        BY <1>5, <4>1, <4>2 DEF Got
    <3>3. PICK g \in BOOLEAN : g <=> s \in missed
      <4>1. CASE s \in missed
        <5>1. TRUE <=> s \in missed
          BY <4>1
        <5> QED
          BY <5>1, Zenon
      <4>2. CASE s \notin missed
        <5>1. FALSE <=> s \in missed
          BY <4>2
        <5> QED
          BY <5>1, Zenon
      <4> QED
        BY <4>1, <4>2
    <3>4. /\ InSequence(Append(Got(s), TakenFrom(o) + 1), g) /\ Upto(Append(Got(s), TakenFrom(o) + 1), TakenFrom(o) + 1)
          /\ EndsWith(Append(Got(s), TakenFrom(o) + 1), TakenFrom(o) + 1)
      BY <1>5, <2>1, <3>1, <3>3, Longer DEF StreamKept
    <3>5. stream'[s] = stream[s]
      BY <1>1
    <3> QED
      BY <1>6, <3>1, <3>2, <3>3, <3>4, <3>5 DEF StreamKept, InSequence, Upto, EndsWith
  <2>3. CASE s \notin Subscribed(o) \ full
    <3>1. Got(s)' = Got(s) /\ stream'[s] = stream[s]
      BY <1>1, <2>3 DEF Got
    <3>2. PICK q \in EventNumbers : q = Got(s)
      BY <2>1
    <3>3. Len(q) \in Nat /\ \A i \in 1 .. Len(q) : q[i] \in Nat
      BY DEF EventNumbers
    <3>4. InSequence(q, s \in missed')
      BY <1>1, <2>1, <3>2 DEF StreamKept, InSequence
    <3>5. CASE stream[s].order = o
      <4>1. Upto(q, TakenFrom(o) + 1)
        BY <1>5, <2>1, <3>2, <3>3, <3>5 DEF StreamKept, Upto
      <4>2. stream[s].on => s \in missed'
        BY <1>1, <2>3, <3>5 DEF Subscribed
      <4> QED
        BY <1>6, <3>1, <3>2, <3>4, <3>5, <4>1, <4>2 DEF StreamKept, InSequence, Upto, EndsWith
    <3>6. CASE stream[s].order # o
      <4>1. TakenFrom(stream[s].order)' = TakenFrom(stream[s].order)
        BY <1>1, <1>6, <1>7, <3>6 DEF TakenFrom
      <4> QED
        BY <1>1, <2>1, <3>1, <3>2, <3>4, <4>1 DEF StreamKept, InSequence, Upto, EndsWith
    <3> QED
      BY <3>5, <3>6
  <2> QED
    BY <2>2, <2>3
<1> QED
  BY <1>8, <1>9, <1>10 DEF Fan

\* An open stream writes what it got, and what was got stays the same sequence.
LEMMA FanStream == ASSUME NEW s \in Streams, Fan, Stream(s) PROVE Fan'
<1>1. /\ buffer[s] # <<>> /\ buffer' = [buffer EXCEPT ![s] = Tail(@)]
      /\ seen' = [seen EXCEPT ![s] = Append(@, Head(buffer[s]))]
      /\ UNCHANGED <<pipe, published, stream, missed>>
  BY DEF Stream
<1>2. PICK b \in EventNumbers : b = buffer[s]
  BY DEF Fan, FanTyped
<1>3. PICK a \in EventNumbers : a = seen[s]
  BY DEF Fan, FanTyped
<1>4. Len(b) > 0 /\ Len(Tail(b)) = Len(b) - 1 /\ Len(b) \in Nat
  BY <1>1, <1>2, HeadTailProperties DEF EventNumbers
<1>5. /\ Tail(b) \in EventNumbers /\ Append(a, Head(b)) \in EventNumbers
      /\ Append(a, Head(b)) \o Tail(b) = a \o b
  BY <1>4, Moved
<1>6. buffer'[s] = Tail(b) /\ seen'[s] = Append(a, Head(b))
  BY <1>1, <1>2, <1>3 DEF Fan, FanTyped
<1>7. FanTyped'
  <2>1. buffer' \in [Streams -> EventNumbers] /\ seen' \in [Streams -> EventNumbers]
    BY <1>1, <1>2, <1>3, <1>5 DEF Fan, FanTyped
  <2>2. Len(buffer'[s]) <= StreamCap
    BY <1>2, <1>4, <1>6, TrackingAssumption DEF Fan, FanTyped
  <2>3. \A r \in Streams : Len(buffer'[r]) <= StreamCap
    BY <1>1, <2>2 DEF Fan, FanTyped
  <2> QED
    BY <1>1, <2>1, <2>3 DEF Fan, FanTyped
<1>8. \A o \in TrackedOrders : PipeNumbered(o)'
  BY <1>1 DEF Fan, PipeNumbered, TakenFrom
<1>9. ASSUME NEW r \in Streams PROVE StreamKept(r)'
  <2>1. Got(r)' = Got(r)
    <3>1. CASE r = s
      BY <1>2, <1>3, <1>5, <1>6, <3>1 DEF Got
    <3>2. CASE r # s
      BY <1>1, <3>2 DEF Got, Fan, FanTyped
    <3> QED
      BY <3>1, <3>2
  <2> QED
    BY <1>1, <2>1 DEF Fan, StreamKept, TakenFrom
<1> QED
  BY <1>7, <1>8, <1>9 DEF Fan

\* A stream is subscribed once, with nothing behind it, and stops for good.
LEMMA FanSubscribe == ASSUME NEW s \in Streams, NEW o \in TrackedOrders, Fan,
                             Subscribe(s, o) \/ Unsubscribe(s)
                      PROVE  Fan'
<1>1. UNCHANGED <<pipe, published, buffer, seen, missed>>
  BY DEF Subscribe, Unsubscribe
<1>2. stream' \in [Streams -> [on : BOOLEAN, order : TrackedOrders]]
  <2>1. stream \in [Streams -> [on : BOOLEAN, order : TrackedOrders]]
    BY DEF Fan, FanTyped
  <2>2. CASE Subscribe(s, o)
    <3>1. [on |-> TRUE, order |-> o] \in [on : BOOLEAN, order : TrackedOrders]
      OBVIOUS
    <3> QED
      BY <2>1, <2>2, <3>1 DEF Subscribe
  <2>3. CASE Unsubscribe(s)
    <3>1. [stream[s] EXCEPT !.on = FALSE] \in [on : BOOLEAN, order : TrackedOrders]
      BY <2>1
    <3>2. stream' = [stream EXCEPT ![s] = [stream[s] EXCEPT !.on = FALSE]]
      BY <2>1, <2>3 DEF Unsubscribe
    <3> QED
      BY <2>1, <3>1, <3>2
  <2> QED
    BY <2>2, <2>3
<1>3. FanTyped' /\ \A r \in TrackedOrders : PipeNumbered(r)'
  BY <1>1, <1>2 DEF Fan, FanTyped, PipeNumbered, TakenFrom
<1>4. ASSUME NEW r \in Streams PROVE StreamKept(r)'
  <2>1. Got(r)' = Got(r) /\ StreamKept(r)
    BY <1>1 DEF Got, Fan
  <2>2. CASE r = s /\ Subscribe(s, o)
    <3>1. Got(r)' = <<>>
      BY <2>1, <2>2 DEF Subscribe, Got
    <3> QED
      BY <3>1 DEF StreamKept, InSequence, Upto, EndsWith
  <2>3. CASE r # s \/ Unsubscribe(s)
    <3>1. stream'[r].order = stream[r].order /\ (stream'[r].on => stream[r].on)
      BY <2>3 DEF Subscribe, Unsubscribe, Fan, FanTyped
    <3>2. TakenFrom(stream[r].order)' = TakenFrom(stream[r].order)
      BY <1>1, <3>1 DEF TakenFrom
    <3>3. missed' = missed
      BY <1>1
    <3> QED
      BY <2>1, <3>1, <3>2, <3>3 DEF StreamKept, InSequence, Upto, EndsWith
  <2> QED
    BY <2>2, <2>3
<1> QED
  BY <1>3, <1>4 DEF Fan

\* The fan-out invariant only reads the fan-out variables.
LEMMA FanKept == ASSUME UNCHANGED fanVars, Fan PROVE Fan'
<1>1. UNCHANGED <<pipe, published, stream, buffer, seen, missed>>
  BY DEF fanVars
<1>2. FanTyped' /\ \A o \in TrackedOrders : PipeNumbered(o)'
  BY <1>1 DEF Fan, FanTyped, PipeNumbered, TakenFrom
<1>3. ASSUME NEW s \in Streams PROVE StreamKept(s)'
  BY <1>1 DEF Fan, StreamKept, Got, TakenFrom
<1> QED
  BY <1>2, <1>3 DEF Fan

-----------------------------------------------------------------------------
(* The read loops and the session.                                           *)

LoopStates == {"new", "read", "validate", "record", "smooth", "publish", "unregister", "removeFilter", "ended"}

SessionTyped ==
    /\ conn \in [Conns -> [pc : LoopStates, stamp : Stamps \cup {0}, order : TrackedOrders]]
    /\ open \subseteq Conns /\ registered \in Conns \cup {NoConn}
    /\ lastUpdate \in Stamps \cup {-1}
    /\ filters \subseteq TrackedOrders /\ strays \subseteq TrackedOrders

\* What is registered or filtered has a read loop that will take it away.
Owned ==
    /\ registered # NoConn => conn[registered].pc \notin {"new", "removeFilter", "ended"}
    /\ \A c \in Conns : conn[c].order \in strays \cup {ConnOrder[c]}
    /\ \A c \in Conns : conn[c].pc \in {"validate", "record"} => conn[c].stamp \in Stamps
    /\ \A o \in filters : o \in strays \/ \E c \in Conns : ConnOrder[c] = o /\ Live(c)

Session == SessionTyped /\ Owned

\* Session holds in the initial states.
LEMMA SessionInit == TrackingInit => Session
<1> SUFFICES ASSUME TrackingInit PROVE Session
  OBVIOUS
<1>1. conn = [c \in Conns |-> [pc |-> "new", stamp |-> 0, order |-> ConnOrder[c]]]
  BY DEF TrackingInit
<1>2. conn \in [Conns -> [pc : LoopStates, stamp : Stamps \cup {0}, order : TrackedOrders]]
  BY <1>1, TrackingAssumption DEF LoopStates
<1> QED
  BY <1>1, <1>2 DEF TrackingInit, Session, SessionTyped, Owned

\* A loop that moves between live states, and keeps its order, disturbs nothing it owns.
LEMMA LoopMoves == ASSUME NEW c \in Conns, NEW to \in LoopStates \ {"new", "removeFilter", "ended"},
                          NEW stamp \in Stamps \cup {0}, NEW o \in TrackedOrders, Session,
                          to \in {"validate", "record"} => stamp \in Stamps,
                          strays \subseteq strays', o \in strays' \cup {ConnOrder[c]}, strays' \subseteq TrackedOrders,
                          conn' = [conn EXCEPT ![c] = [pc |-> to, stamp |-> stamp, order |-> o]],
                          lastUpdate' \in Stamps \cup {-1},
                          filters' \in {filters, filters \cup {conn[c].order}},
                          open' \subseteq Conns, registered' \in {registered, c}
                   PROVE  Session'
<1>1. conn' \in [Conns -> [pc : LoopStates, stamp : Stamps \cup {0}, order : TrackedOrders]]
  BY DEF Session, SessionTyped
<1>2. /\ conn'[c] = [pc |-> to, stamp |-> stamp, order |-> o]
      /\ \A d \in Conns \ {c} : conn'[d] = conn[d]
  BY DEF Session, SessionTyped
<1>3. Live(c)' /\ \A d \in Conns : Live(d) => Live(d)'
  BY <1>2 DEF Live
<1>4. conn[c].order \in strays \cup {ConnOrder[c]} /\ conn[c].order \in TrackedOrders
  BY DEF Session, SessionTyped, Owned
<1>5. SessionTyped'
  BY <1>1, <1>4 DEF Session, SessionTyped
<1>6. registered' # NoConn => conn'[registered'].pc \notin {"new", "removeFilter", "ended"}
  <2>1. CASE registered' = c
    BY <1>2, <2>1
  <2>2. CASE registered' # c
    BY <1>2, <2>2 DEF Session, SessionTyped, Owned
  <2> QED
    BY <2>1, <2>2
<1>7. \A d \in Conns : conn'[d].order \in strays' \cup {ConnOrder[d]}
  <2>1. ASSUME NEW d \in Conns, d # c PROVE conn'[d].order \in strays' \cup {ConnOrder[d]}
    BY <1>2, <2>1 DEF Session, Owned
  <2>2. conn'[c].order \in strays' \cup {ConnOrder[c]}
    BY <1>2
  <2> QED
    BY <2>1, <2>2
<1>8. ASSUME NEW f \in filters'
      PROVE  f \in strays' \/ \E d \in Conns : ConnOrder[d] = f /\ Live(d)'
  <2>1. CASE f \in filters
    BY <1>3, <2>1 DEF Session, Owned
  <2>2. CASE f = conn[c].order
    BY <1>3, <1>4, <2>2
  <2> QED
    BY <2>1, <2>2
<1>9. \A d \in Conns : conn'[d].pc \in {"validate", "record"} => conn'[d].stamp \in Stamps
  <2>1. ASSUME NEW d \in Conns, d # c PROVE conn'[d].pc \in {"validate", "record"} => conn'[d].stamp \in Stamps
    BY <1>2, <2>1 DEF Session, Owned
  <2> QED
    BY <1>2, <2>1
<1> QED
  BY <1>5, <1>6, <1>7, <1>8, <1>9 DEF Session, Owned

\* The session invariant only reads the variables of the sessions.
LEMMA SessionKept == ASSUME UNCHANGED <<conn, sessionVars, lastUpdate>>, Session PROVE Session'
<1>1. UNCHANGED <<conn, open, registered, filters, strays, lastUpdate>>
  BY DEF sessionVars
<1>2. \A c \in Conns : Live(c) <=> Live(c)'
  BY <1>1 DEF Live
<1> QED
  BY <1>1, <1>2 DEF Session, SessionTyped, Owned

\* Updating one field of a connection, written as a whole record.
LEMMA Rewritten == ASSUME NEW c \in Conns, NEW to, Session
                   PROVE  /\ [conn EXCEPT ![c].pc = to] =
                               [conn EXCEPT ![c] = [pc |-> to, stamp |-> conn[c].stamp, order |-> conn[c].order]]
                          /\ [conn EXCEPT ![c].pc = to, ![c].stamp = 0] =
                               [conn EXCEPT ![c] = [pc |-> to, stamp |-> 0, order |-> conn[c].order]]
                          /\ conn[c].stamp \in Stamps \cup {0} /\ conn[c].order \in TrackedOrders
                          /\ conn[c].order \in strays \cup {ConnOrder[c]}
<1>1. conn[c] \in [pc : LoopStates, stamp : Stamps \cup {0}, order : TrackedOrders]
  BY DEF Session, SessionTyped
<1>2. [conn[c] EXCEPT !.pc = to] = [pc |-> to, stamp |-> conn[c].stamp, order |-> conn[c].order]
  BY <1>1
<1>3. [[conn[c] EXCEPT !.pc = to] EXCEPT !.stamp = 0] = [pc |-> to, stamp |-> 0, order |-> conn[c].order]
  <2>1. [[pc |-> to, stamp |-> conn[c].stamp, order |-> conn[c].order] EXCEPT !.stamp = 0] =
           [pc |-> to, stamp |-> 0, order |-> conn[c].order]
    OBVIOUS
  <2> QED
    BY <1>2, <2>1
<1>4. [conn EXCEPT ![c].pc = to, ![c].stamp = 0] =
         [conn EXCEPT ![c] = [[conn[c] EXCEPT !.pc = to] EXCEPT !.stamp = 0]]
  BY DEF Session, SessionTyped
<1>5. conn[c].order \in strays \cup {ConnOrder[c]}
  BY DEF Session, Owned
<1> QED
  BY <1>1, <1>2, <1>3, <1>4, <1>5

\* From the handshake to the publication, and to the error that ends the loop.
LEMMA SessionLoops == ASSUME NEW c \in Conns, Session,
                             \/ Connect(c) \/ Throttle(c) \/ Refuse(c) \/ RecordUpdate(c)
                             \/ Smooth(c) \/ Publish(c) \/ ReadFails(c)
                      PROVE  Session'
<1> DEFINE old == conn[c]
<1>1. /\ old.stamp \in Stamps \cup {0} /\ 0 \in Stamps \cup {0} /\ old.order \in TrackedOrders
      /\ old.order \in strays \cup {ConnOrder[c]} /\ strays' = strays
      /\ strays \subseteq TrackedOrders /\ open \subseteq Conns /\ lastUpdate \in Stamps \cup {-1}
  BY Rewritten DEF Session, SessionTyped, sessionVars, Connect, Throttle, Refuse, RecordUpdate, Smooth, Publish, ReadFails
<1>2. PICK to \in LoopStates \ {"new", "removeFilter", "ended"}, stamp \in Stamps \cup {0} :
         /\ conn' = [conn EXCEPT ![c] = [pc |-> to, stamp |-> stamp, order |-> old.order]]
         /\ to \in {"validate", "record"} => stamp \in Stamps
  <2>1. ASSUME NEW to \in LoopStates \ {"new", "removeFilter", "ended"},
               \/ conn' = [conn EXCEPT ![c].pc = to] /\ (to \in {"validate", "record"} => old.stamp \in Stamps)
               \/ conn' = [conn EXCEPT ![c].pc = to, ![c].stamp = 0] /\ to \notin {"validate", "record"}
        PROVE  \E st \in Stamps \cup {0} :
                  /\ conn' = [conn EXCEPT ![c] = [pc |-> to, stamp |-> st, order |-> old.order]]
                  /\ to \in {"validate", "record"} => st \in Stamps
    BY <1>1, <2>1, Rewritten
  <2>2. old.pc \in {"validate", "record"} => old.stamp \in Stamps
    BY DEF Session, Owned
  <2>3. \E to \in {"read", "record", "smooth", "publish", "unregister"} :
           \/ conn' = [conn EXCEPT ![c].pc = to] /\ (to \in {"validate", "record"} => old.stamp \in Stamps)
           \/ conn' = [conn EXCEPT ![c].pc = to, ![c].stamp = 0] /\ to \notin {"validate", "record"}
    BY <2>2 DEF Connect, Throttle, Refuse, RecordUpdate, Smooth, Publish, ReadFails, Loop, GiveUp
  <2> QED
    BY <2>1, <2>3 DEF LoopStates
<1>3. lastUpdate' \in Stamps \cup {-1}
  <2>1. CASE RecordUpdate(c)
    <3>1. old.stamp \in Stamps
      BY <2>1 DEF RecordUpdate, Session, Owned
    <3> QED
      BY <2>1, <3>1 DEF RecordUpdate
  <2>2. CASE ~ RecordUpdate(c)
    BY <1>1, <2>2 DEF Connect, Throttle, Refuse, Smooth, Publish, ReadFails
  <2> QED
    BY <2>1, <2>2
<1>4. /\ filters' \in {filters, filters \cup {old.order}}
      /\ open' \subseteq Conns /\ registered' \in {registered, c}
  BY <1>1 DEF sessionVars, Connect, Throttle, Refuse, RecordUpdate, Smooth, Publish, ReadFails
<1> QED
  BY <1>1, <1>2, <1>3, <1>4, LoopMoves

\* An update may name another order than its connection.
LEMMA SessionReads == ASSUME NEW c \in Conns, NEW stamp \in Stamps, NEW o \in TrackedOrders, Session,
                             ReadUpdate(c, stamp, o)
                      PROVE  Session'
<1>1. conn' = [conn EXCEPT ![c] = [pc |-> "validate", stamp |-> stamp, order |-> o]]
  BY DEF ReadUpdate
<1>2. strays \subseteq strays' /\ o \in strays' \cup {ConnOrder[c]} /\ strays' \subseteq TrackedOrders
  BY DEF ReadUpdate, Session, SessionTyped
<1>3. UNCHANGED <<open, registered, filters, lastUpdate>>
  BY DEF ReadUpdate
<1>4. open \subseteq Conns /\ lastUpdate \in Stamps \cup {-1}
  BY DEF Session, SessionTyped
<1> QED
  BY <1>1, <1>2, <1>3, <1>4, LoopMoves DEF LoopStates

\* Whatever connection is registered is forgotten, the ending one among them.
LEMMA SessionUnregisters == ASSUME NEW c \in Conns, Session, Unregister(c) PROVE Session'
<1>1. /\ conn' = [conn EXCEPT ![c] = [pc |-> "removeFilter", stamp |-> conn[c].stamp, order |-> conn[c].order]]
      /\ conn[c].stamp \in Stamps \cup {0} /\ conn[c].order \in TrackedOrders /\ conn[c].pc = "unregister"
      /\ registered' = NoConn /\ UNCHANGED <<open, filters, strays, lastUpdate>>
  BY Rewritten DEF Unregister, Loop
<1>2. conn' \in [Conns -> [pc : LoopStates, stamp : Stamps \cup {0}, order : TrackedOrders]]
  BY <1>1 DEF Session, SessionTyped, LoopStates
<1>3. /\ conn'[c] = [pc |-> "removeFilter", stamp |-> conn[c].stamp, order |-> conn[c].order]
      /\ \A d \in Conns \ {c} : conn'[d] = conn[d]
  BY <1>1 DEF Session, SessionTyped
<1>4. \A d \in Conns : Live(d) => Live(d)'
  BY <1>3 DEF Live
<1>5. \A d \in Conns : /\ conn'[d].order = conn[d].order
                       /\ conn'[d].pc \in {"validate", "record"} => conn'[d].stamp \in Stamps
  BY <1>3 DEF Session, Owned
<1> QED
  BY <1>1, <1>2, <1>4, <1>5 DEF Session, SessionTyped, Owned

\* The loop takes the filter of its own order with it; the others have another owner.
LEMMA SessionEnds == ASSUME NEW c \in Conns, Session, RemoveFilter(c) PROVE Session'
<1>1. /\ conn' = [conn EXCEPT ![c] = [pc |-> "ended", stamp |-> conn[c].stamp, order |-> conn[c].order]]
      /\ conn[c].stamp \in Stamps \cup {0} /\ conn[c].order \in TrackedOrders /\ conn[c].pc = "removeFilter"
      /\ filters' = filters \ {ConnOrder[c]} /\ UNCHANGED <<open, registered, strays, lastUpdate>>
  BY Rewritten DEF RemoveFilter, Loop
<1>2. conn' \in [Conns -> [pc : LoopStates, stamp : Stamps \cup {0}, order : TrackedOrders]]
  BY <1>1 DEF Session, SessionTyped, LoopStates
<1>3. /\ conn'[c] = [pc |-> "ended", stamp |-> conn[c].stamp, order |-> conn[c].order]
      /\ \A d \in Conns \ {c} : conn'[d] = conn[d]
  BY <1>1 DEF Session, SessionTyped
<1>4. \A d \in Conns : /\ conn'[d].order = conn[d].order
                       /\ conn'[d].pc \in {"validate", "record"} => conn'[d].stamp \in Stamps
  BY <1>3 DEF Session, Owned
<1>5. registered # NoConn => registered \in Conns \ {c}
  BY <1>1 DEF Session, SessionTyped, Owned
<1>6. ASSUME NEW f \in filters'
      PROVE  f \in strays' \/ \E d \in Conns : ConnOrder[d] = f /\ Live(d)'
  <2>1. f \in filters /\ f # ConnOrder[c]
    BY <1>1
  <2>2. ASSUME NEW d \in Conns, ConnOrder[d] = f, Live(d) PROVE Live(d)'
    <3>1. d \in Conns \ {c}
      BY <2>1, <2>2
    <3> QED
      BY <1>3, <2>2, <3>1 DEF Live
  <2> QED
    BY <1>1, <2>1, <2>2 DEF Session, Owned
<1>7. registered' # NoConn => conn'[registered'].pc \notin {"new", "removeFilter", "ended"}
  BY <1>1, <1>3, <1>5 DEF Session, Owned
<1> QED
  BY <1>1, <1>2, <1>4, <1>6, <1>7 DEF Session, SessionTyped, Owned

-----------------------------------------------------------------------------
(* The theorems.                                                             *)

\* The invariant holds in every state of every behaviour.
LEMMA TrackingInvariant == TrackingSpec => [](Fan /\ Session)
<1>1. ASSUME Fan, Session, [TrackingNext]_trackingVars PROVE Fan' /\ Session'
  <2> USE <1>1
  <2>1. CASE UNCHANGED trackingVars
    <3>1. UNCHANGED fanVars /\ UNCHANGED <<conn, sessionVars, lastUpdate>>
      BY <2>1 DEF trackingVars
    <3> QED
      BY <3>1, FanKept, SessionKept
  <2>2. ASSUME NEW c \in Conns,
               \/ Connect(c) \/ Throttle(c) \/ Refuse(c) \/ RecordUpdate(c)
               \/ Smooth(c) \/ Publish(c) \/ ReadFails(c)
        PROVE  Fan' /\ Session'
    <3>1. CASE Publish(c)
      <4>1. conn[c].order \in TrackedOrders
        BY DEF Session, SessionTyped
      <4> QED
        BY <3>1, <4>1, FanPublish, SessionLoops
    <3>2. CASE ~ Publish(c)
      <4>1. UNCHANGED fanVars
        BY <2>2, <3>2 DEF Connect, Throttle, Refuse, RecordUpdate, Smooth, ReadFails
      <4> QED
        BY <2>2, <4>1, FanKept, SessionLoops
    <3> QED
      BY <3>1, <3>2
  <2>3. ASSUME NEW c \in Conns, NEW stamp \in Stamps, NEW o \in TrackedOrders, ReadUpdate(c, stamp, o)
        PROVE  Fan' /\ Session'
    <3>1. UNCHANGED fanVars
      BY <2>3 DEF ReadUpdate
    <3> QED
      BY <2>3, <3>1, FanKept, SessionReads
  <2>4. ASSUME NEW c \in Conns, Unregister(c) \/ RemoveFilter(c) PROVE Fan' /\ Session'
    <3>1. UNCHANGED fanVars
      BY <2>4 DEF Unregister, RemoveFilter
    <3> QED
      BY <2>4, <3>1, FanKept, SessionUnregisters, SessionEnds
  <2>5. ASSUME NEW o \in TrackedOrders, Consume(o) PROVE Fan' /\ Session'
    <3>1. UNCHANGED <<conn, sessionVars, lastUpdate>>
      BY <2>5 DEF Consume
    <3> QED
      BY <2>5, <3>1, FanConsume, SessionKept
  <2>6. ASSUME NEW s \in Streams, NEW o \in TrackedOrders, Stream(s) \/ Unsubscribe(s) \/ Subscribe(s, o)
        PROVE  Fan' /\ Session'
    <3>1. UNCHANGED <<conn, sessionVars, lastUpdate>>
      BY <2>6 DEF Stream, Unsubscribe, Subscribe
    <3> QED
      BY <2>6, <3>1, FanStream, FanSubscribe, SessionKept
  <2>7. \E o \in TrackedOrders : TRUE
    BY TrackingAssumption
  <2> QED
    BY <2>1, <2>2, <2>3, <2>4, <2>5, <2>6, <2>7 DEF TrackingNext
<1> QED
  BY <1>1, FanInit, SessionInit, PTL DEF TrackingSpec

\* The variables of the tracking model have their types; a pipe and the buffer of a stream
\* never hold more than their capacity, so that neither the read loop nor the consumer blocks.
THEOREM TrackingTypeCorrect == TrackingSpec => []TrackingTypeOK
<1>1. Fan /\ Session => TrackingTypeOK
  BY DEF Fan, FanTyped, Session, SessionTyped, LoopStates, TrackingTypeOK
<1> QED
  BY <1>1, TrackingInvariant, PTL

\* Every stream gets the events of its order in the order the pipe accepted them, none
\* twice, and none left out unless its buffer was full (OrderUpdatePipe and SSE handler).
THEOREM InOrder == TrackingSpec => []DeliveredInOrder
<1>1. Fan => DeliveredInOrder
  BY DEF Fan, StreamKept, InSequence, Got, DeliveredInOrder
<1> QED
  BY <1>1, TrackingInvariant, PTL

\* However connections of the driver overlap, the ended read loops leave no connection
\* registered, and no filter but those that updates named against their connection.
THEOREM CleanedUp == TrackingSpec => []SessionsCleanedUp
<1>1. Session => SessionsCleanedUp
  BY DEF Session, SessionTyped, Owned, Live, SessionsCleanedUp
<1> QED
  BY <1>1, TrackingInvariant, PTL

-----------------------------------------------------------------------------
(* Chat.                                                                     *)

Text == Seq(Nat)
RoomSteps == {"new", "joined", "replay", "read", "leave", "gone", "panicked"}

Queued ==
    /\ sendq \in [Clients -> Text] /\ received \in [Clients -> Text]
    /\ \A c \in Clients : Len(sendq[c]) <= SendCap
    /\ pump \in [Clients -> {"off", "on", "over"}]

Remembered ==
    /\ history \in Text /\ broadcast \in Text
    /\ Len(history) <= MaxHistory /\ Len(broadcast) <= RoomCap

ChatTyped ==
    /\ Queued /\ Remembered
    /\ members \subseteq Clients /\ shut \subseteq Clients /\ overflowed \subseteq Clients
    /\ serving \in [Clients -> [pc : RoomSteps, todo : Text]]
    /\ sent \in 0 .. MaxMessages /\ crashed \in BOOLEAN

-----------------------------------------------------------------------------
(* Sequences, and what the room remembers.                                   *)

\* What appending to a list of messages does to its length and contents.
LEMMA Enqueued == ASSUME NEW s \in Text, NEW m \in Nat
                PROVE  /\ Append(s, m) \in Text /\ Len(Append(s, m)) = Len(s) + 1 /\ Len(s) \in Nat
                       /\ Range(Append(s, m)) = Range(s) \cup {m}
<1>1. Append(s, m) \in Text /\ Len(Append(s, m)) = Len(s) + 1 /\ Len(s) \in Nat
  BY DEF Text
<1>2. DOMAIN Append(s, m) = DOMAIN s \cup {Len(s) + 1} /\ Append(s, m)[Len(s) + 1] = m
  BY DEF Text
<1>3. \A i \in DOMAIN s : Append(s, m)[i] = s[i]
  BY DEF Text
<1> QED
  BY <1>1, <1>2, <1>3 DEF Range

\* What taking the head of a list of messages does to its length and contents.
LEMMA Dequeued == ASSUME NEW s \in Text, s # <<>>
               PROVE  /\ Head(s) \in Nat /\ Tail(s) \in Text /\ Len(Tail(s)) = Len(s) - 1 /\ Len(s) \in Nat
                      /\ Range(s) = {Head(s)} \cup Range(Tail(s))
<1>1. Head(s) \in Nat /\ Tail(s) \in Text /\ Len(Tail(s)) = Len(s) - 1 /\ Len(s) \in Nat /\ Head(s) = s[1]
  BY DEF Text
<1>2. DOMAIN s = 1 .. Len(s) /\ DOMAIN Tail(s) = 1 .. Len(s) - 1 /\ Len(s) >= 1
  BY DEF Text
<1>3. \A i \in 1 .. Len(s) - 1 : Tail(s)[i] = s[i + 1]
  BY DEF Text
<1>4. \A x \in Range(s) : x \in {Head(s)} \cup Range(Tail(s))
  <2>1. ASSUME NEW i \in 1 .. Len(s) PROVE s[i] \in {Head(s)} \cup Range(Tail(s))
    <3>1. CASE i = 1
      BY <1>1, <3>1
    <3>2. CASE i # 1
      <4>1. i - 1 \in 1 .. Len(s) - 1 /\ s[(i - 1) + 1] = s[i]
        BY <1>1, <3>2
      <4> QED
        BY <1>2, <1>3, <4>1 DEF Range
    <3> QED
      BY <3>1, <3>2
  <2> QED
    BY <1>2, <2>1 DEF Range
<1>5. \A x \in Range(Tail(s)) : x \in Range(s)
  <2>1. \A i \in 1 .. Len(s) - 1 : i + 1 \in DOMAIN s
    BY <1>1, <1>2
  <2> QED
    BY <1>2, <1>3, <2>1 DEF Range
<1>6. Head(s) \in Range(s)
  BY <1>1, <1>2 DEF Range
<1> QED
  BY <1>1, <1>4, <1>5, <1>6

\* The room forgets its oldest messages, and nothing else.
LEMMA Forgets == ASSUME NEW h \in Text
                 PROVE  Latest(h) \in Text /\ Len(Latest(h)) <= MaxHistory /\ Range(Latest(h)) \subseteq Range(h)
<1>1. CASE Len(h) <= MaxHistory
  BY <1>1, ChatAssumption DEF Latest, Text
<1>2. CASE Len(h) > MaxHistory
  <2> DEFINE first == Len(h) - MaxHistory + 1
  <2>1. Latest(h) = SubSeq(h, first, Len(h)) /\ first \in 1 .. Len(h) /\ Len(h) \in Nat
    BY <1>2, ChatAssumption DEF Latest, Text
  <2>2. Latest(h) \in Text /\ Len(Latest(h)) = Len(h) - first + 1
    BY <2>1 DEF Text
  <2>3. \A i \in 1 .. Len(h) - first + 1 : Latest(h)[i] = h[first + i - 1] /\ first + i - 1 \in 1 .. Len(h)
    BY <2>1 DEF Text
  <2>4. DOMAIN Latest(h) = 1 .. Len(h) - first + 1 /\ DOMAIN h = 1 .. Len(h)
    BY <2>2 DEF Text
  <2>5. Len(Latest(h)) <= MaxHistory
    BY <2>1, <2>2, ChatAssumption
  <2> QED
    BY <2>2, <2>3, <2>4, <2>5 DEF Range
<1> QED
  BY <1>1, <1>2, ChatAssumption DEF Text

-----------------------------------------------------------------------------
(* The invariant, action by action.                                          *)

\* What a member has not missed.
Reached(c) == Range(received[c]) \cup Range(sendq[c]) \cup Range(serving[c].todo)

Listens(c) == serving[c].pc \in {"replay", "read", "leave"} /\ pump[c] # "over"

\* Only a broadcast that found it full, or the client's own leave, closes a channel.
ShutForCause == \A c \in shut : c \in overflowed \/ serving[c].pc = "gone"

\* A pump starts once its client has the history.
NotStarted == \A c \in Clients : serving[c].pc \in {"new", "joined", "replay"} => pump[c] = "off"

ChatInv == ChatTyped /\ NotStarted /\ NoGap /\ ShutForCause /\ CrashNeedsOverflow

\* NoGap, member by member.
LEMMA NoGapMeans == NoGap <=> \A c \in members : Listens(c) => Range(history) \subseteq Reached(c)
  BY DEF NoGap, Listens, Reached

\* ChatInv holds in the initial states.
LEMMA ChatInitially == ChatInit => ChatInv
<1> SUFFICES ASSUME ChatInit PROVE ChatInv
  OBVIOUS
<1>1. <<>> \in Text /\ Len(<<>>) = 0
  BY DEF Text
<1>2. 0 <= MaxHistory /\ 0 <= RoomCap /\ 0 <= SendCap /\ 0 \in 0 .. MaxMessages
  BY ChatAssumption
<1>3. Queued /\ Remembered
  BY <1>1, <1>2 DEF ChatInit, Queued, Remembered
<1> QED
  BY <1>1, <1>2, <1>3 DEF ChatInit, ChatInv, ChatTyped, NotStarted, RoomSteps, NoGap, ShutForCause, CrashNeedsOverflow

\* Broadcast keeps ChatInv.
LEMMA BroadcastKeeps == ASSUME ChatInv, ~crashed, Broadcast PROVE ChatInv'
<1> DEFINE m == Head(broadcast)
<1> DEFINE full == {c \in members : Len(sendq[c]) >= SendCap}
<1>1. m \in Nat /\ broadcast' \in Text /\ Len(broadcast') <= RoomCap
  <2>1. broadcast \in Text /\ broadcast # <<>> /\ Len(broadcast) <= RoomCap /\ broadcast' = Tail(broadcast)
    BY DEF Broadcast, ChatInv, ChatTyped, Remembered
  <2> QED
    BY <2>1, Dequeued, ChatAssumption
<1>2. history' \in Text /\ Len(history') <= MaxHistory /\ Range(history') \subseteq Range(history) \cup {m}
  <2>1. history \in Text /\ history' = Latest(Append(history, m))
    BY DEF Broadcast, ChatInv, ChatTyped, Remembered
  <2>2. Append(history, m) \in Text /\ Range(Append(history, m)) = Range(history) \cup {m}
    BY <1>1, <2>1, Enqueued
  <2> QED
    BY <2>1, <2>2, Forgets
<1>3. /\ sendq' = [c \in Clients |-> IF c \in members \ full THEN Append(sendq[c], m) ELSE sendq[c]]
      /\ members' = members \ full /\ shut' = shut \cup full /\ overflowed' = overflowed \cup full
      /\ UNCHANGED <<serving, pump, received, sent, crashed>>
  BY DEF Broadcast
<1>4. full \subseteq Clients /\ members \subseteq Clients
  BY DEF ChatInv, ChatTyped
<1>5. ASSUME NEW c \in Clients
      PROVE  /\ sendq'[c] \in Text /\ Len(sendq'[c]) <= SendCap
             /\ Range(sendq'[c]) = IF c \in members' THEN Range(sendq[c]) \cup {m} ELSE Range(sendq[c])
  <2>1. sendq[c] \in Text /\ Len(sendq[c]) \in Nat /\ Len(sendq[c]) <= SendCap
    BY DEF ChatInv, ChatTyped, Queued, Text
  <2>2. CASE c \in members'
    <3>1. sendq'[c] = Append(sendq[c], m) /\ Len(sendq[c]) < SendCap
      BY <1>3, <2>1, <2>2, ChatAssumption
    <3>2. Len(sendq[c]) + 1 <= SendCap
      BY <2>1, <3>1, ChatAssumption
    <3> QED
      BY <1>1, <2>1, <2>2, <3>1, <3>2, Enqueued
  <2>3. CASE c \notin members'
    BY <1>3, <2>1, <2>3
  <2> QED
    BY <2>2, <2>3
<1> HIDE DEF m, full
<1>6. sendq' \in [Clients -> Text]
  <2>1. sendq' = [c \in Clients |-> sendq'[c]]
    BY <1>3
  <2> QED
    BY <1>5, <2>1
<1>7. ChatTyped'
  BY <1>1, <1>2, <1>3, <1>4, <1>5, <1>6 DEF ChatInv, ChatTyped, Queued, Remembered
<1>8. NoGap'
  <2>1. \A c \in members : Listens(c) => Range(history) \subseteq Reached(c)
    BY NoGapMeans DEF ChatInv
  <2>2. ASSUME NEW c \in members', serving'[c].pc \in {"replay", "read", "leave"} /\ pump'[c] # "over"
        PROVE  Range(history') \subseteq Range(received'[c]) \cup Range(sendq'[c]) \cup Range(serving'[c].todo)
    <3>1. c \in Clients /\ c \in members /\ Listens(c)
      BY <1>3, <1>4, <2>2 DEF Listens
    <3> QED
      BY ZenonT(60), <1>2, <1>3, <1>5, <2>1, <3>1 DEF Reached
  <2> QED
    BY <2>2 DEF NoGap
<1> QED
  BY <1>3, <1>7, <1>8 DEF ChatInv, NotStarted, ShutForCause, CrashNeedsOverflow

\* ServeWS until it reads, and its hangup.
LEMMA ServeKeeps ==
    ASSUME ChatInv, NEW c \in Clients, JoinRoom(c) \/ ReadHistory(c) \/ StartPumps(c) \/ Hangup(c)
    PROVE  ChatInv'
<1>1. PICK s \in [pc : RoomSteps \ {"gone", "panicked"}, todo : Text] : serving' = [serving EXCEPT ![c] = s]
  <2> USE DEF ChatInv, ChatTyped, Remembered, RoomSteps
  <2>1. serving[c].todo \in Text /\ history \in Text /\ serving \in [Clients -> [pc : RoomSteps, todo : Text]]
    OBVIOUS
  <2>2. CASE ReadHistory(c)
    BY <2>1, <2>2 DEF ReadHistory
  <2>3. ASSUME NEW p \in RoomSteps \ {"gone", "panicked"}, serving' = [serving EXCEPT ![c].pc = p]
        PROVE  \E s \in [pc : RoomSteps \ {"gone", "panicked"}, todo : Text] : serving' = [serving EXCEPT ![c] = s]
    <3>1. serving' = [serving EXCEPT ![c] = [pc |-> p, todo |-> serving[c].todo]]
      <4>1. ASSUME NEW r \in [pc : RoomSteps, todo : Text] PROVE [r EXCEPT !.pc = p] = [pc |-> p, todo |-> r.todo]
        OBVIOUS
      <4>2. [serving[c] EXCEPT !.pc = p] = [pc |-> p, todo |-> serving[c].todo]
        BY <2>1, <4>1
      <4> QED
        BY <2>1, <2>3, <4>2
    <3> QED
      BY <2>1, <3>1
  <2> QED
    BY <2>2, <2>3 DEF JoinRoom, StartPumps, Hangup, Serve
<1>2. /\ UNCHANGED <<history, broadcast, overflowed, sendq, shut, received, sent, crashed>>
      /\ serving[c].pc \notin {"gone", "panicked"}
  BY DEF JoinRoom, ReadHistory, StartPumps, Hangup, Serve, roomVars
<1>3. members' \subseteq Clients /\ pump' \in [Clients -> {"off", "on", "over"}]
  BY DEF JoinRoom, ReadHistory, StartPumps, Hangup, ChatInv, ChatTyped, Queued, roomVars
<1>4. ChatTyped'
  BY <1>1, <1>2, <1>3 DEF ChatInv, ChatTyped, Queued, Remembered, RoomSteps
<1>5. serving'[c] = s /\ \A d \in Clients : d # c => serving'[d] = serving[d]
  BY <1>1 DEF ChatInv, ChatTyped
<1>6. NoGap'
  <2>1. \A d \in members : Listens(d) => Range(history) \subseteq Reached(d)
    BY NoGapMeans DEF ChatInv
  <2>2. ASSUME NEW d \in members', serving'[d].pc \in {"replay", "read", "leave"} /\ pump'[d] # "over"
        PROVE  Range(history') \subseteq Range(received'[d]) \cup Range(sendq'[d]) \cup Range(serving'[d].todo)
    <3>1. CASE d # c
      <4>1. d \in members /\ pump'[d] = pump[d] /\ serving'[d] = serving[d]
        BY <1>3, <1>5, <2>2, <3>1 DEF JoinRoom, ReadHistory, StartPumps, Hangup, ChatInv, ChatTyped, Queued, roomVars
      <4> QED
        BY <1>2, <2>1, <2>2, <4>1 DEF Listens, Reached
    <3>2. CASE d = c /\ ReadHistory(c)
      BY <1>2, <1>5, <3>2 DEF ReadHistory, ChatInv, ChatTyped, roomVars
    <3>3. CASE d = c /\ JoinRoom(c)
      BY <2>2, <3>3 DEF JoinRoom, Serve, ChatInv, ChatTyped
    <3>4. CASE d = c /\ (StartPumps(c) \/ Hangup(c))
      <4>1. c \in members /\ serving'[c].todo = serving[c].todo /\ serving[c].pc \in {"replay", "read"}
        <5>1. serving \in [Clients -> [pc : RoomSteps, todo : Text]] /\ members' = members
          BY <3>4 DEF StartPumps, Hangup, roomVars, ChatInv, ChatTyped
        <5>2. CASE StartPumps(c)
          BY <2>2, <3>4, <5>1, <5>2 DEF StartPumps, Serve
        <5>3. CASE Hangup(c)
          BY <2>2, <3>4, <5>1, <5>3 DEF Hangup, Serve
        <5> QED
          BY <3>4, <5>2, <5>3
      <4>2. pump[c] # "over"
        <5>1. CASE StartPumps(c)
          BY <5>1 DEF StartPumps, Serve, ChatInv, NotStarted
        <5>2. CASE Hangup(c)
          BY <2>2, <3>4, <5>2 DEF Hangup
        <5> QED
          BY <3>4, <5>1, <5>2
      <4> QED
        BY <1>2, <2>1, <2>2, <3>4, <4>1, <4>2 DEF Listens, Reached
    <3> QED
      BY <3>1, <3>2, <3>3, <3>4
  <2> QED
    BY <2>2 DEF NoGap
<1>7. ShutForCause' /\ CrashNeedsOverflow'
  BY <1>2, <1>5 DEF ChatInv, ShutForCause, CrashNeedsOverflow, ChatTyped
<1>8. NotStarted'
  <2>1. CASE StartPumps(c)
    BY <1>5, <2>1 DEF StartPumps, Serve, ChatInv, NotStarted, ChatTyped, Queued
  <2>2. CASE JoinRoom(c) \/ ReadHistory(c) \/ Hangup(c)
    <3>1. UNCHANGED pump /\ serving \in [Clients -> [pc : RoomSteps, todo : Text]]
      BY <2>2 DEF JoinRoom, ReadHistory, Hangup, ChatInv, ChatTyped
    <3>2. \/ serving[c].pc \in {"new", "joined"}
          \/ serving[c].pc = "read" /\ serving' = [serving EXCEPT ![c].pc = "leave"]
      BY <2>2 DEF JoinRoom, ReadHistory, Hangup, Serve
    <3>3. serving[c].pc \in {"new", "joined"} \/ serving'[c].pc = "leave"
      BY <3>1, <3>2
    <3> QED
      BY <1>5, <3>1, <3>3 DEF ChatInv, NotStarted
  <2> QED
    BY <2>1, <2>2
<1> QED
  BY <1>4, <1>6, <1>7, <1>8 DEF ChatInv

\* A message of the history goes to the client's channel, or its handler panics.
LEMMA ReplayKeeps == ASSUME ChatInv, NEW c \in Clients, Replay(c) PROVE ChatInv'
<1>1. /\ serving[c].pc = "replay" /\ serving[c].todo \in Text /\ serving[c].todo # <<>>
      /\ serving \in [Clients -> [pc : RoomSteps, todo : Text]]
      /\ sendq[c] \in Text /\ sendq \in [Clients -> Text]
      /\ UNCHANGED <<members, history, broadcast, overflowed, shut, pump, received, sent, crashed>>
  BY DEF Replay, Serve, roomVars, ChatInv, ChatTyped, Queued
<1>2. \A d \in members : Listens(d) => Range(history) \subseteq Reached(d)
  BY NoGapMeans DEF ChatInv
<1>3. CASE c \in shut
  <2>1. serving' = [serving EXCEPT ![c].pc = "panicked"] /\ UNCHANGED sendq
    BY <1>3 DEF Replay, Serve
  <2>2. serving'[c] = [pc |-> "panicked", todo |-> serving[c].todo] /\ \A d \in Clients : d # c => serving'[d] = serving[d]
    BY <1>1, <2>1
  <2>3. serving' \in [Clients -> [pc : RoomSteps, todo : Text]]
    <3>1. serving' = [d \in Clients |-> serving'[d]]
      BY <1>1, <2>1
    <3> QED
      BY <1>1, <2>2, <3>1 DEF RoomSteps
  <2>4. ChatTyped'
    BY <1>1, <2>1, <2>3 DEF ChatInv, ChatTyped, Queued, Remembered
  <2>5. NoGap'
    BY <1>1, <1>2, <2>1, <2>2 DEF NoGap, Listens, Reached, ChatInv, ChatTyped
  <2> QED
    BY <1>1, <2>2, <2>4, <2>5 DEF ChatInv, NotStarted, ShutForCause, CrashNeedsOverflow, ChatTyped
<1>4. CASE c \notin shut
  <2> DEFINE m == Head(serving[c].todo)
  <2>1. /\ Len(sendq[c]) < SendCap /\ sendq' = [sendq EXCEPT ![c] = Append(@, m)]
        /\ serving' = [serving EXCEPT ![c].todo = Tail(@)]
    BY <1>4 DEF Replay
  <2>2. m \in Nat /\ Tail(serving[c].todo) \in Text /\ Range(serving[c].todo) = {m} \cup Range(Tail(serving[c].todo))
    BY <1>1, Dequeued
  <2>3. /\ Append(sendq[c], m) \in Text /\ Len(Append(sendq[c], m)) = Len(sendq[c]) + 1 /\ Len(sendq[c]) \in Nat
        /\ Range(Append(sendq[c], m)) = Range(sendq[c]) \cup {m}
    BY <1>1, <2>2, Enqueued
  <2>4. Len(Append(sendq[c], m)) <= SendCap
    BY <2>1, <2>3, ChatAssumption
  <2>5. sendq'[c] = Append(sendq[c], m) /\ \A d \in Clients : d # c => sendq'[d] = sendq[d]
    BY <1>1, <2>1
  <2> HIDE DEF m
  <2>6. serving'[c] = [pc |-> "replay", todo |-> Tail(serving[c].todo)]
        /\ \A d \in Clients : d # c => serving'[d] = serving[d]
    <3>1. serving'[c] = [serving[c] EXCEPT !.todo = Tail(serving[c].todo)] /\ serving[c] \in [pc : RoomSteps, todo : Text]
      BY <1>1, <2>1
    <3>2. ASSUME NEW r \in [pc : RoomSteps, todo : Text], NEW t PROVE [r EXCEPT !.todo = t] = [pc |-> r.pc, todo |-> t]
      OBVIOUS
    <3> QED
      BY <1>1, <2>1, <3>1, <3>2
  <2>7. serving' \in [Clients -> [pc : RoomSteps, todo : Text]]
    <3>1. serving' = [d \in Clients |-> serving'[d]]
      BY <1>1, <2>1
    <3>2. [pc |-> "replay", todo |-> Tail(serving[c].todo)] \in [pc : RoomSteps, todo : Text]
      BY <2>2 DEF RoomSteps
    <3>3. \A d \in Clients : serving'[d] \in [pc : RoomSteps, todo : Text]
      BY <1>1, <2>6, <3>2
    <3> QED
      BY <3>1, <3>3
  <2>8. sendq' \in [Clients -> Text] /\ \A d \in Clients : Len(sendq'[d]) <= SendCap
    BY <1>1, <2>1, <2>3, <2>4, <2>5 DEF ChatInv, ChatTyped, Queued
  <2>9. ChatTyped'
    BY <1>1, <2>7, <2>8 DEF ChatInv, ChatTyped, Queued, Remembered
  <2>10. NoGap'
    <3>1. ASSUME NEW d \in members, serving'[d].pc \in {"replay", "read", "leave"} /\ pump[d] # "over"
          PROVE  Range(history) \subseteq Range(received[d]) \cup Range(sendq'[d]) \cup Range(serving'[d].todo)
      <4>1. d \in Clients
        BY DEF ChatInv, ChatTyped
      <4>2. CASE d # c
        BY <1>2, <2>5, <2>6, <3>1, <4>1, <4>2 DEF Listens, Reached
      <4>3. CASE d = c
        <5>1. Range(history) \subseteq Range(received[c]) \cup Range(sendq[c]) \cup Range(serving[c].todo)
          BY <1>1, <1>2, <3>1, <4>3 DEF Listens, Reached
        <5>2. /\ Range(sendq'[c]) = Range(sendq[c]) \cup {m} /\ serving'[c].todo = Tail(serving[c].todo)
              /\ Range(serving[c].todo) = {m} \cup Range(Tail(serving[c].todo))
          BY <2>2, <2>3, <2>5, <2>6
        <5>3. Range(history) \subseteq Range(received[c]) \cup Range(sendq'[c]) \cup Range(serving'[c].todo)
          BY <5>1, <5>2
        <5> QED
          BY <4>3, <5>3
      <4> QED
        BY <4>2, <4>3
    <3> QED
      BY <1>1, <3>1 DEF NoGap
  <2> QED
    BY <1>1, <2>6, <2>9, <2>10 DEF ChatInv, NotStarted, ShutForCause, CrashNeedsOverflow, ChatTyped
<1> QED
  BY <1>3, <1>4

\* Say keeps ChatInv.
LEMMA SayKeeps == ASSUME ChatInv, NEW c \in Clients, Say(c) PROVE ChatInv'
<1>1. /\ sent \in Nat /\ sent + 1 \in 0 .. MaxMessages /\ sent + 1 \in Nat
      /\ broadcast \in Text /\ Len(broadcast) < RoomCap
      /\ sent' = sent + 1 /\ broadcast' = Append(broadcast, sent + 1)
      /\ UNCHANGED <<members, history, overflowed, sendq, shut, serving, pump, received, crashed>>
  BY ChatAssumption DEF Say, ChatInv, ChatTyped, Remembered
<1>2. broadcast' \in Text /\ Len(broadcast') = Len(broadcast) + 1 /\ Len(broadcast) \in Nat
  BY <1>1, Enqueued
<1>3. Len(broadcast') <= RoomCap
  BY <1>1, <1>2, ChatAssumption
<1>4. ChatTyped'
  BY <1>1, <1>2, <1>3 DEF ChatInv, ChatTyped, Queued, Remembered
<1> QED
  BY <1>1, <1>4 DEF ChatInv, NotStarted, NoGap, ShutForCause, CrashNeedsOverflow

\* The room closes a channel that is closed already only for a client it has dropped.
LEMMA LeaveKeeps == ASSUME ChatInv, NEW c \in Clients, LeaveRoom(c) PROVE ChatInv'
<1>1. /\ serving[c].pc = "leave" /\ serving' = [serving EXCEPT ![c].pc = "gone"] /\ members' = members \ {c}
      /\ serving \in [Clients -> [pc : RoomSteps, todo : Text]]
      /\ UNCHANGED <<history, broadcast, overflowed, sendq, pump, received, sent>>
  BY DEF LeaveRoom, Serve, ChatInv, ChatTyped
<1>2. serving'[c].pc = "gone" /\ \A d \in Clients : d # c => serving'[d] = serving[d]
  BY <1>1
<1>3. serving' \in [Clients -> [pc : RoomSteps, todo : Text]]
  BY <1>1 DEF RoomSteps
<1>4. shut' \subseteq Clients /\ crashed' \in BOOLEAN
  BY DEF LeaveRoom, ChatInv, ChatTyped
<1>5. ChatTyped'
  BY <1>1, <1>3, <1>4 DEF ChatInv, ChatTyped, Queued, Remembered
<1>6. NoGap'
  BY <1>1, <1>2 DEF NoGap, ChatInv, ChatTyped
<1>7. ShutForCause' /\ CrashNeedsOverflow'
  <2>1. CASE c \in shut
    <3>1. c \in overflowed /\ shut' = shut
      BY <1>1, <2>1 DEF LeaveRoom, ChatInv, ShutForCause
    <3> QED
      BY <1>1, <1>2, <3>1 DEF ShutForCause, CrashNeedsOverflow, ChatInv, ChatTyped
  <2>2. CASE c \notin shut
    <3>1. shut' = shut \cup {c} /\ crashed' = crashed
      BY <2>2 DEF LeaveRoom
    <3> QED
      BY <1>1, <1>2, <3>1 DEF ShutForCause, CrashNeedsOverflow, ChatInv, ChatTyped
  <2> QED
    BY <2>1, <2>2
<1> QED
  BY <1>1, <1>2, <1>5, <1>6, <1>7 DEF ChatInv, NotStarted

\* WritePump keeps ChatInv.
LEMMA PumpKeeps == ASSUME ChatInv, NEW c \in Clients, WritePump(c) PROVE ChatInv'
<1>1. /\ pump[c] = "on" /\ sendq[c] \in Text /\ received[c] \in Text
      /\ sendq \in [Clients -> Text] /\ received \in [Clients -> Text] /\ pump \in [Clients -> {"off", "on", "over"}]
      /\ UNCHANGED <<members, history, broadcast, overflowed, shut, serving, sent, crashed>>
  BY DEF WritePump, roomVars, ChatInv, ChatTyped, Queued
<1>2. \A d \in members : Listens(d) => Range(history) \subseteq Reached(d)
  BY NoGapMeans DEF ChatInv
<1>3. CASE sendq[c] # <<>> /\ received' = [received EXCEPT ![c] = Append(@, Head(sendq[c]))] /\ UNCHANGED pump
  <2>1. /\ Head(sendq[c]) \in Nat /\ Tail(sendq[c]) \in Text /\ Len(Tail(sendq[c])) = Len(sendq[c]) - 1 /\ Len(sendq[c]) \in Nat
        /\ Range(sendq[c]) = {Head(sendq[c])} \cup Range(Tail(sendq[c]))
    BY <1>1, <1>3, Dequeued
  <2>2. Append(received[c], Head(sendq[c])) \in Text
        /\ Range(Append(received[c], Head(sendq[c]))) = Range(received[c]) \cup {Head(sendq[c])}
    BY <1>1, <2>1, Enqueued
  <2>3. sendq' = [sendq EXCEPT ![c] = Tail(@)]
    BY <1>3 DEF WritePump
  <2>4. Len(Tail(sendq[c])) <= SendCap
    BY <1>1, <2>1, ChatAssumption DEF ChatInv, ChatTyped, Queued
  <2>5. Queued'
    BY <1>1, <1>3, <2>1, <2>2, <2>3, <2>4 DEF ChatInv, ChatTyped, Queued
  <2>6. \A d \in Clients : Range(received'[d]) \cup Range(sendq'[d]) = Range(received[d]) \cup Range(sendq[d])
    <3>1. ASSUME NEW d \in Clients, d # c PROVE received'[d] = received[d] /\ sendq'[d] = sendq[d]
      BY <1>1, <1>3, <2>3, <3>1
    <3>2. received'[c] = Append(received[c], Head(sendq[c])) /\ sendq'[c] = Tail(sendq[c])
      BY <1>1, <1>3, <2>3
    <3> QED
      BY <2>1, <2>2, <3>1, <3>2
  <2>7. NoGap'
    BY <1>1, <1>2, <1>3, <2>6 DEF NoGap, Listens, Reached, ChatInv, ChatTyped
  <2> QED
    BY <1>1, <1>3, <2>5, <2>7 DEF ChatInv, ChatTyped, Remembered, NotStarted, ShutForCause, CrashNeedsOverflow
<1>4. CASE pump' = [pump EXCEPT ![c] = "over"] /\ received' = received /\ sendq' \in [Clients -> Text]
           /\ (\A d \in Clients : d # c => sendq'[d] = sendq[d]) /\ Len(sendq'[c]) <= SendCap
  <2>1. Queued'
    BY <1>1, <1>4 DEF ChatInv, ChatTyped, Queued
  <2>2. NoGap'
    <3>1. pump'[c] = "over" /\ \A d \in Clients : d # c => pump'[d] = pump[d]
      BY <1>1, <1>4
    <3> QED
      BY <1>1, <1>2, <1>4, <3>1 DEF NoGap, Listens, Reached, ChatInv, ChatTyped
  <2> QED
    BY <1>1, <1>4, <2>1, <2>2 DEF ChatInv, ChatTyped, Remembered, NotStarted, ShutForCause, CrashNeedsOverflow
<1>5. CASE sendq[c] # <<>> /\ pump' = [pump EXCEPT ![c] = "over"] /\ UNCHANGED received
  <2>1. Tail(sendq[c]) \in Text /\ Len(Tail(sendq[c])) = Len(sendq[c]) - 1 /\ Len(sendq[c]) \in Nat
    BY <1>1, <1>5, Dequeued
  <2>2. sendq' = [sendq EXCEPT ![c] = Tail(@)]
    BY <1>5 DEF WritePump
  <2>3. Len(Tail(sendq[c])) <= SendCap
    BY <1>1, <2>1, ChatAssumption DEF ChatInv, ChatTyped, Queued
  <2> QED
    BY <1>1, <1>4, <1>5, <2>1, <2>2, <2>3
<1>6. CASE sendq[c] = <<>>
  <2>1. pump' = [pump EXCEPT ![c] = "over"] /\ UNCHANGED <<sendq, received>> /\ Len(sendq[c]) <= SendCap
    BY <1>6 DEF WritePump, ChatInv, ChatTyped, Queued
  <2> QED
    BY <1>1, <1>4, <2>1
<1> QED
  BY <1>3, <1>5, <1>6 DEF WritePump

\* The invariant holds in every state of every behaviour.
LEMMA ChatInvariant == ChatSpec => []ChatInv
<1>1. ChatInv /\ [ChatNext]_chatVars => ChatInv'
  <2> SUFFICES ASSUME ChatInv, [ChatNext]_chatVars PROVE ChatInv'
    OBVIOUS
  <2>1. CASE UNCHANGED chatVars
    BY <2>1 DEF chatVars, roomVars, ChatInv, ChatTyped, Queued, Remembered, NotStarted, NoGap, ShutForCause, CrashNeedsOverflow
  <2> QED
    BY <2>1, BroadcastKeeps, ServeKeeps, ReplayKeeps, SayKeeps, LeaveKeeps, PumpKeeps DEF ChatNext
<1> QED
  BY ChatInitially, <1>1, PTL DEF ChatSpec

\* The channels and the history of a room stay within their capacities.
THEOREM ChatTypeCorrect == ChatSpec => []ChatTypeOK
<1>1. ChatInv => ChatTypeOK
  BY DEF ChatInv, ChatTyped, Queued, Remembered, RoomSteps, ChatTypeOK
<1> QED
  BY ChatInvariant, <1>1, PTL

\* Joining before reading the history leaves no gap, whatever is sent in between.
THEOREM NothingMissed == ChatSpec => []NoGap
<1>1. ChatInv => NoGap
  BY DEF ChatInv
<1> QED
  BY ChatInvariant, <1>1, PTL

\* Closing a closed channel ends the process only for a client that was dropped and left.
THEOREM CrashExplained == ChatSpec => []CrashNeedsOverflow
<1>1. ChatInv => CrashNeedsOverflow
  BY DEF ChatInv
<1> QED
  BY ChatInvariant, <1>1, PTL
-----------------------------------------------------------------------------
(* Short links, for any number of codes, calls and attempts.                *)

\* A call that found its code free finds it free still, and alone, or the code is one
\* that two calls drew at once.
SavesAlone ==
    \A c \in Shorteners : shorten[c].pc = "save" /\ shorten[c].code \notin clashed =>
        links[shorten[c].code] = NoUrl /\ Saving(shorten[c].code) = {c}

LinksInv ==
    /\ LinksTypeOK
    /\ \A c \in Shorteners : shorten[c].pc \in {"generate", "exists"} => shorten[c].attempts < MaxAttempts
    /\ SavesAlone
    /\ LinksStand

\* LinksInv holds in the initial states.
LEMMA LinksInitially == LinksInit => LinksInv
<1> SUFFICES ASSUME LinksInit PROVE LinksInv
  OBVIOUS
<1>1. (CHOOSE k \in Codes : TRUE) \in Codes
  BY LinksAssumption
<1>2. \A c \in Shorteners : shorten[c].pc = "generate" /\ shorten[c].attempts = 0
  BY DEF LinksInit
<1>3. shorten \in [Shorteners -> [pc : {"generate", "exists", "save", "answered", "failed"},
                                 attempts : 0 .. MaxAttempts, code : Codes]]
  BY <1>1, LinksAssumption DEF LinksInit
<1>4. LinksTypeOK
  BY <1>3 DEF LinksInit, LinksTypeOK
<1>5. \A c \in Shorteners : shorten[c].pc \in {"generate", "exists"} => shorten[c].attempts < MaxAttempts
  BY <1>2, LinksAssumption
<1> QED
  BY <1>2, <1>4, <1>5 DEF LinksInv, SavesAlone, LinksStand

\* Generate keeps LinksInv.
LEMMA GenerateStep == ASSUME LinksInv, NEW c \in Shorteners, NEW k \in Codes, Generate(c, k) PROVE LinksInv'
<1> USE DEF LinksInv, LinksTypeOK
<1>1. /\ links' = links /\ clashed' = clashed
      /\ shorten[c].pc = "generate" /\ shorten'[c].pc = "exists" /\ shorten'[c].attempts = shorten[c].attempts
      /\ \A d \in Shorteners \ {c} : shorten'[d] = shorten[d]
  BY DEF Generate
<1>2. LinksTypeOK'
  BY DEF Generate
<1>3. \A x : Saving(x)' = Saving(x)
  BY <1>1 DEF Saving
<1>4. SavesAlone' /\ LinksStand'
  BY <1>1, <1>3 DEF SavesAlone, LinksStand
<1> QED BY <1>1, <1>2, <1>4

\* CheckExists keeps LinksInv.
LEMMA CheckExistsStep == ASSUME LinksInv, NEW c \in Shorteners, CheckExists(c) PROVE LinksInv'
<1> DEFINE k == shorten[c].code
<1> USE DEF LinksInv, LinksTypeOK
<1>0. /\ shorten[c] \in [pc : {"generate", "exists", "save", "answered", "failed"},
                        attempts : 0 .. MaxAttempts, code : Codes]
      /\ shorten[c].pc = "exists" /\ shorten[c].attempts < MaxAttempts
  BY DEF CheckExists
<1>1. CASE links[k] # NoUrl
  <2> DEFINE to == IF shorten[c].attempts + 1 = MaxAttempts THEN "failed" ELSE "generate"
  <2>0. /\ links' = links /\ clashed' = clashed
        /\ shorten' = [shorten EXCEPT ![c].attempts = @ + 1, ![c].pc = to]
    BY <1>1 DEF CheckExists
  <2>1. /\ links' = links /\ clashed' = clashed
        /\ shorten[c].pc = "exists" /\ shorten'[c].pc = to
        /\ shorten'[c].attempts = shorten[c].attempts + 1 /\ shorten'[c].code = k
        /\ \A d \in Shorteners \ {c} : shorten'[d] = shorten[d]
    BY <1>0, <2>0
  <2>2. LinksTypeOK'
    <3>1. to \in {"generate", "failed"} /\ shorten[c].attempts + 1 \in 0 .. MaxAttempts
      BY <1>0, LinksAssumption
    <3> HIDE DEF to
    <3>2. shorten' \in [Shorteners -> [pc : {"generate", "exists", "save", "answered", "failed"},
                                       attempts : 0 .. MaxAttempts, code : Codes]]
      BY <1>0, <2>0, <3>1
    <3> QED BY <2>0, <3>2
  <2>3. \A x : Saving(x)' = Saving(x)
    <3>1. to # "save"
      OBVIOUS
    <3> QED BY <2>1, <3>1 DEF Saving
  <2>4. SavesAlone' /\ LinksStand'
    BY <2>1, <2>3 DEF SavesAlone, LinksStand
  <2>5. \A d \in Shorteners : shorten'[d].pc \in {"generate", "exists"} => shorten'[d].attempts < MaxAttempts
    <3>1. to \in {"generate", "exists"} => shorten[c].attempts + 1 < MaxAttempts
      BY <1>0, LinksAssumption
    <3> HIDE DEF to
    <3> QED BY <2>1, <3>1
  <2> QED BY <2>2, <2>4, <2>5
<1>2. CASE links[k] = NoUrl
  <2>1. /\ links' = links /\ k \in Codes
        /\ shorten[c].pc = "exists" /\ shorten'[c].pc = "save" /\ shorten'[c].code = k
        /\ clashed' = IF Saving(k) = {} THEN clashed ELSE clashed \cup {k}
        /\ \A d \in Shorteners \ {c} : shorten'[d] = shorten[d]
    BY <1>2 DEF CheckExists
  <2>2. LinksTypeOK'
    BY <1>2, <2>1 DEF CheckExists
  <2>3. Saving(k)' = Saving(k) \cup {c} /\ \A x : x # k => Saving(x)' = Saving(x)
    <3>1. Saving(k)' = Saving(k) \cup {c}
      BY <2>1 DEF Saving
    <3>2. ASSUME NEW x, x # k PROVE Saving(x)' = Saving(x)
      BY <2>1, <3>2 DEF Saving
    <3> QED BY <3>1, <3>2
  <2>4. \A d \in Shorteners \ {c} : shorten[d].pc = "save" /\ shorten[d].code = k => k \in clashed'
    BY <2>1 DEF Saving
  <2>5. SavesAlone'
    <3>1. ASSUME NEW d \in Shorteners, NEW j, j = shorten'[d].code, shorten'[d].pc = "save", j \notin clashed'
          PROVE  links'[j] = NoUrl /\ Saving(j)' = {d}
      <4>1. CASE d = c
        <5>1. j = k /\ Saving(k) = {}
          BY <2>1, <3>1, <4>1
        <5> QED BY <1>2, <2>1, <2>3, <4>1, <5>1
      <4>2. CASE d # c
        <5>1. shorten'[d] = shorten[d] /\ j # k /\ j \notin clashed
          BY <2>1, <2>4, <3>1, <4>2
        <5>2. links[j] = NoUrl /\ Saving(j) = {d}
          BY <3>1, <5>1 DEF SavesAlone
        <5> QED BY <2>1, <2>3, <5>1, <5>2
      <4> QED BY <4>1, <4>2
    <3> QED BY <3>1 DEF SavesAlone
  <2>6. LinksStand'
    BY <2>1, <2>3, <2>4 DEF LinksStand
  <2> QED BY <2>1, <2>2, <2>5, <2>6
<1> QED BY <1>1, <1>2

\* SaveLink keeps LinksInv.
LEMMA SaveLinkStep == ASSUME LinksInv, NEW c \in Shorteners, SaveLink(c) PROVE LinksInv'
<1> DEFINE k == shorten[c].code
<1> USE DEF LinksInv, LinksTypeOK
<1>1. /\ k \in Codes /\ links' = [links EXCEPT ![k] = c] /\ clashed' = clashed
      /\ shorten' = [shorten EXCEPT ![c].pc = "answered"]
      /\ shorten[c].pc = "save" /\ shorten'[c].pc = "answered" /\ shorten'[c].code = k
      /\ \A d \in Shorteners \ {c} : shorten'[d] = shorten[d]
  BY DEF SaveLink
<1>2. LinksTypeOK'
  <2>1. links' \in [Codes -> Shorteners \cup {NoUrl}]
    BY <1>1
  <2>2. shorten' \in [Shorteners -> [pc : {"generate", "exists", "save", "answered", "failed"},
                                    attempts : 0 .. MaxAttempts, code : Codes]]
    BY <1>1
  <2> QED BY <1>1, <2>1, <2>2
<1>3. ASSUME NEW d \in Shorteners \ {c}, shorten[d].pc \in {"save", "answered"}, shorten[d].code = k, k \notin clashed
      PROVE  FALSE
  <2>1. links[k] = NoUrl /\ Saving(k) = {c}
    BY <1>1, <1>3 DEF SavesAlone
  <2>2. CASE shorten[d].pc = "save"
    BY <1>3, <2>1, <2>2 DEF Saving
  <2>3. CASE shorten[d].pc = "answered"
    BY <1>3, <2>1, <2>3, LinksAssumption DEF LinksStand
  <2> QED BY <1>3, <2>2, <2>3
<1>4. \A x : x # k => Saving(x)' = Saving(x)
  BY <1>1 DEF Saving
<1>5. SavesAlone'
  <2>1. ASSUME NEW d \in Shorteners, NEW j, j = shorten'[d].code, shorten'[d].pc = "save", j \notin clashed'
        PROVE  links'[j] = NoUrl /\ Saving(j)' = {d}
    <3>1. d # c /\ shorten'[d] = shorten[d] /\ j # k /\ j \in Codes /\ j \notin clashed
      BY <1>1, <1>3, <2>1
    <3>2. links[j] = NoUrl /\ Saving(j) = {d}
      BY <2>1, <3>1 DEF SavesAlone
    <3> QED BY <1>1, <1>4, <3>1, <3>2
  <2> QED BY <2>1 DEF SavesAlone
<1>6. LinksStand'
  <2> SUFFICES ASSUME NEW d \in Shorteners, shorten'[d].pc = "answered", shorten'[d].code \notin clashed'
               PROVE  links'[shorten'[d].code] = d
    BY DEF LinksStand
  <2>1. CASE d = c
    BY <1>1, <2>1
  <2>2. CASE d # c
    <3>1. shorten'[d] = shorten[d] /\ shorten[d].code # k /\ shorten[d].code \in Codes
      BY <1>1, <1>3, <2>2
    <3> QED BY <1>1, <3>1 DEF LinksStand
  <2> QED BY <2>1, <2>2
<1> QED BY <1>1, <1>2, <1>5, <1>6

\* A short URL leads where its caller wanted: LinksStand.
THEOREM LinksKept == LinksSpec => [](LinksTypeOK /\ LinksStand)
<1>1. LinksInv /\ [LinksNext]_linkVars => LinksInv'
  <2> SUFFICES ASSUME LinksInv, [LinksNext]_linkVars PROVE LinksInv'
    OBVIOUS
  <2>1. CASE UNCHANGED linkVars
    BY <2>1 DEF linkVars, LinksInv, LinksTypeOK, SavesAlone, Saving, LinksStand
  <2> QED
    BY <2>1, GenerateStep, CheckExistsStep, SaveLinkStep DEF LinksNext
<1>2. LinksInv => LinksTypeOK /\ LinksStand
  BY DEF LinksInv
<1> QED
  BY LinksInitially, <1>1, <1>2, PTL DEF LinksSpec

-----------------------------------------------------------------------------
(* The hash ring, for any nodes and hashes, shared ones included.            *)

\* A ring with a replica: hashes are numbers, and each is one of the node that owns it.
IsRing(ring) ==
    /\ DOMAIN ring \subseteq Nat /\ DOMAIN ring # {}
    /\ \A h \in DOMAIN ring : ring[h] \in RingNodes /\ h \in HashesOf[ring[h]]

\* Add and Remove make rings: a ring that is empty becomes one with the first node that
\* has a replica, and stops being one when the last has left.
THEOREM RingsStayRings ==
    ASSUME NEW ring, NEW n \in RingNodes
    PROVE  /\ (DOMAIN ring = {} /\ HashesOf[n] # {}) \/ IsRing(ring) => IsRing(AddNode(ring, n))
           /\ IsRing(ring) /\ DOMAIN RemoveNode(ring, n) # {} => IsRing(RemoveNode(ring, n))
<1>1. /\ DOMAIN AddNode(ring, n) = DOMAIN ring \cup HashesOf[n]
      /\ \A h \in DOMAIN AddNode(ring, n) :
            AddNode(ring, n)[h] = IF h \in HashesOf[n] THEN n ELSE ring[h]
  BY DEF AddNode
<1>2. /\ DOMAIN RemoveNode(ring, n) = DOMAIN ring \ HashesOf[n]
      /\ \A h \in DOMAIN RemoveNode(ring, n) : RemoveNode(ring, n)[h] = ring[h]
  BY DEF RemoveNode
<1> QED BY <1>1, <1>2, RingAssumption DEF IsRing

\* A key has one replica that follows it.
LEMMA OneFollows ==
    ASSUME NEW ring, IsRing(ring), NEW hash \in Nat
    PROVE  /\ \E h \in DOMAIN ring : Follows(ring, hash, h)
           /\ \A h, k \in DOMAIN ring : Follows(ring, hash, h) /\ Follows(ring, hash, k) => h = k
<1>1. \A T : T \subseteq Nat /\ T # {} => \E x \in T : Least(T, x)
  BY LeastNumber DEF Least
<1>2. \A T, x, y : T \subseteq Nat /\ Least(T, x) /\ Least(T, y) => x = y
  BY DEF Least
<1> DEFINE after == {k \in DOMAIN ring : k >= hash}
<1>3. after \subseteq Nat /\ DOMAIN ring \subseteq Nat /\ DOMAIN ring # {}
  BY DEF IsRing
<1>4. \A h : Follows(ring, hash, h) <=> IF after # {} THEN Least(after, h) ELSE Least(DOMAIN ring, h)
  BY DEF Follows
<1>5. after \subseteq DOMAIN ring
  OBVIOUS
<1> HIDE DEF after
<1> QED BY <1>1, <1>2, <1>3, <1>4, <1>5

\* The node of a key is the node of the one replica that follows it.
LEMMA NodeForIs ==
    ASSUME NEW ring, IsRing(ring), NEW hash \in Nat, NEW h \in DOMAIN ring, Follows(ring, hash, h)
    PROVE  NodeFor(ring, hash) = ring[h]
  BY OneFollows DEF NodeFor

\* What follows a key in a smaller ring, if it follows the key in a larger one and is
\* still there.
LEMMA FollowsInPart ==
    ASSUME NEW ring, NEW part, IsRing(ring), IsRing(part), DOMAIN part \subseteq DOMAIN ring,
           NEW hash \in Nat, NEW h \in DOMAIN part, Follows(ring, hash, h)
    PROVE  Follows(part, hash, h)
<1>1. ASSUME NEW k \in DOMAIN part, k >= hash PROVE h >= hash /\ h <= k
  BY <1>1 DEF Follows, Least
<1>2. ASSUME NEW k \in DOMAIN part, ~ (h >= hash) PROVE h <= k
  BY <1>2 DEF Follows, Least
<1> QED BY <1>1, <1>2 DEF Follows, Least

\* Get on a ring with a replica answers a node of the ring.
THEOREM KeyHasNode == ASSUME NEW ring, IsRing(ring), NEW hash \in Nat
                      PROVE  \E h \in DOMAIN ring : NodeFor(ring, hash) = ring[h]
  BY OneFollows, NodeForIs

\* A node that joins takes keys only for itself; all others stay where they were.
THEOREM JoinTakesForItself ==
    ASSUME NEW ring, IsRing(ring), NEW n \in RingNodes, NEW hash \in Nat
    PROVE  NodeFor(AddNode(ring, n), hash) \in {NodeFor(ring, hash), n}
<1> DEFINE joined == AddNode(ring, n)
<1>1. /\ DOMAIN joined = DOMAIN ring \cup HashesOf[n] /\ IsRing(joined)
      /\ \A h \in DOMAIN joined : joined[h] = IF h \in HashesOf[n] THEN n ELSE ring[h]
  BY RingsStayRings DEF AddNode
<1> HIDE DEF joined
<1>2. PICK h \in DOMAIN joined : Follows(joined, hash, h)
  BY <1>1, OneFollows
<1>3. NodeFor(joined, hash) = joined[h]
  BY <1>1, <1>2, NodeForIs
<1>4. CASE h \in HashesOf[n]
  BY <1>1, <1>3, <1>4 DEF joined
<1>5. CASE h \notin HashesOf[n]
  <2>1. h \in DOMAIN ring /\ joined[h] = ring[h]
    BY <1>1, <1>5
  <2>2. Follows(ring, hash, h)
    BY <1>1, <1>2, <2>1, FollowsInPart
  <2> QED BY <1>3, <2>1, <2>2, NodeForIs DEF joined
<1> QED BY <1>4, <1>5

\* A node that leaves gives up its keys, and those of a node that shares a replica's
\* hash with it; all others stay where they were, and none stays with the node.
THEOREM LeaveMovesItsOwn ==
    ASSUME NEW ring, IsRing(ring), NEW n \in RingNodes, DOMAIN RemoveNode(ring, n) # {},
           NEW hash \in Nat
    PROVE  /\ NodeFor(RemoveNode(ring, n), hash) # n
           /\ HashesOf[NodeFor(ring, hash)] \cap HashesOf[n] = {} =>
                  NodeFor(RemoveNode(ring, n), hash) = NodeFor(ring, hash)
<1> DEFINE left == RemoveNode(ring, n)
<1>1. /\ DOMAIN left = DOMAIN ring \ HashesOf[n] /\ IsRing(left)
      /\ \A h \in DOMAIN left : left[h] = ring[h]
  BY RingsStayRings DEF RemoveNode
<1> HIDE DEF left
<1>2. NodeFor(left, hash) # n
  <2>1. PICK h \in DOMAIN left : NodeFor(left, hash) = left[h]
    BY <1>1, KeyHasNode
  <2>2. left[h] # n
    BY <1>1 DEF IsRing
  <2> QED BY <2>1, <2>2
<1>3. ASSUME HashesOf[NodeFor(ring, hash)] \cap HashesOf[n] = {}
      PROVE  NodeFor(left, hash) = NodeFor(ring, hash)
  <2>1. PICK h \in DOMAIN ring : Follows(ring, hash, h)
    BY OneFollows
  <2>2. NodeFor(ring, hash) = ring[h]
    BY <2>1, NodeForIs
  <2>3. h \in DOMAIN left /\ left[h] = ring[h]
    BY <1>1, <1>3, <2>2 DEF IsRing
  <2>4. Follows(left, hash, h)
    BY <1>1, <2>1, <2>3, FollowsInPart
  <2> QED BY <1>1, <2>2, <2>3, <2>4, NodeForIs
<1> QED BY <1>2, <1>3 DEF left

-----------------------------------------------------------------------------
(* The key-value store, for any list of nodes, keys, hashes and values.      *)

\* Every key has a shard.
LEMMA ShardOfKey == ASSUME NEW k \in Keys PROVE GetShard(k) \in Shards /\ NoValue \notin Values
  BY KeyValueAssumption

\* What was put is where it is looked for, and nothing is anywhere else: KeysInPlace.
THEOREM KeysKept == KeyValueSpec => [](KeyValueTypeOK /\ KeysInPlace)
<1> DEFINE Inv == KeyValueTypeOK /\ KeysInPlace
<1>1. KeyValueInit => Inv
  BY DEF KeyValueInit, KeyValueTypeOK, KeysInPlace
<1>2. Inv /\ [KeyValueNext]_shards => Inv'
  <2> SUFFICES ASSUME Inv, [KeyValueNext]_shards PROVE Inv'
    OBVIOUS
  <2> USE DEF KeyValueTypeOK, KeysInPlace
  <2>1. CASE UNCHANGED shards
    BY <2>1
  <2>2. ASSUME NEW k \in Keys, NEW v \in Values \cup {NoValue}, shards' = [shards EXCEPT ![GetShard(k)][k] = v]
        PROVE  Inv'
    BY <2>2, ShardOfKey
  <2> QED
    BY <2>1, <2>2 DEF KeyValueNext, PutKey, DeleteKey
<1> QED
  BY <1>1, <1>2, PTL DEF KeyValueSpec

\* The shards together are one map to the clients: OneMap.
THEOREM ShardsAreOneMap == KeyValueSpec => OneMap
<1>1. KeyValueInit => PlainInit
  BY ShardOfKey DEF KeyValueInit, PlainInit, Plain, ValueOf
<1>2. KeyValueTypeOK /\ [KeyValueNext]_shards => [PlainNext]_Plain
  <2> SUFFICES ASSUME KeyValueTypeOK, [KeyValueNext]_shards PROVE [PlainNext]_Plain
    OBVIOUS
  <2>1. CASE UNCHANGED shards
    BY <2>1 DEF Plain, ValueOf
  <2>2. ASSUME NEW k \in Keys, NEW v \in Values \cup {NoValue}, shards' = [shards EXCEPT ![GetShard(k)][k] = v]
        PROVE  PlainNext
    <3>1. \A j \in Keys : ValueOf(j)' = IF j = k THEN v ELSE ValueOf(j)
      BY <2>2, ShardOfKey DEF ValueOf, KeyValueTypeOK
    <3> QED
      BY <3>1 DEF Plain, PlainNext
  <2> QED
    BY <2>1, <2>2 DEF KeyValueNext, PutKey, DeleteKey
<1> QED
  BY KeysKept, <1>1, <1>2, PTL DEF KeyValueSpec, OneMap

-----------------------------------------------------------------------------
(* Counters, for any number of goroutines and counts.                       *)

Counting == {r \in Reporters : reporter[r].pc # "idle"}

ReportersTyped == reporter \in [Reporters -> [pc : {"idle", "create", "add"}, object : 0 .. MaxCounts]]

\* Every object that was made or will be belongs to a count that was begun.
ObjectsFit == made + Cardinality(Creators) <= Begun /\ Begun <= MaxCounts

\* As long as nobody raced for the first object there is one, and it has every count.
OneObject ==
    ~twins =>
        /\ current = 0 =>
              /\ finished = 0 /\ made = 0 /\ counts = [i \in 0 .. MaxCounts |-> 0]
              /\ \A r \in Reporters : reporter[r].pc # "add"
              /\ \A r, s \in Creators : r = s
        /\ current # 0 =>
              /\ Creators = {} /\ counts[current] = finished
              /\ \A r \in Reporters : reporter[r].pc = "add" => reporter[r].object = current

MetricsInv == MetricsTypeOK /\ ObjectsFit /\ OneObject

\* The goroutines creating or adding to a counter can be counted.
LEMMA CountersFinite == /\ IsFiniteSet(Creators) /\ Cardinality(Creators) \in Nat
                        /\ IsFiniteSet(Counting) /\ Cardinality(Counting) \in Nat
<1>1. Creators \in SUBSET Reporters /\ Counting \in SUBSET Reporters
  BY DEF Creators, Counting
<1>2. IsFiniteSet(Creators) /\ IsFiniteSet(Counting)
  BY <1>1, MetricsAssumption, FS_Subset
<1> QED BY <1>2, FS_CardinalityType

\* MetricsInv holds in the initial states.
LEMMA MetricsInitially == MetricsInit => MetricsInv
<1> SUFFICES ASSUME MetricsInit PROVE MetricsInv
  OBVIOUS
<1>1. Creators = {} /\ Counting = {}
  BY DEF MetricsInit, Creators, Counting
<1>2. Begun = 0 /\ Cardinality(Creators) = 0
  BY <1>1, FS_EmptySet DEF MetricsInit, Begun, Counting
<1>3. MetricsTypeOK
  <2>1. 0 \in 0 .. MaxCounts /\ 0 \in 0 .. 0
    BY MetricsAssumption
  <2>2. reporter \in [Reporters -> [pc : {"idle", "create", "add"}, object : 0 .. MaxCounts]]
    BY <2>1 DEF MetricsInit
  <2>3. counts \in [0 .. MaxCounts -> Nat]
    BY DEF MetricsInit
  <2> QED
    BY <2>1, <2>2, <2>3 DEF MetricsInit, MetricsTypeOK
<1>4. OneObject
  <2>1. \A r \in Reporters : reporter[r].pc # "add"
    BY DEF MetricsInit
  <2> QED
    BY <1>1, <2>1 DEF MetricsInit, OneObject
<1> QED
  BY <1>2, <1>3, <1>4, MetricsAssumption DEF MetricsInit, MetricsInv, ObjectsFit

\* LookForCounter keeps MetricsInv.
LEMMA LookStep == ASSUME MetricsInv, NEW r \in Reporters, LookForCounter(r) PROVE MetricsInv'
<1> DEFINE pc == IF current = 0 THEN "create" ELSE "add"
<1>1. /\ reporter[r].pc = "idle" /\ Begun < MaxCounts
      /\ reporter' = [reporter EXCEPT ![r] = [pc |-> pc, object |-> current]]
      /\ twins' = (twins \/ (current = 0 /\ Creators # {}))
      /\ UNCHANGED <<current, counts, made, finished>>
  BY DEF LookForCounter
<1>2. MetricsTypeOK /\ ObjectsFit /\ OneObject
  BY DEF MetricsInv
<1>3. current \in 0 .. MaxCounts /\ pc \in {"create", "add"} /\ (pc = "create" <=> current = 0)
  <2>1. current \in 0 .. MaxCounts
    BY <1>2, MetricsAssumption DEF MetricsTypeOK
  <2>2. pc \in {"create", "add"} /\ (pc = "create" <=> current = 0)
    OBVIOUS
  <2> QED BY <2>1, <2>2
<1> HIDE DEF pc
<1>4. MetricsTypeOK'
  <2>1. reporter' \in [Reporters -> [pc : {"idle", "create", "add"}, object : 0 .. MaxCounts]]
    BY <1>1, <1>2, <1>3 DEF MetricsTypeOK
  <2> QED BY <1>1, <1>2, <2>1 DEF MetricsTypeOK
<1>5. /\ reporter'[r].pc = pc /\ reporter'[r].object = current
      /\ \A s \in Reporters \ {r} : reporter'[s] = reporter[s]
  BY <1>1, <1>2 DEF MetricsTypeOK
<1>6. /\ r \notin Counting /\ Counting' = Counting \cup {r}
      /\ r \notin Creators /\ Creators' = IF current = 0 THEN Creators \cup {r} ELSE Creators
  BY <1>1, <1>3, <1>5 DEF Counting, Creators
<1>7. ObjectsFit'
  <2>1. Begun' = Begun + 1 /\ Begun \in Nat
    <3>1. Cardinality(Counting') = Cardinality(Counting) + 1 /\ Cardinality(Counting) \in Nat
      BY <1>6, CountersFinite, OneElement
    <3>2. Begun = finished + Cardinality(Counting)
      BY DEF Begun, Counting
    <3>3. Begun' = finished' + Cardinality(Counting')
      BY DEF Begun, Counting
    <3> QED
      BY <1>1, <1>2, <3>1, <3>2, <3>3 DEF MetricsTypeOK
  <2>2. Cardinality(Creators') <= Cardinality(Creators) + 1 /\ Cardinality(Creators') \in Nat
    BY <1>6, CountersFinite, OneElement
  <2> QED
    BY <1>1, <1>2, <2>1, <2>2, CountersFinite, MetricsAssumption DEF ObjectsFit, MetricsTypeOK
<1>8. OneObject'
  <2> SUFFICES ASSUME ~twins' PROVE OneObject'
    BY DEF OneObject
  <2>1. ~twins /\ (current = 0 => Creators = {})
    BY <1>1, <1>2 DEF MetricsTypeOK
  <2> QED
    BY <1>1, <1>2, <1>3, <1>5, <1>6, <2>1 DEF OneObject
<1> QED
  BY <1>4, <1>7, <1>8 DEF MetricsInv

\* CreateCounter keeps MetricsInv.
LEMMA CreateStep == ASSUME MetricsInv, NEW r \in Reporters, CreateCounter(r) PROVE MetricsInv'
<1>1. /\ reporter[r].pc = "create"
      /\ made' = made + 1 /\ current' = made + 1
      /\ reporter' = [reporter EXCEPT ![r] = [pc |-> "add", object |-> made + 1]]
      /\ UNCHANGED <<counts, finished, twins>>
  BY DEF CreateCounter
<1>2. MetricsTypeOK /\ ObjectsFit /\ OneObject
  BY DEF MetricsInv
<1>3. r \in Creators
  BY <1>1 DEF Creators
<1>4. made + 1 \in 0 .. MaxCounts /\ made \in Nat
  <2>1. Cardinality(Creators) >= 1 /\ Cardinality(Creators) \in Nat
    BY <1>3, CountersFinite, OneElement
  <2>2. Begun \in Nat
    BY <1>2, CountersFinite DEF Begun, Counting, MetricsTypeOK
  <2> QED
    BY <1>2, <2>1, <2>2, MetricsAssumption DEF ObjectsFit, MetricsTypeOK
<1>5. MetricsTypeOK'
  <2>1. reporter' \in [Reporters -> [pc : {"idle", "create", "add"}, object : 0 .. MaxCounts]]
    BY <1>1, <1>2, <1>4 DEF MetricsTypeOK
  <2> QED BY <1>1, <1>2, <1>4, <2>1 DEF MetricsTypeOK
<1>6. /\ reporter'[r].pc = "add" /\ reporter'[r].object = made + 1
      /\ \A s \in Reporters \ {r} : reporter'[s] = reporter[s]
  BY <1>1, <1>2 DEF MetricsTypeOK
<1>7. Counting' = Counting /\ Creators' = Creators \ {r}
  BY <1>1, <1>6 DEF Counting, Creators
<1>8. ObjectsFit'
  <2>1. Cardinality(Creators') = Cardinality(Creators) - 1 /\ Begun' = Begun
    BY <1>1, <1>3, <1>7, CountersFinite, OneElement DEF Begun, Counting
  <2>2. Begun \in Nat
    BY <1>2, CountersFinite DEF Begun, Counting, MetricsTypeOK
  <2> QED
    BY <1>1, <1>2, <1>4, <2>1, <2>2, CountersFinite DEF ObjectsFit
<1>9. OneObject'
  <2> SUFFICES ASSUME ~twins PROVE OneObject'
    BY <1>1 DEF OneObject
  <2>1. current = 0
    BY <1>2, <1>3 DEF OneObject
  <2>2. /\ finished = 0 /\ made = 0 /\ counts = [i \in 0 .. MaxCounts |-> 0]
        /\ \A s \in Reporters : reporter[s].pc # "add"
        /\ Creators = {r}
    BY <1>2, <1>3, <2>1 DEF OneObject
  <2>3. counts[1] = 0 /\ current' = 1 /\ Creators' = {}
    BY <1>1, <1>4, <1>7, <2>2
  <2>4. counts'[current'] = finished'
    BY <1>1, <2>2, <2>3
  <2>5. \A s \in Reporters : reporter'[s].pc = "add" => reporter'[s].object = current'
    BY <1>1, <1>6, <2>2
  <2> QED
    BY <2>3, <2>4, <2>5 DEF OneObject
<1> QED
  BY <1>5, <1>8, <1>9 DEF MetricsInv

\* AddOne keeps MetricsInv.
LEMMA AddStep == ASSUME MetricsInv, NEW r \in Reporters, AddOne(r) PROVE MetricsInv'
<1> DEFINE o == reporter[r].object
<1>1. /\ reporter[r].pc = "add"
      /\ counts' = [counts EXCEPT ![o] = @ + 1]
      /\ finished' = finished + 1
      /\ reporter' = [reporter EXCEPT ![r].pc = "idle"]
      /\ UNCHANGED <<current, made, twins>>
  BY DEF AddOne
<1>2. MetricsTypeOK /\ ObjectsFit /\ OneObject
  BY DEF MetricsInv
<1>3. MetricsTypeOK'
  <2>1. reporter' \in [Reporters -> [pc : {"idle", "create", "add"}, object : 0 .. MaxCounts]]
    BY <1>1, <1>2 DEF MetricsTypeOK
  <2>2. counts' \in [0 .. MaxCounts -> Nat]
    BY <1>1, <1>2 DEF MetricsTypeOK
  <2> QED BY <1>1, <1>2, <2>1, <2>2 DEF MetricsTypeOK
<1>4. /\ reporter'[r].pc = "idle"
      /\ \A s \in Reporters \ {r} : reporter'[s] = reporter[s]
  BY <1>1, <1>2 DEF MetricsTypeOK
<1>5. r \in Counting /\ Counting' = Counting \ {r} /\ Creators' = Creators
  BY <1>1, <1>4 DEF Counting, Creators
<1>6. ObjectsFit'
  <2>1. Cardinality(Counting') = Cardinality(Counting) - 1
    BY <1>5, CountersFinite, OneElement
  <2>2. Begun' = Begun
    BY <1>1, <1>2, <2>1, CountersFinite DEF Begun, Counting, MetricsTypeOK
  <2> QED
    BY <1>1, <1>2, <1>5, <2>2 DEF ObjectsFit
<1>7. OneObject'
  <2> SUFFICES ASSUME ~twins PROVE OneObject'
    BY <1>1 DEF OneObject
  <2>1. current # 0 /\ o = current /\ Creators = {} /\ counts[current] = finished
    BY <1>1, <1>2 DEF OneObject
  <2>2. counts'[current] = finished + 1
    BY <1>1, <1>2, <2>1 DEF MetricsTypeOK
  <2> QED
    BY <1>1, <1>2, <1>4, <1>5, <2>1, <2>2 DEF OneObject
<1> QED
  BY <1>3, <1>6, <1>7 DEF MetricsInv

\* A counter shows every count that is done, unless two goroutines made the first one at
\* the same time: CountsShown.
THEOREM CountsKept == MetricsSpec => [](MetricsTypeOK /\ CountsShown)
<1>1. MetricsInv /\ [MetricsNext]_metricsVars => MetricsInv'
  <2> SUFFICES ASSUME MetricsInv, [MetricsNext]_metricsVars PROVE MetricsInv'
    OBVIOUS
  <2>1. CASE UNCHANGED metricsVars
    BY <2>1 DEF metricsVars, MetricsInv, MetricsTypeOK, ObjectsFit, OneObject, Creators, Begun
  <2> QED
    BY <2>1, LookStep, CreateStep, AddStep DEF MetricsNext
<1>2. MetricsInv => MetricsTypeOK /\ CountsShown
  BY DEF MetricsInv, OneObject, CountsShown, Get
<1> QED
  BY MetricsInitially, <1>1, <1>2, PTL DEF MetricsSpec

-----------------------------------------------------------------------------
(* Views, for any number of videos, watchers and views.                     *)

Clips == 1 .. MaxVideos
WatcherRecord == [pc : {"get", "count", "answer"}, id : 0 .. MaxVideos, before : Nat, told : Nat]

\* The calls that found video i and have not counted their view.
Uncounted(i) == {w \in Watchers : watcher[w].pc = "count" /\ watcher[w].id = i}

WatchersKnow ==
    \A w \in Watchers :
        /\ watcher[w].pc \in {"count", "answer"} => watcher[w].id \in Clips
        /\ watcher[w].pc = "count" => watcher[w].before <= video[watcher[w].id].count
        /\ watcher[w].pc = "answer" => watcher[w].before < video[watcher[w].id].count
        /\ watcher[w].pc = "get" /\ watcher[w].id # 0 => watcher[w].told > watcher[w].before

ViewsAdd == \A i \in Clips : video[i].count + Cardinality(Uncounted(i)) = views[i]

StatusesTold ==
    \A i \in Clips : IF i <= uploads THEN video[i].status = "ready" <=> i \notin transcoding
                                     ELSE video[i].status = "uploading"

VideosInv == VideosTypeOK /\ WatchersKnow /\ ViewsAdd /\ StatusesTold

\* The watchers whose view is not counted yet can be counted.
LEMMA UncountedFinite ==
    \A i : IsFiniteSet(Uncounted(i)) /\ Cardinality(Uncounted(i)) \in Nat
<1>1. \A i : Uncounted(i) \in SUBSET Watchers
  BY DEF Uncounted
<1>2. \A i : IsFiniteSet(Uncounted(i))
  BY <1>1, VideosAssumption, FS_Subset
<1> QED BY <1>2, FS_CardinalityType

\* VideosInv holds in the initial states.
LEMMA VideosInitially == VideosInit => VideosInv
<1> SUFFICES ASSUME VideosInit PROVE VideosInv
  OBVIOUS
<1>1. 0 \in 0 .. MaxVideos /\ 0 \in 0 .. MaxViews
  BY VideosAssumption
<1>2. VideosTypeOK
  <2>1. video \in [1 .. MaxVideos -> [status : {"uploading", "ready"}, count : Nat]]
    BY DEF VideosInit
  <2>2. watcher \in [Watchers -> WatcherRecord]
    BY <1>1 DEF VideosInit, WatcherRecord
  <2>3. views \in [1 .. MaxVideos -> 0 .. MaxViews]
    BY <1>1 DEF VideosInit
  <2> QED
    BY <1>1, <2>1, <2>2, <2>3 DEF VideosInit, VideosTypeOK, WatcherRecord
<1>3. WatchersKnow /\ StatusesTold
  BY DEF VideosInit, WatchersKnow, StatusesTold, Clips
<1>4. \A i : Uncounted(i) = {}
  BY DEF VideosInit, Uncounted
<1>5. ViewsAdd
  <2>1. \A i \in Clips : video[i].count = 0 /\ views[i] = 0
    BY DEF VideosInit, Clips
  <2>2. \A i \in Clips : Cardinality(Uncounted(i)) = 0
    BY <1>4, FS_EmptySet
  <2> QED BY <2>1, <2>2 DEF ViewsAdd
<1> QED
  BY <1>2, <1>3, <1>5 DEF VideosInv

\* Upload keeps VideosInv.
LEMMA UploadStep == ASSUME VideosInv, Upload PROVE VideosInv'
<1> USE DEF VideosInv
<1>1. /\ uploads < MaxVideos /\ uploads' = uploads + 1 /\ transcoding' = transcoding \cup {uploads + 1}
      /\ video' = video /\ watcher' = watcher /\ views' = views
  BY DEF Upload
<1>2. VideosTypeOK'
  BY <1>1, VideosAssumption DEF VideosTypeOK
<1>3. WatchersKnow' /\ ViewsAdd'
  BY <1>1 DEF WatchersKnow, ViewsAdd, Uncounted
<1>4. StatusesTold'
  BY <1>1, VideosAssumption DEF StatusesTold, VideosTypeOK, Clips
<1> QED BY <1>2, <1>3, <1>4

\* Transcode keeps VideosInv.
LEMMA TranscodeStep == ASSUME VideosInv, NEW i \in Clips, Transcode(i) PROVE VideosInv'
<1> USE DEF VideosInv
<1>1. /\ i \in transcoding /\ transcoding' = transcoding \ {i}
      /\ video' = [video EXCEPT ![i].status = "ready"]
      /\ uploads' = uploads /\ watcher' = watcher /\ views' = views
  BY DEF Transcode
<1>2. video' \in [1 .. MaxVideos -> [status : {"uploading", "ready"}, count : Nat]]
  BY <1>1 DEF VideosTypeOK
<1>3. VideosTypeOK'
  BY <1>1, <1>2 DEF VideosTypeOK
<1>4. /\ \A j \in Clips : video'[j].count = video[j].count
      /\ video'[i].status = "ready" /\ \A j \in Clips : j # i => video'[j] = video[j]
  BY <1>1 DEF VideosTypeOK, Clips
<1>5. WatchersKnow' /\ ViewsAdd'
  BY <1>1, <1>4 DEF WatchersKnow, ViewsAdd, Uncounted
<1>6. StatusesTold'
  BY <1>1, <1>4, VideosAssumption DEF StatusesTold, VideosTypeOK, Clips
<1> QED BY <1>3, <1>5, <1>6

\* GetVideo keeps VideosInv.
LEMMA GetVideoStep == ASSUME VideosInv, NEW w \in Watchers, NEW i \in Clips, GetVideo(w, i) PROVE VideosInv'
<1> USE DEF VideosInv
<1>1. /\ watcher[w].pc = "get" /\ i \in 1 .. uploads /\ views[i] < MaxViews
      /\ watcher' = [watcher EXCEPT ![w] = [pc |-> "count", id |-> i, before |-> video[i].count, told |-> 0]]
      /\ views' = [views EXCEPT ![i] = @ + 1]
      /\ uploads' = uploads /\ video' = video /\ transcoding' = transcoding
  BY DEF GetVideo
<1>2. video[i].count \in Nat /\ views[i] \in 0 .. MaxViews
  BY DEF VideosTypeOK, Clips
<1>3. VideosTypeOK'
  <2>1. watcher' \in [Watchers -> WatcherRecord]
    BY <1>1, <1>2 DEF VideosTypeOK, WatcherRecord, Clips
  <2>2. views[i] + 1 \in 0 .. MaxViews
    BY <1>1, <1>2, VideosAssumption
  <2>3. views' \in [1 .. MaxVideos -> 0 .. MaxViews]
    BY <1>1, <2>2 DEF VideosTypeOK
  <2> QED BY <1>1, <2>1, <2>3 DEF VideosTypeOK, WatcherRecord
<1>4. /\ watcher'[w] = [pc |-> "count", id |-> i, before |-> video[i].count, told |-> 0]
      /\ \A v \in Watchers \ {w} : watcher'[v] = watcher[v]
  BY <1>1 DEF VideosTypeOK
<1>5. WatchersKnow'
  BY <1>1, <1>2, <1>4 DEF WatchersKnow
<1>6. ViewsAdd'
  <2>1. w \notin Uncounted(i) /\ Uncounted(i)' = Uncounted(i) \cup {w}
    BY <1>1, <1>4 DEF Uncounted
  <2>2. Cardinality(Uncounted(i)') = Cardinality(Uncounted(i)) + 1
    BY <2>1, UncountedFinite, OneElement
  <2>3. video[i].count + Cardinality(Uncounted(i)) = views[i]
    BY DEF ViewsAdd
  <2>4. video'[i].count + Cardinality(Uncounted(i)') = views'[i]
    BY <1>1, <1>2, <2>2, <2>3, UncountedFinite DEF VideosTypeOK, Clips
  <2>5. ASSUME NEW j \in Clips, j # i
        PROVE  video'[j].count + Cardinality(Uncounted(j)') = views'[j]
    <3>1. Uncounted(j)' = Uncounted(j)
      BY <1>1, <1>4, <2>5 DEF Uncounted
    <3>2. views'[j] = views[j] /\ video'[j] = video[j]
      BY <1>1, <2>5 DEF VideosTypeOK, Clips
    <3> QED BY <3>1, <3>2 DEF ViewsAdd
  <2> QED BY <2>4, <2>5 DEF ViewsAdd
<1>7. StatusesTold'
  BY <1>1 DEF StatusesTold
<1> QED BY <1>3, <1>5, <1>6, <1>7

\* IncrementView keeps VideosInv.
LEMMA IncrementStep == ASSUME VideosInv, NEW w \in Watchers, IncrementView(w) PROVE VideosInv'
<1> USE DEF VideosInv
<1>0. watcher[w].pc = "count" /\ watcher[w].id \in Clips
  BY DEF IncrementView, WatchersKnow
<1> SUFFICES ASSUME NEW i \in Clips, i = watcher[w].id PROVE VideosInv'
  BY <1>0
<1>1. /\ watcher[w].pc = "count"
      /\ video' = [video EXCEPT ![i].count = @ + 1]
      /\ watcher' = [watcher EXCEPT ![w].pc = "answer"]
      /\ uploads' = uploads /\ transcoding' = transcoding /\ views' = views
  BY DEF IncrementView
<1>2. i \in Clips /\ watcher[w].before <= video[i].count
  BY <1>1 DEF WatchersKnow
<1>3. VideosTypeOK'
  <2>1. watcher' \in [Watchers -> WatcherRecord]
    BY <1>1 DEF VideosTypeOK, WatcherRecord
  <2>2. video' \in [1 .. MaxVideos -> [status : {"uploading", "ready"}, count : Nat]]
    <3>1. video[i].count + 1 \in Nat
      BY <1>2 DEF VideosTypeOK, Clips
    <3> QED BY <1>1, <1>2, <3>1 DEF VideosTypeOK, Clips
  <2> QED BY <1>1, <2>1, <2>2 DEF VideosTypeOK, WatcherRecord
<1>4. /\ watcher'[w].pc = "answer" /\ watcher'[w].id = i /\ watcher'[w].before = watcher[w].before
      /\ \A v \in Watchers \ {w} : watcher'[v] = watcher[v]
  BY <1>1 DEF VideosTypeOK
<1>5. /\ video'[i].count = video[i].count + 1 /\ \A j \in Clips : j # i => video'[j] = video[j]
      /\ \A j \in Clips : video'[j].status = video[j].status /\ video[j].count \in Nat
  BY <1>1, <1>2 DEF VideosTypeOK, Clips
<1>6. WatchersKnow'
  <2>1. ASSUME NEW v \in Watchers \ {w}, watcher[v].pc \in {"count", "answer"}
        PROVE  video[watcher[v].id].count <= video'[watcher[v].id].count /\ watcher[v].before \in Nat
    BY <1>2, <1>5, <2>1 DEF WatchersKnow, VideosTypeOK
  <2>2. watcher[w].before \in Nat
    BY DEF VideosTypeOK
  <2>3. ASSUME NEW v \in Watchers
        PROVE  /\ watcher'[v].pc \in {"count", "answer"} => watcher'[v].id \in Clips
               /\ watcher'[v].pc = "count" => watcher'[v].before <= video'[watcher'[v].id].count
               /\ watcher'[v].pc = "answer" => watcher'[v].before < video'[watcher'[v].id].count
               /\ watcher'[v].pc = "get" /\ watcher'[v].id # 0 => watcher'[v].told > watcher'[v].before
    <3>1. CASE v = w
      BY <1>2, <1>4, <1>5, <2>2, <3>1
    <3>2. CASE v # w
      <4>1. watcher'[v] = watcher[v] /\ (watcher[v].pc \in {"count", "answer"} => watcher[v].id \in Clips)
        BY <1>4, <3>2 DEF WatchersKnow
      <4> QED BY <1>5, <2>1, <3>2, <4>1 DEF WatchersKnow
    <3> QED BY <3>1, <3>2
  <2> QED BY <2>3 DEF WatchersKnow
<1>7. ViewsAdd'
  <2>1. w \in Uncounted(i) /\ Uncounted(i)' = Uncounted(i) \ {w}
    BY <1>1, <1>4 DEF Uncounted
  <2>2. Cardinality(Uncounted(i)') = Cardinality(Uncounted(i)) - 1
    BY <2>1, UncountedFinite, OneElement
  <2>3. video[i].count + Cardinality(Uncounted(i)) = views[i]
    BY <1>2 DEF ViewsAdd
  <2>4. video'[i].count + Cardinality(Uncounted(i)') = views'[i]
    BY <1>1, <1>2, <1>5, <2>2, <2>3, UncountedFinite
  <2>5. ASSUME NEW j \in Clips, j # i
        PROVE  video'[j].count + Cardinality(Uncounted(j)') = views'[j]
    <3>1. Uncounted(j)' = Uncounted(j)
      BY <1>1, <1>4, <2>5 DEF Uncounted
    <3> QED BY <1>1, <1>5, <2>5, <3>1 DEF ViewsAdd
  <2> QED BY <2>4, <2>5 DEF ViewsAdd
<1>8. StatusesTold'
  BY <1>1, <1>5 DEF StatusesTold
<1> QED BY <1>3, <1>6, <1>7, <1>8

\* AnswerVideo keeps VideosInv.
LEMMA AnswerVideoStep == ASSUME VideosInv, NEW w \in Watchers, AnswerVideo(w) PROVE VideosInv'
<1> USE DEF VideosInv
<1> DEFINE i == watcher[w].id
<1> DEFINE n == video[i].count
<1>1. /\ watcher[w].pc = "answer"
      /\ watcher' = [watcher EXCEPT ![w].pc = "get", ![w].told = n]
      /\ uploads' = uploads /\ transcoding' = transcoding /\ views' = views /\ video' = video
  BY DEF AnswerVideo
<1>2. i \in Clips /\ watcher[w].before < n /\ n \in Nat
  BY <1>1 DEF WatchersKnow, VideosTypeOK, Clips
<1> HIDE DEF n
<1>3. VideosTypeOK'
  <2>1. watcher' \in [Watchers -> WatcherRecord]
    <3>1. watcher \in [Watchers -> WatcherRecord]
      BY DEF VideosTypeOK, WatcherRecord
    <3>2. [watcher[w] EXCEPT !.pc = "get", !.told = n] \in WatcherRecord
      BY <1>2, <3>1 DEF WatcherRecord
    <3>3. watcher' = [watcher EXCEPT ![w] = [watcher[w] EXCEPT !.pc = "get", !.told = n]]
      BY <1>1, <3>1
    <3> QED
      BY <3>1, <3>2, <3>3
  <2> QED BY <1>1, <2>1 DEF VideosTypeOK, WatcherRecord
<1>4. /\ watcher'[w].pc = "get" /\ watcher'[w].id = i /\ watcher'[w].before = watcher[w].before
      /\ watcher'[w].told = n /\ watcher[w].before \in Nat
      /\ \A v \in Watchers \ {w} : watcher'[v] = watcher[v]
  BY <1>1 DEF VideosTypeOK
<1>5. WatchersKnow'
  BY <1>1, <1>2, <1>4 DEF WatchersKnow
<1>6. ViewsAdd'
  <2>1. \A j : Uncounted(j)' = Uncounted(j)
    BY <1>1, <1>4 DEF Uncounted
  <2> QED BY <1>1, <2>1 DEF ViewsAdd
<1>7. StatusesTold'
  BY <1>1 DEF StatusesTold
<1> QED BY <1>3, <1>5, <1>6, <1>7

\* No view is lost or counted twice, and a watcher's own is in the count it is told:
\* ViewsCounted.
THEOREM ViewsKept == VideosSpec => [](VideosTypeOK /\ ViewsCounted)
<1>1. VideosInv /\ [VideosNext]_videoVars => VideosInv'
  <2> SUFFICES ASSUME VideosInv, [VideosNext]_videoVars PROVE VideosInv'
    OBVIOUS
  <2>1. CASE UNCHANGED videoVars
    BY <2>1 DEF videoVars, VideosInv, VideosTypeOK, WatchersKnow, ViewsAdd, Uncounted, StatusesTold
  <2> QED
    BY <2>1, UploadStep, TranscodeStep, GetVideoStep, IncrementStep, AnswerVideoStep DEF VideosNext, Clips
<1>2. VideosInv => VideosTypeOK /\ ViewsCounted
  <2> SUFFICES ASSUME VideosInv PROVE VideosTypeOK /\ ViewsCounted
    OBVIOUS
  <2>1. \A i \in 1 .. uploads : i \in Clips /\ i <= uploads
    BY VideosAssumption DEF VideosInv, VideosTypeOK, Clips
  <2> QED
    BY <2>1 DEF VideosInv, WatchersKnow, ViewsAdd, Uncounted, StatusesTold, ViewsCounted, Clips
<1> QED
  BY VideosInitially, <1>1, <1>2, PTL DEF VideosSpec

-----------------------------------------------------------------------------
(* Timelines, for any number of people and posts.                           *)

Descending(s) == \A a, b \in DOMAIN s : a < b => s[a] >= s[b]

FeedTyped ==
    /\ users \subseteq People /\ author \in Seq(People) /\ Len(author) <= MaxPosts
    /\ posts \in [People -> Seq(Nat)] /\ timeline \in [People -> Seq(Nat)]
    /\ follows \in [People -> SUBSET People]
    /\ since \in [People -> [People -> 0 .. MaxPosts]]

FeedNumbers == \A u \in People : Range(posts[u]) \cup Range(timeline[u]) \subseteq 1 .. Len(author)

Newest == \A u \in People : Descending(timeline[u])
Wanted == \A u \in People : \A i \in Range(timeline[u]) : author[i] \in follows[u] \cup {u}
OwnListed == \A u \in People : Range(posts[u]) \subseteq Range(timeline[u])
FollowedListed ==
    \A u \in People : \A v \in follows[u] : \A i \in Range(posts[v]) : i > since[u][v] => i \in Range(timeline[u])

FeedInv == FeedTyped /\ FeedNumbers /\ Newest /\ Wanted /\ OwnListed /\ FollowedListed

\* Reversing a list keeps its members.
LEMMA ReversedHasSame == ASSUME NEW s \in Seq(Nat) PROVE Range(Reverse(s)) = Range(s)
<1>1. Reverse(s) = [i \in 1 .. Len(s) |-> s[(Len(s) - i) + 1]]
  BY DEF Reverse
<1>2. \A i \in 1 .. Len(s) : (Len(s) - i) + 1 \in 1 .. Len(s) /\ (Len(s) - ((Len(s) - i) + 1)) + 1 = i
  BY LenProperties
<1>3. DOMAIN s = 1 .. Len(s)
  BY LenProperties
<1>4. Range(Reverse(s)) \subseteq Range(s)
  BY <1>1, <1>2, <1>3 DEF Range
<1>5. ASSUME NEW i \in 1 .. Len(s) PROVE s[i] \in Range(Reverse(s))
  <2>1. (Len(s) - i) + 1 \in DOMAIN Reverse(s) /\ Reverse(s)[(Len(s) - i) + 1] = s[i]
    BY <1>1, <1>2
  <2> QED BY <2>1 DEF Range
<1> QED BY <1>3, <1>4, <1>5 DEF Range

\* The newest post goes in front.
LEMMA InFront == ASSUME NEW s \in Seq(Nat), NEW i \in Nat
                 PROVE  /\ <<i>> \o s \in Seq(Nat) /\ Range(<<i>> \o s) = Range(s) \cup {i}
                        /\ Descending(s) /\ (\A j \in Range(s) : j <= i) => Descending(<<i>> \o s)
<1> DEFINE t == <<i>> \o s
<1>1. /\ t \in Seq(Nat) /\ Len(t) = Len(s) + 1 /\ t[1] = i /\ \A j \in 2 .. Len(s) + 1 : t[j] = s[j - 1]
  OBVIOUS
<1>2. DOMAIN t = 1 .. Len(s) + 1 /\ DOMAIN s = 1 .. Len(s) /\ Len(s) \in Nat
  BY <1>1, LenProperties
<1> HIDE DEF t
<1>3. \A j \in 1 .. Len(s) + 1 : j = 1 \/ (j \in 2 .. Len(s) + 1 /\ j - 1 \in 1 .. Len(s))
  BY <1>2
<1>4. 1 \in 1 .. Len(s) + 1 /\ \A j \in 1 .. Len(s) : j + 1 \in 2 .. Len(s) + 1 /\ (j + 1) - 1 = j /\ j + 1 \in 1 .. Len(s) + 1
  BY <1>2
<1>5. Range(t) = Range(s) \cup {i}
  <2>1. \A j \in 1 .. Len(s) : t[j + 1] = s[j]
    BY <1>1, <1>4
  <2>2. ASSUME NEW j \in 1 .. Len(s) + 1 PROVE t[j] \in Range(s) \cup {i}
    <3>1. CASE j = 1
      BY <1>1, <3>1
    <3>2. CASE j \in 2 .. Len(s) + 1 /\ j - 1 \in 1 .. Len(s)
      <4>1. t[j] = s[j - 1] /\ j - 1 \in DOMAIN s
        BY <1>1, <1>2, <3>2
      <4> QED BY <4>1 DEF Range
    <3> QED BY <1>3, <3>1, <3>2
  <2>3. ASSUME NEW j \in 1 .. Len(s) PROVE s[j] \in Range(t)
    BY <1>2, <1>4, <2>1 DEF Range
  <2>4. i \in Range(t)
    BY <1>1, <1>2, <1>4 DEF Range
  <2>5. Range(t) \subseteq Range(s) \cup {i}
    BY <1>2, <2>2 DEF Range
  <2>6. Range(s) \subseteq Range(t)
    BY <1>2, <2>3 DEF Range
  <2> QED BY <2>4, <2>5, <2>6
<1>6. ASSUME Descending(s), \A j \in Range(s) : j <= i PROVE Descending(t)
  <2> SUFFICES ASSUME NEW a \in 1 .. Len(s) + 1, NEW b \in 1 .. Len(s) + 1, a < b PROVE t[a] >= t[b]
    BY <1>2 DEF Descending
  <2>0. b \in 2 .. Len(s) + 1 /\ b - 1 \in 1 .. Len(s)
    BY <1>2
  <2>1. b \in 2 .. Len(s) + 1 /\ b - 1 \in 1 .. Len(s) /\ t[b] = s[b - 1] /\ s[b - 1] \in Range(s) /\ s[b - 1] \in Nat
    <3>1. s[b - 1] \in Range(s)
      BY <1>2, <2>0 DEF Range
    <3> QED BY <1>1, <1>2, <2>0, <3>1
  <2>2. CASE a = 1
    BY <1>1, <1>6, <2>1, <2>2
  <2>3. CASE a # 1
    <3>1. a \in 2 .. Len(s) + 1 /\ a - 1 \in 1 .. Len(s) /\ a - 1 < b - 1
      BY <1>2, <2>1, <2>3
    <3> QED BY <1>1, <1>2, <1>6, <2>1, <3>1 DEF Descending
  <2> QED BY <2>2, <2>3
<1> QED BY <1>1, <1>5, <1>6 DEF t

\* Pushing a new post keeps a timeline descending and adds that post, where it goes.
LEMMA PushedProperties ==
    ASSUME FeedInv, NEW u \in People, NEW v \in People, NEW i \in Nat, i = Len(author) + 1
    PROVE  /\ Pushed(u, v, i) \in Seq(Nat) /\ Descending(Pushed(u, v, i))
           /\ Range(Pushed(u, v, i)) =
                 IF v = u \/ u \in follows[v] THEN Range(timeline[v]) \cup {i} ELSE Range(timeline[v])
<1> DEFINE s == timeline[v]
           m == (IF u \in follows[v] THEN <<i>> ELSE <<>>) \o s
<1>1. s \in Seq(Nat) /\ Descending(s) /\ \A j \in Range(s) : j <= i
  <2>1. Len(author) \in Nat
    BY LenProperties DEF FeedInv, FeedTyped
  <2> QED BY <2>1 DEF FeedInv, FeedTyped, FeedNumbers, Newest
<1> HIDE DEF s
<1>2. /\ m \in Seq(Nat) /\ Descending(m) /\ \A j \in Range(m) : j <= i
      /\ Range(m) = IF u \in follows[v] THEN Range(s) \cup {i} ELSE Range(s)
  <2>1. CASE u \in follows[v]
    BY <1>1, <2>1, InFront
  <2>2. CASE u \notin follows[v]
    <3>1. m = s
      BY <1>1, <2>2
    <3> QED BY <1>1, <2>2, <3>1
  <2> QED BY <2>1, <2>2
<1>3. Pushed(u, v, i) = (IF v = u THEN <<i>> ELSE <<>>) \o m
  BY DEF Pushed, s
<1> HIDE DEF m
<1>4. CASE v = u
  <2>1. Pushed(u, v, i) = <<i>> \o m
    BY <1>3, <1>4
  <2>2. /\ <<i>> \o m \in Seq(Nat) /\ Range(<<i>> \o m) = Range(m) \cup {i}
        /\ Descending(<<i>> \o m)
    BY <1>2, InFront
  <2>3. Range(m) \cup {i} = Range(s) \cup {i}
    BY <1>2
  <2> QED
    BY <1>4, <2>1, <2>2, <2>3 DEF s
<1>5. CASE v # u
  <2>1. Pushed(u, v, i) = m
    BY <1>2, <1>3, <1>5
  <2> QED BY <1>2, <1>5, <2>1 DEF s
<1> QED BY <1>4, <1>5

\* FeedInv holds in the initial states.
LEMMA FeedInitially == FeedInit => FeedInv
<1> SUFFICES ASSUME FeedInit PROVE FeedInv
  OBVIOUS
<1>1. FeedTyped
  BY FeedAssumption DEF FeedInit, FeedTyped
<1>2. \A u \in People : posts[u] = <<>> /\ timeline[u] = <<>> /\ follows[u] = {}
  BY DEF FeedInit
<1>3. Range(<<>>) = {} /\ Descending(<<>>)
  BY DEF Range, Descending
<1> QED
  BY <1>1, <1>2, <1>3 DEF FeedInv, FeedNumbers, Newest, Wanted, OwnListed, FollowedListed

\* CreateUser keeps FeedInv.
LEMMA CreateUserStep == ASSUME FeedInv, NEW u \in People, CreateUser(u) PROVE FeedInv'
<1> USE DEF FeedInv
<1>1. /\ users' = users \cup {u} /\ author' = author /\ follows' = follows
      /\ posts' = [posts EXCEPT ![u] = <<>>] /\ timeline' = [timeline EXCEPT ![u] = <<>>]
      /\ since' = [since EXCEPT ![u] = [v \in People |-> Len(author)]]
  BY DEF CreateUser
<1>2. Len(author) \in 0 .. MaxPosts
  BY LenProperties, FeedAssumption DEF FeedTyped
<1>3. FeedTyped'
  BY <1>1, <1>2 DEF FeedTyped
<1>4. Range(<<>>) = {} /\ Descending(<<>>)
  BY DEF Range, Descending
<1>5. /\ posts'[u] = <<>> /\ timeline'[u] = <<>> /\ \A v \in People : since'[u][v] = Len(author)
      /\ \A v \in People \ {u} : posts'[v] = posts[v] /\ timeline'[v] = timeline[v] /\ since'[v] = since[v]
  BY <1>1 DEF FeedTyped
<1>6. FeedNumbers' /\ Newest' /\ Wanted' /\ OwnListed'
  BY <1>1, <1>4, <1>5 DEF FeedNumbers, Newest, Wanted, OwnListed
<1>7. FollowedListed'
  <2> SUFFICES ASSUME NEW w \in People, NEW v \in follows[w], NEW i \in Range(posts'[v]), i > since'[w][v]
               PROVE  i \in Range(timeline'[w])
    BY <1>1 DEF FollowedListed
  <2>1. v \in People /\ v # u /\ posts'[v] = posts[v] /\ i \in 1 .. Len(author)
    BY <1>4, <1>5 DEF FeedTyped, FeedNumbers
  <2>2. w # u
    BY <1>2, <1>5, <2>1
  <2> QED BY <1>5, <2>1, <2>2 DEF FollowedListed
<1> QED BY <1>3, <1>6, <1>7

\* CreatePost keeps FeedInv.
LEMMA CreatePostStep == ASSUME FeedInv, NEW u \in People, CreatePost(u) PROVE FeedInv'
<1> DEFINE i == Len(author) + 1
<1>1. /\ Len(author) < MaxPosts /\ author' = Append(author, u)
      /\ posts' = [posts EXCEPT ![u] = Append(@, i)]
      /\ timeline' = [v \in People |-> Pushed(u, v, i)]
      /\ users' = users /\ follows' = follows /\ since' = since
  BY DEF CreatePost
<1>2. /\ author \in Seq(People) /\ Len(author) \in Nat /\ i \in Nat
      /\ Len(author') = i /\ author'[i] = u /\ author' \in Seq(People)
      /\ \A j \in 1 .. Len(author) : author'[j] = author[j]
  BY <1>1, LenProperties, AppendProperties DEF FeedInv, FeedTyped
<1>3. /\ posts[u] \in Seq(Nat) /\ Append(posts[u], i) \in Seq(Nat)
      /\ Range(posts'[u]) = Range(posts[u]) \cup {i}
      /\ \A v \in People \ {u} : posts'[v] = posts[v]
  <2>1. posts \in [People -> Seq(Nat)] /\ posts[u] \in Seq(Nat)
    BY DEF FeedInv, FeedTyped
  <2>2. Append(posts[u], i) \in Seq(Nat) /\ Range(Append(posts[u], i)) = Range(posts[u]) \cup {i}
    BY <1>2, <2>1, Appended
  <2>3. posts'[u] = Append(posts[u], i) /\ \A v \in People \ {u} : posts'[v] = posts[v]
    BY <1>1, <2>1
  <2> QED BY <2>1, <2>2, <2>3
<1>4. \A v \in People :
         /\ timeline'[v] \in Seq(Nat) /\ Descending(timeline'[v])
         /\ Range(timeline'[v]) = IF v = u \/ u \in follows[v] THEN Range(timeline[v]) \cup {i} ELSE Range(timeline[v])
  BY <1>1, <1>2, PushedProperties
<1>5. FeedTyped'
  <2>1. posts' \in [People -> Seq(Nat)]
    BY <1>1, <1>3 DEF FeedInv, FeedTyped
  <2>2. timeline' \in [People -> Seq(Nat)]
    BY <1>1, <1>4
  <2>3. Len(author') <= MaxPosts
    BY <1>1, <1>2, FeedAssumption
  <2> QED BY <1>1, <1>2, <2>1, <2>2, <2>3 DEF FeedInv, FeedTyped
<1> HIDE DEF i
<1>6. \A v \in People : Range(posts[v]) \cup Range(timeline[v]) \subseteq 1 .. Len(author)
  BY DEF FeedInv, FeedNumbers
<1>7. 1 .. Len(author') = 1 .. Len(author) \cup {i}
  BY <1>2 DEF i
<1>8. FeedNumbers' /\ Newest'
  BY <1>3, <1>4, <1>6, <1>7 DEF FeedNumbers, Newest
<1>9. Wanted'
  <2> SUFFICES ASSUME NEW v \in People, NEW j \in Range(timeline'[v]) PROVE author'[j] \in follows[v] \cup {v}
    BY <1>1 DEF Wanted
  <2>1. CASE j = i
    <3>1. i \notin 1 .. Len(author)
      BY <1>2 DEF i
    <3>2. v = u \/ u \in follows[v]
      BY <1>4, <1>6, <2>1, <3>1
    <3> QED BY <1>2, <2>1, <3>2
  <2>2. CASE j # i
    <3>1. j \in Range(timeline[v]) /\ j \in 1 .. Len(author)
      BY <1>4, <1>6, <2>2
    <3> QED BY <1>2, <3>1 DEF FeedInv, Wanted
  <2> QED BY <2>1, <2>2
<1>10. OwnListed'
  BY <1>3, <1>4 DEF FeedInv, OwnListed
<1>11. FollowedListed'
  <2> SUFFICES ASSUME NEW w \in People, NEW v \in follows[w], NEW j \in Range(posts'[v]), j > since[w][v]
               PROVE  j \in Range(timeline'[w])
    BY <1>1 DEF FollowedListed
  <2>1. v \in People
    BY DEF FeedInv, FeedTyped
  <2>2. CASE j \in Range(posts[v])
    BY <1>4, <2>2 DEF FeedInv, FollowedListed
  <2>3. CASE j \notin Range(posts[v])
    BY <1>3, <1>4, <2>1, <2>3
  <2> QED BY <2>2, <2>3
<1> QED BY <1>5, <1>8, <1>9, <1>10, <1>11 DEF FeedInv

\* Follow keeps FeedInv.
LEMMA FollowStep == ASSUME FeedInv, NEW u \in People, NEW v \in People, Follow(u, v) PROVE FeedInv'
<1> USE DEF FeedInv
<1>1. /\ users' = users /\ posts' = posts /\ author' = author /\ timeline' = timeline
      /\ follows' = [follows EXCEPT ![u] = @ \cup {v}]
      /\ since' = IF v \in follows[u] THEN since ELSE [since EXCEPT ![u][v] = Len(author)]
  BY DEF Follow
<1>2. Len(author) \in 0 .. MaxPosts
  BY LenProperties, FeedAssumption DEF FeedTyped
<1>3. /\ follows'[u] = follows[u] \cup {v} /\ \A w \in People \ {u} : follows'[w] = follows[w]
      /\ \A w, x \in People :
            since'[w][x] = IF w = u /\ x = v /\ v \notin follows[u] THEN Len(author) ELSE since[w][x]
  BY <1>1 DEF FeedTyped
<1>4. FeedTyped'
  BY <1>1, <1>2 DEF FeedTyped
<1>5. FeedNumbers' /\ Newest' /\ OwnListed'
  BY <1>1 DEF FeedNumbers, Newest, OwnListed
<1>6. Wanted'
  BY <1>1, <1>3 DEF Wanted
<1>7. FollowedListed'
  <2> SUFFICES ASSUME NEW w \in People, NEW x \in follows'[w], NEW i \in Range(posts[x]), i > since'[w][x]
               PROVE  i \in Range(timeline[w])
    BY <1>1 DEF FollowedListed
  <2>1. x \in People /\ i \in 1 .. Len(author)
    BY <1>3 DEF FeedTyped, FeedNumbers
  <2>2. ~(w = u /\ x = v /\ v \notin follows[u])
    BY <1>2, <1>3, <2>1
  <2>3. x \in follows[w] /\ i > since[w][x]
    BY <1>3, <2>1, <2>2
  <2> QED BY <2>3 DEF FollowedListed
<1> QED BY <1>4, <1>5, <1>6, <1>7

\* A timeline lacks nothing that its owner should see, and has nothing else:
\* TimelinesComplete.
THEOREM TimelinesKept == FeedSpec => [](FeedTypeOK /\ TimelinesComplete)
<1>1. FeedInv /\ [FeedNext]_feedVars => FeedInv'
  <2> SUFFICES ASSUME FeedInv, [FeedNext]_feedVars PROVE FeedInv'
    OBVIOUS
  <2>1. CASE UNCHANGED feedVars
    BY <2>1 DEF feedVars, FeedInv, FeedTyped, FeedNumbers, Newest, Wanted, OwnListed, FollowedListed
  <2> QED
    BY <2>1, CreateUserStep, CreatePostStep, FollowStep DEF FeedNext
<1>2. FeedInv => FeedTypeOK /\ TimelinesComplete
  <2> SUFFICES ASSUME FeedInv PROVE FeedTypeOK /\ TimelinesComplete
    OBVIOUS
  <2>1. FeedTypeOK
    BY DEF FeedInv, FeedTyped, FeedNumbers, FeedTypeOK
  <2>2. \A u \in People : Range(GetUserPosts(u)) = Range(posts[u])
    BY ReversedHasSame DEF FeedInv, FeedTyped, GetUserPosts
  <2>3. TimelinesComplete
    BY <2>2 DEF FeedInv, Newest, Descending, Wanted, OwnListed, FollowedListed, TimelinesComplete
  <2> QED BY <2>1, <2>3
<1> QED
  BY FeedInitially, <1>1, <1>2, PTL DEF FeedSpec

-----------------------------------------------------------------------------
(* Files, for any numbers of ids, versions, readers and friends.            *)

Version == [version : Nat, size : Sizes]
FileRecord == [size : Sizes \cup {0}, parent : {0} \cup Ids1, shared : SUBSET (Friends \X Permissions)]
ReaderRecord == [pc : {"get", "content", "answer", "answered"}, id : {0} \cup Ids1,
                 content : Sizes \cup {0}, answer : Seq(Nat)]

DriveTyped ==
    /\ driveSeq \in 0 .. MaxNodes /\ files \subseteq 1 .. driveSeq /\ folders \subseteq 1 .. driveSeq
    /\ file \in [Ids1 -> FileRecord] /\ fileData \in [Ids1 -> Seq(Version)]
    /\ children \in [Ids1 -> Seq(Ids1)]
    /\ reader \in [Readers -> ReaderRecord] /\ changed \subseteq Readers

Numbered(s) == \A v \in DOMAIN s : s[v].version = v

FilesTell ==
    /\ files \cap folders = {}
    /\ \A i \in Ids1 : i \in files <=> fileData[i] # <<>>
    /\ \A i \in files : Numbered(fileData[i]) /\ file[i].size = Last(fileData[i]).size

Adopted == \A i \in files : file[i].parent # 0 => i \in Range(children[file[i].parent])

ReadersKnow ==
    \A r \in Readers \ changed :
        /\ reader[r].pc \in {"content", "answer"} => reader[r].id \in files
        /\ reader[r].pc = "answer" => reader[r].content = file[reader[r].id].size
        /\ reader[r].pc = "answered" => reader[r].answer[1] = reader[r].answer[2]

ReadersName == \A r \in Readers : reader[r].pc # "get" => reader[r].id \in Ids1

DriveInv == DriveTyped /\ FilesTell /\ Adopted /\ ReadersKnow /\ ReadersName

\* A version more.
WithVersion(s, size) == Append(s, [version |-> Len(s) + 1, size |-> size])

\* Adding a version keeps the versions of a file numbered in order.
LEMMA Versioned == ASSUME NEW s \in Seq(Version), NEW size \in Sizes
                   PROVE  /\ WithVersion(s, size) \in Seq(Version) /\ WithVersion(s, size) # <<>>
                          /\ Last(WithVersion(s, size)).size = size
                          /\ Numbered(s) => Numbered(WithVersion(s, size))
<1> DEFINE e == [version |-> Len(s) + 1, size |-> size]
           t == WithVersion(s, size)
<1>1. e \in Version /\ e.size = size /\ e.version = Len(s) + 1 /\ Len(s) \in Nat
  BY LenProperties DEF Version
<1> HIDE DEF e
<1>2. /\ t \in Seq(Version) /\ Len(t) = Len(s) + 1 /\ t[Len(s) + 1] = e
      /\ \A j \in 1 .. Len(s) : t[j] = s[j]
  BY <1>1, AppendProperties DEF e, WithVersion
<1> HIDE DEF t
<1>3. DOMAIN t = 1 .. Len(s) + 1 /\ DOMAIN s = 1 .. Len(s)
  BY <1>2, LenProperties
<1>4. \A j \in 1 .. Len(s) + 1 : j \in 1 .. Len(s) \/ j = Len(s) + 1
  BY <1>1
<1>5. t # <<>>
  BY <1>1, <1>2
<1>6. Numbered(s) => Numbered(t)
  BY <1>1, <1>2, <1>3, <1>4 DEF Numbered
<1> QED BY <1>1, <1>2, <1>5, <1>6 DEF Last, t

\* The first version of a file is numbered.
LEMMA FirstVersion == ASSUME NEW size \in Sizes, NEW t, t = <<[version |-> 1, size |-> size]>>
                      PROVE  t \in Seq(Version) /\ t # <<>> /\ Last(t).size = size /\ Numbered(t)
<1>1. [version |-> 1, size |-> size] \in Version
  BY DEF Version
<1>2. t \in Seq(Version) /\ Len(t) = 1 /\ DOMAIN t = {1} /\ t[1] = [version |-> 1, size |-> size]
  BY <1>1
<1> QED BY <1>2 DEF Last, Numbered

\* The folders after a new id: they list all that they did, and the one it names lists it.
LEMMA AdoptKeeps ==
    ASSUME DriveTyped, NEW p \in {0} \cup Ids1, NEW i \in Ids1, Adopt(p, i)
    PROVE  /\ children' \in [Ids1 -> Seq(Ids1)]
           /\ \A q \in Ids1 : Range(children[q]) \subseteq Range(children'[q])
           /\ p # 0 => i \in Range(children'[p])
<1>1. CASE p = 0
  BY <1>1 DEF Adopt, DriveTyped
<1>2. CASE p # 0
  <2>1. p \in Ids1 /\ children' = [children EXCEPT ![p] = Append(children[p], i)]
    BY <1>2 DEF Adopt
  <2>2. /\ Append(children[p], i) \in Seq(Ids1)
        /\ Range(Append(children[p], i)) = Range(children[p]) \cup {i}
    BY <2>1, Appended DEF DriveTyped
  <2>3. children'[p] = Append(children[p], i) /\ \A q \in Ids1 \ {p} : children'[q] = children[q]
    BY <2>1 DEF DriveTyped
  <2>4. children' \in [Ids1 -> Seq(Ids1)]
    BY <2>1, <2>2 DEF DriveTyped
  <2> QED BY <2>1, <2>2, <2>3, <2>4
<1> QED BY <1>1, <1>2

\* DriveInv holds in the initial states.
LEMMA DriveInitially == DriveInit => DriveInv
<1> SUFFICES ASSUME DriveInit PROVE DriveInv
  OBVIOUS
<1>1. NoFile \in FileRecord
  BY DEF NoFile, FileRecord
<1>2. [pc |-> "get", id |-> 0, content |-> 0, answer |-> <<>>] \in ReaderRecord
  BY DEF ReaderRecord
<1>3. DriveTyped
  <2>1. file \in [Ids1 -> FileRecord] /\ reader \in [Readers -> ReaderRecord]
    BY <1>1, <1>2 DEF DriveInit
  <2>2. fileData \in [Ids1 -> Seq(Version)] /\ children \in [Ids1 -> Seq(Ids1)]
    BY DEF DriveInit
  <2>3. 0 \in 0 .. MaxNodes
    BY DriveAssumption
  <2> QED BY <2>1, <2>2, <2>3 DEF DriveInit, DriveTyped
<1>4. FilesTell /\ Adopted
  BY DEF DriveInit, FilesTell, Adopted
<1>5. ReadersKnow /\ ReadersName
  BY DEF DriveInit, ReadersKnow, ReadersName
<1> QED BY <1>3, <1>4, <1>5 DEF DriveInv

\* CreateFile keeps DriveInv.
LEMMA CreateFileStep ==
    ASSUME DriveInv, NEW p \in {0} \cup Ids1, NEW size \in Sizes, CreateFile(p, size) PROVE DriveInv'
<1>0. driveSeq \in Nat /\ driveSeq < MaxNodes /\ MaxNodes \in Nat
  BY DriveAssumption DEF CreateFile, DriveInv, DriveTyped
<1> SUFFICES ASSUME NEW i \in Ids1, i = driveSeq + 1 PROVE DriveInv'
  BY <1>0 DEF Ids1
<1> DEFINE t == <<[version |-> 1, size |-> size]>>
           f == [size |-> size, parent |-> p, shared |-> {}]
<1>1. /\ driveSeq' = i /\ files' = files \cup {i} /\ Adopt(p, i)
      /\ file' = [file EXCEPT ![i] = f] /\ fileData' = [fileData EXCEPT ![i] = t]
      /\ folders' = folders /\ reader' = reader /\ changed' = changed
  BY DEF CreateFile
<1>2. i \notin files /\ i \notin folders
  BY <1>0 DEF DriveInv, DriveTyped
<1>3. t \in Seq(Version) /\ t # <<>> /\ Last(t).size = size /\ Numbered(t)
  BY FirstVersion
<1>4. f \in FileRecord /\ f.size = size /\ f.parent = p
  BY DEF FileRecord
<1> HIDE DEF t, f
<1>5. /\ file'[i] = f /\ fileData'[i] = t
      /\ \A j \in Ids1 \ {i} : file'[j] = file[j] /\ fileData'[j] = fileData[j]
  BY <1>1 DEF DriveInv, DriveTyped
<1>6. /\ children' \in [Ids1 -> Seq(Ids1)]
      /\ \A q \in Ids1 : Range(children[q]) \subseteq Range(children'[q])
      /\ p # 0 => i \in Range(children'[p])
  BY <1>1, AdoptKeeps DEF DriveInv
<1>7. DriveTyped'
  <2>1. file' \in [Ids1 -> FileRecord] /\ fileData' \in [Ids1 -> Seq(Version)]
    BY <1>1, <1>3, <1>4 DEF DriveInv, DriveTyped
  <2>2. files' \subseteq 1 .. driveSeq' /\ folders' \subseteq 1 .. driveSeq' /\ driveSeq' \in 0 .. MaxNodes
    BY <1>0, <1>1 DEF DriveInv, DriveTyped
  <2> QED BY <1>1, <1>6, <2>1, <2>2 DEF DriveInv, DriveTyped
<1>8. \A j \in files : j \in Ids1 /\ j # i
  BY <1>0, <1>2 DEF DriveInv, DriveTyped, Ids1
<1>9. FilesTell'
  <2>1. files' \cap folders' = {}
    BY <1>1, <1>2 DEF DriveInv, FilesTell
  <2>2. \A j \in Ids1 : j \in files' <=> fileData'[j] # <<>>
    BY <1>1, <1>3, <1>5, <1>8 DEF DriveInv, FilesTell
  <2>3. \A j \in files' : Numbered(fileData'[j]) /\ file'[j].size = Last(fileData'[j]).size
    BY <1>1, <1>3, <1>4, <1>5, <1>8 DEF DriveInv, FilesTell
  <2> QED BY <2>1, <2>2, <2>3 DEF FilesTell
<1>10. Adopted'
  <2> SUFFICES ASSUME NEW j \in files', file'[j].parent # 0 PROVE j \in Range(children'[file'[j].parent])
    BY DEF Adopted
  <2>1. CASE j = i
    BY <1>4, <1>5, <1>6, <2>1
  <2>2. CASE j # i
    <3>1. j \in files /\ file'[j] = file[j] /\ file[j].parent \in Ids1
      BY <1>1, <1>5, <1>8, <2>2 DEF DriveInv, DriveTyped, FileRecord
    <3> QED BY <1>6, <3>1 DEF DriveInv, Adopted
  <2> QED BY <2>1, <2>2
<1>11. ReadersKnow' /\ ReadersName'
  BY <1>1, <1>5, <1>8 DEF DriveInv, ReadersKnow, ReadersName
<1> QED BY <1>7, <1>9, <1>10, <1>11 DEF DriveInv

\* CreateFolder keeps DriveInv.
LEMMA CreateFolderStep ==
    ASSUME DriveInv, NEW p \in {0} \cup Ids1, CreateFolder(p) PROVE DriveInv'
<1>0. driveSeq \in Nat /\ driveSeq < MaxNodes /\ MaxNodes \in Nat
  BY DriveAssumption DEF CreateFolder, DriveInv, DriveTyped
<1> SUFFICES ASSUME NEW i \in Ids1, i = driveSeq + 1 PROVE DriveInv'
  BY <1>0 DEF Ids1
<1>1. /\ driveSeq' = i /\ folders' = folders \cup {i} /\ Adopt(p, i)
      /\ files' = files /\ file' = file /\ fileData' = fileData /\ reader' = reader /\ changed' = changed
  BY DEF CreateFolder
<1>2. i \notin files
  BY <1>0 DEF DriveInv, DriveTyped
<1>3. /\ children' \in [Ids1 -> Seq(Ids1)]
      /\ \A q \in Ids1 : Range(children[q]) \subseteq Range(children'[q])
  BY <1>1, AdoptKeeps DEF DriveInv
<1>4. DriveTyped'
  <2>1. files' \subseteq 1 .. driveSeq' /\ folders' \subseteq 1 .. driveSeq' /\ driveSeq' \in 0 .. MaxNodes
    BY <1>0, <1>1 DEF DriveInv, DriveTyped
  <2> QED BY <1>1, <1>3, <2>1 DEF DriveInv, DriveTyped
<1>5. FilesTell'
  BY <1>1, <1>2 DEF DriveInv, FilesTell
<1>6. Adopted'
  <2> SUFFICES ASSUME NEW j \in files, file[j].parent # 0 PROVE j \in Range(children'[file[j].parent])
    BY <1>1 DEF Adopted
  <2>1. j \in Ids1
    BY <1>0 DEF DriveInv, DriveTyped, Ids1
  <2>2. file[j].parent \in Ids1
    BY <2>1 DEF DriveInv, DriveTyped, FileRecord
  <2> QED BY <1>3, <2>2 DEF DriveInv, Adopted
<1>7. ReadersKnow' /\ ReadersName'
  BY <1>1 DEF DriveInv, ReadersKnow, ReadersName
<1> QED BY <1>4, <1>5, <1>6, <1>7 DEF DriveInv

\* UpdateFile keeps DriveInv.
LEMMA UpdateFileStep ==
    ASSUME DriveInv, NEW i \in Ids1, NEW size \in Sizes, UpdateFile(i, size) PROVE DriveInv'
<1> DEFINE t == WithVersion(fileData[i], size)
           f == [file[i] EXCEPT !.size = size]
<1>1. /\ i \in files /\ fileData' = [fileData EXCEPT ![i] = t] /\ file' = [file EXCEPT ![i] = f] /\ Disturb(i)
      /\ driveSeq' = driveSeq /\ files' = files /\ folders' = folders /\ children' = children /\ reader' = reader
  BY DEF UpdateFile, WithVersion
<1>2. /\ t \in Seq(Version) /\ t # <<>> /\ Last(t).size = size
      /\ Numbered(fileData[i]) => Numbered(t)
  <2>1. fileData[i] \in Seq(Version)
    BY DEF DriveInv, DriveTyped
  <2> QED BY <2>1, Versioned
<1>3. f \in FileRecord /\ f.size = size /\ f.parent = file[i].parent
  <2>1. file[i] \in FileRecord
    BY DEF DriveInv, DriveTyped
  <2> QED BY <2>1 DEF FileRecord
<1> HIDE DEF t, f
<1>4. /\ file'[i] = f /\ fileData'[i] = t
      /\ \A j \in Ids1 \ {i} : file'[j] = file[j] /\ fileData'[j] = fileData[j]
  BY <1>1 DEF DriveInv, DriveTyped
<1>5. DriveTyped'
  <2>1. file' \in [Ids1 -> FileRecord] /\ fileData' \in [Ids1 -> Seq(Version)]
    BY <1>1, <1>2, <1>3 DEF DriveInv, DriveTyped
  <2>2. changed' \subseteq Readers
    BY <1>1 DEF Disturb, DriveInv, DriveTyped
  <2> QED BY <1>1, <2>1, <2>2 DEF DriveInv, DriveTyped
<1>6. \A j \in files : j \in Ids1
  BY DriveAssumption DEF DriveInv, DriveTyped, Ids1
<1>7. FilesTell'
  <2>1. \A j \in Ids1 : j \in files' <=> fileData'[j] # <<>>
    BY <1>1, <1>2, <1>4 DEF DriveInv, FilesTell
  <2>2. \A j \in files' : Numbered(fileData'[j]) /\ file'[j].size = Last(fileData'[j]).size
    BY <1>1, <1>2, <1>3, <1>4, <1>6 DEF DriveInv, FilesTell
  <2> QED BY <1>1, <2>1, <2>2 DEF DriveInv, FilesTell
<1>8. Adopted'
  BY <1>1, <1>3, <1>4, <1>6 DEF DriveInv, Adopted
<1>9. ReadersKnow' /\ ReadersName'
  <2>1. \A r \in Readers \ changed' : r \notin changed /\ (reader[r].pc \in {"content", "answer"} => reader[r].id # i)
    BY <1>1 DEF Disturb
  <2> QED BY <1>1, <1>4, <1>6, <2>1 DEF DriveInv, ReadersKnow, ReadersName
<1> QED BY <1>5, <1>7, <1>8, <1>9 DEF DriveInv

\* DeleteFile keeps DriveInv.
LEMMA DeleteFileStep == ASSUME DriveInv, NEW i \in Ids1, DeleteFile(i) PROVE DriveInv'
<1>1. /\ i \in files /\ files' = files \ {i} /\ fileData' = [fileData EXCEPT ![i] = <<>>] /\ Disturb(i)
      /\ driveSeq' = driveSeq /\ folders' = folders /\ file' = file /\ children' = children /\ reader' = reader
  BY DEF DeleteFile
<1>2. fileData'[i] = <<>> /\ \A j \in Ids1 \ {i} : fileData'[j] = fileData[j]
  BY <1>1 DEF DriveInv, DriveTyped
<1>3. \A j \in files : j \in Ids1
  BY DriveAssumption DEF DriveInv, DriveTyped, Ids1
<1>4. DriveTyped'
  <2>1. fileData' \in [Ids1 -> Seq(Version)]
    BY <1>1 DEF DriveInv, DriveTyped
  <2>2. changed' \subseteq Readers
    BY <1>1 DEF Disturb, DriveInv, DriveTyped
  <2> QED BY <1>1, <2>1, <2>2 DEF DriveInv, DriveTyped
<1>5. FilesTell' /\ Adopted'
  BY <1>1, <1>2, <1>3 DEF DriveInv, FilesTell, Adopted
<1>6. ReadersKnow' /\ ReadersName'
  <2>1. \A r \in Readers \ changed' : r \notin changed /\ (reader[r].pc \in {"content", "answer"} => reader[r].id # i)
    BY <1>1 DEF Disturb
  <2> QED BY <1>1, <2>1 DEF DriveInv, ReadersKnow, ReadersName
<1> QED BY <1>4, <1>5, <1>6 DEF DriveInv

\* ShareFile keeps DriveInv.
LEMMA ShareFileStep ==
    ASSUME DriveInv, NEW i \in Ids1, NEW u \in Friends, NEW p \in Permissions, ShareFile(i, u, p) PROVE DriveInv'
<1> DEFINE them == {s \in file[i].shared : s[1] # u} \cup {<<u, p>>}
<1>1. /\ i \in files /\ file' = [file EXCEPT ![i].shared = them]
      /\ driveSeq' = driveSeq /\ files' = files /\ folders' = folders /\ fileData' = fileData
      /\ children' = children /\ reader' = reader /\ changed' = changed
  BY DEF ShareFile
<1>2. them \in SUBSET (Friends \X Permissions)
  BY DEF DriveInv, DriveTyped, FileRecord
<1> HIDE DEF them
<1>3. \A j \in Ids1 : file'[j].size = file[j].size /\ file'[j].parent = file[j].parent
  BY <1>1 DEF DriveInv, DriveTyped, FileRecord
<1>4. file' \in [Ids1 -> FileRecord]
  <2>0. file[i] \in FileRecord
    BY DEF DriveInv, DriveTyped
  <2>1. [file[i] EXCEPT !.shared = them] \in FileRecord
    BY <1>2, <2>0 DEF FileRecord
  <2>2. file' = [file EXCEPT ![i] = [file[i] EXCEPT !.shared = them]]
    BY <1>1 DEF DriveInv, DriveTyped
  <2> QED BY <2>1, <2>2 DEF DriveInv, DriveTyped
<1>5. \A j \in files : j \in Ids1
  BY DriveAssumption DEF DriveInv, DriveTyped, Ids1
<1>6. DriveTyped'
  BY <1>1, <1>4 DEF DriveInv, DriveTyped
<1>7. FilesTell' /\ Adopted' /\ ReadersKnow' /\ ReadersName'
  BY <1>1, <1>3, <1>5 DEF DriveInv, FilesTell, Adopted, ReadersKnow, ReadersName
<1> QED BY <1>6, <1>7 DEF DriveInv

\* A step of one reader, that leaves the store alone.
LEMMA OthersKnow ==
    ASSUME ReadersKnow, NEW r \in Readers, UNCHANGED <<files, file, changed>>,
           \A q \in Readers \ {r} : reader'[q] = reader[q],
           r \notin changed =>
               /\ reader'[r].pc \in {"content", "answer"} => reader'[r].id \in files
               /\ reader'[r].pc = "answer" => reader'[r].content = file[reader'[r].id].size
               /\ reader'[r].pc = "answered" => reader'[r].answer[1] = reader'[r].answer[2]
    PROVE  ReadersKnow'
<1> SUFFICES ASSUME NEW q \in Readers \ changed
             PROVE  /\ reader'[q].pc \in {"content", "answer"} => reader'[q].id \in files
                    /\ reader'[q].pc = "answer" => reader'[q].content = file[reader'[q].id].size
                    /\ reader'[q].pc = "answered" => reader'[q].answer[1] = reader'[q].answer[2]
  BY DEF ReadersKnow
<1>1. CASE q = r
  BY <1>1
<1>2. CASE q # r
  <2>1. reader'[q] = reader[q]
    BY <1>2
  <2> QED BY <2>1 DEF ReadersKnow
<1> QED BY <1>1, <1>2

\* GetFile keeps DriveInv.
LEMMA GetFileStep == ASSUME DriveInv, NEW r \in Readers, NEW i \in Ids1, GetFile(r, i) PROVE DriveInv'
<1>1. /\ reader[r].pc = "get" /\ i \in files /\ reader' = [reader EXCEPT ![r].pc = "content", ![r].id = i]
      /\ driveSeq' = driveSeq /\ files' = files /\ folders' = folders /\ file' = file /\ fileData' = fileData
      /\ children' = children /\ changed' = changed
  BY DEF GetFile
<1>2. /\ reader'[r].pc = "content" /\ reader'[r].id = i
      /\ \A q \in Readers \ {r} : reader'[q] = reader[q]
  BY <1>1 DEF DriveInv, DriveTyped, ReaderRecord
<1>3. reader' \in [Readers -> ReaderRecord]
  BY <1>1 DEF DriveInv, DriveTyped, ReaderRecord
<1>4. DriveTyped' /\ FilesTell' /\ Adopted'
  BY <1>1, <1>3 DEF DriveInv, DriveTyped, FilesTell, Adopted
<1>5. ReadersKnow'
  BY <1>1, <1>2, OthersKnow DEF DriveInv
<1>6. ReadersName'
  BY <1>1, <1>2 DEF DriveInv, ReadersName
<1> QED BY <1>4, <1>5, <1>6 DEF DriveInv

\* GetFileContent keeps DriveInv.
LEMMA ContentStep == ASSUME DriveInv, NEW r \in Readers, GetFileContent(r) PROVE DriveInv'
<1> DEFINE i == reader[r].id
           n == IF fileData[i] = <<>> THEN 0 ELSE Last(fileData[i]).size
<1>1. /\ reader[r].pc = "content" /\ reader' = [reader EXCEPT ![r].pc = "answer", ![r].content = n]
      /\ driveSeq' = driveSeq /\ files' = files /\ folders' = folders /\ file' = file /\ fileData' = fileData
      /\ children' = children /\ changed' = changed
  BY DEF GetFileContent
<1>2. i \in Ids1
  BY <1>1 DEF DriveInv, ReadersName
<1>3. n \in Sizes \cup {0}
  <2>1. CASE fileData[i] = <<>>
    BY <2>1
  <2>2. CASE fileData[i] # <<>>
    <3>1. fileData[i] \in Seq(Version)
      BY <1>2 DEF DriveInv, DriveTyped
    <3>2. Len(fileData[i]) \in 1 .. Len(fileData[i])
      BY <2>2, <3>1, EmptySeq, LenProperties
    <3>3. Last(fileData[i]) \in Version
      BY <3>1, <3>2, ElementOfSeq DEF Last
    <3> QED BY <2>2, <3>3 DEF Version
  <2> QED BY <2>1, <2>2
<1>4. ASSUME i \in files PROVE n = file[i].size
  BY <1>2, <1>4 DEF DriveInv, FilesTell
<1> HIDE DEF n
<1>5. /\ reader'[r].pc = "answer" /\ reader'[r].id = i /\ reader'[r].content = n
      /\ \A q \in Readers \ {r} : reader'[q] = reader[q]
  BY <1>1 DEF DriveInv, DriveTyped, ReaderRecord
<1>6. reader' \in [Readers -> ReaderRecord]
  BY <1>1, <1>3 DEF DriveInv, DriveTyped, ReaderRecord
<1>7. DriveTyped' /\ FilesTell' /\ Adopted'
  BY <1>1, <1>6 DEF DriveInv, DriveTyped, FilesTell, Adopted
<1>8. ReadersKnow'
  <2>1. r \notin changed => i \in files
    BY <1>1 DEF DriveInv, ReadersKnow
  <2> QED
    BY <1>1, <1>4, <1>5, <2>1, OthersKnow DEF DriveInv
<1>9. ReadersName'
  BY <1>2, <1>5 DEF DriveInv, ReadersName
<1> QED BY <1>7, <1>8, <1>9 DEF DriveInv

\* AnswerFile keeps DriveInv.
LEMMA AnswerFileStep == ASSUME DriveInv, NEW r \in Readers, AnswerFile(r) PROVE DriveInv'
<1> DEFINE i == reader[r].id
           a == <<file[i].size, reader[r].content>>
<1>1. /\ reader[r].pc = "answer" /\ reader' = [reader EXCEPT ![r].pc = "answered", ![r].answer = a]
      /\ driveSeq' = driveSeq /\ files' = files /\ folders' = folders /\ file' = file /\ fileData' = fileData
      /\ children' = children /\ changed' = changed
  BY DEF AnswerFile
<1>2. i \in Ids1
  BY <1>1 DEF DriveInv, ReadersName
<1>3. file[i].size \in Nat /\ reader[r].content \in Nat
  <2>1. file[i].size \in Sizes \cup {0}
    BY <1>2 DEF DriveInv, DriveTyped, FileRecord
  <2>2. reader[r].content \in Sizes \cup {0}
    BY DEF DriveInv, DriveTyped, ReaderRecord
  <2>3. \A x \in Sizes \cup {0} : x \in Nat
    BY DriveAssumption
  <2> HIDE DEF i
  <2> QED BY <2>1, <2>2, <2>3
<1>4. a \in Seq(Nat) /\ a[1] = file[i].size /\ a[2] = reader[r].content
  BY <1>3
<1> HIDE DEF a
<1>5. /\ reader'[r].pc = "answered" /\ reader'[r].id = i /\ reader'[r].answer = a
      /\ \A q \in Readers \ {r} : reader'[q] = reader[q]
  BY <1>1 DEF DriveInv, DriveTyped, ReaderRecord
<1>6. reader' \in [Readers -> ReaderRecord]
  <2>1. [reader[r] EXCEPT !.pc = "answered", !.answer = a] \in ReaderRecord
    BY <1>4 DEF DriveInv, DriveTyped, ReaderRecord
  <2>2. reader' = [reader EXCEPT ![r] = [reader[r] EXCEPT !.pc = "answered", !.answer = a]]
    BY <1>1 DEF DriveInv, DriveTyped
  <2> QED BY <2>1, <2>2 DEF DriveInv, DriveTyped
<1>7. DriveTyped' /\ FilesTell' /\ Adopted'
  BY <1>1, <1>6 DEF DriveInv, DriveTyped, FilesTell, Adopted
<1>8. r \notin changed => reader[r].content = file[i].size
  BY <1>1 DEF DriveInv, ReadersKnow
<1>9. ReadersKnow'
  BY <1>1, <1>4, <1>5, <1>8, OthersKnow DEF DriveInv
<1>10. ReadersName'
  BY <1>2, <1>5 DEF DriveInv, ReadersName
<1> QED BY <1>7, <1>9, <1>10 DEF DriveInv

\* The maps of the store tell one story, also to a reader that takes three steps:
\* DriveConsistent.
THEOREM DriveKept == DriveSpec => [](DriveTypeOK /\ DriveConsistent)
<1>1. DriveInv /\ [DriveNext]_driveVars => DriveInv'
  <2> SUFFICES ASSUME DriveInv, [DriveNext]_driveVars PROVE DriveInv'
    OBVIOUS
  <2>1. CASE UNCHANGED driveVars
    BY <2>1 DEF driveVars, DriveInv, DriveTyped, FilesTell, Adopted, ReadersKnow, ReadersName
  <2> QED
    BY <2>1, CreateFileStep, CreateFolderStep, UpdateFileStep, DeleteFileStep, ShareFileStep,
       GetFileStep, ContentStep, AnswerFileStep DEF DriveNext
<1>2. DriveInv => DriveTypeOK /\ DriveConsistent
  <2> SUFFICES ASSUME DriveInv PROVE DriveTypeOK /\ DriveConsistent
    OBVIOUS
  <2>1. \A i \in files : i \in Ids1
    BY DriveAssumption DEF DriveInv, DriveTyped, Ids1
  <2>2. \A i \in Ids1 : /\ file[i].size \in Sizes \cup {0} /\ file[i].parent \in {0} \cup Ids1
                        /\ file[i].shared \subseteq Friends \X Permissions
    BY DEF DriveInv, DriveTyped, FileRecord
  <2>3. \A i \in Ids1 : Range(children[i]) \subseteq Ids1
    BY DEF DriveInv, DriveTyped, Range
  <2>4. DriveTypeOK
    BY <2>2, <2>3 DEF DriveInv, DriveTyped, ReaderRecord, DriveTypeOK
  <2>5. DriveConsistent
    BY <2>1 DEF DriveInv, FilesTell, Numbered, Adopted, ReadersKnow, GetFolderChildren, DriveConsistent
  <2> QED BY <2>4, <2>5
<1> QED
  BY DriveInitially, <1>1, <1>2, PTL DEF DriveSpec

-----------------------------------------------------------------------------
(* Notifications, for any number of requests, users and channels.           *)

SendRecord == [pc : {"new", "count", "name", "send", "append", "answered", "refused"}, number : Nat, id : Nat,
               slice : Seq(Sends), status : {NoStatus, "delivered", "sent"}]

NotifyTyped ==
    /\ idSeq \in Nat /\ notifications \in Seq(Sends) /\ sending \in [Sends -> SendRecord]
    /\ overlapped \subseteq Sends

Once(q, s) == \E i \in 1 .. Len(q) : \A j \in 1 .. Len(q) : q[j] = s <=> j = i
Lone == Sends \ overlapped

\* A request that has not overlapped is alone.
AloneNow == \A s \in UnderWay : s \notin overlapped => UnderWay = {s}

\* Only what was answered is in the slice, or in a copy that will be written back.
EntriesAnswered ==
    /\ \A j \in DOMAIN notifications : sending[notifications[j]].pc = "answered"
    /\ \A t \in Sends : sending[t].pc = "append" =>
          \A j \in DOMAIN sending[t].slice : sending[sending[t].slice[j]].pc = "answered"

\* What a lone request stored is in the slice and in every copy.
EntriesKept ==
    \A s \in Lone : sending[s].pc = "answered" /\ ChannelOf[s] = "in_app" =>
        /\ Once(notifications, s)
        /\ \A t \in Sends : sending[t].pc = "append" => Once(sending[t].slice, s)

\* The counter is not behind the id of a lone request, nor will anybody set it back.
NumbersGrow ==
    \A s \in Lone : sending[s].pc = "answered" =>
        /\ idSeq >= sending[s].id
        /\ \A t \in Sends : sending[t].pc = "count" => sending[t].number >= sending[s].id

IdsNew ==
    \A t \in Lone :
        /\ sending[t].pc \in {"send", "append"} => idSeq >= sending[t].id
        /\ \A s \in Lone \ {t} : sending[s].pc = "answered" =>
              /\ sending[t].pc = "name" => idSeq > sending[s].id
              /\ sending[t].pc \in {"send", "append"} => sending[t].id > sending[s].id
              /\ sending[t].pc = "answered" => sending[t].id # sending[s].id

NotifyInv == NotifyTyped /\ AloneNow /\ EntriesAnswered /\ EntriesKept /\ NumbersGrow /\ IdsNew

\* Appending a request to a list in which it is not yet keeps everyone in it once.
LEMMA OnceMore ==
    ASSUME NEW q \in Seq(Sends), NEW t \in Sends
    PROVE  /\ Append(q, t) \in Seq(Sends)
           /\ \A s \in Sends \ {t} : Once(q, s) => Once(Append(q, t), s)
           /\ (\A j \in DOMAIN q : q[j] # t) => Once(Append(q, t), t)
           /\ \A j \in DOMAIN Append(q, t) : Append(q, t)[j] = t \/ \E k \in DOMAIN q : Append(q, t)[j] = q[k]
<1> DEFINE p == Append(q, t)
<1>1. p \in Seq(Sends) /\ Len(p) = Len(q) + 1 /\ p[Len(q) + 1] = t /\ \A j \in 1 .. Len(q) : p[j] = q[j]
  BY AppendProperties
<1>2. DOMAIN p = 1 .. Len(q) + 1 /\ DOMAIN q = 1 .. Len(q) /\ Len(q) \in Nat
  BY <1>1, LenProperties
<1> HIDE DEF p
<1>3. /\ \A j \in 1 .. Len(q) + 1 : j \in 1 .. Len(q) \/ j = Len(q) + 1
      /\ Len(q) + 1 \in 1 .. Len(q) + 1 /\ \A j \in 1 .. Len(q) : j \in 1 .. Len(q) + 1 /\ j # Len(q) + 1
  BY <1>2
<1>4. ASSUME NEW s \in Sends \ {t}, Once(q, s) PROVE Once(p, s)
  <2>1. PICK i \in 1 .. Len(q) : \A j \in 1 .. Len(q) : q[j] = s <=> j = i
    BY <1>4 DEF Once
  <2>2. ASSUME NEW j \in 1 .. Len(q) + 1 PROVE p[j] = s <=> j = i
    <3>1. CASE j \in 1 .. Len(q)
      BY <1>1, <2>1, <3>1
    <3>2. CASE j = Len(q) + 1
      BY <1>1, <1>3, <1>4, <2>1, <3>2
    <3> QED BY <1>3, <3>1, <3>2
  <2>3. i \in 1 .. Len(q) + 1
    BY <1>3
  <2> QED BY <1>1, <2>2, <2>3 DEF Once
<1>5. ASSUME \A j \in DOMAIN q : q[j] # t PROVE Once(p, t)
  <2>1. \A j \in 1 .. Len(q) + 1 : p[j] = t <=> j = Len(q) + 1
    BY <1>1, <1>2, <1>3, <1>5
  <2> QED BY <1>1, <1>3, <2>1 DEF Once
<1>6. \A j \in DOMAIN p : p[j] = t \/ \E k \in DOMAIN q : p[j] = q[k]
  BY <1>1, <1>2, <1>3
<1> QED BY <1>1, <1>4, <1>5, <1>6 DEF p

\* NotifyInv holds in the initial states.
LEMMA NotifyInitially == NotifyInit => NotifyInv
<1> SUFFICES ASSUME NotifyInit PROVE NotifyInv
  OBVIOUS
<1>1. [pc |-> "new", number |-> 0, id |-> 0, slice |-> <<>>, status |-> NoStatus] \in SendRecord
  BY DEF SendRecord
<1>2. NotifyTyped
  BY <1>1 DEF NotifyInit, NotifyTyped
<1>3. \A s \in Sends : sending[s].pc = "new"
  BY DEF NotifyInit
<1>4. DOMAIN notifications = {} /\ UnderWay = {}
  BY <1>3 DEF NotifyInit, UnderWay
<1>5. AloneNow /\ EntriesAnswered /\ EntriesKept /\ NumbersGrow /\ IdsNew
  BY <1>3, <1>4 DEF AloneNow, EntriesAnswered, EntriesKept, NumbersGrow, IdsNew, Lone
<1> QED BY <1>2, <1>5 DEF NotifyInv

\* The ids when a request is answered.
LEMMA LoneAnswers ==
    ASSUME NotifyInv, NEW t \in Sends, sending[t].pc \in {"send", "append"}, idSeq' = idSeq, Lone' = Lone,
           sending'[t].pc = "answered", sending'[t].id = sending[t].id,
           \A s \in Sends \ {t} : sending'[s] = sending[s]
    PROVE  NumbersGrow' /\ IdsNew'
<1> USE DEF NotifyInv
<1>1. \A u \in Lone : u \in Sends /\ u \notin overlapped
  BY DEF Lone
<1>2. t \in UnderWay /\ (t \in Lone => UnderWay = {t})
  BY <1>1 DEF UnderWay, AloneNow
<1>3. t \in Lone => \A u \in Sends \ {t} : sending[u].pc \notin {"count", "name", "send", "append"}
  BY <1>2 DEF UnderWay
<1>4. /\ idSeq \in Nat /\ \A u \in Sends : sending[u].id \in Nat /\ sending[u].number \in Nat
      /\ t \in Lone => idSeq >= sending[t].id
  BY DEF NotifyTyped, SendRecord, IdsNew
<1>5. NumbersGrow'
  <2> SUFFICES ASSUME NEW s \in Lone, sending'[s].pc = "answered"
               PROVE  /\ idSeq >= sending'[s].id
                      /\ \A u \in Sends : sending'[u].pc = "count" => sending'[u].number >= sending'[s].id
    BY DEF NumbersGrow
  <2>1. CASE s = t
    BY <1>3, <1>4, <2>1
  <2>2. CASE s # t
    <3>1. sending'[s] = sending[s] /\ \A u \in Sends : sending'[u].pc = "count" => sending'[u] = sending[u]
      BY <1>1, <2>2
    <3> QED BY <3>1 DEF NumbersGrow
  <2> QED BY <2>1, <2>2
<1>6. IdsNew'
  <2>1. ASSUME NEW u \in Lone, sending'[u].pc \in {"send", "append"} PROVE idSeq >= sending'[u].id
    <3>1. u # t /\ sending'[u] = sending[u]
      BY <1>1, <2>1
    <3> QED BY <2>1, <3>1 DEF IdsNew
  <2>2. ASSUME NEW u \in Lone, NEW s \in Lone \ {u}, sending'[s].pc = "answered"
        PROVE  /\ sending'[u].pc = "name" => idSeq > sending'[s].id
               /\ sending'[u].pc \in {"send", "append"} => sending'[u].id > sending'[s].id
               /\ sending'[u].pc = "answered" => sending'[u].id # sending'[s].id
    <3>1. CASE s = t
      <4>1. sending'[u] = sending[u] /\ sending[u].pc \notin {"count", "name", "send", "append"}
        BY <1>1, <1>3, <2>2, <3>1
      <4>2. sending[u].pc = "answered" => sending[t].id > sending[u].id
        BY <2>2, <3>1 DEF IdsNew
      <4> QED BY <1>1, <1>4, <3>1, <4>1, <4>2
    <3>2. CASE u = t
      <4>1. sending'[s] = sending[s] /\ sending[t].id > sending[s].id
        BY <1>1, <2>2, <3>2 DEF IdsNew
      <4> QED BY <1>1, <1>4, <3>2, <4>1
    <3>3. CASE s # t /\ u # t
      <4>1. sending'[s] = sending[s] /\ sending'[u] = sending[u]
        BY <1>1, <3>3
      <4> QED BY <2>2, <4>1 DEF IdsNew
    <3> QED BY <3>1, <3>2, <3>3
  <2> QED BY <2>1, <2>2 DEF IdsNew
<1> QED BY <1>5, <1>6

\* A step that leaves the slice alone, and copies it if it copies anything.
LEMMA EntriesFrame ==
    ASSUME NotifyInv, NEW t \in Sends, sending[t].pc # "answered", notifications' = notifications,
           \A s \in Lone' : s \in Lone, \A s \in Sends \ {t} : sending'[s] = sending[s],
           sending'[t].pc = "append" => sending'[t].slice = notifications,
           sending'[t].pc = "answered" => ChannelOf[t] # "in_app"
    PROVE  EntriesAnswered' /\ EntriesKept'
<1> USE DEF NotifyInv
<1>1. /\ notifications \in Seq(Sends) /\ \A j \in DOMAIN notifications : notifications[j] \in Sends
      /\ \A u \in Sends : /\ sending[u].slice \in Seq(Sends)
                          /\ \A j \in DOMAIN sending[u].slice : sending[u].slice[j] \in Sends
  BY DEF NotifyTyped, SendRecord
<1>2. \A s \in Sends : sending[s].pc = "answered" => sending'[s].pc = "answered"
  OBVIOUS
<1>3. \A j \in DOMAIN notifications : sending'[notifications[j]].pc = "answered"
  BY <1>1, <1>2 DEF EntriesAnswered
<1>4. ASSUME NEW u \in Sends, sending'[u].pc = "append"
      PROVE  \A j \in DOMAIN sending'[u].slice : sending'[sending'[u].slice[j]].pc = "answered"
  <2>1. CASE u = t
    BY <1>3, <1>4, <2>1
  <2>2. CASE u # t
    <3>1. sending'[u] = sending[u]
      BY <2>2
    <3> QED BY <1>1, <1>2, <1>4, <3>1 DEF EntriesAnswered
  <2> QED BY <2>1, <2>2
<1>5. ASSUME NEW s \in Lone', sending'[s].pc = "answered", ChannelOf[s] = "in_app"
      PROVE  /\ Once(notifications, s)
             /\ \A u \in Sends : sending'[u].pc = "append" => Once(sending'[u].slice, s)
  <2>1. s \in Lone /\ s # t /\ sending[s].pc = "answered"
    BY <1>5 DEF Lone
  <2>2. Once(notifications, s)
    BY <1>5, <2>1 DEF EntriesKept
  <2>3. ASSUME NEW u \in Sends, sending'[u].pc = "append" PROVE Once(sending'[u].slice, s)
    <3>1. CASE u = t
      BY <2>2, <2>3, <3>1
    <3>2. CASE u # t
      <4>1. sending'[u] = sending[u]
        BY <3>2
      <4> QED BY <1>5, <2>1, <2>3, <4>1 DEF EntriesKept
    <3> QED BY <3>1, <3>2
  <2> QED BY <2>2, <2>3
<1> QED BY <1>3, <1>4, <1>5 DEF EntriesAnswered, EntriesKept

\* SendNotification keeps NotifyInv.
LEMMA SendStep == ASSUME NotifyInv, NEW t \in Sends, SendNotification(t) PROVE NotifyInv'
<1> USE DEF NotifyInv
<1>1. sending[t].pc = "new" /\ idSeq' = idSeq /\ notifications' = notifications /\ idSeq \in Nat
  BY DEF SendNotification, NotifyTyped
<1>2. CASE ChannelOf[t] \in {"in_app", "email", "push"}
  <2>1. /\ sending' = [sending EXCEPT ![t].pc = "count", ![t].number = idSeq]
        /\ overlapped' = overlapped \cup UnderWay \cup (IF UnderWay = {} THEN {} ELSE {t})
    BY <1>2 DEF SendNotification
  <2>2. /\ sending'[t].pc = "count" /\ sending'[t].number = idSeq
        /\ \A s \in Sends \ {t} : sending'[s] = sending[s]
    BY <2>1 DEF NotifyTyped, SendRecord
  <2>3. NotifyTyped'
    <3>1. [sending[t] EXCEPT !.pc = "count", !.number = idSeq] \in SendRecord
      BY <1>1 DEF NotifyTyped, SendRecord
    <3>2. sending' = [sending EXCEPT ![t] = [sending[t] EXCEPT !.pc = "count", !.number = idSeq]]
      BY <2>1 DEF NotifyTyped
    <3> QED BY <1>1, <2>1, <3>1, <3>2 DEF NotifyTyped, UnderWay
  <2>4. UnderWay' = UnderWay \cup {t} /\ overlapped \subseteq overlapped' /\ Lone' \subseteq Lone
    BY <2>1, <2>2 DEF UnderWay, Lone
  <2>5. AloneNow'
    BY <2>1, <2>4 DEF AloneNow
  <2>6. EntriesAnswered' /\ EntriesKept'
    BY <1>1, <2>2, <2>4, EntriesFrame
  <2>8. \A s \in Lone' : sending'[s].pc = "answered" => sending[s].pc = "answered" /\ sending'[s] = sending[s] /\ s \in Lone
    BY <2>2, <2>4 DEF Lone
  <2>9. NumbersGrow'
    BY <1>1, <2>2, <2>4, <2>8 DEF NumbersGrow, Lone
  <2>10. IdsNew'
    BY <1>1, <2>2, <2>4 DEF IdsNew, Lone
  <2> QED BY <2>3, <2>5, <2>6, <2>9, <2>10
<1>3. CASE ChannelOf[t] \notin {"in_app", "email", "push"}
  <2>1. sending' = [sending EXCEPT ![t].pc = "refused"] /\ overlapped' = overlapped
    BY <1>3 DEF SendNotification
  <2>2. sending'[t].pc = "refused" /\ \A s \in Sends \ {t} : sending'[s] = sending[s]
    BY <2>1 DEF NotifyTyped, SendRecord
  <2>3. NotifyTyped'
    BY <1>1, <2>1 DEF NotifyTyped, SendRecord
  <2>4. UnderWay' = UnderWay /\ Lone' = Lone
    BY <1>1, <2>1, <2>2 DEF UnderWay, Lone
  <2>5. AloneNow'
    BY <2>1, <2>4 DEF AloneNow
  <2>6. EntriesAnswered' /\ EntriesKept'
    BY <1>1, <2>2, <2>4, EntriesFrame
  <2>7. NumbersGrow'
    BY <1>1, <2>2, <2>4 DEF NumbersGrow, Lone
  <2>8. IdsNew'
    BY <1>1, <2>2, <2>4 DEF IdsNew, Lone
  <2> QED BY <2>3, <2>5, <2>6, <2>7, <2>8
<1> QED BY <1>2, <1>3

\* StoreSeq keeps NotifyInv.
LEMMA StoreSeqStep == ASSUME NotifyInv, NEW t \in Sends, StoreSeq(t) PROVE NotifyInv'
<1> USE DEF NotifyInv
<1>1. /\ sending[t].pc = "count" /\ idSeq' = sending[t].number + 1
      /\ sending' = [sending EXCEPT ![t].pc = "name"]
      /\ notifications' = notifications /\ overlapped' = overlapped
  BY DEF StoreSeq
<1>2. /\ sending'[t].pc = "name" /\ sending[t].number \in Nat
      /\ \A s \in Sends \ {t} : sending'[s] = sending[s]
      /\ \A s \in Sends : sending[s].id \in Nat
  BY <1>1 DEF NotifyTyped, SendRecord
<1>3. NotifyTyped'
  <2>1. sending' \in [Sends -> SendRecord]
    BY <1>1 DEF NotifyTyped, SendRecord
  <2> QED BY <1>1, <1>2, <2>1 DEF NotifyTyped
<1>4. UnderWay' = UnderWay /\ t \in UnderWay /\ Lone' = Lone
  BY <1>1, <1>2 DEF UnderWay, Lone
<1>5. AloneNow'
  BY <1>1, <1>4 DEF AloneNow
<1>6. EntriesAnswered' /\ EntriesKept'
  BY <1>1, <1>2, <1>4, EntriesFrame
<1>8. \A s \in Lone : sending'[s].pc = "answered" => s # t /\ sending'[s] = sending[s] /\ idSeq' > sending[s].id
  BY <1>1, <1>2 DEF NumbersGrow, Lone
<1>9. NumbersGrow'
  <2> SUFFICES ASSUME NEW s \in Lone, sending'[s].pc = "answered"
               PROVE  /\ idSeq' >= sending'[s].id
                      /\ \A u \in Sends : sending'[u].pc = "count" => sending'[u].number >= sending'[s].id
    BY <1>4 DEF NumbersGrow
  <2>1. s # t /\ sending'[s] = sending[s] /\ idSeq' > sending[s].id
    BY <1>8
  <2>2. idSeq' >= sending'[s].id
    BY <1>1, <1>2, <2>1 DEF Lone
  <2> QED BY <1>2, <2>1, <2>2 DEF NumbersGrow
<1>10. IdsNew'
  <2>1. ASSUME NEW u \in Lone, u # t PROVE sending'[u] = sending[u] /\ sending[u].pc \notin {"count", "name", "send", "append"}
    <3>1. sending'[u] = sending[u] /\ u \notin overlapped /\ u \in Sends
      BY <1>2, <2>1 DEF Lone
    <3>2. u \notin UnderWay
      BY <1>4, <2>1, <3>1 DEF AloneNow
    <3> QED BY <3>1, <3>2 DEF UnderWay
  <2> QED BY <1>2, <1>4, <1>8, <2>1 DEF IdsNew
<1> QED BY <1>3, <1>5, <1>6, <1>9, <1>10

\* MakeNotification keeps NotifyInv.
LEMMA MakeStep == ASSUME NotifyInv, NEW t \in Sends, MakeNotification(t) PROVE NotifyInv'
<1> USE DEF NotifyInv
<1>1. /\ sending[t].pc = "name" /\ sending' = [sending EXCEPT ![t].pc = "send", ![t].id = idSeq]
      /\ idSeq' = idSeq /\ notifications' = notifications /\ overlapped' = overlapped /\ idSeq \in Nat
  BY DEF MakeNotification, NotifyTyped
<1>2. /\ sending'[t].pc = "send" /\ sending'[t].id = idSeq
      /\ \A s \in Sends \ {t} : sending'[s] = sending[s]
  BY <1>1 DEF NotifyTyped, SendRecord
<1>3. NotifyTyped'
  <2>1. [sending[t] EXCEPT !.pc = "send", !.id = idSeq] \in SendRecord
    BY <1>1 DEF NotifyTyped, SendRecord
  <2>2. sending' = [sending EXCEPT ![t] = [sending[t] EXCEPT !.pc = "send", !.id = idSeq]]
    BY <1>1 DEF NotifyTyped
  <2> QED BY <1>1, <2>1, <2>2 DEF NotifyTyped
<1>4. UnderWay' = UnderWay /\ Lone' = Lone
  BY <1>1, <1>2 DEF UnderWay, Lone
<1>5. AloneNow'
  BY <1>1, <1>4 DEF AloneNow
<1>6. EntriesAnswered' /\ EntriesKept'
  BY <1>1, <1>2, <1>4, EntriesFrame
<1>7. NumbersGrow'
  <2> SUFFICES ASSUME NEW s \in Lone, sending'[s].pc = "answered"
               PROVE  /\ idSeq >= sending'[s].id
                      /\ \A u \in Sends : sending'[u].pc = "count" => sending'[u].number >= sending'[s].id
    BY <1>1, <1>4 DEF NumbersGrow
  <2>1. sending'[s] = sending[s] /\ \A u \in Sends : sending'[u].pc = "count" => sending'[u] = sending[u]
    BY <1>2 DEF Lone
  <2> QED BY <2>1 DEF NumbersGrow
<1>8. IdsNew'
  <2>1. ASSUME NEW s \in Lone, s # t PROVE sending'[s] = sending[s]
    BY <1>2, <2>1 DEF Lone
  <2>2. t \in Lone => \A s \in Lone \ {t} : sending[s].pc = "answered" => idSeq > sending[s].id
    BY <1>1 DEF IdsNew
  <2>3. t \in Lone => \A s \in Lone \ {t} : sending[s].pc \notin {"send", "append", "name"}
    <3> SUFFICES ASSUME t \in Lone, NEW s \in Lone \ {t} PROVE s \notin UnderWay
      BY DEF UnderWay, Lone
    <3>1. t \in UnderWay /\ t \notin overlapped
      BY <1>1 DEF UnderWay, Lone
    <3> QED BY <3>1 DEF AloneNow
  <2>4. ASSUME NEW u \in Lone, sending'[u].pc \in {"send", "append"} PROVE idSeq >= sending'[u].id
    <3>1. CASE u = t
      BY <1>1, <1>2, <3>1
    <3>2. CASE u # t
      <4>1. sending'[u] = sending[u]
        BY <2>1, <3>2
      <4> QED BY <2>4, <4>1 DEF IdsNew
    <3> QED BY <3>1, <3>2
  <2>5. ASSUME NEW u \in Lone, NEW s \in Lone \ {u}, sending'[s].pc = "answered"
        PROVE  /\ sending'[u].pc = "name" => idSeq > sending'[s].id
               /\ sending'[u].pc \in {"send", "append"} => sending'[u].id > sending'[s].id
               /\ sending'[u].pc = "answered" => sending'[u].id # sending'[s].id
    <3>1. s # t /\ sending'[s] = sending[s]
      BY <1>2, <2>1, <2>5
    <3>2. CASE u = t
      BY <1>2, <2>2, <2>5, <3>1, <3>2
    <3>3. CASE u # t
      <4>1. sending'[u] = sending[u]
        BY <2>1, <3>3
      <4> QED BY <2>5, <3>1, <4>1 DEF IdsNew
    <3> QED BY <3>2, <3>3
  <2>6. Lone' = Lone /\ idSeq' = idSeq
    BY <1>1, <1>4
  <2> QED BY <2>4, <2>5, <2>6 DEF IdsNew
<1> QED BY <1>3, <1>5, <1>6, <1>7, <1>8

\* DispatchToSender keeps NotifyInv.
LEMMA DispatchStep1 == ASSUME NotifyInv, NEW t \in Sends, DispatchToSender(t) PROVE NotifyInv'
<1> USE DEF NotifyInv
<1>1. sending[t].pc = "send" /\ idSeq' = idSeq /\ notifications' = notifications /\ overlapped' = overlapped /\ idSeq \in Nat
  BY DEF DispatchToSender, NotifyTyped
<1>2. t \in UnderWay /\ (t \in Lone => UnderWay = {t})
  BY <1>1 DEF UnderWay, AloneNow, Lone
<1>3. CASE ChannelOf[t] = "in_app"
  <2>1. sending' = [sending EXCEPT ![t].pc = "append", ![t].status = "delivered", ![t].slice = notifications]
    BY <1>3 DEF DispatchToSender
  <2>2. /\ sending'[t].pc = "append" /\ sending'[t].slice = notifications /\ sending'[t].id = sending[t].id
        /\ \A s \in Sends \ {t} : sending'[s] = sending[s]
    BY <2>1 DEF NotifyTyped, SendRecord
  <2>3. NotifyTyped'
    <3>1. [sending[t] EXCEPT !.pc = "append", !.status = "delivered", !.slice = notifications] \in SendRecord
      BY <1>1 DEF NotifyTyped, SendRecord
    <3>2. sending' = [sending EXCEPT ![t] = [sending[t] EXCEPT !.pc = "append", !.status = "delivered", !.slice = notifications]]
      BY <2>1 DEF NotifyTyped
    <3> QED BY <1>1, <3>1, <3>2 DEF NotifyTyped
  <2>4. UnderWay' = UnderWay /\ Lone' = Lone
    BY <1>1, <2>2 DEF UnderWay, Lone
  <2>5. AloneNow'
    BY <1>1, <2>4 DEF AloneNow
  <2>7. EntriesAnswered' /\ EntriesKept'
    BY <1>1, <2>2, <2>4, EntriesFrame
  <2>8. NumbersGrow'
    BY <1>1, <2>2, <2>4 DEF NumbersGrow, Lone
  <2>9. IdsNew'
    BY <1>1, <2>2, <2>4 DEF IdsNew, Lone
  <2> QED BY <2>3, <2>5, <2>7, <2>8, <2>9
<1>4. CASE ChannelOf[t] # "in_app"
  <2>1. sending' = [sending EXCEPT ![t].pc = "answered", ![t].status = "sent"]
    BY <1>4 DEF DispatchToSender
  <2>2. /\ sending'[t].pc = "answered" /\ sending'[t].id = sending[t].id
        /\ \A s \in Sends \ {t} : sending'[s] = sending[s]
    BY <2>1 DEF NotifyTyped, SendRecord
  <2>3. NotifyTyped'
    BY ZenonT(60), <1>1, <2>1 DEF NotifyTyped, SendRecord
  <2>4. UnderWay' = UnderWay \ {t} /\ Lone' = Lone
    BY <1>1, <2>2 DEF UnderWay, Lone
  <2>5. AloneNow'
    BY <1>1, <1>2, <2>4 DEF AloneNow
  <2>7. EntriesAnswered' /\ EntriesKept'
    BY <1>1, <1>4, <2>2, <2>4, EntriesFrame
  <2>9. NumbersGrow' /\ IdsNew'
    BY <1>1, <2>2, <2>4, LoneAnswers
  <2> QED BY <2>3, <2>5, <2>7, <2>9
<1> QED BY <1>3, <1>4

\* Save keeps NotifyInv.
LEMMA SaveStep == ASSUME NotifyInv, NEW t \in Sends, Save(t) PROVE NotifyInv'
<1> USE DEF NotifyInv
<1> DEFINE q == sending[t].slice
<1>1. /\ sending[t].pc = "append" /\ notifications' = Append(q, t)
      /\ sending' = [sending EXCEPT ![t].pc = "answered"]
      /\ idSeq' = idSeq /\ overlapped' = overlapped /\ idSeq \in Nat
  BY DEF Save, NotifyTyped
<1>2. t \in UnderWay /\ (t \in Lone => UnderWay = {t})
  BY <1>1 DEF UnderWay, AloneNow, Lone
<1>3. /\ sending'[t].pc = "answered" /\ sending'[t].id = sending[t].id
      /\ \A s \in Sends \ {t} : sending'[s] = sending[s]
  BY <1>1 DEF NotifyTyped, SendRecord
<1>4. q \in Seq(Sends) /\ \A j \in DOMAIN q : q[j] \in Sends /\ sending[q[j]].pc = "answered"
  BY <1>1 DEF NotifyTyped, SendRecord, EntriesAnswered
<1> HIDE DEF q
<1>5. \A j \in DOMAIN q : q[j] # t
  BY <1>1, <1>4
<1>6. /\ notifications' \in Seq(Sends)
      /\ \A s \in Sends \ {t} : Once(q, s) => Once(notifications', s)
      /\ Once(notifications', t)
      /\ \A j \in DOMAIN notifications' : notifications'[j] = t \/ \E k \in DOMAIN q : notifications'[j] = q[k]
  BY <1>1, <1>4, <1>5, OnceMore
<1>7. NotifyTyped'
  BY <1>1, <1>6 DEF NotifyTyped, SendRecord
<1>8. UnderWay' = UnderWay \ {t} /\ Lone' = Lone
  BY <1>1, <1>3 DEF UnderWay, Lone
<1>9. AloneNow'
  BY <1>1, <1>2, <1>8 DEF AloneNow
<1>10. \A s \in Sends : sending[s].pc = "answered" => sending'[s].pc = "answered"
  BY <1>1, <1>3
<1>11. EntriesAnswered'
  <2>1. \A j \in DOMAIN notifications' : sending'[notifications'[j]].pc = "answered"
    BY <1>3, <1>4, <1>6, <1>10
  <2>2. ASSUME NEW u \in Sends, sending'[u].pc = "append"
        PROVE  \A j \in DOMAIN sending'[u].slice : sending'[sending'[u].slice[j]].pc = "answered"
    <3>1. sending'[u] = sending[u] /\ sending[u].slice \in Seq(Sends)
      BY <1>3, <2>2 DEF NotifyTyped, SendRecord
    <3> QED BY <1>10, <2>2, <3>1 DEF EntriesAnswered
  <2> QED BY <2>1, <2>2 DEF EntriesAnswered
<1>12. EntriesKept'
  <2> SUFFICES ASSUME NEW s \in Lone, sending'[s].pc = "answered", ChannelOf[s] = "in_app"
               PROVE  /\ Once(notifications', s)
                      /\ \A u \in Sends : sending'[u].pc = "append" => Once(sending'[u].slice, s)
    BY <1>8 DEF EntriesKept
  <2>1. CASE s = t
    <3>1. \A u \in Sends : sending'[u].pc # "append"
      BY <1>2, <1>8, <2>1 DEF UnderWay
    <3> QED BY <1>6, <2>1, <3>1
  <2>2. CASE s # t
    <3>1. sending[s].pc = "answered" /\ Once(q, s)
      BY <1>1, <1>3, <2>2 DEF EntriesKept, Lone, q
    <3>2. \A u \in Sends : sending'[u].pc = "append" => sending'[u] = sending[u]
      BY <1>3
    <3> QED BY <1>6, <2>2, <3>1, <3>2 DEF EntriesKept, Lone
  <2> QED BY <2>1, <2>2
<1>13. NumbersGrow' /\ IdsNew'
  BY <1>1, <1>3, <1>8, LoneAnswers
<1> QED BY <1>7, <1>9, <1>11, <1>12, <1>13

\* A request that ran alone keeps its entry and its id: NotificationsKept.
THEOREM NotificationsStand == NotifySpec => [](NotifyTypeOK /\ NotificationsKept)
<1>1. NotifyInv /\ [NotifyNext]_notifyVars => NotifyInv'
  <2> SUFFICES ASSUME NotifyInv, [NotifyNext]_notifyVars PROVE NotifyInv'
    OBVIOUS
  <2>1. CASE UNCHANGED notifyVars
    BY <2>1 DEF notifyVars, NotifyInv, NotifyTyped, AloneNow, UnderWay, EntriesAnswered, EntriesKept, NumbersGrow, IdsNew, Lone
  <2> QED
    BY <2>1, SendStep, StoreSeqStep, MakeStep, DispatchStep1, SaveStep DEF NotifyNext
<1>2. NotifyInv => NotifyTypeOK /\ NotificationsKept
  <2> SUFFICES ASSUME NotifyInv PROVE NotifyTypeOK /\ NotificationsKept
    OBVIOUS
  <2>1. NotifyTypeOK
    BY DEF NotifyInv, NotifyTyped, SendRecord, NotifyTypeOK, Range
  <2>2. ASSUME NEW s \in Sends, sending[s].pc = "answered", s \notin overlapped, ChannelOf[s] = "in_app"
        PROVE  \E i \in GetByUser(UserOf[s]) \cap NotificationsById(sending[s].id) :
                  \A j \in DOMAIN notifications : notifications[j] = s <=> j = i
    BY <2>2 DEF NotifyInv, EntriesKept, Lone, Once, GetByUser, NotificationsById
  <2>3. NotificationsKept
    BY <2>2 DEF NotifyInv, IdsNew, Lone, NotificationsKept
  <2> QED BY <2>1, <2>3
<1> QED
  BY NotifyInitially, <1>1, <1>2, PTL DEF NotifySpec

-----------------------------------------------------------------------------
(* The services of MCServices: a behaviour of all is one of each.           *)

Actives == {"tracking", "chat", "promo", "limiter", "snowflake", "breaker", "pricing", "eta",
            "geo", "search", "forecast", "links", "keyvalue", "metrics", "feed", "drive", "videos", "notify"}

\* The composition is a behaviour of the tracking and the chat services.
LEMMA RealtimeRuns == ServicesSpec => TrackingSpec /\ ChatSpec
<1>1. ServicesInit => TrackingInit /\ ChatInit
  BY DEF ServicesInit
<1>2. [ServicesNext]_servicesVars => [TrackingNext]_trackingVars /\ [ChatNext]_chatVars
  BY DEF ServicesNext, RealtimeStep, TradeStep, RecordStep, servicesVars, realtimeVars
<1> QED BY <1>1, <1>2, PTL DEF ServicesSpec, TrackingSpec, ChatSpec

\* The composition is a behaviour of the services around an order.
LEMMA TradeRuns ==
    ServicesSpec => /\ PromoSpec /\ LimiterSpec /\ SnowSpec /\ BreakerSpec /\ PricingSpec
                    /\ EtaSpec /\ GeoSpec /\ SearchSpec /\ ForecastSpec
<1>1. ServicesInit => /\ PromoInit /\ LimiterInit /\ SnowInit /\ BreakerInit /\ PricingInit
                      /\ EtaInit /\ GeoInit /\ SearchInit /\ ForecastInit
  BY DEF ServicesInit
<1>2. [ServicesNext]_servicesVars =>
          /\ [PromoNext]_promoVars /\ [LimiterNext]_limiterVars /\ [SnowNext]_snowVars
          /\ [BreakerNext]_breakerVars /\ [PricingNext]_pricingVars /\ [EtaNext]_etaVars
          /\ [GeoNext]_geoVars /\ [SearchNext]_searchVars /\ [ForecastNext]_forecastVars
  BY DEF ServicesNext, RealtimeStep, TradeStep, RecordStep, servicesVars, tradeVars
<1> QED
  BY <1>1, <1>2, PTL DEF ServicesSpec, PromoSpec, LimiterSpec, SnowSpec, BreakerSpec, PricingSpec,
     EtaSpec, GeoSpec, SearchSpec, ForecastSpec

\* The composition is a behaviour of the services that keep records.
LEMMA RecordsRun ==
    ServicesSpec => /\ LinksSpec /\ KeyValueSpec /\ MetricsSpec /\ FeedSpec
                    /\ DriveSpec /\ VideosSpec /\ NotifySpec
<1>1. ServicesInit => /\ LinksInit /\ KeyValueInit /\ MetricsInit /\ FeedInit
                      /\ DriveInit /\ VideosInit /\ NotifyInit
  BY DEF ServicesInit
<1>2. [ServicesNext]_servicesVars =>
          /\ [LinksNext]_linkVars /\ [KeyValueNext]_shards /\ [MetricsNext]_metricsVars /\ [FeedNext]_feedVars
          /\ [DriveNext]_driveVars /\ [VideosNext]_videoVars /\ [NotifyNext]_notifyVars
  BY DEF ServicesNext, RealtimeStep, TradeStep, RecordStep, servicesVars, recordVars
<1> QED
  BY <1>1, <1>2, PTL DEF ServicesSpec, LinksSpec, KeyValueSpec, MetricsSpec, FeedSpec, DriveSpec,
     VideosSpec, NotifySpec

\* What a store was told is there when it is asked: RecordsAgree.
THEOREM RecordsStand == ServicesSpec => []RecordsAgree
  BY RecordsRun, LinksKept, KeysKept, CountsKept, TimelinesKept, DriveKept, ViewsKept,
     NotificationsStand, PTL DEF RecordsAgree

\* What a customer is shown stands while others write what it was computed from: QuotesStand.
THEOREM QuotesHold == ServicesSpec => []QuotesStand
<1>1. ServicesSpec => [](LockedFeeStands /\ EtaSticks /\ CacheReaches /\ ForecastsAgree /\ PagesMissNothing)
  BY TradeRuns, FeesStand, EstimatesStand, HubsReach, ForecastsStand, PagesStand, PTL
<1>2. LockedFeeStands /\ EtaSticks /\ CacheReaches /\ ForecastsAgree /\ PagesMissNothing => QuotesStand
  BY DEF QuotesStand
<1> QED BY <1>1, <1>2, PTL

\* The one that moves is one of the services.
LEMMA OneIsActive == ServicesSpec => [](active \in Actives)
<1>1. ServicesInit => active \in Actives
  BY DEF ServicesInit, Actives
<1>2. active \in Actives /\ [ServicesNext]_servicesVars => (active \in Actives)'
  BY DEF ServicesNext, RealtimeStep, TradeStep, RecordStep, servicesVars
<1> QED BY <1>1, <1>2, PTL DEF ServicesSpec

\* Every service's variables have their types: ServicesTypeOK.
THEOREM ServicesTypeCorrect == ServicesSpec => []ServicesTypeOK
<1> DEFINE Typed == /\ TrackingTypeOK /\ ChatTypeOK /\ PromoTypeOK /\ LimiterTypeOK /\ SnowTypeOK
                    /\ BreakerTypeOK /\ ClosedIsHealthy /\ PricingTypeOK /\ EtaTypeOK /\ GeoTypeOK
                    /\ SearchTypeOK /\ ForecastTypeOK /\ LinksTypeOK /\ KeyValueTypeOK /\ MetricsTypeOK
                    /\ FeedTypeOK /\ DriveTypeOK /\ VideosTypeOK /\ NotifyTypeOK
<1>1. SnowInv => SnowTypeOK
  BY DEF SnowInv
<1>2. ServicesSpec => []Typed
  BY <1>1, RealtimeRuns, TradeRuns, RecordsRun, TrackingTypeCorrect, ChatTypeCorrect, PromoTypeCorrect,
     RatesHold, SnowInvariant, BreakerHealthy, FeesStand, EstimatesStand, HubsReach, PagesStand,
     ForecastsStand, LinksKept, KeysKept, CountsKept, TimelinesKept, DriveKept, ViewsKept,
     NotificationsStand, PTL
<1>3. Typed /\ active \in Actives => ServicesTypeOK
  BY DEF ServicesTypeOK, Actives
<1> QED BY <1>2, <1>3, OneIsActive, PTL
=============================================================================
