------------------------------ MODULE Tracking ------------------------------
(***************************************************************************)
(* services/tracking-service, for one driver: read loops of its websocket   *)
(* connections validate and smooth updates and publish them into one pipe   *)
(* per order, whose consumer fans them out to SSE streams.  A reconnect     *)
(* closes the old connection, whose read loop ends later.  What the format, *)
(* staleness and distance checks compute is a choice: a refused update goes *)
(* back to reading.  No code outside tests calls OrderUpdatePipe.Close.     *)
(***************************************************************************)
EXTENDS Integers, Sequences, SequencesExt

CONSTANTS
    Conns,              \* connections the driver makes, one after another or at once
    ConnOrder,          \* ConnOrder[c]: order_id of the connection's URL
    TrackedOrders,
    Streams,            \* SSE streams
    Stamps,             \* timestamps an update may carry
    ThrottleInterval,
    PipeCap, StreamCap, \* buffers: 64 and 32
    MaxEvents,          \* bound: MaxEvents[o] events published for order o
    NoConn

ASSUME TrackingAssumption ==
    /\ ConnOrder \in [Conns -> TrackedOrders] /\ NoConn \notin Conns /\ TrackedOrders # {}
    /\ PipeCap \in Nat \ {0} /\ StreamCap \in Nat \ {0} /\ MaxEvents \in [TrackedOrders -> Nat]
    /\ Stamps \subseteq Nat /\ ThrottleInterval \in Nat

VARIABLES
    conn,           \* conn[c]: where the read loop is, and the update it holds
    open,           \* connections whose socket was not closed by the server
    registered,     \* ConnectionManager.drivers[driver]
    lastUpdate,     \* LocationValidator.lastUpdate[driver], -1 when there is none
    filters,        \* the orders that have a Kalman filter
    pipe,           \* pipe[o]: events of the pipe, each the number of its publication
    published,      \* history: events accepted by each pipe
    stream,         \* stream[s]: its order and whether it is subscribed
    buffer, seen,   \* Subscriber.Events, and what was written to the response
    missed,         \* history: streams that lost an event to a full buffer
    strays          \* history: orders named in an update and not by its connection

sessionVars == <<open, registered, filters, strays>>
fanVars == <<pipe, published, stream, buffer, seen, missed>>
trackingVars == <<conn, sessionVars, lastUpdate, fanVars>>

TrackingInit ==
    /\ conn = [c \in Conns |-> [pc |-> "new", stamp |-> 0, order |-> ConnOrder[c]]]
    /\ open = {} /\ registered = NoConn /\ lastUpdate = -1
    /\ filters = {} /\ strays = {}
    /\ pipe = [o \in TrackedOrders |-> <<>>]
    /\ published = [o \in TrackedOrders |-> 0]
    /\ stream = [s \in Streams |-> [on |-> FALSE, order |-> CHOOSE o \in TrackedOrders : TRUE]]
    /\ buffer = [s \in Streams |-> <<>>] /\ seen = [s \in Streams |-> <<>>]
    /\ missed = {}

Loop(c, from, to) == conn[c].pc = from /\ conn' = [conn EXCEPT ![c].pc = to]
GiveUp(c, from) == conn[c].pc = from /\ conn' = [conn EXCEPT ![c].pc = "read", ![c].stamp = 0]

-----------------------------------------------------------------------------
(* The read loop of a connection.                                            *)

\* Register closes the connection that was registered before.
Connect(c) ==
    /\ Loop(c, "new", "read")
    /\ open' = (open \ {registered}) \cup {c} /\ registered' = c
    /\ UNCHANGED <<lastUpdate, filters, strays, fanVars>>

ReadUpdate(c, stamp, o) ==
    /\ conn[c].pc = "read" /\ c \in open
    /\ published[o] < MaxEvents[o]
    /\ conn' = [conn EXCEPT ![c] = [pc |-> "validate", stamp |-> stamp, order |-> o]]
    /\ strays' = IF o = ConnOrder[c] THEN strays ELSE strays \cup {o}
    /\ UNCHANGED <<open, registered, filters, lastUpdate, fanVars>>

\* Reads lastUpdate under the lock, and gives the lock up.
Throttle(c) ==
    /\ IF lastUpdate # -1 /\ conn[c].stamp - lastUpdate < ThrottleInterval
       THEN GiveUp(c, "validate") ELSE Loop(c, "validate", "record")
    /\ UNCHANGED <<sessionVars, lastUpdate, fanVars>>

\* validateFormat, validateStaleness or validateDuplicate refuses.
Refuse(c) ==
    /\ GiveUp(c, "validate") \/ GiveUp(c, "record")
    /\ UNCHANGED <<sessionVars, lastUpdate, fanVars>>

RecordUpdate(c) ==
    /\ conn[c].pc = "record"
    /\ conn' = [conn EXCEPT ![c].pc = "smooth", ![c].stamp = 0]
    /\ lastUpdate' = conn[c].stamp
    /\ UNCHANGED <<sessionVars, fanVars>>

Smooth(c) ==
    /\ Loop(c, "smooth", "publish")
    /\ filters' = filters \cup {conn[c].order}
    /\ UNCHANGED <<open, registered, strays, lastUpdate, fanVars>>

Subscribed(o) == {s \in Streams : stream[s].on /\ stream[s].order = o}

Publish_Bypass(c) ==
    LET o == conn[c].order IN
    /\ Loop(c, "publish", "read")
    /\ IF Len(pipe[o]) < PipeCap
       THEN pipe' = [pipe EXCEPT ![o] = Append(@, published[o] + 1)] /\ UNCHANGED buffer
       ELSE /\ buffer' = [s \in Streams |-> IF s \in Subscribed(o) THEN Append(buffer[s], published[o] + 1) ELSE buffer[s]]
            /\ UNCHANGED pipe
    /\ published' = [published EXCEPT ![o] = @ + 1]
    /\ UNCHANGED <<sessionVars, lastUpdate, stream, seen, missed>>

\* A full pipe drops the event.
Publish(c) ==
    LET o == conn[c].order IN
    /\ Loop(c, "publish", "read")
    /\ IF Len(pipe[o]) < PipeCap
       THEN /\ pipe' = [pipe EXCEPT ![o] = Append(@, published[o] + 1)]
            /\ published' = [published EXCEPT ![o] = @ + 1]
       ELSE UNCHANGED <<pipe, published>>
    /\ UNCHANGED <<sessionVars, lastUpdate, stream, buffer, seen, missed>>

\* The socket fails, times out after 60 seconds, or was closed by a reconnect.
ReadFails(c) ==
    /\ Loop(c, "read", "unregister") /\ open' = open \ {c}
    /\ UNCHANGED <<registered, filters, strays, lastUpdate, fanVars>>

\* Deletes the entry of the driver, whichever connection it names.
Unregister(c) ==
    /\ Loop(c, "unregister", "removeFilter") /\ registered' = NoConn
    /\ UNCHANGED <<open, filters, strays, lastUpdate, fanVars>>

RemoveFilter_LastNamed(c) ==
    /\ Loop(c, "removeFilter", "ended") /\ filters' = filters \ {conn[c].order}
    /\ UNCHANGED <<open, registered, strays, lastUpdate, fanVars>>

RemoveFilter(c) ==
    /\ Loop(c, "removeFilter", "ended") /\ filters' = filters \ {ConnOrder[c]}
    /\ UNCHANGED <<open, registered, strays, lastUpdate, fanVars>>

-----------------------------------------------------------------------------
(* The consumer of a pipe and the streams.  The pushes to all subscribers    *)
(* happen under the pipe's lock; one that would block is skipped.            *)

Consume(o) ==
    LET full == {s \in Subscribed(o) : Len(buffer[s]) >= StreamCap} IN
    /\ pipe[o] # <<>>
    /\ pipe' = [pipe EXCEPT ![o] = Tail(@)]
    /\ buffer' = [s \in Streams |-> IF s \in Subscribed(o) \ full
                     THEN Append(buffer[s], Head(pipe[o])) ELSE buffer[s]]
    /\ missed' = missed \cup full
    /\ UNCHANGED <<conn, sessionVars, lastUpdate, published, stream, seen>>

Subscribe(s, o) ==
    /\ ~stream[s].on /\ seen[s] = <<>> /\ buffer[s] = <<>>    \* a stream has a fresh id
    /\ stream' = [stream EXCEPT ![s] = [on |-> TRUE, order |-> o]]
    /\ UNCHANGED <<conn, sessionVars, lastUpdate, pipe, published, buffer, seen, missed>>

Stream(s) ==
    /\ stream[s].on /\ buffer[s] # <<>>
    /\ seen' = [seen EXCEPT ![s] = Append(@, Head(buffer[s]))]
    /\ buffer' = [buffer EXCEPT ![s] = Tail(@)]
    /\ UNCHANGED <<conn, sessionVars, lastUpdate, pipe, published, stream, missed>>

Unsubscribe(s) ==
    /\ stream[s].on
    /\ stream' = [stream EXCEPT ![s].on = FALSE]
    /\ UNCHANGED <<conn, sessionVars, lastUpdate, pipe, published, buffer, seen, missed>>

TrackingNext ==
    \/ \E c \in Conns :
          \/ Connect(c)
          \/ \E stamp \in Stamps, o \in TrackedOrders : ReadUpdate(c, stamp, o)
          \/ Throttle(c) \/ Refuse(c) \/ RecordUpdate(c) \/ Smooth(c) \/ Publish(c)
          \/ ReadFails(c) \/ Unregister(c) \/ RemoveFilter(c)
    \/ \E o \in TrackedOrders : Consume(o)
    \/ \E s \in Streams : Stream(s) \/ Unsubscribe(s) \/ \E o \in TrackedOrders : Subscribe(s, o)

TrackingSpec == TrackingInit /\ [][TrackingNext]_trackingVars

-----------------------------------------------------------------------------
TrackingTypeOK ==
    /\ conn \in [Conns -> [pc : {"new", "read", "validate", "record", "smooth", "publish",
                                 "unregister", "removeFilter", "ended"},
                           stamp : Stamps \cup {0}, order : TrackedOrders]]
    /\ open \subseteq Conns /\ registered \in Conns \cup {NoConn}
    /\ lastUpdate \in Stamps \cup {-1}
    /\ filters \subseteq TrackedOrders /\ strays \subseteq TrackedOrders
    /\ \A o \in TrackedOrders : Len(pipe[o]) <= PipeCap
    /\ \A s \in Streams : Len(buffer[s]) <= StreamCap
    /\ missed \subseteq Streams

\* In-order delivery: every stream gets the events of its order in the order the
\* pipe accepted them, none twice, and none left out unless its buffer was full.
DeliveredInOrder ==
    \A s \in Streams :
        LET got == seen[s] \o buffer[s] IN
        \A i \in 1 .. Len(got) - 1 :
            /\ got[i] < got[i + 1]
            /\ s \notin missed => got[i + 1] = got[i] + 1

\* The session state does not leak: when every read loop has ended, no connection
\* is registered, and a filter is left only for an order that an update named
\* against its connection's URL.
SessionsCleanedUp ==
    (\A c \in Conns : conn[c].pc \in {"new", "ended"}) =>
        registered = NoConn /\ filters \subseteq strays
=============================================================================
