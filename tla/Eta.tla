--------------------------------- MODULE Eta ---------------------------------
(***************************************************************************)
(* services/eta-service: an estimate is composed of three parts, each the    *)
(* estimator's or, when the five seconds are over first, a fallback, and is  *)
(* kept in Redis for thirty seconds so that the customer is told the same    *)
(* again.  Times are whole seconds, multipliers are in percent.              *)
(***************************************************************************)
EXTENDS Integers, Sequences

CONSTANTS
    EtaOrders,      \* orders, each with a route of its own
    EtaCalls,       \* calls of Calculate
    OrderOf,        \* OrderOf[c]
    Inputs,         \* Inputs[o]: items, queue depth, drivers, base travel time
    Noises,         \* outcomes of the normal noise of picking, rounded
    Observed,       \* multipliers that deliveries may show
    MaxObserved,    \* bound: deliveries observed within 15 minutes
    MaxRedisFaults, MaxLapsed   \* bounds: failed reads and writes of a response, keys that expire

ASSUME EtaAssumption ==
    /\ OrderOf \in [EtaCalls -> EtaOrders]
    /\ Inputs \in [EtaOrders -> [items : Nat, depth : Nat, drivers : Nat, travel : Nat]]
    /\ Noises \subseteq Int /\ Observed \subseteq Int
    /\ MaxObserved \in Nat /\ MaxRedisFaults \in Nat /\ MaxLapsed \in Nat

\* model.DefaultConfig
HubOverheadFixed == 60
PickingPerItemMean == 30
ConservativeBufferPct == 20
MaxETA == 1800
QueueBaseLatency == 5
DispatchLatency == 2
\* The clamp of the multiplier.
MinMultiplier == 50
MaxMultiplier == 300

NoQuote == [p50 |-> 0, p80 |-> 0, p95 |-> 0]

VARIABLES
    sticky,         \* sticky[o]: the cached response, NoQuote when there is none
    route,          \* route[o]: the cached multiplier, 0 when there is none
    observations,   \* observations[o]: the multipliers of the last 15 minutes, oldest first
    eta,            \* eta[c]: a call: pc, multiplier, response, round
    redisFaults, etaLapses,
    round,          \* history: round[o]: how often a response of o has expired
    disputed        \* history: orders two calls computed at once, or Redis failed for

etaVars == <<sticky, route, observations, eta, redisFaults, etaLapses, round, disputed>>

EtaInit ==
    /\ sticky = [o \in EtaOrders |-> NoQuote] /\ route = [o \in EtaOrders |-> 0]
    /\ observations = [o \in EtaOrders |-> <<>>]
    /\ eta = [c \in EtaCalls |-> [pc |-> "sticky", multiplier |-> 100, response |-> NoQuote, round |-> 0]]
    /\ redisFaults = 0 /\ etaLapses = 0 /\ disputed = {}
    /\ round = [o \in EtaOrders |-> 0]

-----------------------------------------------------------------------------
(* The three estimators and their fallbacks.                                 *)
AtLeast(x, low) == IF x < low THEN low ELSE x
AtMost(x, high) == IF x > high THEN high ELSE x
Clamp(x) == AtMost(AtLeast(x, MinMultiplier), MaxMultiplier)

\* The load is a tenth of the items; what it has above 1 makes noise louder by 30%.
Picking(in, noise) ==
    LET loud == IF in.items > 10 THEN (noise * (100 + 3 * (in.items - 10))) \div 100 ELSE noise
    IN  AtLeast(HubOverheadFixed + in.items * PickingPerItemMean + loud, HubOverheadFixed)
FallbackPicking(in) == HubOverheadFixed + in.items * PickingPerItemMean

\* Depth over 1.5 drivers each, but no less than one driver and one round.
QueueWait(in) ==
    AtLeast((2 * in.depth * DispatchLatency) \div AtLeast(3 * in.drivers, 2), DispatchLatency)

PickingTimes(in) == {Picking(in, n) : n \in Noises} \cup {FallbackPicking(in)}
QueueTimes(in) == {QueueWait(in), QueueBaseLatency}
TravelTimes(in, multiplier) == {(in.travel * multiplier) \div 100, in.travel}

Quote(base) ==
    [p50 |-> AtMost(base, MaxETA),
     p80 |-> AtMost((base * (100 + ConservativeBufferPct)) \div 100, MaxETA),
     p95 |-> AtMost((base * (100 + 2 * ConservativeBufferPct)) \div 100, MaxETA)]

-----------------------------------------------------------------------------
(* Calculate.                                                                *)
Computing(o) ==
    {c \in EtaCalls : OrderOf[c] = o /\ eta[c].pc \in {"route", "observe", "remember", "compose", "store"}}

Fault(o) ==
    /\ redisFaults < MaxRedisFaults /\ redisFaults' = redisFaults + 1
    /\ disputed' = disputed \cup {o}

\* A response that cannot be read is computed anew.
GetSticky(c) ==
    LET o == OrderOf[c] IN
    /\ eta[c].pc = "sticky"
    /\ \/ /\ sticky[o] # NoQuote
          /\ eta' = [eta EXCEPT ![c].pc = "answered", ![c].response = sticky[o], ![c].round = round[o]]
          /\ UNCHANGED <<redisFaults, disputed>>
       \/ /\ sticky[o] = NoQuote
          /\ eta' = [eta EXCEPT ![c].pc = "route"]
          /\ disputed' = IF Computing(o) = {} THEN disputed ELSE disputed \cup {o}
          /\ UNCHANGED redisFaults
       \/ Fault(o) /\ eta' = [eta EXCEPT ![c].pc = "route"]
    /\ UNCHANGED <<sticky, route, observations, etaLapses, round>>

\* Any command of the travel estimate may fail, or be cancelled with the deadline; a
\* multiplier that cannot be read is computed anew.
GetRoute(c) ==
    LET o == OrderOf[c] IN
    /\ eta[c].pc = "route"
    /\ \/ /\ route[o] # 0
          /\ eta' = [eta EXCEPT ![c].pc = "compose", ![c].multiplier = Clamp(route[o])]
       \/ eta' = [eta EXCEPT ![c].pc = "observe"]
    /\ UNCHANGED <<sticky, route, observations, redisFaults, etaLapses, round, disputed>>

\* The mean of what was observed, or 1 when nothing was or the read failed.
SumObserved(s) == LET sum[i \in 0 .. Len(s)] == IF i = 0 THEN 0 ELSE sum[i - 1] + s[i] IN sum[Len(s)]
Mean(s) == IF s = <<>> THEN 100 ELSE Clamp(SumObserved(s) \div Len(s))

TrafficMultiplier(c) ==
    /\ eta[c].pc = "observe"
    /\ \E m \in {Mean(observations[OrderOf[c]]), 100} :
          eta' = [eta EXCEPT ![c].pc = "remember", ![c].multiplier = m]
    /\ UNCHANGED <<sticky, route, observations, redisFaults, etaLapses, round, disputed>>

\* It is cached either way, unless that fails.
SetRoute(c) ==
    /\ eta[c].pc = "remember"
    /\ route' \in {route, [route EXCEPT ![OrderOf[c]] = eta[c].multiplier]}
    /\ eta' = [eta EXCEPT ![c].pc = "compose"]
    /\ UNCHANGED <<sticky, observations, redisFaults, etaLapses, round, disputed>>

\* Each part is the estimator's, or the fallback when the deadline has passed.
Compose(c) ==
    /\ eta[c].pc = "compose"
    /\ LET in == Inputs[OrderOf[c]] IN
       \E p \in PickingTimes(in), q \in QueueTimes(in), t \in TravelTimes(in, eta[c].multiplier) :
          eta' = [eta EXCEPT ![c].pc = "store", ![c].response = Quote(p + q + t)]
    /\ UNCHANGED <<sticky, route, observations, redisFaults, etaLapses, round, disputed>>

\* A response that cannot be stored is answered all the same.
SetSticky(c) ==
    LET o == OrderOf[c] IN
    /\ eta[c].pc = "store"
    /\ eta' = [eta EXCEPT ![c].pc = "answered", ![c].round = round[o]]
    /\ \/ /\ sticky' = [sticky EXCEPT ![o] = eta[c].response]
          /\ UNCHANGED <<redisFaults, disputed>>
       \/ Fault(o) /\ UNCHANGED sticky
    /\ UNCHANGED <<route, observations, etaLapses, round>>

\* The thirty seconds of a response are over, or the five minutes of a multiplier.
StickyLapses(o) ==
    /\ sticky[o] # NoQuote /\ etaLapses < MaxLapsed
    /\ sticky' = [sticky EXCEPT ![o] = NoQuote] /\ round' = [round EXCEPT ![o] = @ + 1]
    /\ etaLapses' = etaLapses + 1
    /\ UNCHANGED <<route, observations, eta, redisFaults, disputed>>

RouteLapses(o) ==
    /\ route[o] # 0 /\ etaLapses < MaxLapsed /\ etaLapses' = etaLapses + 1
    /\ route' = [route EXCEPT ![o] = 0]
    /\ UNCHANGED <<sticky, observations, eta, redisFaults, round, disputed>>

\* "Called externally when actual delivery times are known".
Observe(o, m) ==
    /\ Len(observations[o]) < MaxObserved
    /\ observations' = [observations EXCEPT ![o] = Append(@, m)]
    /\ UNCHANGED <<sticky, route, eta, redisFaults, etaLapses, round, disputed>>

\* The oldest is 15 minutes old.
ObservationLeaves(o) ==
    /\ observations[o] # <<>>
    /\ observations' = [observations EXCEPT ![o] = Tail(@)]
    /\ UNCHANGED <<sticky, route, eta, redisFaults, etaLapses, round, disputed>>

EtaNext ==
    \/ \E c \in EtaCalls :
          \/ GetSticky(c) \/ GetRoute(c) \/ TrafficMultiplier(c) \/ SetRoute(c)
          \/ Compose(c) \/ SetSticky(c)
    \/ \E o \in EtaOrders :
          \/ StickyLapses(o) \/ RouteLapses(o) \/ ObservationLeaves(o)
          \/ \E m \in Observed : Observe(o, m)

EtaSpec == EtaInit /\ [][EtaNext]_etaVars

-----------------------------------------------------------------------------
EtaTypeOK ==
    /\ \A o \in EtaOrders : /\ sticky[o].p95 \in 0 .. MaxETA /\ route[o] \in {0} \cup MinMultiplier .. MaxMultiplier
                           /\ Len(observations[o]) <= MaxObserved /\ round[o] \in 0 .. MaxLapsed
    /\ \A c \in EtaCalls : /\ eta[c].pc \in {"sticky", "route", "observe", "remember", "compose", "store", "answered"}
                          /\ eta[c].multiplier \in MinMultiplier .. MaxMultiplier /\ eta[c].round \in 0 .. MaxLapsed
    /\ redisFaults \in 0 .. MaxRedisFaults /\ etaLapses \in 0 .. MaxLapsed /\ disputed \subseteq EtaOrders

\* Until it expires, an order's estimate stands: every call is told the same, unless two
\* computed it at once or Redis failed; and its percentiles are in order, up to MaxETA.
EtaSticks ==
    \A c, d \in EtaCalls : eta[c].pc = "answered" =>
        /\ eta[c].response.p50 <= eta[c].response.p80 /\ eta[c].response.p80 <= eta[c].response.p95
        /\ eta[c].response.p50 > 0 /\ eta[c].response.p95 <= MaxETA
        /\ eta[d].pc = "answered" /\ OrderOf[c] = OrderOf[d] /\ eta[c].round = eta[d].round
              /\ OrderOf[c] \notin disputed => eta[c].response = eta[d].response
=============================================================================
