------------------------------ MODULE Pricing -------------------------------
(***************************************************************************)
(* services/pricing-service: a fee is looked up in the lock of its order,   *)
(* or computed from three signals, the surge of the area and the elasticity *)
(* cap, and then locked.  Nothing holds from the lookup to the lock.        *)
(* Load ratios and multipliers are thousandths.  The slope of the           *)
(* regression, which fetches fail, and the distance are choices.            *)
(***************************************************************************)
EXTENDS Integers, FiniteSets, Sequences, SequencesExt

CONSTANTS
    PricedOrders, FeeCalls,
    AreaDrivers, AreaPending,   \* the tables of the fetchers at the one area
    Hours,              \* hours of the day at which a run may happen
    DistanceFees,
    DecayMinutes,       \* 15
    MaxPoints,          \* 100
    LastMinute, MaxLapses       \* bounds: minutes that pass, locks that expire or fail

ASSUME PricingAssumption ==
    /\ PricedOrders # {}
    /\ AreaDrivers \in Nat \ {0} /\ AreaPending \in Nat \ {0}
    /\ Hours \subseteq 0 .. 23 /\ DistanceFees \subseteq Nat
    /\ DecayMinutes \in Nat \ {0} /\ MaxPoints \in Nat \ {0}
    /\ LastMinute \in Nat /\ MaxLapses \in Nat

BaseFee == 5000
MinFee == 5000
MaxFee == 75000
MaxTotalMult == 5000
MaxSurge == 3000
WeatherMult == 12         \* tenths
PeakMult == 13
NoEntry == [load |-> -1, mult |-> 0, at |-> 0]

VARIABLES
    hour, minute,       \* hour stays: a run is shorter than that
    locked,         \* pricelock:<order>, 0 when there is none
    lastLoad,       \* SurgeDetector.lastLoad of the area, NoEntry when there is none
    points,         \* the number of points the elasticity tracker holds
    fee,            \* fee[c]: a call's pc, order, load, surge and answer
    lapses,
    contested       \* history: orders with two calls at once, or a lock that lapsed

pricingVars == <<hour, minute, locked, lastLoad, points, fee, lapses, contested>>

PricingInit ==
    /\ hour \in Hours /\ minute = 0 /\ lapses = 0 /\ contested = {}
    /\ locked = [o \in PricedOrders |-> 0]
    /\ lastLoad = NoEntry /\ points = 0
    /\ fee = [c \in FeeCalls |-> [pc |-> "new", order |-> CHOOSE o \in PricedOrders : TRUE,
                                  load |-> 0, surge |-> 0, answer |-> 0]]

MinuteEnds ==
    /\ minute < LastMinute /\ minute' = minute + 1
    /\ UNCHANGED <<hour, locked, lastLoad, points, fee, lapses, contested>>

LockExpires(o) ==
    /\ locked[o] # 0 /\ lapses < MaxLapses /\ lapses' = lapses + 1
    /\ locked' = [locked EXCEPT ![o] = 0] /\ contested' = contested \cup {o}
    /\ UNCHANGED <<hour, minute, lastLoad, points, fee>>

-----------------------------------------------------------------------------
FeeStep(c, from, to) == fee[c].pc = from /\ fee' = [fee EXCEPT ![c].pc = to]
Busy(o) == {c \in FeeCalls : fee[c].order = o /\ fee[c].pc \notin {"new", "answered"}}
Contest(o) == contested' = IF Busy(o) = {} THEN contested ELSE contested \cup {o}

LookUpLock_Never(c, o) ==
    /\ fee[c].pc = "new" /\ Contest(o)
    /\ fee' = [fee EXCEPT ![c].pc = "collect", ![c].order = o]
    /\ UNCHANGED <<hour, minute, locked, lastLoad, points, lapses>>

\* Step 1; a lookup that fails is treated as a lock that is not there.
LookUpLock(c, o) ==
    /\ fee[c].pc = "new"
    /\ \/ /\ locked[o] # 0
          /\ fee' = [fee EXCEPT ![c].pc = "answered", ![c].order = o, ![c].answer = locked[o]]
          /\ UNCHANGED <<lapses, contested>>
       \/ /\ locked[o] = 0
          /\ fee' = [fee EXCEPT ![c].pc = "collect", ![c].order = o]
          /\ Contest(o) /\ UNCHANGED lapses
       \/ /\ lapses < MaxLapses /\ lapses' = lapses + 1 /\ contested' = contested \cup {o}
          /\ fee' = [fee EXCEPT ![c].pc = "collect", ![c].order = o]
    /\ UNCHANGED <<hour, minute, locked, lastLoad, points>>

IsPeakHour == hour \in 7 .. 9 \cup 12 .. 14 \cup 18 .. 21

FetchDrivers ==
    LET base == IF hour < 6 \/ hour >= 22 THEN (AreaDrivers * 3) \div 10
                ELSE IF hour < 8 \/ hour >= 17 THEN (AreaDrivers * 7) \div 10 ELSE AreaDrivers
    IN  IF base < 1 THEN 1 ELSE base

\* The least and the most that the jitter gives.
FetchPendingOrders ==
    LET base == IF hour \in 11 .. 13 THEN (AreaPending * 15) \div 10
                ELSE IF hour \in 18 .. 20 THEN (AreaPending * 18) \div 10
                ELSE IF hour < 6 \/ hour >= 22 THEN (AreaPending * 3) \div 10 ELSE AreaPending
    IN  {base, base + (IF base >= 4 THEN base \div 4 ELSE 1) - 1}

\* A signal whose fetch fails is zero; no drivers count as one.
CollectSignals(c) ==
    /\ fee[c].pc = "collect"
    /\ \E drivers \in {FetchDrivers, 1}, pending \in FetchPendingOrders \cup {0} :
          fee' = [fee EXCEPT ![c].pc = "detect", ![c].load = (pending * 1000) \div drivers]
    /\ UNCHANGED <<hour, minute, locked, lastLoad, points, lapses, contested>>

CascadeMultiplier(load) ==
    CASE load >= 5000 -> 3000
      [] load >= 3500 /\ load < 5000 -> 2000
      [] load >= 2000 /\ load < 3500 -> 1500
      [] load >= 1000 /\ load < 2000 -> 1200
      [] OTHER -> 1000

\* On a falling load the new multiplier counts less the longer ago the last one was.
Adjusted(last, load, now) ==
    LET raw == CascadeMultiplier(load)
        left == IF now - last.at >= DecayMinutes THEN 0 ELSE DecayMinutes - (now - last.at)
        mult == IF last # NoEntry /\ load < last.load
                THEN last.mult + ((raw - last.mult) * left) \div DecayMinutes ELSE raw
    IN  IF mult > MaxSurge THEN MaxSurge ELSE mult

ReadSurge(c) ==
    /\ fee[c].pc = "detect"
    /\ fee' = [fee EXCEPT ![c].pc = "store", ![c].surge = Adjusted(lastLoad, fee[c].load, minute)]
    /\ UNCHANGED <<hour, minute, locked, lastLoad, points, lapses, contested>>

StoreSurge(c) ==
    /\ FeeStep(c, "store", "cap")
    /\ lastLoad' = [load |-> fee[c].load, mult |-> fee[c].surge, at |-> minute]
    /\ UNCHANGED <<hour, minute, locked, points, lapses, contested>>

\* The cap of the measured slope, 5 while there are fewer than two points.
SurgeCaps == IF points < 2 THEN {5000} ELSE {1500, 2000, 3000, 5000}

CapSurge(c) ==
    /\ fee[c].pc = "cap"
    /\ \E cap \in SurgeCaps :
          fee' = [fee EXCEPT ![c].pc = "record", ![c].surge = IF @ > cap THEN cap ELSE @]
    /\ UNCHANGED <<hour, minute, locked, lastLoad, points, lapses, contested>>

RecordPoint(c) ==
    /\ FeeStep(c, "record", "price")
    /\ points' = IF points < MaxPoints THEN points + 1 ELSE MaxPoints
    /\ UNCHANGED <<hour, minute, locked, lastLoad, lapses, contested>>

TotalMult(surge, raining, peak) ==
    LET mult == (surge * (IF raining THEN WeatherMult ELSE 10) * (IF peak THEN PeakMult ELSE 10)) \div 100
    IN  IF mult > MaxTotalMult THEN MaxTotalMult ELSE mult

FinalFee(distFee, mult) ==
    LET sum == ((BaseFee + distFee) * mult) \div 1000
    IN  IF sum < MinFee THEN MinFee ELSE IF sum > MaxFee THEN MaxFee ELSE sum

\* Steps 7 to 11; an error of the lock is ignored.
LockPrice(c) ==
    LET o == fee[c].order IN
    /\ fee[c].pc = "price"
    /\ \E raining \in BOOLEAN, distFee \in DistanceFees :
          fee' = [fee EXCEPT ![c].pc = "answered",
                     ![c].answer = FinalFee(distFee, TotalMult(fee[c].surge, raining, IsPeakHour))]
    /\ \/ locked' = [locked EXCEPT ![o] = fee'[c].answer] /\ UNCHANGED <<lapses, contested>>
       \/ /\ lapses < MaxLapses /\ lapses' = lapses + 1
          /\ contested' = contested \cup {o} /\ UNCHANGED locked
    /\ UNCHANGED <<hour, minute, lastLoad, points>>

PricingNext ==
    \/ MinuteEnds \/ \E o \in PricedOrders : LockExpires(o)
    \/ \E c \in FeeCalls :
          \/ \E o \in PricedOrders : LookUpLock(c, o)
          \/ CollectSignals(c) \/ ReadSurge(c) \/ StoreSurge(c) \/ CapSurge(c) \/ RecordPoint(c) \/ LockPrice(c)

PricingSpec == PricingInit /\ [][PricingNext]_pricingVars

-----------------------------------------------------------------------------
IsFee(f) == f = 0 \/ f \in MinFee .. MaxFee

PricingTypeOK ==
    /\ hour \in Hours /\ minute \in 0 .. LastMinute /\ lapses \in 0 .. MaxLapses
    /\ \A o \in PricedOrders : IsFee(locked[o])
    /\ lastLoad.load \in Int /\ lastLoad.mult \in 0 .. MaxSurge /\ lastLoad.at \in 0 .. LastMinute
    /\ points \in 0 .. MaxPoints
    /\ \A c \in FeeCalls :
          /\ fee[c].pc \in {"new", "collect", "detect", "store", "cap", "record", "price", "answered"}
          /\ fee[c].order \in PricedOrders /\ fee[c].load \in Nat /\ fee[c].surge \in 0 .. MaxSurge
          /\ IsFee(fee[c].answer)
    /\ contested \subseteq PricedOrders

\* A customer is quoted one fee: every answer for an order is the fee that is locked,
\* unless two calls for it overlapped, or its lock expired or was not written or read.
LockedFeeStands ==
    \A c \in FeeCalls : fee[c].pc = "answered" /\ fee[c].order \notin contested =>
        fee[c].answer = locked[fee[c].order]

\* "decayMinutes is the time window over which the multiplier decays to the new level"
\* (surge.go:27): past that window, a falling load gives the new level.
DecayReachesNewLevel ==
    [][\A c \in FeeCalls : ReadSurge(c) /\ minute - lastLoad.at >= DecayMinutes =>
          fee'[c].surge = CascadeMultiplier(fee[c].load)]_pricingVars
=============================================================================
