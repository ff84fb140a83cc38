------------------------------ MODULE Forecast -------------------------------
(***************************************************************************)
(* services/forecasting-service: a run forecasts every pair of a product and *)
(* a hub in goroutines, MaxConcurrency at a time over the run; each stores   *)
(* its forecast and its replenishment in two maps and its error in a ring.   *)
(* The forecast itself (Holt-Winters, or the cold start) is a choice.        *)
(***************************************************************************)
EXTENDS Integers, Sequences, SequencesExt, FiniteSets

CONSTANTS
    Pairs,          \* pairs of a product and a hub
    Runs,           \* calls of RunDailyForecast
    PairsOf,        \* PairsOf[r]: the pairs of a run, in the order they are started; a hub
                    \* that is named twice gives pairs that occur twice
    Actual,         \* Actual[p]: the last day of the history, after imputation
    Forecasts,      \* outcomes of a forecast, per day
    MaxConcurrency, RollingWindow,      \* 20 and 30
    ForecastReaders

ASSUME ForecastAssumption ==
    /\ MaxConcurrency \in Nat \ {0} /\ RollingWindow \in Nat \ {0}
    /\ Pairs # {} /\ PairsOf \in [Runs -> Seq(Pairs)]
    /\ Actual \in [Pairs -> Nat] /\ Forecasts \subseteq Nat

VARIABLES
    started,        \* started[r]: pairs of the run that have a goroutine
    forecaster,         \* forecaster[r][i]: the goroutine of the i-th pair of run r
    resultsMu,      \* the goroutine that holds the lock of the results, or <<>>
    forecasts, replen,    \* per pair: a number that says which store it is of, and the data
    apes,           \* apes[p]: the ring: its cells, pos and size
    lookup,         \* lookup[x]: a GET of a forecast
    recorded        \* history: recorded[p]: the errors that were recorded, oldest first

forecastVars == <<started, forecaster, resultsMu, forecasts, replen, apes, lookup, recorded>>

Goroutines(r) == 1 .. Len(PairsOf[r])
NoForecast == [store |-> 0, daily |-> 0]
NoPriority == ""
NoReplenishment == [store |-> 0, qty |-> 0, priority |-> NoPriority]

ForecastInit ==
    /\ started = [r \in Runs |-> 0] /\ resultsMu = <<>>
    /\ forecaster = [r \in Runs |-> [i \in Goroutines(r) |-> [pc |-> "none", daily |-> 0]]]
    /\ forecasts = [p \in Pairs |-> NoForecast] /\ replen = [p \in Pairs |-> NoReplenishment]
    /\ apes = [p \in Pairs |-> [ring |-> [k \in 0 .. RollingWindow - 1 |-> 0], pos |-> 0, size |-> 0]]
    /\ lookup = [x \in ForecastReaders |-> [pc |-> "forecast", pair |-> CHOOSE p \in Pairs : TRUE,
                                            forecast |-> 0, replenishment |-> 0]]
    /\ recorded = [p \in Pairs |-> <<>>]

-----------------------------------------------------------------------------
(* Replenishment: 3 days' demand and the safety stock of 95% (z = 1.65, a    *)
(* deviation of 30%, the root of 3 days), with 50 on hand and none incoming. *)
MaxReorder == 500
Clipped(x) == IF x < 1 THEN 1 ELSE IF x > MaxReorder THEN MaxReorder ELSE x

CalculateReplenishment(daily) ==
    LET d == IF daily <= 0 THEN 1 ELSE daily
        reorderPoint == 3 * d + (857 * d) \div 1000
    IN  [qty |-> Clipped(reorderPoint - 50 + 1),
         priority |-> IF 50 < d THEN "high" ELSE IF 50 > 5 * d THEN "low" ELSE "normal"]

\* Runs of two zeros or more become the mean of their neighbours that are above zero.
ImputeStockouts(data) ==
    LET zeros(a, b) == \A k \in a .. b : data[k] = 0
        Span(i) == CHOOSE s \in (1 .. i) \X (i .. Len(data)) :
                      /\ zeros(s[1], s[2])
                      /\ s[1] = 1 \/ data[s[1] - 1] # 0
                      /\ s[2] = Len(data) \/ data[s[2] + 1] # 0
        Near(s) == (IF s[1] > 1 THEN <<data[s[1] - 1]>> ELSE <<>>)
                   \o (IF s[2] < Len(data) THEN <<data[s[2] + 1]>> ELSE <<>>)
        Mean(near) == IF near = <<>> THEN 0 ELSE FoldLeft(LAMBDA a, b : a + b, 0, near) \div Len(near)
    IN  IF Len(data) < 3 THEN data
        ELSE [i \in 1 .. Len(data) |->
                 IF data[i] # 0 \/ Span(i)[1] = Span(i)[2] THEN data[i] ELSE Mean(Near(Span(i)))]

-----------------------------------------------------------------------------
(* RunDailyForecast and forecastSingle.                                      *)
Working(r) == {i \in Goroutines(r) : forecaster[r][i].pc \notin {"none", "done"}}

StartPair(r) ==
    /\ started[r] < Len(PairsOf[r]) /\ Cardinality(Working(r)) < MaxConcurrency
    /\ started' = [started EXCEPT ![r] = @ + 1]
    /\ forecaster' = [forecaster EXCEPT ![r][started[r] + 1].pc = "forecast"]
    /\ UNCHANGED <<resultsMu, forecasts, replen, apes, lookup, recorded>>

ComputeForecast(r, i) ==
    /\ forecaster[r][i].pc = "forecast"
    /\ \E f \in Forecasts : forecaster' = [forecaster EXCEPT ![r][i] = [pc |-> "store", daily |-> f]]
    /\ UNCHANGED <<started, resultsMu, forecasts, replen, apes, lookup, recorded>>

StoreResult(r, i) ==
    LET p == PairsOf[r][i] IN
    /\ forecaster[r][i].pc = "store" /\ resultsMu = <<>>
    /\ resultsMu' = <<r, i>>
    /\ forecasts' = [forecasts EXCEPT ![p] = [store |-> @.store + 1, daily |-> forecaster[r][i].daily]]
    /\ forecaster' = [forecaster EXCEPT ![r][i].pc = "replenish"]
    /\ UNCHANGED <<started, replen, apes, lookup, recorded>>

\* The lock of the results is held until the replenishment is stored.
StoreReplenishment(r, i) ==
    LET p == PairsOf[r][i]
        result == CalculateReplenishment(forecaster[r][i].daily)
    IN
    /\ forecaster[r][i].pc = "replenish" /\ resultsMu' = <<>>
    /\ replen' = [replen EXCEPT ![p] = [store |-> forecasts[p].store, qty |-> result.qty, priority |-> result.priority]]
    /\ forecaster' = [forecaster EXCEPT ![r][i].pc = "record"]
    /\ UNCHANGED <<started, forecasts, apes, lookup, recorded>>

\* The absolute error in percent; days without demand are left out.
RecordAccuracy(r, i) ==
    LET p == PairsOf[r][i]
        a == apes[p]
        miss == forecaster[r][i].daily - Actual[p]
        ape == ((IF miss < 0 THEN -miss ELSE miss) * 100) \div Actual[p]
    IN
    /\ forecaster[r][i].pc = "record"
    /\ forecaster' = [forecaster EXCEPT ![r][i].pc = "done"]
    /\ IF Actual[p] = 0 THEN UNCHANGED <<apes, recorded>>
       ELSE /\ apes' = [apes EXCEPT ![p] = [ring |-> [a.ring EXCEPT ![a.pos] = ape],
                                            pos |-> (a.pos + 1) % RollingWindow,
                                            size |-> IF a.size < RollingWindow THEN a.size + 1 ELSE a.size]]
            /\ recorded' = [recorded EXCEPT ![p] = Append(@, ape)]
    /\ UNCHANGED <<started, resultsMu, forecasts, replen, lookup>>

-----------------------------------------------------------------------------
(* The ring, read: the errors in the order of their days, and their means.   *)
DailyMAPE(a) == [k \in 1 .. a.size |-> a.ring[(a.pos - a.size + k - 1 + RollingWindow) % RollingWindow]]

MeanOf(s) == IF s = <<>> THEN 0 ELSE FoldLeft(LAMBDA x, y : x + y, 0, s) \div Len(s)
LastOf(s, n) == SubSeq(s, IF Len(s) > n THEN Len(s) - n + 1 ELSE 1, Len(s))

ComputeStats(a) ==
    [daily |-> DailyMAPE(a), weekly |-> MeanOf(LastOf(DailyMAPE(a), 7)), monthly |-> MeanOf(DailyMAPE(a))]

\* GET /forecast: nothing is found before the first store; then two maps are read in turn.
GetForecast(x, p) ==
    /\ lookup[x].pc = "forecast" /\ resultsMu = <<>> /\ forecasts[p].store > 0
    /\ lookup' = [lookup EXCEPT ![x] = [pc |-> "replenishment", pair |-> p,
                                        forecast |-> forecasts[p].store, replenishment |-> 0]]
    /\ UNCHANGED <<started, forecaster, resultsMu, forecasts, replen, apes, recorded>>

GetReplenishment(x) ==
    /\ lookup[x].pc = "replenishment"
    /\ lookup' = [lookup EXCEPT ![x].pc = "answered", ![x].replenishment = replen[lookup[x].pair].store]
    /\ UNCHANGED <<started, forecaster, resultsMu, forecasts, replen, apes, recorded>>

ForecastNext ==
    \/ \E r \in Runs :
          \/ StartPair(r)
          \/ \E i \in Goroutines(r) :
                ComputeForecast(r, i) \/ StoreResult(r, i) \/ StoreReplenishment(r, i) \/ RecordAccuracy(r, i)
    \/ \E x \in ForecastReaders : GetReplenishment(x) \/ \E p \in Pairs : GetForecast(x, p)

ForecastSpec == ForecastInit /\ [][ForecastNext]_forecastVars

-----------------------------------------------------------------------------
ForecastTypeOK ==
    /\ \A r \in Runs : started[r] \in 0 .. Len(PairsOf[r]) /\ Cardinality(Working(r)) <= MaxConcurrency
    /\ \A p \in Pairs : /\ forecasts[p].daily \in Forecasts \cup {0} /\ replen[p].qty \in 0 .. MaxReorder
                       /\ apes[p].pos \in 0 .. RollingWindow - 1 /\ apes[p].size \in 0 .. RollingWindow
    /\ \A x \in ForecastReaders : lookup[x].pc \in {"forecast", "replenishment", "answered"} /\ lookup[x].pair \in Pairs

\* The statistics are of the errors that were recorded last, as many as the ring holds, in
\* the order they were recorded; and whoever reads a forecast is told of a replenishment
\* that is computed from it or from a later one, never from an earlier one.
ForecastsAgree ==
    /\ \A p \in Pairs : ComputeStats(apes[p]).daily = LastOf(recorded[p], RollingWindow)
    /\ \A p \in Pairs : resultsMu = <<>> => replen[p].store = forecasts[p].store
    /\ \A x \in ForecastReaders : lookup[x].pc = "answered" => lookup[x].replenishment >= lookup[x].forecast
=============================================================================
