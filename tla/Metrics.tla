------------------------------- MODULE Metrics ------------------------------
(***************************************************************************)
(* pkg/kit/middleware/metrics.go: counters and histograms are made at their  *)
(* first use, after a look under the read lock, so that two first uses make  *)
(* two.  Only the count of a histogram is modelled: what is said of one      *)
(* series holds of each of them.                                            *)
(***************************************************************************)
EXTENDS Integers, FiniteSets

CONSTANTS
    Reporters,      \* goroutines that count
    MaxCounts       \* bound: counts that are begun

ASSUME MetricsAssumption == IsFiniteSet(Reporters) /\ MaxCounts \in Nat

VARIABLES
    current,        \* counters[name]: the number of the object, 0 when there is none
    counts,         \* counts[i]: the value of object i; MaxCounts objects at most
    made,           \* the number of objects that were made
    reporter,       \* reporter[r]: the pc of a goroutine and the object it holds
    finished,       \* history: counts that are done
    twins           \* history: a goroutine saw no object while another was making one

metricsVars == <<current, counts, made, reporter, finished, twins>>

MetricsInit ==
    /\ current = 0 /\ made = 0 /\ counts = [i \in 0 .. MaxCounts |-> 0]
    /\ reporter = [r \in Reporters |-> [pc |-> "idle", object |-> 0]]
    /\ finished = 0 /\ twins = FALSE

Creators == {r \in Reporters : reporter[r].pc = "create"}
Begun == finished + Cardinality({r \in Reporters : reporter[r].pc # "idle"})

LookForCounter(r) ==
    /\ reporter[r].pc = "idle" /\ Begun < MaxCounts
    /\ reporter' = [reporter EXCEPT ![r] = [pc |-> IF current = 0 THEN "create" ELSE "add", object |-> current]]
    /\ twins' = (twins \/ (current = 0 /\ Creators # {}))
    /\ UNCHANGED <<current, counts, made, finished>>

\* The lock is taken, but nothing looks whether there is one by now.
CreateCounter(r) ==
    /\ reporter[r].pc = "create"
    /\ made' = made + 1 /\ current' = made + 1
    /\ reporter' = [reporter EXCEPT ![r] = [pc |-> "add", object |-> made + 1]]
    /\ UNCHANGED <<counts, finished, twins>>

AddOne(r) ==
    /\ reporter[r].pc = "add"
    /\ counts' = [counts EXCEPT ![reporter[r].object] = @ + 1]
    /\ finished' = finished + 1
    /\ reporter' = [reporter EXCEPT ![r].pc = "idle"]
    /\ UNCHANGED <<current, made, twins>>

MetricsNext == \E r \in Reporters : LookForCounter(r) \/ CreateCounter(r) \/ AddOne(r)

MetricsSpec == MetricsInit /\ [][MetricsNext]_metricsVars

-----------------------------------------------------------------------------
MetricsTypeOK ==
    /\ current \in 0 .. made /\ made \in 0 .. MaxCounts
    /\ counts \in [0 .. MaxCounts -> Nat]
    /\ reporter \in [Reporters -> [pc : {"idle", "create", "add"}, object : 0 .. MaxCounts]]
    /\ finished \in Nat /\ twins \in BOOLEAN

Get == IF current = 0 THEN 0 ELSE counts[current]

\* A counter shows every count that is done, unless two goroutines began the first one at
\* the same time, when all that was counted before the slower of them stores is lost.
CountsShown == twins \/ Get = finished
=============================================================================
