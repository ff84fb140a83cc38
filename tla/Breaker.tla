------------------------------ MODULE Breaker -------------------------------
(***************************************************************************)
(* pkg/kit/circuitbreaker: calls run without the lock, between a look at    *)
(* the state and a report of the outcome.  No service uses the breaker yet. *)
(***************************************************************************)
EXTENDS Integers, FiniteSets

CONSTANTS
    Callers,
    Threshold,      \* failures that open the circuit
    MaxFailed       \* bound: failures counted in a row

ASSUME BreakerAssumption == IsFiniteSet(Callers) /\ Threshold \in Nat \ {0} /\ MaxFailed \in Nat

VARIABLES
    circuit,        \* "closed", "open" or "halfOpen"
    failed,         \* failures
    cooled,         \* the reset timeout has passed since lastFailure
    caller          \* caller[c]: "out", "in", or "probe" when it was let in half-open

breakerVars == <<circuit, failed, cooled, caller>>

BreakerInit ==
    /\ circuit = "closed" /\ failed = 0 /\ cooled = FALSE
    /\ caller = [c \in Callers |-> "out"]

CoolDown == ~cooled /\ cooled' = TRUE /\ UNCHANGED <<circuit, failed, caller>>

\* Refused while open, which changes nothing; else fn is called.
Enter(c) ==
    /\ caller[c] = "out" /\ (circuit = "open" => cooled)
    /\ circuit' = IF circuit = "open" THEN "halfOpen" ELSE circuit
    /\ caller' = [caller EXCEPT ![c] = IF circuit = "closed" THEN "in" ELSE "probe"]
    /\ UNCHANGED <<failed, cooled>>

Fail(c) ==
    /\ caller[c] # "out" /\ caller' = [caller EXCEPT ![c] = "out"]
    /\ failed < MaxFailed /\ failed' = failed + 1 /\ cooled' = FALSE
    /\ circuit' = IF failed + 1 >= Threshold THEN "open" ELSE circuit

Succeed(c) ==
    /\ caller[c] # "out" /\ caller' = [caller EXCEPT ![c] = "out"]
    /\ failed' = 0
    /\ circuit' = IF circuit = "halfOpen" THEN "closed" ELSE circuit
    /\ UNCHANGED cooled

BreakerNext ==
    \/ CoolDown
    \/ \E c \in Callers : Enter(c) \/ Fail(c) \/ Succeed(c)

BreakerSpec == BreakerInit /\ [][BreakerNext]_breakerVars

-----------------------------------------------------------------------------
BreakerTypeOK ==
    /\ circuit \in {"closed", "open", "halfOpen"} /\ failed \in Nat
    /\ cooled \in BOOLEAN /\ caller \in [Callers -> {"out", "in", "probe"}]

\* A closed circuit is healthy: it has counted fewer failures than the threshold, also
\* when calls let in before it opened report after it closed.
ClosedIsHealthy == circuit = "closed" => failed < Threshold
=============================================================================
