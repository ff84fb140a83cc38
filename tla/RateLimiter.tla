---------------------------- MODULE RateLimiter -----------------------------
(***************************************************************************)
(* services/rate-limiter, as the middleware of pkg/kit uses it: one key and *)
(* one of the three algorithms, each atomic under its lock.  The clock does *)
(* not go back.  Tokens are counted in parts of 1/Window, exactly; the code *)
(* uses float64.                                                            *)
(***************************************************************************)
EXTENDS Integers, Sequences, FiniteSets, Functions

CONSTANTS
    Limit, Window,
    LastTime        \* bound: the clock stops here

ASSUME LimiterAssumption == Limit \in Nat /\ Window \in Nat \ {0} /\ LastTime \in Nat

VARIABLES
    algorithm,      \* which of the three the middleware was given
    clock,
    fixed,          \* fixedEntry of the key; window -1 when there is none
    sliding,        \* slidingEntry.timestamps, and whether the entry exists
    bucket,         \* tokens, the time of the last refill, -1 when there is no bucket
    granted         \* history: times of the requests that were let through

limiterVars == <<algorithm, clock, fixed, sliding, bucket, granted>>

LimiterInit ==
    /\ algorithm \in {"fixed", "sliding", "bucket"} /\ clock = 0
    /\ fixed = [count |-> 0, window |-> -1]
    /\ sliding = [exists |-> FALSE, times |-> <<>>]
    /\ bucket = [tokens |-> 0, refilled |-> -1]
    /\ granted = <<>>

TimePasses ==
    /\ clock < LastTime /\ clock' = clock + 1
    /\ UNCHANGED <<algorithm, fixed, sliding, bucket, granted>>

Grant(yes) == granted' = IF yes THEN Append(granted, clock) ELSE granted

\* The first request of a window is let through whatever the limit.
AllowFixed ==
    LET current == (clock \div Window) * Window
        fresh == fixed.window # current
        yes == fresh \/ fixed.count < Limit
    IN  /\ algorithm = "fixed"
        /\ fixed' = IF fresh THEN [count |-> 1, window |-> current]
                    ELSE [fixed EXCEPT !.count = IF yes THEN @ + 1 ELSE @]
        /\ Grant(yes)
        /\ UNCHANGED <<algorithm, clock, sliding, bucket>>

\* Those of `times` after the cutoff: the last ones, for the clock does not go back.
After(times, cutoff) ==
    SubSeq(times, Cardinality({i \in DOMAIN times : times[i] <= cutoff}) + 1, Len(times))

AllowSliding_KeepsNewest ==
    LET cutoff == clock - Window
        valid == After(sliding.times, cutoff)
        yes == ~sliding.exists \/ Len(valid) < Limit
    IN  /\ algorithm = "sliding"
        /\ sliding' = [exists |-> TRUE, times |-> IF yes THEN <<clock>> ELSE valid]
        /\ Grant(yes)
        /\ UNCHANGED <<algorithm, clock, fixed, bucket>>

\* The first request of a key is let through whatever the limit.
AllowSliding ==
    LET cutoff == clock - Window
        valid == After(sliding.times, cutoff)
        yes == ~sliding.exists \/ Len(valid) < Limit
    IN  /\ algorithm = "sliding"
        /\ sliding' = [exists |-> TRUE, times |-> IF yes THEN Append(valid, clock) ELSE valid]
        /\ Grant(yes)
        /\ UNCHANGED <<algorithm, clock, fixed, bucket>>

Capped(tokens) == IF tokens > Limit * Window THEN Limit * Window ELSE tokens

AllowBucket ==
    LET filled == Capped(bucket.tokens + (clock - bucket.refilled) * Limit)
        yes == bucket.refilled = -1 \/ filled >= Window
    IN  /\ algorithm = "bucket"
        /\ bucket' = [refilled |-> clock,
                      tokens |-> IF bucket.refilled = -1 THEN (Limit - 1) * Window
                                 ELSE IF yes THEN filled - Window ELSE filled]
        /\ Grant(yes)
        /\ UNCHANGED <<algorithm, clock, fixed, sliding>>

LimiterNext == TimePasses \/ AllowFixed \/ AllowSliding \/ AllowBucket

LimiterSpec == LimiterInit /\ [][LimiterNext]_limiterVars

-----------------------------------------------------------------------------
LimiterTypeOK ==
    /\ algorithm \in {"fixed", "sliding", "bucket"} /\ clock \in 0 .. LastTime
    /\ fixed \in [count : Nat, window : -1 .. LastTime]
    /\ sliding.exists \in BOOLEAN /\ Range(sliding.times) \subseteq 0 .. LastTime
    /\ bucket.tokens \in Int /\ bucket.tokens <= Limit * Window /\ bucket.refilled \in -1 .. LastTime
    /\ Range(granted) \subseteq 0 .. LastTime

Let == IF Limit = 0 THEN 1 ELSE Limit
Between(s, t) == Cardinality({i \in DOMAIN granted : s <= granted[i] /\ granted[i] <= t})

\* Over any stretch of time, and not just over the window the code looks at: the sliding
\* window lets through no more than the limit in any Window, the fixed one no more than
\* twice that, and the bucket no more than a full bucket and what flows into it meanwhile.
\* A limit of zero lets the first request of a key, or of a window, through.
WindowLimits ==
    \A s \in 0 .. clock : \A t \in s .. clock :
        /\ algorithm = "sliding" /\ t - s < Window => Between(s, t) <= Let
        /\ algorithm = "fixed" /\ t - s < Window => Between(s, t) <= 2 * Let
        /\ algorithm = "bucket" => Between(s, t) * Window <= Let * Window + (t - s) * Limit
=============================================================================
