----------------------------- MODULE Snowflake ------------------------------
(***************************************************************************)
(* services/unique-id-generator: one generator per process, whose number of *)
(* worker comes from the environment, and is 0 when that is unset or not a   *)
(* number.  The clock of a process may step back; a restart forgets the last *)
(* stamp.                                                                    *)
(***************************************************************************)
EXTENDS Integers, FiniteSets

CONSTANTS
    Processes,
    WorkerOf,       \* WorkerOf[p]: WORKER_ID of process p
    MaxWorker,      \* 1023
    MaxSequence,    \* 4095
    LastStamp,      \* bound: the clock stops here
    MaxRestarts, MaxStepsBack

ASSUME SnowflakeAssumption ==
    /\ MaxWorker \in Nat /\ MaxSequence \in Nat /\ LastStamp \in Nat \ {0}
    /\ MaxRestarts \in Nat /\ MaxStepsBack \in Nat
    /\ WorkerOf \in [Processes -> 0 .. MaxWorker]       \* New refuses any other

VARIABLES
    wall,           \* wall[p]: milliseconds since the epoch of the ids, at process p
    gen,            \* gen[p]: lastStamp, sequence, whether a call waits in the loop, and
                    \* (history) the ids made in this life
    life,           \* life[p]: restarts of process p
    issued,         \* history: ids handed out, and where they come from
    stepsBack

snowVars == <<wall, gen, life, issued, stepsBack>>

SnowInit ==
    /\ wall = [p \in Processes |-> 1]
    /\ gen = [p \in Processes |-> [last |-> 0, seq |-> 0, waits |-> FALSE, made |-> 0]]
    /\ life = [p \in Processes |-> 0]
    /\ issued = {} /\ stepsBack = 0

TickWall(p) ==
    /\ wall[p] < LastStamp /\ wall' = [wall EXCEPT ![p] = @ + 1]
    /\ UNCHANGED <<gen, life, issued, stepsBack>>

StepBack(p) ==
    /\ wall[p] > 1 /\ stepsBack < MaxStepsBack /\ stepsBack' = stepsBack + 1
    /\ wall' = [wall EXCEPT ![p] = @ - 1]
    /\ UNCHANGED <<gen, life, issued>>

Restart(p) ==
    /\ life[p] < MaxRestarts /\ life' = [life EXCEPT ![p] = @ + 1]
    /\ gen' = [gen EXCEPT ![p] = [last |-> 0, seq |-> 0, waits |-> FALSE, made |-> 0]]
    /\ UNCHANGED <<wall, issued, stepsBack>>

\* The shifts and the or of the three parts.
IdOf(stamp, worker, seq) == (stamp * (MaxWorker + 1) + worker) * (MaxSequence + 1) + seq

Issue(p, stamp, seq) ==
    /\ gen' = [gen EXCEPT ![p] = [last |-> stamp, seq |-> seq, waits |-> FALSE, made |-> gen[p].made + 1]]
    /\ issued' = issued \cup {[by |-> p, life |-> life[p], nth |-> gen[p].made + 1, stamp |-> stamp, seq |-> seq,
                               id |-> IdOf(stamp, WorkerOf[p], seq)]}

\* Next, which holds the lock throughout; an earlier clock is an error and changes nothing.
NextSameStamp_NoWait(p) ==
    LET seq == (gen[p].seq + 1) % (MaxSequence + 1) IN
    /\ ~gen[p].waits /\ wall[p] = gen[p].last
    /\ Issue(p, wall[p], seq)
    /\ UNCHANGED <<wall, life, stepsBack>>

NextSameStamp(p) ==
    LET seq == (gen[p].seq + 1) % (MaxSequence + 1) IN
    /\ ~gen[p].waits /\ wall[p] = gen[p].last
    /\ IF seq = 0 THEN gen' = [gen EXCEPT ![p].waits = TRUE, ![p].seq = 0] /\ UNCHANGED issued
       ELSE Issue(p, wall[p], seq)
    /\ UNCHANGED <<wall, life, stepsBack>>

NextLaterStamp(p) ==
    /\ ~gen[p].waits /\ wall[p] > gen[p].last
    /\ Issue(p, wall[p], 0)
    /\ UNCHANGED <<wall, life, stepsBack>>

\* The loop ends when the clock is past the last stamp.
EndOfWait(p) ==
    /\ gen[p].waits /\ wall[p] > gen[p].last
    /\ Issue(p, wall[p], 0)
    /\ UNCHANGED <<wall, life, stepsBack>>

SnowNext ==
    \E p \in Processes :
        \/ TickWall(p) \/ StepBack(p) \/ Restart(p)
        \/ NextSameStamp(p) \/ NextLaterStamp(p) \/ EndOfWait(p)

SnowSpec == SnowInit /\ [][SnowNext]_snowVars

-----------------------------------------------------------------------------
Ids == [by : Processes, life : 0 .. MaxRestarts, nth : Nat, stamp : 1 .. LastStamp, seq : 0 .. MaxSequence, id : Nat]

SnowTypeOK ==
    /\ wall \in [Processes -> 1 .. LastStamp]
    /\ gen \in [Processes -> [last : 0 .. LastStamp, seq : 0 .. MaxSequence, waits : BOOLEAN, made : Nat]]
    /\ life \in [Processes -> 0 .. MaxRestarts]
    /\ issued \subseteq Ids
    /\ stepsBack \in 0 .. MaxStepsBack

\* Ids grow: within one life of a process each is greater than those before it, whatever
\* the clock does.  Two are equal only when two processes share a number, which the
\* default of 0 invites, or when their process restarted in between.
IdsUnique ==
    \A x, y \in issued : x # y =>
        IF x.by = y.by /\ x.life = y.life THEN x.nth < y.nth => x.id < y.id
        ELSE x.id = y.id => WorkerOf[x.by] = WorkerOf[y.by]
=============================================================================
