------------------------------ MODULE MCWorkers ------------------------------
(***************************************************************************)
(* Three services whose promise is that work ends, in one run: `active` is  *)
(* chosen once, and only the service it names moves.  In dispatch orders    *)
(* compete for two drivers: either an accept races one reject, or two       *)
(* rejects race each other.  The checkout saga has the instance of          *)
(* MCCheckoutSaga.  The constants are in the .cfg.                          *)
(***************************************************************************)
EXTENDS Dispatch, Crawler, MCCheckoutSaga

VARIABLE active

workersVars == <<vars, crawlVars, sagaVars, active>>

\* Where dispatch stands still it has one initial state.
WorkersInit ==
    /\ active \in {"accepts", "rejects", "crawler", "saga"} /\ Init /\ CrawlInit /\ SagaInit
    /\ active \in {"crawler", "saga"} => \A d \in Drivers : driver[d] = "IDLE"

\* What is asked of dispatch: one reject, the accepts and a stop, or rejects alone.
Requested ==
    IF active = "accepts" THEN Cardinality({r \in Rejects : reject'[r].pc # "new"}) <= 1
    ELSE UNCHANGED <<accept, stopped>>

\* Rejects are alike, and so are deliveries of the webhook: r1 and w1 come first.
InTurn == /\ reject'[r2].pc # "new" => reject'[r1].pc # "new"
          /\ hpc'[w2] # "new" => hpc'[w1] # "new"

Dispatching == active \in {"accepts", "rejects"} /\ UNCHANGED <<crawlVars, sagaVars, active>>
DispatchStep == Dispatching /\ Next /\ Requested /\ InTurn
PipelineStep == Dispatching /\ Pipeline
CrawlStep == active = "crawler" /\ CrawlNext /\ UNCHANGED <<vars, sagaVars, active>>
Saga == active = "saga" /\ UNCHANGED <<vars, crawlVars, active>>
SagaStep == Saga /\ SagaNext /\ InTurn
SagaRuns == Saga /\ Run

WorkersNext == DispatchStep \/ CrawlStep \/ SagaStep

\* The goroutines of the pipeline are scheduled, and its window's timer fires; the workers
\* of a crawl are scheduled, and its two seconds pass; requests and deliveries that the
\* checkout service has begun go on, and so does its consumer.
WorkersSpec ==
    /\ WorkersInit /\ [][WorkersNext]_workersVars
    /\ WF_workersVars(PipelineStep) /\ WF_workersVars(CrawlStep) /\ WF_workersVars(SagaRuns)

\* The channels of dispatch and the crawler hold no more than their capacities, a retry never
\* goes beyond one attempt more than MaxAttempts, and no more pages are counted than a job may have.
WorkersTypeOK == TypeOK /\ CrawlTypeOK /\ PagesFit

\* Once the crawler is what runs, its job is completed unless the process dies of a send
\* on the closed queue (CloseIsSafe): nobody waits for ever for a link, for room or for
\* another worker.
CrawlEndsUnlessPanic == []<>(active = "crawler" => status = "completed" \/ panicked)

\* A small web with a cycle, a hub and links back to the seed.
Web == [u \in Urls |->
          CASE u = "u1" -> {"u2", "u3"} [] u = "u2" -> {"u1", "u3", "u4"}
            [] u = "u3" -> {"u2", "u4"} [] OTHER -> {"u1"}]
=============================================================================
