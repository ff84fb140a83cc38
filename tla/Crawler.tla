------------------------------ MODULE Crawler -------------------------------
(***************************************************************************)
(* services/web-crawler, one job: workers take urls from a bounded queue,   *)
(* put pages into a bounded channel of results, and offer the links they    *)
(* find; after two seconds the queue is closed, and the job ends when the   *)
(* workers have.  Sending on the closed queue panics, which ends the        *)
(* process.  A page is what fetch and extractLinks make of it: any links of *)
(* its document, or none when the request fails.                            *)
(***************************************************************************)
EXTENDS Integers, Sequences, FiniteSets, SequencesExt

CONSTANTS
    Urls, Seed,
    LinksOf,    \* LinksOf[u]: the http links of the document at u
    MaxPages,   \* after the handler's clamp to 1 .. 100
    Workers,    \* three
    NoUrl

ASSUME CrawlerAssumption ==
    /\ Seed \in Urls /\ NoUrl \notin Urls
    /\ LinksOf \in [Urls -> SUBSET Urls]
    /\ MaxPages \in 1 .. 100

VARIABLES
    status,     \* CrawlResult.Status
    visited,    \* visitedURLs
    queue,      \* channel of capacity 2 * MaxPages
    results,    \* channel of capacity MaxPages, of urls
    worker,     \* worker[w]: its pc, its url, and the links it has yet to offer
    queueShut,  \* close(queue) was called
    panicked,   \* a worker sent on the closed queue
    pages       \* CrawlResult.Pages

crawlVars == <<status, visited, queue, results, worker, queueShut, panicked, pages>>

CrawlInit ==
    /\ status = "pending" /\ visited = {} /\ queue = <<>> /\ results = <<>>
    /\ worker = [w \in Workers |-> [pc |-> "idle", url |-> NoUrl, todo |-> {}]]
    /\ queueShut = FALSE /\ panicked = FALSE /\ pages = <<>>

BeginCrawl ==
    /\ status = "pending" /\ status' = "running"
    /\ queue' = <<Seed>> /\ visited' = {Seed}
    /\ UNCHANGED <<results, worker, queueShut, panicked, pages>>

Go(w, from, to) == worker[w].pc = from /\ worker' = [worker EXCEPT ![w].pc = to]

\* The loop over the queue ends when it is closed and empty.
TakeUrl(w) ==
    /\ status = "running"
    /\ \/ /\ queue # <<>> /\ queue' = Tail(queue) /\ worker[w].pc = "idle"
          /\ worker' = [worker EXCEPT ![w] = [pc |-> "fetch", url |-> Head(queue), todo |-> {}]]
       \/ queue = <<>> /\ queueShut /\ Go(w, "idle", "done") /\ UNCHANGED queue
    /\ UNCHANGED <<status, visited, results, queueShut, panicked, pages>>

\* The links of a page with status 200, no link of any other answer.
Fetch(w) ==
    /\ worker[w].pc = "fetch"
    /\ \E links \in {LinksOf[worker[w].url], {}} :
          worker' = [worker EXCEPT ![w].pc = "store", ![w].todo = links]
    /\ UNCHANGED <<status, visited, queue, results, queueShut, panicked, pages>>

StorePage_Short(w) ==
    /\ Len(results) < MaxPages - 1 /\ Go(w, "store", "links")
    /\ results' = Append(results, worker[w].url)
    /\ UNCHANGED <<status, visited, queue, queueShut, panicked, pages>>

StorePage(w) ==
    /\ Len(results) < MaxPages /\ Go(w, "store", "links")
    /\ results' = Append(results, worker[w].url)
    /\ UNCHANGED <<status, visited, queue, queueShut, panicked, pages>>

TryVisit(w, u) ==
    /\ worker[w].pc = "links" /\ u \in worker[w].todo
    /\ worker' = [worker EXCEPT ![w] = [pc |-> IF u \in visited THEN "links" ELSE "offer",
                    url |-> IF u \in visited THEN @.url ELSE u, todo |-> @.todo \ {u}]]
    /\ visited' = visited \cup {u}
    /\ UNCHANGED <<status, queue, results, queueShut, panicked, pages>>

\* The visited set is counted again after the insertion.
OfferLink(w) ==
    /\ Go(w, "offer", "links")
    /\ IF Cardinality(visited) <= MaxPages
       THEN /\ queue' = IF ~queueShut /\ Len(queue) < 2 * MaxPages THEN Append(queue, worker[w].url) ELSE queue
            /\ panicked' = (panicked \/ queueShut)
       ELSE UNCHANGED <<queue, panicked>>
    /\ UNCHANGED <<status, visited, results, queueShut, pages>>

NextUrl(w) ==
    /\ worker[w].todo = {} /\ Go(w, "links", "idle")
    /\ UNCHANGED <<status, visited, queue, results, queueShut, panicked, pages>>

CloseQueue ==
    /\ status = "running" /\ ~queueShut /\ queueShut' = TRUE
    /\ UNCHANGED <<status, visited, queue, results, worker, panicked, pages>>

FinishCrawl ==
    /\ status = "running" /\ queueShut /\ \A w \in Workers : worker[w].pc = "done"
    /\ status' = "completed" /\ pages' = results /\ results' = <<>>
    /\ UNCHANGED <<visited, queue, worker, queueShut, panicked>>

CrawlNext ==
    /\ ~panicked
    /\ \/ BeginCrawl \/ CloseQueue \/ FinishCrawl
       \/ \E w \in Workers :
             \/ TakeUrl(w) \/ Fetch(w) \/ StorePage(w) \/ OfferLink(w) \/ NextUrl(w)
             \/ \E u \in Urls : TryVisit(w, u)

CrawlSpec == CrawlInit /\ [][CrawlNext]_crawlVars

-----------------------------------------------------------------------------
CrawlTypeOK ==
    /\ status \in {"pending", "running", "completed"}
    /\ visited \subseteq Urls
    /\ Len(queue) <= 2 * MaxPages /\ Len(results) <= MaxPages
    /\ worker \in [Workers -> [pc : {"idle", "fetch", "store", "links", "offer", "done"},
                               url : Urls \cup {NoUrl}, todo : SUBSET Urls]]
    /\ queueShut \in BOOLEAN /\ panicked \in BOOLEAN
    /\ Range(pages) \subseteq Urls

\* No worker ever waits for room: because a link is offered only while no more than
\* MaxPages urls are known, the pages stored, in hand and queued fit the channel of
\* results, which is read only after the workers are done.  No page is stored twice.
PagesFit ==
    /\ Len(queue) + Len(results) + Len(pages)
          + Cardinality({w \in Workers : worker[w].pc \in {"fetch", "store"}}) <= MaxPages
    /\ IsInjective(results \o queue \o pages)

-----------------------------------------------------------------------------
(* What the documentation says and the code does not do                      *)

\* crawler.go:132 and web-crawler.md:227 say that closing the queue signals the
\* workers to stop.  No worker dies of it.
CloseIsSafe == ~panicked
=============================================================================
