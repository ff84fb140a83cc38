------------------------------- MODULE Videos -------------------------------
(***************************************************************************)
(* services/youtube: an upload starts a goroutine that makes the video ready *)
(* a second later; a watcher takes the video, counts a view, and reads the   *)
(* count when its answer is written.                                        *)
(***************************************************************************)
EXTENDS Integers, FiniteSets

CONSTANTS
    Watchers,
    MaxVideos, MaxViews     \* bounds: uploads, views that are begun

ASSUME VideosAssumption == IsFiniteSet(Watchers) /\ MaxVideos \in Nat /\ MaxViews \in Nat

VARIABLES
    uploads,        \* seq: the videos that exist are 1 .. uploads
    video,          \* video[i]: status and view count
    transcoding,    \* videos whose goroutine sleeps
    watcher,        \* watcher[w]: a call of Get
    views           \* history: views[i]: calls that found video i

videoVars == <<uploads, video, transcoding, watcher, views>>

VideosInit ==
    /\ uploads = 0 /\ transcoding = {}
    /\ video = [i \in 1 .. MaxVideos |-> [status |-> "uploading", count |-> 0]]
    /\ watcher = [w \in Watchers |-> [pc |-> "get", id |-> 0, before |-> 0, told |-> 0]]
    /\ views = [i \in 1 .. MaxVideos |-> 0]

Upload ==
    /\ uploads < MaxVideos /\ uploads' = uploads + 1
    /\ transcoding' = transcoding \cup {uploads + 1}
    /\ UNCHANGED <<video, watcher, views>>

Transcode(i) ==
    /\ i \in transcoding /\ transcoding' = transcoding \ {i}
    /\ video' = [video EXCEPT ![i].status = "ready"]
    /\ UNCHANGED <<uploads, watcher, views>>

\* A video that is not there is an error, and nothing is counted.
GetVideo(w, i) ==
    /\ watcher[w].pc = "get" /\ i \in 1 .. uploads /\ views[i] < MaxViews
    /\ watcher' = [watcher EXCEPT ![w] = [pc |-> "count", id |-> i, before |-> video[i].count, told |-> 0]]
    /\ views' = [views EXCEPT ![i] = @ + 1]
    /\ UNCHANGED <<uploads, video, transcoding>>

IncrementView(w) ==
    /\ watcher[w].pc = "count"
    /\ video' = [video EXCEPT ![watcher[w].id].count = @ + 1]
    /\ watcher' = [watcher EXCEPT ![w].pc = "answer"]
    /\ UNCHANGED <<uploads, transcoding, views>>

AnswerVideo(w) ==
    /\ watcher[w].pc = "answer"
    /\ watcher' = [watcher EXCEPT ![w].pc = "get", ![w].told = video[watcher[w].id].count]
    /\ UNCHANGED <<uploads, video, transcoding, views>>

VideosNext ==
    \/ Upload \/ \E i \in 1 .. MaxVideos : Transcode(i)
    \/ \E w \in Watchers : IncrementView(w) \/ AnswerVideo(w) \/ \E i \in 1 .. MaxVideos : GetVideo(w, i)

VideosSpec == VideosInit /\ [][VideosNext]_videoVars

-----------------------------------------------------------------------------
VideosTypeOK ==
    /\ uploads \in 0 .. MaxVideos /\ transcoding \subseteq 1 .. uploads
    /\ video \in [1 .. MaxVideos -> [status : {"uploading", "ready"}, count : Nat]]
    /\ watcher \in [Watchers -> [pc : {"get", "count", "answer"}, id : 0 .. MaxVideos,
                                 before : Nat, told : Nat]]
    /\ views \in [1 .. MaxVideos -> 0 .. MaxViews]

\* No view is lost or counted twice, a watcher is told a count that has its own view in
\* it, and a video that no goroutine will make ready is ready.
ViewsCounted ==
    /\ \A i \in 1 .. MaxVideos :
          video[i].count + Cardinality({w \in Watchers : watcher[w].pc = "count" /\ watcher[w].id = i}) = views[i]
    /\ \A w \in Watchers : watcher[w].pc = "get" /\ watcher[w].id # 0 => watcher[w].told > watcher[w].before
    /\ \A i \in 1 .. uploads : video[i].status = "ready" <=> i \notin transcoding
=============================================================================
