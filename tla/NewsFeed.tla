------------------------------ MODULE NewsFeed ------------------------------
(***************************************************************************)
(* services/news-feed: every operation holds the store's lock throughout, so *)
(* what can go wrong is a sequence of them: users that are created again,    *)
(* that follow themselves, or that post before they exist.                   *)
(***************************************************************************)
EXTENDS Integers, Sequences, SequencesExt

CONSTANTS
    People,
    MaxPosts        \* bound

ASSUME FeedAssumption == MaxPosts \in Nat

VARIABLES
    users,
    posts,          \* posts[u]: numbers of the posts of u, oldest first
    author,         \* author[i]: who wrote post i; its length is postSeq
    follows,        \* follows[u]: whom u follows
    timeline,       \* timeline[u]: numbers of posts, newest first
    since           \* history: since[u][v]: the posts made before u followed v, or before
                    \* u was created again

feedVars == <<users, posts, author, follows, timeline, since>>

FeedInit ==
    /\ users = {} /\ author = <<>>
    /\ posts = [u \in People |-> <<>>] /\ timeline = [u \in People |-> <<>>]
    /\ follows = [u \in People |-> {}]
    /\ since = [u \in People |-> [v \in People |-> 0]]

\* Creating a user again empties its posts and timeline, and leaves whom it follows.
CreateUser(u) ==
    /\ users' = users \cup {u}
    /\ posts' = [posts EXCEPT ![u] = <<>>] /\ timeline' = [timeline EXCEPT ![u] = <<>>]
    /\ since' = [since EXCEPT ![u] = [v \in People |-> Len(author)]]
    /\ UNCHANGED <<author, follows>>

\* Whoever follows itself gets its post twice, and anybody can post.
Pushed(u, v, i) ==
    (IF v = u THEN <<i>> ELSE <<>>) \o ((IF u \in follows[v] THEN <<i>> ELSE <<>>) \o timeline[v])

CreatePost(u) ==
    LET i == Len(author) + 1 IN
    /\ Len(author) < MaxPosts /\ author' = Append(author, u)
    /\ posts' = [posts EXCEPT ![u] = Append(@, i)]
    /\ timeline' = [v \in People |-> Pushed(u, v, i)]
    /\ UNCHANGED <<users, follows, since>>

Follow(u, v) ==
    /\ u \in users /\ v \in users
    /\ follows' = [follows EXCEPT ![u] = @ \cup {v}]
    /\ since' = IF v \in follows[u] THEN since ELSE [since EXCEPT ![u][v] = Len(author)]
    /\ UNCHANGED <<users, posts, author, timeline>>

FeedNext ==
    \E u \in People : CreateUser(u) \/ CreatePost(u) \/ \E v \in People : Follow(u, v)

FeedSpec == FeedInit /\ [][FeedNext]_feedVars

\* Reading changes nothing.  A page that starts or ends before the timeline does panics.
GetTimeline(u, offset, limit) ==
    IF offset >= Len(timeline[u]) THEN <<>>
    ELSE IF offset < 0 \/ limit < 0 THEN <<"panic">>
    ELSE SubSeq(timeline[u], offset + 1, offset + limit)
GetUserPosts(u) == Reverse(posts[u])

-----------------------------------------------------------------------------
FeedTypeOK ==
    /\ users \subseteq People /\ author \in Seq(People) /\ Len(author) <= MaxPosts
    /\ \A u \in People :
          /\ Range(posts[u]) \cup Range(timeline[u]) \subseteq 1 .. Len(author)
          /\ follows[u] \subseteq People
    /\ since \in [People -> [People -> 0 .. MaxPosts]]

\* A timeline holds, newest first, posts of the people its owner follows and its own, all
\* of its own that it still lists, and every post those people made since it followed them
\* and list still, if the owner was not created again meanwhile.
TimelinesComplete ==
    \A u \in People :
        /\ \A i, j \in DOMAIN timeline[u] : i < j => timeline[u][i] >= timeline[u][j]
        /\ \A i \in Range(timeline[u]) : author[i] \in follows[u] \cup {u}
        /\ Range(GetUserPosts(u)) \subseteq Range(timeline[u])
        /\ \A v \in follows[u] : \A i \in Range(posts[v]) :
              i > since[u][v] => i \in Range(timeline[u])
=============================================================================
