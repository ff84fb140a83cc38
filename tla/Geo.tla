--------------------------------- MODULE Geo ---------------------------------
(***************************************************************************)
(* services/geo-service: the best hub of a point is computed over all hubs   *)
(* and remembered for the whole cell of the point.  Hubs can be registered   *)
(* again; the map then holds the new record and the list holds both.         *)
(* Distances are a table; scores are in thousandths.                         *)
(***************************************************************************)
EXTENDS Integers, Sequences, Functions

CONSTANTS
    Points, Cells, CellOf,  \* CellOf[p]: the H3 cell of a point
    HubIds, HubRecords,     \* bodies that /admin/hubs takes, with a radius above 0
    DistanceTo,             \* DistanceTo[p][place]: kilometres
    Checks,                 \* requests to /serviceability
    NoHub,
    CacheTTL, LastHour,     \* 1 hour; bound of the clock
    MaxHubs                 \* bound: registrations

VARIABLES
    hubs,           \* hubs[id]: the record that was registered last, or NoHub
    hubList,        \* every record that was ever registered, in order
    cellCache,      \* cellCache[cell]: hub id and the hour it expires
    geoHour,
    check           \* check[c]: a request: pc, its point, the hub it found, and the id it
                    \* took from the cache

geoVars == <<hubs, hubList, cellCache, geoHour, check>>

GeoAssumption ==
    /\ Points # {} /\ CellOf \in [Points -> Cells]
    /\ \A r \in HubRecords : r.id \in HubIds /\ r.radius > 0
    /\ NoHub \notin HubRecords
    /\ CacheTTL \in Nat /\ LastHour \in Nat /\ MaxHubs \in Nat

ASSUME GeoAssumption

NoId == ""
NoCellEntry == [hub |-> NoId, expiresAt |-> 0]

GeoInit ==
    /\ hubs = [i \in HubIds |-> NoHub] /\ hubList = <<>> /\ geoHour = 0
    /\ cellCache = [k \in Cells |-> NoCellEntry]
    /\ check = [c \in Checks |-> [pc |-> "new", point |-> CHOOSE p \in Points : TRUE,
                                  hub |-> NoHub, id |-> NoId]]

RegisterHub(r) ==
    /\ Len(hubList) < MaxHubs
    /\ hubs' = [hubs EXCEPT ![r.id] = r] /\ hubList' = Append(hubList, r)
    /\ UNCHANGED <<cellCache, geoHour, check>>

-----------------------------------------------------------------------------
(* Scores: 40% nearness, 40% stock, 20% riders (both in tenths).             *)
InReach(r, p) == r.active /\ DistanceTo[p][r.place] <= r.radius

ComputeScore(r, p) ==
    LET near == (400 * (r.radius - DistanceTo[p][r.place])) \div r.radius
    IN  (IF near < 0 THEN 0 ELSE near) + 40 * r.stock + 20 * r.riders

\* The first of the best of those that are active and in reach, in the order of the list.
GetBestHub(list, p) ==
    LET reach == {i \in DOMAIN list : InReach(list[i], p)}
        first == {i \in reach : \A j \in reach :
                     \/ ComputeScore(list[j], p) < ComputeScore(list[i], p)
                     \/ ComputeScore(list[j], p) = ComputeScore(list[i], p) /\ i <= j}
    IN  IF first = {} THEN NoHub ELSE list[CHOOSE i \in first : TRUE]

-----------------------------------------------------------------------------
(* CheckServiceability.  An entry that has expired is no entry.              *)
CacheGet(c, p) ==
    LET e == cellCache[CellOf[p]]
        live == e.hub # NoId /\ geoHour <= e.expiresAt
    IN
    /\ check[c].pc = "new"
    /\ check' = [check EXCEPT ![c] = [pc |-> IF live THEN "fetch" ELSE "search", point |-> p, hub |-> NoHub,
                                     id |-> IF live THEN e.hub ELSE NoId]]
    /\ UNCHANGED <<hubs, hubList, cellCache, geoHour>>

\* A cached hub is taken as it is registered now, whatever its distance.
FetchHub(c) ==
    /\ check[c].pc = "fetch"
    /\ LET hub == hubs[check[c].id] IN
       check' = IF hub # NoHub /\ hub.active
                THEN [check EXCEPT ![c].pc = "answered", ![c].hub = hub]
                ELSE [check EXCEPT ![c].pc = "search", ![c].id = NoId]
    /\ UNCHANGED <<hubs, hubList, cellCache, geoHour>>

ComputeBest(c) ==
    LET best == GetBestHub(hubList, check[c].point) IN
    /\ check[c].pc = "search"
    /\ check' = [check EXCEPT ![c].hub = best, ![c].pc = IF best = NoHub THEN "answered" ELSE "cache"]
    /\ UNCHANGED <<hubs, hubList, cellCache, geoHour>>

CacheSet(c) ==
    /\ check[c].pc = "cache"
    /\ cellCache' = [cellCache EXCEPT ![CellOf[check[c].point]] =
                        [hub |-> check[c].hub.id, expiresAt |-> geoHour + CacheTTL]]
    /\ check' = [check EXCEPT ![c].pc = "answered"]
    /\ UNCHANGED <<hubs, hubList, geoHour>>

AskAgain(c) ==
    /\ check[c].pc = "answered" /\ check' = [check EXCEPT ![c].pc = "new"]
    /\ UNCHANGED <<hubs, hubList, cellCache, geoHour>>

HourPasses ==
    /\ geoHour < LastHour /\ geoHour' = geoHour + 1
    /\ UNCHANGED <<hubs, hubList, cellCache, check>>

EvictExpired ==
    /\ cellCache' = [k \in Cells |-> IF geoHour > cellCache[k].expiresAt THEN NoCellEntry ELSE cellCache[k]]
    /\ UNCHANGED <<hubs, hubList, geoHour, check>>

GeoNext ==
    \/ HourPasses \/ EvictExpired \/ \E r \in HubRecords : RegisterHub(r)
    \/ \E c \in Checks : FetchHub(c) \/ ComputeBest(c) \/ CacheSet(c) \/ AskAgain(c) \/ \E p \in Points : CacheGet(c, p)

GeoSpec == GeoInit /\ [][GeoNext]_geoVars

-----------------------------------------------------------------------------
GeoTypeOK ==
    /\ hubs \in [HubIds -> HubRecords \cup {NoHub}]
    /\ Len(hubList) <= MaxHubs /\ Range(hubList) \subseteq HubRecords
    /\ cellCache \in [Cells -> [hub : HubIds \cup {NoId}, expiresAt : 0 .. LastHour + CacheTTL]]
    /\ geoHour \in 0 .. LastHour
    /\ \A c \in Checks :
          /\ check[c].pc \in {"new", "fetch", "search", "cache", "answered"}
          /\ check[c].point \in Points /\ check[c].hub \in HubRecords \cup {NoHub} /\ check[c].id \in HubIds \cup {NoId}

\* A hub that was registered with more than one body.
Reregistered(id) == \E r, t \in Range(hubList) : r.id = id /\ t.id = id /\ r # t

\* What a cell remembers reaches some point of the cell as it is registered now, or, when it
\* was registered again, as it once was; a hub that was just computed reaches the point it
\* was asked for; and an answer, cached or not, is a hub that was registered as active.
CacheReaches ==
    /\ \A k \in Cells : cellCache[k].hub # NoId =>
          \E r \in Range(hubList), p \in Points :
              /\ r.id = cellCache[k].hub /\ CellOf[p] = k /\ InReach(r, p)
              /\ r = hubs[r.id] \/ Reregistered(r.id)
    /\ \A c \in Checks : check[c].pc = "answered" /\ check[c].hub # NoHub =>
          /\ check[c].hub \in Range(hubList) /\ check[c].hub.active
          /\ check[c].id # NoId \/ InReach(check[c].hub, check[c].point)

-----------------------------------------------------------------------------
(* What the documentation says and the code does not do                      *)

\* geo-service.md:138 says that the admin API invalidates the relevant keys on
\* hub updates: a hub that is answered from the entry of a cell reaches some
\* point of the cell, as it was registered when it was answered.
CachedAnswerReaches == \A c \in Checks :
    check[c].pc = "answered" /\ check[c].hub # NoHub /\ check[c].id # NoId =>
        \E p \in Points : CellOf[p] = CellOf[check[c].point] /\ InReach(check[c].hub, p)
=============================================================================
