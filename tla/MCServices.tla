----------------------------- MODULE MCServices -----------------------------
(***************************************************************************)
(* Services that share nothing, in one run: `active` is chosen once, and     *)
(* only the service it names moves, so that the state spaces are added and   *)
(* not multiplied.                                                          *)
(***************************************************************************)
EXTENDS Tracking, ChatRoom, Promo, RateLimiter, Snowflake, Breaker, Pricing, Eta,
        Geo, Search, Forecast, ShortLinks, KeyValue, Metrics, NewsFeed, Drive, Videos, Notifications

VARIABLE active

realtimeVars == <<trackingVars, chatVars>>
tradeVars == <<promoVars, limiterVars, snowVars, breakerVars, pricingVars, etaVars, geoVars, searchVars, forecastVars>>
recordVars == <<linkVars, shards, metricsVars, feedVars, driveVars, videoVars, notifyVars>>
servicesVars == <<realtimeVars, tradeVars, recordVars, active>>

ServicesInit ==
    /\ active \in {"tracking", "chat", "promo", "limiter", "snowflake", "breaker", "pricing", "eta",
                   "geo", "search", "forecast", "links", "keyvalue", "metrics", "feed", "drive", "videos", "notify"}
    /\ TrackingInit /\ ChatInit /\ PromoInit /\ LimiterInit /\ SnowInit /\ BreakerInit
    /\ PricingInit /\ EtaInit /\ GeoInit /\ SearchInit /\ ForecastInit /\ LinksInit /\ KeyValueInit
    /\ MetricsInit /\ FeedInit /\ DriveInit /\ VideosInit /\ NotifyInit
    /\ active # "limiter" => algorithm = "fixed"

RealtimeStep ==
    /\ \/ active = "tracking" /\ TrackingNext /\ UNCHANGED chatVars
       \/ active = "chat" /\ ChatNext /\ UNCHANGED trackingVars
    /\ UNCHANGED <<tradeVars, recordVars, active>>

TradeStep ==
    /\ \/ /\ active = "promo" /\ PromoNext
          /\ UNCHANGED <<limiterVars, snowVars, breakerVars, pricingVars, etaVars, geoVars, searchVars, forecastVars>>
       \/ /\ active = "limiter" /\ LimiterNext
          /\ UNCHANGED <<promoVars, snowVars, breakerVars, pricingVars, etaVars, geoVars, searchVars, forecastVars>>
       \/ /\ active = "snowflake" /\ SnowNext
          /\ UNCHANGED <<promoVars, limiterVars, breakerVars, pricingVars, etaVars, geoVars, searchVars, forecastVars>>
       \/ /\ active = "breaker" /\ BreakerNext
          /\ UNCHANGED <<promoVars, limiterVars, snowVars, pricingVars, etaVars, geoVars, searchVars, forecastVars>>
       \/ /\ active = "pricing" /\ PricingNext
          /\ UNCHANGED <<promoVars, limiterVars, snowVars, breakerVars, etaVars, geoVars, searchVars, forecastVars>>
       \/ /\ active = "eta" /\ EtaNext
          /\ UNCHANGED <<promoVars, limiterVars, snowVars, breakerVars, pricingVars, geoVars, searchVars, forecastVars>>
       \/ /\ active = "geo" /\ GeoNext
          /\ UNCHANGED <<promoVars, limiterVars, snowVars, breakerVars, pricingVars, etaVars, searchVars, forecastVars>>
       \/ /\ active = "search" /\ SearchNext
          /\ UNCHANGED <<promoVars, limiterVars, snowVars, breakerVars, pricingVars, etaVars, geoVars, forecastVars>>
       \/ /\ active = "forecast" /\ ForecastNext
          /\ UNCHANGED <<promoVars, limiterVars, snowVars, breakerVars, pricingVars, etaVars, geoVars, searchVars>>
    /\ UNCHANGED <<realtimeVars, recordVars, active>>

RecordStep ==
    /\ \/ active = "links" /\ LinksNext /\ UNCHANGED <<shards, metricsVars, feedVars, driveVars, videoVars, notifyVars>>
       \/ active = "keyvalue" /\ KeyValueNext /\ UNCHANGED <<linkVars, metricsVars, feedVars, driveVars, videoVars, notifyVars>>
       \/ active = "metrics" /\ MetricsNext /\ UNCHANGED <<linkVars, shards, feedVars, driveVars, videoVars, notifyVars>>
       \/ active = "feed" /\ FeedNext /\ UNCHANGED <<linkVars, shards, metricsVars, driveVars, videoVars, notifyVars>>
       \/ active = "drive" /\ DriveNext /\ UNCHANGED <<linkVars, shards, metricsVars, feedVars, videoVars, notifyVars>>
       \/ active = "videos" /\ VideosNext /\ UNCHANGED <<linkVars, shards, metricsVars, feedVars, driveVars, notifyVars>>
       \/ active = "notify" /\ NotifyNext /\ UNCHANGED <<linkVars, shards, metricsVars, feedVars, driveVars, videoVars>>
    /\ UNCHANGED <<realtimeVars, tradeVars, active>>

ServicesNext == RealtimeStep \/ TradeStep \/ RecordStep

ServicesSpec == ServicesInit /\ [][ServicesNext]_servicesVars

-----------------------------------------------------------------------------
\* Every service's variables have their types, and its channels, windows, rings and pools
\* hold no more than their capacities; a closed circuit has not counted a threshold of failures.
ServicesTypeOK ==
    CASE active = "tracking" -> TrackingTypeOK
      [] active = "chat" -> ChatTypeOK
      [] active = "promo" -> PromoTypeOK
      [] active = "limiter" -> LimiterTypeOK
      [] active = "snowflake" -> SnowTypeOK
      [] active = "breaker" -> BreakerTypeOK /\ ClosedIsHealthy
      [] active = "pricing" -> PricingTypeOK
      [] active = "eta" -> EtaTypeOK
      [] active = "geo" -> GeoTypeOK
      [] active = "search" -> SearchTypeOK
      [] active = "forecast" -> ForecastTypeOK
      [] active = "links" -> LinksTypeOK
      [] active = "keyvalue" -> KeyValueTypeOK
      [] active = "metrics" -> MetricsTypeOK
      [] active = "feed" -> FeedTypeOK
      [] active = "drive" -> DriveTypeOK
      [] active = "videos" -> VideosTypeOK
      [] active = "notify" -> NotifyTypeOK

\* What a customer is shown stands while others write what it was computed from: the fee
\* that was locked, the estimate that was given, the hub of the cell, the forecast with its
\* replenishment, and the pages of a result (see the property of each).
QuotesStand ==
    /\ active = "pricing" => LockedFeeStands
    /\ active = "eta" => EtaSticks
    /\ active = "geo" => CacheReaches
    /\ active = "forecast" => ForecastsAgree
    /\ active = "search" => PagesMissNothing

\* What a store was told is there when it is asked, once and in order, unless requests
\* overlapped where its code does not lock (see the property of each).
RecordsAgree ==
    /\ active = "links" => LinksStand
    /\ active = "keyvalue" => KeysInPlace
    /\ active = "metrics" => CountsShown
    /\ active = "feed" => TimelinesComplete
    /\ active = "drive" => DriveConsistent
    /\ active = "videos" => ViewsCounted
    /\ active = "notify" => NotificationsKept

-----------------------------------------------------------------------------
(* The constants of the instances.                                           *)

\* Both connections of the driver name the order m1; updates may name the other.
Own == [c \in Conns |-> "m1"]
EventBound == [o \in TrackedOrders |-> IF o = "m1" THEN 3 ELSE 1]

\* A restaurant rule for the evening, a better one of the same group with conditions, and
\* a stackable cashback without limits; a rule whose conditions do not parse.
Evening == [type |-> "time_slot", start |-> 1320, end |-> 360, days |-> {}]
Half == [conditions |-> <<[type |-> "and", conditions |-> {2, 3}], Evening, [type |-> "not"]>>,
         effect |-> [type |-> "percentage", value |-> 50], limits |-> [total |-> 2, daily |-> 1, user |-> 1],
         priority |-> 5, stackable |-> FALSE, group |-> "g", maxStackable |-> 0, startAt |-> 0, endAt |-> 0]
Voucher == [Half EXCEPT !.conditions = <<[type |-> "or", conditions |-> {2, 3, 4}],
                [type |-> "area", areas |-> {"north"}], [type |-> "category", categories |-> {"food"}],
                [type |-> "not", condition |-> 5], [type |-> "first_n_order", max_orders |-> 0]>>,
            !.effect = [type |-> "fixed", value |-> 60], !.limits = [total |-> 1, daily |-> 1, user |-> 1]]
Cashback == [Half EXCEPT !.conditions = <<[type |-> "min_transaction", min_amount |-> 50]>>,
             !.effect = [type |-> "cashback", value |-> 30], !.limits = [total |-> 0, daily |-> 0, user |-> 0],
             !.stackable = TRUE, !.group = "", !.maxStackable = 1, !.startAt = 1, !.endAt = 1]
Broken == [Half EXCEPT !.conditions = <<[type |-> "and", conditions |-> {2}], [type |-> "first_n_order"]>>]
Bodies == [r \in RuleIds |-> CASE r = "half" -> Half [] r = "voucher" -> Voucher
                              [] r = "cashback" -> Cashback [] OTHER -> Broken]
Supper == [total |-> 75, area |-> "north", categories |-> {"food"}, orderCount |-> 0, weekday |-> 5, minute |-> 1380]
Lunch == [total |-> 40, area |-> "south", categories |-> {}, orderCount |-> 3, weekday |-> 1, minute |-> 720]
AllCarts == {Supper, Lunch}

WorkerIds == [p \in Processes |-> IF p = "p1" THEN 0 ELSE 1]

OneOrder == [c \in EtaCalls |-> "o1"]
Route == [o \in EtaOrders |-> [items |-> 12, depth |-> 9, drivers |-> 2, travel |-> 900]]

\* Two hubs; the first is registered anew far from the cell, the second as inactive.
West == [id |-> "h1", active |-> TRUE, place |-> "west", radius |-> 3, stock |-> 2, riders |-> 5]
East == [id |-> "h2", active |-> TRUE, place |-> "east", radius |-> 3, stock |-> 9, riders |-> 5]
Bodies1 == {West, East, [West EXCEPT !.radius = 1, !.place = "east"], [East EXCEPT !.active = FALSE]}
CellsOf == [p \in Points |-> IF p = "p3" THEN "cell2" ELSE "cell1"]
Kilometres == [p \in Points |-> CASE p = "p1" -> [west |-> 2, east |-> 4]
                                  [] p = "p2" -> [west |-> 3, east |-> 3] [] OTHER -> [west |-> 9, east |-> 2]]

Named(w) == [whole |-> w, holds |-> {w}]
Ware(name, brand, label, tags, place, margin, popularity, price) ==
    [texts |-> <<name, brand>> \o tags, name |-> Named(name), brand |-> Named(brand), label |-> Named(label),
     about |-> {"fresh"}, place |-> place, category |-> label, margin |-> margin, popularity |-> popularity,
     price |-> price]
\* Milk and corn have one price; fewer than ten texts begin with c until all are added.
Wares == [k \in Products |->
            CASE k = "s1" -> Ware("milk", "acme", "dairy", <<"cold", "cream", "curd", "chilled">>, 1, 10, 50, 3)
              [] k = "s2" -> Ware("corn", "acme", "dairy", <<"cold", "vegan", "can", "crisp", "cob">>, 2, 40, 20, 3)
              [] k = "s3" -> Ware("cheese", "acme", "dairy", <<"cold", "curd", "cup", "cow">>, 3, 90, 10, 4)
              [] OTHER -> Ware("tea", "best", "drinks", <<"vegan">>, 4, 5, 80, 1)]
Searches == {[terms |-> <<"cold">>, category |-> "", hub |-> TRUE, sort |-> "price_asc", pageSize |-> 1],
             [terms |-> <<"vegan", "nosuch">>, category |-> "dairy", hub |-> FALSE, sort |-> "price_asc", pageSize |-> 1],
             [terms |-> <<>>, category |-> "dairy", hub |-> FALSE, sort |-> "popularity", pageSize |-> 2],
             [terms |-> <<"milk", "nosuch2">>, category |-> "drinks", hub |-> TRUE, sort |-> "price_desc", pageSize |-> 0]}
CTexts == <<"can", "cheese", "chilled", "cob", "cold", "corn", "cow", "cream", "crisp", "cup", "curd">>
AllTexts == {"milk", "tea", "acme", "best", "vegan"} \cup Range(CTexts)
Lengths == [t \in {"cold", "vegan", "nosuch", "nosuch2", "milk"} |->
              CASE t = "cold" -> 4 [] t = "milk" -> 4 [] t = "vegan" -> 5 [] t = "nosuch" -> 6 [] OTHER -> 7]
Alphabet == [t \in Texts |-> CASE t = "acme" -> 1 [] t = "best" -> 2 [] t = "milk" -> 14 [] t = "tea" -> 15
                               [] t = "vegan" -> 16 [] OTHER -> 2 + CHOOSE i \in DOMAIN CTexts : CTexts[i] = t]
PrefixTexts == [x \in {"m", "c"} |-> IF x = "m" THEN {"milk"} ELSE Range(CTexts)]

\* One run names the first hub twice, so that two goroutines work on one pair.
Nightly == [r \in Runs |-> IF r = "r1" THEN <<"pair1", "pair2", "pair1">> ELSE <<"pair1">>]
Sold == [p \in Pairs |-> IF p = "pair1" THEN 40 ELSE 0]

\* n2 is named twice, and shares a hash with n1.
Replicas == [n \in RingNodes |-> CASE n = "n1" -> {1, 5} [] n = "n2" -> {3, 5} [] OTHER -> {2}]
FromEnv == <<"n2", "n1", "n2">>
Hashes == [k \in Keys |-> CASE k = "x" -> 2 [] k = "y" -> 4 [] OTHER -> 9]

Channels == [s \in Sends |-> CASE s = "mail" -> "email" [] s = "fax" -> "fax" [] OTHER -> "in_app"]
Owners == [s \in Sends |-> IF s = "note1" THEN "ann" ELSE "bob"]

-----------------------------------------------------------------------------
(* Pure operators against what they are for.                                 *)
ASSUME ~ Unmarshals(Broken.conditions)
\* A condition that was stored and read back accepts the carts it accepted before.
ASSUME \A body \in {Half, Voucher, Cashback}, cart \in AllCarts :
          LET cond == UnmarshalCondition(body.conditions) IN
          EvalCondition(UnmarshalCondition(MarshalCondition(cond)), cart) = EvalCondition(cond, cart)
ASSUME ImputeStockouts(<<0, 0, 4, 0, 0, 8, 0, 5>>) = <<4, 4, 4, 6, 6, 8, 0, 5>>

\* A node that joins takes keys only for itself, and the ring forgets it when it leaves.
ASSUME \A n \in RingNodes, k \in Keys :
          LET joined == AddNode(Ring, n) IN
          /\ NodeFor(joined, HashOf[k]) \in {GetShard(k), n}
          /\ n \notin Range(RemoveNode(joined, n))
=============================================================================
