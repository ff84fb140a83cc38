---------------------------- MODULE TradeProofs -----------------------------
(***************************************************************************)
(* The services of trade, each for any values of its constants: promotions, *)
(* ids, the circuit breaker, fees, estimates, the rate limiter, hubs, the   *)
(* search with its tries, and the nightly forecast.  Each part states its   *)
(* inductive invariant, proves that it holds, and draws the theorem from    *)
(* it.  Where a proof would go by induction it takes a least counterexample *)
(* instead (LeastNumber).                                                   *)
(***************************************************************************)
EXTENDS Promo, RateLimiter, Snowflake, Breaker, Pricing, Eta, Geo, Search, Forecast,
        FiniteSetTheorems, SequenceTheorems, WellFoundedInduction, TLAPS

-----------------------------------------------------------------------------
(* Sets that take or give one element, and sequences that take one.         *)

\* A set that takes or gives one element.
LEMMA OneElement ==
    ASSUME NEW S, IsFiniteSet(S), NEW x
    PROVE  /\ Cardinality(S) \in Nat
           /\ x \notin S => IsFiniteSet(S \cup {x}) /\ Cardinality(S \cup {x}) = Cardinality(S) + 1
           /\ x \in S => Cardinality(S \ {x}) = Cardinality(S) - 1 /\ Cardinality(S) >= 1
<1>1. Cardinality(S) \in Nat
  BY FS_CardinalityType
<1>2. x \notin S => IsFiniteSet(S \cup {x}) /\ Cardinality(S \cup {x}) = Cardinality(S) + 1
  BY FS_AddElement
<1>3. x \in S => Cardinality(S \ {x}) = Cardinality(S) - 1
  BY FS_RemoveElement
<1>4. IsFiniteSet(S \ {x})
  BY FS_RemoveElement
<1>5. Cardinality(S \ {x}) \in Nat
  BY <1>4, FS_CardinalityType
<1> QED
  BY <1>1, <1>2, <1>3, <1>5

\* What appending does to a sequence and its members.
LEMMA Appended == ASSUME NEW T, NEW s \in Seq(T), NEW i \in T
                  PROVE  Append(s, i) \in Seq(T) /\ Range(Append(s, i)) = Range(s) \cup {i}
<1>1. /\ Append(s, i) \in Seq(T) /\ Len(Append(s, i)) = Len(s) + 1 /\ Append(s, i)[Len(s) + 1] = i
      /\ \A j \in 1 .. Len(s) : Append(s, i)[j] = s[j]
  BY AppendProperties
<1>2. DOMAIN Append(s, i) = 1 .. Len(s) + 1 /\ DOMAIN s = 1 .. Len(s) /\ Len(s) \in Nat
  BY <1>1, LenProperties
<1>3. \A j \in 1 .. Len(s) + 1 : j \in 1 .. Len(s) \/ j = Len(s) + 1
  BY <1>2
<1>4. Len(s) + 1 \in 1 .. Len(s) + 1 /\ \A j \in 1 .. Len(s) : j \in 1 .. Len(s) + 1
  BY <1>2
<1> QED BY <1>1, <1>2, <1>3, <1>4 DEF Range

\* A set of numbers has a least: what a proof by induction is replaced by.
LEMMA LeastNumber == ASSUME NEW T, T \subseteq Nat, T # {} PROVE \E x \in T : \A y \in T : x <= y
<1> DEFINE R == {ss \in Nat \X Nat : ss[1] < ss[2]}
<1>1. IsWellFoundedOn(R, Nat)
  BY NatLessThanWellFounded DEF OpToRel
<1> HIDE DEF R
<1>2. PICK x \in T : \A y \in T : ~ (<<y, x>> \in R)
  BY <1>1, WFMin
<1>3. \A y \in T : ~ (y < x)
  BY <1>2 DEF R
<1> QED BY <1>3

-----------------------------------------------------------------------------
(* The condition of a rule, written and read back.                          *)

\* Every node has a type that unmarshalling knows.
KnownTypes(json) == \A i \in DOMAIN json : "type" \in DOMAIN json[i] /\ json[i].type \in DOMAIN Fields

\* A condition that is marshalled and unmarshalled again is the same condition, whatever
\* its tree and whichever optional fields its JSON had: a list that is omitted when empty
\* comes back empty, and a NOT without a child stays without.
THEOREM ConditionSurvives ==
    ASSUME NEW json, KnownTypes(json)
    PROVE  LET cond == UnmarshalCondition(json)
           IN  UnmarshalCondition(MarshalCondition(cond)) = cond
<1> DEFINE cond == UnmarshalCondition(json)
           stored == MarshalCondition(cond)
           again == UnmarshalCondition(stored)
           kept(n) == IF n.type = "not" THEN DOMAIN n \cap {"condition"} ELSE Fields[n.type]
           Made(n) == [f \in {"type"} \cup kept(n) |-> IF f \in DOMAIN n THEN n[f] ELSE Zero(f)]
           Written(n) == IF n.type \in {"and", "or"} /\ n.conditions = {} THEN Restrict(n, {"type"}) ELSE n
<1>1. cond = [i \in DOMAIN json |-> Made(json[i])]
  BY DEF UnmarshalCondition
<1>2. stored = [i \in DOMAIN cond |-> Written(cond[i])]
  BY DEF MarshalCondition
<1>3. again = [i \in DOMAIN stored |-> Made(stored[i])]
  BY DEF UnmarshalCondition
<1> HIDE DEF cond, stored, again
<1>4. ASSUME NEW n, "type" \in DOMAIN n, n.type \in DOMAIN Fields PROVE Made(Written(Made(n))) = Made(n)
  <2> DEFINE m == Made(n)
  <2>1. /\ m = [f \in DOMAIN m |-> m[f]] /\ DOMAIN m = {"type"} \cup kept(n)
        /\ m.type = n.type
    BY <1>4
  <2>2. Fields["and"] = {"conditions"} /\ Fields["or"] = {"conditions"}
    BY DEF Fields
  <2>3. kept(m) = kept(n)
    BY <2>1
  <2> HIDE DEF m
  <2>4. CASE m.type \in {"and", "or"} /\ m.conditions = {}
    <3>1. DOMAIN m = {"type", "conditions"}
      BY <2>1, <2>2, <2>4
    <3>2. Written(m) = [f \in {"type"} |-> m.type]
      BY <2>4, <3>1 DEF Restrict
    <3>3. Made(Written(m)) = [f \in {"type", "conditions"} |-> IF f = "type" THEN m.type ELSE Zero("conditions")]
      BY <2>2, <2>4, <3>2
    <3>4. Zero("conditions") = {}
      BY DEF Zero
    <3>5. m = [f \in {"type", "conditions"} |-> m[f]]
      BY <2>1, <3>1
    <3> HIDE DEF Made, Written
    <3> QED BY <2>4, <3>3, <3>4, <3>5 DEF m
  <2>5. CASE ~ (m.type \in {"and", "or"} /\ m.conditions = {})
    <3>1. Written(m) = m
      BY <2>5
    <3>2. Made(m) = [f \in {"type"} \cup kept(m) |-> IF f \in DOMAIN m THEN m[f] ELSE Zero(f)]
      OBVIOUS
    <3>3. \A f \in {"type"} \cup kept(m) : f \in DOMAIN m
      BY <2>1, <2>3
    <3> QED BY <2>1, <2>3, <3>1, <3>2, <3>3 DEF m
  <2> QED BY <2>4, <2>5
<1> HIDE DEF Made, Written
<1>5. DOMAIN again = DOMAIN json /\ DOMAIN cond = DOMAIN json /\ DOMAIN stored = DOMAIN json
  BY <1>1, <1>2, <1>3
<1>6. \A i \in DOMAIN json : again[i] = cond[i]
  BY <1>1, <1>2, <1>3, <1>4, <1>5 DEF KnownTypes
<1>7. again = [i \in DOMAIN json |-> again[i]] /\ cond = [i \in DOMAIN json |-> cond[i]]
  BY <1>1, <1>3, <1>5
<1> QED BY <1>6, <1>7 DEF cond, stored, again

-----------------------------------------------------------------------------
(* Promotions: usage limits for any number of rules, requests, users, days  *)
(* and failing scripts: the counters that requests read early and increment *)
(* late keep every limited rule within its limits.                          *)
Users == Buyers \cup {CHOOSE u \in Buyers : TRUE}
Paths == {"new", "validate", "evaluate", "validated", "groups", "stack", "answered"}
Applications == Seq([rule : RuleIds, amount : Int, on : 1 .. MaxDay])

RequestRecord == [pc : Paths, cart : Carts \cup {NoCart}, user : Users, todo : SUBSET RuleIds,
                  passed : SUBSET RuleIds, remaining : Int, applied : Applications, stacked : Int,
                  final : Nat, total : Int]

CountersTyped ==
    /\ day \in 1 .. MaxDay
    /\ usedTotal \in [RuleIds -> Nat]
    /\ usedDaily \in [RuleIds -> [1 .. MaxDay -> Nat]]
    /\ usedBy \in [RuleIds -> [Buyers -> [count : Nat, made : 0 .. MaxDay]]]

RequestsTyped ==
    /\ request \in [Requests -> RequestRecord]
    /\ \A q \in Requests :
          IF request[q].pc = "new" THEN request[q].applied = <<>>
          ELSE request[q].cart \in Carts /\ request[q].user \in Buyers

PromoTyped ==
    /\ CountersTyped /\ RequestsTyped
    /\ rule \in [RuleIds -> {"none", "active", "refused"}]
    /\ failures \in 0 .. MaxFailures

-----------------------------------------------------------------------------
(* The invariant.                                                            *)

Limited(r) == HasAny(Body[r].limits)
Positive(r) == Body[r].limits.total >= 1 /\ Body[r].limits.daily >= 1 /\ Body[r].limits.user >= 1

\* A rule that a request may reserve has passed the check, which a limit of zero fails.
Checked ==
    \A q \in Requests, r \in RuleIds :
        /\ r \in request[q].passed \/ (request[q].pc \in {"groups", "stack"} /\ r \in request[q].todo)
        /\ Limited(r)
        => Positive(r)

\* The counters of a limited rule, and of its users, are within its limits.
CountersWithin(r) ==
    /\ usedTotal[r] <= Body[r].limits.total
    /\ \A d \in 1 .. MaxDay : usedDaily[r][d] <= Body[r].limits.daily
    /\ \A u \in Buyers : /\ usedBy[r][u].count <= Body[r].limits.user
                         /\ usedBy[r][u].made <= day
                         /\ usedBy[r][u].count > 0 => usedBy[r][u].made >= 1

\* What a user may have had of a rule: each key that has expired stands for a day that is
\* over, and the key there is counts the days since it was made.
Allowance(r, u) ==
    IF usedBy[r][u].count = 0 THEN (day - 1) * Body[r].limits.user
    ELSE (usedBy[r][u].made - 1) * Body[r].limits.user + usedBy[r][u].count

UsesBy(r, u) == {q \in Uses(r) : request[q].user = u}

UsesCounted(r) ==
    /\ Cardinality(Uses(r)) <= usedTotal[r]
    /\ \A d \in 1 .. MaxDay : Cardinality(UsesOn(r, d)) <= usedDaily[r][d]
    /\ \A u \in Buyers : Cardinality(UsesBy(r, u)) <= Allowance(r, u)

LimitsKept == \A r \in RuleIds : Limited(r) => CountersWithin(r) /\ UsesCounted(r)

PromoInv == PromoTyped /\ Checked /\ LimitsKept

-----------------------------------------------------------------------------
(* Sets and numbers.                                                         *)

\* A set with at most one member more than another has at most one more.
LEMMA OneMore ==
    ASSUME NEW S, IsFiniteSet(S), NEW T, NEW x, T \subseteq S \cup {x}
    PROVE  Cardinality(T) <= Cardinality(S) + 1
<1>1. IsFiniteSet(S \cup {x}) /\ Cardinality(S \cup {x}) <= Cardinality(S) + 1
  <2>1. /\ IsFiniteSet(S \cup {x}) /\ Cardinality(S) \in Nat
        /\ Cardinality(S \cup {x}) = IF x \in S THEN Cardinality(S) ELSE Cardinality(S) + 1
    BY FS_AddElement, FS_CardinalityType
  <2> QED
    BY <2>1
<1>2. Cardinality(T) <= Cardinality(S \cup {x}) /\ IsFiniteSet(T)
  BY <1>1, FS_Subset
<1> QED
  BY <1>1, <1>2, FS_CardinalityType

\* A subset has no more members.
LEMMA NoMore ==
    ASSUME NEW S, IsFiniteSet(S), NEW T, T \subseteq S
    PROVE  Cardinality(T) <= Cardinality(S)
  BY FS_Subset

\* The uses of a rule can be counted.
LEMMA UsesFinite ==
    ASSUME NEW r, NEW d, NEW u
    PROVE  IsFiniteSet(Uses(r)) /\ IsFiniteSet(UsesOn(r, d)) /\ IsFiniteSet(UsesBy(r, u))
<1>1. Uses(r) \subseteq Requests /\ UsesOn(r, d) \subseteq Requests /\ UsesBy(r, u) \subseteq Requests
  BY DEF Uses, UsesOn, UsesBy
<1> QED
  BY <1>1, FS_Subset, PromoAssumption

\* Multiplying by a natural number keeps the order.
LEMMA Days == ASSUME NEW a \in Int, NEW b \in Int, NEW n \in Nat, a <= b
              PROVE  a * n \in Int /\ b * n \in Int /\ a * n <= b * n
<1>1. PICK k \in Nat : b = a + k
  <2>1. b - a \in Nat /\ b = a + (b - a)
    OBVIOUS
  <2> QED
    BY <2>1
<1>2. k * n \in Nat /\ a * n \in Int /\ b * n \in Int
  BY SMT
<1>3. b * n = a * n + k * n
  BY <1>1, SMT
<1> QED
  BY <1>2, <1>3

\* The limits of a rule are numbers.
LEMMA LimitsTyped == ASSUME NEW r \in RuleIds
                     PROVE Body[r].limits.total \in Nat /\ Body[r].limits.daily \in Nat /\ Body[r].limits.user \in Nat
  BY PromoAssumption

\* A user's key has a count and the day it was made.
LEMMA UsersKeys == ASSUME CountersTyped, NEW r \in RuleIds, NEW u \in Buyers
                   PROVE usedBy[r][u] \in [count : Nat, made : 0 .. MaxDay]
  BY DEF CountersTyped

-----------------------------------------------------------------------------
(* The counters.                                                             *)

\* One increment raises the three counters of the rule, the day and the user by one, and
\* what the user may have had by at least one.
LEMMA Incremented ==
    ASSUME PromoTyped, LimitsKept, NEW r \in RuleIds, NEW u \in Buyers, Limited(r), Positive(r),
           MayIncrement(r, u), Increment(r, u), day' = day
    PROVE  /\ CountersTyped'
           /\ \A s \in RuleIds : Limited(s) => CountersWithin(s)'
           /\ usedTotal'[r] = usedTotal[r] + 1 /\ usedDaily'[r][day] = usedDaily[r][day] + 1
           /\ Allowance(r, u)' >= Allowance(r, u) + 1
           /\ \A s \in RuleIds : s # r => usedTotal'[s] = usedTotal[s]
           /\ \A s \in RuleIds, d \in 1 .. MaxDay : s # r \/ d # day => usedDaily'[s][d] = usedDaily[s][d]
           /\ \A s \in RuleIds, v \in Buyers : s # r \/ v # u => Allowance(s, v)' = Allowance(s, v)
<1> DEFINE limits == Body[r].limits
<1> DEFINE key == usedBy[r][u]
<1>1. CountersTyped /\ CountersWithin(r) /\ limits.total \in Nat /\ limits.daily \in Nat /\ limits.user \in Nat
  BY LimitsTyped DEF PromoTyped, LimitsKept
<1>2. key \in [count : Nat, made : 0 .. MaxDay] /\ day \in 1 .. MaxDay /\ MaxDay \in Nat
  BY <1>1, UsersKeys, PromoAssumption DEF CountersTyped
<1>3. usedTotal' = [usedTotal EXCEPT ![r] = @ + 1] /\ usedDaily' = [usedDaily EXCEPT ![r][day] = @ + 1]
  BY DEF Increment
<1>4. usedBy' = [usedBy EXCEPT ![r][u] = [count |-> key.count + 1, made |-> IF key.count = 0 THEN day ELSE key.made]]
  BY <1>1 DEF Increment, CountersTyped
<1>5. /\ usedTotal' \in [RuleIds -> Nat] /\ usedTotal'[r] = usedTotal[r] + 1
      /\ \A s \in RuleIds : s # r => usedTotal'[s] = usedTotal[s]
  BY <1>1, <1>3 DEF CountersTyped
<1>6. /\ usedDaily' \in [RuleIds -> [1 .. MaxDay -> Nat]] /\ usedDaily'[r][day] = usedDaily[r][day] + 1
      /\ \A s \in RuleIds, d \in 1 .. MaxDay : s # r \/ d # day => usedDaily'[s][d] = usedDaily[s][d]
  BY <1>1, <1>2, <1>3 DEF CountersTyped
<1>7. /\ usedBy'[r][u] = [count |-> key.count + 1, made |-> IF key.count = 0 THEN day ELSE key.made]
      /\ \A s \in RuleIds, v \in Buyers : s # r \/ v # u => usedBy'[s][v] = usedBy[s][v]
  BY <1>1, <1>4 DEF CountersTyped
<1>8. usedBy' \in [RuleIds -> [Buyers -> [count : Nat, made : 0 .. MaxDay]]]
  <2>1. [count |-> key.count + 1, made |-> IF key.count = 0 THEN day ELSE key.made] \in [count : Nat, made : 0 .. MaxDay]
    BY <1>2
  <2> HIDE DEF key
  <2> QED
    BY <1>1, <1>4, <2>1 DEF CountersTyped
<1>9. CountersTyped'
  BY <1>1, <1>5, <1>6, <1>8 DEF CountersTyped
<1>10. ASSUME NEW s \in RuleIds, Limited(s) PROVE CountersWithin(s)'
  <2>1. CountersWithin(s)
    BY <1>10 DEF LimitsKept
  <2>2. CASE s # r
    BY <1>5, <1>6, <1>7, <2>1, <2>2 DEF CountersWithin
  <2>3. CASE s = r
    <3>1. usedTotal'[r] <= limits.total
      BY SMTT(30), <1>1, <1>5 DEF MayIncrement, Positive, CountersTyped
    <3>2. ASSUME NEW d \in 1 .. MaxDay PROVE usedDaily'[r][d] <= limits.daily
      <4>1. CASE d = day
        <5>1. usedDaily[r][day] \in Nat
          BY <1>1, <1>2 DEF CountersTyped
        <5> QED
          BY <1>1, <1>6, <4>1, <5>1 DEF MayIncrement, Positive
      <4>2. CASE d # day
        BY <1>1, <1>6, <4>2 DEF CountersWithin
      <4> QED
        BY <4>1, <4>2
    <3>3. ASSUME NEW v \in Buyers
          PROVE /\ usedBy'[r][v].count <= limits.user /\ usedBy'[r][v].made <= day
                /\ usedBy'[r][v].count > 0 => usedBy'[r][v].made >= 1
      <4>1. CASE v = u
        BY <1>1, <1>2, <1>7, <4>1 DEF MayIncrement, Positive, CountersWithin
      <4>2. CASE v # u
        BY <1>1, <1>7, <4>2 DEF CountersWithin
      <4> QED
        BY <4>1, <4>2
    <3> QED
      BY <2>3, <3>1, <3>2, <3>3 DEF CountersWithin
  <2> QED
    BY <2>2, <2>3
<1>11. Allowance(r, u)' >= Allowance(r, u) + 1
  <2>1. (day - 1) * limits.user \in Int /\ (key.made - 1) * limits.user \in Int
    BY <1>1, <1>2, Days
  <2>2. CASE key.count = 0
    BY <1>2, <1>7, <2>1, <2>2 DEF Allowance
  <2>3. CASE key.count # 0
    BY <1>2, <1>7, <2>1, <2>3 DEF Allowance
  <2> QED
    BY <2>2, <2>3
<1>12. \A s \in RuleIds, v \in Buyers : s # r \/ v # u => Allowance(s, v)' = Allowance(s, v)
  BY <1>7 DEF Allowance
<1> QED
  BY <1>5, <1>6, <1>9, <1>10, <1>11, <1>12

-----------------------------------------------------------------------------
(* The uses.                                                                 *)

Gave(q, r, d) == \E i \in DOMAIN request[q].applied : request[q].applied[i].rule = r /\ request[q].applied[i].on = d

\* Membership in the uses of a rule on a day.
LEMMA UsesOnMeans == ASSUME NEW r, NEW d, NEW q \in Requests
                     PROVE  q \in UsesOn(r, d) <=> Gave(q, r, d)
<1>1. q \in UsesOn(r, d) => Gave(q, r, d)
  BY DEF UsesOn, Gave, Range
<1>2. Gave(q, r, d) => q \in UsesOn(r, d)
  BY DEF UsesOn, Uses, Gave, Range
<1> QED
  BY <1>1, <1>2

\* A step of request q that gives nothing, and keeps its user once it has one.
LEMMA SameUses ==
    ASSUME PromoTyped, NEW q \in Requests, NEW rec \in RequestRecord, request' = [request EXCEPT ![q] = rec],
           rec.applied = request[q].applied, request[q].pc = "new" \/ rec.user = request[q].user,
           NEW r, NEW d, NEW u
    PROVE  Uses(r)' = Uses(r) /\ UsesOn(r, d)' = UsesOn(r, d) /\ UsesBy(r, u)' = UsesBy(r, u)
<1>1. request'[q] = rec /\ \A p \in Requests : p # q => request'[p] = request[p]
  BY DEF PromoTyped, RequestsTyped
<1>2. \A p \in Requests : request'[p].applied = request[p].applied
  BY <1>1
<1>3. Uses(r)' = Uses(r)
  BY <1>2 DEF Uses
<1>4. UsesOn(r, d)' = UsesOn(r, d)
  BY <1>2, <1>3 DEF UsesOn
<1>5. request[q].pc = "new" => q \notin Uses(r)
  BY DEF PromoTyped, RequestsTyped, Uses
<1>6. UsesBy(r, u)' = UsesBy(r, u)
  <2>1. \A p \in Uses(r) : request'[p].user = request[p].user
    BY <1>1, <1>5 DEF Uses
  <2> QED
    BY <1>3, <2>1 DEF UsesBy
<1> QED
  BY <1>3, <1>4, <1>6

\* A step of request q that gives rule g today.
LEMMA NewUse ==
    ASSUME PromoTyped, NEW q \in Requests, NEW rec \in RequestRecord, request' = [request EXCEPT ![q] = rec],
           NEW g \in RuleIds, NEW a \in Int, rec.applied = Append(request[q].applied, [rule |-> g, amount |-> a, on |-> day]),
           rec.user = request[q].user, NEW r, NEW d, NEW u
    PROVE  /\ Uses(r)' \subseteq IF r = g THEN Uses(r) \cup {q} ELSE Uses(r)
           /\ UsesOn(r, d)' \subseteq IF r = g /\ d = day THEN UsesOn(r, d) \cup {q} ELSE UsesOn(r, d)
           /\ UsesBy(r, u)' \subseteq IF r = g /\ u = request[q].user THEN UsesBy(r, u) \cup {q} ELSE UsesBy(r, u)
<1>1. request'[q] = rec /\ \A p \in Requests : p # q => request'[p] = request[p]
  BY DEF PromoTyped, RequestsTyped
<1>2. PICK applied \in Applications : applied = request[q].applied
  BY DEF PromoTyped, RequestsTyped, RequestRecord
<1>3. PICK e : e = [rule |-> g, amount |-> a, on |-> day]
  OBVIOUS
<1>4. e \in [rule : RuleIds, amount : Int, on : 1 .. MaxDay] /\ e.rule = g /\ e.on = day
  BY <1>3 DEF PromoTyped, CountersTyped
<1>5. \A i \in DOMAIN rec.applied : rec.applied[i] = e \/ (i \in DOMAIN applied /\ rec.applied[i] = applied[i])
  BY SMTT(30), <1>2, <1>3, <1>4 DEF Applications
<1>6. ASSUME NEW p \in Uses(r)' PROVE p \in Uses(r) \/ (r = g /\ p = q)
  <2>1. CASE p # q
    BY <1>1, <1>6, <2>1 DEF Uses
  <2>2. CASE p = q
    BY SMTT(30), <1>1, <1>2, <1>4, <1>5, <1>6, <2>2 DEF Uses
  <2> QED
    BY <2>1, <2>2
<1>7. ASSUME NEW p \in UsesOn(r, d)' PROVE p \in UsesOn(r, d) \/ (r = g /\ d = day /\ p = q)
  <2>1. p \in Requests /\ \E i \in DOMAIN request'[p].applied : request'[p].applied[i].rule = r /\ request'[p].applied[i].on = d
    BY <1>7 DEF UsesOn, Uses, Range
  <2>2. CASE p # q
    <3>1. Gave(p, r, d)
      BY <1>1, <2>1, <2>2 DEF Gave
    <3> QED
      BY <2>1, <3>1, UsesOnMeans
  <2>3. CASE p = q
    <3>1. \E i \in DOMAIN rec.applied : rec.applied[i].rule = r /\ rec.applied[i].on = d
      BY <1>1, <2>1, <2>3
    <3>2. (r = g /\ d = day) \/ Gave(q, r, d)
      BY <1>2, <1>4, <1>5, <3>1 DEF Gave
    <3> QED
      BY <2>3, <3>2, UsesOnMeans
  <2> QED
    BY <2>2, <2>3
<1>8. \A p \in Requests : request'[p].user = request[p].user
  BY <1>1
<1>9. \A p \in UsesBy(r, u)' : p \in UsesBy(r, u) \/ (r = g /\ u = request[q].user /\ p = q)
  BY <1>6, <1>8 DEF UsesBy, Uses
<1> QED
  BY <1>6, <1>7, <1>9

\* Nothing given and no counter lowered: the counts stay within the counters.
LEMMA CountsGrow ==
    ASSUME LimitsKept, CountersTyped, NEW r \in RuleIds, Limited(r), CountersWithin(r)',
           Uses(r)' = Uses(r), \A d \in 1 .. MaxDay : UsesOn(r, d)' = UsesOn(r, d),
           \A u \in Buyers : UsesBy(r, u)' = UsesBy(r, u),
           usedTotal'[r] \in Nat, usedTotal[r] <= usedTotal'[r],
           \A d \in 1 .. MaxDay : usedDaily'[r][d] \in Nat /\ usedDaily[r][d] <= usedDaily'[r][d],
           \A u \in Buyers : Allowance(r, u)' \in Int /\ Allowance(r, u) \in Int /\ Allowance(r, u) <= Allowance(r, u)'
    PROVE  CountersWithin(r)' /\ UsesCounted(r)'
<1>1. UsesCounted(r)
  BY DEF LimitsKept
<1>2. Cardinality(Uses(r)) \in Nat /\ \A d : Cardinality(UsesOn(r, d)) \in Nat /\ \A u : Cardinality(UsesBy(r, u)) \in Nat
  BY UsesFinite, FS_CardinalityType
<1>3. Cardinality(Uses(r)') <= usedTotal'[r]
  BY <1>1, <1>2 DEF UsesCounted, CountersTyped
<1>4. ASSUME NEW d \in 1 .. MaxDay PROVE Cardinality(UsesOn(r, d)') <= usedDaily'[r][d]
  <2>1. Cardinality(UsesOn(r, d)) \in Nat /\ usedDaily[r][d] \in Nat /\ Cardinality(UsesOn(r, d)) <= usedDaily[r][d]
    BY <1>1, UsesFinite, FS_CardinalityType DEF UsesCounted, CountersTyped
  <2> QED
    BY <2>1
<1>5. ASSUME NEW u \in Buyers PROVE Cardinality(UsesBy(r, u)') <= Allowance(r, u)'
  <2>1. Cardinality(UsesBy(r, u)) \in Nat /\ Cardinality(UsesBy(r, u)) <= Allowance(r, u)
    BY <1>1, UsesFinite, FS_CardinalityType DEF UsesCounted
  <2> QED
    BY <2>1
<1> QED
  BY <1>3, <1>4, <1>5 DEF UsesCounted

\* What a user may still use is a number.
LEMMA AllowanceTyped == ASSUME CountersTyped, NEW r \in RuleIds, NEW u \in Buyers PROVE Allowance(r, u) \in Int
<1>1. Body[r].limits.user \in Nat /\ usedBy[r][u] \in [count : Nat, made : 0 .. MaxDay] /\ day \in Int /\ day - 1 \in Int
      /\ usedBy[r][u].made - 1 \in Int /\ usedBy[r][u].count \in Nat
  BY LimitsTyped, UsersKeys DEF CountersTyped
<1>2. (day - 1) * Body[r].limits.user \in Int /\ (usedBy[r][u].made - 1) * Body[r].limits.user \in Int
  BY <1>1, Days
<1> QED
  BY <1>1, <1>2 DEF Allowance

\* A step of a request that touches no counter and gives nothing.
LEMMA QuietKeeps ==
    ASSUME PromoTyped, LimitsKept, NEW q \in Requests, NEW rec \in RequestRecord, request' = [request EXCEPT ![q] = rec],
           rec.applied = request[q].applied, request[q].pc = "new" \/ rec.user = request[q].user,
           UNCHANGED <<countVars, day>>
    PROVE  LimitsKept'
<1>1. ASSUME NEW r \in RuleIds, Limited(r) PROVE CountersWithin(r)' /\ UsesCounted(r)'
  <2>1. CountersWithin(r) /\ UsesCounted(r)
    BY <1>1 DEF LimitsKept
  <2>2. \A d, u : Uses(r)' = Uses(r) /\ UsesOn(r, d)' = UsesOn(r, d) /\ UsesBy(r, u)' = UsesBy(r, u)
    BY SameUses
  <2>3. CountersWithin(r)' /\ \A u \in Buyers : Allowance(r, u)' = Allowance(r, u)
    BY <2>1 DEF countVars, CountersWithin, Allowance
  <2> QED
    BY <2>1, <2>2, <2>3 DEF UsesCounted, countVars
<1> QED
  BY <1>1 DEF LimitsKept

\* A script that failed after its effect: the counters are raised and nothing is given.
LEMMA RaisedKeeps ==
    ASSUME PromoTyped, LimitsKept, NEW q \in Requests, NEW rec \in RequestRecord, request' = [request EXCEPT ![q] = rec],
           rec.applied = request[q].applied, rec.user = request[q].user,
           NEW g \in RuleIds, NEW b \in Buyers, Limited(g), Positive(g), MayIncrement(g, b), Increment(g, b), day' = day
    PROVE  LimitsKept'
<1>1. CountersTyped /\ CountersTyped'
  BY Incremented DEF PromoTyped
<1>2. ASSUME NEW r \in RuleIds, Limited(r) PROVE CountersWithin(r)' /\ UsesCounted(r)'
  <2>1. CountersWithin(r)'
    BY <1>2, Incremented
  <2>2. \A d, u : Uses(r)' = Uses(r) /\ UsesOn(r, d)' = UsesOn(r, d) /\ UsesBy(r, u)' = UsesBy(r, u)
    BY SameUses
  <2>3. usedTotal'[r] \in Nat /\ usedTotal[r] \in Nat /\ usedTotal[r] <= usedTotal'[r]
    <3>1. usedTotal'[r] \in Nat /\ usedTotal[r] \in Nat
      BY <1>1 DEF CountersTyped
    <3> QED
      BY <3>1, Incremented
  <2>4. ASSUME NEW d \in 1 .. MaxDay PROVE usedDaily'[r][d] \in Nat /\ usedDaily[r][d] <= usedDaily'[r][d]
    <3>1. usedDaily[r][d] \in Nat /\ usedDaily'[r][d] \in Nat
      BY <1>1 DEF CountersTyped
    <3> QED
      BY <3>1, Incremented
  <2>5. ASSUME NEW u \in Buyers PROVE Allowance(r, u)' \in Int /\ Allowance(r, u) \in Int /\ Allowance(r, u) <= Allowance(r, u)'
    <3>1. Allowance(r, u) \in Int
      BY <1>1, AllowanceTyped
    <3>2. Allowance(r, u)' \in Int
      <4>1. Body[r].limits.user \in Nat /\ usedBy'[r][u] \in [count : Nat, made : 0 .. MaxDay] /\ day' - 1 \in Int
            /\ usedBy'[r][u].made - 1 \in Int /\ usedBy'[r][u].count \in Nat
        <5>1. CountersTyped'
          BY <1>1
        <5> QED
          BY <5>1, LimitsTyped DEF CountersTyped
      <4>2. (day' - 1) * Body[r].limits.user \in Int /\ (usedBy'[r][u].made - 1) * Body[r].limits.user \in Int
        BY <4>1, Days
      <4> QED
        BY <4>1, <4>2 DEF Allowance
    <3>3. CASE r = g /\ u = b
      BY <3>1, <3>2, <3>3, Incremented
    <3>4. CASE ~(r = g /\ u = b)
      BY <3>1, <3>2, <3>4, Incremented
    <3> QED
      BY <3>1, <3>2, <3>3, <3>4
  <2> QED
    BY <1>1, <1>2, <2>1, <2>2, <2>3, <2>4, <2>5, CountsGrow
<1> QED
  BY <1>2 DEF LimitsKept

\* A reserved rule is given: one use more where the counters were raised by one.
LEMMA GivenKeeps ==
    ASSUME PromoTyped, LimitsKept, NEW q \in Requests, NEW rec \in RequestRecord, request' = [request EXCEPT ![q] = rec],
           NEW g \in RuleIds, NEW a \in Int, rec.applied = Append(request[q].applied, [rule |-> g, amount |-> a, on |-> day]),
           rec.user = request[q].user, request[q].user \in Buyers,
           Limited(g) => Positive(g) /\ MayIncrement(g, request[q].user) /\ Increment(g, request[q].user),
           ~Limited(g) => UNCHANGED countVars,
           day' = day
    PROVE  LimitsKept'
<1> DEFINE b == request[q].user
<1>1. ASSUME NEW r \in RuleIds, Limited(r) PROVE CountersWithin(r)' /\ UsesCounted(r)'
  <2>0. CountersWithin(r) /\ UsesCounted(r) /\ CountersTyped
    BY <1>1 DEF LimitsKept, PromoTyped
  <2>1. \A d, u : /\ Uses(r)' \subseteq IF r = g THEN Uses(r) \cup {q} ELSE Uses(r)
                  /\ UsesOn(r, d)' \subseteq IF r = g /\ d = day THEN UsesOn(r, d) \cup {q} ELSE UsesOn(r, d)
                  /\ UsesBy(r, u)' \subseteq IF r = g /\ u = b THEN UsesBy(r, u) \cup {q} ELSE UsesBy(r, u)
    BY NewUse
  <2>2. /\ CountersWithin(r)'
        /\ usedTotal'[r] = IF r = g THEN usedTotal[r] + 1 ELSE usedTotal[r]
        /\ \A d \in 1 .. MaxDay : usedDaily'[r][d] = IF r = g /\ d = day THEN usedDaily[r][d] + 1 ELSE usedDaily[r][d]
        /\ \A u \in Buyers : IF r = g /\ u = b THEN Allowance(r, u)' >= Allowance(r, u) + 1 ELSE Allowance(r, u)' = Allowance(r, u)
    <3>1. CASE Limited(g)
      <4>1. Positive(g) /\ MayIncrement(g, b) /\ Increment(g, b)
        BY <3>1
      <4> HIDE DEF b
      <4>2. b \in Buyers
        BY DEF b
      <4> QED
        BY <1>1, <3>1, <4>1, <4>2, Incremented
    <3>2. CASE ~Limited(g)
      <4>1. r # g /\ UNCHANGED countVars
        BY <1>1, <3>2
      <4> QED
        BY <2>0, <4>1 DEF countVars, CountersWithin, Allowance
    <3> QED
      BY <3>1, <3>2
  <2> HIDE DEF b
  <2>3. Cardinality(Uses(r)') <= usedTotal'[r]
    <3>1. Cardinality(Uses(r)) \in Nat /\ Cardinality(Uses(r)) <= usedTotal[r] /\ usedTotal[r] \in Nat /\ IsFiniteSet(Uses(r))
      BY <2>0, UsesFinite, FS_CardinalityType DEF UsesCounted, CountersTyped
    <3>2. IF r = g THEN Cardinality(Uses(r)') <= Cardinality(Uses(r)) + 1 ELSE Cardinality(Uses(r)') <= Cardinality(Uses(r))
      BY <2>1, <3>1, OneMore, NoMore
    <3>3. Cardinality(Uses(r)') \in Nat
      <4>1. IsFiniteSet(Uses(r)')
        <5>1. Uses(r)' \subseteq Requests
          BY DEF Uses
        <5> QED
          BY <5>1, FS_Subset, PromoAssumption
      <4> QED
        BY <4>1, FS_CardinalityType
    <3> QED
      BY <2>2, <3>1, <3>2, <3>3
  <2>4. ASSUME NEW d \in 1 .. MaxDay PROVE Cardinality(UsesOn(r, d)') <= usedDaily'[r][d]
    <3>1. /\ Cardinality(UsesOn(r, d)) \in Nat /\ Cardinality(UsesOn(r, d)) <= usedDaily[r][d] /\ usedDaily[r][d] \in Nat
          /\ IsFiniteSet(UsesOn(r, d))
      BY <2>0, UsesFinite, FS_CardinalityType DEF UsesCounted, CountersTyped
    <3>2. IF r = g /\ d = day THEN Cardinality(UsesOn(r, d)') <= Cardinality(UsesOn(r, d)) + 1
          ELSE Cardinality(UsesOn(r, d)') <= Cardinality(UsesOn(r, d))
      <4>1. UsesOn(r, d)' \subseteq IF r = g /\ d = day THEN UsesOn(r, d) \cup {q} ELSE UsesOn(r, d)
        BY <2>1
      <4> QED
        BY <3>1, <4>1, OneMore, NoMore
    <3>3. Cardinality(UsesOn(r, d)') \in Nat
      <4>1. IsFiniteSet(UsesOn(r, d)')
        <5>1. UsesOn(r, d)' \subseteq Requests
          BY DEF UsesOn, Uses
        <5> QED
          BY <5>1, FS_Subset, PromoAssumption
      <4> QED
        BY <4>1, FS_CardinalityType
    <3> QED
      BY <2>2, <3>1, <3>2, <3>3
  <2>5. ASSUME NEW u \in Buyers PROVE Cardinality(UsesBy(r, u)') <= Allowance(r, u)'
    <3>1. /\ Cardinality(UsesBy(r, u)) \in Nat /\ Cardinality(UsesBy(r, u)) <= Allowance(r, u) /\ Allowance(r, u) \in Int
          /\ IsFiniteSet(UsesBy(r, u))
      BY <2>0, UsesFinite, FS_CardinalityType, AllowanceTyped DEF UsesCounted
    <3>2. IF r = g /\ u = b THEN Cardinality(UsesBy(r, u)') <= Cardinality(UsesBy(r, u)) + 1
          ELSE Cardinality(UsesBy(r, u)') <= Cardinality(UsesBy(r, u))
      <4>1. UsesBy(r, u)' \subseteq IF r = g /\ u = b THEN UsesBy(r, u) \cup {q} ELSE UsesBy(r, u)
        BY <2>1
      <4> QED
        BY <3>1, <4>1, OneMore, NoMore
    <3>3. Cardinality(UsesBy(r, u)') \in Nat
      <4>1. IsFiniteSet(UsesBy(r, u)')
        <5>1. UsesBy(r, u)' \subseteq Requests
          BY DEF UsesBy, Uses
        <5> QED
          BY <5>1, FS_Subset, PromoAssumption
      <4> QED
        BY <4>1, FS_CardinalityType
    <3>4. Allowance(r, u)' \in Int
      <4>1. CountersTyped'
        <5>1. CASE Limited(g)
          BY <5>1, Incremented
        <5>2. CASE ~Limited(g)
          BY <2>0, <5>2 DEF CountersTyped, countVars
        <5> QED
          BY <5>1, <5>2
      <4>2. Body[r].limits.user \in Nat /\ usedBy'[r][u] \in [count : Nat, made : 0 .. MaxDay] /\ day' - 1 \in Int
            /\ usedBy'[r][u].made - 1 \in Int /\ usedBy'[r][u].count \in Nat
        BY SMTT(30), <4>1, LimitsTyped DEF CountersTyped
      <4>3. (day' - 1) * Body[r].limits.user \in Int /\ (usedBy'[r][u].made - 1) * Body[r].limits.user \in Int
        BY <4>2, Days
      <4> QED
        BY <4>2, <4>3 DEF Allowance
    <3>5. CASE r = g /\ u = b
      <4>1. Allowance(r, u)' >= Allowance(r, u) + 1
        BY <2>2, <3>5
      <4> QED
        BY <3>1, <3>2, <3>3, <3>4, <3>5, <4>1
    <3>6. CASE ~(r = g /\ u = b)
      <4>1. Allowance(r, u)' = Allowance(r, u)
        BY <2>2, <3>6
      <4> QED
        BY <3>1, <3>2, <3>3, <3>6, <4>1
    <3> QED
      BY <3>5, <3>6
  <2> QED
    BY <2>2, <2>3, <2>4, <2>5 DEF UsesCounted
<1> QED
  BY <1>1 DEF LimitsKept

-----------------------------------------------------------------------------
(* The steps.                                                                *)

\* What a request may do that touches no counter.
LEMMA QuietStep ==
    ASSUME PromoInv, NEW q \in Requests, NEW rec \in RequestRecord, request' = [request EXCEPT ![q] = rec],
           rec.applied = request[q].applied, request[q].pc = "new" \/ rec.user = request[q].user,
           rec.pc # "new", rec.cart \in Carts /\ rec.user \in Buyers,
           \A r \in RuleIds : /\ r \in rec.passed \/ (rec.pc \in {"groups", "stack"} /\ r \in rec.todo)
                             /\ Limited(r)
                             => Positive(r),
           UNCHANGED <<rule, day, countVars>>, failures' \in 0 .. MaxFailures
    PROVE  PromoInv'
<1>1. LimitsKept'
  BY QuietKeeps DEF PromoInv
<1>2. request'[q] = rec /\ (\A p \in Requests : p # q => request'[p] = request[p]) /\ request' \in [Requests -> RequestRecord]
  BY DEF PromoInv, PromoTyped, RequestsTyped
<1>3. PromoTyped'
  BY <1>2 DEF PromoInv, PromoTyped, RequestsTyped, CountersTyped, countVars
<1>4. Checked'
  BY <1>2 DEF PromoInv, Checked
<1> QED
  BY <1>1, <1>3, <1>4 DEF PromoInv

\* What a request in progress is.
LEMMA InProgress ==
    ASSUME PromoInv, NEW q \in Requests
    PROVE  /\ request[q] \in RequestRecord
           /\ request[q].pc # "new" => request[q].cart \in Carts /\ request[q].user \in Buyers
  BY DEF PromoInv, PromoTyped, RequestsTyped

Starts(q, u, cart, p, todo) ==
    request' = [request EXCEPT ![q] = [request[q] EXCEPT !.pc = p, !.cart = cart, !.user = u,
                                                         !.remaining = cart.total, !.todo = todo]]

\* A request begins with the rules that accept its cart.
LEMMA BeginIs ==
    ASSUME RequestsTyped, NEW q \in Requests, NEW u \in Buyers, NEW cart \in Carts, NEW v \in BOOLEAN,
           Begin(q, u, cart, v)
    PROVE  \E p \in {"validate", "evaluate"}, todo \in SUBSET RuleIds : Starts(q, u, cart, p, todo)
<1>1. PICK p \in {"validate", "evaluate"} : p = IF v THEN "validate" ELSE "evaluate"
  OBVIOUS
<1>2. PICK todo \in SUBSET RuleIds :
         todo = {r \in RuleIds : /\ rule[r] = "active" /\ IsActive(Body[r], day)
                                 /\ EvalCondition(UnmarshalCondition(Body[r].conditions), cart)}
  OBVIOUS
<1>3. request' = [request EXCEPT ![q].pc = p, ![q].cart = cart, ![q].user = u,
                                 ![q].remaining = cart.total, ![q].todo = todo]
  BY <1>1, <1>2 DEF Begin
<1>4. request \in [Requests -> RequestRecord]
  BY DEF RequestsTyped
<1>5. Starts(q, u, cart, p, todo)
  BY <1>3, <1>4 DEF Starts
<1> QED BY <1>5

\* The steps of a request that apply no rule keep the invariant.
LEMMA RequestSteps ==
    ASSUME PromoInv, NEW q \in Requests,
           \/ \E u \in Buyers, cart \in Carts, v \in BOOLEAN : Begin(q, u, cart, v)
           \/ \E r \in RuleIds : CheckAllLimits(q, r)
           \/ Evaluated(q) \/ GroupsDone(q) \/ Answer(q)
    PROVE  PromoInv'
<1> DEFINE old == request[q]
<1>1. old \in RequestRecord /\ (old.pc # "new" => old.cart \in Carts /\ old.user \in Buyers)
  BY InProgress
<1>2. failures \in 0 .. MaxFailures /\ MaxFailures \in Nat /\ CountersTyped
  BY PromoAssumption DEF PromoInv, PromoTyped
<1>3. \A r \in RuleIds : /\ r \in old.passed \/ (old.pc \in {"groups", "stack"} /\ r \in old.todo)
                        /\ Limited(r)
                        => Positive(r)
  BY DEF PromoInv, Checked
<1>4. ASSUME NEW u \in Buyers, NEW cart \in Carts, NEW v \in BOOLEAN, Begin(q, u, cart, v) PROVE PromoInv'
  <2>1. old.pc = "new" /\ UNCHANGED <<rule, day, countVars, failures>>
    BY <1>4 DEF Begin
  <2>2. PICK p \in {"validate", "evaluate"}, todo \in SUBSET RuleIds : Starts(q, u, cart, p, todo)
    <3>1. RequestsTyped
      BY DEF PromoInv, PromoTyped
    <3> QED BY <1>4, <3>1, BeginIs
  <2>3. cart.total \in Int
    BY PromoAssumption
  <2>4. PICK rec : rec = [old EXCEPT !.pc = p, !.cart = cart, !.user = u, !.remaining = cart.total, !.todo = todo]
    OBVIOUS
  <2>5. rec \in RequestRecord /\ rec.applied = old.applied /\ rec.pc = p /\ rec.cart = cart /\ rec.user = u /\ rec.passed = old.passed
    <3>1. p \in Paths /\ cart \in Carts \cup {NoCart} /\ u \in Users
      BY DEF Paths, Users
    <3> QED
      BY <1>1, <2>3, <2>4, <3>1 DEF RequestRecord
  <2> HIDE DEF old
  <2>6. request' = [request EXCEPT ![q] = rec]
    BY <2>2, <2>4 DEF old, Starts
  <2> QED
    BY <1>2, <1>3, <2>1, <2>5, <2>6, QuietStep DEF old
<1>5. ASSUME NEW r \in RuleIds, CheckAllLimits(q, r) PROVE PromoInv'
  <2>1. old.pc \in {"validate", "evaluate"} /\ UNCHANGED <<rule, day, countVars>> /\ failures' \in 0 .. MaxFailures
    BY <1>2, <1>5 DEF CheckAllLimits
  <2>2. PICK passed \in {old.passed, old.passed \cup {r}} :
           /\ request' = [request EXCEPT ![q] = [old EXCEPT !.todo = @ \ {r}, !.passed = passed]]
           /\ passed = old.passed \/ ~Limited(r) \/ WithinLimits(r, old.user)
    <3>1. old = [old EXCEPT !.passed = old.passed]
      BY <1>1 DEF RequestRecord
    <3>2. CASE request' = [request EXCEPT ![q].todo = @ \ {r}]
      <4>1. [old EXCEPT !.todo = @ \ {r}] = [old EXCEPT !.todo = @ \ {r}, !.passed = old.passed]
        BY <1>1 DEF RequestRecord
      <4> QED
        BY <3>2, <4>1 DEF PromoInv, PromoTyped, RequestsTyped
    <3>3. CASE request' = [request EXCEPT ![q].todo = @ \ {r}, ![q].passed = @ \cup {r}] /\ (~Limited(r) \/ WithinLimits(r, old.user))
      BY <3>3 DEF PromoInv, PromoTyped, RequestsTyped
    <3> QED
      BY <1>5, <3>2, <3>3 DEF CheckAllLimits, Limited
  <2>3. PICK rec : rec = [old EXCEPT !.todo = @ \ {r}, !.passed = passed]
    OBVIOUS
  <2>4. rec \in RequestRecord /\ rec.applied = old.applied /\ rec.pc = old.pc /\ rec.cart = old.cart /\ rec.user = old.user
        /\ rec.passed = passed
    BY <1>1, <2>3 DEF RequestRecord
  <2>5. WithinLimits(r, old.user) => Positive(r)
    <3>1. old.user \in Buyers
      BY <1>1, <2>1
    <3>2. usedTotal[r] \in Nat /\ usedDaily[r][day] \in Nat /\ usedBy[r][old.user].count \in Nat
      BY <1>2, <3>1 DEF CountersTyped
    <3>3. Body[r].limits.total \in Nat /\ Body[r].limits.daily \in Nat /\ Body[r].limits.user \in Nat
      BY LimitsTyped
    <3> HIDE DEF old
    <3> QED
      BY <3>2, <3>3 DEF WithinLimits, Positive
  <2> HIDE DEF old
  <2>6. \A s \in RuleIds : s \in rec.passed /\ Limited(s) => Positive(s)
    BY <1>3, <2>2, <2>4, <2>5
  <2>7. request' = [request EXCEPT ![q] = rec]
    BY <2>2, <2>3
  <2>8. rec.cart \in Carts /\ rec.user \in Buyers /\ rec.pc \in {"validate", "evaluate"}
    BY <1>1, <2>1, <2>4
  <2> QED
    BY <2>1, <2>4, <2>6, <2>7, <2>8, QuietStep DEF old
<1>6. CASE Evaluated(q)
  <2>1. old.pc \in {"validate", "evaluate"} /\ old.todo = {} /\ UNCHANGED <<rule, day, countVars, failures>>
    BY <1>6 DEF Evaluated
  <2>2. PICK p \in {"validated", "groups"}, todo \in {{}, old.passed} :
           request' = [request EXCEPT ![q] = [old EXCEPT !.pc = p, !.todo = todo]]
    <3>1. CASE request' = [request EXCEPT ![q].pc = "validated"]
      <4>1. [old EXCEPT !.pc = "validated"] = [old EXCEPT !.pc = "validated", !.todo = {}]
        BY <1>1, <2>1 DEF RequestRecord
      <4> QED
        BY <3>1, <4>1 DEF PromoInv, PromoTyped, RequestsTyped
    <3>2. CASE request' = [request EXCEPT ![q].pc = "groups", ![q].todo = @ \cup request[q].passed]
      <4>1. old.todo \cup old.passed = old.passed
        BY <2>1
      <4> QED
        BY <3>2, <4>1 DEF PromoInv, PromoTyped, RequestsTyped
    <3> QED
      BY <1>6, <3>1, <3>2 DEF Evaluated
  <2>3. PICK rec : rec = [old EXCEPT !.pc = p, !.todo = todo]
    OBVIOUS
  <2>4. rec \in RequestRecord /\ rec.applied = old.applied /\ rec.pc = p /\ rec.cart = old.cart /\ rec.user = old.user
        /\ rec.passed = old.passed /\ rec.todo \subseteq old.passed
    BY <1>1, <2>3 DEF RequestRecord, Paths
  <2> HIDE DEF old
  <2>5. request' = [request EXCEPT ![q] = rec]
    BY <2>2, <2>3
  <2>6. \A s \in RuleIds : (s \in rec.passed \/ s \in rec.todo) /\ Limited(s) => Positive(s)
    BY <1>3, <2>4
  <2> QED
    BY <1>1, <1>2, <2>1, <2>4, <2>5, <2>6, QuietStep DEF old
<1>7. CASE GroupsDone(q)
  <2>1. old.pc = "groups" /\ UNCHANGED <<rule, day, countVars, failures>>
    BY <1>7 DEF GroupsDone
  <2>2. PICK rec : rec = [old EXCEPT !.pc = "stack"]
    OBVIOUS
  <2>3. request' = [request EXCEPT ![q] = rec]
    BY <1>7, <2>2 DEF GroupsDone, PromoInv, PromoTyped, RequestsTyped
  <2>4. rec \in RequestRecord /\ rec.applied = old.applied /\ rec.pc = "stack" /\ rec.cart = old.cart /\ rec.user = old.user
        /\ rec.passed = old.passed /\ rec.todo = old.todo
    BY <1>1, <2>2 DEF RequestRecord, Paths
  <2> HIDE DEF old
  <2> QED
    BY <1>1, <1>2, <1>3, <2>1, <2>3, <2>4, QuietStep DEF old
<1>8. CASE Answer(q)
  <2>1. old.pc = "stack" /\ UNCHANGED <<rule, day, countVars, failures>> /\ old.cart.total \in Int /\ old.remaining \in Int
    BY <1>1, <1>8, PromoAssumption DEF Answer, RequestRecord
  <2>2. PICK rec : rec = [old EXCEPT !.pc = "answered", !.total = old.cart.total - old.remaining,
                                     !.final = IF old.remaining < 0 THEN 0 ELSE old.remaining]
    OBVIOUS
  <2>3. request' = [request EXCEPT ![q] = rec]
    BY <1>8, <2>2 DEF Answer, PromoInv, PromoTyped, RequestsTyped
  <2>4. old.cart.total - old.remaining \in Int /\ (IF old.remaining < 0 THEN 0 ELSE old.remaining) \in Nat
    BY <2>1
  <2>5. rec \in RequestRecord /\ rec.applied = old.applied /\ rec.pc = "answered" /\ rec.cart = old.cart /\ rec.user = old.user
        /\ rec.passed = old.passed
    BY <1>1, <2>2, <2>4 DEF RequestRecord, Paths
  <2> HIDE DEF old
  <2> QED
    BY <1>1, <1>2, <1>3, <2>1, <2>3, <2>5, QuietStep DEF old
<1> QED
  BY <1>4, <1>5, <1>6, <1>7, <1>8

\* A request that skips rules, whose script may have failed after its effect.
LEMMA SkipStep ==
    ASSUME PromoInv, NEW q \in Requests, request[q].pc \in {"groups", "stack"}, NEW r \in request[q].todo,
           NEW done \in SUBSET RuleIds, Skip(q, done), UNCHANGED <<rule, day>>,
           TryReserve(r, request[q].user, FALSE) \/ UNCHANGED <<countVars, failures>>
    PROVE  PromoInv'
<1> DEFINE old == request[q]
<1>1. old \in RequestRecord /\ old.cart \in Carts /\ old.user \in Buyers
  BY InProgress
<1>2. PICK rec : rec = [old EXCEPT !.todo = @ \ done]
  OBVIOUS
<1>3. request' = [request EXCEPT ![q] = rec]
  BY <1>2 DEF Skip, PromoInv, PromoTyped, RequestsTyped
<1>4. /\ rec \in RequestRecord /\ rec.applied = old.applied /\ rec.user = old.user /\ rec.cart = old.cart
      /\ rec.pc = old.pc /\ rec.passed = old.passed /\ rec.todo \subseteq old.todo
  BY <1>1, <1>2 DEF RequestRecord
<1>5. failures' \in 0 .. MaxFailures
  BY PromoAssumption DEF TryReserve, PromoInv, PromoTyped
<1>6. r \in RuleIds
  BY <1>1 DEF RequestRecord
<1>7. Limited(r) => Positive(r)
  BY <1>6 DEF PromoInv, Checked
<1> HIDE DEF old
<1>8. CASE UNCHANGED countVars
  <2>1. \A s \in RuleIds : /\ s \in rec.passed \/ (rec.pc \in {"groups", "stack"} /\ s \in rec.todo)
                           /\ Limited(s)
                           => Positive(s)
    BY <1>4 DEF old, PromoInv, Checked
  <2>2. rec.pc # "new" /\ rec.cart \in Carts /\ rec.user \in Buyers
    BY <1>1, <1>4 DEF old
  <2> QED
    BY <1>3, <1>4, <1>5, <1>8, <2>1, <2>2, QuietStep DEF old
<1>9. CASE Limited(r) /\ MayIncrement(r, old.user) /\ Increment(r, old.user)
  <2>1. LimitsKept'
    BY <1>1, <1>3, <1>4, <1>6, <1>7, <1>9, RaisedKeeps DEF PromoInv, old
  <2>2. CountersTyped'
    BY <1>1, <1>6, <1>7, <1>9, Incremented DEF PromoInv
  <2>3. request'[q] = rec /\ (\A p \in Requests : p # q => request'[p] = request[p]) /\ request' \in [Requests -> RequestRecord]
    BY <1>3, <1>4 DEF PromoInv, PromoTyped, RequestsTyped
  <2>4. PromoTyped'
    <3>1. rec.pc # "new" /\ rec.cart \in Carts /\ rec.user \in Buyers
      BY <1>1, <1>4 DEF old
    <3>2. RequestsTyped'
      BY <2>3, <3>1 DEF PromoInv, PromoTyped, RequestsTyped
    <3> QED
      BY <1>5, <2>2, <3>2 DEF PromoInv, PromoTyped
  <2>5. Checked'
    BY <1>4, <2>3 DEF PromoInv, Checked, old
  <2> QED
    BY <2>1, <2>4, <2>5 DEF PromoInv
<1> QED
  BY <1>8, <1>9 DEF TryReserve, Limited, old

\* A computed discount is a number.
LEMMA DiscountIsInt == ASSUME NEW r \in RuleIds, NEW amount \in Int PROVE CalculateDiscount(Body[r].effect, amount) \in Int
<1>1. PICK v \in Nat : v = Body[r].effect.value
  BY PromoAssumption
<1>2. amount * v \in Int /\ 100 * v \in Int /\ 100 * amount \in Int
  BY SMT
<1>3. 100 * Smaller(v, amount) \in Int
  BY <1>2 DEF Smaller
<1>4. PICK t : t = Body[r].effect.type
  OBVIOUS
<1> QED
  BY <1>1, <1>2, <1>3, <1>4 DEF CalculateDiscount

\* Rounding to cents gives numbers.
LEMMA CentsAreInt == ASSUME NEW n \in Int PROVE Round2(n) \subseteq Int
<1>1. n \div 100 \in Int /\ n \div 100 + 1 \in Int
  BY SMT
<1> QED
  BY <1>1 DEF Round2

\* A request that reserves a rule and gives its discount.
LEMMA GiveStep ==
    ASSUME PromoInv, NEW q \in Requests, request[q].pc \in {"groups", "stack"}, NEW r \in request[q].todo,
           NEW done \in SUBSET RuleIds, NEW stacks \in Int, ApplyRule(q, r, done, stacks),
           TryReserve(r, request[q].user, TRUE), UNCHANGED <<rule, day>>
    PROVE  PromoInv'
<1> DEFINE old == request[q]
<1>1. old \in RequestRecord /\ old.cart \in Carts /\ old.user \in Buyers /\ r \in RuleIds
  <2>1. old \in RequestRecord /\ old.cart \in Carts /\ old.user \in Buyers
    BY InProgress
  <2> QED
    BY <2>1 DEF RequestRecord
<1>2. PICK shown \in Int, rest \in Int :
         request' = [request EXCEPT ![q] = [old EXCEPT !.todo = @ \ done, !.remaining = rest,
            !.applied = Append(@, [rule |-> r, amount |-> shown, on |-> day]), !.stacked = @ + stacks]]
  <2>1. PICK shown, rest :
           /\ shown \in Round2(CalculateDiscount(Body[r].effect, request[q].remaining))
           /\ rest \in Round2(100 * request[q].remaining - CalculateDiscount(Body[r].effect, request[q].remaining))
           /\ request' = [request EXCEPT ![q].todo = @ \ done, ![q].remaining = rest,
                 ![q].applied = Append(@, [rule |-> r, amount |-> shown, on |-> day]), ![q].stacked = @ + stacks]
    BY DEF ApplyRule
  <2>2. request[q].remaining \in Int
    BY <1>1 DEF RequestRecord
  <2>3. shown \in Int /\ rest \in Int
    <3>1. PICK disc \in Int : disc = CalculateDiscount(Body[r].effect, request[q].remaining)
      BY <1>1, <2>2, DiscountIsInt
    <3>2. 100 * request[q].remaining - disc \in Int
      BY <2>2, <3>1
    <3> QED
      BY <2>1, <3>1, <3>2, CentsAreInt
  <2> QED
    BY <2>1, <2>3 DEF PromoInv, PromoTyped, RequestsTyped
<1>3. PICK rec : rec = [old EXCEPT !.todo = @ \ done, !.remaining = rest,
            !.applied = Append(@, [rule |-> r, amount |-> shown, on |-> day]), !.stacked = @ + stacks]
  OBVIOUS
<1>4. request' = [request EXCEPT ![q] = rec]
  BY <1>2, <1>3
<1>5. Append(old.applied, [rule |-> r, amount |-> shown, on |-> day]) \in Applications /\ old.stacked + stacks \in Int
  <2>1. [rule |-> r, amount |-> shown, on |-> day] \in [rule : RuleIds, amount : Int, on : 1 .. MaxDay]
    BY <1>1 DEF PromoInv, PromoTyped, CountersTyped
  <2>2. old.applied \in Applications /\ old.stacked \in Int
    BY <1>1 DEF RequestRecord
  <2> QED
    BY <2>1, <2>2 DEF Applications
<1>6. /\ rec \in RequestRecord /\ rec.applied = Append(old.applied, [rule |-> r, amount |-> shown, on |-> day])
      /\ rec.user = old.user /\ rec.cart = old.cart /\ rec.pc = old.pc /\ rec.passed = old.passed /\ rec.todo \subseteq old.todo
  BY <1>1, <1>3, <1>5 DEF RequestRecord
<1>7. Limited(r) => Positive(r)
  BY <1>1 DEF PromoInv, Checked
<1> HIDE DEF old
<1>8. /\ Limited(r) => MayIncrement(r, old.user) /\ Increment(r, old.user)
      /\ ~Limited(r) => UNCHANGED countVars
      /\ UNCHANGED failures
  BY DEF TryReserve, Limited, old
<1>9. LimitsKept'
  BY <1>1, <1>4, <1>6, <1>7, <1>8, GivenKeeps DEF PromoInv, old
<1>10. CountersTyped'
  <2>1. CASE Limited(r)
    BY <1>1, <1>7, <1>8, <2>1, Incremented DEF PromoInv
  <2>2. CASE ~Limited(r)
    BY <1>8, <2>2 DEF PromoInv, PromoTyped, CountersTyped, countVars
  <2> QED
    BY <2>1, <2>2
<1>11. request'[q] = rec /\ (\A p \in Requests : p # q => request'[p] = request[p]) /\ request' \in [Requests -> RequestRecord]
  BY <1>4, <1>6 DEF PromoInv, PromoTyped, RequestsTyped
<1>12. PromoTyped'
  <2>1. rec.pc # "new" /\ rec.cart \in Carts /\ rec.user \in Buyers
    BY <1>1, <1>6 DEF old
  <2>2. RequestsTyped'
    BY <1>11, <2>1 DEF PromoInv, PromoTyped, RequestsTyped
  <2> QED
    BY <1>8, <1>10, <2>2 DEF PromoInv, PromoTyped
<1>13. Checked'
  BY <1>6, <1>11 DEF PromoInv, Checked, old
<1> QED
  BY <1>9, <1>12, <1>13 DEF PromoInv

\* ApplyGroup and ApplyStackable keep PromoInv.
LEMMA ApplySteps ==
    ASSUME PromoInv, NEW q \in Requests, NEW r \in RuleIds, ApplyGroup(q, r) \/ ApplyStackable(q, r)
    PROVE  PromoInv'
<1>1. CASE ApplyGroup(q, r)
  <2> DEFINE group == {s \in request[q].todo : Body[s].group = Body[r].group}
  <2>1. request[q].pc = "groups" /\ r \in request[q].todo /\ UNCHANGED <<rule, day>>
    BY <1>1 DEF ApplyGroup
  <2>2. group \in SUBSET RuleIds
    BY InProgress DEF RequestRecord
  <2>3. \/ TryReserve(r, request[q].user, TRUE) /\ ApplyRule(q, r, group, 0)
        \/ TryReserve(r, request[q].user, FALSE) /\ Skip(q, group)
    BY <1>1 DEF ApplyGroup
  <2> HIDE DEF group
  <2>4. CASE TryReserve(r, request[q].user, TRUE) /\ ApplyRule(q, r, group, 0)
    <3>1. PICK n \in Int : n = 0
      OBVIOUS
    <3>2. ApplyRule(q, r, group, n)
      BY <2>4, <3>1
    <3> QED
      BY <2>1, <2>2, <2>4, <3>2, GiveStep
  <2>5. CASE TryReserve(r, request[q].user, FALSE) /\ Skip(q, group)
    BY <2>1, <2>2, <2>5, SkipStep
  <2> QED
    BY <2>3, <2>4, <2>5
<1>2. CASE ApplyStackable(q, r)
  <2>1. request[q].pc = "stack" /\ r \in request[q].todo /\ UNCHANGED <<rule, day>>
    BY <1>2 DEF ApplyStackable
  <2>2. \/ TryReserve(r, request[q].user, TRUE) /\ ApplyRule(q, r, {r}, 1)
        \/ TryReserve(r, request[q].user, FALSE) /\ Skip(q, {r})
        \/ Skip(q, {r}) /\ UNCHANGED <<countVars, failures>>
    BY <1>2 DEF ApplyStackable
  <2>3. {r} \in SUBSET RuleIds
    OBVIOUS
  <2>4. CASE TryReserve(r, request[q].user, TRUE) /\ ApplyRule(q, r, {r}, 1)
    <3>1. PICK n \in Int : n = 1
      OBVIOUS
    <3>2. ApplyRule(q, r, {r}, n)
      BY <2>4, <3>1
    <3> QED
      BY <2>1, <2>3, <2>4, <3>2, GiveStep
  <2>5. CASE Skip(q, {r}) /\ (TryReserve(r, request[q].user, FALSE) \/ UNCHANGED <<countVars, failures>>)
    BY <2>1, <2>3, <2>5, SkipStep
  <2> QED
    BY <2>2, <2>4, <2>5
<1> QED
  BY <1>1, <1>2

\* A day ends, a key expires, a rule is created: what a user may have had never shrinks.
LEMMA OtherSteps ==
    ASSUME PromoInv,
           NextDay \/ \E r \in RuleIds : CreateRule(r) \/ \E u \in Buyers : UserKeyExpires(r, u)
    PROVE  PromoInv'
<1>1. UNCHANGED request /\ \A r, d, u : Uses(r)' = Uses(r) /\ UsesOn(r, d)' = UsesOn(r, d) /\ UsesBy(r, u)' = UsesBy(r, u)
  <2>1. UNCHANGED request
    BY DEF NextDay, CreateRule, UserKeyExpires
  <2> QED
    BY <2>1 DEF Uses, UsesOn, UsesBy
<1>2. Checked' /\ RequestsTyped'
  BY <1>1 DEF PromoInv, Checked, PromoTyped, RequestsTyped
<1>3. ASSUME NEW r \in RuleIds, CreateRule(r) PROVE PromoInv'
  <2>1. UNCHANGED <<day, countVars, failures>> /\ rule' \in [RuleIds -> {"none", "active", "refused"}]
    BY <1>3 DEF CreateRule, PromoInv, PromoTyped
  <2>2. PromoTyped'
    BY <1>2, <2>1 DEF PromoInv, PromoTyped, CountersTyped, countVars
  <2>3. LimitsKept'
    BY <1>1, <2>1 DEF PromoInv, LimitsKept, CountersWithin, UsesCounted, Allowance, countVars
  <2> QED
    BY <1>2, <2>2, <2>3 DEF PromoInv
<1>4. CASE NextDay
  <2>1. UNCHANGED <<rule, countVars, failures>> /\ day \in 1 .. MaxDay /\ day' = day + 1 /\ day' \in 1 .. MaxDay
    BY <1>4, PromoAssumption DEF NextDay, PromoInv, PromoTyped, CountersTyped
  <2>2. PromoTyped' /\ CountersTyped /\ CountersTyped'
    BY <1>2, <2>1 DEF PromoInv, PromoTyped, CountersTyped, countVars
  <2>3. ASSUME NEW r \in RuleIds, Limited(r) PROVE CountersWithin(r)' /\ UsesCounted(r)'
    <3>1. CountersWithin(r) /\ UsesCounted(r)
      BY <2>3 DEF PromoInv, LimitsKept
    <3>2. CountersWithin(r)'
      <4>1. \A u \in Buyers : usedBy[r][u].made \in Nat
        BY <2>2, UsersKeys
      <4> QED
        BY <2>1, <3>1, <4>1 DEF CountersWithin, countVars
    <3>3. ASSUME NEW u \in Buyers PROVE Allowance(r, u)' \in Int /\ Allowance(r, u) \in Int /\ Allowance(r, u) <= Allowance(r, u)'
      <4>1. Body[r].limits.user \in Nat /\ day - 1 \in Int /\ day' - 1 \in Int /\ day - 1 <= day' - 1
        BY <2>1, LimitsTyped
      <4>2. /\ (day - 1) * Body[r].limits.user \in Int /\ (day' - 1) * Body[r].limits.user \in Int
            /\ (day - 1) * Body[r].limits.user <= (day' - 1) * Body[r].limits.user
        BY <4>1, Days
      <4>3. Allowance(r, u) \in Int
        BY <2>2, AllowanceTyped
      <4> QED
        BY <2>1, <4>2, <4>3 DEF Allowance, countVars
    <3>4. usedTotal'[r] = usedTotal[r] /\ usedTotal[r] \in Nat
      BY <2>1, <2>2 DEF CountersTyped, countVars
    <3>5. \A d \in 1 .. MaxDay : usedDaily'[r][d] = usedDaily[r][d] /\ usedDaily[r][d] \in Nat
      BY <2>1, <2>2 DEF CountersTyped, countVars
    <3> QED
      BY <1>1, <2>2, <2>3, <3>2, <3>3, <3>4, <3>5, CountsGrow DEF PromoInv
  <2> QED
    BY <1>2, <2>2, <2>3 DEF PromoInv, LimitsKept
<1>5. ASSUME NEW s \in RuleIds, NEW v \in Buyers, UserKeyExpires(s, v) PROVE PromoInv'
  <2>1. /\ usedBy[s][v].count > 0 /\ usedBy[s][v].made < day /\ usedBy' = [usedBy EXCEPT ![s][v].count = 0]
        /\ UNCHANGED <<rule, day, usedTotal, usedDaily, request, failures>>
    BY <1>5 DEF UserKeyExpires
  <2>2. CountersTyped /\ usedBy[s][v] \in [count : Nat, made : 0 .. MaxDay]
    BY UsersKeys DEF PromoInv, PromoTyped
  <2>3. /\ usedBy'[s][v] = [count |-> 0, made |-> usedBy[s][v].made]
        /\ \A r \in RuleIds, u \in Buyers : r # s \/ u # v => usedBy'[r][u] = usedBy[r][u]
    <3>1. usedBy' = [usedBy EXCEPT ![s] = [usedBy[s] EXCEPT ![v] = [usedBy[s][v] EXCEPT !.count = 0]]]
      BY <2>1
    <3>2. [usedBy[s][v] EXCEPT !.count = 0] = [count |-> 0, made |-> usedBy[s][v].made]
      BY <2>2
    <3> QED
      BY <2>2, <3>1, <3>2 DEF CountersTyped
  <2>4. usedBy' \in [RuleIds -> [Buyers -> [count : Nat, made : 0 .. MaxDay]]]
    <3>1. [count |-> 0, made |-> usedBy[s][v].made] \in [count : Nat, made : 0 .. MaxDay]
      BY <2>2
    <3>2. \A r \in RuleIds, u \in Buyers : usedBy'[r][u] \in [count : Nat, made : 0 .. MaxDay]
      <4>1. ASSUME NEW r \in RuleIds, NEW u \in Buyers PROVE usedBy'[r][u] \in [count : Nat, made : 0 .. MaxDay]
        <5>1. CASE r = s /\ u = v
          BY <2>3, <3>1, <5>1
        <5>2. CASE r # s \/ u # v
          BY <2>2, <2>3, <5>2, UsersKeys
        <5> QED
          BY <5>1, <5>2
      <4> QED
        BY <4>1
    <3>3. usedBy' = [r \in RuleIds |-> [u \in Buyers |-> usedBy'[r][u]]]
      BY <2>1, <2>2 DEF CountersTyped
    <3> QED
      BY <3>2, <3>3
  <2>5. PromoTyped' /\ CountersTyped'
    BY <1>2, <2>1, <2>2, <2>4 DEF PromoInv, PromoTyped, CountersTyped
  <2>6. ASSUME NEW r \in RuleIds, Limited(r) PROVE CountersWithin(r)' /\ UsesCounted(r)'
    <3>1. CountersWithin(r) /\ UsesCounted(r)
      BY <2>6 DEF PromoInv, LimitsKept
    <3>2. CountersWithin(r)'
      <4>1. Body[r].limits.user \in Nat
        BY LimitsTyped
      <4> QED
        BY <2>1, <2>3, <3>1, <4>1 DEF CountersWithin
    <3>3. ASSUME NEW u \in Buyers PROVE Allowance(r, u)' \in Int /\ Allowance(r, u) \in Int /\ Allowance(r, u) <= Allowance(r, u)'
      <4>1. Allowance(r, u) \in Int
        BY <2>2, AllowanceTyped
      <4>2. CASE r # s \/ u # v
        BY <2>1, <2>3, <4>1, <4>2 DEF Allowance
      <4>3. CASE r = s /\ u = v
        <5> DEFINE key == usedBy[s][v]
        <5> DEFINE n == Body[s].limits.user
        <5>1. n \in Nat /\ key.count \in Nat /\ key.count <= n /\ key.made \in Nat /\ day \in Nat /\ key.made - 1 + 1 <= day - 1
          BY <2>1, <2>2, <3>1, <4>3, LimitsTyped DEF CountersWithin, CountersTyped
        <5>2. Allowance(r, u) = (key.made - 1) * n + key.count /\ Allowance(r, u)' = (day - 1) * n
          BY <2>1, <2>3, <4>3 DEF Allowance
        <5> HIDE DEF key, n
        <5>3. (key.made - 1) * n + n <= (day - 1) * n /\ (key.made - 1) * n \in Int /\ (day - 1) * n \in Int
          <6>1. key.made * n \in Int /\ (day - 1) * n \in Int /\ key.made * n <= (day - 1) * n /\ (key.made - 1) * n \in Int
            BY <5>1, Days
          <6>2. (key.made - 1) * n + n = key.made * n
            BY <5>1, SMT
          <6> QED
            BY <6>1, <6>2
        <5> QED
          BY <5>1, <5>2, <5>3
      <4> QED
        BY <4>2, <4>3
    <3>4. usedTotal'[r] = usedTotal[r] /\ usedTotal[r] \in Nat
      BY <2>1, <2>2 DEF CountersTyped
    <3>5. \A d \in 1 .. MaxDay : usedDaily'[r][d] = usedDaily[r][d] /\ usedDaily[r][d] \in Nat
      BY <2>1, <2>2 DEF CountersTyped
    <3> QED
      BY <1>1, <2>2, <2>6, <3>2, <3>3, <3>4, <3>5, CountsGrow DEF PromoInv
  <2> QED
    BY <1>2, <2>5, <2>6 DEF PromoInv, LimitsKept
<1> QED
  BY <1>3, <1>4, <1>5

\* The invariant holds in every state of every behaviour.
LEMMA PromoInvariant == PromoSpec => []PromoInv
<1>1. PromoInit => PromoInv
  <2> SUFFICES ASSUME PromoInit PROVE PromoInv
    OBVIOUS
  <2>1. NewRequest \in RequestRecord
    <3>1. <<>> \in Applications
      BY DEF Applications
    <3> QED
      BY <3>1 DEF NewRequest, RequestRecord, Users, Paths
  <2>2. \A q \in Requests : request[q] = NewRequest
    BY DEF PromoInit
  <2>3. NewRequest.pc = "new" /\ NewRequest.applied = <<>> /\ NewRequest.passed = {} /\ NewRequest.todo = {}
    BY DEF NewRequest
  <2>4. RequestsTyped
    <3>1. request = [q \in Requests |-> NewRequest]
      BY DEF PromoInit
    <3> QED
      BY <2>1, <2>2, <2>3, <3>1 DEF RequestsTyped
  <2>5. CountersTyped
    BY PromoAssumption DEF PromoInit, CountersTyped
  <2>6. PromoTyped
    BY <2>4, <2>5, PromoAssumption DEF PromoInit, PromoTyped
  <2>7. Checked
    BY <2>2, <2>3 DEF Checked
  <2>8. ASSUME NEW r \in RuleIds PROVE CountersWithin(r) /\ UsesCounted(r)
    <3>1. Body[r].limits.total \in Nat /\ Body[r].limits.daily \in Nat /\ Body[r].limits.user \in Nat
      BY LimitsTyped
    <3>2. /\ usedTotal[r] = 0 /\ (\A d \in 1 .. MaxDay : usedDaily[r][d] = 0) /\ day = 1
          /\ \A u \in Buyers : usedBy[r][u] = [count |-> 0, made |-> 0]
      BY DEF PromoInit
    <3>3. CountersWithin(r)
      BY <3>1, <3>2 DEF CountersWithin
    <3>4. Uses(r) = {} /\ (\A d : UsesOn(r, d) = {}) /\ (\A u : UsesBy(r, u) = {})
      BY <2>2, <2>3 DEF Uses, UsesOn, UsesBy
    <3>5. \A u \in Buyers : Allowance(r, u) = 0
      BY <3>1, <3>2 DEF Allowance
    <3> QED
      BY <3>2, <3>3, <3>4, <3>5, FS_EmptySet DEF UsesCounted
  <2> QED
    BY <2>6, <2>7, <2>8 DEF PromoInv, LimitsKept
<1>2. PromoInv /\ [PromoNext]_promoVars => PromoInv'
  <2> SUFFICES ASSUME PromoInv, [PromoNext]_promoVars PROVE PromoInv'
    OBVIOUS
  <2>1. CASE UNCHANGED promoVars
    BY ZenonT(60), <2>1 DEF promoVars, countVars, PromoInv, PromoTyped, CountersTyped, RequestsTyped, Checked, LimitsKept,
       CountersWithin, UsesCounted, Uses, UsesOn, UsesBy, Allowance
  <2> QED
    BY <2>1, RequestSteps, ApplySteps, OtherSteps DEF PromoNext
<1> QED
  BY <1>1, <1>2, PTL DEF PromoSpec

\* The rules, counters and requests of the promotion engine keep their types.
THEOREM PromoTypeCorrect == PromoSpec => []PromoTypeOK
<1>1. PromoInv => PromoTypeOK
  BY DEF PromoInv, PromoTyped, CountersTyped, RequestsTyped, RequestRecord, Paths, PromoTypeOK
<1> QED
  BY PromoInvariant, <1>1, PTL

\* However requests interleave, scripts fail and keys expire, a limited rule is given no
\* more often than its limits say.
THEOREM LimitsHold == PromoSpec => []UsageBounded
<1>1. ASSUME PromoInv PROVE UsageBounded
  <2> SUFFICES ASSUME NEW r \in RuleIds, HasAny(Body[r].limits)
               PROVE  /\ Cardinality(Uses(r)) <= usedTotal[r] /\ usedTotal[r] <= Body[r].limits.total
                      /\ \A d \in 1 .. day : Cardinality(UsesOn(r, d)) <= Body[r].limits.daily
                      /\ \A u \in Buyers :
                            Cardinality({q \in Uses(r) : request[q].user = u}) <= day * Body[r].limits.user
    BY DEF UsageBounded
  <2>1. CountersWithin(r) /\ UsesCounted(r) /\ CountersTyped
    BY <1>1 DEF PromoInv, LimitsKept, Limited, PromoTyped
  <2>2. ASSUME NEW d \in 1 .. day PROVE Cardinality(UsesOn(r, d)) <= Body[r].limits.daily
    <3>1. d \in 1 .. MaxDay
      BY <2>1, PromoAssumption DEF CountersTyped
    <3>2. Cardinality(UsesOn(r, d)) \in Nat /\ usedDaily[r][d] \in Nat /\ Body[r].limits.daily \in Nat
      BY <2>1, <3>1, UsesFinite, FS_CardinalityType, LimitsTyped DEF CountersTyped
    <3> QED
      BY <2>1, <3>1, <3>2 DEF CountersWithin, UsesCounted
  <2>3. ASSUME NEW u \in Buyers PROVE Cardinality({q \in Uses(r) : request[q].user = u}) <= day * Body[r].limits.user
    <3> DEFINE key == usedBy[r][u]
    <3> DEFINE n == Body[r].limits.user
    <3>1. Cardinality(UsesBy(r, u)) \in Nat /\ Cardinality(UsesBy(r, u)) <= Allowance(r, u)
      BY <2>1, UsesFinite, FS_CardinalityType DEF UsesCounted
    <3>2. n \in Nat /\ key.count \in Nat /\ key.made \in Nat /\ key.count <= n /\ key.made <= day /\ day \in Nat
      BY <2>1, UsersKeys, LimitsTyped DEF CountersWithin, CountersTyped
    <3>3. Allowance(r, u) = IF key.count = 0 THEN (day - 1) * n ELSE (key.made - 1) * n + key.count
      BY DEF Allowance
    <3> HIDE DEF key, n
    <3>4. (day - 1) * n \in Int /\ day * n \in Int /\ (day - 1) * n <= day * n
      BY <3>2, Days
    <3>5. (key.made - 1) * n \in Int /\ (key.made - 1) * n <= (day - 1) * n
      BY <3>2, Days
    <3>6. (day - 1) * n + n = day * n
      BY <3>2, SMT
    <3>7. Allowance(r, u) <= day * n /\ Allowance(r, u) \in Int
      BY <3>2, <3>3, <3>4, <3>5, <3>6
    <3>8. Cardinality(UsesBy(r, u)) <= day * n
      BY <3>1, <3>4, <3>7
    <3> QED
      BY <3>8 DEF UsesBy, n
  <2> QED
    BY <2>1, <2>2, <2>3 DEF CountersWithin, UsesCounted
<1> QED
  BY PromoInvariant, <1>1, PTL

-----------------------------------------------------------------------------
(* What an answer adds up to.                                                *)

Amounts == [rule : RuleIds, amount : Int, on : 1 .. MaxDay]

\* f adds up the amounts of s.
AddsUp(f, s) == f = [i \in 0 .. Len(s) |-> IF i = 0 THEN 0 ELSE f[i - 1] + s[i].amount]

\* An application has an amount and a rule.
LEMMA AmountIsInt == ASSUME NEW s \in Applications, NEW i \in 1 .. Len(s) PROVE s[i].amount \in Int /\ s[i].rule \in RuleIds
<1>1. s \in Seq(Amounts)
  BY DEF Applications, Amounts
<1>2. s[i] \in Amounts
  BY <1>1, ElementOfSeq
<1> QED BY <1>2 DEF Amounts

\* The first n numbers of s have a sum.
HasSum(s, n) == \E f \in [0 .. n -> Int] : f[0] = 0 /\ \A i \in 1 .. n : f[i] = f[i - 1] + s[i]

\* A sum of the first n - 1 numbers extends to the first n.
LEMMA OneLonger == ASSUME NEW s \in Seq(Int), NEW n \in 1 .. Len(s), HasSum(s, n - 1) PROVE HasSum(s, n)
<1>1. n \in Nat /\ n - 1 \in Nat /\ n - 1 >= 0 /\ n \notin 0 .. n - 1 /\ 0 \in 0 .. n - 1 /\ n >= 1 /\ n - 1 \in 0 .. n - 1
  OBVIOUS
<1>2. PICK f \in [0 .. n - 1 -> Int] : f[0] = 0 /\ \A i \in 1 .. n - 1 : f[i] = f[i - 1] + s[i]
  BY DEF HasSum
<1>3. PICK a \in Int : a = s[n]
  BY ElementOfSeq
<1> DEFINE g == [i \in 0 .. n |-> IF i = n THEN f[n - 1] + a ELSE f[i]]
<1>4. f[n - 1] \in Int /\ f[n - 1] + a \in Int
  BY <1>1, <1>2, <1>3
<1>5. ASSUME NEW i \in 0 .. n PROVE (IF i = n THEN f[n - 1] + a ELSE f[i]) \in Int
  <2>1. i # n => i \in 0 .. n - 1
    BY <1>1
  <2> QED BY <1>2, <1>4, <2>1
<1>6. g \in [0 .. n -> Int]
  BY <1>5
<1>7. 0 \in 0 .. n /\ 0 # n /\ n \in 0 .. n /\ n - 1 \in 0 .. n /\ n - 1 # n
  BY <1>1
<1>8. g[0] = 0 /\ g[n] = f[n - 1] + a /\ g[n - 1] = f[n - 1]
  BY <1>2, <1>7
<1>9. ASSUME NEW i \in 1 .. n - 1 PROVE g[i] = g[i - 1] + s[i]
  <2>1. i \in 0 .. n /\ i # n /\ i - 1 \in 0 .. n /\ i - 1 # n
    BY <1>1
  <2> QED BY <1>2, <2>1
<1> HIDE DEF g
<1>10. \A i \in 1 .. n : g[i] = g[i - 1] + s[i]
  <2>1. \A i \in 1 .. n : i = n \/ i \in 1 .. n - 1
    BY <1>1
  <2> QED BY <1>3, <1>8, <1>9, <2>1
<1> QED BY <1>6, <1>8, <1>10 DEF HasSum

\* Every list of numbers has its partial sums.
LEMMA EverySum == ASSUME NEW s \in Seq(Int), NEW n \in 0 .. Len(s) PROVE HasSum(s, n)
<1> DEFINE T == {k \in 0 .. Len(s) : ~ HasSum(s, k)}
<1>1. HasSum(s, 0)
  <2>1. PICK f : f = [i \in 0 .. 0 |-> 0]
    OBVIOUS
  <2>2. f \in [0 .. 0 -> Int] /\ f[0] = 0 /\ \A i \in 1 .. 0 : FALSE
    BY <2>1
  <2> QED BY <2>2 DEF HasSum
<1>2. SUFFICES ASSUME T # {} PROVE FALSE
  OBVIOUS
<1>3. T \subseteq Nat
  OBVIOUS
<1>4. PICK k \in T : \A j \in T : k <= j
  BY <1>2, <1>3, LeastNumber
<1>5. k \in 1 .. Len(s) /\ ~ HasSum(s, k)
  <2>1. k \in 0 .. Len(s) /\ ~ HasSum(s, k)
    OBVIOUS
  <2>2. k # 0
    BY <1>1, <2>1
  <2> QED BY <2>1, <2>2
<1>6. k - 1 \in 0 .. Len(s) /\ ~ (k <= k - 1)
  BY <1>5
<1>7. HasSum(s, k - 1)
  BY <1>4, <1>6
<1> QED BY <1>5, <1>7, OneLonger

\* The shown discount is the last of the partial sums.
LEMMA SumOfShown ==
    ASSUME NEW s, s \in Applications
    PROVE  \E f : f \in [0 .. Len(s) -> Int] /\ AddsUp(f, s) /\ Shown(s) = f[Len(s)]
<1> DEFINE sum == CHOOSE f : AddsUp(f, s)
<1>1. Len(s) \in Nat /\ Len(s) \in 0 .. Len(s)
  BY DEF Applications
<1>2. PICK f \in [0 .. Len(s) -> Int] : f[0] = 0 /\ \A i \in 1 .. Len(s) : f[i] = f[i - 1] + s[i].amount
  <2> DEFINE amounts == [i \in 1 .. Len(s) |-> s[i].amount]
  <2>1. \A i \in 1 .. Len(s) : s[i].amount \in Int
    BY AmountIsInt
  <2>2. amounts \in Seq(Int) /\ Len(amounts) = Len(s)
    BY <1>1, <2>1, IsASeq
  <2>3. \A i \in 1 .. Len(s) : amounts[i] = s[i].amount
    OBVIOUS
  <2> HIDE DEF amounts
  <2>4. HasSum(amounts, Len(s))
    BY <1>1, <2>2, EverySum
  <2> QED BY <2>3, <2>4 DEF HasSum
<1>3. \A i \in 0 .. Len(s) : f[i] = IF i = 0 THEN 0 ELSE f[i - 1] + s[i].amount
  <2>1. \A i \in 0 .. Len(s) : i = 0 \/ i \in 1 .. Len(s)
    BY <1>1
  <2> QED BY <1>2, <2>1
<1>4. AddsUp(f, s)
  BY <1>2, <1>3 DEF AddsUp
<1>5. AddsUp(sum, s)
  BY <1>4
<1>6. Shown(s) = sum[Len(s)]
  BY DEF Shown, AddsUp
<1> HIDE DEF sum
<1>7. sum = [i \in 0 .. Len(s) |-> IF i = 0 THEN 0 ELSE sum[i - 1] + s[i].amount]
  BY <1>5 DEF AddsUp
<1>8. \A i \in 0 .. Len(s) : sum[i] = IF i = 0 THEN 0 ELSE sum[i - 1] + s[i].amount
  BY <1>7
<1>9. \A i \in 0 .. Len(s) : sum[i] = f[i]
  <2> DEFINE T == {k \in 0 .. Len(s) : sum[k] # f[k]}
  <2> SUFFICES ASSUME T # {} PROVE FALSE
    OBVIOUS
  <2>1. PICK k \in T : \A j \in T : k <= j
    <3>1. T \subseteq Nat
      BY <1>1
    <3> QED BY <3>1, LeastNumber
  <2>2. k \in 0 .. Len(s) /\ sum[k] # f[k]
    OBVIOUS
  <2>3. k # 0
    BY <1>3, <1>8, <2>2
  <2>4. k - 1 \in 0 .. Len(s) /\ ~ (k <= k - 1)
    BY <2>2, <2>3
  <2>5. sum[k - 1] = f[k - 1]
    BY <2>1, <2>4
  <2> QED BY <1>3, <1>8, <2>2, <2>3, <2>5
<1> QED BY <1>1, <1>2, <1>4, <1>6, <1>9

\* Nothing applied shows a discount of nothing.
LEMMA ShownNothing == Shown(<<>>) = 0
<1>1. <<>> \in Applications /\ Len(<<>>) = 0
  BY DEF Applications
<1>2. PICK f : f \in [0 .. Len(<<>>) -> Int] /\ AddsUp(f, <<>>) /\ Shown(<<>>) = f[Len(<<>>)]
  BY <1>1, SumOfShown
<1>3. f[0] = 0
  BY <1>1, <1>2 DEF AddsUp
<1> QED BY <1>1, <1>2, <1>3

\* The shown discount is a number.
LEMMA ShownIsInt == ASSUME NEW s \in Applications PROVE Shown(s) \in Int
<1>1. Len(s) \in 0 .. Len(s)
  BY DEF Applications
<1>2. PICK f : f \in [0 .. Len(s) -> Int] /\ Shown(s) = f[Len(s)]
  BY SumOfShown
<1> QED BY <1>1, <1>2

\* One more application adds its amount to the shown discount.
LEMMA ShownOneMore ==
    ASSUME NEW s \in Applications, NEW a \in Amounts, NEW t, t = Append(s, a)
    PROVE  Shown(t) = Shown(s) + a.amount
<1>1. /\ t \in Applications /\ Len(t) = Len(s) + 1 /\ Len(s) \in Nat /\ t[Len(s) + 1] = a
      /\ \A i \in 1 .. Len(s) : t[i] = s[i]
  BY AppendProperties DEF Applications, Amounts
<1>2. PICK f : f \in [0 .. Len(s) -> Int] /\ AddsUp(f, s) /\ Shown(s) = f[Len(s)]
  BY SumOfShown
<1>3. PICK g : g \in [0 .. Len(t) -> Int] /\ AddsUp(g, t) /\ Shown(t) = g[Len(t)]
  BY <1>1, SumOfShown
<1>4. \A i \in 0 .. Len(s) : f[i] = IF i = 0 THEN 0 ELSE f[i - 1] + s[i].amount
  BY <1>2 DEF AddsUp
<1>5. \A i \in 0 .. Len(t) : g[i] = IF i = 0 THEN 0 ELSE g[i - 1] + t[i].amount
  BY <1>3 DEF AddsUp
<1>6. \A i \in 0 .. Len(s) : g[i] = f[i]
  <2> DEFINE T == {k \in 0 .. Len(s) : g[k] # f[k]}
  <2> SUFFICES ASSUME T # {} PROVE FALSE
    OBVIOUS
  <2>1. PICK k \in T : \A j \in T : k <= j
    <3>1. T \subseteq Nat
      BY <1>1
    <3> QED BY <3>1, LeastNumber
  <2>2. k \in 0 .. Len(s) /\ g[k] # f[k] /\ k \in 0 .. Len(t)
    BY <1>1
  <2>3. k # 0
    BY <1>4, <1>5, <2>2
  <2>4. k - 1 \in 0 .. Len(s) /\ ~ (k <= k - 1) /\ k \in 1 .. Len(s)
    BY <2>2, <2>3
  <2>5. g[k - 1] = f[k - 1] /\ t[k] = s[k]
    BY <1>1, <2>1, <2>4
  <2> QED BY <1>4, <1>5, <2>2, <2>3, <2>5
<1>7. Len(t) \in 0 .. Len(t) /\ Len(t) # 0 /\ Len(t) - 1 = Len(s) /\ Len(s) \in 0 .. Len(s)
  BY <1>1
<1>8. g[Len(t)] = g[Len(s)] + a.amount
  BY <1>1, <1>5, <1>7
<1> QED BY <1>2, <1>3, <1>6, <1>7, <1>8

\* A discount is not negative while something is left to pay, and takes no more than what
\* is missing when nothing is.
LEMMA DiscountBounds ==
    ASSUME NEW r \in RuleIds, NEW amount \in Int, NEW disc, disc = CalculateDiscount(Body[r].effect, amount)
    PROVE  /\ disc \in Int
           /\ amount >= 0 => disc >= 0
           /\ amount < 0 => 100 * amount - disc <= 0
<1>1. PICK v \in Nat : v = Body[r].effect.value
  BY PromoAssumption
<1>2. disc \in Int
  BY DiscountIsInt
<1>3. PICK t : t = Body[r].effect.type
  OBVIOUS
<1>4. CASE t = "percentage"
  <2>1. disc = amount * v
    BY <1>1, <1>3, <1>4 DEF CalculateDiscount
  <2>2. v <= 100
    BY <1>1, <1>3, <1>4, PromoAssumption
  <2>3. amount >= 0 => amount * v >= 0
    BY <1>1
  <2>4. amount < 0 => 100 * amount - amount * v <= 0
    <3>1. PICK k \in Nat : k = 100 - v
      BY <1>1, <2>2
    <3>2. amount * k = 100 * amount - amount * v
      BY <1>1, <3>1, SMT
    <3>3. amount < 0 => amount * k <= 0
      BY <3>1, SMT
    <3> QED BY <3>2, <3>3
  <2> QED BY <1>2, <2>1, <2>3, <2>4
<1>5. CASE t = "fixed"
  <2>1. disc = 100 * Smaller(v, amount)
    BY <1>1, <1>3, <1>5 DEF CalculateDiscount
  <2>2. /\ amount >= 0 => Smaller(v, amount) >= 0 /\ Smaller(v, amount) \in Int
        /\ amount < 0 => Smaller(v, amount) = amount
    BY <1>1 DEF Smaller
  <2> QED BY <1>2, <2>1, <2>2
<1>6. CASE t = "cashback"
  <2>1. disc = 100 * v
    BY <1>1, <1>3, <1>6 DEF CalculateDiscount
  <2> QED BY <1>1, <1>2, <2>1
<1>7. CASE t \notin {"percentage", "fixed", "cashback"}
  <2>1. disc = 0
    BY <1>3, <1>7 DEF CalculateDiscount
  <2> QED BY <1>2, <2>1
<1> QED BY <1>4, <1>5, <1>6, <1>7

\* Rounding a discount and what it leaves moves their sum by a cent at most, and never
\* raises what is left to pay.
LEMMA Rounded ==
    ASSUME NEW r \in RuleIds, NEW amount \in Int, NEW disc, disc = CalculateDiscount(Body[r].effect, amount),
           NEW shown \in Round2(disc), NEW rest \in Round2(100 * amount - disc)
    PROVE  /\ shown \in Int /\ rest \in Int
           /\ shown + rest - amount \in -1 .. 1
           /\ rest <= amount \/ rest <= 0
<1>1. disc \in Int /\ (amount >= 0 => disc >= 0) /\ (amount < 0 => 100 * amount - disc <= 0)
  BY DiscountBounds
<1>2. 100 * amount - disc \in Int
  BY <1>1
<1>3. shown \in Int /\ rest \in Int
  BY <1>1, <1>2, CentsAreInt
<1>4. 100 * shown - disc >= -50 /\ 100 * shown - disc <= 50
  BY <1>1, <1>3 DEF Round2
<1>5. 100 * rest - (100 * amount - disc) >= -50 /\ 100 * rest - (100 * amount - disc) <= 50
  BY <1>1, <1>2, <1>3 DEF Round2
<1>6. shown + rest - amount >= -1 /\ shown + rest - amount <= 1
  BY <1>1, <1>3, <1>4, <1>5
<1>7. rest <= amount \/ rest <= 0
  BY <1>1, <1>3, <1>5
<1> QED BY <1>3, <1>6, <1>7

-----------------------------------------------------------------------------
(* What a request has added up so far.                                       *)

Balanced(rec) ==
    /\ Shown(rec.applied) - (rec.cart.total - rec.remaining) \in -Len(rec.applied) .. Len(rec.applied)
    /\ rec.remaining <= rec.cart.total
    /\ rec.pc \in {"validate", "evaluate", "validated"} => rec.applied = <<>>
    /\ rec.pc = "answered" => /\ rec.total = rec.cart.total - rec.remaining
                              /\ rec.final = IF rec.remaining < 0 THEN 0 ELSE rec.remaining

\* What is left to do has none of the groups that gave something.
GroupOf(a) == Body[a.rule].group
OnceEach(rec) ==
    /\ \A i, j \in DOMAIN rec.applied :
          i # j => GroupOf(rec.applied[i]) = NoGroup \/ GroupOf(rec.applied[i]) # GroupOf(rec.applied[j])
    /\ rec.pc = "groups" => \A i \in DOMAIN rec.applied :
          /\ GroupOf(rec.applied[i]) # NoGroup
          /\ \A s \in rec.todo : Body[s].group # GroupOf(rec.applied[i])
    /\ rec.pc = "stack" => \A s \in rec.todo : Body[s].group = NoGroup

Adding == \A q \in Requests : request[q].pc # "new" => Balanced(request[q]) /\ OnceEach(request[q])

\* A step that rewrites one request keeps every answer adding up if that one does.
LEMMA OneRequest ==
    ASSUME PromoInv, Adding, NEW q \in Requests, NEW rec, request' = [request EXCEPT ![q] = rec],
           Balanced(rec), OnceEach(rec)
    PROVE  Adding'
<1>1. request'[q] = rec /\ \A p \in Requests : p # q => request'[p] = request[p]
  BY DEF PromoInv, PromoTyped, RequestsTyped
<1>2. ASSUME NEW p \in Requests, request'[p].pc # "new" PROVE Balanced(request'[p]) /\ OnceEach(request'[p])
  <2>1. CASE p = q
    BY <1>1, <2>1
  <2>2. CASE p # q
    BY <1>1, <1>2, <2>2 DEF Adding
  <2> QED BY <2>1, <2>2
<1>3. ASSUME NEW p \in Requests PROVE (Balanced(request[p]))' = Balanced(request'[p]) /\ (OnceEach(request[p]))' = OnceEach(request'[p])
  BY DEF Balanced, OnceEach, GroupOf
<1> QED BY <1>2, <1>3 DEF Adding

\* A step that leaves the amounts and what was given as they are.
LEMMA SameAmounts ==
    ASSUME NEW old, NEW rec, Balanced(old), OnceEach(old),
           rec.applied = old.applied, rec.remaining = old.remaining, rec.cart = old.cart,
           rec.pc = old.pc \/ (rec.pc \in {"validate", "evaluate", "validated", "groups"} /\ old.applied = <<>>)
                           \/ (rec.pc = "stack" /\ \A s \in rec.todo : Body[s].group = NoGroup),
           rec.pc # "answered", rec.pc \in {"groups", "stack"} /\ rec.pc = old.pc => rec.todo \subseteq old.todo
    PROVE  Balanced(rec) /\ OnceEach(rec)
<1>1. Balanced(rec)
  BY DEF Balanced
<1>2. OnceEach(rec)
  <2>1. old.applied = <<>> => DOMAIN old.applied = {}
    OBVIOUS
  <2> QED BY <2>1 DEF OnceEach
<1> QED BY <1>1, <1>2

\* A new request adds up.
LEMMA BeginAdds ==
    ASSUME PromoInv, Adding, NEW q \in Requests, NEW u \in Buyers, NEW cart \in Carts, NEW v \in BOOLEAN, Begin(q, u, cart, v)
    PROVE  Adding'
<1> DEFINE old == request[q]
<1>1. old \in RequestRecord /\ old.pc = "new" /\ old.applied = <<>>
  BY DEF Begin, PromoInv, PromoTyped, RequestsTyped
<1>2. PICK p \in {"validate", "evaluate"}, todo \in SUBSET RuleIds : Starts(q, u, cart, p, todo)
  <2>1. RequestsTyped
    BY DEF PromoInv, PromoTyped
  <2> QED BY <2>1, BeginIs
<1>3. PICK rec : rec = [old EXCEPT !.pc = p, !.cart = cart, !.user = u, !.remaining = cart.total, !.todo = todo]
  OBVIOUS
<1>4. rec.applied = <<>> /\ rec.pc \in {"validate", "evaluate"} /\ rec.cart = cart /\ rec.remaining = cart.total
  BY <1>1, <1>3 DEF RequestRecord
<1> HIDE DEF old
<1>5. request' = [request EXCEPT ![q] = rec]
  BY <1>2, <1>3 DEF old, Starts
<1>6. Balanced(rec)
  <2>1. cart.total \in Int /\ cart.total - (cart.total - cart.total) \in Int /\ 0 - (cart.total - cart.total) = 0
    BY PromoAssumption
  <2>2. Len(<<>>) = 0 /\ 0 \in -0 .. 0 /\ cart.total <= cart.total
    BY <2>1
  <2> QED BY <1>4, <2>1, <2>2, ShownNothing DEF Balanced
<1>7. OnceEach(rec)
  BY <1>4 DEF OnceEach
<1> QED BY <1>5, <1>6, <1>7, OneRequest

\* Checking limits, and the steps between phases, keep the answers adding up.
LEMMA EvaluationAdds ==
    ASSUME PromoInv, Adding, NEW q \in Requests,
           (\E r \in RuleIds : CheckAllLimits(q, r)) \/ Evaluated(q) \/ GroupsDone(q) \/ Answer(q)
    PROVE  Adding'
<1> DEFINE old == request[q]
<1>1. old \in RequestRecord /\ (old.pc # "new" => Balanced(old) /\ OnceEach(old))
  BY InProgress DEF Adding
<1>2. ASSUME NEW r \in RuleIds, CheckAllLimits(q, r) PROVE Adding'
  <2>1. old.pc \in {"validate", "evaluate"}
    BY <1>2 DEF CheckAllLimits
  <2>2. PICK passed : request' = [request EXCEPT ![q] = [old EXCEPT !.todo = @ \ {r}, !.passed = passed]]
    <3>1. old = [old EXCEPT !.passed = old.passed]
      BY <1>1 DEF RequestRecord
    <3>2. CASE request' = [request EXCEPT ![q].todo = @ \ {r}]
      <4>1. [old EXCEPT !.todo = @ \ {r}] = [old EXCEPT !.todo = @ \ {r}, !.passed = old.passed]
        BY <1>1 DEF RequestRecord
      <4> QED BY <3>2, <4>1 DEF PromoInv, PromoTyped, RequestsTyped
    <3>3. CASE request' = [request EXCEPT ![q].todo = @ \ {r}, ![q].passed = @ \cup {r}]
      BY <3>3 DEF PromoInv, PromoTyped, RequestsTyped
    <3> QED BY <1>2, <3>2, <3>3 DEF CheckAllLimits
  <2>3. PICK rec : rec = [old EXCEPT !.todo = @ \ {r}, !.passed = passed]
    OBVIOUS
  <2>4. rec.applied = old.applied /\ rec.remaining = old.remaining /\ rec.cart = old.cart /\ rec.pc = old.pc
    BY <1>1, <2>3 DEF RequestRecord
  <2> HIDE DEF old
  <2>5. request' = [request EXCEPT ![q] = rec]
    BY <2>2, <2>3
  <2>6. Balanced(rec) /\ OnceEach(rec)
    BY <1>1, <2>1, <2>4, SameAmounts
  <2> QED BY <2>5, <2>6, OneRequest
<1>3. CASE Evaluated(q)
  <2>1. old.pc \in {"validate", "evaluate"}
    BY <1>3 DEF Evaluated
  <2>2. old.applied = <<>>
    BY <1>1, <2>1 DEF Balanced
  <2>3. PICK p \in {"validated", "groups"}, todo \in SUBSET RuleIds :
           request' = [request EXCEPT ![q] = [old EXCEPT !.pc = p, !.todo = todo]]
    <3>0. old.todo \in SUBSET RuleIds /\ old.todo \cup old.passed \in SUBSET RuleIds
      BY <1>1 DEF RequestRecord
    <3>1. CASE request' = [request EXCEPT ![q].pc = "validated"]
      <4>1. [old EXCEPT !.pc = "validated"] = [old EXCEPT !.pc = "validated", !.todo = old.todo]
        BY <1>1 DEF RequestRecord
      <4> QED BY <3>0, <3>1, <4>1 DEF PromoInv, PromoTyped, RequestsTyped
    <3>2. CASE request' = [request EXCEPT ![q].pc = "groups", ![q].todo = @ \cup request[q].passed]
      BY <3>0, <3>2 DEF PromoInv, PromoTyped, RequestsTyped
    <3> QED BY <1>3, <3>1, <3>2 DEF Evaluated
  <2>4. PICK rec : rec = [old EXCEPT !.pc = p, !.todo = todo]
    OBVIOUS
  <2>5. rec.applied = old.applied /\ rec.remaining = old.remaining /\ rec.cart = old.cart /\ rec.pc = p
    BY <1>1, <2>4 DEF RequestRecord
  <2> HIDE DEF old
  <2>6. request' = [request EXCEPT ![q] = rec]
    BY <2>3, <2>4
  <2>7. Balanced(rec) /\ OnceEach(rec)
    <3>1. Balanced(old) /\ OnceEach(old)
      BY <1>1, <2>1
    <3>2. rec.pc \in {"validated", "groups"} /\ rec.pc # old.pc /\ rec.pc # "answered" /\ rec.pc # "stack"
      BY <2>1, <2>5
    <3> QED BY <2>2, <2>5, <3>1, <3>2, SameAmounts
  <2> QED BY <2>6, <2>7, OneRequest
<1>4. CASE GroupsDone(q)
  <2>1. old.pc = "groups" /\ \A r \in old.todo : Body[r].group = NoGroup
    BY <1>4 DEF GroupsDone
  <2>2. PICK rec : rec = [old EXCEPT !.pc = "stack"]
    OBVIOUS
  <2>3. request' = [request EXCEPT ![q] = rec]
    BY <1>4, <2>2 DEF GroupsDone, PromoInv, PromoTyped, RequestsTyped
  <2>4. rec.applied = old.applied /\ rec.remaining = old.remaining /\ rec.cart = old.cart /\ rec.pc = "stack" /\ rec.todo = old.todo
    BY <1>1, <2>2 DEF RequestRecord
  <2> HIDE DEF old
  <2>5. Balanced(rec) /\ OnceEach(rec)
    BY <1>1, <2>1, <2>4, SameAmounts
  <2> QED BY <2>3, <2>5, OneRequest
<1>5. CASE Answer(q)
  <2>1. old.pc = "stack"
    BY <1>5 DEF Answer
  <2>2. PICK rec : rec = [old EXCEPT !.pc = "answered", !.total = old.cart.total - old.remaining,
                                     !.final = IF old.remaining < 0 THEN 0 ELSE old.remaining]
    OBVIOUS
  <2>3. request' = [request EXCEPT ![q] = rec]
    BY <1>5, <2>2 DEF Answer, PromoInv, PromoTyped, RequestsTyped
  <2>4. /\ rec.applied = old.applied /\ rec.remaining = old.remaining /\ rec.cart = old.cart /\ rec.pc = "answered"
        /\ rec.total = old.cart.total - old.remaining /\ rec.final = IF old.remaining < 0 THEN 0 ELSE old.remaining
    BY <1>1, <2>2 DEF RequestRecord
  <2> HIDE DEF old
  <2>5. Balanced(rec) /\ OnceEach(rec)
    BY <1>1, <2>1, <2>4 DEF Balanced, OnceEach
  <2> QED BY <2>3, <2>5, OneRequest
<1> QED BY <1>2, <1>3, <1>4, <1>5

\* A rule is applied: one amount more, less to pay, and nothing left of its group.
LEMMA ApplyAdds ==
    ASSUME PromoInv, Adding, NEW q \in Requests, request[q].pc \in {"groups", "stack"}, NEW r \in request[q].todo,
           NEW done \in SUBSET RuleIds, NEW stacks \in Int, ApplyRule(q, r, done, stacks),
           request[q].pc = "groups" => /\ Body[r].group # NoGroup
                                       /\ \A s \in request[q].todo : s \notin done => Body[s].group # Body[r].group
    PROVE  Adding'
<1> DEFINE old == request[q]
<1>1. old \in RequestRecord /\ old.cart \in Carts /\ r \in RuleIds /\ Balanced(old) /\ OnceEach(old)
  <2>1. old \in RequestRecord /\ old.cart \in Carts
    BY InProgress
  <2> QED BY <2>1 DEF RequestRecord, Adding
<1>2. old.remaining \in Int /\ old.applied \in Applications /\ old.cart.total \in Nat
  BY <1>1, PromoAssumption DEF RequestRecord
<1>3. PICK disc : disc = CalculateDiscount(Body[r].effect, request[q].remaining)
  OBVIOUS
<1>4. PICK shown, rest :
         /\ shown \in Round2(disc) /\ rest \in Round2(100 * request[q].remaining - disc)
         /\ request' = [request EXCEPT ![q].todo = @ \ done, ![q].remaining = rest,
               ![q].applied = Append(@, [rule |-> r, amount |-> shown, on |-> day]), ![q].stacked = @ + stacks]
  BY <1>3 DEF ApplyRule
<1>5. /\ shown \in Int /\ rest \in Int /\ shown + rest - old.remaining \in -1 .. 1
      /\ rest <= old.remaining \/ rest <= 0
  BY ZenonT(60), <1>1, <1>2, <1>3, <1>4, Rounded
<1>6. PICK a : a = [rule |-> r, amount |-> shown, on |-> day]
  OBVIOUS
<1>7. a \in Amounts /\ a.rule = r /\ a.amount = shown
  BY <1>1, <1>5, <1>6 DEF Amounts, PromoInv, PromoTyped, CountersTyped
<1>8. PICK rec : rec = [old EXCEPT !.todo = @ \ done, !.remaining = rest, !.applied = Append(@, a), !.stacked = @ + stacks]
  OBVIOUS
<1>9. request' = [request EXCEPT ![q] = rec]
  BY <1>4, <1>6, <1>8 DEF PromoInv, PromoTyped, RequestsTyped
<1>10. /\ rec.todo = old.todo \ done /\ rec.remaining = rest /\ rec.applied = Append(old.applied, a)
       /\ rec.cart = old.cart /\ rec.pc = old.pc
  BY <1>1, <1>8 DEF RequestRecord
<1>11. PICK pc : pc = old.pc
  OBVIOUS
<1>12. pc \in {"groups", "stack"}
  BY <1>11
<1>13. PICK before \in Applications : before = old.applied
  BY <1>2
<1>14. PICK after : after = Append(before, a)
  OBVIOUS
<1>15. /\ Len(before) \in Nat /\ Len(after) = Len(before) + 1 /\ after[Len(before) + 1] = a
       /\ \A i \in 1 .. Len(before) : after[i] = before[i]
       /\ DOMAIN after = 1 .. Len(before) + 1 /\ DOMAIN before = 1 .. Len(before)
  <2>1. before \in Seq(Amounts)
    BY DEF Applications, Amounts
  <2>2. after \in Seq(Amounts) /\ Len(after) = Len(before) + 1
    BY <1>7, <1>14, <2>1, AppendProperties
  <2> QED BY <1>7, <1>14, <2>1, <2>2, AppendProperties, LenProperties
<1>16. Balanced(rec)
  <2>1. Shown(after) = Shown(before) + shown /\ Shown(before) \in Int
    BY <1>7, <1>14, ShownOneMore, ShownIsInt
  <2>2. Shown(before) - (old.cart.total - old.remaining) \in -Len(before) .. Len(before) /\ old.remaining <= old.cart.total
    BY <1>1, <1>13 DEF Balanced
  <2>3. PICK n \in Nat, x \in Int, t \in Nat, m \in Int :
           n = Len(before) /\ x = Shown(before) /\ t = old.cart.total /\ m = old.remaining
    BY <1>2, <1>15, <2>1
  <2>4. x - (t - m) >= -n /\ x - (t - m) <= n /\ m <= t /\ shown + rest - m >= -1 /\ shown + rest - m <= 1
    <3>1. x - (t - m) \in -n .. n /\ m <= t
      BY <2>2, <2>3
    <3>2. shown + rest - m \in -1 .. 1
      BY <1>5, <2>3
    <3> HIDE DEF old
    <3> QED BY <1>5, <3>1, <3>2
  <2>5. (x + shown) - (t - rest) >= -(n + 1) /\ (x + shown) - (t - rest) <= n + 1
    BY <1>5, <2>4
  <2>6. rest <= t
    <3>1. rest <= m \/ rest <= 0
      BY <1>5, <2>3
    <3> HIDE DEF old
    <3> QED BY <1>5, <2>4, <3>1
  <2>7. (x + shown) - (t - rest) \in -(n + 1) .. n + 1
    BY <1>5, <2>5
  <2>8. rec.applied = after /\ rec.cart.total = t /\ rec.remaining = rest /\ Shown(after) = x + shown /\ Len(after) = n + 1
    BY <1>10, <1>13, <1>14, <1>15, <2>1, <2>3
  <2>9. rec.pc = pc
    BY <1>10, <1>11
  <2> HIDE DEF old
  <2> QED BY <1>12, <2>6, <2>7, <2>8, <2>9 DEF Balanced
<1>17. OnceEach(rec)
  <2>1. OnceEach(old) /\ rec.applied = after /\ rec.pc = pc /\ old.applied = before /\ old.pc = pc
    BY <1>1, <1>10, <1>11, <1>13, <1>14
  <2>2. r \in old.todo /\ rec.todo = old.todo \ done
        /\ (pc = "groups" => Body[r].group # NoGroup /\ \A s \in old.todo : s \notin done => Body[s].group # Body[r].group)
    BY <1>10, <1>11
  <2> HIDE DEF old
  <2>3. GroupOf(a) = Body[r].group
    BY <1>7 DEF GroupOf
  <2>4. \A i \in 1 .. Len(before) + 1 : i \in 1 .. Len(before) \/ i = Len(before) + 1
    BY <1>15
  <2>5. PICK n : n = Len(before) + 1
    OBVIOUS
  <2>6. ASSUME NEW i \in DOMAIN before PROVE GroupOf(before[i]) = NoGroup \/ GroupOf(before[i]) # GroupOf(a)
    BY <1>12, <2>1, <2>2, <2>3, <2>6 DEF OnceEach
  <2>7. ASSUME NEW j \in DOMAIN before PROVE GroupOf(a) = NoGroup \/ GroupOf(a) # GroupOf(before[j])
    BY <1>12, <2>1, <2>2, <2>3, <2>7 DEF OnceEach
  <2>8. ASSUME NEW i \in DOMAIN after, NEW j \in DOMAIN after, i # j
        PROVE  GroupOf(after[i]) = NoGroup \/ GroupOf(after[i]) # GroupOf(after[j])
    <3>1. i \in DOMAIN before \/ i = n
      BY <1>15, <2>4, <2>5
    <3>2. j \in DOMAIN before \/ j = n
      BY <1>15, <2>4, <2>5
    <3>3. after[n] = a /\ \A k \in DOMAIN before : after[k] = before[k]
      BY <1>15, <2>5
    <3>4. CASE i \in DOMAIN before /\ j \in DOMAIN before
      BY <2>1, <2>8, <3>3, <3>4 DEF OnceEach
    <3> QED BY <2>6, <2>7, <2>8, <3>1, <3>2, <3>3, <3>4
  <2>9. ASSUME pc = "groups", NEW i \in DOMAIN after
        PROVE  GroupOf(after[i]) # NoGroup /\ \A s \in rec.todo : Body[s].group # GroupOf(after[i])
    <3>1. i \in DOMAIN before \/ i = n
      BY <1>15, <2>4, <2>5
    <3>2. after[n] = a /\ \A k \in DOMAIN before : after[k] = before[k]
      BY <1>15, <2>5
    <3>3. CASE i \in DOMAIN before
      BY <2>1, <2>2, <2>9, <3>2, <3>3 DEF OnceEach
    <3>4. CASE i = n
      BY <2>2, <2>3, <2>9, <3>2, <3>4
    <3> QED BY <3>1, <3>3, <3>4
  <2>10. pc = "stack" => \A s \in rec.todo : Body[s].group = NoGroup
    BY <2>1, <2>2 DEF OnceEach
  <2> QED BY <2>1, <2>8, <2>9, <2>10 DEF OnceEach
<1> QED BY <1>9, <1>16, <1>17, OneRequest

\* Skipping a rule keeps the answers adding up.
LEMMA SkipAdds ==
    ASSUME PromoInv, Adding, NEW q \in Requests, request[q].pc \in {"groups", "stack"}, NEW done, Skip(q, done)
    PROVE  Adding'
<1> DEFINE old == request[q]
<1>1. old \in RequestRecord /\ Balanced(old) /\ OnceEach(old)
  BY InProgress DEF Adding
<1>2. PICK rec : rec = [old EXCEPT !.todo = @ \ done]
  OBVIOUS
<1>3. request' = [request EXCEPT ![q] = rec]
  BY <1>2 DEF Skip, PromoInv, PromoTyped, RequestsTyped
<1>4. /\ rec.applied = old.applied /\ rec.remaining = old.remaining /\ rec.cart = old.cart /\ rec.pc = old.pc
      /\ rec.todo \subseteq old.todo
  BY <1>1, <1>2 DEF RequestRecord
<1>5. old.pc # "answered"
  OBVIOUS
<1> HIDE DEF old
<1>6. Balanced(rec) /\ OnceEach(rec)
  BY <1>1, <1>4, <1>5, SameAmounts
<1> QED BY <1>3, <1>6, OneRequest

\* Applying a rule keeps the answers adding up.
LEMMA ApplicationAdds ==
    ASSUME PromoInv, Adding, NEW q \in Requests, NEW r \in RuleIds, ApplyGroup(q, r) \/ ApplyStackable(q, r)
    PROVE  Adding'
<1>1. CASE ApplyGroup(q, r)
  <2> DEFINE group == {s \in request[q].todo : Body[s].group = Body[r].group}
  <2>1. request[q].pc = "groups" /\ r \in request[q].todo /\ Body[r].group # NoGroup
    BY <1>1 DEF ApplyGroup
  <2>2. group \in SUBSET RuleIds /\ \A s \in request[q].todo : s \notin group => Body[s].group # Body[r].group
    BY InProgress DEF RequestRecord
  <2>3. ApplyRule(q, r, group, 0) \/ Skip(q, group)
    BY <1>1 DEF ApplyGroup
  <2> HIDE DEF group
  <2>4. PICK n \in Int : n = 0
    OBVIOUS
  <2>5. ApplyRule(q, r, group, n) \/ Skip(q, group)
    BY <2>3, <2>4
  <2> QED BY <2>1, <2>2, <2>5, ApplyAdds, SkipAdds
<1>2. CASE ApplyStackable(q, r)
  <2>1. request[q].pc = "stack" /\ r \in request[q].todo /\ {r} \in SUBSET RuleIds
    BY <1>2 DEF ApplyStackable
  <2>2. ApplyRule(q, r, {r}, 1) \/ Skip(q, {r})
    BY <1>2 DEF ApplyStackable
  <2>3. PICK n \in Int : n = 1
    OBVIOUS
  <2>4. ApplyRule(q, r, {r}, n) \/ Skip(q, {r})
    BY <2>2, <2>3
  <2> QED BY <2>1, <2>4, ApplyAdds, SkipAdds
<1> QED BY <1>1, <1>2

\* What an answer says adds up, however rules, carts and requests combine.
THEOREM AnswersStand == PromoSpec => []AnswersAddUp
<1>1. PromoInit => Adding
  <2> SUFFICES ASSUME PromoInit, NEW q \in Requests PROVE request[q].pc = "new"
    BY DEF Adding
  <2> QED BY DEF PromoInit, NewRequest
<1>2. PromoInv /\ Adding /\ [PromoNext]_promoVars => Adding'
  <2> SUFFICES ASSUME PromoInv, Adding, [PromoNext]_promoVars PROVE Adding'
    OBVIOUS
  <2>1. UNCHANGED request => Adding'
    BY DEF Adding, Balanced, OnceEach, GroupOf
  <2>2. CASE NextDay \/ (\E r \in RuleIds : CreateRule(r) \/ \E u \in Buyers : UserKeyExpires(r, u)) \/ UNCHANGED promoVars
    BY <2>1, <2>2 DEF NextDay, CreateRule, UserKeyExpires, promoVars
  <2> QED BY <2>2, BeginAdds, EvaluationAdds, ApplicationAdds DEF PromoNext
<1>3. PromoInv /\ Adding => AnswersAddUp
  <2> SUFFICES ASSUME PromoInv, Adding, NEW q \in Requests, request[q].pc = "answered"
               PROVE  /\ (Shown(request[q].applied) - request[q].total) \in -Len(request[q].applied) .. Len(request[q].applied)
                      /\ request[q].final \in {0, request[q].cart.total - request[q].total}
                      /\ request[q].final <= request[q].cart.total
                      /\ \A i, j \in DOMAIN request[q].applied :
                            i # j => Body[request[q].applied[i].rule].group = NoGroup
                                     \/ Body[request[q].applied[i].rule].group # Body[request[q].applied[j].rule].group
    BY DEF AnswersAddUp
  <2>1. Balanced(request[q]) /\ OnceEach(request[q]) /\ request[q].cart \in Carts /\ request[q] \in RequestRecord
    BY InProgress DEF Adding
  <2>2. PICK rec : rec = request[q]
    OBVIOUS
  <2>3. rec.remaining \in Int /\ rec.cart.total \in Nat
    BY <2>1, <2>2, PromoAssumption DEF RequestRecord
  <2>4. rec.total = rec.cart.total - rec.remaining /\ (rec.final = IF rec.remaining < 0 THEN 0 ELSE rec.remaining)
        /\ rec.remaining <= rec.cart.total
    BY <2>1, <2>2 DEF Balanced
  <2>5. rec.final \in {0, rec.cart.total - rec.total} /\ rec.final <= rec.cart.total
    BY <2>3, <2>4
  <2>6. Shown(rec.applied) - rec.total \in -Len(rec.applied) .. Len(rec.applied)
    BY <2>1, <2>2, <2>4 DEF Balanced
  <2>7. \A i, j \in DOMAIN rec.applied :
           i # j => GroupOf(rec.applied[i]) = NoGroup \/ GroupOf(rec.applied[i]) # GroupOf(rec.applied[j])
    BY <2>1, <2>2 DEF OnceEach
  <2> QED BY <2>2, <2>5, <2>6, <2>7 DEF GroupOf
<1> QED BY <1>1, <1>2, <1>3, PromoInvariant, PTL DEF PromoSpec

-----------------------------------------------------------------------------
(* Ids: those of any number of processes, restarts and clocks that step     *)
(* back, for any widths of the worker and of the sequence, grow within a    *)
(* life, and two processes with different numbers never share one.          *)

\* What an id says, and that the generator is past all it has made in this life.
IssuedBefore(x) ==
    /\ x.life <= life[x.by]
    /\ x.id = IdOf(x.stamp, WorkerOf[x.by], x.seq)
    /\ x.life = life[x.by] =>
          LET g == gen[x.by] IN
          /\ x.nth <= g.made
          /\ x.stamp < g.last \/ (x.stamp = g.last /\ (g.waits \/ x.seq <= g.seq))

\* Later within a life means a later stamp, or the same stamp and a later number.
InOrderOf(x, y) ==
    x.by = y.by /\ x.life = y.life /\ x.nth < y.nth =>
        x.stamp < y.stamp \/ (x.stamp = y.stamp /\ x.seq < y.seq)

SnowInv ==
    /\ SnowTypeOK
    /\ \A x \in issued : IssuedBefore(x)
    /\ \A x, y \in issued : InOrderOf(x, y)

-----------------------------------------------------------------------------
(* Arithmetic of the packed ids.                                            *)

\* Numbers of two digits are ordered by the first, then the second, and are equal
\* only as pairs.
LEMMA Digits ==
    ASSUME NEW K \in Nat \ {0}, NEW a \in Int, NEW b \in Int, NEW q \in 0 .. K - 1, NEW r \in 0 .. K - 1
    PROVE  /\ a < b => a * K + q < b * K + r
           /\ a * K + q = b * K + r => a = b
<1>1. ASSUME NEW c \in Int, NEW e \in Int, c < e, NEW s \in 0 .. K - 1, NEW t \in 0 .. K - 1
      PROVE  c * K + s < e * K + t
  <2>1. (c + 1) * K <= e * K
    <3>1. PICK n \in Nat : e = c + 1 + n
      <4>1. e - c - 1 \in Nat /\ e = c + 1 + (e - c - 1)
        BY <1>1
      <4> QED
        BY <4>1
    <3>2. n * K \in Nat
      BY SMT
    <3>3. e * K = (c + 1) * K + n * K
      BY <3>1, SMT
    <3>4. (c + 1) * K \in Int
      BY SMT
    <3> QED
      BY <3>2, <3>3, <3>4
  <2>2. (c + 1) * K = c * K + K /\ c * K \in Int /\ e * K \in Int
    BY SMT
  <2> QED
    BY <2>1, <2>2
<1>2. a * K \in Int /\ b * K \in Int
  BY SMT
<1> QED
  BY <1>1, <1>2

\* Ids grow with the time and the sequence, and equal ids have the same worker.
LEMMA IdsGrow ==
    ASSUME NEW s \in Int, NEW t \in Int, NEW v \in 0 .. MaxWorker, NEW w \in 0 .. MaxWorker,
           NEW q \in 0 .. MaxSequence, NEW r \in 0 .. MaxSequence
    PROVE  /\ s < t => IdOf(s, v, q) < IdOf(t, w, r)
           /\ v = w /\ s = t /\ q < r => IdOf(s, v, q) < IdOf(t, w, r)
           /\ IdOf(s, v, q) = IdOf(t, w, r) => v = w
<1> DEFINE M == MaxWorker + 1
<1> DEFINE K == MaxSequence + 1
<1>1. M \in Nat \ {0} /\ K \in Nat \ {0} /\ v \in 0 .. M - 1 /\ w \in 0 .. M - 1 /\ q \in 0 .. K - 1 /\ r \in 0 .. K - 1
  BY SnowflakeAssumption
<1>2. IdOf(s, v, q) = (s * M + v) * K + q /\ IdOf(t, w, r) = (t * M + w) * K + r
  BY DEF IdOf
<1> HIDE DEF M, K
<1>3. s * M \in Int /\ t * M \in Int
  BY <1>1, SMT
<1> DEFINE a == s * M + v
<1> DEFINE b == t * M + w
<1>4. a \in Int /\ b \in Int
  BY <1>1, <1>3
<1>5. s < t => a < b
  BY <1>1, Digits
<1>6. s = t /\ v = w => a = b
  OBVIOUS
<1>7. a = b => s = t
  BY <1>1, Digits
<1>8. a = b => v = w
  BY <1>1, <1>3, <1>7
<1> HIDE DEF a, b
<1>9. (a < b => a * K + q < b * K + r) /\ (a * K + q = b * K + r => a = b)
  BY <1>1, <1>4, Digits
<1>10. a * K \in Int
  BY <1>1, <1>4, SMT
<1>11. a = b /\ q < r => a * K + q < b * K + r
  BY <1>1, <1>10
<1>12. IdOf(s, v, q) = a * K + q /\ IdOf(t, w, r) = b * K + r
  BY <1>2 DEF a, b
<1> QED
  BY <1>5, <1>6, <1>8, <1>9, <1>11, <1>12

\* An id is a number.
LEMMA IdIsNatural ==
    ASSUME NEW s \in Nat, NEW w \in 0 .. MaxWorker, NEW q \in 0 .. MaxSequence
    PROVE  IdOf(s, w, q) \in Nat
<1>1. \A a, b \in Nat : a * b \in Nat
  BY SMT
<1>2. MaxWorker + 1 \in Nat /\ MaxSequence + 1 \in Nat
  BY SnowflakeAssumption
<1> DEFINE a == s * (MaxWorker + 1) + w
<1>3. a \in Nat
  <2>1. s * (MaxWorker + 1) \in Nat
    BY <1>1, <1>2
  <2> QED
    BY <2>1, SnowflakeAssumption
<1> HIDE DEF a
<1>4. a * (MaxSequence + 1) \in Nat
  BY <1>1, <1>2, <1>3
<1>5. a * (MaxSequence + 1) + q \in Nat
  BY <1>4, SnowflakeAssumption
<1> QED
  BY <1>5 DEF IdOf, a

-----------------------------------------------------------------------------
\* An id made at a stamp and number beyond those of its life keeps the invariant.
LEMMA IssuePreserves ==
    ASSUME SnowInv, NEW p \in Processes, NEW seq \in 0 .. MaxSequence,
           wall[p] > gen[p].last \/ (wall[p] = gen[p].last /\ ~gen[p].waits /\ seq > gen[p].seq),
           Issue(p, wall[p], seq), UNCHANGED <<wall, life, stepsBack>>
    PROVE  SnowInv'
<1>0. PICK new : new = [by |-> p, life |-> life[p], nth |-> gen[p].made + 1, stamp |-> wall[p], seq |-> seq,
                        id |-> IdOf(wall[p], WorkerOf[p], seq)]
  OBVIOUS
<1>1. /\ wall[p] \in 1 .. LastStamp /\ wall[p] \in Nat /\ WorkerOf[p] \in 0 .. MaxWorker /\ life[p] \in 0 .. MaxRestarts
      /\ gen[p] \in [last : 0 .. LastStamp, seq : 0 .. MaxSequence, waits : BOOLEAN, made : Nat]
  BY SnowflakeAssumption DEF SnowInv, SnowTypeOK
<1>2. IdOf(wall[p], WorkerOf[p], seq) \in Nat
  BY <1>1, IdIsNatural
<1>3. new \in Ids
  BY <1>0, <1>1, <1>2 DEF Ids
<1>4. /\ issued' = issued \cup {new}
      /\ gen' = [gen EXCEPT ![p] = [last |-> wall[p], seq |-> seq, waits |-> FALSE, made |-> gen[p].made + 1]]
  BY <1>0 DEF Issue
<1>5. gen' \in [Processes -> [last : 0 .. LastStamp, seq : 0 .. MaxSequence, waits : BOOLEAN, made : Nat]]
  BY <1>1, <1>4 DEF SnowInv, SnowTypeOK
<1>6. SnowTypeOK'
  BY <1>3, <1>4, <1>5 DEF SnowInv, SnowTypeOK
<1>7. gen'[p] = [last |-> wall[p], seq |-> seq, waits |-> FALSE, made |-> gen[p].made + 1]
      /\ \A o \in Processes : o # p => gen'[o] = gen[o]
  BY <1>4 DEF SnowInv, SnowTypeOK
<1>8. \A x \in issued : x \in Ids /\ IssuedBefore(x)
  BY DEF SnowInv, SnowTypeOK
<1>9. ASSUME NEW x \in issued PROVE IssuedBefore(x)' /\ InOrderOf(x, new) /\ InOrderOf(new, x)
  <2>1. x \in Ids /\ IssuedBefore(x)
    BY <1>8
  <2>2. CASE x.by # p \/ x.life # life[p]
    BY <1>0, <1>7, <2>1, <2>2 DEF IssuedBefore, InOrderOf, Ids
  <2>3. CASE x.by = p /\ x.life = life[p]
    <3>1. x.nth <= gen[p].made /\ (x.stamp < wall[p] \/ (x.stamp = wall[p] /\ x.seq < seq))
      BY <1>1, <2>1, <2>3 DEF IssuedBefore, Ids, SnowTypeOK
    <3> QED
      BY <1>0, <1>1, <1>7, <2>1, <2>3, <3>1 DEF IssuedBefore, InOrderOf, Ids
  <2> QED
    BY <2>2, <2>3
<1>10. IssuedBefore(new)' /\ InOrderOf(new, new)
  BY <1>0, <1>1, <1>7 DEF IssuedBefore, InOrderOf
<1>11. \A x \in issued' : IssuedBefore(x)'
  BY <1>4, <1>9, <1>10
<1>12. \A x, y \in issued' : InOrderOf(x, y)
  <2>1. \A x, y \in issued : InOrderOf(x, y)
    BY DEF SnowInv
  <2> QED
    BY <1>4, <1>9, <1>10, <2>1
<1> QED
  BY <1>6, <1>11, <1>12 DEF SnowInv, InOrderOf

\* The invariant holds in every state of every behaviour.
LEMMA SnowInvariant == SnowSpec => []SnowInv
<1>1. SnowInit => SnowInv
  BY SnowflakeAssumption DEF SnowInit, SnowInv, SnowTypeOK
<1>2. SnowInv /\ [SnowNext]_snowVars => SnowInv'
  <2> SUFFICES ASSUME SnowInv, [SnowNext]_snowVars PROVE SnowInv'
    OBVIOUS
  <2>1. \A x \in issued : x \in Ids /\ IssuedBefore(x)
    BY DEF SnowInv, SnowTypeOK
  <2>2. ASSUME NEW p \in Processes, TickWall(p) \/ StepBack(p) PROVE SnowInv'
    <3>1. SnowTypeOK'
      BY <2>2, SnowflakeAssumption DEF SnowInv, SnowTypeOK, TickWall, StepBack
    <3>2. UNCHANGED <<gen, life, issued>>
      BY <2>2 DEF TickWall, StepBack
    <3> QED
      BY <3>1, <3>2 DEF SnowInv, IssuedBefore, InOrderOf
  <2>3. ASSUME NEW p \in Processes, Restart(p) PROVE SnowInv'
    <3>1. SnowTypeOK'
      BY <2>3, SnowflakeAssumption DEF SnowInv, SnowTypeOK, Restart
    <3>2. UNCHANGED issued /\ life[p] \in Nat /\ life' = [life EXCEPT ![p] = @ + 1] /\ life \in [Processes -> 0 .. MaxRestarts]
          /\ \A o \in Processes : o # p => gen'[o] = gen[o]
      BY <2>3, SnowflakeAssumption DEF Restart, SnowInv, SnowTypeOK
    <3>3. ASSUME NEW x \in issued PROVE IssuedBefore(x)'
      <4>1. x \in Ids /\ IssuedBefore(x)
        BY <2>1
      <4> QED
        BY <3>2, <4>1, SnowflakeAssumption DEF IssuedBefore, Ids
    <3> QED
      BY <3>1, <3>2, <3>3 DEF SnowInv, InOrderOf
  <2>4. ASSUME NEW p \in Processes, NextSameStamp(p) PROVE SnowInv'
    <3> DEFINE seq == (gen[p].seq + 1) % (MaxSequence + 1)
    <3>1. gen[p].seq \in 0 .. MaxSequence /\ gen \in [Processes -> [last : 0 .. LastStamp, seq : 0 .. MaxSequence, waits : BOOLEAN, made : Nat]]
      BY DEF SnowInv, SnowTypeOK
    <3>2. seq = 0 \/ (seq \in 0 .. MaxSequence /\ seq > gen[p].seq)
      BY <3>1, SnowflakeAssumption
    <3>3. CASE seq = 0
      <4>1. gen' = [gen EXCEPT ![p].waits = TRUE, ![p].seq = 0] /\ UNCHANGED <<wall, life, issued, stepsBack>>
        BY <2>4, <3>3 DEF NextSameStamp
      <4>2. gen' \in [Processes -> [last : 0 .. LastStamp, seq : 0 .. MaxSequence, waits : BOOLEAN, made : Nat]]
        <5>1. 0 \in 0 .. MaxSequence
          BY SnowflakeAssumption
        <5>2. gen' = [gen EXCEPT ![p] = [gen[p] EXCEPT !.waits = TRUE, !.seq = 0]]
          BY <3>1, <4>1
        <5>3. [gen[p] EXCEPT !.waits = TRUE, !.seq = 0]
                \in [last : 0 .. LastStamp, seq : 0 .. MaxSequence, waits : BOOLEAN, made : Nat]
          BY <3>1, <5>1
        <5> QED
          BY <3>1, <5>2, <5>3
      <4>3. SnowTypeOK'
        BY <4>1, <4>2 DEF SnowInv, SnowTypeOK
      <4>4. ASSUME NEW x \in issued PROVE IssuedBefore(x)'
        BY <2>1, <3>1, <4>1, <2>4 DEF IssuedBefore, Ids, NextSameStamp
      <4> QED
        BY <4>1, <4>3, <4>4 DEF SnowInv, InOrderOf
    <3>4. CASE seq # 0
      BY <2>4, <3>2, <3>4, IssuePreserves DEF NextSameStamp
    <3> QED
      BY <3>3, <3>4
  <2>5. ASSUME NEW p \in Processes, NextLaterStamp(p) \/ EndOfWait(p) PROVE SnowInv'
    <3>1. 0 \in 0 .. MaxSequence
      BY SnowflakeAssumption
    <3> QED
      BY <2>5, <3>1, IssuePreserves DEF NextLaterStamp, EndOfWait
  <2>6. CASE UNCHANGED snowVars
    BY <2>6 DEF snowVars, SnowInv, SnowTypeOK, IssuedBefore, InOrderOf
  <2> QED
    BY <2>2, <2>3, <2>4, <2>5, <2>6 DEF SnowNext
<1> QED
  BY <1>1, <1>2, PTL DEF SnowSpec

\* Ids grow within one life of a process, whatever its clock does, and those of two
\* processes are equal only when the processes have the same number.
THEOREM Unique == SnowSpec => []IdsUnique
<1>1. ASSUME SnowInv PROVE IdsUnique
  <2> SUFFICES ASSUME NEW x \in issued, NEW y \in issued, x # y
               PROVE  IF x.by = y.by /\ x.life = y.life THEN x.nth < y.nth => x.id < y.id
                      ELSE x.id = y.id => WorkerOf[x.by] = WorkerOf[y.by]
    BY DEF IdsUnique
  <2>1. x \in Ids /\ y \in Ids /\ IssuedBefore(x) /\ IssuedBefore(y) /\ InOrderOf(x, y)
    BY <1>1 DEF SnowInv, SnowTypeOK
  <2>2. WorkerOf[x.by] \in 0 .. MaxWorker /\ WorkerOf[y.by] \in 0 .. MaxWorker
    BY <2>1, SnowflakeAssumption DEF Ids
  <2>3. x.stamp \in Int /\ y.stamp \in Int /\ x.seq \in 0 .. MaxSequence /\ y.seq \in 0 .. MaxSequence
    BY <2>1 DEF Ids
  <2>4. x.id = IdOf(x.stamp, WorkerOf[x.by], x.seq) /\ y.id = IdOf(y.stamp, WorkerOf[y.by], y.seq)
    BY <2>1 DEF IssuedBefore
  <2>5. CASE x.by = y.by /\ x.life = y.life
    BY <2>1, <2>2, <2>3, <2>4, <2>5, IdsGrow DEF InOrderOf
  <2>6. CASE ~(x.by = y.by /\ x.life = y.life)
    BY SMTT(30), <2>2, <2>3, <2>4, <2>6, IdsGrow
  <2> QED
    BY <2>5, <2>6
<1> QED
  BY SnowInvariant, <1>1, PTL

-----------------------------------------------------------------------------
(* The circuit breaker, for any number of callers and any threshold.        *)

\* A closed circuit has counted fewer failures than the threshold, whatever calls that
\* were let in before it opened report: ClosedIsHealthy.
THEOREM BreakerHealthy == BreakerSpec => [](BreakerTypeOK /\ ClosedIsHealthy)
<1> USE DEF BreakerTypeOK, ClosedIsHealthy
<1>1. BreakerInit => BreakerTypeOK /\ ClosedIsHealthy
  <2> SUFFICES ASSUME BreakerInit PROVE BreakerTypeOK /\ ClosedIsHealthy
    OBVIOUS
  <2>1. BreakerTypeOK
    BY DEF BreakerInit
  <2>2. ClosedIsHealthy
    BY BreakerAssumption DEF BreakerInit
  <2> QED BY <2>1, <2>2
<1>2. BreakerTypeOK /\ ClosedIsHealthy /\ [BreakerNext]_breakerVars => BreakerTypeOK' /\ ClosedIsHealthy'
  <2> SUFFICES ASSUME BreakerTypeOK, ClosedIsHealthy, [BreakerNext]_breakerVars
               PROVE  BreakerTypeOK' /\ ClosedIsHealthy'
    OBVIOUS
  <2> USE BreakerAssumption
  <2>1. CASE CoolDown
    BY <2>1 DEF CoolDown
  <2>2. ASSUME NEW c \in Callers, Enter(c) PROVE BreakerTypeOK' /\ ClosedIsHealthy'
    BY <2>2 DEF Enter
  <2>3. ASSUME NEW c \in Callers, Fail(c) PROVE BreakerTypeOK' /\ ClosedIsHealthy'
    <3>1. /\ circuit' = IF failed + 1 >= Threshold THEN "open" ELSE circuit
          /\ failed' = failed + 1 /\ cooled' = FALSE /\ caller' = [caller EXCEPT ![c] = "out"]
      BY <2>3 DEF Fail
    <3>2. failed \in Nat /\ failed' \in Nat /\ Threshold \in Nat
      BY <3>1
    <3>3. circuit' \in {"closed", "open", "halfOpen"} /\ (circuit' = "closed" => failed + 1 < Threshold)
      BY <3>1, <3>2
    <3>4. caller' \in [Callers -> {"out", "in", "probe"}]
      BY <3>1
    <3> QED BY <3>1, <3>2, <3>3, <3>4
  <2>4. ASSUME NEW c \in Callers, Succeed(c) PROVE BreakerTypeOK' /\ ClosedIsHealthy'
    BY <2>4 DEF Succeed
  <2>5. CASE UNCHANGED breakerVars
    BY <2>5 DEF breakerVars
  <2> QED BY <2>1, <2>2, <2>3, <2>4, <2>5 DEF BreakerNext
<1> QED BY <1>1, <1>2, PTL DEF BreakerSpec

-----------------------------------------------------------------------------
(* Fees, for any number of orders and calls, any tables and any decay.      *)
Fees == {0} \cup (MinFee .. MaxFee)
FeePaths == {"new", "collect", "detect", "store", "cap", "record", "price", "answered"}
FeeRecord == [pc : FeePaths, order : PricedOrders, load : Nat, surge : 0 .. MaxSurge, answer : Fees]

PricingTyped ==
    /\ hour \in Hours /\ minute \in 0 .. LastMinute /\ lapses \in 0 .. MaxLapses
    /\ locked \in [PricedOrders -> Fees]
    /\ lastLoad \in [load : Int, mult : 0 .. MaxSurge, at : 0 .. LastMinute] /\ lastLoad.at <= minute
    /\ points \in 0 .. MaxPoints
    /\ fee \in [FeeCalls -> FeeRecord]
    /\ contested \subseteq PricedOrders

\* An order that nothing happened to has no fee while a call computes one, and no other
\* call computes one then; a call that is answered was told a fee.
ComputesAlone ==
    \A o \in PricedOrders : \A c \in FeeCalls : fee[c].order = o /\ o \notin contested =>
        /\ c \in Busy(o) => locked[o] = 0 /\ Busy(o) = {c}
        /\ fee[c].pc = "answered" => fee[c].answer = locked[o] /\ fee[c].answer # 0

PricingInv == PricingTyped /\ ComputesAlone

\* What is left of a difference lies between nothing and all of it.
LEMMA PartOf ==
    ASSUME NEW x \in Int, NEW left \in Nat, NEW d \in Nat \ {0}, left <= d
    PROVE  /\ (x * left) \div d \in Int
           /\ x >= 0 => 0 <= (x * left) \div d /\ (x * left) \div d <= x
           /\ x <= 0 => x <= (x * left) \div d /\ (x * left) \div d <= 0
<1> DEFINE y == x * left
           q == y \div d
<1>1. y \in Int /\ q \in Int
  OBVIOUS
<1>2. d * q <= y /\ y < d * q + d
  BY <1>1
<1>3. (x >= 0 => y >= 0 /\ y <= d * x) /\ (x <= 0 => y <= 0 /\ y >= d * x)
  OBVIOUS
<1> HIDE DEF y, q
<1>4. \A z \in Int : (d * z <= d * q => z <= q) /\ (d * q <= d * z => q <= z)
      /\ (d * z < d * q + d => z <= q)
  BY <1>1
<1>5. d * 0 = 0 /\ d * (q + 1) = d * q + d
  BY <1>1
<1>6. x >= 0 => 0 <= q /\ q <= x
  BY <1>1, <1>2, <1>3, <1>4, <1>5
<1>7. x <= 0 => x <= q /\ q <= 0
  BY <1>1, <1>2, <1>3, <1>4, <1>5
<1> QED BY <1>1, <1>6, <1>7 DEF q, y

\* Whatever the multiplier, the fee is between its floor and its ceiling.
LEMMA FeeOfMultiplier ==
    ASSUME NEW dist \in DistanceFees, NEW surge \in Int, NEW raining \in BOOLEAN, NEW peak \in BOOLEAN
    PROVE  FinalFee(dist, TotalMult(surge, raining, peak)) \in MinFee .. MaxFee
<1>1. TotalMult(surge, raining, peak) \in Int
  BY DEF TotalMult, WeatherMult, PeakMult, MaxTotalMult
<1> DEFINE m == TotalMult(surge, raining, peak)
           sum == ((BaseFee + dist) * m) \div 1000
<1>2. dist \in Int
  BY PricingAssumption
<1> HIDE DEF m
<1>3. (BaseFee + dist) * m \in Int
  BY <1>1, <1>2 DEF m, BaseFee
<1>4. sum \in Int
  BY <1>3
<1>5. FinalFee(dist, m) = IF sum < MinFee THEN MinFee ELSE IF sum > MaxFee THEN MaxFee ELSE sum
  BY DEF FinalFee
<1>6. MinFee \in Nat /\ MaxFee \in Nat /\ MinFee <= MaxFee
  BY DEF MinFee, MaxFee
<1> HIDE DEF sum
<1>7. FinalFee(dist, m) \in MinFee .. MaxFee
  BY <1>4, <1>5, <1>6
<1> QED BY <1>7 DEF m

\* The signals of the demand are numbers and there is a driver to divide by.
LEMMA SignalsAreNumbers ==
    ASSUME hour \in Hours
    PROVE  FetchDrivers \in Nat \ {0} /\ FetchPendingOrders \subseteq Nat
<1>1. FetchDrivers \in Nat \ {0}
  BY PricingAssumption DEF FetchDrivers
<1>2. \A base \in Nat : base + (IF base >= 4 THEN base \div 4 ELSE 1) - 1 \in Nat
  OBVIOUS
<1>3. FetchPendingOrders \subseteq Nat
  BY <1>2, PricingAssumption DEF FetchPendingOrders
<1> QED BY <1>1, <1>3

\* The load of an area is a number, whatever the fetches give.
LEMMA LoadIsNumber == ASSUME NEW pending \in Nat, NEW drivers \in Nat \ {0}
                      PROVE  (pending * 1000) \div drivers \in Nat
<1> DEFINE y == pending * 1000
           q == y \div drivers
<1>1. y \in Nat /\ q \in Int
  OBVIOUS
<1>2. y < drivers * q + drivers
  BY <1>1
<1> HIDE DEF y, q
<1>3. \A z \in Int : z < 0 => drivers * z + drivers <= 0
  OBVIOUS
<1>4. q \in Nat
  BY <1>1, <1>2, <1>3
<1> QED BY <1>4 DEF q, y

\* The smoothed surge stays within its range.
LEMMA AdjustedIsMultiplier ==
    ASSUME PricingTyped, NEW load \in Nat
    PROVE  Adjusted(lastLoad, load, minute) \in 0 .. MaxSurge
<1> DEFINE raw == CascadeMultiplier(load)
           left == IF minute - lastLoad.at >= DecayMinutes THEN 0 ELSE DecayMinutes - (minute - lastLoad.at)
           last == lastLoad.mult
           mult == IF lastLoad # NoEntry /\ load < lastLoad.load
                   THEN last + ((raw - last) * left) \div DecayMinutes ELSE raw
<1>1. MaxSurge \in Nat /\ raw \in 0 .. MaxSurge
  BY DEF CascadeMultiplier, MaxSurge
<1>2. last \in 0 .. MaxSurge /\ minute \in Nat /\ lastLoad.at \in 0 .. minute /\ DecayMinutes \in Nat \ {0}
  BY PricingAssumption DEF PricingTyped
<1>3. Adjusted(lastLoad, load, minute) = IF mult > MaxSurge THEN MaxSurge ELSE mult
  BY DEF Adjusted
<1> HIDE DEF raw, last
<1>4. raw - last \in Int
  BY <1>1, <1>2
<1>5. CASE lastLoad # NoEntry /\ load < lastLoad.load
  <2>1. left \in Nat /\ left <= DecayMinutes
    BY <1>2
  <2> HIDE DEF left
  <2> DEFINE part == ((raw - last) * left) \div DecayMinutes
  <2>2. /\ part \in Int
        /\ raw - last >= 0 => 0 <= part /\ part <= raw - last
        /\ raw - last <= 0 => raw - last <= part /\ part <= 0
    BY <1>2, <1>4, <2>1, PartOf
  <2>3. mult = last + part
    BY <1>5
  <2> HIDE DEF part, mult
  <2>4. mult \in 0 .. MaxSurge
    BY <1>1, <1>2, <2>2, <2>3
  <2> QED BY <1>1, <1>3, <2>4
<1>6. CASE ~ (lastLoad # NoEntry /\ load < lastLoad.load)
  <2>1. mult = raw
    BY <1>6
  <2> HIDE DEF mult, left
  <2> QED BY <1>1, <1>3, <2>1
<1> QED BY <1>5, <1>6

\* PricingInv holds in the initial states.
LEMMA PricingInitially == PricingInit => PricingInv
<1> SUFFICES ASSUME PricingInit PROVE PricingInv
  OBVIOUS
<1>1. (CHOOSE o \in PricedOrders : TRUE) \in PricedOrders
  BY PricingAssumption
<1>2. \A c \in FeeCalls : fee[c].pc = "new"
  BY DEF PricingInit
<1>3. MaxSurge \in Nat
  BY DEF MaxSurge
<1>4. fee \in [FeeCalls -> FeeRecord]
  BY <1>1, <1>3 DEF PricingInit, FeeRecord, FeePaths, Fees
<1>5. lastLoad \in [load : Int, mult : 0 .. MaxSurge, at : 0 .. LastMinute] /\ lastLoad.at <= minute
  BY <1>3, PricingAssumption DEF PricingInit, NoEntry
<1>6. locked \in [PricedOrders -> Fees]
  BY DEF PricingInit, Fees
<1>7. PricingTyped
  BY <1>4, <1>5, <1>6, PricingAssumption DEF PricingInit, PricingTyped
<1>8. ComputesAlone
  BY <1>2 DEF ComputesAlone, Busy
<1> QED BY <1>7, <1>8 DEF PricingInv

\* A call that goes on computing changes nothing for the others.
LEMMA GoingOn ==
    ASSUME PricingInv, NEW c \in FeeCalls, fee[c].pc \notin {"new", "answered"},
           NEW next \in FeeRecord, next.pc \notin {"new", "answered"}, next.order = fee[c].order,
           fee' = [fee EXCEPT ![c] = next],
           UNCHANGED <<hour, minute, locked, lapses, contested>>,
           lastLoad' \in [load : Int, mult : 0 .. MaxSurge, at : 0 .. LastMinute], lastLoad'.at <= minute,
           points' \in 0 .. MaxPoints
    PROVE  PricingInv'
<1>1. fee \in [FeeCalls -> FeeRecord]
  BY DEF PricingInv, PricingTyped
<1>2. fee' \in [FeeCalls -> FeeRecord]
  BY <1>1
<1>3. /\ fee'[c] = next /\ \A d \in FeeCalls \ {c} : fee'[d] = fee[d]
  BY <1>1
<1>4. \A d \in FeeCalls : fee'[d].order = fee[d].order
  BY <1>3
<1>5. \A o : Busy(o)' = Busy(o)
  BY <1>3 DEF Busy
<1>6. ComputesAlone'
  BY <1>3, <1>4, <1>5 DEF PricingInv, ComputesAlone, Busy
<1>7. PricingTyped'
  BY <1>2 DEF PricingInv, PricingTyped
<1> QED BY <1>6, <1>7 DEF PricingInv

\* CollectSignals, ReadSurge, StoreSurge, CapSurge and RecordPoint keep PricingInv.
LEMMA ComputingSteps ==
    ASSUME PricingInv, NEW c \in FeeCalls,
           CollectSignals(c) \/ ReadSurge(c) \/ StoreSurge(c) \/ CapSurge(c) \/ RecordPoint(c)
    PROVE  PricingInv'
<1>1. /\ fee \in [FeeCalls -> FeeRecord] /\ fee[c] \in FeeRecord /\ MaxSurge \in Nat
      /\ fee[c].load \in Nat /\ fee[c].surge \in 0 .. MaxSurge
  <2>1. fee \in [FeeCalls -> FeeRecord] /\ fee[c] \in FeeRecord
    BY DEF PricingInv, PricingTyped
  <2>2. MaxSurge \in Nat
    BY DEF MaxSurge
  <2> QED BY <2>1, <2>2 DEF FeeRecord
<1>2. /\ lastLoad \in [load : Int, mult : 0 .. MaxSurge, at : 0 .. LastMinute] /\ lastLoad.at <= minute
      /\ points \in 0 .. MaxPoints /\ minute \in 0 .. LastMinute /\ hour \in Hours
  BY DEF PricingInv, PricingTyped
<1>3. ASSUME CollectSignals(c) PROVE PricingInv'
  <2>1. PICK drivers \in {FetchDrivers, 1}, pending \in FetchPendingOrders \cup {0} :
            fee' = [fee EXCEPT ![c].pc = "detect", ![c].load = (pending * 1000) \div drivers]
    BY <1>3 DEF CollectSignals
  <2> DEFINE load == (pending * 1000) \div drivers
             next == [fee[c] EXCEPT !.pc = "detect", !.load = load]
  <2>2. load \in Nat
    BY <1>2, SignalsAreNumbers, LoadIsNumber
  <2>3. fee' = [fee EXCEPT ![c].pc = "detect", ![c].load = load]
    BY <2>1
  <2> HIDE DEF load
  <2>4. fee' = [fee EXCEPT ![c] = next]
    BY <2>3
  <2>5. next \in FeeRecord /\ next.pc = "detect" /\ next.order = fee[c].order
    BY <1>1, <2>2 DEF FeeRecord, FeePaths
  <2> HIDE DEF next
  <2> QED BY <1>2, <1>3, <2>4, <2>5, GoingOn DEF CollectSignals
<1>4. ASSUME ReadSurge(c) PROVE PricingInv'
  <2> DEFINE surge == Adjusted(lastLoad, fee[c].load, minute)
             next == [fee[c] EXCEPT !.pc = "store", !.surge = surge]
  <2>1. fee' = [fee EXCEPT ![c] = next] /\ fee[c].pc = "detect"
    BY <1>4 DEF ReadSurge
  <2>2. surge \in 0 .. MaxSurge
    BY <1>1, AdjustedIsMultiplier DEF PricingInv
  <2> HIDE DEF surge
  <2>3. next \in FeeRecord /\ next.pc = "store" /\ next.order = fee[c].order
    BY <1>1, <2>2 DEF FeeRecord, FeePaths
  <2> HIDE DEF next
  <2> QED BY <1>2, <1>4, <2>1, <2>3, GoingOn DEF ReadSurge
<1>5. ASSUME StoreSurge(c) PROVE PricingInv'
  <2> DEFINE next == [fee[c] EXCEPT !.pc = "cap"]
  <2>1. fee' = [fee EXCEPT ![c] = next] /\ fee[c].pc = "store"
    BY <1>5 DEF StoreSurge, FeeStep
  <2>2. next \in FeeRecord /\ next.pc = "cap" /\ next.order = fee[c].order
    BY <1>1 DEF FeeRecord, FeePaths
  <2>3. /\ lastLoad' \in [load : Int, mult : 0 .. MaxSurge, at : 0 .. LastMinute] /\ lastLoad'.at <= minute
    BY <1>1, <1>2, <1>5, PricingAssumption DEF StoreSurge
  <2> HIDE DEF next
  <2> QED BY <1>2, <1>5, <2>1, <2>2, <2>3, GoingOn DEF StoreSurge
<1>6. ASSUME CapSurge(c) PROVE PricingInv'
  <2>1. PICK cap \in SurgeCaps :
            fee' = [fee EXCEPT ![c].pc = "record", ![c].surge = IF @ > cap THEN cap ELSE @]
    BY <1>6 DEF CapSurge
  <2> DEFINE surge == IF fee[c].surge > cap THEN cap ELSE fee[c].surge
             next == [fee[c] EXCEPT !.pc = "record", !.surge = surge]
  <2>2. fee' = [fee EXCEPT ![c] = next] /\ fee[c].pc = "cap"
    BY <1>6, <2>1 DEF CapSurge
  <2>3. cap \in Nat
    BY DEF SurgeCaps
  <2>4. surge \in 0 .. MaxSurge
    BY <1>1, <2>3
  <2> HIDE DEF surge
  <2>5. next \in FeeRecord /\ next.pc = "record" /\ next.order = fee[c].order
    BY <1>1, <2>4 DEF FeeRecord, FeePaths
  <2> HIDE DEF next
  <2> QED BY <1>2, <1>6, <2>2, <2>5, GoingOn DEF CapSurge
<1>7. ASSUME RecordPoint(c) PROVE PricingInv'
  <2> DEFINE next == [fee[c] EXCEPT !.pc = "price"]
  <2>1. fee' = [fee EXCEPT ![c] = next] /\ fee[c].pc = "record"
    BY <1>7 DEF RecordPoint, FeeStep
  <2>2. next \in FeeRecord /\ next.pc = "price" /\ next.order = fee[c].order
    BY <1>1 DEF FeeRecord, FeePaths
  <2>3. points' \in 0 .. MaxPoints
    BY <1>2, <1>7, PricingAssumption DEF RecordPoint
  <2> HIDE DEF next
  <2> QED BY <1>2, <1>7, <2>1, <2>2, <2>3, GoingOn DEF RecordPoint
<1> QED BY <1>3, <1>4, <1>5, <1>6, <1>7

\* LookUpLock keeps PricingInv.
LEMMA LookUpLockStep ==
    ASSUME PricingInv, NEW c \in FeeCalls, NEW o \in PricedOrders, LookUpLock(c, o) PROVE PricingInv'
<1>1. /\ fee \in [FeeCalls -> FeeRecord] /\ fee[c] \in FeeRecord /\ fee[c].pc = "new"
      /\ locked \in [PricedOrders -> Fees] /\ lapses \in 0 .. MaxLapses /\ contested \subseteq PricedOrders
  BY DEF PricingInv, PricingTyped, LookUpLock
<1>2. UNCHANGED <<hour, minute, locked, lastLoad, points>>
  BY DEF LookUpLock
<1>3. \A d \in FeeCalls : fee[d].pc = "answered" /\ fee[d].order \notin contested =>
          fee[d].answer = locked[fee[d].order] /\ locked[fee[d].order] # 0
  BY <1>1 DEF PricingInv, ComputesAlone, FeeRecord
<1>4. CASE /\ locked[o] # 0
           /\ fee' = [fee EXCEPT ![c].pc = "answered", ![c].order = o, ![c].answer = locked[o]]
           /\ UNCHANGED <<lapses, contested>>
  <2> DEFINE next == [fee[c] EXCEPT !.pc = "answered", !.order = o, !.answer = locked[o]]
  <2>1. fee' = [fee EXCEPT ![c] = next]
    BY <1>4
  <2>2. next \in FeeRecord /\ next.pc = "answered" /\ next.order = o /\ next.answer = locked[o]
    BY <1>1 DEF FeeRecord, FeePaths
  <2> HIDE DEF next
  <2>3. fee' \in [FeeCalls -> FeeRecord] /\ fee'[c] = next /\ \A d \in FeeCalls \ {c} : fee'[d] = fee[d]
    BY <1>1, <2>1, <2>2
  <2>4. \A x : Busy(x)' = Busy(x)
    BY <1>1, <2>2, <2>3 DEF Busy
  <2>5. c \notin Busy(o)'
    BY <2>2, <2>3 DEF Busy
  <2>6. ComputesAlone'
    BY <1>2, <1>4, <2>2, <2>3, <2>4, <2>5 DEF PricingInv, ComputesAlone
  <2> QED BY <1>2, <1>4, <2>3, <2>6 DEF PricingInv, PricingTyped
<1>5. CASE /\ fee' = [fee EXCEPT ![c].pc = "collect", ![c].order = o]
           /\ lapses' \in 0 .. MaxLapses
           /\ contested \subseteq contested' /\ contested' \subseteq contested \cup {o}
           /\ o \in contested' \/ (Busy(o) = {} /\ locked[o] = 0)
  <2> DEFINE next == [fee[c] EXCEPT !.pc = "collect", !.order = o]
  <2>1. fee' = [fee EXCEPT ![c] = next]
    BY <1>5
  <2>2. next \in FeeRecord /\ next.pc = "collect" /\ next.order = o
    BY <1>1 DEF FeeRecord, FeePaths
  <2> HIDE DEF next
  <2>3. fee' \in [FeeCalls -> FeeRecord] /\ fee'[c] = next /\ \A d \in FeeCalls \ {c} : fee'[d] = fee[d]
    BY <1>1, <2>1, <2>2
  <2>4. Busy(o)' = Busy(o) \cup {c}
    BY <1>1, <2>2, <2>3 DEF Busy
  <2>5. \A x \in PricedOrders \ {o} : Busy(x)' = Busy(x)
    BY <1>1, <2>2, <2>3 DEF Busy
  <2>6. \A d \in FeeCalls : fee'[d].order \in PricedOrders
    BY <2>3 DEF FeeRecord
  <2>7. ASSUME NEW x \in PricedOrders, NEW d \in FeeCalls, fee'[d].order = x, x \notin contested'
        PROVE  /\ d \in Busy(x)' => locked'[x] = 0 /\ Busy(x)' = {d}
               /\ fee'[d].pc = "answered" => fee'[d].answer = locked'[x] /\ fee'[d].answer # 0
    <3>1. CASE x = o
      <4>1. Busy(o)' = {c} /\ locked'[o] = 0
        BY <1>2, <1>5, <2>4, <2>7, <3>1
      <4>2. fee'[d].pc # "answered"
        <5>1. CASE d = c
          BY <2>2, <2>3, <5>1
        <5>2. CASE d # c
          BY <1>2, <1>3, <1>5, <2>3, <2>7, <3>1, <4>1, <5>2
        <5> QED BY <5>1, <5>2
      <4> QED BY <3>1, <4>1, <4>2
    <3>2. CASE x # o
      <4>1. d # c /\ fee'[d] = fee[d] /\ x \notin contested
        BY <1>5, <2>2, <2>3, <2>7, <3>2
      <4>2. Busy(x)' = Busy(x)
        BY <2>5, <3>2
      <4> QED BY <1>2, <2>7, <4>1, <4>2 DEF PricingInv, ComputesAlone
    <3> QED BY <3>1, <3>2
  <2>8. ComputesAlone'
    BY <2>7 DEF ComputesAlone
  <2> QED BY <1>1, <1>2, <1>5, <2>3, <2>8 DEF PricingInv, PricingTyped
<1>6. \/ /\ locked[o] # 0
         /\ fee' = [fee EXCEPT ![c].pc = "answered", ![c].order = o, ![c].answer = locked[o]]
         /\ UNCHANGED <<lapses, contested>>
      \/ /\ fee' = [fee EXCEPT ![c].pc = "collect", ![c].order = o]
         /\ lapses' \in 0 .. MaxLapses
         /\ contested \subseteq contested' /\ contested' \subseteq contested \cup {o}
         /\ o \in contested' \/ (Busy(o) = {} /\ locked[o] = 0)
  BY <1>1, PricingAssumption DEF LookUpLock, Contest
<1> QED BY <1>4, <1>5, <1>6

\* LockPrice keeps PricingInv.
LEMMA LockPriceStep == ASSUME PricingInv, NEW c \in FeeCalls, LockPrice(c) PROVE PricingInv'
<1>1. PICK o \in PricedOrders : fee[c].order = o
  BY DEF PricingInv, PricingTyped, FeeRecord
<1>2. /\ fee \in [FeeCalls -> FeeRecord] /\ fee[c] \in FeeRecord /\ fee[c].pc = "price"
      /\ locked \in [PricedOrders -> Fees] /\ lapses \in 0 .. MaxLapses /\ contested \subseteq PricedOrders
      /\ fee[c].surge \in Int
  BY DEF PricingInv, PricingTyped, LockPrice, FeeRecord
<1>3. PICK raining \in BOOLEAN, dist \in DistanceFees :
          fee' = [fee EXCEPT ![c].pc = "answered",
                     ![c].answer = FinalFee(dist, TotalMult(fee[c].surge, raining, IsPeakHour))]
  BY DEF LockPrice
<1> DEFINE told == FinalFee(dist, TotalMult(fee[c].surge, raining, IsPeakHour))
           next == [fee[c] EXCEPT !.pc = "answered", !.answer = told]
<1>4. IsPeakHour \in BOOLEAN
  BY DEF IsPeakHour
<1>5. told \in MinFee .. MaxFee
  BY <1>1, <1>2, <1>4, FeeOfMultiplier
<1>6. fee' = [fee EXCEPT ![c] = next]
  BY <1>3
<1> HIDE DEF told
<1>7. told \in Fees /\ told # 0
  BY <1>5 DEF Fees, MinFee
<1>8. next \in FeeRecord /\ next.pc = "answered" /\ next.order = o /\ next.answer = told
  BY <1>1, <1>2, <1>7 DEF FeeRecord, FeePaths
<1> HIDE DEF next
<1>9. fee' \in [FeeCalls -> FeeRecord] /\ fee'[c] = next /\ \A d \in FeeCalls \ {c} : fee'[d] = fee[d]
  BY <1>1, <1>2, <1>6, <1>8
<1>10. \/ locked' = [locked EXCEPT ![o] = told] /\ lapses' = lapses /\ contested' = contested
       \/ lapses < MaxLapses /\ lapses' = lapses + 1 /\ contested' = contested \cup {o} /\ locked' = locked
  <2>1. \/ /\ locked' = [locked EXCEPT ![fee[c].order] = fee'[c].answer]
           /\ lapses' = lapses /\ contested' = contested
        \/ /\ lapses < MaxLapses /\ lapses' = lapses + 1
           /\ contested' = contested \cup {fee[c].order} /\ locked' = locked
    BY DEF LockPrice
  <2> QED BY <1>1, <1>8, <1>9, <2>1
<1>11. UNCHANGED <<hour, minute, lastLoad, points>>
  BY DEF LockPrice
<1>12. c \in Busy(o) /\ Busy(o)' = Busy(o) \ {c}
  BY <1>1, <1>2, <1>8, <1>9 DEF Busy
<1>13. \A x \in PricedOrders \ {o} : Busy(x)' = Busy(x)
  BY <1>1, <1>2, <1>8, <1>9 DEF Busy
<1>14. \A x \in PricedOrders \ {o} : locked'[x] = locked[x]
  BY <1>1, <1>2, <1>10
<1>15. ASSUME NEW x \in PricedOrders, NEW d \in FeeCalls, fee'[d].order = x, x \notin contested'
       PROVE  /\ d \in Busy(x)' => locked'[x] = 0 /\ Busy(x)' = {d}
              /\ fee'[d].pc = "answered" => fee'[d].answer = locked'[x] /\ fee'[d].answer # 0
  <2>1. CASE x = o
    <3>1. o \notin contested /\ locked' = [locked EXCEPT ![o] = told]
      BY <1>10, <1>15, <2>1
    <3>2. Busy(o) = {c} /\ locked[o] = 0
      BY <1>1, <1>2, <1>12, <3>1 DEF PricingInv, ComputesAlone
    <3>3. d \notin Busy(o)' /\ locked'[o] = told
      BY <1>1, <1>2, <1>12, <3>1, <3>2
    <3>4. d \notin Busy(x)' /\ locked'[x] = told
      BY <2>1, <3>3
    <3>5. CASE d = c
      BY <1>7, <1>8, <1>9, <3>4, <3>5
    <3>6. CASE d # c
      <4>1. fee[d].order = o /\ fee'[d] = fee[d] /\ o \in PricedOrders
        BY <1>1, <1>2, <1>9, <1>15, <2>1, <3>6
      <4>2. fee[d].pc # "answered"
        BY <3>1, <3>2, <4>1 DEF PricingInv, ComputesAlone
      <4> QED BY <3>4, <4>1, <4>2
    <3> QED BY <3>5, <3>6
  <2>2. CASE x # o
    <3>1. d # c /\ fee'[d] = fee[d] /\ x \notin contested
      BY <1>8, <1>9, <1>10, <1>15, <2>2
    <3>2. Busy(x)' = Busy(x) /\ locked'[x] = locked[x]
      BY <1>13, <1>14, <2>2
    <3> QED BY <1>15, <3>1, <3>2 DEF PricingInv, ComputesAlone
  <2> QED BY <2>1, <2>2
<1>16. ComputesAlone'
  BY <1>15 DEF ComputesAlone
<1>17. locked' \in [PricedOrders -> Fees] /\ lapses' \in 0 .. MaxLapses /\ contested' \subseteq PricedOrders
  BY <1>1, <1>2, <1>7, <1>10, PricingAssumption
<1> QED BY <1>9, <1>11, <1>16, <1>17 DEF PricingInv, PricingTyped

\* LockExpires keeps PricingInv.
LEMMA LockExpiresStep == ASSUME PricingInv, NEW o \in PricedOrders, LockExpires(o) PROVE PricingInv'
<1>1. /\ locked \in [PricedOrders -> Fees] /\ lapses \in 0 .. MaxLapses /\ contested \subseteq PricedOrders
      /\ fee \in [FeeCalls -> FeeRecord]
  BY DEF PricingInv, PricingTyped
<1>2. /\ locked' = [locked EXCEPT ![o] = 0] /\ contested' = contested \cup {o} /\ lapses' = lapses + 1
      /\ lapses < MaxLapses /\ UNCHANGED <<hour, minute, lastLoad, points, fee>>
  BY DEF LockExpires
<1>3. locked' \in [PricedOrders -> Fees] /\ lapses' \in 0 .. MaxLapses /\ contested' \subseteq PricedOrders
  BY <1>1, <1>2, PricingAssumption DEF Fees
<1>4. \A x : Busy(x)' = Busy(x)
  BY <1>2 DEF Busy
<1>5. \A d \in FeeCalls : fee[d].order \in PricedOrders
  BY <1>1 DEF FeeRecord
<1>6. \A x \in PricedOrders \ {o} : locked'[x] = locked[x]
  BY <1>1, <1>2
<1>7. ComputesAlone'
  BY <1>2, <1>4, <1>5, <1>6 DEF PricingInv, ComputesAlone
<1> QED BY <1>2, <1>3, <1>7 DEF PricingInv, PricingTyped

\* A customer is quoted one fee: LockedFeeStands.
THEOREM FeesStand == PricingSpec => [](PricingTypeOK /\ LockedFeeStands)
<1>1. PricingInv /\ [PricingNext]_pricingVars => PricingInv'
  <2> SUFFICES ASSUME PricingInv, [PricingNext]_pricingVars PROVE PricingInv'
    OBVIOUS
  <2>1. CASE MinuteEnds
    <3>1. minute' \in 0 .. LastMinute /\ lastLoad'.at <= minute'
      BY <2>1, PricingAssumption DEF MinuteEnds, PricingInv, PricingTyped
    <3> QED BY <2>1, <3>1 DEF MinuteEnds, PricingInv, PricingTyped, ComputesAlone, Busy
  <2>2. CASE UNCHANGED pricingVars
    BY <2>2 DEF pricingVars, PricingInv, PricingTyped, ComputesAlone, Busy
  <2> QED
    BY <2>1, <2>2, LockExpiresStep, LookUpLockStep, ComputingSteps, LockPriceStep DEF PricingNext
<1>2. PricingInv => PricingTypeOK /\ LockedFeeStands
  <2> SUFFICES ASSUME PricingInv PROVE PricingTypeOK /\ LockedFeeStands
    OBVIOUS
  <2>1. \A f \in Fees : IsFee(f)
    BY DEF Fees, IsFee
  <2>2. PricingTypeOK
    BY <2>1 DEF PricingInv, PricingTyped, PricingTypeOK, FeeRecord, FeePaths
  <2>3. LockedFeeStands
    <3>1. \A c \in FeeCalls : fee[c].order \in PricedOrders
      BY DEF PricingInv, PricingTyped, FeeRecord
    <3> QED BY <3>1 DEF PricingInv, ComputesAlone, LockedFeeStands
  <2> QED BY <2>2, <2>3
<1> QED BY PricingInitially, <1>1, <1>2, PTL DEF PricingSpec

-----------------------------------------------------------------------------
(* Estimates, for any number of orders and calls, any routes, any noise.     *)
EtaPaths == {"sticky", "route", "observe", "remember", "compose", "store", "answered"}
Responses == {r \in [p50 : 0 .. MaxETA, p80 : 0 .. MaxETA, p95 : 0 .. MaxETA] :
                 r.p50 > 0 /\ r.p50 <= r.p80 /\ r.p80 <= r.p95}
Multipliers == MinMultiplier .. MaxMultiplier
EtaRecord == [pc : EtaPaths, multiplier : Multipliers, response : Responses \cup {NoQuote}, round : 0 .. MaxLapsed]

EtaTyped ==
    /\ sticky \in [EtaOrders -> Responses \cup {NoQuote}]
    /\ route \in [EtaOrders -> {0} \cup Multipliers]
    /\ observations \in [EtaOrders -> Seq(Int)] /\ \A o \in EtaOrders : Len(observations[o]) <= MaxObserved
    /\ eta \in [EtaCalls -> EtaRecord]
    /\ \A c \in EtaCalls : eta[c].pc \in {"store", "answered"} => eta[c].response # NoQuote
    /\ redisFaults \in 0 .. MaxRedisFaults /\ etaLapses \in 0 .. MaxLapsed /\ disputed \subseteq EtaOrders
    /\ round \in [EtaOrders -> 0 .. MaxLapsed] /\ \A o \in EtaOrders : round[o] <= etaLapses

Told(o) == {c \in EtaCalls : OrderOf[c] = o /\ eta[c].pc = "answered"}

\* At most one call computes, and only while there is no estimate; what was answered since
\* the last estimate expired is the estimate there is.
StandsFor(o) ==
    /\ \A c, d \in Computing(o) : c = d
    /\ Computing(o) # {} => sticky[o] = NoQuote
    /\ \A c \in Told(o) : /\ eta[c].round <= round[o]
                          /\ eta[c].round = round[o] => eta[c].response = sticky[o]
    /\ \A c, d \in Told(o) : eta[c].round = eta[d].round => eta[c].response = eta[d].response

EtaInv == EtaTyped /\ \A o \in EtaOrders \ disputed : StandsFor(o)

\* A quote is a response.
LEMMA QuoteIsResponse == ASSUME NEW base \in Int, base > 0 PROVE Quote(base) \in Responses
<1> DEFINE more == (base * (100 + ConservativeBufferPct)) \div 100
           most == (base * (100 + 2 * ConservativeBufferPct)) \div 100
<1>1. more \in Int /\ most \in Int /\ base <= more /\ more <= most
  BY DEF ConservativeBufferPct
<1>2. Quote(base) = [p50 |-> AtMost(base, MaxETA), p80 |-> AtMost(more, MaxETA), p95 |-> AtMost(most, MaxETA)]
  BY DEF Quote
<1> HIDE DEF more, most
<1>3. MaxETA \in Nat /\ MaxETA > 0
  BY DEF MaxETA
<1>4. /\ AtMost(base, MaxETA) \in 0 .. MaxETA /\ AtMost(more, MaxETA) \in 0 .. MaxETA /\ AtMost(most, MaxETA) \in 0 .. MaxETA
      /\ AtMost(base, MaxETA) > 0 /\ AtMost(base, MaxETA) <= AtMost(more, MaxETA)
      /\ AtMost(more, MaxETA) <= AtMost(most, MaxETA)
  BY <1>1, <1>3 DEF AtMost
<1> HIDE DEF AtMost
<1> QED BY <1>2, <1>4 DEF Responses

\* A clamped multiplier is a multiplier and never zero.
LEMMA ClampIsMultiplier == ASSUME NEW x \in Int PROVE Clamp(x) \in Multipliers /\ Clamp(x) # 0
  BY DEF Clamp, AtMost, AtLeast, Multipliers, MinMultiplier, MaxMultiplier

\* What was observed adds up to a number.
LEMMA SumIsInt == ASSUME NEW s \in Seq(Int) PROVE SumObserved(s) \in Int
<1> DEFINE IsSum(f) == f = [i \in 0 .. Len(s) |-> IF i = 0 THEN 0 ELSE f[i - 1] + s[i]]
           sum == CHOOSE f : IsSum(f)
<1>1. Len(s) \in Nat /\ Len(s) \in 0 .. Len(s)
  BY LenProperties
<1>2. PICK f \in [0 .. Len(s) -> Int] : f[0] = 0 /\ \A i \in 1 .. Len(s) : f[i] = f[i - 1] + s[i]
  BY <1>1, EverySum DEF HasSum
<1>3. \A i \in 0 .. Len(s) : f[i] = IF i = 0 THEN 0 ELSE f[i - 1] + s[i]
  <2>1. \A i \in 0 .. Len(s) : i = 0 \/ i \in 1 .. Len(s)
    BY <1>1
  <2> QED BY <1>2, <2>1
<1>4. IsSum(f)
  BY <1>2, <1>3
<1>5. IsSum(sum)
  BY <1>4
<1>6. SumObserved(s) = sum[Len(s)]
  BY DEF SumObserved
<1>7. \A i \in 0 .. Len(s) : sum[i] = IF i = 0 THEN 0 ELSE sum[i - 1] + s[i]
  <2>1. sum = [i \in 0 .. Len(s) |-> IF i = 0 THEN 0 ELSE sum[i - 1] + s[i]]
    BY <1>5
  <2> HIDE DEF sum
  <2> QED BY <2>1
<1> HIDE DEF sum
<1>8. \A i \in 0 .. Len(s) : sum[i] = f[i]
  <2> DEFINE T == {k \in 0 .. Len(s) : sum[k] # f[k]}
  <2> SUFFICES ASSUME T # {} PROVE FALSE
    OBVIOUS
  <2>1. PICK k \in T : \A j \in T : k <= j
    <3>1. T \subseteq Nat
      BY <1>1
    <3> QED BY <3>1, LeastNumber
  <2>2. k \in 0 .. Len(s) /\ sum[k] # f[k]
    OBVIOUS
  <2>3. k # 0
    BY <1>3, <1>7, <2>2
  <2>4. k - 1 \in 0 .. Len(s) /\ ~ (k <= k - 1)
    BY <2>2, <2>3
  <2>5. sum[k - 1] = f[k - 1]
    BY <2>1, <2>4
  <2> QED BY <1>3, <1>7, <2>2, <2>3, <2>5
<1> QED BY <1>1, <1>2, <1>6, <1>8

\* The mean of what was observed is a multiplier.
LEMMA MeanIsMultiplier == ASSUME NEW s \in Seq(Int) PROVE Mean(s) \in Multipliers
<1>1. CASE s = <<>>
  BY <1>1 DEF Mean, Multipliers, MinMultiplier, MaxMultiplier
<1>2. CASE s # <<>>
  <2>1. PICK n \in Nat \ {0} : n = Len(s)
    BY <1>2, EmptySeq, LenProperties
  <2>2. PICK sum \in Int : sum = SumObserved(s)
    BY SumIsInt
  <2>3. sum \div n \in Int
    BY <2>1
  <2>4. Clamp(sum \div n) \in Multipliers
    BY <2>3, ClampIsMultiplier
  <2> QED BY <1>2, <2>1, <2>2, <2>4 DEF Mean
<1> QED BY <1>1, <1>2

\* The three parts of an estimate make a positive time.
LEMMA PartsAreTimes ==
    ASSUME NEW o \in EtaOrders, NEW m \in Multipliers,
           NEW p \in PickingTimes(Inputs[o]), NEW q \in QueueTimes(Inputs[o]), NEW t \in TravelTimes(Inputs[o], m)
    PROVE  p + q + t \in Int /\ p + q + t > 0
<1> DEFINE in == Inputs[o]
<1>1. in.items \in Nat /\ in.depth \in Nat /\ in.drivers \in Nat /\ in.travel \in Nat
  BY EtaAssumption
<1>2. m \in Nat
  BY DEF Multipliers, MinMultiplier, MaxMultiplier
<1>3. p \in Int /\ p >= 60
  <2>1. CASE p = FallbackPicking(in)
    BY <1>1, <2>1 DEF FallbackPicking, HubOverheadFixed, PickingPerItemMean
  <2>2. ASSUME NEW noise \in Noises, p = Picking(in, noise) PROVE p \in Int /\ p >= 60
    <3> DEFINE loud == IF in.items > 10 THEN (noise * (100 + 3 * (in.items - 10))) \div 100 ELSE noise
    <3>1. noise \in Int
      BY EtaAssumption
    <3>2. loud \in Int
      BY <1>1, <3>1
    <3>3. p = AtLeast(60 + in.items * 30 + loud, 60)
      BY <2>2 DEF Picking, HubOverheadFixed, PickingPerItemMean
    <3> HIDE DEF loud, in
    <3> QED BY <1>1, <3>2, <3>3 DEF AtLeast
  <2> QED BY <2>1, <2>2 DEF PickingTimes
<1>4. q \in Int /\ q >= 2
  <2>1. AtLeast(3 * in.drivers, 2) \in Nat \ {0}
    BY <1>1 DEF AtLeast
  <2>2. (2 * in.depth * 2) \div AtLeast(3 * in.drivers, 2) \in Int
    BY <1>1, <2>1
  <2>3. CASE q = QueueWait(in)
    BY <2>2, <2>3 DEF QueueWait, DispatchLatency, AtLeast
  <2>4. CASE q = QueueBaseLatency
    BY <2>4 DEF QueueBaseLatency
  <2> QED BY <2>3, <2>4 DEF QueueTimes
<1>5. t \in Int /\ t >= 0
  <2>1. in.travel * m \in Nat
    BY <1>1, <1>2
  <2>2. (in.travel * m) \div 100 \in Nat
    BY <2>1
  <2> QED BY <1>1, <2>2 DEF TravelTimes
<1> QED BY <1>3, <1>4, <1>5

\* EtaInv holds in the initial states.
LEMMA EtaInitially == EtaInit => EtaInv
<1> SUFFICES ASSUME EtaInit PROVE EtaInv
  OBVIOUS
<1>1. 100 \in Multipliers
  BY DEF Multipliers, MinMultiplier, MaxMultiplier
<1>2. eta \in [EtaCalls -> EtaRecord] /\ \A c \in EtaCalls : eta[c].pc = "sticky"
  BY <1>1, EtaAssumption DEF EtaInit, EtaRecord, EtaPaths
<1>3. observations \in [EtaOrders -> Seq(Int)] /\ \A o \in EtaOrders : Len(observations[o]) <= MaxObserved
  BY EtaAssumption DEF EtaInit
<1>4. EtaTyped
  BY <1>2, <1>3, EtaAssumption DEF EtaInit, EtaTyped
<1>5. \A o \in EtaOrders : StandsFor(o)
  BY <1>2 DEF StandsFor, Computing, Told
<1> QED BY <1>4, <1>5 DEF EtaInv

\* What is done for one order is nothing to another.
LEMMA OtherOrder ==
    ASSUME NEW x \in EtaOrders, StandsFor(x),
           \A d \in EtaCalls : OrderOf[d] = x => eta'[d] = eta[d], sticky'[x] = sticky[x], round'[x] = round[x]
    PROVE  StandsFor(x)'
<1>1. Computing(x)' = Computing(x) /\ Told(x)' = Told(x)
  BY DEF Computing, Told
<1>2. \A c \in Told(x) : eta'[c] = eta[c]
  BY DEF Told
<1> QED BY <1>1, <1>2 DEF StandsFor

\* A call that goes on computing.
LEMMA StillComputing ==
    ASSUME EtaInv, NEW c \in EtaCalls, eta[c].pc \in {"route", "observe", "remember", "compose"},
           NEW next \in EtaRecord, next.pc \in {"observe", "remember", "compose", "store"},
           next.pc = "store" => next.response # NoQuote,
           eta' = [eta EXCEPT ![c] = next], route' \in [EtaOrders -> {0} \cup Multipliers],
           UNCHANGED <<sticky, observations, redisFaults, etaLapses, round, disputed>>
    PROVE  EtaInv'
<1>1. eta \in [EtaCalls -> EtaRecord]
  BY DEF EtaInv, EtaTyped
<1>2. /\ eta' \in [EtaCalls -> EtaRecord] /\ eta'[c] = next
      /\ \A d \in EtaCalls \ {c} : eta'[d] = eta[d]
  BY <1>1
<1>3. \A x : Computing(x)' = Computing(x) /\ Told(x)' = Told(x)
  BY <1>2 DEF Computing, Told
<1>4. \A x, d : d \in Told(x) => eta'[d] = eta[d]
  BY <1>2 DEF Told
<1>5. \A x \in EtaOrders : StandsFor(x) => StandsFor(x)'
  BY <1>3, <1>4 DEF StandsFor
<1>6. EtaTyped'
  BY <1>2 DEF EtaInv, EtaTyped
<1> QED BY <1>5, <1>6 DEF EtaInv

\* GetRoute, TrafficMultiplier, SetRoute and Compose keep EtaInv.
LEMMA ComputeSteps ==
    ASSUME EtaInv, NEW c \in EtaCalls, GetRoute(c) \/ TrafficMultiplier(c) \/ SetRoute(c) \/ Compose(c) PROVE EtaInv'
<1>1. PICK o \in EtaOrders : OrderOf[c] = o
  BY EtaAssumption
<1>2. eta \in [EtaCalls -> EtaRecord] /\ eta[c] \in EtaRecord
  BY DEF EtaInv, EtaTyped
<1>3. /\ route \in [EtaOrders -> {0} \cup Multipliers]
      /\ observations[o] \in Seq(Int)
  BY DEF EtaInv, EtaTyped
<1>4. ASSUME GetRoute(c) PROVE EtaInv'
  <2>1. /\ eta[c].pc = "route" /\ UNCHANGED <<sticky, route, observations, redisFaults, etaLapses, round, disputed>>
    BY <1>4 DEF GetRoute
  <2>2. CASE eta' = [eta EXCEPT ![c].pc = "compose", ![c].multiplier = Clamp(route[o])]
    <3> DEFINE m == Clamp(route[o])
               next == [eta[c] EXCEPT !.pc = "compose", !.multiplier = m]
    <3>1. eta' = [eta EXCEPT ![c] = next]
      BY <2>2
    <3>2. m \in Multipliers
      <4>1. \A x \in Multipliers : x \in Int
        BY DEF Multipliers
      <4>2. route[o] \in Int
        BY <1>3, <4>1
      <4> QED BY <4>2, ClampIsMultiplier
    <3> HIDE DEF m
    <3>3. next \in EtaRecord /\ next.pc = "compose"
      BY <1>2, <3>2 DEF EtaRecord, EtaPaths
    <3> HIDE DEF next
    <3> QED BY <1>3, <2>1, <3>1, <3>3, StillComputing
  <2>3. CASE eta' = [eta EXCEPT ![c].pc = "observe"]
    <3> DEFINE next == [eta[c] EXCEPT !.pc = "observe"]
    <3>1. eta' = [eta EXCEPT ![c] = next]
      BY <2>3
    <3>2. next \in EtaRecord /\ next.pc = "observe"
      BY <1>2 DEF EtaRecord, EtaPaths
    <3> HIDE DEF next
    <3> QED BY <1>3, <2>1, <3>1, <3>2, StillComputing
  <2> QED BY <1>1, <1>4, <2>2, <2>3 DEF GetRoute
<1>5. ASSUME TrafficMultiplier(c) PROVE EtaInv'
  <2>1. 100 \in Multipliers
    BY DEF Multipliers, MinMultiplier, MaxMultiplier
  <2>2. Mean(observations[o]) \in Multipliers
    BY <1>3, MeanIsMultiplier
  <2>3. PICK m \in Multipliers : eta' = [eta EXCEPT ![c].pc = "remember", ![c].multiplier = m]
    BY <1>1, <1>5, <2>1, <2>2 DEF TrafficMultiplier
  <2> DEFINE next == [eta[c] EXCEPT !.pc = "remember", !.multiplier = m]
  <2>4. eta' = [eta EXCEPT ![c] = next]
    BY <2>3
  <2>5. next \in EtaRecord /\ next.pc = "remember"
    BY <1>2 DEF EtaRecord, EtaPaths
  <2>6. /\ eta[c].pc = "observe"
        /\ UNCHANGED <<sticky, route, observations, redisFaults, etaLapses, round, disputed>>
    BY <1>5 DEF TrafficMultiplier
  <2> HIDE DEF next
  <2> QED BY <1>3, <2>4, <2>5, <2>6, StillComputing
<1>6. ASSUME SetRoute(c) PROVE EtaInv'
  <2>1. /\ eta[c].pc = "remember" /\ UNCHANGED <<sticky, observations, redisFaults, etaLapses, round, disputed>>
        /\ eta' = [eta EXCEPT ![c].pc = "compose"]
        /\ route' \in {route, [route EXCEPT ![o] = eta[c].multiplier]}
    BY <1>1, <1>6 DEF SetRoute
  <2>2. eta[c].multiplier \in Multipliers
    BY <1>2 DEF EtaRecord
  <2>3. route' \in [EtaOrders -> {0} \cup Multipliers]
    BY <1>3, <2>1, <2>2
  <2> DEFINE next == [eta[c] EXCEPT !.pc = "compose"]
  <2>4. eta' = [eta EXCEPT ![c] = next]
    BY <2>1
  <2>5. next \in EtaRecord /\ next.pc = "compose"
    BY <1>2 DEF EtaRecord, EtaPaths
  <2> HIDE DEF next
  <2> QED BY <2>1, <2>3, <2>4, <2>5, StillComputing
<1>7. ASSUME Compose(c) PROVE EtaInv'
  <2>1. PICK p \in PickingTimes(Inputs[o]), q \in QueueTimes(Inputs[o]), t \in TravelTimes(Inputs[o], eta[c].multiplier) :
            eta' = [eta EXCEPT ![c].pc = "store", ![c].response = Quote(p + q + t)]
    BY <1>1, <1>7 DEF Compose
  <2>2. eta[c].multiplier \in Multipliers
    BY <1>2 DEF EtaRecord
  <2>3. p + q + t \in Int /\ p + q + t > 0
    BY <2>2, PartsAreTimes
  <2> DEFINE answer == Quote(p + q + t)
             next == [eta[c] EXCEPT !.pc = "store", !.response = answer]
  <2>4. answer \in Responses
    BY <2>3, QuoteIsResponse
  <2>5. eta' = [eta EXCEPT ![c] = next]
    BY <2>1
  <2> HIDE DEF answer
  <2>6. next \in EtaRecord /\ next.pc = "store" /\ next.response # NoQuote
    <3>1. answer # NoQuote
      BY <2>4 DEF Responses, NoQuote
    <3>2. next.response = answer /\ next.pc = "store"
      BY <1>2 DEF EtaRecord
    <3>3. next \in EtaRecord
      BY <1>2, <2>4 DEF EtaRecord, EtaPaths
    <3> QED BY <3>1, <3>2, <3>3
  <2>7. eta[c].pc = "compose" /\ UNCHANGED <<sticky, route, observations, redisFaults, etaLapses, round, disputed>>
    BY <1>7 DEF Compose
  <2> HIDE DEF next
  <2> QED BY <1>3, <2>5, <2>6, <2>7, StillComputing
<1> QED BY <1>4, <1>5, <1>6, <1>7

\* GetSticky keeps EtaInv.
LEMMA GetStickyStep == ASSUME EtaInv, NEW c \in EtaCalls, GetSticky(c) PROVE EtaInv'
<1>1. PICK o \in EtaOrders : OrderOf[c] = o
  BY EtaAssumption
<1>2. /\ eta \in [EtaCalls -> EtaRecord] /\ eta[c] \in EtaRecord /\ eta[c].pc = "sticky"
      /\ sticky[o] \in Responses \cup {NoQuote} /\ round[o] \in 0 .. MaxLapsed
      /\ redisFaults \in 0 .. MaxRedisFaults /\ disputed \subseteq EtaOrders
  BY DEF EtaInv, EtaTyped, GetSticky
<1>3. UNCHANGED <<sticky, route, observations, etaLapses, round>>
  BY DEF GetSticky
<1>4. \/ /\ sticky[o] # NoQuote
         /\ eta' = [eta EXCEPT ![c].pc = "answered", ![c].response = sticky[o], ![c].round = round[o]]
         /\ UNCHANGED <<redisFaults, disputed>>
      \/ /\ eta' = [eta EXCEPT ![c].pc = "route"]
         /\ redisFaults' \in 0 .. MaxRedisFaults
         /\ disputed \subseteq disputed' /\ disputed' \subseteq disputed \cup {o}
         /\ o \in disputed' \/ (Computing(o) = {} /\ sticky[o] = NoQuote)
  BY <1>1, <1>2, EtaAssumption DEF GetSticky, Fault
<1>5. CASE /\ sticky[o] # NoQuote
           /\ eta' = [eta EXCEPT ![c].pc = "answered", ![c].response = sticky[o], ![c].round = round[o]]
           /\ UNCHANGED <<redisFaults, disputed>>
  <2> DEFINE next == [eta[c] EXCEPT !.pc = "answered", !.response = sticky[o], !.round = round[o]]
  <2>1. eta' = [eta EXCEPT ![c] = next]
    BY <1>5
  <2>2. next \in EtaRecord /\ next.pc = "answered" /\ next.response = sticky[o] /\ next.round = round[o]
    BY <1>2 DEF EtaRecord, EtaPaths
  <2> HIDE DEF next
  <2>3. eta' \in [EtaCalls -> EtaRecord] /\ eta'[c] = next /\ \A d \in EtaCalls \ {c} : eta'[d] = eta[d]
    BY <1>2, <2>1, <2>2
  <2>4. EtaTyped'
    BY <1>3, <1>5, <2>2, <2>3 DEF EtaInv, EtaTyped
  <2>5. Computing(o)' = Computing(o) /\ Told(o)' = Told(o) \cup {c}
    BY <1>1, <1>2, <2>2, <2>3 DEF Computing, Told
  <2>6. \A d \in Told(o) : d # c /\ eta'[d] = eta[d]
    BY <1>2, <2>3 DEF Told
  <2>7. ASSUME StandsFor(o) PROVE StandsFor(o)'
    <3>1. \A d \in Told(o)' : eta'[d].round <= round'[o] /\ (eta'[d].round = round'[o] => eta'[d].response = sticky'[o])
      BY <1>2, <1>3, <2>2, <2>3, <2>5, <2>6, <2>7 DEF StandsFor
    <3>2. \A d, e \in Told(o) : eta'[d].round = eta'[e].round => eta'[d].response = eta'[e].response
      BY <2>6, <2>7 DEF StandsFor
    <3>3. \A d \in Told(o) : eta'[d].round = eta'[c].round => eta'[d].response = eta'[c].response
      BY <2>2, <2>3, <2>6, <2>7 DEF StandsFor
    <3>4. \A d, e \in Told(o)' : eta'[d].round = eta'[e].round => eta'[d].response = eta'[e].response
      BY <2>5, <3>2, <3>3
    <3> QED BY <1>3, <2>5, <2>7, <3>1, <3>4 DEF StandsFor
  <2>8. \A x \in EtaOrders \ {o} : StandsFor(x) => StandsFor(x)'
    BY <1>1, <1>3, <2>3, OtherOrder
  <2> QED BY <1>5, <2>4, <2>7, <2>8 DEF EtaInv
<1>6. CASE /\ eta' = [eta EXCEPT ![c].pc = "route"]
           /\ redisFaults' \in 0 .. MaxRedisFaults
           /\ disputed \subseteq disputed' /\ disputed' \subseteq disputed \cup {o}
           /\ o \in disputed' \/ (Computing(o) = {} /\ sticky[o] = NoQuote)
  <2> DEFINE next == [eta[c] EXCEPT !.pc = "route"]
  <2>1. eta' = [eta EXCEPT ![c] = next]
    BY <1>6
  <2>2. next \in EtaRecord /\ next.pc = "route"
    BY <1>2 DEF EtaRecord, EtaPaths
  <2> HIDE DEF next
  <2>3. eta' \in [EtaCalls -> EtaRecord] /\ eta'[c] = next /\ \A d \in EtaCalls \ {c} : eta'[d] = eta[d]
    BY <1>2, <2>1, <2>2
  <2>4. EtaTyped'
    BY <1>2, <1>3, <1>6, <2>2, <2>3 DEF EtaInv, EtaTyped
  <2>5. Computing(o)' = Computing(o) \cup {c} /\ Told(o)' = Told(o)
    BY <1>1, <1>2, <2>2, <2>3 DEF Computing, Told
  <2>6. \A d \in Told(o) : eta'[d] = eta[d]
    BY <1>2, <2>3 DEF Told
  <2>7. ASSUME StandsFor(o), o \notin disputed' PROVE StandsFor(o)'
    BY <1>3, <1>6, <2>5, <2>6, <2>7 DEF StandsFor
  <2>8. \A x \in EtaOrders \ {o} : StandsFor(x) => StandsFor(x)'
    BY <1>1, <1>3, <2>3, OtherOrder
  <2> QED BY <1>6, <2>4, <2>7, <2>8 DEF EtaInv
<1> QED BY <1>4, <1>5, <1>6

\* SetSticky keeps EtaInv.
LEMMA SetStickyStep == ASSUME EtaInv, NEW c \in EtaCalls, SetSticky(c) PROVE EtaInv'
<1>1. PICK o \in EtaOrders : OrderOf[c] = o
  BY EtaAssumption
<1>2. /\ eta \in [EtaCalls -> EtaRecord] /\ eta[c] \in EtaRecord /\ eta[c].pc = "store"
      /\ sticky \in [EtaOrders -> Responses \cup {NoQuote}] /\ round[o] \in 0 .. MaxLapsed
      /\ redisFaults \in 0 .. MaxRedisFaults /\ disputed \subseteq EtaOrders
      /\ eta[c].response \in Responses
  BY DEF EtaInv, EtaTyped, SetSticky, EtaRecord
<1>3. UNCHANGED <<route, observations, etaLapses, round>>
  BY DEF SetSticky
<1> DEFINE next == [eta[c] EXCEPT !.pc = "answered", !.round = round[o]]
<1>4. eta' = [eta EXCEPT ![c] = next]
  BY <1>1 DEF SetSticky
<1>5. next \in EtaRecord /\ next.pc = "answered" /\ next.response = eta[c].response /\ next.round = round[o]
  BY <1>2 DEF EtaRecord, EtaPaths
<1> HIDE DEF next
<1>6. eta' \in [EtaCalls -> EtaRecord] /\ eta'[c] = next /\ \A d \in EtaCalls \ {c} : eta'[d] = eta[d]
  BY <1>2, <1>4, <1>5
<1>7. \/ sticky' = [sticky EXCEPT ![o] = eta[c].response] /\ UNCHANGED <<redisFaults, disputed>>
      \/ redisFaults' \in 0 .. MaxRedisFaults /\ disputed' = disputed \cup {o} /\ sticky' = sticky
  BY <1>1, <1>2, EtaAssumption DEF SetSticky, Fault
<1>8. EtaTyped'
  <2>1. sticky' \in [EtaOrders -> Responses \cup {NoQuote}]
    BY <1>2, <1>7
  <2>2. next.response # NoQuote
    BY <1>2, <1>5 DEF Responses, NoQuote
  <2> QED BY <1>2, <1>3, <1>5, <1>6, <1>7, <2>1, <2>2 DEF EtaInv, EtaTyped
<1>9. c \in Computing(o) /\ Computing(o)' = Computing(o) \ {c} /\ Told(o)' = Told(o) \cup {c}
  BY <1>1, <1>2, <1>5, <1>6 DEF Computing, Told
<1>10. \A d \in Told(o) : eta'[d] = eta[d] /\ eta[d].response # NoQuote
  BY <1>2, <1>6 DEF Told, EtaInv, EtaTyped
<1>11. ASSUME o \notin disputed' PROVE StandsFor(o)'
  <2>1. StandsFor(o) /\ sticky'[o] = eta[c].response
    BY <1>2, <1>7, <1>11 DEF EtaInv
  <2>2. Computing(o)' = {} /\ sticky[o] = NoQuote
    BY <1>9, <2>1 DEF StandsFor
  <2>3. \A d \in Told(o) : eta[d].round <= round[o] /\ eta[d].round # round[o]
    BY <1>10, <2>1, <2>2 DEF StandsFor
  <2>4. \A d \in Told(o)' : eta'[d].round <= round'[o] /\ (eta'[d].round = round'[o] => eta'[d].response = sticky'[o])
    BY <1>2, <1>3, <1>5, <1>6, <1>9, <1>10, <2>1, <2>3
  <2>5. \A d, e \in Told(o) : eta'[d].round = eta'[e].round => eta'[d].response = eta'[e].response
    BY <1>10, <2>1 DEF StandsFor
  <2>6. \A d \in Told(o) : eta'[d].round # eta'[c].round
    BY <1>5, <1>6, <1>10, <2>3
  <2>7. \A d, e \in Told(o)' : eta'[d].round = eta'[e].round => eta'[d].response = eta'[e].response
    BY <1>9, <2>5, <2>6
  <2> QED BY <2>2, <2>4, <2>7 DEF StandsFor
<1>12. \A x \in EtaOrders \ {o} : StandsFor(x) => StandsFor(x)'
  <2>1. \A x \in EtaOrders \ {o} : sticky'[x] = sticky[x]
    BY <1>2, <1>7
  <2> QED BY <1>1, <1>3, <1>6, <2>1, OtherOrder
<1>13. disputed \subseteq disputed'
  BY <1>7
<1> QED BY <1>8, <1>11, <1>12, <1>13 DEF EtaInv

\* StickyLapses keeps EtaInv.
LEMMA StickyLapsesStep == ASSUME EtaInv, NEW o \in EtaOrders, StickyLapses(o) PROVE EtaInv'
<1>1. /\ sticky[o] # NoQuote /\ etaLapses < MaxLapsed /\ etaLapses' = etaLapses + 1
      /\ sticky' = [sticky EXCEPT ![o] = NoQuote] /\ round' = [round EXCEPT ![o] = @ + 1]
      /\ UNCHANGED <<route, observations, eta, redisFaults, disputed>>
  BY DEF StickyLapses
<1>2. /\ sticky \in [EtaOrders -> Responses \cup {NoQuote}] /\ round \in [EtaOrders -> 0 .. MaxLapsed]
      /\ \A x \in EtaOrders : round[x] <= etaLapses /\ round[x] \in Nat
      /\ etaLapses \in 0 .. MaxLapsed /\ eta \in [EtaCalls -> EtaRecord]
  BY EtaAssumption DEF EtaInv, EtaTyped
<1>3. /\ sticky' \in [EtaOrders -> Responses \cup {NoQuote}] /\ round' \in [EtaOrders -> 0 .. MaxLapsed]
      /\ \A x \in EtaOrders \ {o} : sticky'[x] = sticky[x] /\ round'[x] = round[x]
      /\ sticky'[o] = NoQuote /\ round'[o] = round[o] + 1
  BY <1>1, <1>2, EtaAssumption
<1>4. etaLapses' \in 0 .. MaxLapsed /\ \A x \in EtaOrders : round'[x] <= etaLapses'
  BY <1>1, <1>2, <1>3, EtaAssumption
<1>5. EtaTyped'
  BY <1>1, <1>3, <1>4 DEF EtaInv, EtaTyped
<1>6. ASSUME StandsFor(o) PROVE StandsFor(o)'
  <2>1. Computing(o)' = Computing(o) /\ Told(o)' = Told(o) /\ Computing(o) = {}
    BY <1>1, <1>6 DEF Computing, Told, StandsFor
  <2>2. \A c \in Told(o) : eta[c].round \in Nat /\ eta[c].round <= round[o]
    BY <1>2, <1>6, EtaAssumption DEF StandsFor, Told, EtaRecord
  <2>3. \A c \in Told(o) : eta[c].round <= round'[o] /\ eta[c].round # round'[o]
    BY <1>2, <1>3, <2>2
  <2> QED BY <1>1, <1>6, <2>1, <2>3 DEF StandsFor
<1>7. \A x \in EtaOrders \ {o} : StandsFor(x) => StandsFor(x)'
  BY <1>1, <1>3, OtherOrder
<1> QED BY <1>1, <1>5, <1>6, <1>7 DEF EtaInv

\* The lapse of a route, and the observation of a delivery and its end, keep the invariant.
LEMMA RouteSteps ==
    ASSUME EtaInv, NEW o \in EtaOrders, RouteLapses(o) \/ ObservationLeaves(o) \/ \E m \in Observed : Observe(o, m)
    PROVE  EtaInv'
<1>1. UNCHANGED <<sticky, eta, redisFaults, round, disputed>>
  BY DEF RouteLapses, Observe, ObservationLeaves
<1>2. \A x \in EtaOrders : StandsFor(x) => StandsFor(x)'
  BY <1>1, OtherOrder
<1>3. /\ route \in [EtaOrders -> {0} \cup Multipliers] /\ etaLapses \in 0 .. MaxLapsed
      /\ observations \in [EtaOrders -> Seq(Int)]
      /\ \A x \in EtaOrders : Len(observations[x]) <= MaxObserved /\ round[x] <= etaLapses
      /\ round \in [EtaOrders -> 0 .. MaxLapsed]
  BY DEF EtaInv, EtaTyped
<1>4. CASE RouteLapses(o)
  <2>1. /\ route' = [route EXCEPT ![o] = 0] /\ observations' = observations
        /\ etaLapses < MaxLapsed /\ etaLapses' = etaLapses + 1
    BY <1>4 DEF RouteLapses
  <2>2. route' \in [EtaOrders -> {0} \cup Multipliers]
    BY <1>3, <2>1
  <2>3. MaxLapsed \in Nat /\ etaLapses' \in 0 .. MaxLapsed /\ etaLapses <= etaLapses'
    BY <1>3, <2>1, EtaAssumption
  <2>4. \A x \in EtaOrders : round[x] <= etaLapses'
    BY <1>3, <2>3
  <2> QED BY <1>1, <1>2, <2>1, <2>2, <2>3, <2>4 DEF EtaInv, EtaTyped
<1>5. ASSUME NEW seen \in Seq(Int), Len(seen) <= MaxObserved, observations' = [observations EXCEPT ![o] = seen],
             UNCHANGED <<route, etaLapses>>
      PROVE EtaInv'
  <2>1. observations' \in [EtaOrders -> Seq(Int)] /\ \A x \in EtaOrders : Len(observations'[x]) <= MaxObserved
    BY <1>3, <1>5
  <2> QED BY <1>1, <1>2, <1>5, <2>1 DEF EtaInv, EtaTyped
<1>6. PICK s \in Seq(Int) : s = observations[o] /\ Len(s) \in Nat /\ Len(s) <= MaxObserved /\ MaxObserved \in Nat
  BY <1>3, LenProperties, EtaAssumption
<1>7. ASSUME NEW m \in Observed, Observe(o, m) PROVE EtaInv'
  <2>1. /\ UNCHANGED <<route, etaLapses>> /\ Len(s) < MaxObserved
        /\ observations' = [observations EXCEPT ![o] = Append(s, m)]
    BY <1>3, <1>6, <1>7 DEF Observe
  <2>2. Append(s, m) \in Seq(Int) /\ Len(Append(s, m)) = Len(s) + 1
    BY <1>6, <1>7, EtaAssumption, AppendProperties
  <2>3. Len(Append(s, m)) <= MaxObserved
    BY <1>6, <2>1, <2>2
  <2> QED BY <1>5, <2>1, <2>2, <2>3
<1>8. CASE ObservationLeaves(o)
  <2>1. /\ UNCHANGED <<route, etaLapses>> /\ s # <<>>
        /\ observations' = [observations EXCEPT ![o] = Tail(s)]
    BY <1>3, <1>6, <1>8 DEF ObservationLeaves
  <2>2. Tail(s) \in Seq(Int) /\ Len(Tail(s)) = Len(s) - 1
    BY <1>6, <2>1, HeadTailProperties
  <2>3. Len(Tail(s)) <= MaxObserved
    BY <1>6, <2>2
  <2> QED BY <1>5, <2>1, <2>2, <2>3
<1> QED BY <1>4, <1>7, <1>8

\* Until it expires, an estimate stands: EtaSticks.
THEOREM EstimatesStand == EtaSpec => [](EtaTypeOK /\ EtaSticks)
<1>1. EtaInv /\ [EtaNext]_etaVars => EtaInv'
  <2> SUFFICES ASSUME EtaInv, [EtaNext]_etaVars PROVE EtaInv'
    OBVIOUS
  <2>1. CASE UNCHANGED etaVars
    BY <2>1 DEF etaVars, EtaInv, EtaTyped, StandsFor, Computing, Told
  <2> QED BY <2>1, GetStickyStep, ComputeSteps, SetStickyStep, StickyLapsesStep, RouteSteps DEF EtaNext
<1>2. EtaInv => EtaTypeOK /\ EtaSticks
  <2> SUFFICES ASSUME EtaInv PROVE EtaTypeOK /\ EtaSticks
    OBVIOUS
  <2>1. \A r \in Responses \cup {NoQuote} : r.p95 \in 0 .. MaxETA
    BY DEF Responses, NoQuote, MaxETA
  <2>2. EtaTypeOK
    BY <2>1 DEF EtaInv, EtaTyped, EtaTypeOK, EtaRecord, EtaPaths, Multipliers
  <2>3. ASSUME NEW c \in EtaCalls, eta[c].pc = "answered"
        PROVE  /\ eta[c].response \in Responses
               /\ \A d \in EtaCalls : eta[d].pc = "answered" /\ OrderOf[c] = OrderOf[d] /\ eta[c].round = eta[d].round
                     /\ OrderOf[c] \notin disputed => eta[c].response = eta[d].response
    <3>1. eta[c].response \in Responses
      BY <2>3 DEF EtaInv, EtaTyped, EtaRecord
    <3>2. OrderOf[c] \in EtaOrders
      BY EtaAssumption
    <3> QED BY <2>3, <3>1, <3>2 DEF EtaInv, StandsFor, Told
  <2>4. \A r \in Responses : r.p50 <= r.p80 /\ r.p80 <= r.p95 /\ r.p50 > 0 /\ r.p95 <= MaxETA
    <3>1. MaxETA \in Nat
      BY DEF MaxETA
    <3> QED BY <3>1 DEF Responses
  <2>5. EtaSticks
    BY <2>3, <2>4 DEF EtaSticks
  <2> QED BY <2>2, <2>5
<1> QED BY EtaInitially, <1>1, <1>2, PTL DEF EtaSpec

-----------------------------------------------------------------------------
(* The rate limiter, for any limit and any window.                          *)
Times == Seq(0 .. LastTime)
Aligned(t) == (t \div Window) * Window

LimiterTyped ==
    /\ algorithm \in {"fixed", "sliding", "bucket"} /\ clock \in 0 .. LastTime
    /\ fixed \in [count : Nat, window : -1 .. LastTime]
    /\ sliding \in [exists : BOOLEAN, times : Times]
    /\ bucket \in [tokens : Int, refilled : -1 .. LastTime] /\ bucket.tokens <= Limit * Window
    /\ granted \in Times

InTimeOrder ==
    /\ \A i \in 1 .. Len(granted) : granted[i] <= clock
    /\ \A i, j \in 1 .. Len(granted) : i <= j => granted[i] <= granted[j]

\* The entry holds the last requests that were let through, and forgot none that counts.
\* Of any Let + 1 in a row the first and the last are a window apart.
SlidingKeeps ==
    /\ ~ sliding.exists => granted = <<>> /\ sliding.times = <<>>
    /\ Len(sliding.times) <= Len(granted)
    /\ \A i \in 1 .. Len(sliding.times) : sliding.times[i] = granted[Len(granted) - Len(sliding.times) + i]
    /\ \A i \in 1 .. Len(granted) - Len(sliding.times) : granted[i] <= clock - Window
    /\ \A i \in 1 .. Len(granted) : i + Let <= Len(granted) => granted[i + Let] - granted[i] >= Window

\* The count is of the requests of the current window, the last ones.  Of any Let + 1 in a
\* row the last one's window began after the first.
FixedKeeps ==
    /\ fixed.window = -1 => granted = <<>>
    /\ fixed.window # -1 =>
          /\ fixed.window <= clock /\ Aligned(fixed.window) = fixed.window
          /\ fixed.count <= Let /\ fixed.count <= Len(granted)
          /\ \A i \in 1 .. Len(granted) - fixed.count : granted[i] < fixed.window
          /\ \A i \in 1 .. Len(granted) : granted[i] < fixed.window + Window
    /\ \A i \in 1 .. Len(granted) : i + Let <= Len(granted) => granted[i] < Aligned(granted[i + Let])

\* What was taken since any request, with what is left, is no more than a full bucket and
\* what flowed in since.
Flow(i) == Let * Window + (bucket.refilled - granted[i]) * Limit
BucketKeeps ==
    /\ bucket.refilled = -1 => granted = <<>>
    /\ bucket.refilled # -1 =>
          /\ bucket.refilled <= clock
          /\ \A i \in 1 .. Len(granted) :
                granted[i] <= bucket.refilled /\ (Len(granted) - i + 1) * Window + bucket.tokens <= Flow(i)
    /\ \A i, j \in 1 .. Len(granted) :
          i <= j => (j - i + 1) * Window <= Let * Window + (granted[j] - granted[i]) * Limit

LimiterInv ==
    /\ LimiterTyped /\ InTimeOrder
    /\ algorithm = "sliding" => SlidingKeeps
    /\ algorithm = "fixed" => FixedKeeps
    /\ algorithm = "bucket" => BucketKeeps

-----------------------------------------------------------------------------
\* The constants of the limiter are numbers, and so are their products.
LEMMA LimitsAreNumbers == /\ Let \in Nat \ {0} /\ Limit \in Nat /\ Window \in Nat \ {0} /\ Limit <= Let
                          /\ Limit # 0 => Let = Limit
                          /\ Let * Window \in Nat /\ Limit * Window \in Nat
                          /\ LastTime \in Nat
<1>1. Let \in Nat \ {0} /\ Limit <= Let /\ (Limit # 0 => Let = Limit)
  BY LimiterAssumption DEF Let
<1> QED BY <1>1, LimiterAssumption

\* In an ordered sequence those that are not after the cutoff are the first ones.
LEMMA FirstOnes ==
    ASSUME NEW s \in Times, NEW cutoff \in Int,
           \A i, j \in 1 .. Len(s) : i <= j => s[i] <= s[j]
    PROVE  \E n \in 0 .. Len(s) :
              /\ Cardinality({i \in DOMAIN s : s[i] <= cutoff}) = n
              /\ \A i \in 1 .. n : s[i] <= cutoff
              /\ \A i \in n + 1 .. Len(s) : s[i] > cutoff
<1> DEFINE late == {i \in 1 .. Len(s) + 1 : i = Len(s) + 1 \/ s[i] > cutoff}
<1>1. DOMAIN s = 1 .. Len(s) /\ Len(s) \in Nat /\ \A i \in 1 .. Len(s) : s[i] \in Int
  BY LenProperties, LimitsAreNumbers DEF Times
<1>2. PICK m \in late : \A i \in late : m <= i
  <2>1. late \subseteq Nat /\ Len(s) + 1 \in late
    BY <1>1
  <2> QED BY <2>1, LeastNumber
<1>3. m \in 1 .. Len(s) + 1
  OBVIOUS
<1>4. ASSUME NEW i \in 1 .. m - 1 PROVE s[i] <= cutoff
  <2>1. i \in 1 .. Len(s) /\ ~ (m <= i)
    BY <1>1, <1>3
  <2>2. i \notin late
    BY <1>2, <2>1
  <2>3. i \in 1 .. Len(s) + 1
    BY <1>1, <2>1
  <2> QED BY <1>1, <2>1, <2>2, <2>3
<1>5. ASSUME NEW i \in m .. Len(s) PROVE s[i] > cutoff
  <2>1. m \in 1 .. Len(s) /\ i \in 1 .. Len(s) /\ m <= i /\ m # Len(s) + 1
    BY <1>1, <1>3
  <2>2. s[m] > cutoff
    BY <2>1
  <2> QED BY <1>1, <2>1, <2>2
<1> HIDE DEF late
<1>6. {i \in DOMAIN s : s[i] <= cutoff} = 1 .. m - 1
  <2>1. ASSUME NEW i \in DOMAIN s, s[i] <= cutoff PROVE i \in 1 .. m - 1
    BY <1>1, <1>3, <1>5, <2>1
  <2>2. ASSUME NEW i \in 1 .. m - 1 PROVE i \in DOMAIN s /\ s[i] <= cutoff
    BY <1>1, <1>3, <1>4
  <2> QED BY <2>1, <2>2
<1>7. Cardinality(1 .. m - 1) = m - 1
  BY <1>3, <1>1, FS_Interval
<1>8. m - 1 \in 0 .. Len(s) /\ (m - 1) + 1 = m
  BY <1>1, <1>3
<1> QED BY <1>4, <1>5, <1>6, <1>7, <1>8

\* What After keeps.
LEMMA AfterKeeps ==
    ASSUME NEW s \in Times, NEW cutoff \in Int,
           \A i, j \in 1 .. Len(s) : i <= j => s[i] <= s[j]
    PROVE  /\ After(s, cutoff) \in Times /\ Len(After(s, cutoff)) <= Len(s)
           /\ \A i \in 1 .. Len(After(s, cutoff)) : After(s, cutoff)[i] = s[Len(s) - Len(After(s, cutoff)) + i]
           /\ \A i \in 1 .. Len(s) - Len(After(s, cutoff)) : s[i] <= cutoff
<1>1. PICK n \in 0 .. Len(s) : /\ Cardinality({i \in DOMAIN s : s[i] <= cutoff}) = n
                               /\ \A i \in 1 .. n : s[i] <= cutoff
  BY FirstOnes
<1>2. After(s, cutoff) = SubSeq(s, n + 1, Len(s))
  BY <1>1 DEF After
<1>3. Len(s) \in Nat
  BY LenProperties DEF Times
<1>4. n + 1 \in 1 .. Len(s) + 1
  BY <1>1, <1>3
<1>5. /\ After(s, cutoff) \in Times /\ Len(After(s, cutoff)) = Len(s) - n
      /\ \A i \in 1 .. Len(s) - n : After(s, cutoff)[i] = s[n + i]
  <2>1. ASSUME NEW i \in 1 .. Len(s) - n PROVE n + 1 + i - 1 = n + i
    BY <1>1, <1>3
  <2>2. Len(s) - (n + 1) + 1 = Len(s) - n
    BY <1>1, <1>3
  <2>6. \A i \in n + 1 .. Len(s) : s[i] \in 0 .. LastTime
    <3>1. s \in [1 .. Len(s) -> 0 .. LastTime]
      BY LenProperties DEF Times
    <3> QED BY <1>3, <3>1
  <2>7. /\ SubSeq(s, n + 1, Len(s)) \in Seq(0 .. LastTime)
        /\ Len(SubSeq(s, n + 1, Len(s))) = IF n + 1 <= Len(s) THEN Len(s) - (n + 1) + 1 ELSE 0
        /\ \A i \in 1 .. Len(s) - (n + 1) + 1 : SubSeq(s, n + 1, Len(s))[i] = s[n + 1 + i - 1]
    <3>1. n + 1 \in Int /\ Len(s) \in Int
      BY <1>3
    <3> QED BY <2>6, <3>1, SubSeqProperties
  <2>3. SubSeq(s, n + 1, Len(s)) \in Seq(0 .. LastTime)
    BY <2>7
  <2>4. Len(SubSeq(s, n + 1, Len(s))) = Len(s) - n
    <3> DEFINE len == Len(SubSeq(s, n + 1, Len(s)))
               all == Len(s)
    <3>1. len = IF n + 1 <= all THEN all - (n + 1) + 1 ELSE 0
      BY <2>7
    <3>2. all \in Nat /\ n \in 0 .. all
      BY <1>3
    <3> HIDE DEF len, all
    <3>3. len = all - n
      BY <3>1, <3>2
    <3> QED BY <3>3 DEF len, all
  <2>5. \A i \in 1 .. Len(s) - n : SubSeq(s, n + 1, Len(s))[i] = s[n + i]
    BY <2>1, <2>2, <2>7
  <2> QED BY <1>2, <2>3, <2>4, <2>5 DEF Times
<1>6. Len(s) - (Len(s) - n) = n /\ Len(s) - n <= Len(s)
  BY <1>1, <1>3
<1> QED BY <1>1, <1>5, <1>6

\* The elements of a list of times.
LEMMA Elements == ASSUME NEW s \in Times
                  PROVE  Len(s) \in Nat /\ DOMAIN s = 1 .. Len(s) /\ \A i \in 1 .. Len(s) : s[i] \in 0 .. LastTime
  BY LenProperties DEF Times

\* Granting a request now adds its time at the end of the grants.
LEMMA GrantedLater ==
    ASSUME LimiterTyped, InTimeOrder, granted' = Append(granted, clock), clock' = clock
    PROVE  /\ granted' \in Times /\ Len(granted') = Len(granted) + 1
           /\ \A i \in 1 .. Len(granted) : granted'[i] = granted[i] /\ i \in 1 .. Len(granted')
           /\ granted'[Len(granted) + 1] = clock
           /\ \A i \in 1 .. Len(granted') : i \in 1 .. Len(granted) \/ i = Len(granted) + 1
           /\ InTimeOrder'
<1>1. granted \in Seq(0 .. LastTime) /\ clock \in 0 .. LastTime
  BY DEF LimiterTyped, Times
<1>2. /\ granted' \in Times /\ Len(granted') = Len(granted) + 1
      /\ \A i \in 1 .. Len(granted) : granted'[i] = granted[i]
      /\ granted'[Len(granted) + 1] = clock
  BY <1>1, AppendProperties DEF Times
<1>3. Len(granted) \in Nat
  BY <1>1, LenProperties
<1>4. \A i \in 1 .. Len(granted') : i \in 1 .. Len(granted) \/ i = Len(granted) + 1
  BY <1>2, <1>3
<1>5. \A i \in 1 .. Len(granted) : i \in 1 .. Len(granted')
  BY <1>2, <1>3
<1>6. \A i \in 1 .. Len(granted') : granted'[i] <= clock'
  BY <1>1, <1>2, <1>4 DEF InTimeOrder
<1>7. ASSUME NEW i \in 1 .. Len(granted'), NEW j \in 1 .. Len(granted'), i <= j
      PROVE  granted'[i] <= granted'[j]
  <2>1. CASE j = Len(granted) + 1
    BY <1>2, <1>6, <2>1
  <2>2. CASE j \in 1 .. Len(granted)
    <3>1. i \in 1 .. Len(granted)
      BY <1>3, <1>4, <1>7, <2>2
    <3> QED BY <1>2, <1>7, <2>2, <3>1 DEF InTimeOrder
  <2> QED BY <1>4, <2>1, <2>2
<1> QED BY <1>2, <1>4, <1>5, <1>6, <1>7 DEF InTimeOrder

\* LimiterInv holds in the initial states.
LEMMA LimiterInitially == LimiterInit => LimiterInv
<1> SUFFICES ASSUME LimiterInit PROVE LimiterInv
  OBVIOUS
<1>0. granted = <<>> /\ Len(granted) = 0 /\ <<>> \in Times /\ sliding.times = <<>>
  BY EmptySeq DEF LimiterInit, Times
<1>1. LimiterTyped
  BY <1>0, LimitsAreNumbers DEF LimiterInit, LimiterTyped
<1>2. InTimeOrder
  BY <1>0 DEF InTimeOrder
<1>3. SlidingKeeps
  BY <1>0, LimitsAreNumbers DEF SlidingKeeps
<1>4. FixedKeeps
  BY <1>0, LimitsAreNumbers DEF FixedKeeps, LimiterInit
<1>5. BucketKeeps
  BY <1>0, LimitsAreNumbers DEF BucketKeeps, LimiterInit
<1> QED BY <1>1, <1>2, <1>3, <1>4, <1>5 DEF LimiterInv

\* TimePasses keeps LimiterInv.
LEMMA TimeStep == ASSUME LimiterInv, TimePasses PROVE LimiterInv'
<1> USE LimitsAreNumbers
<1>0. clock' = clock + 1 /\ clock < LastTime /\ UNCHANGED <<algorithm, fixed, sliding, bucket, granted>>
  BY DEF TimePasses
<1>1. clock \in 0 .. LastTime /\ Len(granted) \in Nat /\ (\A i \in 1 .. Len(granted) : granted[i] \in 0 .. LastTime)
  BY Elements DEF LimiterInv, LimiterTyped
<1>2. LimiterTyped'
  BY <1>0 DEF LimiterInv, LimiterTyped
<1>3. InTimeOrder'
  BY <1>0, <1>1 DEF LimiterInv, InTimeOrder
<1>4. SlidingKeeps => SlidingKeeps'
  <2>1. Len(sliding.times) \in Nat
    BY Elements DEF LimiterInv, LimiterTyped
  <2>2. \A i \in 1 .. Len(granted) - Len(sliding.times) : i \in 1 .. Len(granted)
    BY <1>1, <2>1
  <2>3. ASSUME SlidingKeeps, NEW i \in 1 .. Len(granted) - Len(sliding.times) PROVE granted[i] <= clock' - Window
    BY <1>0, <1>1, <2>2, <2>3 DEF SlidingKeeps
  <2> QED BY <1>0, <2>3 DEF SlidingKeeps
<1>5. FixedKeeps => FixedKeeps'
  <2>1. fixed.window \in Int
    BY DEF LimiterInv, LimiterTyped
  <2> QED BY <1>0, <1>1, <2>1 DEF FixedKeeps
<1>6. BucketKeeps => BucketKeeps'
  <2>1. bucket.refilled \in Int
    BY DEF LimiterInv, LimiterTyped
  <2>2. ASSUME BucketKeeps PROVE bucket.refilled # -1 => bucket.refilled <= clock'
    BY <1>0, <1>1, <2>1, <2>2 DEF BucketKeeps
  <2> QED BY <1>0, <2>2 DEF BucketKeeps, Flow
<1> QED BY <1>0, <1>2, <1>3, <1>4, <1>5, <1>6 DEF LimiterInv

-----------------------------------------------------------------------------
\* AllowSliding keeps LimiterInv.
LEMMA SlidingStep == ASSUME LimiterInv, AllowSliding PROVE LimiterInv'
<1> DEFINE valid == After(sliding.times, clock - Window)
           yes == ~ sliding.exists \/ Len(valid) < Limit
           n == Len(granted)
           kept == Len(valid)
<1> USE LimitsAreNumbers
<1>0. /\ algorithm = "sliding"
      /\ sliding' = [exists |-> TRUE, times |-> IF yes THEN Append(valid, clock) ELSE valid]
      /\ granted' = IF yes THEN Append(granted, clock) ELSE granted
      /\ UNCHANGED <<algorithm, clock, fixed, bucket>>
  BY DEF AllowSliding, Grant
<1>1. LimiterTyped /\ InTimeOrder /\ SlidingKeeps
  BY <1>0 DEF LimiterInv
<1>2. /\ clock \in 0 .. LastTime /\ n \in Nat /\ (\A i \in 1 .. n : granted[i] \in 0 .. LastTime)
      /\ sliding.times \in Times /\ Len(sliding.times) \in 0 .. n
  <2>1. granted \in Times /\ sliding.times \in Times /\ clock \in 0 .. LastTime
    BY <1>1 DEF LimiterTyped
  <2>2. Len(sliding.times) <= Len(granted)
    BY <1>1 DEF SlidingKeeps
  <2> QED BY <2>1, <2>2, Elements
<1>3. \A i \in 1 .. Len(sliding.times) : /\ n - Len(sliding.times) + i \in 1 .. n
                                        /\ sliding.times[i] = granted[n - Len(sliding.times) + i]
  <2>1. \A i \in 1 .. Len(sliding.times) : sliding.times[i] = granted[n - Len(sliding.times) + i]
    BY <1>1 DEF SlidingKeeps
  <2>2. \A m \in 0 .. n : \A i \in 1 .. m : n - m + i \in 1 .. n
    <3> HIDE DEF n
    <3> QED BY <1>2
  <2> QED BY <1>2, <2>1, <2>2
<1>4. \A i, j \in 1 .. Len(sliding.times) : i <= j => sliding.times[i] <= sliding.times[j]
  <2> SUFFICES ASSUME NEW i \in 1 .. Len(sliding.times), NEW j \in 1 .. Len(sliding.times), i <= j
               PROVE  granted[n - Len(sliding.times) + i] <= granted[n - Len(sliding.times) + j]
    BY <1>3
  <2>1. n - Len(sliding.times) + i <= n - Len(sliding.times) + j
    BY <1>2
  <2> QED BY <1>1, <1>3, <2>1 DEF InTimeOrder
<1>5. clock - Window \in Int
  BY <1>2
<1>6. /\ valid \in Times /\ kept <= Len(sliding.times)
      /\ \A i \in 1 .. kept : valid[i] = sliding.times[Len(sliding.times) - kept + i]
      /\ \A i \in 1 .. Len(sliding.times) - kept : sliding.times[i] <= clock - Window
  BY <1>2, <1>4, <1>5, AfterKeeps
<1>7. kept \in 0 .. n
  BY <1>2, <1>6, Elements
<1> HIDE DEF valid, kept
<1>8. \A i \in 1 .. kept : n - kept + i \in 1 .. n /\ valid[i] = granted[n - kept + i]
  <2> SUFFICES ASSUME NEW i \in 1 .. kept PROVE n - kept + i \in 1 .. n /\ valid[i] = granted[n - kept + i]
    OBVIOUS
  <2> DEFINE k == Len(sliding.times) - kept + i
  <2>1. k \in 1 .. Len(sliding.times) /\ n - Len(sliding.times) + k = n - kept + i
    <3>1. \A m \in 0 .. n : kept <= m => m - kept + i \in 1 .. m /\ n - m + (m - kept + i) = n - kept + i
      <4> HIDE DEF n
      <4> QED BY <1>2, <1>7
    <3> QED BY <1>2, <1>6, <3>1
  <2>2. valid[i] = sliding.times[k] /\ sliding.times[k] = granted[n - Len(sliding.times) + k]
    BY <1>3, <1>6, <2>1
  <2> QED BY <1>2, <1>7, <2>1, <2>2
<1>9. \A i \in 1 .. n - kept : granted[i] <= clock - Window
  <2> SUFFICES ASSUME NEW i \in 1 .. n - kept PROVE granted[i] <= clock - Window
    OBVIOUS
  <2>1. CASE i <= n - Len(sliding.times)
    <3>1. i \in 1 .. n - Len(sliding.times)
      BY <1>2, <2>1
    <3> QED BY <1>1, <3>1 DEF SlidingKeeps
  <2>2. CASE ~ (i <= n - Len(sliding.times))
    <3> DEFINE k == i - (n - Len(sliding.times))
    <3>1. k \in 1 .. Len(sliding.times) - kept /\ k \in 1 .. Len(sliding.times) /\ n - Len(sliding.times) + k = i
      <4>1. \A m \in 0 .. n : ~ (i <= n - m) => /\ i - (n - m) \in 1 .. m - kept /\ i - (n - m) \in 1 .. m
                                               /\ n - m + (i - (n - m)) = i
        <5> HIDE DEF n
        <5> QED BY <1>2, <1>7
      <4> QED BY <1>2, <2>2, <4>1
    <3>2. sliding.times[k] <= clock - Window /\ sliding.times[k] = granted[i]
      BY <1>3, <1>6, <3>1
    <3> QED BY <3>2
  <2> QED BY <2>1, <2>2
<1>10. CASE ~ yes
  <2>1. granted' = granted /\ clock' = clock /\ sliding' = [exists |-> TRUE, times |-> valid] /\ sliding.exists
    BY <1>0, <1>10
  <2>2. LimiterTyped' /\ InTimeOrder'
    BY <1>0, <1>1, <1>6, <2>1 DEF LimiterTyped, InTimeOrder
  <2>3. sliding'.exists /\ sliding'.times = valid /\ Len(sliding'.times) = kept
    BY <2>1 DEF kept
  <2>4. SlidingKeeps'
    BY <1>1, <1>7, <1>8, <1>9, <2>1, <2>3 DEF SlidingKeeps
  <2> QED BY <1>0, <2>2, <2>4 DEF LimiterInv
<1>11. CASE yes
  <2>1. granted' = Append(granted, clock) /\ clock' = clock /\ sliding' = [exists |-> TRUE, times |-> Append(valid, clock)]
    BY <1>0, <1>11
  <2>2. /\ granted' \in Times /\ Len(granted') = n + 1
        /\ \A i \in 1 .. n : granted'[i] = granted[i] /\ i \in 1 .. Len(granted')
        /\ granted'[n + 1] = clock
        /\ \A i \in 1 .. Len(granted') : i \in 1 .. n \/ i = n + 1
        /\ InTimeOrder'
    BY <1>1, <2>1, GrantedLater
  <2>3. /\ sliding'.exists /\ sliding'.times \in Times /\ Len(sliding'.times) = kept + 1
        /\ \A i \in 1 .. kept : sliding'.times[i] = valid[i]
        /\ sliding'.times[kept + 1] = clock
    BY <1>2, <1>6, <2>1, AppendProperties DEF kept, Times
  <2>4. LimiterTyped'
    <3>1. sliding' \in [exists : BOOLEAN, times : Times]
      BY <2>1, <2>3
    <3> QED BY <1>0, <1>1, <2>2, <3>1 DEF LimiterTyped
  <2>5. Len(sliding'.times) <= Len(granted') /\ Len(granted') - Len(sliding'.times) = n - kept
    BY <1>2, <1>7, <2>2, <2>3
  <2>6. ASSUME NEW i \in 1 .. kept + 1 PROVE sliding'.times[i] = granted'[n - kept + i]
    <3>1. CASE i = kept + 1
      <4>1. n - kept + i = n + 1
        BY <1>2, <1>7, <3>1
      <4> QED BY <2>2, <2>3, <3>1, <4>1
    <3>2. CASE i # kept + 1
      <4>1. i \in 1 .. kept
        BY <1>7, <3>2
      <4> QED BY <1>8, <2>2, <2>3, <4>1
    <3> QED BY <3>1, <3>2
  <2>7. ASSUME NEW i \in 1 .. n - kept PROVE granted'[i] <= clock - Window
    <3>1. i \in 1 .. n
      BY <1>2, <1>7
    <3> QED BY <1>9, <2>2, <3>1
  <2>8. ASSUME NEW i \in 1 .. n + 1, i + Let <= n + 1 PROVE granted'[i + Let] - granted'[i] >= Window
    <3>0. i \in 1 .. n /\ granted'[i] = granted[i] /\ granted[i] \in Int
      BY <1>2, <2>2, <2>8
    <3>1. CASE i + Let <= n
      <4>1. i + Let \in 1 .. n
        BY <1>2, <3>1
      <4> QED BY <1>1, <2>2, <3>0, <3>1, <4>1 DEF SlidingKeeps
    <3>2. CASE ~ (i + Let <= n)
      <4>1. i + Let = n + 1
        BY <1>2, <2>8, <3>2
      <4>2. sliding.exists
        <5>1. n # 0
          BY <3>0
        <5> QED BY <1>1, <5>1, EmptySeq DEF SlidingKeeps
      <4>3. kept < Limit
        BY <1>11, <4>2 DEF kept
      <4>4. i \in 1 .. n - kept
        BY <1>2, <1>7, <3>0, <4>1, <4>3
      <4>5. granted[i] <= clock - Window /\ granted'[i + Let] = clock
        BY <1>9, <2>2, <4>1, <4>4
      <4> QED BY <1>2, <3>0, <4>5
    <3> QED BY <3>1, <3>2
  <2>9. SlidingKeeps'
    <3>1. ~ sliding'.exists => granted' = <<>> /\ sliding'.times = <<>>
      BY <2>3
    <3>2. \A i \in 1 .. Len(sliding'.times) : sliding'.times[i] = granted'[Len(granted') - Len(sliding'.times) + i]
      BY <2>3, <2>5, <2>6
    <3>3. \A i \in 1 .. Len(granted') - Len(sliding'.times) : granted'[i] <= clock' - Window
      BY <2>1, <2>5, <2>7
    <3>4. \A i \in 1 .. Len(granted') : i + Let <= Len(granted') => granted'[i + Let] - granted'[i] >= Window
      BY <2>2, <2>8
    <3> QED BY <2>5, <3>1, <3>2, <3>3, <3>4 DEF SlidingKeeps, Let
  <2> QED BY <1>0, <2>2, <2>4, <2>9 DEF LimiterInv
<1> QED BY <1>10, <1>11

\* The start of the window of a time, and how the starts of two are apart.
LEMMA Quotient == ASSUME NEW t \in Nat, NEW w \in Nat \ {0}
                  PROVE  t \div w \in Nat /\ (t \div w) * w <= t /\ t < (t \div w) * w + w
<1>1. t \div w \in Nat
  OBVIOUS
<1>2. (t \div w) * w <= t
  OBVIOUS
<1>3. t < (t \div w) * w + w
  OBVIOUS
<1> QED BY <1>1, <1>2, <1>3

\* Different multiples of a window are at least a window apart.
LEMMA Multiples == ASSUME NEW p \in Nat, NEW q \in Nat, NEW w \in Nat \ {0}, q < p
                   PROVE  q * w + w <= p * w
<1>1. q + 1 <= p
  OBVIOUS
<1>2. PICK d \in Nat : p = q + 1 + d
  <2>1. p - (q + 1) \in Nat /\ p = q + 1 + (p - (q + 1))
    BY <1>1
  <2> QED BY <2>1
<1>3. p * w = q * w + w + d * w /\ d * w \in Nat
  BY <1>2
<1> QED BY <1>3

\* The start of a window is at most a window back, and later times have later windows.
LEMMA WindowStarts ==
    ASSUME NEW a \in Nat, NEW b \in Nat
    PROVE  /\ Aligned(a) \in Nat /\ Aligned(a) <= a /\ a < Aligned(a) + Window
           /\ a < Aligned(b) => Aligned(a) + Window <= Aligned(b)
           /\ a <= b => Aligned(a) <= Aligned(b)
<1> DEFINE p == a \div Window
           q == b \div Window
<1>1. p \in Nat /\ Aligned(a) = p * Window /\ Aligned(a) <= a /\ a < Aligned(a) + Window
  BY LimiterAssumption, Quotient DEF Aligned
<1>2. q \in Nat /\ Aligned(b) = q * Window /\ Aligned(b) <= b /\ b < Aligned(b) + Window
  BY LimiterAssumption, Quotient DEF Aligned
<1> HIDE DEF p, q
<1>3. Aligned(a) \in Nat /\ Aligned(b) \in Nat
  BY <1>1, <1>2, LimiterAssumption
<1>4. p < q => Aligned(a) + Window <= Aligned(b)
  BY <1>1, <1>2, LimiterAssumption, Multiples
<1>5. q < p => Aligned(b) + Window <= Aligned(a)
  BY <1>1, <1>2, LimiterAssumption, Multiples
<1>6. p = q => Aligned(a) = Aligned(b)
  BY <1>1, <1>2
<1>7. p < q \/ q < p \/ p = q
  BY <1>1, <1>2
<1> QED BY <1>1, <1>2, <1>3, <1>4, <1>5, <1>6, <1>7, LimiterAssumption

-----------------------------------------------------------------------------
\* The start of a window starts its own window.
LEMMA WindowsOfWindows == ASSUME NEW a \in Nat PROVE Aligned(Aligned(a)) = Aligned(a)
<1> DEFINE q == a \div Window
           p == (q * Window) \div Window
<1>1. q \in Nat /\ Aligned(a) = q * Window
  BY LimiterAssumption, Quotient DEF Aligned
<1>2. q * Window \in Nat
  BY <1>1, LimiterAssumption
<1>3. p \in Nat /\ p * Window <= q * Window /\ q * Window < p * Window + Window
  BY <1>2, LimiterAssumption, Quotient
<1>4. Aligned(Aligned(a)) = p * Window
  BY <1>1 DEF Aligned
<1> HIDE DEF p, q
<1>5. p * Window \in Nat
  BY <1>3, LimiterAssumption
<1>6. ~ (p < q)
  <2>1. p < q => p * Window + Window <= q * Window
    BY <1>1, <1>3, LimiterAssumption, Multiples
  <2> QED BY <1>2, <1>3, <1>5, <2>1, LimiterAssumption
<1>7. ~ (q < p)
  <2>1. q < p => q * Window + Window <= p * Window
    BY <1>1, <1>3, LimiterAssumption, Multiples
  <2> QED BY <1>2, <1>3, <1>5, <2>1, LimiterAssumption
<1>8. p = q
  BY <1>1, <1>3, <1>6, <1>7
<1> QED BY <1>1, <1>4, <1>8

\* AllowFixed keeps LimiterInv.
LEMMA FixedStep == ASSUME LimiterInv, AllowFixed PROVE LimiterInv'
<1> DEFINE current == Aligned(clock)
           fresh == fixed.window # current
           yes == fresh \/ fixed.count < Limit
           n == Len(granted)
<1> USE LimitsAreNumbers
<1>0. /\ algorithm = "fixed"
      /\ fixed' = IF fresh THEN [count |-> 1, window |-> current]
                  ELSE [fixed EXCEPT !.count = IF yes THEN @ + 1 ELSE @]
      /\ granted' = IF yes THEN Append(granted, clock) ELSE granted
      /\ UNCHANGED <<algorithm, clock, sliding, bucket>>
  BY DEF AllowFixed, Grant, Aligned
<1>1. LimiterTyped /\ InTimeOrder /\ FixedKeeps
  BY <1>0 DEF LimiterInv
<1>2. /\ clock \in 0 .. LastTime /\ n \in Nat /\ (\A i \in 1 .. n : granted[i] \in 0 .. LastTime)
      /\ fixed.count \in Nat /\ fixed.window \in -1 .. LastTime
      /\ fixed \in [count : Nat, window : -1 .. LastTime]
  BY <1>1, Elements DEF LimiterTyped
<1>3. /\ current \in Nat /\ current <= clock /\ clock < current + Window /\ Aligned(current) = current
      /\ current \in 0 .. LastTime
  <2>1. clock \in Nat
    BY <1>2
  <2>2. current \in Nat /\ current <= clock /\ clock < current + Window
    BY <2>1, WindowStarts
  <2>3. Aligned(current) = current
    BY <2>1, WindowsOfWindows
  <2> QED BY <1>2, <2>2, <2>3
<1>4. fresh => \A i \in 1 .. n : granted[i] < current
  <2> SUFFICES ASSUME fresh, NEW i \in 1 .. n PROVE granted[i] < current
    OBVIOUS
  <2>1. fixed.window # -1
    <3>1. n # 0
      BY <1>2
    <3> QED BY <1>1, <3>1, EmptySeq DEF FixedKeeps
  <2>2. fixed.window \in Nat /\ fixed.window <= clock /\ Aligned(fixed.window) = fixed.window
    BY <1>1, <1>2, <2>1 DEF FixedKeeps
  <2>3. fixed.window <= current
    BY <1>2, <2>2, WindowStarts
  <2>4. fixed.window < current
    BY <1>3, <2>2, <2>3
  <2>5. fixed.window + Window <= current
    BY <1>2, <2>2, <2>4, WindowStarts
  <2>6. granted[i] < fixed.window + Window
    BY <1>1, <2>1 DEF FixedKeeps
  <2> QED BY <1>2, <1>3, <2>2, <2>5, <2>6
<1> HIDE DEF current
<1>5. CASE ~ yes
  <2>1. granted' = granted /\ clock' = clock /\ fixed' = fixed
    BY <1>0, <1>2, <1>5
  <2> QED BY ZenonT(60), <1>0, <1>1, <2>1 DEF LimiterInv, LimiterTyped, InTimeOrder, FixedKeeps
<1>6. CASE yes
  <2>1. granted' = Append(granted, clock) /\ clock' = clock
    BY <1>0, <1>6
  <2>2. /\ granted' \in Times /\ Len(granted') = n + 1
        /\ \A i \in 1 .. n : granted'[i] = granted[i] /\ i \in 1 .. Len(granted')
        /\ granted'[n + 1] = clock
        /\ \A i \in 1 .. Len(granted') : i \in 1 .. n \/ i = n + 1
        /\ InTimeOrder'
    BY <1>1, <2>1, GrantedLater
  <2>3. /\ fixed'.window = current /\ fixed' \in [count : Nat, window : -1 .. LastTime]
        /\ fixed'.count = IF fresh THEN 1 ELSE fixed.count + 1
    <3>1. CASE fresh
      <4>1. fixed' = [count |-> 1, window |-> current]
        BY <1>0, <3>1
      <4>2. current \in -1 .. LastTime
        BY <1>3
      <4> QED BY <3>1, <4>1, <4>2
    <3>2. CASE ~ fresh
      <4>1. fixed' = [fixed EXCEPT !.count = @ + 1]
        BY <1>0, <1>6, <3>2
      <4>2. fixed'.count = fixed.count + 1 /\ fixed'.window = fixed.window
        BY <1>2, <4>1
      <4>3. fixed' \in [count : Nat, window : -1 .. LastTime]
        <5> DEFINE W == -1 .. LastTime
        <5>1. fixed \in [count : Nat, window : W] /\ fixed.count + 1 \in Nat
          BY <1>2
        <5> HIDE DEF W
        <5>2. [fixed EXCEPT !.count = fixed.count + 1] \in [count : Nat, window : W]
          BY <5>1
        <5>3. fixed' \in [count : Nat, window : W]
          BY <4>1, <5>2
        <5> QED BY <5>3 DEF W
      <4> QED BY <3>2, <4>2, <4>3
    <3> QED BY <3>1, <3>2
  <2>4. LimiterTyped'
    BY <1>0, <1>1, <2>2, <2>3 DEF LimiterTyped
  <2>5. /\ fixed'.count \in 1 .. Let /\ fixed'.count <= n + 1
        /\ \A i \in 1 .. n + 1 - fixed'.count : i \in 1 .. n /\ granted[i] < current
    <3>1. CASE fresh
      <4>1. fixed'.count = 1 /\ n + 1 - fixed'.count = n
        BY <1>2, <2>3, <3>1
      <4> QED BY <1>2, <1>4, <3>1, <4>1
    <3>2. CASE ~ fresh
      <4>1. fixed.window # -1 /\ fixed.window = current /\ fixed.count < Limit
        BY <1>3, <1>6, <3>2
      <4>2. /\ fixed.count <= Let /\ fixed.count <= n
            /\ \A i \in 1 .. n - fixed.count : granted[i] < current
        BY <1>1, <4>1 DEF FixedKeeps
      <4>3. fixed'.count = fixed.count + 1 /\ n + 1 - fixed'.count = n - fixed.count
        BY <1>2, <2>3, <3>2
      <4>4. Let = Limit
        BY <1>2, <4>1
      <4>5. \A i \in 1 .. n - fixed.count : i \in 1 .. n
        BY <1>2
      <4>6. fixed'.count \in 1 .. Let /\ fixed'.count <= n + 1
        BY <1>2, <4>1, <4>2, <4>3, <4>4
      <4> QED BY <4>2, <4>3, <4>5, <4>6
    <3> QED BY <3>1, <3>2
  <2>6. ASSUME NEW i \in 1 .. n + 1 PROVE granted'[i] < current + Window
    <3>1. CASE i \in 1 .. n
      <4>1. CASE fresh
        <5>1. granted[i] < current /\ granted'[i] = granted[i] /\ granted[i] \in Int
          BY <1>2, <1>4, <2>2, <3>1, <4>1
        <5> QED BY <1>3, <5>1
      <4>2. CASE ~ fresh
        <5>1. fixed.window # -1 /\ fixed.window = current
          BY <1>3, <4>2
        <5> QED BY <1>1, <2>2, <3>1, <5>1 DEF FixedKeeps
      <4> QED BY <4>1, <4>2
    <3>2. CASE i = n + 1
      BY <1>3, <2>2, <3>2
    <3> QED BY <1>2, <3>1, <3>2
  <2>7. ASSUME NEW i \in 1 .. n + 1, i + Let <= n + 1 PROVE granted'[i] < Aligned(granted'[i + Let])
    <3>0. i \in 1 .. n /\ granted'[i] = granted[i]
      BY <1>2, <2>2, <2>7
    <3>1. CASE i + Let <= n
      <4>1. i + Let \in 1 .. n
        BY <1>2, <3>1
      <4> QED BY <1>1, <2>2, <3>0, <3>1, <4>1 DEF FixedKeeps
    <3>2. CASE ~ (i + Let <= n)
      <4>1. i + Let = n + 1
        BY <1>2, <2>7, <3>2
      <4>2. i \in 1 .. n + 1 - fixed'.count
        BY <1>2, <2>5, <3>0, <4>1
      <4>3. granted'[i + Let] = clock
        BY <2>2, <4>1
      <4> QED BY <2>5, <3>0, <4>2, <4>3 DEF current
    <3> QED BY <3>1, <3>2
  <2>8. FixedKeeps'
    <3>1. fixed'.window # -1 /\ fixed'.window <= clock' /\ Aligned(fixed'.window) = fixed'.window
      BY <1>3, <2>1, <2>3
    <3>2. fixed'.count <= Let /\ fixed'.count <= Len(granted')
      BY <2>2, <2>5
    <3>3. \A i \in 1 .. Len(granted') - fixed'.count : granted'[i] < fixed'.window
      <4>1. \A i \in 1 .. n + 1 - fixed'.count : granted'[i] = granted[i]
        BY <2>2, <2>5
      <4>2. \A i \in 1 .. n + 1 - fixed'.count : granted'[i] < current
        BY <2>5, <4>1
      <4> QED BY <2>2, <2>3, <4>2
    <3>4. \A i \in 1 .. Len(granted') : granted'[i] < fixed'.window + Window
      BY <2>2, <2>3, <2>6
    <3>5. \A i \in 1 .. Len(granted') : i + Let <= Len(granted') => granted'[i] < Aligned(granted'[i + Let])
      BY <2>2, <2>7
    <3> QED BY <3>1, <3>2, <3>3, <3>4, <3>5 DEF FixedKeeps, Let, Aligned
  <2> QED BY <1>0, <2>2, <2>4, <2>8 DEF LimiterInv
<1> QED BY <1>5, <1>6

-----------------------------------------------------------------------------
\* ProductsGrow are sums of products.
LEMMA ProductsGrow ==
    /\ \A k \in Int : k * Window \in Int /\ (k + 1) * Window = k * Window + Window
    /\ \A a, b, c \in Int : (a - c) * Limit = (a - b) * Limit + (b - c) * Limit
    /\ \A a, b \in Int : (a - b) * Limit \in Int
    /\ \A a, b \in Int : a >= b => (a - b) * Limit >= 0
<1>1. Window \in Int /\ Limit \in Nat
  BY LimiterAssumption
<1>2. \A k \in Int : k * Window \in Int /\ (k + 1) * Window = k * Window + Window
  BY <1>1
<1>3. \A a, b, c \in Int : (a - c) * Limit = (a - b) * Limit + (b - c) * Limit
  BY <1>1
<1>4. \A a, b \in Int : (a - b) * Limit \in Int
  BY <1>1
<1>5. \A a, b \in Int : a >= b => (a - b) * Limit >= 0
  <2> SUFFICES ASSUME NEW a \in Int, NEW b \in Int, a >= b PROVE (a - b) * Limit >= 0
    OBVIOUS
  <2>1. a - b \in Nat
    OBVIOUS
  <2>2. \A k \in Nat : k * Limit >= 0
    BY <1>1
  <2> QED BY <2>1, <2>2
<1> QED BY <1>2, <1>3, <1>4, <1>5

\* AllowBucket keeps LimiterInv.
LEMMA BucketStep == ASSUME LimiterInv, AllowBucket PROVE LimiterInv'
<1> DEFINE flowed == (clock - bucket.refilled) * Limit
           filled == Capped(bucket.tokens + flowed)
           yes == bucket.refilled = -1 \/ filled >= Window
           left == IF bucket.refilled = -1 THEN (Limit - 1) * Window ELSE IF yes THEN filled - Window ELSE filled
           n == Len(granted)
           full == Let * Window
<1> USE LimitsAreNumbers
<1>0. /\ algorithm = "bucket"
      /\ bucket' = [refilled |-> clock, tokens |-> left]
      /\ granted' = IF yes THEN Append(granted, clock) ELSE granted
      /\ UNCHANGED <<algorithm, clock, fixed, sliding>>
  BY DEF AllowBucket, Grant
<1>1. LimiterTyped /\ InTimeOrder /\ BucketKeeps
  BY <1>0 DEF LimiterInv
<1>2. /\ clock \in 0 .. LastTime /\ n \in Nat /\ (\A i \in 1 .. n : granted[i] \in 0 .. LastTime)
      /\ bucket.tokens \in Int /\ bucket.refilled \in -1 .. LastTime
  BY <1>1, Elements DEF LimiterTyped
<1>3. flowed \in Int /\ (Limit - 1) * Window \in Int /\ (Limit - 1) * Window = Limit * Window - Window
  <2>1. (Limit - 1) * Window \in Int /\ (Limit - 1 + 1) * Window = (Limit - 1) * Window + Window
    BY ProductsGrow
  <2>2. Limit - 1 + 1 = Limit
    OBVIOUS
  <2> QED BY <1>2, <2>1, <2>2, ProductsGrow
<1>4. filled \in Int /\ filled <= Limit * Window /\ filled <= bucket.tokens + flowed
  <2> HIDE DEF flowed
  <2> QED BY <1>2, <1>3 DEF Capped
<1>5. full \in Nat /\ Window <= full /\ Limit * Window <= full
  <2>1. Limit # 0 => Let = Limit
    OBVIOUS
  <2>2. Limit = 0 => Limit * Window = 0
    OBVIOUS
  <2>3. PICK k \in Nat : Let = k + 1
    <3>1. Let - 1 \in Nat /\ Let = (Let - 1) + 1
      OBVIOUS
    <3> QED BY <3>1
  <2>4. Let * Window = k * Window + Window /\ k * Window \in Nat
    BY <2>3
  <2> QED BY <2>1, <2>2, <2>4
<1> HIDE DEF flowed, filled
<1>6. left \in Int /\ left <= Limit * Window /\ clock \in -1 .. LastTime
  BY <1>2, <1>3, <1>4
<1>7. bucket' \in [tokens : Int, refilled : -1 .. LastTime] /\ bucket'.tokens <= Limit * Window
  BY <1>0, <1>6
<1>8. bucket'.refilled = clock /\ bucket'.tokens = left /\ clock # -1
  BY <1>0, <1>2
\* What flows in joins what flowed in.
<1>9. ASSUME bucket.refilled # -1, NEW i \in 1 .. n
      PROVE  /\ granted[i] <= clock
             /\ (n - i + 1) * Window + filled <= full + (clock - granted[i]) * Limit
  <2>1. (n - i + 1) * Window + bucket.tokens <= full + (bucket.refilled - granted[i]) * Limit
    BY <1>1, <1>9 DEF BucketKeeps, Flow
  <2>2. (clock - granted[i]) * Limit = flowed + (bucket.refilled - granted[i]) * Limit
    BY <1>2, ProductsGrow DEF flowed
  <2>3. (n - i + 1) * Window \in Int /\ (bucket.refilled - granted[i]) * Limit \in Int
    BY <1>2, ProductsGrow
  <2>4. granted[i] <= clock
    BY <1>1 DEF InTimeOrder
  <2>5. \A x, y \in Int : x + bucket.tokens <= full + y => x + filled <= full + (flowed + y)
    <3> HIDE DEF full
    <3> QED BY <1>2, <1>3, <1>4, <1>5
  <2> QED BY <2>1, <2>2, <2>3, <2>4, <2>5
<1>10. CASE ~ yes
  <2>1. granted' = granted /\ clock' = clock /\ left = filled /\ bucket.refilled # -1
    BY <1>0, <1>10
  <2>2. LimiterTyped' /\ InTimeOrder'
    BY <1>0, <1>1, <1>7, <2>1 DEF LimiterTyped, InTimeOrder
  <2>3. BucketKeeps'
    <3>1. \A i \in 1 .. Len(granted') :
             /\ granted'[i] <= bucket'.refilled
             /\ (Len(granted') - i + 1) * Window + bucket'.tokens <= full + (bucket'.refilled - granted'[i]) * Limit
      BY <1>8, <1>9, <2>1
    <3>2. bucket'.refilled <= clock'
      BY <1>2, <1>8, <2>1
    <3>3. \A i, j \in 1 .. Len(granted') :
             i <= j => (j - i + 1) * Window <= full + (granted'[j] - granted'[i]) * Limit
      BY <1>1, <2>1 DEF BucketKeeps
    <3> QED BY <1>8, <3>1, <3>2, <3>3 DEF BucketKeeps, Flow, Let
  <2> QED BY <1>0, <2>2, <2>3 DEF LimiterInv
<1>11. CASE yes
  <2>1. granted' = Append(granted, clock) /\ clock' = clock
    BY <1>0, <1>11
  <2>2. /\ granted' \in Times /\ Len(granted') = n + 1
        /\ \A i \in 1 .. n : granted'[i] = granted[i] /\ i \in 1 .. Len(granted')
        /\ granted'[n + 1] = clock
        /\ \A i \in 1 .. Len(granted') : i \in 1 .. n \/ i = n + 1
        /\ InTimeOrder'
    BY <1>1, <2>1, GrantedLater
  <2>3. LimiterTyped'
    BY <1>0, <1>1, <1>7, <2>2 DEF LimiterTyped
  <2>4. bucket.refilled # -1 => left = filled - Window /\ left >= 0
    BY <1>4, <1>11
  <2>5. bucket.refilled = -1 => n = 0 /\ left = Limit * Window - Window
    BY <1>1, <1>3, EmptySeq DEF BucketKeeps
  <2>6. Window + left <= full
    <3> HIDE DEF left, full
    <3> QED BY <1>4, <1>5, <1>6, <2>4, <2>5
  <2>7. ASSUME NEW i \in 1 .. n
        PROVE  /\ granted[i] <= clock
               /\ (n + 1 - i + 1) * Window + left <= full + (clock - granted[i]) * Limit
               /\ (n + 1 - i + 1) * Window <= full + (clock - granted[i]) * Limit
    <3>1. bucket.refilled # -1
      BY <1>2, <2>5, <2>7
    <3>2. granted[i] <= clock /\ (n - i + 1) * Window + filled <= full + (clock - granted[i]) * Limit
      BY <1>9, <3>1
    <3>3. (n - i + 1) * Window \in Int /\ (n - i + 1 + 1) * Window = (n - i + 1) * Window + Window
      BY <1>2, ProductsGrow
    <3>4. n - i + 1 + 1 = n + 1 - i + 1 /\ (clock - granted[i]) * Limit \in Int
      BY <1>2, ProductsGrow
    <3>5. left = filled - Window /\ left >= 0
      BY <2>4, <3>1
    <3>6. \A x, y \in Int : x + filled <= full + y => x + Window + left <= full + y /\ x + Window <= full + y
      <4> HIDE DEF full, left
      <4> QED BY <1>4, <1>5, <1>6, <3>5
    <3> QED BY <3>2, <3>3, <3>4, <3>6
  <2>8. /\ (n + 1 - (n + 1) + 1) * Window = Window
        /\ (clock - clock) * Limit = 0
    <3>1. n + 1 - (n + 1) + 1 = 1 /\ clock - clock = 0
      BY <1>2
    <3> QED BY <3>1
  <2>9. ASSUME NEW i \in 1 .. n + 1
        PROVE  /\ granted'[i] <= clock
               /\ (n + 1 - i + 1) * Window + left <= full + (clock - granted'[i]) * Limit
               /\ (n + 1 - i + 1) * Window <= full + (clock - granted'[i]) * Limit
    <3>1. CASE i \in 1 .. n
      BY <2>2, <2>7, <3>1
    <3>2. CASE i = n + 1
      <4>1. granted'[i] = clock /\ clock <= clock
        BY <1>2, <2>2, <3>2
      <4>2. Window + left <= full + 0 /\ Window <= full + 0
        BY <1>5, <2>6
      <4> HIDE DEF full, left
      <4> QED BY <2>8, <3>2, <4>1, <4>2
    <3> QED BY <1>2, <3>1, <3>2
  <2>10. ASSUME NEW i \in 1 .. n + 1, NEW j \in 1 .. n + 1, i <= j
         PROVE  (j - i + 1) * Window <= full + (granted'[j] - granted'[i]) * Limit
    <3>1. CASE j = n + 1
      BY <2>2, <2>9, <3>1
    <3>2. CASE j # n + 1
      <4>1. i \in 1 .. n /\ j \in 1 .. n
        BY <1>2, <2>10, <3>2
      <4> QED BY <1>1, <2>2, <2>10, <4>1 DEF BucketKeeps
    <3> QED BY <3>1, <3>2
  <2>11. BucketKeeps'
    <3>1. \A i \in 1 .. Len(granted') :
             /\ granted'[i] <= bucket'.refilled
             /\ (Len(granted') - i + 1) * Window + bucket'.tokens <= full + (bucket'.refilled - granted'[i]) * Limit
      BY <1>8, <2>2, <2>9
    <3>2. bucket'.refilled <= clock'
      BY <1>2, <1>8, <2>1
    <3>3. \A i, j \in 1 .. Len(granted') :
             i <= j => (j - i + 1) * Window <= full + (granted'[j] - granted'[i]) * Limit
      BY <2>2, <2>10
    <3> QED BY <1>8, <3>1, <3>2, <3>3 DEF BucketKeeps, Flow, Let
  <2> QED BY <1>0, <2>2, <2>3, <2>11 DEF LimiterInv
<1> QED BY <1>10, <1>11

\* The invariant holds in every state of every behaviour.
LEMMA LimiterInvariant == LimiterSpec => []LimiterInv
<1>1. LimiterInv /\ [LimiterNext]_limiterVars => LimiterInv'
  <2> SUFFICES ASSUME LimiterInv, [LimiterNext]_limiterVars PROVE LimiterInv'
    OBVIOUS
  <2>1. CASE UNCHANGED limiterVars
    <3>1. UNCHANGED <<algorithm, clock, fixed, sliding, bucket, granted>>
      BY <2>1 DEF limiterVars
    <3>2. LimiterTyped' /\ InTimeOrder'
      BY <3>1 DEF LimiterInv, LimiterTyped, InTimeOrder
    <3>3. (SlidingKeeps => SlidingKeeps') /\ (FixedKeeps => FixedKeeps')
      BY <3>1 DEF SlidingKeeps, FixedKeeps
    <3>4. BucketKeeps => BucketKeeps'
      BY <3>1 DEF BucketKeeps, Flow
    <3> QED BY <3>1, <3>2, <3>3, <3>4 DEF LimiterInv
  <2> QED BY <2>1, TimeStep, SlidingStep, FixedStep, BucketStep DEF LimiterNext
<1> QED BY LimiterInitially, <1>1, PTL DEF LimiterSpec

-----------------------------------------------------------------------------
\* The requests that were let through between two times are in a row.
LEMMA InARow ==
    ASSUME LimiterTyped, InTimeOrder, NEW s \in Nat, NEW t \in Nat, s <= t, Between(s, t) # 0
    PROVE  /\ Between(s, t) \in Nat
           /\ \E i, j \in 1 .. Len(granted) :
                /\ i <= j /\ Between(s, t) <= j - i + 1
                /\ s <= granted[i] /\ granted[i] <= t /\ s <= granted[j] /\ granted[j] <= t
<1> DEFINE B == {i \in DOMAIN granted : s <= granted[i] /\ granted[i] <= t}
           C == {Len(granted) - i : i \in B}
<1>1. Len(granted) \in Nat /\ DOMAIN granted = 1 .. Len(granted)
  BY Elements DEF LimiterTyped
<1>2. B # {}
  <2>1. Between(s, t) = Cardinality(B)
    BY DEF Between
  <2> HIDE DEF B
  <2> QED BY <2>1, FS_EmptySet
<1>3. PICK i \in B : \A k \in B : i <= k
  <2>1. B \subseteq Nat
    BY <1>1
  <2> HIDE DEF B
  <2> QED BY <1>2, <2>1, LeastNumber
<1>4. PICK c \in C : \A d \in C : c <= d
  <2>1. C \subseteq Nat /\ C # {}
    BY <1>1, <1>2
  <2> HIDE DEF C
  <2> QED BY <2>1, LeastNumber
<1>5. PICK j \in B : c = Len(granted) - j
  OBVIOUS
<1>6. ASSUME NEW k \in B PROVE k <= j
  <2>1. Len(granted) - j <= Len(granted) - k
    BY <1>4, <1>5
  <2>2. k \in 1 .. Len(granted) /\ j \in 1 .. Len(granted)
    BY <1>1
  <2> QED BY <1>1, <2>1, <2>2
<1>7. /\ i \in 1 .. Len(granted) /\ j \in 1 .. Len(granted) /\ i <= j
      /\ s <= granted[i] /\ granted[i] <= t /\ s <= granted[j] /\ granted[j] <= t
  BY <1>1, <1>3
<1>8. B \subseteq i .. j
  <2> SUFFICES ASSUME NEW k \in B PROVE k \in i .. j
    OBVIOUS
  <2>1. k \in Int /\ i <= k /\ k <= j
    BY <1>1, <1>3, <1>6
  <2> QED BY <1>7, <2>1
<1>9. Between(s, t) = Cardinality(B)
  BY DEF Between
<1> HIDE DEF B
<1>10. IsFiniteSet(i .. j) /\ Cardinality(i .. j) = j - i + 1
  BY <1>1, <1>7, FS_Interval
<1>11. Cardinality(B) <= j - i + 1 /\ Cardinality(B) \in Nat
  BY <1>8, <1>10, FS_Subset, FS_CardinalityType
<1> QED BY <1>7, <1>9, <1>11

\* Over any stretch of time no algorithm lets more through than it promises: WindowLimits.
THEOREM RatesHold == LimiterSpec => [](LimiterTypeOK /\ WindowLimits)
<1>1. ASSUME LimiterInv PROVE WindowLimits
  <2> USE LimitsAreNumbers
  <2>1. LimiterTyped /\ InTimeOrder
    BY <1>1 DEF LimiterInv
  <2>2. clock \in 0 .. LastTime /\ Len(granted) \in Nat /\ \A i \in 1 .. Len(granted) : granted[i] \in Int
    BY <2>1, Elements DEF LimiterTyped
  <2> SUFFICES ASSUME NEW s \in 0 .. clock, NEW t \in s .. clock
               PROVE  /\ algorithm = "sliding" /\ t - s < Window => Between(s, t) <= Let
                      /\ algorithm = "fixed" /\ t - s < Window => Between(s, t) <= 2 * Let
                      /\ algorithm = "bucket" => Between(s, t) * Window <= Let * Window + (t - s) * Limit
    BY DEF WindowLimits
  <2>3. s \in Nat /\ t \in Nat /\ s <= t
    BY <2>2
  <2>4. CASE Between(s, t) = 0
    <3>1. 0 * Window = 0 /\ (t - s) * Limit \in Int /\ (t - s) * Limit >= 0
      BY <2>3, ProductsGrow
    <3>2. 0 <= Let /\ 0 <= 2 * Let /\ 0 <= Let * Window
      OBVIOUS
    <3> QED BY <2>4, <3>1, <3>2
  <2>5. CASE Between(s, t) # 0
    <3>1. PICK i \in 1 .. Len(granted), j \in 1 .. Len(granted) :
             /\ i <= j /\ Between(s, t) <= j - i + 1
             /\ s <= granted[i] /\ granted[i] <= t /\ s <= granted[j] /\ granted[j] <= t
      BY <2>1, <2>3, <2>5, InARow
    <3>2. Between(s, t) \in Nat
      BY <2>1, <2>3, <2>5, InARow
    <3> DEFINE b == Between(s, t)
    <3> HIDE DEF b
    <3>3. i \in Nat /\ j \in Nat /\ granted[i] \in Int /\ granted[j] \in Int /\ b \in Nat /\ b <= j - i + 1
      BY <2>2, <3>1, <3>2 DEF b
    <3>4. ASSUME algorithm = "sliding", t - s < Window PROVE b <= Let
      <4> SUFFICES ASSUME ~ (b <= Let) PROVE FALSE
        OBVIOUS
      <4>1. i + Let <= j
        BY <3>3
      <4>2. i + Let \in 1 .. Len(granted)
        BY <2>2, <3>3, <4>1
      <4>3. granted[i + Let] - granted[i] >= Window
        BY <1>1, <3>4, <4>2 DEF LimiterInv, SlidingKeeps
      <4>4. granted[i + Let] <= granted[j] /\ granted[i + Let] \in Int
        BY <2>1, <2>2, <4>1, <4>2 DEF InTimeOrder
      <4> QED BY <2>3, <3>1, <3>3, <3>4, <4>3, <4>4
    <3>5. ASSUME algorithm = "fixed", t - s < Window PROVE b <= 2 * Let
      <4> SUFFICES ASSUME ~ (b <= 2 * Let) PROVE FALSE
        OBVIOUS
      <4>1. i + Let + Let <= j
        BY <3>3
      <4>2. i + Let \in 1 .. Len(granted) /\ i + Let + Let \in 1 .. Len(granted)
        BY <2>2, <3>3, <4>1
      <4> DEFINE x == granted[i + Let]
                 y == granted[i + Let + Let]
      <4>3. granted[i] < Aligned(x) /\ x < Aligned(y)
        BY <1>1, <3>5, <4>2 DEF LimiterInv, FixedKeeps
      <4>4. x \in Nat /\ y \in Nat /\ y <= granted[j]
        <5>1. x \in 0 .. LastTime /\ y \in 0 .. LastTime
          BY <2>1, <4>2, Elements DEF LimiterTyped
        <5> QED BY <2>1, <4>1, <4>2, <5>1 DEF InTimeOrder
      <4>5. Aligned(x) + Window <= Aligned(y) /\ Aligned(y) <= y /\ Aligned(x) \in Nat /\ Aligned(y) \in Nat
        BY <4>3, <4>4, WindowStarts
      <4> HIDE DEF x, y
      <4> QED BY SMTT(30), <2>3, <3>1, <3>3, <3>5, <4>3, <4>4, <4>5
    <3>6. ASSUME algorithm = "bucket" PROVE b * Window <= Let * Window + (t - s) * Limit
      <4>1. (j - i + 1) * Window <= Let * Window + (granted[j] - granted[i]) * Limit
        BY <1>1, <3>1, <3>6 DEF LimiterInv, BucketKeeps
      <4>2. b * Window <= (j - i + 1) * Window
        <5>1. PICK d \in Nat : b + d = j - i + 1
          <6>1. j - i + 1 - b \in Nat /\ b + (j - i + 1 - b) = j - i + 1
            BY <3>3
          <6> QED BY <6>1
        <5>2. (b + d) * Window = b * Window + d * Window /\ d * Window \in Nat /\ b * Window \in Nat
          BY <3>3
        <5> QED BY <5>1, <5>2
      <4>3. (granted[j] - granted[i]) * Limit <= (t - s) * Limit
        <5>1. PICK d \in Nat : granted[j] - granted[i] + d = t - s
          <6>1. (t - s) - (granted[j] - granted[i]) \in Nat
            BY <2>3, <3>1, <3>3
          <6>2. granted[j] - granted[i] + ((t - s) - (granted[j] - granted[i])) = t - s
            BY <2>3, <3>3
          <6> QED BY <6>1, <6>2
        <5>2. \A z \in Int : (z + d) * Limit = z * Limit + d * Limit /\ d * Limit \in Nat /\ z * Limit \in Int
          OBVIOUS
        <5>3. granted[j] - granted[i] \in Int
          BY <3>3
        <5> QED BY <5>1, <5>2, <5>3
      <4>4. (j - i + 1) * Window \in Int /\ b * Window \in Int /\ (t - s) * Limit \in Int
            /\ (granted[j] - granted[i]) * Limit \in Int
        BY <2>3, <3>3, ProductsGrow
      <4>5. \A p, q, x, y \in Int : p <= q /\ q <= Let * Window + x /\ x <= y => p <= Let * Window + y
        OBVIOUS
      <4> QED BY <4>1, <4>2, <4>3, <4>4, <4>5
    <3> QED BY <3>4, <3>5, <3>6 DEF b
  <2> QED BY <2>4, <2>5
<1>2. LimiterInv => LimiterTypeOK
  <2> SUFFICES ASSUME LimiterInv PROVE LimiterTypeOK
    OBVIOUS
  <2>1. LimiterTyped
    BY DEF LimiterInv
  <2>2. \A s \in Times : Range(s) \subseteq 0 .. LastTime
    BY Elements DEF Range
  <2> QED BY <2>1, <2>2 DEF LimiterTyped, LimiterTypeOK
<1> QED BY LimiterInvariant, <1>1, <1>2, PTL

-----------------------------------------------------------------------------
(* Serviceability, for any number of hubs, cells, points and requests.      *)
CheckPaths == {"new", "fetch", "search", "cache", "answered"}
CheckRecord == [pc : CheckPaths, point : Points, hub : HubRecords \cup {NoHub}, id : HubIds \cup {NoId}]
CellEntry == [hub : HubIds \cup {NoId}, expiresAt : 0 .. LastHour + CacheTTL]

GeoTyped ==
    /\ hubs \in [HubIds -> HubRecords \cup {NoHub}]
    /\ hubList \in Seq(HubRecords) /\ Len(hubList) <= MaxHubs
    /\ cellCache \in [Cells -> CellEntry] /\ geoHour \in 0 .. LastHour
    /\ check \in [Checks -> CheckRecord]

\* Whatever is registered is in the list, and the other way round; a hub that is about to be
\* remembered reaches the point it was computed for, and what is remembered once did.
Registered ==
    /\ \A i \in HubIds : hubs[i] # NoHub => hubs[i] \in Range(hubList) /\ hubs[i].id = i
    /\ \A r \in Range(hubList) : hubs[r.id] # NoHub
Found == \A c \in Checks :
    /\ check[c].pc = "cache" => check[c].hub \in Range(hubList) /\ InReach(check[c].hub, check[c].point)
    /\ check[c].pc = "fetch" => check[c].id # NoId

OnceReached ==
    /\ \A k \in Cells : cellCache[k].hub # NoId =>
          \E r \in Range(hubList), p \in Points : r.id = cellCache[k].hub /\ CellOf[p] = k /\ InReach(r, p)
    /\ \A c \in Checks : check[c].pc = "answered" /\ check[c].hub # NoHub =>
          /\ check[c].hub \in Range(hubList) /\ check[c].hub.active
          /\ check[c].id # NoId \/ InReach(check[c].hub, check[c].point)

GeoInv == GeoTyped /\ Registered /\ Found /\ OnceReached

\* The best hub is one of the list that reaches the point.
LEMMA BestReaches ==
    ASSUME NEW list, NEW p, GetBestHub(list, p) # NoHub
    PROVE  GetBestHub(list, p) \in Range(list) /\ InReach(GetBestHub(list, p), p)
<1> DEFINE reach == {i \in DOMAIN list : InReach(list[i], p)}
           first == {i \in reach : \A j \in reach :
                        \/ ComputeScore(list[j], p) < ComputeScore(list[i], p)
                        \/ ComputeScore(list[j], p) = ComputeScore(list[i], p) /\ i <= j}
           i0 == CHOOSE i \in first : TRUE
<1>1. first # {} /\ GetBestHub(list, p) = list[i0]
  BY DEF GetBestHub
<1>2. i0 \in first
  BY <1>1
<1>3. i0 \in DOMAIN list /\ InReach(list[i0], p)
  BY <1>2
<1> QED BY <1>1, <1>3 DEF Range

\* GeoInv holds in the initial states.
LEMMA GeoInitially == GeoInit => GeoInv
<1> SUFFICES ASSUME GeoInit PROVE GeoInv
  OBVIOUS
<1>1. (CHOOSE p \in Points : TRUE) \in Points
  BY GeoAssumption DEF GeoAssumption
<1>2. NoCellEntry \in CellEntry /\ NoCellEntry.hub = NoId
  BY GeoAssumption DEF NoCellEntry, CellEntry, GeoAssumption
<1>3. /\ hubs \in [HubIds -> HubRecords \cup {NoHub}] /\ hubList \in Seq(HubRecords)
      /\ cellCache \in [Cells -> CellEntry]
  BY <1>2, EmptySeq DEF GeoInit
<1>4. Len(hubList) <= MaxHubs /\ geoHour \in 0 .. LastHour
  BY GeoAssumption, EmptySeq DEF GeoInit, GeoAssumption
<1>5. check \in [Checks -> CheckRecord]
  BY <1>1 DEF GeoInit, CheckRecord, CheckPaths
<1>6. Registered /\ Found
  <2>1. DOMAIN hubList = {}
    BY DEF GeoInit
  <2> QED BY <2>1 DEF GeoInit, Registered, Found, Range
<1>7. OnceReached
  BY <1>2 DEF GeoInit, OnceReached
<1> QED BY <1>3, <1>4, <1>5, <1>6, <1>7 DEF GeoInv, GeoTyped

\* RegisterHub keeps GeoInv.
LEMMA RegisterHubStep == ASSUME GeoInv, NEW r \in HubRecords, RegisterHub(r) PROVE GeoInv'
<1> USE DEF GeoInv
<1>1. /\ hubList' = Append(hubList, r) /\ hubs' = [hubs EXCEPT ![r.id] = r] /\ Len(hubList) < MaxHubs
      /\ UNCHANGED <<cellCache, geoHour, check>>
  BY DEF RegisterHub
<1>2. hubList' \in Seq(HubRecords) /\ Range(hubList') = Range(hubList) \cup {r} /\ r \in Range(hubList')
  BY <1>1, Appended DEF GeoTyped
<1>3. Len(hubList') <= MaxHubs
  <2>1. Len(hubList') = Len(hubList) + 1 /\ Len(hubList) \in Nat
    BY <1>1, AppendProperties, LenProperties DEF GeoTyped
  <2> QED BY <1>1, <2>1, GeoAssumption DEF GeoAssumption
<1>4. GeoTyped'
  BY <1>1, <1>2, <1>3 DEF GeoTyped
<1>5. Registered'
  <2>1. r # NoHub /\ r.id \in HubIds
    BY GeoAssumption DEF GeoAssumption
  <2>2. hubs'[r.id] = r /\ \A i : i # r.id => hubs'[i] = hubs[i]
    BY <1>1, <2>1 DEF GeoTyped
  <2> QED BY <1>2, <2>1, <2>2 DEF Registered
<1>6. Found'
  BY <1>1, <1>2 DEF Found, InReach
<1>7. OnceReached'
  <2>1. ASSUME NEW k \in Cells, cellCache'[k].hub # NoId
        PROVE  \E x \in Range(hubList'), p \in Points : x.id = cellCache'[k].hub /\ CellOf[p] = k /\ InReach(x, p)
    BY <1>1, <1>2, <2>1 DEF OnceReached
  <2>2. ASSUME NEW c \in Checks, check'[c].pc = "answered", check'[c].hub # NoHub
        PROVE  /\ check'[c].hub \in Range(hubList') /\ check'[c].hub.active
               /\ check'[c].id # NoId \/ InReach(check'[c].hub, check'[c].point)
    BY <1>1, <1>2, <2>2 DEF OnceReached
  <2> QED BY <2>1, <2>2 DEF OnceReached, InReach
<1> QED BY <1>4, <1>5, <1>6, <1>7

\* A step of one request: what it must be to keep the invariant.
LEMMA CheckSteps ==
    ASSUME GeoInv, NEW c \in Checks, NEW t \in CheckRecord, check' = [check EXCEPT ![c] = t],
           UNCHANGED <<hubs, hubList, geoHour>>, cellCache' \in [Cells -> CellEntry],
           t.pc = "cache" => t.hub \in Range(hubList) /\ InReach(t.hub, t.point),
           t.pc = "fetch" => t.id # NoId,
           t.pc = "answered" /\ t.hub # NoHub =>
               t.hub \in Range(hubList) /\ t.hub.active /\ (t.id # NoId \/ InReach(t.hub, t.point)),
           \A k \in Cells : cellCache'[k] = cellCache[k] \/
               \E r \in Range(hubList), p \in Points : r.id = cellCache'[k].hub /\ CellOf[p] = k /\ InReach(r, p)
    PROVE  GeoInv'
<1> USE DEF GeoInv
<1>1. GeoTyped'
  BY DEF GeoTyped
<1>2. check'[c] = t /\ \A d \in Checks \ {c} : check'[d] = check[d]
  BY DEF GeoTyped
<1>3. Registered'
  BY DEF Registered
<1>4. Found'
  BY <1>2 DEF Found, InReach
<1>5. ASSUME NEW k \in Cells, cellCache'[k].hub # NoId
      PROVE  \E x \in Range(hubList'), p \in Points : x.id = cellCache'[k].hub /\ CellOf[p] = k /\ InReach(x, p)
  BY <1>5 DEF OnceReached
<1>6. ASSUME NEW d \in Checks, check'[d].pc = "answered", check'[d].hub # NoHub
      PROVE  /\ check'[d].hub \in Range(hubList') /\ check'[d].hub.active
             /\ check'[d].id # NoId \/ InReach(check'[d].hub, check'[d].point)
  BY <1>2, <1>6 DEF OnceReached
<1>7. OnceReached'
  BY <1>5, <1>6 DEF OnceReached, InReach
<1> QED BY <1>1, <1>3, <1>4, <1>7

\* The steps of a hub lookup keep the invariant.
LEMMA RequestStepsOfGeo ==
    ASSUME GeoInv, NEW c \in Checks,
           FetchHub(c) \/ ComputeBest(c) \/ CacheSet(c) \/ AskAgain(c) \/ \E p \in Points : CacheGet(c, p)
    PROVE  GeoInv'
<1> USE DEF GeoInv
<1>0. check[c] \in CheckRecord /\ check \in [Checks -> CheckRecord] /\ cellCache \in [Cells -> CellEntry]
  BY DEF GeoTyped
<1>1. CASE FetchHub(c)
  <2> DEFINE hub == hubs[check[c].id]
             t == IF hub # NoHub /\ hub.active THEN [check[c] EXCEPT !.pc = "answered", !.hub = hub]
                  ELSE [check[c] EXCEPT !.pc = "search", !.id = NoId]
  <2>1. check[c].pc = "fetch" /\ check[c].id \in HubIds /\ check[c].id # NoId
    BY <1>0, <1>1 DEF FetchHub, Found, CheckRecord
  <2>2. hub \in HubRecords \cup {NoHub} /\ (hub # NoHub => hub \in Range(hubList))
    BY <2>1 DEF GeoTyped, Registered
  <2>3. check' = [check EXCEPT ![c] = t] /\ UNCHANGED <<hubs, hubList, cellCache, geoHour>>
    BY <1>0, <1>1 DEF FetchHub
  <2>4. t \in CheckRecord
    BY <1>0, <2>2 DEF CheckRecord, CheckPaths
  <2>5. /\ t.pc \in {"answered", "search"}
        /\ t.pc = "answered" => t.hub = hub /\ hub.active /\ t.id = check[c].id
    BY <1>0 DEF CheckRecord
  <2> HIDE DEF t, hub
  <2> QED BY <1>0, <2>1, <2>2, <2>3, <2>4, <2>5, CheckSteps
<1>2. CASE ComputeBest(c)
  <2> DEFINE best == GetBestHub(hubList, check[c].point)
             t == [check[c] EXCEPT !.hub = best, !.pc = IF best = NoHub THEN "answered" ELSE "cache"]
  <2>1. best # NoHub => best \in Range(hubList) /\ InReach(best, check[c].point)
    BY BestReaches
  <2>2. Range(hubList) \subseteq HubRecords
    <3>1. hubList \in [1 .. Len(hubList) -> HubRecords]
      BY LenProperties DEF GeoTyped
    <3> QED BY <3>1 DEF Range
  <2>3. check' = [check EXCEPT ![c] = t] /\ UNCHANGED <<hubs, hubList, cellCache, geoHour>>
    BY <1>0, <1>2 DEF ComputeBest
  <2> HIDE DEF best
  <2>4. t \in CheckRecord
    BY <1>0, <2>1, <2>2 DEF CheckRecord, CheckPaths
  <2>5. t.hub = best /\ t.point = check[c].point /\ t.pc = IF best = NoHub THEN "answered" ELSE "cache"
    BY <1>0 DEF CheckRecord
  <2> HIDE DEF t
  <2> QED BY <1>0, <2>1, <2>3, <2>4, <2>5, CheckSteps
<1>3. CASE CacheSet(c)
  <2> DEFINE t == [check[c] EXCEPT !.pc = "answered"]
             k0 == CellOf[check[c].point]
  <2>1. /\ check[c].hub \in Range(hubList) /\ InReach(check[c].hub, check[c].point)
        /\ check[c].point \in Points
    BY <1>0, <1>3 DEF CacheSet, Found, CheckRecord
  <2>2. check[c].hub \in HubRecords
    <3>1. hubList \in [1 .. Len(hubList) -> HubRecords]
      BY LenProperties DEF GeoTyped
    <3> QED BY <2>1, <3>1 DEF Range
  <2>3. check[c].hub.id \in HubIds /\ check[c].hub.active
    BY <2>1, <2>2, GeoAssumption DEF GeoAssumption, InReach
  <2>4. /\ check' = [check EXCEPT ![c] = t] /\ UNCHANGED <<hubs, hubList, geoHour>>
        /\ cellCache' = [cellCache EXCEPT ![k0] = [hub |-> check[c].hub.id, expiresAt |-> geoHour + CacheTTL]]
    BY <1>0, <1>3 DEF CacheSet
  <2>5. t \in CheckRecord
    BY <1>0 DEF CheckRecord, CheckPaths
  <2>6. t.hub = check[c].hub /\ t.point = check[c].point /\ t.id = check[c].id /\ t.pc = "answered"
    BY <1>0 DEF CheckRecord
  <2>7. geoHour + CacheTTL \in 0 .. LastHour + CacheTTL
    BY GeoAssumption DEF GeoTyped, GeoAssumption
  <2>8. cellCache' \in [Cells -> CellEntry]
    BY <1>0, <2>3, <2>4, <2>7 DEF CellEntry
  <2>9. cellCache'[k0].hub = check[c].hub.id /\ \A k \in Cells \ {k0} : cellCache'[k] = cellCache[k]
    BY <1>0, <2>1, <2>4, GeoAssumption DEF GeoAssumption
  <2> HIDE DEF t
  <2>10. \A k \in Cells : cellCache'[k] = cellCache[k] \/
            \E r \in Range(hubList), p \in Points : r.id = cellCache'[k].hub /\ CellOf[p] = k /\ InReach(r, p)
    BY <2>1, <2>9
  <2> QED BY <2>1, <2>3, <2>4, <2>5, <2>6, <2>8, <2>10, CheckSteps
<1>4. CASE AskAgain(c)
  <2> DEFINE t == [check[c] EXCEPT !.pc = "new"]
  <2>1. check' = [check EXCEPT ![c] = t] /\ UNCHANGED <<hubs, hubList, cellCache, geoHour>>
    BY <1>0, <1>4 DEF AskAgain
  <2>2. t \in CheckRecord /\ t.pc = "new"
    BY <1>0 DEF CheckRecord, CheckPaths
  <2> HIDE DEF t
  <2> QED BY <1>0, <2>1, <2>2, CheckSteps
<1>5. ASSUME NEW p \in Points, CacheGet(c, p) PROVE GeoInv'
  <2> DEFINE e == cellCache[CellOf[p]]
             live == e.hub # NoId /\ geoHour <= e.expiresAt
             t == [pc |-> IF live THEN "fetch" ELSE "search", point |-> p, hub |-> NoHub,
                   id |-> IF live THEN e.hub ELSE NoId]
  <2>1. check' = [check EXCEPT ![c] = t] /\ UNCHANGED <<hubs, hubList, cellCache, geoHour>>
    BY <1>0, <1>5 DEF CacheGet
  <2>2. e.hub \in HubIds \cup {NoId}
    BY <1>0, GeoAssumption DEF GeoAssumption, CellEntry
  <2>3. t \in CheckRecord
    BY <2>2 DEF CheckRecord, CheckPaths
  <2>4. t.pc = "fetch" => t.id # NoId
    OBVIOUS
  <2>5. t.pc \in {"fetch", "search"}
    OBVIOUS
  <2> HIDE DEF t
  <2> QED BY <1>0, <2>1, <2>3, <2>4, <2>5, CheckSteps
<1> QED BY <1>1, <1>2, <1>3, <1>4, <1>5

\* The passing of time and the eviction of old cells keep the invariant.
LEMMA TimeStepsOfGeo == ASSUME GeoInv, HourPasses \/ EvictExpired PROVE GeoInv'
<1> USE DEF GeoInv
<1>1. UNCHANGED <<hubs, hubList, check>>
  BY DEF HourPasses, EvictExpired
<1>2. cellCache' \in [Cells -> CellEntry] /\ geoHour' \in 0 .. LastHour
  <2>1. CASE HourPasses
    BY <2>1, GeoAssumption DEF HourPasses, GeoTyped, GeoAssumption
  <2>2. CASE EvictExpired
    <3>1. NoCellEntry \in CellEntry
      BY GeoAssumption DEF NoCellEntry, CellEntry, GeoAssumption
    <3> QED BY <2>2, <3>1 DEF EvictExpired, GeoTyped
  <2> QED BY <2>1, <2>2
<1>3. \A k \in Cells : cellCache'[k] = cellCache[k] \/ cellCache'[k].hub = NoId
  BY DEF HourPasses, EvictExpired, NoCellEntry
<1>4. GeoTyped' /\ Registered' /\ Found'
  BY <1>1, <1>2 DEF GeoTyped, Registered, Found, InReach
<1>5. OnceReached'
  BY <1>1, <1>3 DEF OnceReached, InReach
<1> QED BY <1>4, <1>5

\* What a cell remembers, and what an answer names, is a hub that is registered, active and in
\* reach, or was until it was registered again, however registrations and requests
\* interleave: CacheReaches.
THEOREM HubsReach == GeoSpec => [](GeoTypeOK /\ CacheReaches)
<1>1. GeoInv /\ [GeoNext]_geoVars => GeoInv'
  <2> SUFFICES ASSUME GeoInv, [GeoNext]_geoVars PROVE GeoInv'
    OBVIOUS
  <2>1. CASE UNCHANGED geoVars
    BY <2>1 DEF geoVars, GeoInv, GeoTyped, Registered, Found, OnceReached, InReach
  <2> QED BY <2>1, RegisterHubStep, RequestStepsOfGeo, TimeStepsOfGeo DEF GeoNext
<1>2. GeoInv => GeoTypeOK /\ CacheReaches
  <2> SUFFICES ASSUME GeoInv PROVE GeoTypeOK /\ CacheReaches
    OBVIOUS
  <2>1. hubList \in [1 .. Len(hubList) -> HubRecords]
    BY LenProperties DEF GeoInv, GeoTyped
  <2>2. Range(hubList) \subseteq HubRecords
    BY <2>1 DEF Range
  <2>3. GeoTypeOK
    BY <2>2 DEF GeoInv, GeoTyped, GeoTypeOK, CheckRecord, CheckPaths, CellEntry
  <2>4. ASSUME NEW r \in Range(hubList) PROVE r = hubs[r.id] \/ Reregistered(r.id)
    <3>1. hubs[r.id] \in Range(hubList) /\ hubs[r.id].id = r.id
      BY <2>2, <2>4, GeoAssumption DEF GeoInv, Registered, GeoAssumption
    <3> QED BY <2>4, <3>1 DEF Reregistered
  <2>5. CacheReaches
    BY <2>4 DEF GeoInv, OnceReached, CacheReaches
  <2> QED BY <2>3, <2>5
<1> QED BY GeoInitially, <1>1, <1>2, PTL DEF GeoSpec

-----------------------------------------------------------------------------
(* Search, for any products, queries, customers and texts: sorting, the      *)
(* pages of a result and the suggestions.                                   *)

\* A strict order of S, and the place that an element has in it.
Before(S, R, x) == {y \in S : <<y, x>> \in R}
Place(S, R, x) == Cardinality(Before(S, R, x)) + 1
Orders(S, R) ==
    /\ \A x \in S : <<x, x>> \notin R
    /\ \A x, y, z \in S : <<x, y>> \in R /\ <<y, z>> \in R => <<x, z>> \in R
    /\ \A x, y \in S : x = y \/ <<x, y>> \in R \/ <<y, x>> \in R

\* What stands before another element has an earlier place.
LEMMA Places ==
    ASSUME NEW S, IsFiniteSet(S), NEW R, Orders(S, R)
    PROVE  /\ \A x \in S : Place(S, R, x) \in 1 .. Cardinality(S)
           /\ \A x, y \in S : <<x, y>> \in R => Place(S, R, x) < Place(S, R, y)
           /\ \A x, y \in S : Place(S, R, x) = Place(S, R, y) => x = y
<1>1. ASSUME NEW x \in S
      PROVE  /\ Place(S, R, x) \in 1 .. Cardinality(S) /\ IsFiniteSet(Before(S, R, x))
             /\ Cardinality(Before(S, R, x)) \in Nat
  <2>1. Before(S, R, x) \subseteq S \ {x}
    BY DEF Before, Orders
  <2>2. IsFiniteSet(S \ {x}) /\ Cardinality(S \ {x}) = Cardinality(S) - 1 /\ Cardinality(S) \in Nat
    BY FS_RemoveElement, FS_CardinalityType
  <2>3. IsFiniteSet(Before(S, R, x)) /\ Cardinality(Before(S, R, x)) <= Cardinality(S \ {x})
    BY <2>1, <2>2, FS_Subset
  <2>4. Cardinality(Before(S, R, x)) \in Nat
    BY <2>3, FS_CardinalityType
  <2> QED BY <2>2, <2>3, <2>4 DEF Place
<1>2. ASSUME NEW x \in S, NEW y \in S, <<x, y>> \in R PROVE Place(S, R, x) < Place(S, R, y)
  <2>1. Before(S, R, x) \cup {x} \subseteq Before(S, R, y) /\ x \notin Before(S, R, x)
    BY <1>2 DEF Before, Orders
  <2>2. Cardinality(Before(S, R, x) \cup {x}) = Cardinality(Before(S, R, x)) + 1
    BY <1>1, <2>1, FS_AddElement
  <2>3. Cardinality(Before(S, R, x) \cup {x}) <= Cardinality(Before(S, R, y))
    BY <1>1, <2>1, FS_Subset
  <2> QED BY <1>1, <2>2, <2>3 DEF Place
<1>3. ASSUME NEW x \in S, NEW y \in S, Place(S, R, x) = Place(S, R, y) PROVE x = y
  <2>1. ~ (<<x, y>> \in R) /\ ~ (<<y, x>> \in R)
    BY <1>1, <1>2, <1>3
  <2> QED BY <2>1 DEF Orders
<1> QED BY <1>1, <1>2, <1>3

\* Sorting keeps every element, each at its place.
LEMMA SortsAll ==
    ASSUME NEW S, IsFiniteSet(S), NEW R, Orders(S, R)
    PROVE  /\ Ordered(S, R) \in Seq(S) /\ Len(Ordered(S, R)) = Cardinality(S) /\ Range(Ordered(S, R)) = S
           /\ \A x \in S : Ordered(S, R)[Place(S, R, x)] = x
           /\ \A i \in 1 .. Cardinality(S) : Place(S, R, Ordered(S, R)[i]) = i
<1> DEFINE n == Cardinality(S)
           place == [x \in S |-> Place(S, R, x)]
           o == Ordered(S, R)
<1>1. n \in Nat /\ IsFiniteSet(1 .. n) /\ Cardinality(1 .. n) = n
  BY FS_CardinalityType, FS_Interval
<1>2. place \in Injection(S, 1 .. n)
  BY Places DEF Injection, IsInjective
<1>3. place \in Surjection(S, 1 .. n)
  BY <1>1, <1>2, FS_Injection
<1>4. ASSUME NEW i \in 1 .. n PROVE o[i] \in S /\ Place(S, R, o[i]) = i
  <2>1. PICK x \in S : place[x] = i
    BY <1>3 DEF Surjection
  <2>2. Cardinality(Before(S, R, x)) = i - 1
    <3>1. Place(S, R, x) = i /\ Cardinality(Before(S, R, x)) \in Nat
      <4>1. Before(S, R, x) \subseteq S
        BY DEF Before
      <4>2. IsFiniteSet(Before(S, R, x))
        BY <4>1, FS_Subset
      <4> QED BY <2>1, <4>2, FS_CardinalityType
    <3> QED BY <3>1 DEF Place
  <2>3. o[i] = CHOOSE z \in S : Cardinality({y \in S : <<y, z>> \in R}) = i - 1
    BY DEF Ordered
  <2>4. o[i] \in S /\ Cardinality({y \in S : <<y, o[i]>> \in R}) = i - 1
    BY <2>2, <2>3 DEF Before
  <2> QED BY <2>4 DEF Place, Before
<1>5. o \in [1 .. n -> S]
  <2> DEFINE C(i) == CHOOSE z \in S : Cardinality({y \in S : <<y, z>> \in R}) = i - 1
  <2>1. o = [i \in 1 .. n |-> C(i)]
    BY DEF Ordered
  <2> HIDE DEF C, o, n
  <2> QED BY <1>4, <2>1
<1>6. o \in [1 .. n -> S]
  BY <1>5
<1>7. o \in Seq(S) /\ Len(o) = n /\ DOMAIN o = 1 .. n
  BY <1>1, <1>6, IsASeq, LenProperties
<1>8. ASSUME NEW x \in S PROVE Place(S, R, x) \in 1 .. n /\ o[Place(S, R, x)] = x
  <2>1. Place(S, R, x) \in 1 .. n
    BY Places
  <2> HIDE DEF o
  <2>2. o[Place(S, R, x)] \in S /\ Place(S, R, o[Place(S, R, x)]) = Place(S, R, x)
    BY <1>4, <2>1
  <2> QED BY <2>2, Places
<1>9. Range(o) = S
  <2> HIDE DEF o
  <2> QED BY <1>6, <1>7, <1>8 DEF Range
<1> QED BY <1>4, <1>7, <1>8, <1>9

-----------------------------------------------------------------------------
(* What a search finds, and the lists that it may answer.                    *)
Fitting(terms, category) ==
    {k \in Products : /\ category # NoCategory => Product[k].category = category
                      /\ IF terms = <<>> THEN category # NoCategory ELSE ScoreProduct(k, terms) > 0}

Matching(q) == enabled \cap Fitting(q.terms, q.category)

FoundBy(q) ==
    IF DOMAIN MatchProducts(q.terms, q.category) = {} /\ q.terms # <<>>
    THEN FallbackProducts(q.terms, q.category) ELSE {MatchProducts(q.terms, q.category)}

\* The matches are the products that fit.
LEMMA MatchIs ==
    ASSUME NEW terms, NEW category, enabled \subseteq Products
    PROVE  DOMAIN MatchProducts(terms, category) = enabled \cap Fitting(terms, category)
<1> DEFINE M == enabled \cap Fitting(terms, category)
           score(k) == IF terms = <<>> THEN 2 ELSE ScoreProduct(k, terms)
<1>1. MatchProducts(terms, category) = [k \in M |-> score(k)]
  BY Zenon DEF MatchProducts, Fitting
<1> HIDE DEF M, score
<1>2. DOMAIN MatchProducts(terms, category) = M
  BY <1>1
<1> QED BY <1>2 DEF M

\* What a query finds is on offer, and is the matches when there are any.
LEMMA FoundIs ==
    ASSUME NEW q, enabled \subseteq Products, NEW f \in FoundBy(q)
    PROVE  DOMAIN f \subseteq enabled /\ (Matching(q) # {} => DOMAIN f = Matching(q))
<1>1. /\ DOMAIN MatchProducts(q.terms, q.category) = Matching(q)
      /\ DOMAIN MatchProducts(<<>>, q.category) \subseteq enabled
      /\ DOMAIN MatchProducts(<<Longest(q.terms)>>, q.category) \subseteq enabled
      /\ Matching(q) \subseteq enabled
  BY MatchIs DEF Matching
<1>2. \A g \in PopularProducts(20) : DOMAIN g \subseteq enabled
  BY DEF PopularProducts
<1>3. f = MatchProducts(q.terms, q.category) \/ f \in FallbackProducts(q.terms, q.category)
  BY Zenon DEF FoundBy
<1>4. \/ f = MatchProducts(q.terms, q.category) \/ f \in PopularProducts(20)
      \/ f = MatchProducts(<<>>, q.category) \/ f = MatchProducts(<<Longest(q.terms)>>, q.category)
  <2>1. FallbackProducts(q.terms, q.category) \subseteq
            {MatchProducts(<<>>, q.category), MatchProducts(<<Longest(q.terms)>>, q.category)} \cup PopularProducts(20)
    <3>1. DOMAIN <<>> = {}
      OBVIOUS
    <3> QED BY <3>1, Zenon DEF FallbackProducts
  <2> QED BY <1>3, <2>1
<1>5. Matching(q) # {} => f = MatchProducts(q.terms, q.category)
  <2>1. Matching(q) # {} => FoundBy(q) = {MatchProducts(q.terms, q.category)}
    BY <1>1, Zenon DEF FoundBy
  <2> QED BY <2>1
<1> QED BY <1>1, <1>2, <1>4, <1>5

PriceOrder(M) == {b \in M \X M : Product[b[1]].price < Product[b[2]].price}

\* Sorting keeps every element, once.
LEMMA SortingIs ==
    ASSUME NEW M, IsFiniteSet(M), NEW R, NEW list \in Sortings(M, R)
    PROVE  /\ list \in Seq(M) /\ Len(list) = Cardinality(M) /\ list \in [1 .. Cardinality(M) -> M]
           /\ \A x \in M : \E i \in 1 .. Cardinality(M) : list[i] = x
           /\ \A i, j \in 1 .. Cardinality(M) : i < j => list[i] # list[j] /\ <<list[j], list[i]>> \notin R
<1> DEFINE n == Cardinality(M)
<1>1. n \in Nat /\ IsFiniteSet(1 .. n) /\ Cardinality(1 .. n) = n
  BY FS_CardinalityType, FS_Interval
<1>2. /\ list \in [1 .. n -> M]
      /\ \A i, j \in 1 .. n : i < j => list[i] # list[j] /\ <<list[j], list[i]>> \notin R
  BY Zenon DEF Sortings
<1> HIDE DEF n
<1>3. list \in Injection(1 .. n, M)
  <2>1. ASSUME NEW i \in 1 .. n, NEW j \in 1 .. n, list[i] = list[j] PROVE i = j
    <3>1. ~ (i < j) /\ ~ (j < i)
      BY <1>2, <2>1
    <3> QED BY <1>1, <3>1
  <2> QED BY <1>2, <2>1 DEF Injection, IsInjective
<1>4. list \in Surjection(1 .. n, M)
  BY <1>1, <1>3, FS_Injection DEF n
<1>5. \A x \in M : \E i \in 1 .. n : list[i] = x
  BY <1>4 DEF Surjection
<1>6. list \in Seq(M) /\ Len(list) = n
  BY <1>1, <1>2, IsASeq, LenProperties
<1> QED BY <1>2, <1>5, <1>6 DEF n

\* No other product of M has the price of k.
Untied(M, k) == \A l \in M \ {k} : Product[l].price # Product[k].price

\* Every list in order of price has a product of a price of its own at the same place.
LEMMA UntiedPlace ==
    ASSUME NEW M, IsFiniteSet(M), M \subseteq Products, NEW list \in Sortings(M, PriceOrder(M)),
           NEW k \in M, Untied(M, k)
    PROVE  /\ Place(M, PriceOrder(M), k) \in 1 .. Cardinality(M)
           /\ list[Place(M, PriceOrder(M), k)] = k
<1> DEFINE n == Cardinality(M)
           A == Before(M, PriceOrder(M), k)
<1>1. /\ n \in Nat /\ list \in [1 .. n -> M] /\ \A x \in M : \E i \in 1 .. n : list[i] = x
      /\ \A i, j \in 1 .. n : i < j => list[i] # list[j] /\ <<list[j], list[i]>> \notin PriceOrder(M)
  <2>1. n \in Nat
    BY FS_CardinalityType
  <2>2. /\ list \in [1 .. n -> M] /\ \A x \in M : \E i \in 1 .. n : list[i] = x
        /\ \A i, j \in 1 .. n : i < j => list[i] # list[j] /\ <<list[j], list[i]>> \notin PriceOrder(M)
    <3>1. PICK R : R = PriceOrder(M)
      OBVIOUS
    <3>2. list \in Sortings(M, R)
      BY <3>1
    <3>3. /\ list \in [1 .. n -> M] /\ \A x \in M : \E i \in 1 .. n : list[i] = x
          /\ \A i, j \in 1 .. n : i < j => list[i] # list[j] /\ <<list[j], list[i]>> \notin R
      BY <3>2, SortingIs
    <3> QED BY <3>1, <3>3
  <2> QED BY <2>1, <2>2
<1> HIDE DEF n
<1>2. PICK p \in 1 .. n : list[p] = k
  BY <1>1
<1>3. \A l \in M : Product[l].price \in Nat
  BY SearchAssumption DEF SearchAssumption
<1>4. ASSUME NEW i \in 1 .. n, NEW j \in 1 .. n, i < j
      PROVE  list[i] # list[j] /\ Product[list[i]].price <= Product[list[j]].price
  <2>1. list[i] \in M /\ list[j] \in M /\ list[i] # list[j] /\ <<list[j], list[i]>> \notin PriceOrder(M)
    BY <1>1, <1>4
  <2>2. ~ (Product[list[j]].price < Product[list[i]].price)
    BY <2>1 DEF PriceOrder
  <2> QED BY <1>3, <2>1, <2>2
<1>5. ASSUME NEW i \in 1 .. n PROVE list[i] \in M /\ (list[i] \in A <=> i < p)
  <2>1. list[i] \in M /\ (list[i] \in A <=> Product[list[i]].price < Product[k].price)
    BY <1>1 DEF Before, PriceOrder
  <2>2. ASSUME i < p PROVE Product[list[i]].price < Product[k].price
    <3>1. list[i] \in M \ {k} /\ Product[list[i]].price <= Product[k].price
      BY <1>2, <1>4, <2>1, <2>2
    <3>2. Product[list[i]].price # Product[k].price
      BY <3>1 DEF Untied
    <3> QED BY <1>3, <3>1, <3>2
  <2>3. ASSUME ~ (i < p) PROVE ~ (Product[list[i]].price < Product[k].price)
    <3>1. i = p \/ p < i
      BY <1>1, <2>3
    <3>2. Product[k].price <= Product[list[i]].price
      BY <1>2, <1>3, <1>4, <2>1, <3>1
    <3> QED BY <1>3, <2>1, <3>2
  <2> QED BY <2>1, <2>2, <2>3
<1> DEFINE f == [i \in 1 .. p - 1 |-> list[i]]
<1>6. 1 .. p - 1 \subseteq 1 .. n /\ p - 1 \in Nat /\ \A i \in 1 .. n : i < p <=> i \in 1 .. p - 1
  BY <1>1
<1>7. A \subseteq M
  BY DEF Before
<1> HIDE DEF A
<1>8. f \in Bijection(1 .. p - 1, A)
  <2>1. f \in [1 .. p - 1 -> A]
    BY <1>5, <1>6
  <2>2. ASSUME NEW i \in 1 .. p - 1, NEW j \in 1 .. p - 1, f[i] = f[j] PROVE i = j
    <3>1. i \in 1 .. n /\ j \in 1 .. n /\ list[i] = list[j]
      BY <1>6, <2>2
    <3>2. ~ (i < j) /\ ~ (j < i)
      BY <1>4, <3>1
    <3> QED BY <1>6, <3>2
  <2>3. ASSUME NEW x \in A PROVE \E i \in 1 .. p - 1 : f[i] = x
    <3>1. PICK i \in 1 .. n : list[i] = x
      BY <1>1, <1>7
    <3>2. i \in 1 .. p - 1
      BY <1>5, <1>6, <3>1
    <3> QED BY <3>1, <3>2
  <2> HIDE DEF f
  <2> QED BY <2>1, <2>2, <2>3 DEF Bijection, Injection, IsInjective, Surjection
<1>9. Cardinality(A) = p - 1
  <2>1. IsFiniteSet(1 .. p - 1) /\ Cardinality(1 .. p - 1) = p - 1
    BY <1>6, FS_Interval
  <2>2. ExistsBijection(1 .. p - 1, A)
    BY <1>8 DEF ExistsBijection
  <2> QED BY <2>1, <2>2, FS_Bijection
<1>10. Place(M, PriceOrder(M), k) = p
  <2>1. Place(M, PriceOrder(M), k) = Cardinality(A) + 1 /\ p \in Nat
    BY <1>6 DEF Place, A
  <2> QED BY <1>9, <2>1
<1> QED BY <1>2, <1>10 DEF n

\* The results are products on offer, in order of price when asked.
LEMMA ResultsIs ==
    ASSUME NEW q, enabled \subseteq Products, IsFiniteSet(enabled), NEW found \in Results(q)
    PROVE  /\ found \in Seq(enabled)
           /\ q.sort = "price_asc" /\ Matching(q) # {} => found \in Sortings(Matching(q), PriceOrder(Matching(q)))
<1>1. PICK f \in FoundBy(q) : found \in Sortings(DOMAIN f, ApplySort(f, q.hub, q.sort))
  <2>1. Results(q) = UNION {Sortings(DOMAIN f, ApplySort(f, q.hub, q.sort)) : f \in FoundBy(q)}
    BY Zenon DEF Results, FoundBy
  <2> QED BY <2>1
<1>2. DOMAIN f \subseteq enabled /\ (Matching(q) # {} => DOMAIN f = Matching(q))
  BY FoundIs
<1>3. IsFiniteSet(DOMAIN f)
  BY <1>2, FS_Subset
<1>4. found \in Seq(DOMAIN f) /\ Seq(DOMAIN f) \subseteq Seq(enabled)
  <2>1. found \in Seq(DOMAIN f)
    BY <1>1, <1>3, SortingIs
  <2> QED BY <1>2, <2>1
<1>5. q.sort = "price_asc" => ApplySort(f, q.hub, q.sort) = PriceOrder(DOMAIN f)
  BY Zenon DEF ApplySort, PriceOrder, Compared
<1> QED BY <1>1, <1>2, <1>4, <1>5

\* What is in a part of a list.
LEMMA InPart ==
    ASSUME NEW T, NEW s \in Seq(T), NEW m \in Nat \ {0}, NEW n \in Nat, n <= Len(s)
    PROVE  /\ Range(SubSeq(s, m, n)) \subseteq T
           /\ \A p \in m .. n : s[p] \in Range(SubSeq(s, m, n))
<1>1. Len(s) \in Nat /\ DOMAIN s = 1 .. Len(s) /\ \A k \in 1 .. Len(s) : s[k] \in T
  BY LenProperties, ElementOfSeq
<1>2. \A k \in m .. n : s[k] \in T
  BY <1>1
<1> DEFINE u == SubSeq(s, m, n)
<1>3. u \in Seq(T) /\ Len(u) = (IF m <= n THEN n - m + 1 ELSE 0) /\ \A k \in 1 .. n - m + 1 : u[k] = s[m + k - 1]
  BY <1>2, SubSeqProperties
<1> HIDE DEF u
<1>4. DOMAIN u = 1 .. Len(u) /\ \A k \in 1 .. Len(u) : u[k] \in T
  BY <1>3, LenProperties, ElementOfSeq
<1>5. Range(u) \subseteq T
  BY <1>4 DEF Range
<1>6. ASSUME NEW p \in m .. n PROVE s[p] \in Range(u)
  <2>1. p - m + 1 \in 1 .. n - m + 1 /\ m + (p - m + 1) - 1 = p /\ n - m + 1 = Len(u)
    BY <1>3
  <2>2. u[p - m + 1] = s[p]
    BY <1>3, <2>1
  <2> QED BY <1>4, <2>1, <2>2 DEF Range
<1> QED BY <1>5, <1>6 DEF u

-----------------------------------------------------------------------------
Pager == [pc : {"idle", "paging", "end"}, query : Queries, page : Nat \ {0},
          seen : SUBSET Products, began : SUBSET Products]

\* Of what a query matched when it began, what was not seen has a place on a later page.
StillAhead(q, page, k) == (page - 1) * PageSize(q) < Place(Matching(q), PriceOrder(Matching(q)), k)

SearchTyped ==
    /\ catalogue \subseteq Products /\ enabled \subseteq catalogue /\ IsFiniteSet(enabled)
    /\ trie \in [Texts -> Nat] /\ trained \in [TrainTexts -> 0 .. MaxTrained]
    /\ pager \in [Customers -> Pager]

PagesKept ==
    \A c \in Customers :
        pager[c].pc # "idle" /\ pager[c].query.sort = "price_asc" =>
            /\ pager[c].began \subseteq Matching(pager[c].query)
            /\ \A k \in pager[c].began \ pager[c].seen :
                  Untied(Matching(pager[c].query), k) =>
                     pager[c].pc = "paging" /\ StillAhead(pager[c].query, pager[c].page, k)

TextsKept == \A k \in enabled : \A t \in Range(Product[k].texts) : trie[t] > 0

SearchInv == SearchTyped /\ PagesKept /\ TextsKept

\* The size of a page is positive, and so many pages add up.
LEMMA PageSizes == ASSUME NEW q \in Queries
                   PROVE  /\ PageSize(q) \in Nat \ {0}
                          /\ \A n \in Nat : n * PageSize(q) \in Nat
                          /\ \A n \in Nat \ {0} : (n - 1) * PageSize(q) + PageSize(q) = n * PageSize(q)
<1>1. PageSize(q) \in Nat \ {0}
  BY SearchAssumption DEF SearchAssumption, PageSize
<1> QED BY <1>1

\* An element of a finite set has its place, and no later one in a part of the set.
LEMMA PlaceIn ==
    ASSUME NEW M, NEW N, IsFiniteSet(N), M \subseteq N, NEW k \in M
    PROVE  /\ Place(M, PriceOrder(M), k) \in Nat /\ Place(N, PriceOrder(N), k) \in Nat
           /\ Place(M, PriceOrder(M), k) <= Place(N, PriceOrder(N), k)
<1> DEFINE A == Before(M, PriceOrder(M), k)
           B == Before(N, PriceOrder(N), k)
<1>1. A \subseteq B /\ B \subseteq N
  BY DEF Before, PriceOrder
<1>2. IsFiniteSet(A) /\ IsFiniteSet(B) /\ Cardinality(A) <= Cardinality(B)
  BY <1>1, FS_Subset
<1>3. Cardinality(A) \in Nat /\ Cardinality(B) \in Nat
  BY <1>2, FS_CardinalityType
<1> QED BY <1>2, <1>3 DEF Place

\* The invariant holds before the first product and query.
LEMMA SearchInitInv == SearchInit => SearchInv
<1> SUFFICES ASSUME SearchInit PROVE SearchInv
  OBVIOUS
<1>1. (CHOOSE q \in Queries : TRUE) \in Queries
  BY SearchAssumption DEF SearchAssumption
<1>2. SearchTyped
  BY <1>1, SearchAssumption, FS_EmptySet DEF SearchInit, SearchTyped, SearchAssumption, Pager
<1>3. PagesKept
  BY DEF SearchInit, PagesKept
<1>4. TextsKept
  BY DEF SearchInit, TextsKept
<1> QED BY <1>2, <1>3, <1>4 DEF SearchInv

\* AddProduct keeps SearchInv.
LEMMA AddProductStep == ASSUME SearchInv, NEW k \in Products, AddProduct(k) PROVE SearchInv'
<1>1. /\ SearchTyped /\ PagesKept /\ TextsKept
      /\ catalogue' = catalogue \cup {k} /\ enabled' = enabled \cup {k}
      /\ trie' = [t \in Texts |-> trie[t] + Occurrences(t, Product[k].texts)]
      /\ trained' = trained /\ pager' = pager
  BY DEF SearchInv, AddProduct
<1>2. ASSUME NEW l \in Products, NEW t
      PROVE  /\ Occurrences(t, Product[l].texts) \in Nat
             /\ t \in Range(Product[l].texts) => t \in Texts /\ Occurrences(t, Product[l].texts) > 0
  <2> DEFINE s == Product[l].texts
             I == {i \in DOMAIN s : s[i] = t}
  <2>1. s \in Seq(Texts)
    BY SearchAssumption DEF SearchAssumption
  <2> HIDE DEF s
  <2>2. Len(s) \in Nat /\ DOMAIN s = 1 .. Len(s) /\ \A i \in 1 .. Len(s) : s[i] \in Texts
    BY <2>1, LenProperties, ElementOfSeq
  <2>3. IsFiniteSet(I)
    <3>1. IsFiniteSet(1 .. Len(s)) /\ I \subseteq 1 .. Len(s)
      BY <2>2, FS_Interval
    <3> QED BY <3>1, FS_Subset
  <2>4. Cardinality(I) \in Nat /\ (Cardinality(I) = 0 <=> I = {})
    BY <2>3, FS_CardinalityType, FS_EmptySet
  <2>5. Occurrences(t, s) = Cardinality(I)
    BY DEF Occurrences
  <2>6. t \in Range(s) => t \in Texts /\ I # {}
    BY <2>2 DEF Range
  <2> QED BY <2>4, <2>5, <2>6 DEF s
<1>3. SearchTyped'
  <2>1. trie' \in [Texts -> Nat]
    BY <1>1, <1>2 DEF SearchTyped
  <2>2. IsFiniteSet(enabled')
    BY <1>1, FS_AddElement DEF SearchTyped
  <2> QED BY <1>1, <2>1, <2>2 DEF SearchTyped
<1>4. ASSUME NEW q \in Queries, NEW page \in Nat \ {0}, NEW l \in Matching(q), StillAhead(q, page, l)
      PROVE  StillAhead(q, page, l)'
  <2>1. Matching(q) \subseteq Matching(q)' /\ IsFiniteSet(Matching(q)')
    <3>1. Matching(q)' = enabled' \cap Fitting(q.terms, q.category)
      BY DEF Matching
    <3>2. IsFiniteSet(enabled') /\ Matching(q)' \subseteq enabled'
      BY <1>3, <3>1 DEF SearchTyped
    <3>3. IsFiniteSet(Matching(q)')
      BY <3>2, FS_Subset
    <3> QED BY <1>1, <3>1, <3>3 DEF Matching
  <2>2. PICK M, N : M = Matching(q) /\ N = Matching(q)'
    OBVIOUS
  <2>3. /\ Place(M, PriceOrder(M), l) \in Nat /\ Place(N, PriceOrder(N), l) \in Nat
        /\ Place(M, PriceOrder(M), l) <= Place(N, PriceOrder(N), l)
    BY <2>1, <2>2, PlaceIn
  <2>4. (page - 1) * PageSize(q) \in Nat
    <3>1. page - 1 \in Nat
      OBVIOUS
    <3> QED BY <3>1, PageSizes
  <2>5. (page - 1) * PageSize(q) < Place(M, PriceOrder(M), l)
    BY <1>4, <2>2 DEF StillAhead
  <2>6. (page - 1) * PageSize(q) < Place(N, PriceOrder(N), l)
    BY <2>3, <2>4, <2>5
  <2>7. StillAhead(q, page, l)' <=> (page - 1) * PageSize(q) < Place(N, PriceOrder(N), l)
    BY <2>2 DEF StillAhead
  <2> QED BY <2>6, <2>7
<1>5. PagesKept'
  <2>1. ASSUME NEW c \in Customers, pager[c].pc # "idle", pager[c].query.sort = "price_asc"
        PROVE  /\ pager[c].began \subseteq Matching(pager[c].query)'
               /\ \A l \in pager[c].began \ pager[c].seen :
                     Untied(Matching(pager[c].query)', l) =>
                        pager[c].pc = "paging" /\ StillAhead(pager[c].query, pager[c].page, l)'
    <3>1. pager[c].query \in Queries /\ pager[c].page \in Nat \ {0}
      BY <1>1 DEF SearchTyped, Pager
    <3>2. Matching(pager[c].query) \subseteq Matching(pager[c].query)'
      BY <1>1 DEF Matching
    <3>3. \A l : Untied(Matching(pager[c].query)', l) => Untied(Matching(pager[c].query), l)
      BY <3>2 DEF Untied
    <3> QED BY <1>1, <1>4, <2>1, <3>1, <3>2, <3>3 DEF PagesKept
  <2>2. \A q, l : Untied(Matching(q), l)' <=> Untied(Matching(q)', l)
    BY DEF Untied
  <2> QED BY <1>1, <2>1, <2>2 DEF PagesKept
<1>6. TextsKept'
  <2>1. ASSUME NEW l \in enabled', NEW t \in Range(Product[l].texts) PROVE trie'[t] > 0
    <3>1. l \in Products /\ k \in Products /\ Occurrences(t, Product[k].texts) \in Nat
      BY <1>1, <1>2 DEF SearchTyped
    <3>2. t \in Texts /\ trie[t] \in Nat
      BY <1>1, <1>2, <3>1 DEF SearchTyped
    <3>3. l = k => Occurrences(t, Product[k].texts) > 0
      BY <1>2
    <3>4. l # k => trie[t] > 0
      BY <1>1 DEF TextsKept
    <3> QED BY <1>1, <3>1, <3>2, <3>3, <3>4
  <2> QED BY <2>1 DEF TextsKept
<1> QED BY <1>3, <1>5, <1>6 DEF SearchInv

\* Train keeps SearchInv.
LEMMA TrainStep == ASSUME SearchInv, NEW t \in TrainTexts, Train(t) PROVE SearchInv'
<1>1. /\ SearchTyped /\ PagesKept /\ TextsKept /\ trained[t] < MaxTrained
      /\ trained' = [trained EXCEPT ![t] = @ + 1] /\ UNCHANGED <<catalogue, enabled, trie, pager>>
  BY DEF SearchInv, Train
<1>2. SearchTyped'
  BY <1>1, SearchAssumption DEF SearchTyped, SearchAssumption
<1>3. PagesKept' /\ TextsKept'
  BY <1>1 DEF PagesKept, TextsKept, StillAhead, Matching, Untied
<1> QED BY <1>2, <1>3 DEF SearchInv

\* BeginPaging keeps SearchInv.
LEMMA BeginPagingStep ==
    ASSUME SearchInv, NEW c \in Customers, NEW q \in Queries, BeginPaging(c, q) PROVE SearchInv'
<1>1. /\ SearchTyped /\ PagesKept /\ TextsKept /\ UNCHANGED <<catalogue, enabled, trie, trained>>
      /\ pager' = [pager EXCEPT ![c] = [pc |-> "paging", query |-> q, page |-> 1, seen |-> {},
                                        began |-> DOMAIN MatchProducts(q.terms, q.category)]]
  BY DEF SearchInv, BeginPaging
<1>2. DOMAIN MatchProducts(q.terms, q.category) = Matching(q) /\ Matching(q) \subseteq Products
      /\ IsFiniteSet(Matching(q))
  <2>1. enabled \subseteq Products /\ IsFiniteSet(enabled)
    BY <1>1 DEF SearchTyped
  <2>2. DOMAIN MatchProducts(q.terms, q.category) = Matching(q)
    BY <2>1, MatchIs DEF Matching
  <2>3. Matching(q) \subseteq enabled
    BY DEF Matching
  <2> QED BY <2>1, <2>2, <2>3, FS_Subset
<1>3. PICK p \in Pager : p = [pc |-> "paging", query |-> q, page |-> 1, seen |-> {}, began |-> Matching(q)]
  <2> DEFINE M == Matching(q)
  <2>1. M \in SUBSET Products /\ {} \in SUBSET Products /\ 1 \in Nat \ {0}
    BY <1>2
  <2> HIDE DEF M
  <2>2. [pc |-> "paging", query |-> q, page |-> 1, seen |-> {}, began |-> M] \in Pager
    BY <2>1 DEF Pager
  <2> QED BY <2>2 DEF M
<1>4. /\ pager' \in [Customers -> Pager] /\ pager'[c] = p
      /\ \A d \in Customers \ {c} : pager'[d] = pager[d]
  BY <1>1, <1>2, <1>3 DEF SearchTyped
<1>5. SearchTyped' /\ TextsKept'
  BY <1>1, <1>4 DEF SearchTyped, TextsKept
<1>6. ASSUME NEW k \in Matching(q) PROVE StillAhead(q, 1, k)
  <2>1. 0 < Place(Matching(q), PriceOrder(Matching(q)), k)
    <3> DEFINE A == Before(Matching(q), PriceOrder(Matching(q)), k)
    <3>1. A \subseteq Matching(q)
      BY DEF Before
    <3>2. Cardinality(A) \in Nat
      BY <1>2, <3>1, FS_Subset, FS_CardinalityType
    <3> QED BY <3>2 DEF Place
  <2>2. (1 - 1) * PageSize(q) = 0
    BY PageSizes
  <2> QED BY <2>1, <2>2 DEF StillAhead
<1>7. PagesKept'
  <2>1. ASSUME NEW d \in Customers, pager'[d].pc # "idle", pager'[d].query.sort = "price_asc"
        PROVE  /\ pager'[d].began \subseteq Matching(pager'[d].query)
               /\ \A k \in pager'[d].began \ pager'[d].seen :
                     Untied(Matching(pager'[d].query), k) =>
                        pager'[d].pc = "paging" /\ StillAhead(pager'[d].query, pager'[d].page, k)
    <3>1. CASE d = c
      BY <1>3, <1>4, <1>6, <3>1
    <3>2. CASE d # c
      BY <1>1, <1>4, <2>1, <3>2 DEF PagesKept
    <3> QED BY <3>1, <3>2
  <2> QED BY <1>1, <2>1 DEF PagesKept, StillAhead, Matching, Untied
<1> QED BY <1>5, <1>7 DEF SearchInv

\* NextPage keeps SearchInv.
LEMMA NextPageStep == ASSUME SearchInv, NEW c \in Customers, NextPage(c) PROVE SearchInv'
<1>0. PICK q, n : q = pager[c].query /\ n = pager[c].page
  OBVIOUS
<1>1. PICK found \in Results(q) :
         /\ q = pager[c].query /\ n = pager[c].page
         /\ pager' = IF (n - 1) * PageSize(q) >= Len(found) THEN [pager EXCEPT ![c].pc = "end"]
                     ELSE [pager EXCEPT ![c].page = @ + 1, ![c].seen = @ \cup Range(Paginate(found, n, PageSize(q)))]
  BY <1>0, Zenon DEF NextPage
<1>2. /\ SearchTyped /\ PagesKept /\ TextsKept /\ UNCHANGED <<catalogue, enabled, trie, trained>>
      /\ q \in Queries /\ n \in Nat \ {0} /\ pager[c] \in Pager /\ pager[c].pc = "paging"
  BY <1>1 DEF SearchInv, NextPage, SearchTyped, Pager
<1> DEFINE size == PageSize(q)
           skip == (n - 1) * size
           end == IF n * size > Len(found) THEN Len(found) ELSE n * size
           shown == Range(SubSeq(found, skip + 1, end))
           M == Matching(q)
<1>3. /\ size \in Nat \ {0} /\ skip \in Nat /\ n * size = skip + size /\ n * size \in Nat
      /\ (n + 1 - 1) * size = n * size
  <2>1. n - 1 \in Nat /\ n + 1 - 1 = n
    BY <1>2
  <2> QED BY <1>2, <2>1, PageSizes
<1>4. /\ enabled \subseteq Products /\ IsFiniteSet(enabled) /\ M \subseteq enabled /\ IsFiniteSet(M)
  <2>1. enabled \subseteq Products /\ IsFiniteSet(enabled) /\ M \subseteq enabled
    BY <1>2 DEF SearchTyped, Matching
  <2> QED BY <2>1, FS_Subset
<1>5. /\ found \in Seq(enabled)
      /\ q.sort = "price_asc" /\ M # {} => found \in Sortings(M, PriceOrder(M))
  BY <1>1, <1>4, ResultsIs
<1>6. Len(found) \in Nat
  BY <1>5, LenProperties
<1>7. /\ skip >= Len(found) => pager' = [pager EXCEPT ![c].pc = "end"]
      /\ skip < Len(found) => pager' = [pager EXCEPT ![c].page = @ + 1, ![c].seen = @ \cup shown]
  <2>1. pager' = IF skip >= Len(found) THEN [pager EXCEPT ![c].pc = "end"]
                 ELSE [pager EXCEPT ![c].page = @ + 1, ![c].seen = @ \cup shown]
    BY <1>1, Zenon DEF Paginate
  <2>2. skip < Len(found) => ~ (skip >= Len(found))
    BY <1>3, <1>6
  <2> QED BY <2>1, <2>2, Zenon
<1> HIDE DEF skip, size, M
<1>8. end \in Nat /\ end <= Len(found)
  BY <1>3, <1>6
<1> HIDE DEF end
<1>9. /\ shown \subseteq enabled /\ \A p \in skip + 1 .. end : found[p] \in shown
  <2>1. skip + 1 \in Nat \ {0}
    BY <1>3
  <2> QED BY <1>5, <1>8, <2>1, InPart
<1> HIDE DEF shown
<1>10. PICK p : p = pager'[c] /\ p \in Pager /\ p.query = q /\ p.began = pager[c].began
               /\ \/ p.pc = "end" /\ skip >= Len(found) /\ p.seen = pager[c].seen
                  \/ p.pc = "paging" /\ skip < Len(found) /\ p.page = n + 1 /\ p.seen = pager[c].seen \cup shown
  <2>1. CASE skip >= Len(found)
    BY <1>0, <1>2, <1>7, <2>1 DEF SearchTyped, Pager
  <2>2. CASE skip < Len(found)
    <3>1. /\ [pager[c] EXCEPT !.page = n + 1, !.seen = pager[c].seen \cup shown] \in Pager
      <4> DEFINE s == pager[c].seen \cup shown
      <4>1. s \in SUBSET Products /\ n + 1 \in Nat \ {0}
        BY <1>2, <1>4, <1>9 DEF Pager
      <4> HIDE DEF s
      <4>2. [pager[c] EXCEPT !.page = n + 1, !.seen = s] \in Pager
        BY <1>2, <4>1 DEF Pager
      <4> QED BY <4>2 DEF s
    <3>2. pager'[c] = [pager[c] EXCEPT !.page = n + 1, !.seen = pager[c].seen \cup shown]
      BY <1>0, <1>2, <1>7, <2>2 DEF SearchTyped, Pager
    <3>3. /\ pager'[c].query = q /\ pager'[c].began = pager[c].began /\ pager'[c].pc = "paging"
          /\ pager'[c].page = n + 1 /\ pager'[c].seen = pager[c].seen \cup shown
      BY <1>0, <1>2, <3>2 DEF Pager
    <3> QED BY <2>2, <3>1, <3>2, <3>3
  <2> QED BY <1>3, <1>6, <2>1, <2>2
<1>11. /\ pager' \in [Customers -> Pager]
       /\ \A d \in Customers \ {c} : pager'[d] = pager[d]
  <2>1. pager' = [pager EXCEPT ![c] = p]
    BY <1>2, <1>3, <1>6, <1>7, <1>10 DEF SearchTyped
  <2> QED BY <1>2, <1>10, <2>1 DEF SearchTyped
<1>12. SearchTyped' /\ TextsKept'
  BY <1>2, <1>11 DEF SearchTyped, TextsKept
<1>13. ASSUME q.sort = "price_asc"
       PROVE  /\ p.began \subseteq M
              /\ \A k \in p.began \ p.seen : Untied(M, k) => p.pc = "paging" /\ StillAhead(q, p.page, k)
  <2>1. /\ pager[c].began \subseteq M
        /\ \A k \in pager[c].began \ pager[c].seen : Untied(M, k) => StillAhead(q, n, k)
    BY <1>1, <1>2, <1>13 DEF PagesKept, M
  <2>2. ASSUME NEW k \in p.began \ p.seen, Untied(M, k) PROVE p.pc = "paging" /\ StillAhead(q, p.page, k)
    <3>1. k \in M /\ k \in pager[c].began \ pager[c].seen
      BY <1>10, <2>1
    <3>2. found \in Sortings(M, PriceOrder(M))
      BY <1>5, <1>13, <3>1
    <3>3. PICK i : i = Place(M, PriceOrder(M), k)
      OBVIOUS
    <3>4. i \in 1 .. Len(found) /\ found[i] = k
      <4>1. i \in 1 .. Cardinality(M) /\ found[i] = k
        BY <1>4, <2>2, <3>1, <3>2, <3>3, UntiedPlace
      <4>2. Len(found) = Cardinality(M)
        BY <1>4, <3>2, SortingIs
      <4> QED BY <4>1, <4>2
    <3>5. skip < i
      BY <2>1, <2>2, <3>1, <3>3 DEF StillAhead, M, skip, size
    <3>6. p.pc = "paging" /\ p.page = n + 1 /\ k \notin shown
      BY <1>3, <1>6, <1>10, <3>4, <3>5
    <3>7. i \notin skip + 1 .. end
      BY <1>9, <3>4, <3>6
    <3>8. end < i
      BY <1>3, <1>8, <3>4, <3>5, <3>7
    <3>9. n * size < i
      BY <1>3, <1>6, <3>4, <3>8 DEF end
    <3>10. (p.page - 1) * size < i
      BY <1>2, <1>3, <3>6, <3>9
    <3> QED BY <3>3, <3>6, <3>10 DEF StillAhead, M, size
  <2> QED BY <1>10, <2>1, <2>2
<1>14. PagesKept'
  <2>1. ASSUME NEW d \in Customers, pager'[d].pc # "idle", pager'[d].query.sort = "price_asc"
        PROVE  /\ pager'[d].began \subseteq Matching(pager'[d].query)
               /\ \A k \in pager'[d].began \ pager'[d].seen :
                     Untied(Matching(pager'[d].query), k) =>
                        pager'[d].pc = "paging" /\ StillAhead(pager'[d].query, pager'[d].page, k)
    <3>1. CASE d = c
      BY <1>10, <1>13, <2>1, <3>1 DEF M
    <3>2. CASE d # c
      BY <1>2, <1>11, <2>1, <3>2 DEF PagesKept
    <3> QED BY <3>1, <3>2
  <2> QED BY <1>2, <2>1 DEF PagesKept, StillAhead, Matching, Untied
<1> QED BY <1>12, <1>14 DEF SearchInv

\* What sets the pages and the suggestions right.
LEMMA SearchInvHolds == ASSUME SearchInv PROVE SearchTypeOK /\ PagesMissNothing
<1>1. SearchTyped /\ PagesKept /\ TextsKept
  BY DEF SearchInv
<1>2. SearchTypeOK
  BY <1>1 DEF SearchTypeOK, SearchTyped, Pager
<1>3. ASSUME NEW c \in Customers, pager[c].pc # "idle", pager[c].query.sort = "price_asc",
             NEW k \in pager[c].began \ pager[c].seen, Untied(Matching(pager[c].query), k)
      PROVE  /\ pager[c].pc = "paging"
             /\ \A found \in Results(pager[c].query) :
                   k \in Range(SubSeq(found, (pager[c].page - 1) * PageSize(pager[c].query) + 1, Len(found)))
  <2>1. PICK q, n : q = pager[c].query /\ n = pager[c].page /\ q \in Queries /\ n \in Nat \ {0}
    BY <1>1 DEF SearchTyped, Pager
  <2> DEFINE M == Matching(q)
             skip == (n - 1) * PageSize(q)
             i == Place(M, PriceOrder(M), k)
  <2>2. k \in M /\ Untied(M, k) /\ pager[c].pc = "paging" /\ skip < i
    BY <1>1, <1>3, <2>1 DEF PagesKept, StillAhead
  <2>3. enabled \subseteq Products /\ IsFiniteSet(enabled) /\ M \subseteq enabled /\ IsFiniteSet(M)
    <3>1. enabled \subseteq Products /\ IsFiniteSet(enabled) /\ M \subseteq enabled
      BY <1>1 DEF SearchTyped, Matching
    <3> QED BY <3>1, FS_Subset
  <2>4. skip \in Nat
    <3>1. n - 1 \in Nat
      BY <2>1
    <3> QED BY <2>1, <3>1, PageSizes
  <2>5. ASSUME NEW found \in Results(q) PROVE k \in Range(SubSeq(found, skip + 1, Len(found)))
    <3>1. found \in Seq(enabled) /\ found \in Sortings(M, PriceOrder(M))
      BY <1>3, <2>1, <2>2, <2>3, <2>5, ResultsIs
    <3> HIDE DEF M
    <3>2. i \in 1 .. Cardinality(M) /\ found[i] = k
      BY <2>2, <2>3, <3>1, UntiedPlace
    <3>3. Len(found) = Cardinality(M)
      BY <2>3, <3>1, SortingIs
    <3> HIDE DEF skip, i
    <3>4. skip + 1 \in Nat \ {0} /\ Len(found) \in Nat /\ i \in skip + 1 .. Len(found)
      BY <2>2, <2>4, <3>1, <3>2, <3>3, LenProperties
    <3>5. found[i] \in Range(SubSeq(found, skip + 1, Len(found)))
      BY <3>1, <3>4, InPart
    <3> QED BY <3>2, <3>5
  <2> QED BY <2>1, <2>2, <2>5
<1>4. ASSUME NEW k \in enabled, NEW t \in Range(Product[k].texts), NEW x \in DOMAIN PrefixOf,
             t \in PrefixOf[x] \ Range(Suggestions(trie, x, SuggestLimit))
      PROVE  Cardinality({u \in PrefixOf[x] : trie[u] > 0 /\ Likelier(trie, u, t)}) >= SuggestLimit
  <2> DEFINE S == {u \in DOMAIN trie : trie[u] > 0 /\ u \in PrefixOf[x]}
             R == {b \in S \X S : Likelier(trie, b[1], b[2])}
             found == Ordered(S, R)
             end == IF SuggestLimit > 0 /\ Len(found) > SuggestLimit THEN SuggestLimit ELSE Len(found)
             i == Place(S, R, t)
  <2>1. t \in Texts
    <3>1. Product[k].texts \in Seq(Texts)
      BY <1>1, SearchAssumption DEF SearchAssumption, SearchTyped
    <3> DEFINE s == Product[k].texts
    <3> HIDE DEF s
    <3>2. s \in Seq(Texts) => Range(s) \subseteq Texts
      BY LenProperties, ElementOfSeq DEF Range
    <3> QED BY <3>1, <3>2 DEF s
  <2>2. t \in S
    BY <1>1, <1>4, <2>1 DEF SearchTyped, TextsKept
  <2>3. S \subseteq Texts /\ IsFiniteSet(S)
    <3>1. S \subseteq Texts /\ IsFiniteSet(Texts)
      BY <1>1, SearchAssumption DEF SearchTyped, SearchAssumption
    <3> QED BY <3>1, FS_Subset
  <2>4. Suggestions(trie, x, SuggestLimit) = SubSeq(found, 1, end)
    BY Zenon DEF Suggestions
  <2>5. Orders(S, R)
    <3>1. /\ trie \in [Texts -> Nat] /\ TextPlace \in [Texts -> Nat]
          /\ \A u, v \in Texts : TextPlace[u] = TextPlace[v] => u = v
      BY <1>1, SearchAssumption DEF SearchTyped, SearchAssumption
    <3>2. ASSUME NEW u \in S, NEW v \in S
          PROVE  <<u, v>> \in R <=> \/ trie[u] > trie[v]
                                    \/ trie[u] = trie[v] /\ TextPlace[u] < TextPlace[v]
      BY DEF Likelier
    <3> HIDE DEF S, R
    <3> QED BY <2>3, <3>1, <3>2 DEF Orders
  <2>6. Before(S, R, t) = {u \in PrefixOf[x] : trie[u] > 0 /\ Likelier(trie, u, t)}
    <3>1. PrefixOf[x] \subseteq DOMAIN trie
      BY <1>1, SearchAssumption DEF SearchTyped, SearchAssumption
    <3> QED BY <2>2, <3>1 DEF Before
  <2> HIDE DEF S, R, found
  <2>7. found \in Seq(S) /\ Len(found) = Cardinality(S) /\ found[i] = t
    BY <2>2, <2>3, <2>5, SortsAll DEF found
  <2>8. i \in 1 .. Cardinality(S) /\ i = Cardinality(Before(S, R, t)) + 1 /\ Cardinality(Before(S, R, t)) \in Nat
    <3>1. Before(S, R, t) \subseteq S
      BY DEF Before
    <3>2. Cardinality(Before(S, R, t)) \in Nat
      BY <2>3, <3>1, FS_Subset, FS_CardinalityType
    <3> QED BY <2>2, <2>3, <2>5, <3>2, Places DEF Place
  <2>9. SuggestLimit \in Nat \ {0} /\ Len(found) \in Nat
    BY <2>7, LenProperties DEF SuggestLimit
  <2>10. end \in Nat /\ end <= Len(found) /\ (i <= end \/ i > SuggestLimit)
    BY <2>7, <2>8, <2>9
  <2> HIDE DEF end, i
  <2>11. i \notin 1 .. end
    BY <1>4, <2>4, <2>7, <2>10, InPart
  <2>12. Cardinality(Before(S, R, t)) >= SuggestLimit
    BY <2>8, <2>9, <2>10, <2>11
  <2> QED BY <2>6, <2>12
<1>5. ASSUME NEW c \in Customers, NEW k PROVE
        /\ DOMAIN MatchProducts(pager[c].query.terms, pager[c].query.category) = Matching(pager[c].query)
        /\ ~ (\E l \in Matching(pager[c].query) \ {k} : Product[l].price = Product[k].price)
             => Untied(Matching(pager[c].query), k)
  BY <1>1, MatchIs DEF Matching, Untied, SearchTyped
<1>6. PagesMissNothing
  BY <1>3, <1>4, <1>5, Zenon DEF PagesMissNothing
<1> QED BY <1>2, <1>6

\* Whatever products are added while a customer turns the pages of one query by price, and
\* however each search arranges those of one price, it sees every product that matched when
\* it began, unless another match has its price; and every text of a product that can be
\* found is suggested for each of its prefixes, unless ten likelier ones are.
THEOREM PagesStand == SearchSpec => [](SearchTypeOK /\ PagesMissNothing)
<1>1. SearchInit => SearchInv
  BY SearchInitInv
<1>2. SearchInv /\ [SearchNext]_searchVars => SearchInv'
  <2> SUFFICES ASSUME SearchInv, [SearchNext]_searchVars PROVE SearchInv'
    OBVIOUS
  <2>1. CASE \E k \in Products : AddProduct(k)
    BY <2>1, AddProductStep
  <2>2. CASE \E t \in TrainTexts : Train(t)
    BY <2>2, TrainStep
  <2>3. CASE \E c \in Customers : NextPage(c)
    BY <2>3, NextPageStep
  <2>4. CASE \E c \in Customers : \E q \in Queries : BeginPaging(c, q)
    BY <2>4, BeginPagingStep
  <2>5. CASE UNCHANGED searchVars
    BY <2>5 DEF searchVars, SearchInv, SearchTyped, PagesKept, TextsKept, StillAhead, Matching, Untied
  <2> QED BY <2>1, <2>2, <2>3, <2>4, <2>5 DEF SearchNext
<1>3. SearchInv => SearchTypeOK /\ PagesMissNothing
  BY SearchInvHolds
<1> QED BY <1>1, <1>2, <1>3, PTL DEF SearchSpec

-----------------------------------------------------------------------------
(* Remainders.                                                               *)
Quot(t, w) == t \div w
Rem(t, w) == t % w

\* The quotient and the remainder of a division.
LEMMA Remainder == ASSUME NEW t \in Nat, NEW w \in Nat \ {0}
                   PROVE  /\ Quot(t, w) \in Nat /\ Quot(t, w) * w \in Nat /\ Rem(t, w) \in 0 .. w - 1
                          /\ t = Quot(t, w) * w + Rem(t, w)
<1>1. Quot(t, w) \in Nat
  BY DEF Quot
<1>2. Rem(t, w) = t - Quot(t, w) * w
  BY DEF Quot, Rem
<1>3. Rem(t, w) \in 0 .. w - 1
  BY DEF Rem
<1>4. Quot(t, w) * w \in Nat
  BY <1>1
<1> QED BY <1>1, <1>2, <1>3, <1>4

\* A number has one remainder.
LEMMA OneRemainder ==
    ASSUME NEW w \in Nat \ {0}, NEW p \in Nat, NEW q \in Nat, NEW a \in 0 .. w - 1, NEW b \in 0 .. w - 1,
           p * w + a = q * w + b
    PROVE  a = b
<1>1. p * w \in Nat /\ q * w \in Nat
  OBVIOUS
<1>2. ~ (p < q)
  <2>1. p < q => p * w + w <= q * w
    BY Multiples
  <2> QED BY <1>1, <2>1
<1>3. ~ (q < p)
  <2>1. q < p => q * w + w <= p * w
    BY Multiples
  <2> QED BY <1>1, <2>1
<1>4. p = q
  BY <1>2, <1>3
<1> QED BY <1>1, <1>4

\* Adding multiples of the divisor keeps the remainder.
LEMMA SameRemainder == ASSUME NEW t \in Nat, NEW w \in Nat \ {0}, NEW c \in Nat
                       PROVE  Rem(t + c * w, w) = Rem(t, w)
<1>1. c * w \in Nat /\ t + c * w \in Nat
  OBVIOUS
<1> DEFINE p == Quot(t, w)
           q == Quot(t + c * w, w)
<1>2. p \in Nat /\ p * w \in Nat /\ t = p * w + Rem(t, w) /\ Rem(t, w) \in 0 .. w - 1
  BY Remainder
<1>3. /\ q \in Nat /\ q * w \in Nat /\ t + c * w = q * w + Rem(t + c * w, w)
      /\ Rem(t + c * w, w) \in 0 .. w - 1
  BY <1>1, Remainder
<1> HIDE DEF p, q
<1>4. (p + c) * w = p * w + c * w /\ p + c \in Nat
  BY <1>2
<1>5. (p + c) * w + Rem(t, w) = q * w + Rem(t + c * w, w)
  BY <1>1, <1>2, <1>3, <1>4
<1> QED BY <1>2, <1>3, <1>4, <1>5, OneRemainder

\* The remainder of the next number.
LEMMA NextRemainder == ASSUME NEW t \in Nat, NEW w \in Nat \ {0}
                       PROVE  Rem(Rem(t, w) + 1, w) = Rem(t + 1, w)
<1> DEFINE p == Quot(t, w)
<1>1. p \in Nat /\ p * w \in Nat /\ t = p * w + Rem(t, w) /\ Rem(t, w) \in 0 .. w - 1
  BY Remainder
<1> HIDE DEF p
<1>2. Rem(t, w) + 1 \in Nat /\ t + 1 = Rem(t, w) + 1 + p * w
  BY <1>1
<1>3. Rem(Rem(t, w) + 1 + p * w, w) = Rem(Rem(t, w) + 1, w)
  BY <1>1, <1>2, SameRemainder
<1> QED BY <1>2, <1>3

\* Numbers less than the divisor apart have different remainders.
LEMMA OtherRemainder ==
    ASSUME NEW w \in Nat \ {0}, NEW a \in Nat, NEW b \in Nat, a < b, b < a + w
    PROVE  Rem(a, w) # Rem(b, w)
<1> SUFFICES ASSUME Rem(a, w) = Rem(b, w) PROVE FALSE
  OBVIOUS
<1> DEFINE p == Quot(a, w)
           q == Quot(b, w)
<1>1. p \in Nat /\ p * w \in Nat /\ a = p * w + Rem(a, w) /\ Rem(a, w) \in 0 .. w - 1
  BY Remainder
<1>2. q \in Nat /\ q * w \in Nat /\ b = q * w + Rem(b, w) /\ Rem(b, w) \in 0 .. w - 1
  BY Remainder
<1> HIDE DEF p, q
<1>3. p * w < q * w /\ q * w < p * w + w
  BY <1>1, <1>2
<1>4. p < q => p * w + w <= q * w
  BY <1>1, <1>2, Multiples
<1>5. q < p => q * w + w <= p * w
  BY <1>1, <1>2, Multiples
<1>6. p = q => p * w = q * w
  OBVIOUS
<1> QED BY <1>1, <1>2, <1>3, <1>4, <1>5, <1>6

\* The range of a remainder.
LEMMA RemainderIs == ASSUME NEW t \in Nat, NEW w \in Nat \ {0} PROVE Rem(t, w) \in 0 .. w - 1
BY Remainder

\* The places of a ring of w, counted back from the end of what was written round it.
LEMMA RingPlace ==
    ASSUME NEW n \in Nat, NEW w \in Nat \ {0}, NEW size \in 0 .. w, size <= n, NEW k \in 1 .. size
    PROVE  Rem(Rem(n, w) - size + k - 1 + w, w) = Rem(n - size + k - 1, w)
<1> DEFINE p == Quot(n, w)
           x == Rem(n, w) - size + k - 1 + w
           y == n - size + k - 1
           m == p * w
<1>1. p \in Nat /\ m \in Nat /\ n = m + Rem(n, w) /\ Rem(n, w) \in 0 .. w - 1
  BY Remainder
<1>2. y + 1 * w \in Nat /\ Rem(y + 1 * w, w) = Rem(y, w) /\ 1 * w = w
  <2>1. y \in Nat /\ 1 * w = w
    BY <1>1
  <2> HIDE DEF y
  <2> QED BY <2>1, SameRemainder
<1>3. Rem(x + p * w, w) = Rem(x, w)
  <2>1. x \in Nat
    BY <1>1
  <2> HIDE DEF x
  <2> QED BY <1>1, <2>1, SameRemainder
<1>4. x + m = y + w
  <2> HIDE DEF m
  <2> QED BY <1>1
<1> QED BY <1>2, <1>3, <1>4

-----------------------------------------------------------------------------
(* Forecasts, for any pairs, runs, forecasts, concurrency and ring.         *)
JobPaths == {"none", "forecast", "store", "replenish", "record", "done"}
Job == [pc : JobPaths, daily : Forecasts \cup {0}]
Forecasted == [store : Nat, daily : Forecasts \cup {0}]
Replenishment == [store : Nat, qty : 0 .. MaxReorder, priority : {NoPriority, "high", "low", "normal"}]
Errors == [ring : [0 .. RollingWindow - 1 -> Nat], pos : 0 .. RollingWindow - 1, size : 0 .. RollingWindow]
Lookup == [pc : {"forecast", "replenishment", "answered"}, pair : Pairs, forecast : Nat, replenishment : Nat]

JobsTyped ==
    /\ started \in [Runs -> Nat] /\ \A r \in Runs : started[r] <= Len(PairsOf[r])
    /\ forecaster = [r \in Runs |-> forecaster[r]]
    /\ \A r \in Runs : forecaster[r] \in [Goroutines(r) -> Job] /\ Cardinality(Working(r)) <= MaxConcurrency

StoresTyped ==
    /\ forecasts \in [Pairs -> Forecasted] /\ replen \in [Pairs -> Replenishment]
    /\ apes \in [Pairs -> Errors] /\ recorded \in [Pairs -> Seq(Nat)]
    /\ lookup \in [ForecastReaders -> Lookup]

\* Who has stored a forecast and not its replenishment has the lock; the replenishments of
\* all other pairs are of the last forecast, and none is ever ahead of it.
StoredTogether ==
    /\ \A r \in Runs : \A i \in Goroutines(r) : forecaster[r][i].pc = "replenish" => resultsMu = <<r, i>>
    /\ \A p \in Pairs : /\ replen[p].store <= forecasts[p].store
                       /\ \/ replen[p].store = forecasts[p].store
                          \/ \E r \in Runs : \E i \in Goroutines(r) : resultsMu = <<r, i>> /\ PairsOf[r][i] = p

\* The ring holds the last errors, each at its number modulo the size of the ring.
RingHolds(a, s) ==
    /\ a.size = IF Len(s) < RollingWindow THEN Len(s) ELSE RollingWindow
    /\ a.pos = Rem(Len(s), RollingWindow)
    /\ \A m \in 1 .. Len(s) : Len(s) - a.size < m => a.ring[Rem(m - 1, RollingWindow)] = s[m]

LookupsInOrder ==
    \A x \in ForecastReaders :
        /\ lookup[x].pc = "replenishment" => lookup[x].forecast <= replen[lookup[x].pair].store
        /\ lookup[x].pc = "answered" => lookup[x].forecast <= lookup[x].replenishment

ForecastInv ==
    /\ JobsTyped /\ StoresTyped /\ StoredTogether /\ LookupsInOrder
    /\ \A p \in Pairs : RingHolds(apes[p], recorded[p])

\* The constants of the forecasts are typed.
LEMMA ForecastConstants ==
    /\ MaxConcurrency \in Nat \ {0} /\ RollingWindow \in Nat \ {0} /\ Forecasts \subseteq Nat
    /\ \A r \in Runs : /\ PairsOf[r] \in Seq(Pairs) /\ Len(PairsOf[r]) \in Nat
                       /\ \A i \in Goroutines(r) : PairsOf[r][i] \in Pairs
<1>1. \A r \in Runs : PairsOf[r] \in Seq(Pairs)
  BY ForecastAssumption
<1>2. \A s \in Seq(Pairs) : Len(s) \in Nat /\ \A i \in 1 .. Len(s) : s[i] \in Pairs
  BY LenProperties
<1> QED BY <1>1, <1>2, ForecastAssumption DEF Goroutines

\* ForecastInv holds in the initial states.
LEMMA ForecastInitially == ForecastInit => ForecastInv
<1> SUFFICES ASSUME ForecastInit PROVE ForecastInv
  OBVIOUS
<1>1. \A r \in Runs : forecaster[r] = [i \in Goroutines(r) |-> [pc |-> "none", daily |-> 0]]
  BY DEF ForecastInit
<1>2. [pc |-> "none", daily |-> 0] \in Job
  BY DEF Job, JobPaths
<1>3. ASSUME NEW r \in Runs PROVE forecaster[r] \in [Goroutines(r) -> Job] /\ Cardinality(Working(r)) <= MaxConcurrency
  <2>1. Working(r) = {}
    <3>1. \A i \in Goroutines(r) : forecaster[r][i].pc = "none"
      <4>1. \A i \in Goroutines(r) : forecaster[r][i] = [pc |-> "none", daily |-> 0]
        BY <1>1
      <4> QED BY <4>1
    <3> QED BY <3>1 DEF Working
  <2>2. Cardinality({}) = 0
    BY FS_EmptySet
  <2>3. Cardinality(Working(r)) <= MaxConcurrency
    BY <2>1, <2>2, ForecastAssumption
  <2> QED BY <1>1, <1>2, <2>3
<1>4. JobsTyped
  <2>1. started \in [Runs -> Nat] /\ \A r \in Runs : started[r] <= Len(PairsOf[r])
    BY ForecastConstants DEF ForecastInit
  <2>2. forecaster = [r \in Runs |-> forecaster[r]]
    BY DEF ForecastInit
  <2> QED BY <1>3, <2>1, <2>2 DEF JobsTyped
<1>5. NoForecast \in Forecasted /\ NoForecast.store = 0
  BY DEF NoForecast, Forecasted
<1>6. NoReplenishment \in Replenishment /\ NoReplenishment.store = 0
  <2>1. 0 \in Nat /\ 0 \in 0 .. MaxReorder
    BY DEF MaxReorder
  <2> QED BY <2>1 DEF NoReplenishment, Replenishment
<1>7. apes \in [Pairs -> Errors] /\ \A p \in Pairs : apes[p].size = 0 /\ apes[p].pos = 0
  BY ForecastAssumption DEF ForecastInit, Errors
<1>8. recorded \in [Pairs -> Seq(Nat)] /\ \A p \in Pairs : recorded[p] = <<>> /\ Len(recorded[p]) = 0
  BY EmptySeq DEF ForecastInit
<1>9. lookup \in [ForecastReaders -> Lookup] /\ \A x \in ForecastReaders : lookup[x].pc = "forecast"
  <2>1. (CHOOSE p \in Pairs : TRUE) \in Pairs
    BY ForecastAssumption
  <2> QED BY <2>1 DEF ForecastInit, Lookup
<1>10. StoresTyped
  <2>1. forecasts \in [Pairs -> Forecasted] /\ replen \in [Pairs -> Replenishment]
    BY <1>5, <1>6 DEF ForecastInit
  <2> QED BY <1>7, <1>8, <1>9, <2>1 DEF StoresTyped
<1>11. StoredTogether
  <2>1. \A p \in Pairs : replen[p].store = 0 /\ forecasts[p].store = 0
    BY <1>5, <1>6 DEF ForecastInit
  <2>2. \A r \in Runs : \A i \in Goroutines(r) : forecaster[r][i].pc = "none"
    <3>1. \A r \in Runs : \A i \in Goroutines(r) : forecaster[r][i] = [pc |-> "none", daily |-> 0]
      BY <1>1
    <3> QED BY <3>1
  <2> QED BY <2>1, <2>2 DEF StoredTogether
<1>12. ASSUME NEW p \in Pairs PROVE RingHolds(apes[p], recorded[p])
  <2>1. Rem(0, RollingWindow) = 0
    BY ForecastAssumption DEF Rem
  <2> QED BY <1>7, <1>8, <2>1, ForecastAssumption DEF RingHolds
<1> QED BY <1>4, <1>9, <1>10, <1>11, <1>12 DEF ForecastInv, LookupsInOrder

-----------------------------------------------------------------------------
\* One goroutine goes on.
LEMMA JobGoesOn ==
    ASSUME JobsTyped, NEW r \in Runs, NEW i \in Goroutines(r), NEW j \in Job,
           forecaster' = [forecaster EXCEPT ![r][i] = j]
    PROVE  /\ forecaster' = [q \in Runs |-> forecaster'[q]]
           /\ \A q \in Runs : forecaster'[q] \in [Goroutines(q) -> Job]
           /\ forecaster'[r][i] = j
           /\ \A q \in Runs : \A k \in Goroutines(q) : <<q, k>> # <<r, i>> => forecaster'[q][k] = forecaster[q][k]
           /\ \A q \in Runs : q # r => Working(q)' = Working(q)
           /\ Working(r)' \subseteq Working(r) \cup {i}
           /\ forecaster[r][i].pc \notin {"none", "done"} => Working(r)' \subseteq Working(r)
           /\ IsFiniteSet(Working(r))
<1> USE DEF JobsTyped
<1>1. /\ forecaster' = [q \in Runs |-> forecaster'[q]]
      /\ forecaster'[r] = [forecaster[r] EXCEPT ![i] = j]
      /\ \A q \in Runs \ {r} : forecaster'[q] = forecaster[q]
  OBVIOUS
<1>2. forecaster'[r] \in [Goroutines(r) -> Job] /\ forecaster'[r][i] = j
  BY <1>1
<1>3. \A k \in Goroutines(r) \ {i} : forecaster'[r][k] = forecaster[r][k]
  BY <1>1
<1>4. ASSUME NEW q \in Runs, NEW k \in Goroutines(q), <<q, k>> # <<r, i>>
      PROVE  forecaster'[q][k] = forecaster[q][k]
  <2>1. CASE q = r
    BY <1>3, <1>4, <2>1
  <2>2. CASE q # r
    BY <1>1, <2>2
  <2> QED BY <2>1, <2>2
<1>5. \A q \in Runs : q # r => Working(q)' = Working(q)
  BY <1>1 DEF Working, Goroutines
<1>6. Working(r)' \subseteq Working(r) \cup {i}
  BY <1>3 DEF Working, Goroutines
<1>7. forecaster[r][i].pc \notin {"none", "done"} => Working(r)' \subseteq Working(r)
  BY <1>6 DEF Working
<1>8. IsFiniteSet(Working(r))
  <2>1. IsFiniteSet(1 .. Len(PairsOf[r]))
    BY ForecastConstants, FS_Interval
  <2>2. Working(r) \subseteq 1 .. Len(PairsOf[r])
    BY DEF Working, Goroutines
  <2> QED BY <2>1, <2>2, FS_Subset
<1> QED BY <1>1, <1>2, <1>4, <1>5, <1>6, <1>7, <1>8

\* A goroutine that works goes on: the types of all jobs are kept.
LEMMA JobKeepsTypes ==
    ASSUME JobsTyped, NEW r \in Runs, NEW i \in Goroutines(r), NEW j \in Job,
           forecaster' = [forecaster EXCEPT ![r][i] = j], forecaster[r][i].pc \notin {"none", "done"},
           started' = started
    PROVE  JobsTyped'
<1>1. \A q \in Runs : q # r => Working(q)' = Working(q)
  BY JobGoesOn
<1>2. Working(r)' \subseteq Working(r) /\ IsFiniteSet(Working(r))
  BY JobGoesOn
<1>3. Cardinality(Working(r)') <= Cardinality(Working(r)) /\ Cardinality(Working(r)') \in Nat /\ Cardinality(Working(r)) \in Nat
  BY <1>2, FS_Subset, FS_CardinalityType
<1>4. Cardinality(Working(r)') <= MaxConcurrency
  BY <1>3, ForecastConstants DEF JobsTyped
<1>5. \A q \in Runs : Cardinality(Working(q)') <= MaxConcurrency
  BY <1>1, <1>4 DEF JobsTyped
<1>6. forecaster' = [q \in Runs |-> forecaster'[q]] /\ \A q \in Runs : forecaster'[q] \in [Goroutines(q) -> Job]
  BY JobGoesOn
<1> QED BY <1>5, <1>6 DEF JobsTyped, Working, Goroutines, Job

\* StartPair keeps ForecastInv.
LEMMA StartPairStep == ASSUME ForecastInv, NEW r \in Runs, StartPair(r) PROVE ForecastInv'
<1> USE DEF ForecastInv
<1>0. started[r] + 1 \in Goroutines(r)
  BY ForecastConstants DEF StartPair, JobsTyped, Goroutines
<1>10. PICK i \in Goroutines(r) : i = started[r] + 1
  BY <1>0
<1>1. i \in Goroutines(r) /\ started[r] \in Nat /\ i <= Len(PairsOf[r])
  BY <1>10, ForecastConstants DEF JobsTyped, Goroutines
<1>2. forecaster[r][i] \in Job
  BY <1>1 DEF JobsTyped
<1>11. [forecaster[r][i] EXCEPT !.pc = "forecast"] \in Job
  BY <1>2 DEF Job, JobPaths
<1>12. PICK j \in Job : j = [forecaster[r][i] EXCEPT !.pc = "forecast"]
  BY <1>11
<1>3. j.pc = "forecast"
  BY <1>2, <1>12 DEF Job
<1>4. /\ forecaster' = [forecaster EXCEPT ![r][i] = j] /\ started' = [started EXCEPT ![r] = i]
      /\ Cardinality(Working(r)) < MaxConcurrency
      /\ UNCHANGED <<resultsMu, forecasts, replen, apes, lookup, recorded>>
  BY <1>1, <1>10, <1>12 DEF StartPair, JobsTyped
<1>5. started' \in [Runs -> Nat] /\ \A q \in Runs : started'[q] <= Len(PairsOf[q])
  <2>1. started \in [Runs -> Nat] /\ \A q \in Runs : started[q] <= Len(PairsOf[q])
    BY DEF JobsTyped
  <2>2. i \in Nat
    BY <1>1, <1>10
  <2> QED BY <1>1, <1>4, <2>1, <2>2
<1>6. /\ forecaster' = [q \in Runs |-> forecaster'[q]]
      /\ \A q \in Runs : forecaster'[q] \in [Goroutines(q) -> Job]
      /\ forecaster'[r][i] = j
      /\ \A q \in Runs : \A k \in Goroutines(q) : <<q, k>> # <<r, i>> => forecaster'[q][k] = forecaster[q][k]
      /\ \A q \in Runs : q # r => Working(q)' = Working(q)
      /\ Working(r)' \subseteq Working(r) \cup {i} /\ IsFiniteSet(Working(r))
  <2>1. JobsTyped /\ forecaster' = [forecaster EXCEPT ![r][i] = j]
    BY <1>4
  <2>2. JobsTyped
    BY <2>1
  <2> HIDE DEF ForecastInv
  <2>3. /\ forecaster' = [q \in Runs |-> forecaster'[q]]
        /\ \A q \in Runs : forecaster'[q] \in [Goroutines(q) -> Job]
        /\ forecaster'[r][i] = j
        /\ \A q \in Runs : \A k \in Goroutines(q) : <<q, k>> # <<r, i>> => forecaster'[q][k] = forecaster[q][k]
        /\ \A q \in Runs : q # r => Working(q)' = Working(q)
        /\ Working(r)' \subseteq Working(r) \cup {i}
        /\ forecaster[r][i].pc \notin {"none", "done"} => Working(r)' \subseteq Working(r)
        /\ IsFiniteSet(Working(r))
    BY <2>1, <2>2, JobGoesOn, Zenon
  <2> QED BY <2>3
<1>7. Cardinality(Working(r)') <= MaxConcurrency
  <2>1. IsFiniteSet(Working(r) \cup {i}) /\ Cardinality(Working(r) \cup {i}) <= Cardinality(Working(r)) + 1
    <3>1. Cardinality(Working(r)) \in Nat
      BY <1>6, FS_CardinalityType
    <3> DEFINE S == Working(r)
    <3>2. IsFiniteSet(S) /\ Cardinality(S) \in Nat
      BY <1>6, <3>1
    <3> HIDE DEF S
    <3>3. i \in S => S \cup {i} = S
      OBVIOUS
    <3>4. i \notin S => IsFiniteSet(S \cup {i}) /\ Cardinality(S \cup {i}) = Cardinality(S) + 1
      BY <3>2, OneElement
    <3>5. IsFiniteSet(S \cup {i}) /\ Cardinality(S \cup {i}) <= Cardinality(S) + 1
      BY <3>2, <3>3, <3>4
    <3> QED BY <3>5 DEF S
  <2>2. Cardinality(Working(r)') <= Cardinality(Working(r) \cup {i})
    BY <1>6, <2>1, FS_Subset
  <2>3. IsFiniteSet(Working(r)')
    BY <1>6, <2>1, FS_Subset
  <2>4. Cardinality(Working(r)') \in Nat /\ Cardinality(Working(r) \cup {i}) \in Nat /\ Cardinality(Working(r)) \in Nat
    BY <1>6, <2>1, <2>3, FS_CardinalityType
  <2> QED BY <1>4, <2>1, <2>2, <2>4, ForecastAssumption
<1>8. JobsTyped'
  <2>1. \A q \in Runs : Cardinality(Working(q)') <= MaxConcurrency
    BY <1>6, <1>7 DEF JobsTyped
  <2> QED BY <1>5, <1>6, <2>1 DEF JobsTyped, Working, Goroutines, Job
<1>9. StoredTogether'
  <2>1. ASSUME NEW q \in Runs, NEW k \in Goroutines(q), forecaster'[q][k].pc = "replenish"
        PROVE  resultsMu = <<q, k>>
    BY <1>3, <1>6, <2>1 DEF StoredTogether
  <2> QED BY <1>4, <2>1 DEF StoredTogether, Goroutines
<1> QED BY <1>4, <1>8, <1>9 DEF StoresTyped, LookupsInOrder

\* What the steps of a goroutine have in common.
LEMMA JobSteps ==
    ASSUME ForecastInv, NEW r \in Runs, NEW i \in Goroutines(r), NEW j \in Job,
           forecaster' = [forecaster EXCEPT ![r][i] = j], forecaster[r][i].pc \notin {"none", "done"},
           started' = started
    PROVE  /\ JobsTyped'
           /\ forecaster'[r][i] = j
           /\ \A q \in Runs : \A k \in Goroutines(q) : <<q, k>> # <<r, i>> => forecaster'[q][k] = forecaster[q][k]
<1>1. JobsTyped
  BY DEF ForecastInv
<1>2. JobsTyped'
  BY <1>1, JobKeepsTypes
<1>3. /\ forecaster' = [q \in Runs |-> forecaster'[q]]
      /\ \A q \in Runs : forecaster'[q] \in [Goroutines(q) -> Job]
      /\ forecaster'[r][i] = j
      /\ \A q \in Runs : \A k \in Goroutines(q) : <<q, k>> # <<r, i>> => forecaster'[q][k] = forecaster[q][k]
      /\ \A q \in Runs : q # r => Working(q)' = Working(q)
      /\ Working(r)' \subseteq Working(r) \cup {i}
      /\ forecaster[r][i].pc \notin {"none", "done"} => Working(r)' \subseteq Working(r)
      /\ IsFiniteSet(Working(r))
  BY <1>1, JobGoesOn, Zenon
<1> QED BY <1>2, <1>3

\* ComputeForecast keeps ForecastInv.
LEMMA ComputeForecastStep ==
    ASSUME ForecastInv, NEW r \in Runs, NEW i \in Goroutines(r), ComputeForecast(r, i) PROVE ForecastInv'
<1>1. PICK f \in Forecasts : forecaster' = [forecaster EXCEPT ![r][i] = [pc |-> "store", daily |-> f]]
  BY DEF ComputeForecast
<1>2. [pc |-> "store", daily |-> f] \in Job
  BY DEF Job, JobPaths
<1>3. PICK j \in Job : j = [pc |-> "store", daily |-> f]
  BY <1>2
<1>4. /\ forecaster' = [forecaster EXCEPT ![r][i] = j] /\ started' = started /\ forecaster[r][i].pc = "forecast"
      /\ j.pc = "store" /\ UNCHANGED <<resultsMu, forecasts, replen, apes, lookup, recorded>>
  BY <1>1, <1>3 DEF ComputeForecast
<1>5. /\ JobsTyped' /\ forecaster'[r][i] = j
      /\ \A q \in Runs : \A k \in Goroutines(q) : <<q, k>> # <<r, i>> => forecaster'[q][k] = forecaster[q][k]
  <2>1. forecaster[r][i].pc \notin {"none", "done"}
    BY <1>4
  <2> QED BY <1>4, <2>1, JobSteps, Zenon
<1>6. StoredTogether'
  <2>1. ASSUME NEW q \in Runs, NEW k \in Goroutines(q), forecaster'[q][k].pc = "replenish"
        PROVE  resultsMu = <<q, k>>
    BY <1>4, <1>5, <2>1 DEF ForecastInv, StoredTogether
  <2> QED BY <1>4, <2>1 DEF ForecastInv, StoredTogether, Goroutines
<1> QED BY <1>4, <1>5, <1>6 DEF ForecastInv, StoresTyped, LookupsInOrder, RingHolds

\* StoreResult keeps ForecastInv.
LEMMA StoreResultStep ==
    ASSUME ForecastInv, NEW r \in Runs, NEW i \in Goroutines(r), StoreResult(r, i) PROVE ForecastInv'
<1>0. PICK p \in Pairs : p = PairsOf[r][i]
  BY ForecastConstants
<1>1. forecaster[r][i] \in Job /\ forecasts[p] \in Forecasted /\ forecasts \in [Pairs -> Forecasted]
  BY DEF ForecastInv, JobsTyped, StoresTyped
<1>2. [forecaster[r][i] EXCEPT !.pc = "replenish"] \in Job
  BY <1>1 DEF Job, JobPaths
<1>3. PICK j \in Job : j = [forecaster[r][i] EXCEPT !.pc = "replenish"]
  BY <1>2
<1>4. [store |-> forecasts[p].store + 1, daily |-> forecaster[r][i].daily] \in Forecasted
  BY <1>1 DEF Forecasted, Job
<1>5. PICK t \in Forecasted : t = [store |-> forecasts[p].store + 1, daily |-> forecaster[r][i].daily]
  BY <1>4
<1>6. /\ forecaster' = [forecaster EXCEPT ![r][i] = j] /\ started' = started /\ forecaster[r][i].pc = "store"
      /\ UNCHANGED <<replen, apes, lookup, recorded>>
      /\ resultsMu = <<>> /\ resultsMu' = <<r, i>> /\ forecasts' = [forecasts EXCEPT ![p] = t]
  BY <1>0, <1>1, <1>3, <1>5 DEF StoreResult, ForecastInv, JobsTyped
<1>7. /\ JobsTyped' /\ forecaster'[r][i] = j
      /\ \A q \in Runs : \A k \in Goroutines(q) : <<q, k>> # <<r, i>> => forecaster'[q][k] = forecaster[q][k]
  <2>1. forecaster[r][i].pc \notin {"none", "done"}
    BY <1>6
  <2>2. forecaster' = [forecaster EXCEPT ![r][i] = j] /\ started' = started
    BY <1>6
  <2>3. ForecastInv /\ j \in Job
    OBVIOUS
  <2>4. JobsTyped'
    BY <2>1, <2>2, <2>3, JobSteps, Zenon
  <2>5. forecaster'[r][i] = j
    BY <2>2 DEF ForecastInv, JobsTyped
  <2>6. ASSUME NEW q \in Runs, NEW k \in Goroutines(q), <<q, k>> # <<r, i>>
        PROVE  forecaster'[q][k] = forecaster[q][k]
    BY <2>2, <2>6 DEF ForecastInv, JobsTyped
  <2> QED BY <2>4, <2>5, <2>6
<1>8. \A q \in Runs : \A k \in Goroutines(q) : resultsMu # <<q, k>>
  BY <1>6
<1>9. \A o \in Pairs : replen[o].store = forecasts[o].store /\ forecasts[o].store \in Nat
  BY <1>1, <1>8 DEF ForecastInv, StoredTogether, Forecasted
<1>10. /\ forecasts'[p].store = forecasts[p].store + 1 /\ \A o \in Pairs \ {p} : forecasts'[o] = forecasts[o]
       /\ forecasts' \in [Pairs -> Forecasted]
  BY <1>1, <1>5, <1>6
<1>11. StoredTogether'
  <2>1. ASSUME NEW q \in Runs, NEW k \in Goroutines(q), forecaster'[q][k].pc = "replenish"
        PROVE  resultsMu' = <<q, k>>
    BY <1>6, <1>7, <1>8, <2>1 DEF ForecastInv, StoredTogether
  <2>2. ASSUME NEW o \in Pairs
        PROVE  /\ replen[o].store <= forecasts'[o].store
               /\ \/ replen[o].store = forecasts'[o].store
                  \/ \E q \in Runs : \E k \in Goroutines(q) : resultsMu' = <<q, k>> /\ PairsOf[q][k] = o
    <3>1. CASE o = p
      BY <1>0, <1>6, <1>9, <1>10, <3>1
    <3>2. CASE o # p
      BY <1>9, <1>10, <3>2
    <3> QED BY <3>1, <3>2
  <2> QED BY <1>6, <2>1, <2>2 DEF StoredTogether, Goroutines
<1> QED BY <1>6, <1>7, <1>10, <1>11 DEF ForecastInv, StoresTyped, LookupsInOrder, RingHolds

\* A computed replenishment is one.
LEMMA ReplenishmentIs ==
    ASSUME NEW d \in Nat, NEW s \in Nat
    PROVE  [store |-> s, qty |-> CalculateReplenishment(d).qty, priority |-> CalculateReplenishment(d).priority]
              \in Replenishment
<1>1. \A x \in Int : Clipped(x) \in 0 .. MaxReorder
  BY DEF Clipped, MaxReorder
<1>2. CalculateReplenishment(d).qty \in 0 .. MaxReorder
  <2> DEFINE e == IF d <= 0 THEN 1 ELSE d
  <2>1. e \in Nat
    OBVIOUS
  <2> HIDE DEF e
  <2>2. 3 * e + (857 * e) \div 1000 - 50 + 1 \in Int
    BY <2>1
  <2>3. CalculateReplenishment(d).qty = Clipped(3 * e + (857 * e) \div 1000 - 50 + 1)
    BY DEF CalculateReplenishment, e
  <2> QED BY <1>1, <2>2, <2>3
<1>3. CalculateReplenishment(d).priority \in {"high", "low", "normal"}
  BY DEF CalculateReplenishment
<1> QED BY <1>2, <1>3 DEF Replenishment

\* StoreReplenishment keeps ForecastInv.
LEMMA StoreReplenishmentStep ==
    ASSUME ForecastInv, NEW r \in Runs, NEW i \in Goroutines(r), StoreReplenishment(r, i) PROVE ForecastInv'
<1>0. PICK p \in Pairs : p = PairsOf[r][i]
  BY ForecastConstants
<1>1. /\ forecaster[r][i] \in Job /\ replen \in [Pairs -> Replenishment] /\ forecasts \in [Pairs -> Forecasted]
      /\ forecaster[r][i].daily \in Nat /\ forecasts[p].store \in Nat
  BY ForecastAssumption DEF ForecastInv, JobsTyped, StoresTyped, Job, Forecasted
<1>2. [forecaster[r][i] EXCEPT !.pc = "record"] \in Job
  BY <1>1 DEF Job, JobPaths
<1>3. PICK j \in Job : j = [forecaster[r][i] EXCEPT !.pc = "record"]
  BY <1>2
<1> DEFINE result == CalculateReplenishment(forecaster[r][i].daily)
<1>4. [store |-> forecasts[p].store, qty |-> result.qty, priority |-> result.priority] \in Replenishment
  BY <1>1, ReplenishmentIs
<1>5. PICK t \in Replenishment : t = [store |-> forecasts[p].store, qty |-> result.qty, priority |-> result.priority]
  BY <1>4
<1>6. /\ forecaster' = [forecaster EXCEPT ![r][i] = j] /\ started' = started /\ forecaster[r][i].pc = "replenish"
      /\ UNCHANGED <<forecasts, apes, lookup, recorded>>
      /\ resultsMu' = <<>> /\ replen' = [replen EXCEPT ![p] = t] /\ j.pc = "record"
  BY <1>0, <1>1, <1>3, <1>5 DEF StoreReplenishment, ForecastInv, JobsTyped, Job
<1>7. /\ JobsTyped' /\ forecaster'[r][i] = j
      /\ \A q \in Runs : \A k \in Goroutines(q) : <<q, k>> # <<r, i>> => forecaster'[q][k] = forecaster[q][k]
  <2>1. forecaster[r][i].pc \notin {"none", "done"}
    BY <1>6
  <2> QED BY <1>6, <2>1, JobSteps, Zenon
<1>8. resultsMu = <<r, i>>
  BY <1>6 DEF ForecastInv, StoredTogether
<1>9. /\ \A o \in Pairs : replen[o].store <= forecasts[o].store
      /\ \A o \in Pairs \ {p} : replen[o].store = forecasts[o].store
      /\ \A o \in Pairs : replen[o].store \in Nat /\ forecasts[o].store \in Nat
  <2>1. ASSUME NEW o \in Pairs \ {p} PROVE replen[o].store = forecasts[o].store
    <3>1. ASSUME NEW q \in Runs, NEW k \in Goroutines(q), resultsMu = <<q, k>>, PairsOf[q][k] = o PROVE FALSE
      <4>1. q = r /\ k = i
        BY <1>8, <3>1
      <4> QED BY <1>0, <3>1, <4>1
    <3> QED BY <3>1 DEF ForecastInv, StoredTogether
  <2> QED BY <1>1, <2>1 DEF ForecastInv, StoredTogether, Forecasted, Replenishment
<1>10. /\ replen'[p].store = forecasts[p].store /\ \A o \in Pairs \ {p} : replen'[o] = replen[o]
       /\ replen' \in [Pairs -> Replenishment]
  <2>1. t.store = forecasts[p].store
    BY <1>5
  <2> HIDE DEF result
  <2> QED BY <1>1, <1>6, <2>1
<1>11. StoredTogether'
  <2>1. ASSUME NEW q \in Runs, NEW k \in Goroutines(q), forecaster'[q][k].pc = "replenish" PROVE FALSE
    <3>1. <<q, k>> # <<r, i>>
      <4>1. q = r /\ k = i => forecaster'[q][k].pc = "record"
        BY <1>6, <1>7
      <4> QED BY <2>1, <4>1
    <3>2. resultsMu = <<q, k>>
      BY <1>7, <2>1, <3>1 DEF ForecastInv, StoredTogether
    <3> QED BY <1>8, <3>1, <3>2
  <2>2. ASSUME NEW o \in Pairs PROVE replen'[o].store <= forecasts[o].store /\ replen'[o].store = forecasts[o].store
    BY <1>1, <1>9, <1>10
  <2> QED BY <1>6, <2>1, <2>2 DEF StoredTogether, Goroutines
<1>12. LookupsInOrder'
  <2>1. \A o \in Pairs : replen[o].store <= replen'[o].store /\ replen[o].store \in Nat /\ replen'[o].store \in Nat
    BY <1>9, <1>10
  <2>2. ASSUME NEW x \in ForecastReaders, lookup[x].pc = "replenishment"
        PROVE  lookup[x].forecast <= replen'[lookup[x].pair].store
    <3>1. lookup[x].forecast <= replen[lookup[x].pair].store /\ lookup[x].pair \in Pairs /\ lookup[x].forecast \in Nat
      BY <2>2 DEF ForecastInv, LookupsInOrder, StoresTyped, Lookup
    <3> QED BY <2>1, <3>1
  <2> QED BY <1>6, <2>2 DEF ForecastInv, LookupsInOrder
<1> QED BY <1>6, <1>7, <1>10, <1>11, <1>12 DEF ForecastInv, StoresTyped, RingHolds

-----------------------------------------------------------------------------
\* The ring takes one error more.
LEMMA RingTakes ==
    ASSUME NEW a \in Errors, NEW s \in Seq(Nat), RingHolds(a, s), NEW e \in Nat, NEW b,
           b = [ring |-> [a.ring EXCEPT ![a.pos] = e], pos |-> (a.pos + 1) % RollingWindow,
                size |-> IF a.size < RollingWindow THEN a.size + 1 ELSE a.size]
    PROVE  b \in Errors /\ Append(s, e) \in Seq(Nat) /\ RingHolds(b, Append(s, e))
<1> DEFINE n == Len(s)
           t == Append(s, e)
<1>1. RollingWindow \in Nat \ {0}
  BY ForecastAssumption
<1>2. n \in Nat
  BY LenProperties
<1>3. t \in Seq(Nat) /\ Len(t) = n + 1 /\ t[n + 1] = e /\ \A m \in 1 .. n : t[m] = s[m]
  BY AppendProperties
<1>4. /\ a.ring \in [0 .. RollingWindow - 1 -> Nat] /\ a.pos \in 0 .. RollingWindow - 1
      /\ a.size \in 0 .. RollingWindow
  BY DEF Errors
<1>5. /\ b.ring = [a.ring EXCEPT ![a.pos] = e] /\ b.pos = Rem(a.pos + 1, RollingWindow)
      /\ b.size = IF a.size < RollingWindow THEN a.size + 1 ELSE a.size
  BY DEF Rem
<1>6. b.pos \in 0 .. RollingWindow - 1
  <2>1. a.pos + 1 \in Nat
    BY <1>1, <1>4
  <2> QED BY <1>1, <1>5, <2>1, RemainderIs
<1>7. b.size \in 0 .. RollingWindow
  BY SMTT(30), <1>1, <1>4, <1>5
<1>8. b.ring \in [0 .. RollingWindow - 1 -> Nat] /\ b.ring[a.pos] = e
      /\ \A k \in 0 .. RollingWindow - 1 : k # a.pos => b.ring[k] = a.ring[k]
  BY <1>4, <1>5
<1>9. b \in Errors
  <2>1. b = [ring |-> b.ring, pos |-> b.pos, size |-> b.size]
    OBVIOUS
  <2> QED BY <1>6, <1>7, <1>8, <2>1 DEF Errors
<1>10. a.size = (IF n < RollingWindow THEN n ELSE RollingWindow) /\ a.pos = Rem(n, RollingWindow)
  BY DEF RingHolds
<1> HIDE DEF n, t
<1>11. b.size = IF Len(t) < RollingWindow THEN Len(t) ELSE RollingWindow
  BY <1>1, <1>2, <1>3, <1>5, <1>10
<1>12. b.pos = Rem(Len(t), RollingWindow)
  BY <1>1, <1>2, <1>3, <1>5, <1>10, NextRemainder
<1>13. ASSUME NEW m \in 1 .. Len(t), Len(t) - b.size < m PROVE b.ring[Rem(m - 1, RollingWindow)] = t[m]
  <2>1. CASE m = n + 1
    <3>1. m - 1 = n
      BY <1>2, <2>1
    <3> QED BY <1>3, <1>8, <1>10, <2>1, <3>1
  <2>2. CASE m # n + 1
    <3>1. m \in 1 .. n /\ m - 1 \in Nat /\ m - 1 < n /\ n < (m - 1) + RollingWindow /\ n - a.size < m
      BY SMTT(30), <1>1, <1>2, <1>3, <1>5, <1>10, <1>13, <2>2
    <3>2. Rem(m - 1, RollingWindow) # Rem(n, RollingWindow)
      BY <1>1, <1>2, <3>1, OtherRemainder
    <3>3. Rem(m - 1, RollingWindow) \in 0 .. RollingWindow - 1
      BY <1>1, <3>1, RemainderIs
    <3>4. a.ring[Rem(m - 1, RollingWindow)] = s[m]
      BY <3>1 DEF RingHolds, n
    <3> QED BY <1>3, <1>8, <1>10, <3>1, <3>2, <3>3, <3>4
  <2> QED BY <2>1, <2>2
<1> QED BY <1>3, <1>9, <1>11, <1>12, <1>13 DEF RingHolds, t

\* RecordAccuracy keeps ForecastInv.
LEMMA RecordAccuracyStep ==
    ASSUME ForecastInv, NEW r \in Runs, NEW i \in Goroutines(r), RecordAccuracy(r, i) PROVE ForecastInv'
<1>0. PICK p \in Pairs : p = PairsOf[r][i]
  BY ForecastConstants
<1>1. /\ forecaster[r][i] \in Job /\ apes \in [Pairs -> Errors] /\ recorded \in [Pairs -> Seq(Nat)]
      /\ forecaster[r][i].daily \in Nat /\ Actual[p] \in Nat
  BY ForecastAssumption DEF ForecastInv, JobsTyped, StoresTyped, Job
<1>2. [forecaster[r][i] EXCEPT !.pc = "done"] \in Job
  BY <1>1 DEF Job, JobPaths
<1>3. PICK j \in Job : j = [forecaster[r][i] EXCEPT !.pc = "done"]
  BY <1>2
<1>4. /\ forecaster' = [forecaster EXCEPT ![r][i] = j] /\ started' = started /\ forecaster[r][i].pc = "record"
      /\ UNCHANGED <<resultsMu, forecasts, replen, lookup>> /\ j.pc = "done"
  BY <1>1, <1>3 DEF RecordAccuracy, ForecastInv, JobsTyped, Job
<1>5. /\ JobsTyped' /\ forecaster'[r][i] = j
      /\ \A q \in Runs : \A k \in Goroutines(q) : <<q, k>> # <<r, i>> => forecaster'[q][k] = forecaster[q][k]
  <2>1. forecaster[r][i].pc \notin {"none", "done"}
    BY <1>4
  <2> QED BY <1>4, <2>1, JobSteps, Zenon
<1>6. StoredTogether'
  <2>1. ASSUME NEW q \in Runs, NEW k \in Goroutines(q), forecaster'[q][k].pc = "replenish"
        PROVE  resultsMu = <<q, k>>
    BY <1>4, <1>5, <2>1 DEF ForecastInv, StoredTogether
  <2> QED BY <1>4, <2>1 DEF ForecastInv, StoredTogether, Goroutines
<1>7. /\ apes' \in [Pairs -> Errors] /\ recorded' \in [Pairs -> Seq(Nat)]
      /\ \A o \in Pairs : RingHolds(apes'[o], recorded'[o])
  <2>1. CASE Actual[p] = 0
    <3>1. UNCHANGED <<apes, recorded>>
      BY <1>0, <2>1 DEF RecordAccuracy
    <3> QED BY <1>1, <3>1 DEF ForecastInv
  <2>2. CASE Actual[p] # 0
    <3> DEFINE a == apes[p]
               miss == forecaster[r][i].daily - Actual[p]
               size == IF miss < 0 THEN -miss ELSE miss
               ape == (size * 100) \div Actual[p]
               b == [ring |-> [a.ring EXCEPT ![a.pos] = ape], pos |-> (a.pos + 1) % RollingWindow,
                     size |-> IF a.size < RollingWindow THEN a.size + 1 ELSE a.size]
    <3>1. apes' = [apes EXCEPT ![p] = b] /\ recorded' = [recorded EXCEPT ![p] = Append(@, ape)]
      BY <1>0, <2>2 DEF RecordAccuracy
    <3>2. ape \in Nat
      <4>1. size \in Nat
        BY <1>1
      <4> HIDE DEF size
      <4>2. size * 100 \in Nat /\ Actual[p] \in Nat \ {0}
        BY <1>1, <2>2, <4>1
      <4>3. \A x \in Nat, y \in Nat \ {0} : x \div y \in Nat
        OBVIOUS
      <4> QED BY <4>2, <4>3
    <3>3. a \in Errors /\ recorded[p] \in Seq(Nat) /\ RingHolds(a, recorded[p])
      BY <1>1 DEF ForecastInv
    <3> HIDE DEF ape, a
    <3>4. b \in Errors /\ Append(recorded[p], ape) \in Seq(Nat) /\ RingHolds(b, Append(recorded[p], ape))
      BY <3>2, <3>3, RingTakes
    <3> HIDE DEF b
    <3>5. /\ apes'[p] = b /\ recorded'[p] = Append(recorded[p], ape)
          /\ \A o \in Pairs \ {p} : apes'[o] = apes[o] /\ recorded'[o] = recorded[o]
          /\ apes' \in [Pairs -> Errors] /\ recorded' \in [Pairs -> Seq(Nat)]
      BY <1>1, <3>1, <3>4
    <3> QED BY <3>4, <3>5 DEF ForecastInv
  <2> QED BY <2>1, <2>2
<1> QED BY <1>4, <1>5, <1>6, <1>7 DEF ForecastInv, StoresTyped, LookupsInOrder

\* The lookups of a forecast and of a replenishment keep the invariant.
LEMMA LookupSteps ==
    ASSUME ForecastInv, NEW x \in ForecastReaders,
           GetReplenishment(x) \/ \E p \in Pairs : GetForecast(x, p)
    PROVE  ForecastInv'
<1>0. /\ UNCHANGED <<started, forecaster, resultsMu, forecasts, replen, apes, recorded>>
      /\ lookup \in [ForecastReaders -> Lookup] /\ lookup[x] \in Lookup
      /\ forecasts \in [Pairs -> Forecasted] /\ replen \in [Pairs -> Replenishment]
  BY DEF GetReplenishment, GetForecast, ForecastInv, StoresTyped
<1>1. JobsTyped' /\ StoredTogether' /\ \A p \in Pairs : RingHolds(apes'[p], recorded'[p])
  BY <1>0 DEF ForecastInv, JobsTyped, StoredTogether, RingHolds, Working, Goroutines
<1>2. \E t \in Lookup : /\ lookup' = [lookup EXCEPT ![x] = t]
                        /\ t.pc = "replenishment" => t.forecast <= replen[t.pair].store
                        /\ t.pc = "answered" => t.forecast <= t.replenishment
  <2>1. CASE GetReplenishment(x)
    <3> DEFINE s == replen[lookup[x].pair].store
               t == [lookup[x] EXCEPT !.pc = "answered", !.replenishment = s]
    <3>1. lookup[x].pc = "replenishment" /\ lookup' = [lookup EXCEPT ![x] = t]
      BY <1>0, <2>1 DEF GetReplenishment
    <3>2. lookup[x].forecast <= s /\ s \in Nat
      BY <1>0, <3>1 DEF ForecastInv, LookupsInOrder, Lookup, Replenishment
    <3> HIDE DEF s
    <3>3. t \in Lookup /\ t.pc = "answered" /\ t.forecast = lookup[x].forecast /\ t.replenishment = s
      BY <1>0, <3>2 DEF Lookup
    <3> HIDE DEF t
    <3> QED BY <3>1, <3>2, <3>3
  <2>2. ASSUME NEW p \in Pairs, GetForecast(x, p)
        PROVE  \E t \in Lookup : /\ lookup' = [lookup EXCEPT ![x] = t]
                                 /\ t.pc = "replenishment" => t.forecast <= replen[t.pair].store
                                 /\ t.pc = "answered" => t.forecast <= t.replenishment
    <3> DEFINE t == [pc |-> "replenishment", pair |-> p, forecast |-> forecasts[p].store, replenishment |-> 0]
    <3>1. resultsMu = <<>> /\ lookup' = [lookup EXCEPT ![x] = t]
      BY <2>2 DEF GetForecast
    <3>2. forecasts[p].store \in Nat /\ replen[p].store = forecasts[p].store
      BY <1>0, <3>1 DEF ForecastInv, StoredTogether, Forecasted
    <3>3. t \in Lookup /\ t.pc = "replenishment" /\ t.forecast = replen[t.pair].store /\ replen[t.pair].store \in Nat
      BY <3>2 DEF Lookup
    <3> HIDE DEF t
    <3>4. t.pc # "answered" /\ t.forecast <= replen[t.pair].store
      BY <3>3
    <3> QED BY <3>1, <3>3, <3>4, Zenon
  <2> QED BY <2>1, <2>2
<1>3. PICK t \in Lookup : /\ lookup' = [lookup EXCEPT ![x] = t]
                          /\ t.pc = "replenishment" => t.forecast <= replen[t.pair].store
                          /\ t.pc = "answered" => t.forecast <= t.replenishment
  BY <1>2
<1>4. lookup' \in [ForecastReaders -> Lookup] /\ lookup'[x] = t /\ \A y \in ForecastReaders \ {x} : lookup'[y] = lookup[y]
  BY <1>0, <1>3
<1>5. LookupsInOrder'
  BY <1>0, <1>3, <1>4 DEF ForecastInv, LookupsInOrder
<1> QED BY <1>0, <1>1, <1>4, <1>5 DEF ForecastInv, StoresTyped

\* What the ring shows is the end of what was recorded.
LEMMA RingShows ==
    ASSUME NEW a \in Errors, NEW s \in Seq(Nat), RingHolds(a, s)
    PROVE  ComputeStats(a).daily = LastOf(s, RollingWindow)
<1> DEFINE n == Len(s)
           from == IF n > RollingWindow THEN n - RollingWindow + 1 ELSE 1
           last == SubSeq(s, from, n)
<1>1. RollingWindow \in Nat \ {0} /\ n \in Nat
  BY ForecastAssumption, LenProperties
<1>2. s \in [1 .. n -> Nat]
  BY LenProperties
<1>3. a.size = (IF n < RollingWindow THEN n ELSE RollingWindow) /\ a.pos = Rem(n, RollingWindow)
  BY DEF RingHolds
<1>4. ComputeStats(a).daily = DailyMAPE(a) /\ LastOf(s, RollingWindow) = last
  BY DEF ComputeStats, LastOf
<1>5. /\ last \in Seq(Nat) /\ Len(last) = IF from <= n THEN n - from + 1 ELSE 0
      /\ \A k \in 1 .. n - from + 1 : last[k] = s[from + k - 1]
  <2>1. from \in Int /\ n \in Int
    <3> HIDE DEF n
    <3> QED BY <1>1
  <2>2. \A k \in from .. n : s[k] \in Nat
    <3> HIDE DEF n
    <3> QED BY <1>1, <1>2
  <2> HIDE DEF from, n
  <2> QED BY <2>1, <2>2, SubSeqProperties
<1>6. last \in [1 .. Len(last) -> Nat]
  BY <1>5, LenProperties
<1> DEFINE len == Len(last)
<1>7. len = IF from <= n THEN n - from + 1 ELSE 0
  BY <1>5
<1>8. last \in [1 .. len -> Nat]
  BY <1>6
<1> HIDE DEF last, len, n
<1>9. len = a.size /\ n - from + 1 = a.size /\ a.size \in 0 .. RollingWindow /\ a.size <= n /\ from = n - a.size + 1
  BY <1>1, <1>3, <1>7
<1> HIDE DEF from
<1>10. ASSUME NEW k \in 1 .. a.size PROVE DailyMAPE(a)[k] = last[k]
  <2> DEFINE m == n - a.size + k
  <2>1. m \in 1 .. n /\ n - a.size < m /\ from + k - 1 = m /\ m - 1 = n - a.size + k - 1
    <3> DEFINE z == a.size
    <3>1. z \in Nat /\ z <= n /\ k \in 1 .. z /\ from = n - z + 1
      BY <1>1, <1>9
    <3> HIDE DEF z
    <3>2. /\ n - z + k \in 1 .. n /\ n - z < n - z + k /\ from + k - 1 = n - z + k
          /\ (n - z + k) - 1 = n - z + k - 1
      BY <1>1, <3>1
    <3> QED BY <3>2 DEF z
  <2>2. DailyMAPE(a)[k] = a.ring[Rem(Rem(n, RollingWindow) - a.size + k - 1 + RollingWindow, RollingWindow)]
    BY <1>3 DEF DailyMAPE, Rem
  <2>3. Rem(Rem(n, RollingWindow) - a.size + k - 1 + RollingWindow, RollingWindow) = Rem(m - 1, RollingWindow)
    BY SMTT(30), <1>1, <1>9, <2>1, RingPlace
  <2>4. a.ring[Rem(m - 1, RollingWindow)] = s[m]
    BY <2>1 DEF RingHolds, n
  <2>5. last[k] = s[m]
    BY <1>5, <1>9, <2>1
  <2> QED BY <2>2, <2>3, <2>4, <2>5
<1>11. DOMAIN DailyMAPE(a) = 1 .. a.size /\ DailyMAPE(a) = [k \in 1 .. a.size |-> DailyMAPE(a)[k]]
  BY DEF DailyMAPE
<1>12. last = [k \in 1 .. a.size |-> last[k]]
  BY <1>8, <1>9
<1> QED BY <1>4, <1>10, <1>11, <1>12

\* Statistics and replenishments agree with the forecasts they are of, however runs and
\* readers interleave: ForecastsAgree.
THEOREM ForecastsStand == ForecastSpec => [](ForecastTypeOK /\ ForecastsAgree)
<1>1. ForecastInv /\ [ForecastNext]_forecastVars => ForecastInv'
  <2> SUFFICES ASSUME ForecastInv, [ForecastNext]_forecastVars PROVE ForecastInv'
    OBVIOUS
  <2>1. CASE UNCHANGED forecastVars
    <3>1. UNCHANGED <<started, forecaster, resultsMu, forecasts, replen, apes, lookup, recorded>>
      BY <2>1 DEF forecastVars
    <3>2. JobsTyped' /\ StoresTyped'
      BY <3>1 DEF ForecastInv, JobsTyped, StoresTyped, Working
    <3> QED BY <3>1, <3>2 DEF ForecastInv, StoredTogether, RingHolds, LookupsInOrder
  <2> QED BY <2>1, StartPairStep, ComputeForecastStep, StoreResultStep, StoreReplenishmentStep,
             RecordAccuracyStep, LookupSteps DEF ForecastNext
<1>2. ASSUME ForecastInv PROVE ForecastTypeOK /\ ForecastsAgree
  <2>1. ForecastTypeOK
    <3>1. \A r \in Runs : started[r] \in 0 .. Len(PairsOf[r]) /\ Cardinality(Working(r)) <= MaxConcurrency
      BY <1>2, ForecastConstants DEF ForecastInv, JobsTyped
    <3>2. \A p \in Pairs : /\ forecasts[p].daily \in Forecasts \cup {0} /\ replen[p].qty \in 0 .. MaxReorder
                          /\ apes[p].pos \in 0 .. RollingWindow - 1 /\ apes[p].size \in 0 .. RollingWindow
      BY <1>2 DEF ForecastInv, StoresTyped, Forecasted, Replenishment, Errors
    <3>3. \A x \in ForecastReaders : lookup[x].pc \in {"forecast", "replenishment", "answered"} /\ lookup[x].pair \in Pairs
      BY <1>2 DEF ForecastInv, StoresTyped, Lookup
    <3> QED BY <3>1, <3>2, <3>3 DEF ForecastTypeOK
  <2>2. \A p \in Pairs : ComputeStats(apes[p]).daily = LastOf(recorded[p], RollingWindow)
    BY <1>2, RingShows DEF ForecastInv, StoresTyped
  <2>3. \A p \in Pairs : resultsMu = <<>> => replen[p].store = forecasts[p].store
    BY <1>2 DEF ForecastInv, StoredTogether
  <2>4. \A x \in ForecastReaders : lookup[x].pc = "answered" => lookup[x].replenishment >= lookup[x].forecast
    BY <1>2 DEF ForecastInv, LookupsInOrder, StoresTyped, Lookup
  <2> QED BY <2>1, <2>2, <2>3, <2>4 DEF ForecastsAgree
<1> QED BY ForecastInitially, <1>1, <1>2, PTL DEF ForecastSpec
=============================================================================
