------------------------------- MODULE Promo --------------------------------
(***************************************************************************)
(* services/promo-engine: rules are created, and requests validate or apply *)
(* them to a cart.  A request reads the counters of every rule first and    *)
(* increments them later, one Redis script at a time, with other requests   *)
(* in between.  The scripts are atomic; one may fail without an effect or   *)
(* after it.  No route updates or deletes a rule or reserves a budget.      *)
(***************************************************************************)
EXTENDS PromoRules, FiniteSets

CONSTANTS
    RuleIds, Body,      \* Body[r]: the request that would create rule r
    Requests, Buyers, Carts,
    MaxDay,             \* bound: days that pass
    MaxFailures,        \* bound: scripts that fail
    NoCart

\* CreateRule takes any integers; limits and values below zero are left out.
ASSUME PromoAssumption ==
    /\ IsFiniteSet(RuleIds) /\ IsFiniteSet(Requests)
    /\ MaxDay \in Nat \ {0} /\ MaxFailures \in Nat
    /\ \A cart \in Carts : cart.total \in Nat
    /\ \A r \in RuleIds : /\ Body[r].limits \in [total : Nat, daily : Nat, user : Nat]
                          /\ Body[r].effect.value \in Nat
                          /\ Body[r].effect.type = "percentage" => Body[r].effect.value <= 100

VARIABLES
    rule,           \* rule[r]: "none", "active" or "refused"
    day,
    usedTotal,      \* promo:counter:<rule>:total, 0 when there is no key
    usedDaily,      \* promo:counter:<rule>:daily:<day>
    usedBy,         \* promo:counter:<rule>:user:<user>, and the day its key was made
    request,        \* request[q]: its pc, cart and user, the rules it works on, its result
    failures

countVars == <<usedTotal, usedDaily, usedBy>>
promoVars == <<rule, day, countVars, request, failures>>

\* A rule that is in no exclusivity group.
NoGroup == ""

NewRequest == [pc |-> "new", cart |-> NoCart, user |-> CHOOSE u \in Buyers : TRUE, todo |-> {}, passed |-> {},
               remaining |-> 0, applied |-> <<>>, stacked |-> 0, final |-> 0, total |-> 0]

PromoInit ==
    /\ rule = [r \in RuleIds |-> "none"] /\ day = 1
    /\ usedTotal = [r \in RuleIds |-> 0]
    /\ usedDaily = [r \in RuleIds |-> [d \in 1 .. MaxDay |-> 0]]
    /\ usedBy = [r \in RuleIds |-> [u \in Buyers |-> [count |-> 0, made |-> 0]]]
    /\ request = [q \in Requests |-> NewRequest]
    /\ failures = 0

-----------------------------------------------------------------------------
(* The environment, and POST /admin/rules.                                   *)

NextDay ==
    /\ day < MaxDay /\ day' = day + 1
    /\ UNCHANGED <<rule, countVars, request, failures>>

\* The key of a user lives until one in the morning of the next day.
UserKeyExpires(r, u) ==
    /\ usedBy[r][u].count > 0 /\ usedBy[r][u].made < day
    /\ usedBy' = [usedBy EXCEPT ![r][u].count = 0]
    /\ UNCHANGED <<rule, day, usedTotal, usedDaily, request, failures>>

CreateRule(r) ==
    /\ rule[r] = "none"
    /\ rule' = [rule EXCEPT ![r] = IF Unmarshals(Body[r].conditions) THEN "active" ELSE "refused"]
    /\ UNCHANGED <<day, countVars, request, failures>>

-----------------------------------------------------------------------------
(* EvaluateActiveRules: the rules are looked at in the order of a map.       *)

Begin(q, u, cart, validateOnly) ==
    /\ request[q].pc = "new"
    /\ request' = [request EXCEPT ![q].pc = IF validateOnly THEN "validate" ELSE "evaluate",
          ![q].cart = cart, ![q].user = u, ![q].remaining = cart.total,
          ![q].todo = {r \in RuleIds : /\ rule[r] = "active" /\ IsActive(Body[r], day)
                                       /\ EvalCondition(UnmarshalCondition(Body[r].conditions), cart)}]
    /\ UNCHANGED <<rule, day, countVars, failures>>

\* A limit of zero counts as reached, also when the other limits are the ones set.
WithinLimits(r, u) ==
    LET limits == Body[r].limits IN
    /\ usedTotal[r] < limits.total
    /\ usedDaily[r][day] < limits.daily
    /\ usedBy[r][u].count < limits.user

CheckAllLimits(q, r) ==
    LET limited == HasAny(Body[r].limits) IN
    /\ request[q].pc \in {"validate", "evaluate"} /\ r \in request[q].todo
    /\ \/ /\ ~limited \/ WithinLimits(r, request[q].user)
          /\ request' = [request EXCEPT ![q].todo = @ \ {r}, ![q].passed = @ \cup {r}]
          /\ UNCHANGED failures
       \/ /\ limited /\ ~WithinLimits(r, request[q].user)
          /\ request' = [request EXCEPT ![q].todo = @ \ {r}] /\ UNCHANGED failures
       \/ /\ limited /\ failures < MaxFailures /\ failures' = failures + 1
          /\ request' = [request EXCEPT ![q].todo = @ \ {r}]
    /\ UNCHANGED <<rule, day, countVars>>

\* Validate answers; Apply goes on to Resolve.
Evaluated(q) ==
    /\ request[q].todo = {}
    /\ \/ /\ request[q].pc = "validate"
          /\ request' = [request EXCEPT ![q].pc = "validated"]
       \/ /\ request[q].pc = "evaluate"
          /\ request' = [request EXCEPT ![q].pc = "groups", ![q].todo = @ \cup request[q].passed]
    /\ UNCHANGED <<rule, day, countVars, failures>>

-----------------------------------------------------------------------------
(* Resolve.                                                                  *)

\* IncrementAndCheck: a counter whose key is missing passes whatever its limit.
MayIncrement(r, u) ==
    LET limits == Body[r].limits IN
    /\ usedTotal[r] = 0 \/ usedTotal[r] < limits.total
    /\ usedDaily[r][day] = 0 \/ usedDaily[r][day] < limits.daily
    /\ usedBy[r][u].count = 0 \/ usedBy[r][u].count < limits.user

Increment(r, u) ==
    /\ usedTotal' = [usedTotal EXCEPT ![r] = @ + 1]
    /\ usedDaily' = [usedDaily EXCEPT ![r][day] = @ + 1]
    /\ usedBy' = [usedBy EXCEPT ![r][u] =
                    [count |-> @.count + 1, made |-> IF @.count = 0 THEN day ELSE @.made]]

TryReserve_Trusting(r, u, ok) ==
    /\ ok
    /\ IF HasAny(Body[r].limits) THEN Increment(r, u) ELSE UNCHANGED countVars
    /\ UNCHANGED failures

\* A script that fails, after its effect or without one, is taken as a limit hit.
TryReserve(r, u, ok) ==
    \/ ~HasAny(Body[r].limits) /\ ok /\ UNCHANGED <<countVars, failures>>
    \/ HasAny(Body[r].limits) /\ ok /\ MayIncrement(r, u) /\ Increment(r, u) /\ UNCHANGED failures
    \/ HasAny(Body[r].limits) /\ ~ok /\ ~MayIncrement(r, u) /\ UNCHANGED <<countVars, failures>>
    \/ /\ HasAny(Body[r].limits) /\ ~ok
       /\ failures < MaxFailures /\ failures' = failures + 1
       /\ UNCHANGED countVars \/ (MayIncrement(r, u) /\ Increment(r, u))

\* The discount is rounded for the answer, and the rest is rounded by itself.
ApplyRule(q, r, done, stacks) ==
    LET disc == CalculateDiscount(Body[r].effect, request[q].remaining) IN
    \E shown \in Round2(disc), rest \in Round2(100 * request[q].remaining - disc) :
        request' = [request EXCEPT ![q].todo = @ \ done, ![q].remaining = rest,
            ![q].applied = Append(@, [rule |-> r, amount |-> shown, on |-> day]),
            ![q].stacked = @ + stacks]

Skip(q, done) == request' = [request EXCEPT ![q].todo = @ \ done]

\* The groups come in the order of a map; the best rule of one is the best at the
\* cart's total, and when it cannot be reserved the group gets nothing.
ApplyGroup(q, r) ==
    LET group == {s \in request[q].todo : Body[s].group = Body[r].group}
        worth(s) == CalculateDiscount(Body[s].effect, request[q].cart.total)
    IN  /\ request[q].pc = "groups" /\ Body[r].group # NoGroup /\ r \in group
        /\ \A s \in group : worth(r) >= worth(s)
        /\ \/ TryReserve(r, request[q].user, TRUE) /\ ApplyRule(q, r, group, 0)
           \/ TryReserve(r, request[q].user, FALSE) /\ Skip(q, group)
        /\ UNCHANGED <<rule, day>>

GroupsDone(q) ==
    /\ request[q].pc = "groups" /\ \A r \in request[q].todo : Body[r].group = NoGroup
    /\ request' = [request EXCEPT ![q].pc = "stack"]
    /\ UNCHANGED <<rule, day, countVars, failures>>

\* By priority, the highest first, in any order among equals.
ApplyStackable(q, r) ==
    LET body == Body[r] IN
    /\ request[q].pc = "stack" /\ r \in request[q].todo
    /\ \A s \in request[q].todo : body.priority >= Body[s].priority
    /\ IF body.stackable /\ (body.maxStackable = 0 \/ request[q].stacked < body.maxStackable)
       THEN \/ TryReserve(r, request[q].user, TRUE) /\ ApplyRule(q, r, {r}, 1)
            \/ TryReserve(r, request[q].user, FALSE) /\ Skip(q, {r})
       ELSE Skip(q, {r}) /\ UNCHANGED <<countVars, failures>>
    /\ UNCHANGED <<rule, day>>

Answer_Clamped(q) ==
    LET paid == IF request[q].remaining < 0 THEN 0 ELSE request[q].remaining IN
    /\ request[q].pc = "stack" /\ request[q].todo = {}
    /\ request' = [request EXCEPT ![q].pc = "answered",
          ![q].total = request[q].cart.total - paid, ![q].final = paid]
    /\ UNCHANGED <<rule, day, countVars, failures>>

\* The discount is totalled before what is left is raised to zero.
Answer(q) ==
    /\ request[q].pc = "stack" /\ request[q].todo = {}
    /\ request' = [request EXCEPT ![q].pc = "answered",
          ![q].total = request[q].cart.total - request[q].remaining,
          ![q].final = IF request[q].remaining < 0 THEN 0 ELSE request[q].remaining]
    /\ UNCHANGED <<rule, day, countVars, failures>>

PromoNext ==
    \/ NextDay
    \/ \E r \in RuleIds : CreateRule(r) \/ \E u \in Buyers : UserKeyExpires(r, u)
    \/ \E q \in Requests :
          \/ \E u \in Buyers, cart \in Carts, v \in BOOLEAN : Begin(q, u, cart, v)
          \/ \E r \in RuleIds : CheckAllLimits(q, r) \/ ApplyGroup(q, r) \/ ApplyStackable(q, r)
          \/ Evaluated(q) \/ GroupsDone(q) \/ Answer(q)

PromoSpec == PromoInit /\ [][PromoNext]_promoVars

-----------------------------------------------------------------------------
PromoTypeOK ==
    /\ rule \in [RuleIds -> {"none", "active", "refused"}] /\ day \in 1 .. MaxDay
    /\ usedTotal \in [RuleIds -> Nat]
    /\ usedDaily \in [RuleIds -> [1 .. MaxDay -> Nat]]
    /\ usedBy \in [RuleIds -> [Buyers -> [count : Nat, made : 0 .. MaxDay]]]
    /\ \A q \in Requests :
          /\ request[q].pc \in {"new", "validate", "evaluate", "validated", "groups", "stack", "answered"}
          /\ request[q].todo \subseteq RuleIds /\ request[q].passed \subseteq RuleIds
          /\ request[q].remaining \in Int /\ request[q].final \in Nat
    /\ failures \in 0 .. MaxFailures

Uses(r) == {q \in Requests : \E i \in DOMAIN request[q].applied : request[q].applied[i].rule = r}
UsesOn(r, d) == {q \in Uses(r) : [rule |-> r, on |-> d] \in
                    {[rule |-> a.rule, on |-> a.on] : a \in Range(request[q].applied)}}

\* However requests interleave between the check and the reservation, whatever
\* scripts fail and keys expire, a limited rule is given no more often than its limits
\* say: in all, on one day, and to one user for each day that has begun.
UsageBounded ==
    \A r \in RuleIds : HasAny(Body[r].limits) =>
        /\ Cardinality(Uses(r)) <= usedTotal[r] /\ usedTotal[r] <= Body[r].limits.total
        /\ \A d \in 1 .. day : Cardinality(UsesOn(r, d)) <= Body[r].limits.daily
        /\ \A u \in Buyers :
              Cardinality({q \in Uses(r) : request[q].user = u}) <= day * Body[r].limits.user

\* The discounts that an answer shows, added up.
Shown(applied) == LET sum[i \in 0 .. Len(applied)] == IF i = 0 THEN 0 ELSE sum[i - 1] + applied[i].amount
                  IN  sum[Len(applied)]

\* What an answer says adds up: the discounts shown are the total, to a cent for each
\* rule that has half a cent to round, no exclusivity group gives two, and nobody pays
\* more than the cart, or what the total leaves of it.
AnswersAddUp ==
    \A q \in Requests :
        LET applied == request[q].applied
        IN  request[q].pc = "answered" =>
            /\ (Shown(applied) - request[q].total) \in -Len(applied) .. Len(applied)
            /\ request[q].final \in {0, request[q].cart.total - request[q].total}
            /\ request[q].final <= request[q].cart.total
            /\ \A i, j \in DOMAIN applied :
                  i # j => Body[applied[i].rule].group = NoGroup
                           \/ Body[applied[i].rule].group # Body[applied[j].rule].group
=============================================================================
