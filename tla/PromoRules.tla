----------------------------- MODULE PromoRules -----------------------------
(***************************************************************************)
(* services/promo-engine, what a rule says: its conditions, its effect, its *)
(* limits, and the condition JSON.  A condition tree is a sequence of nodes *)
(* with the root first and children after their parent; an optional field   *)
(* of the JSON is a field that may be missing from a node's record.         *)
(* Amounts are whole cents, and discounts hundredths of a cent.             *)
(***************************************************************************)
EXTENDS Integers, Sequences, SequencesExt, Functions

Smaller(a, b) == IF a < b THEN a ELSE b

\* A cashback does not look at the amount.  Free shipping and an unknown type give 0.
CalculateDiscount(effect, amount) ==
    CASE effect.type = "percentage" -> amount * effect.value
      [] effect.type = "fixed" -> 100 * Smaller(effect.value, amount)
      [] effect.type = "cashback" -> 100 * effect.value
      [] OTHER -> 0

\* Round2: the cents nearest to n hundredths of a cent; a float64 at the middle may
\* go either way.
Round2(n) == {c \in (n \div 100) .. (n \div 100 + 1) : 100 * c - n \in -50 .. 50}

-----------------------------------------------------------------------------
(* Conditions.                                                               *)

\* The fields a node keeps when it is unmarshalled.
Fields == [and |-> {"conditions"}, or |-> {"conditions"}, not |-> {"condition"},
           min_transaction |-> {"min_amount"}, area |-> {"areas"}, category |-> {"categories"},
           first_n_order |-> {"max_orders"}, time_slot |-> {"start", "end", "days"}]

\* Child nodes of a JSON node that unmarshalCondition reads; a repeated one is read twice.
ChildrenOf(node) ==
    (IF node.type \in {"and", "or"} /\ "conditions" \in DOMAIN node THEN node.conditions ELSE {})
    \cup (IF node.type = "not" /\ "condition" \in DOMAIN node THEN {node.condition} ELSE {})

\* unmarshalCondition returns no error.
Unmarshals(json) ==
    LET ok[i \in DOMAIN json] ==
            /\ json[i].type \in DOMAIN Fields
            /\ json[i].type = "min_transaction" => "min_amount" \in DOMAIN json[i]
            /\ json[i].type = "first_n_order" => "max_orders" \in DOMAIN json[i]
            /\ \A j \in ChildrenOf(json[i]) : ok[j]
    IN  ok[1]

Zero(field) == CASE field \in {"start", "end"} -> -1 [] OTHER -> {}

\* The condition that comes out: missing lists and strings are zero values, and the
\* fields of other types are dropped.  A NOT without a child has none.
UnmarshalCondition(json) ==
    [i \in DOMAIN json |->
        LET node == json[i]
            kept == IF node.type = "not" THEN DOMAIN node \cap {"condition"} ELSE Fields[node.type]
        IN  [f \in {"type"} \cup kept |-> IF f \in DOMAIN node THEN node[f] ELSE Zero(f)]]

\* An AND or OR without children is written without the field.
MarshalCondition(cond) ==
    [i \in DOMAIN cond |->
        IF cond[i].type \in {"and", "or"} /\ cond[i].conditions = {}
        THEN Restrict(cond[i], {"type"}) ELSE cond[i]]

\* The slot contains its last minute; with the start after the end it goes over midnight.
InSlot(start, end, minute) ==
    IF start <= end THEN ~(minute < start \/ minute > end)
    ELSE ~(minute < start /\ minute > end)

EvalCondition(cond, cart) ==
    LET val[i \in DOMAIN cond] ==
            LET c == cond[i] IN
            CASE c.type = "and" -> \A j \in c.conditions : val[j]
              [] c.type = "or" -> \E j \in c.conditions : val[j]
              [] c.type = "not" -> "condition" \in DOMAIN c => ~val[c.condition]
              [] c.type = "min_transaction" -> cart.total >= c.min_amount
              [] c.type = "area" -> cart.area \in c.areas
              [] c.type = "category" -> c.categories = {} \/ c.categories \cap cart.categories # {}
              [] c.type = "first_n_order" -> cart.orderCount <= c.max_orders
              [] c.type = "time_slot" ->
                    /\ c.days = {} \/ cart.weekday \in c.days
                    /\ c.start # -1 /\ c.end # -1 => InSlot(c.start, c.end, cart.minute)
    IN  val[1]

-----------------------------------------------------------------------------
(* Limits and the time window; 0 is the zero value of a limit and of a time. *)

HasAny(limits) == limits.total > 0 \/ limits.daily > 0 \/ limits.user > 0

\* A rule made by CreateRule has status active; days stand for times.
IsActive(rule, now) ==
    /\ rule.startAt # 0 => now >= rule.startAt
    /\ rule.endAt # 0 => now <= rule.endAt
=============================================================================
