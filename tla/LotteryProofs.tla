---------------------------- MODULE LotteryProofs ----------------------------
(***************************************************************************)
(* FlashSaleLottery for any users, draws, checkouts, stock and number of   *)
(* faults.  Fresh says which prizes of a draw nobody has touched yet, and  *)
(* Serving where each winner of a running draw stands; a step moves one    *)
(* unit from the stock into a hand, a reservation or a loss.               *)
(***************************************************************************)
EXTENDS FlashSaleLottery, FiniteSetTheorems, TLAPS

Untouched(p) == prize[p] = "none" /\ mishap[p] = "none"

\* A draw has touched no prize before its loop, and in the loop only those of
\* winners that are neither to come nor current.
Fresh == \A d \in Draws :
    /\ draw[d].pc \in {"checkDrawn", "members", "count", "noEntries", "pick", "store"} =>
          \A u \in Entrants : Untouched(<<d, u>>) /\ token[<<d, u>>] = "none"
    /\ draw[d].pc \in {"serve", "create"} => \A u \in draw[d].todo : Untouched(<<d, u>>)
    /\ draw[d].pc = "create" =>
          /\ draw[d].current \in Entrants \ draw[d].todo /\ Untouched(<<d, draw[d].current>>)

\* A checkout confirms a token that some draw made.
Presented == \A x \in Checkouts : checkout[x].pc = "confirm" =>
    checkout[x].token \in Prizes /\ token[checkout[x].token] # "none"

\* A winner of a draw that runs its loop or has answered is still to come, in
\* hand, served, hit by a failure, or there was no stock left.
Serving == \A d \in Draws : draw[d].pc \in {"serve", "create", "done"} =>
    \A u \in ChosenBy(d) :
        \/ draw[d].pc # "done" /\ u \in draw[d].todo
        \/ draw[d].pc = "create" /\ u = draw[d].current
        \/ prize[<<d, u>>] = "reserved" \/ mishap[<<d, u>>] # "none" \/ unitsLeft = 0

\* UnitsAccounted, with names for its sets.
Reserved == {p \in Prizes : prize[p] = "reserved"}
InHand == {d \in Draws : draw[d].pc = "create"}
Lost == {p \in Prizes : mishap[p] = "lost"}

Accounts ==
    /\ unitsLeft >= 0
    /\ unitsLeft + Cardinality(Reserved) + Cardinality(InHand) + Cardinality(Lost) = PrizeStock

Inv == LotteryTypeOK /\ Accounts /\ Fresh /\ Presented /\ Serving

-----------------------------------------------------------------------------
(* Units *)

\* The units reserved, in hand and lost can be counted.
LEMMA AccountsFinite ==
    /\ IsFiniteSet(Reserved) /\ IsFiniteSet(InHand) /\ IsFiniteSet(Lost)
    /\ Cardinality(Reserved) \in Nat /\ Cardinality(InHand) \in Nat /\ Cardinality(Lost) \in Nat
<1>1. IsFiniteSet(Draws) /\ IsFiniteSet(Entrants)
  BY LotteryAssumption
<1>2. IsFiniteSet(Draws \X Entrants)
  BY <1>1, FS_Product
<1>3. Reserved \subseteq Draws \X Entrants /\ Lost \subseteq Draws \X Entrants /\ InHand \subseteq Draws
  BY DEF Reserved, Lost, InHand, Prizes
<1>4. IsFiniteSet(Reserved) /\ IsFiniteSet(InHand) /\ IsFiniteSet(Lost)
  BY <1>1, <1>2, <1>3, FS_Subset
<1> QED
  BY <1>4, FS_CardinalityType

\* An element that joins a set adds one to its size.
LEMMA Joins ==
    ASSUME NEW S, IsFiniteSet(S), NEW x, x \notin S
    PROVE  Cardinality(S \cup {x}) = Cardinality(S) + 1
BY FS_AddElement

\* The four ways in which a unit moves.
LEMMA UnitTaken ==
    ASSUME Accounts, unitsLeft \in Int, unitsLeft >= 1, unitsLeft' = unitsLeft - 1,
           UNCHANGED <<prize, mishap>>, NEW d \in Draws, d \notin InHand, InHand' = InHand \cup {d}
    PROVE  Accounts'
<1>1. UNCHANGED <<Reserved, Lost>>
  BY DEF Reserved, Lost
<1>2. Cardinality(InHand') = Cardinality(InHand) + 1
  BY AccountsFinite, Joins
<1> QED
  BY <1>1, <1>2, AccountsFinite, LotteryAssumption DEF Accounts

\* A unit that passes from a draw to its winner keeps the accounts.
LEMMA UnitReserved ==
    ASSUME Accounts, unitsLeft \in Int, UNCHANGED <<unitsLeft, mishap>>,
           NEW d \in Draws, IsFiniteSet(InHand'), d \notin InHand', InHand = InHand' \cup {d},
           NEW p \in Prizes, p \notin Reserved, Reserved' = Reserved \cup {p}
    PROVE  Accounts'
<1>1. UNCHANGED Lost
  BY DEF Lost
<1>2. Cardinality(InHand) = Cardinality(InHand') + 1
  BY Joins
<1>3. Cardinality(Reserved') = Cardinality(Reserved) + 1
  BY AccountsFinite, Joins
<1>4. Cardinality(InHand') \in Nat
  BY FS_CardinalityType
<1> QED
  BY <1>1, <1>2, <1>3, <1>4, AccountsFinite, LotteryAssumption DEF Accounts

\* A unit lost by the draw that held it keeps the accounts.
LEMMA UnitLostInHand ==
    ASSUME Accounts, unitsLeft \in Int, UNCHANGED <<unitsLeft, prize>>,
           NEW d \in Draws, IsFiniteSet(InHand'), d \notin InHand', InHand = InHand' \cup {d},
           NEW p \in Prizes, p \notin Lost, Lost' = Lost \cup {p}
    PROVE  Accounts'
<1>1. UNCHANGED Reserved
  BY DEF Reserved
<1>2. Cardinality(InHand) = Cardinality(InHand') + 1
  BY Joins
<1>3. Cardinality(Lost') = Cardinality(Lost) + 1
  BY AccountsFinite, Joins
<1>4. Cardinality(InHand') \in Nat
  BY FS_CardinalityType
<1> QED
  BY <1>1, <1>2, <1>3, <1>4, AccountsFinite, LotteryAssumption DEF Accounts

\* A unit lost as it is taken from the stock keeps the accounts.
LEMMA UnitLostAtOnce ==
    ASSUME Accounts, unitsLeft \in Int, unitsLeft >= 1, unitsLeft' = unitsLeft - 1, UNCHANGED <<prize, InHand>>,
           NEW p \in Prizes, p \notin Lost, Lost' = Lost \cup {p}
    PROVE  Accounts'
<1>1. UNCHANGED Reserved
  BY DEF Reserved
<1>2. Cardinality(Lost') = Cardinality(Lost) + 1
  BY AccountsFinite, Joins
<1> QED
  BY <1>1, <1>2, AccountsFinite, LotteryAssumption DEF Accounts

\* A step that moves no unit keeps the accounts.
LEMMA NoUnitMoves ==
    ASSUME Accounts, UNCHANGED <<unitsLeft, prize, InHand, Lost>>
    PROVE  Accounts'
<1>1. UNCHANGED Reserved
  BY DEF Reserved
<1> QED
  BY <1>1 DEF Accounts

-----------------------------------------------------------------------------

\* Inv holds in the initial states.
LEMMA Initially == LotteryInit => Inv
<1> SUFFICES ASSUME LotteryInit PROVE Inv
  OBVIOUS
<1>1. Cardinality(Entrants) \in Nat
  BY LotteryAssumption, FS_CardinalityType
<1>2. LotteryTypeOK
  <2>1. [pc |-> "checkDrawn", count |-> 0, todo |-> {}, current |-> NoUser] \in Locals
    BY <1>1 DEF Locals
  <2>2. draw \in [Draws -> Locals]
    BY <2>1 DEF LotteryInit
  <2>3. checkout \in [Checkouts ->
          [pc : {"verify", "confirm", "completed", "refused"}, token : Prizes \cup {NoUser}]]
    BY DEF LotteryInit
  <2>4. unitsLeft \in Int /\ lotteryFaults \in 0..MaxLotteryFaults
    BY LotteryAssumption DEF LotteryInit
  <2> QED
    BY <2>2, <2>3, <2>4 DEF LotteryInit, LotteryTypeOK
<1>3. Reserved = {} /\ InHand = {} /\ Lost = {}
  BY DEF LotteryInit, Reserved, InHand, Lost
<1>4. Accounts
  BY <1>3, FS_EmptySet, LotteryAssumption DEF LotteryInit, Accounts
<1>5. Fresh /\ Presented /\ Serving
  BY DEF LotteryInit, Fresh, Untouched, Prizes, Presented, Serving
<1> QED
  BY <1>2, <1>4, <1>5 DEF Inv

\* One draw moves.
LEMMA DrawMoves ==
    ASSUME LotteryTypeOK, NEW d \in Draws, NEW r \in Locals, Set(d, r)
    PROVE  /\ draw' \in [Draws -> Locals] /\ draw'[d] = r
           /\ \A e \in Draws \ {d} : draw'[e] = draw[e]
BY DEF LotteryTypeOK, Set

\* The hands before and after, when the draw picks a unit up, puts it down or
\* does neither.
LEMMA Hands ==
    ASSUME NEW d \in Draws, \A e \in Draws \ {d} : draw'[e] = draw[e]
    PROVE  /\ draw[d].pc # "create" /\ draw'[d].pc = "create" =>
                d \notin InHand /\ InHand' = InHand \cup {d}
           /\ draw[d].pc = "create" /\ draw'[d].pc # "create" =>
                d \notin InHand' /\ InHand = InHand' \cup {d} /\ IsFiniteSet(InHand')
           /\ draw[d].pc # "create" /\ draw'[d].pc # "create" => InHand' = InHand
<1>1. ASSUME draw[d].pc = "create", draw'[d].pc # "create"
      PROVE  d \notin InHand' /\ InHand = InHand' \cup {d} /\ IsFiniteSet(InHand')
  <2>1. d \notin InHand' /\ InHand = InHand' \cup {d}
    BY <1>1 DEF InHand
  <2>2. IsFiniteSet(InHand')
    BY <2>1, AccountsFinite, FS_Subset
  <2> QED
    BY <2>1, <2>2
<1> QED
  BY <1>1 DEF InHand

\* A draw that has not reached its loop, and does not store, moves on its own.
LEMMA EarlyMove ==
    ASSUME Inv, NEW d \in Draws, NEW r \in Locals, Set(d, r),
           draw[d].pc \in {"checkDrawn", "members", "count", "pick", "store"},
           r.pc \in {"members", "count", "noEntries", "pick", "store", "serve", "failed"},
           UNCHANGED <<entries, winners, drawn, token, unitsLeft, prize, entering, checkout, mishap>>,
           lotteryFaults' \in 0..MaxLotteryFaults
    PROVE  Inv'
<1> USE DEF Inv
<1>1. /\ draw' \in [Draws -> Locals] /\ draw'[d] = r
      /\ \A e \in Draws \ {d} : draw'[e] = draw[e]
  BY DrawMoves
<1>2. LotteryTypeOK'
  BY <1>1 DEF LotteryTypeOK
<1>3. Accounts'
  <2>1. InHand' = InHand /\ Lost' = Lost
    BY <1>1, Hands DEF Lost
  <2> QED
    BY <2>1, NoUnitMoves
<1>4. r.todo \subseteq Entrants
  BY DEF Locals
<1>5. Fresh'
  <2>1. \A u \in Entrants : Untouched(<<d, u>>) /\ token[<<d, u>>] = "none"
    BY DEF Fresh
  <2>2. \A p : Untouched(p) => Untouched(p)'
    BY DEF Untouched
  <2> QED
    BY <1>1, <1>4, <2>1, <2>2 DEF Fresh
<1>6. Presented'
  BY DEF Presented
<1>7. Serving'
  <2>1. ASSUME NEW e \in Draws \ {d}, draw'[e].pc \in {"serve", "create", "done"}, NEW u \in ChosenBy(e)'
        PROVE  \/ draw'[e].pc # "done" /\ u \in draw'[e].todo
               \/ draw'[e].pc = "create" /\ u = draw'[e].current
               \/ prize'[<<e, u>>] = "reserved" \/ mishap'[<<e, u>>] # "none" \/ unitsLeft' = 0
    <3>1. draw'[e] = draw[e] /\ u \in ChosenBy(e)
      BY <1>1, <2>1 DEF ChosenBy
    <3> QED
      BY <2>1, <3>1 DEF Serving
  <2>2. ASSUME draw'[d].pc \in {"serve", "create", "done"}, NEW u \in ChosenBy(d)'
        PROVE  draw'[d].pc # "done" /\ u \in draw'[d].todo
    BY <1>1, <2>2 DEF ChosenBy, Fresh
  <2> QED
    BY <2>1, <2>2 DEF Serving
<1> QED
  BY <1>2, <1>3, <1>5, <1>6, <1>7

\* A step of users, checkouts or time, which touches no draw and no unit.
LEMMA Elsewhere ==
    ASSUME Inv, LotteryTypeOK', UNCHANGED <<unitsLeft, prize, draw, mishap>>,
           \A p \in Prizes : token[p] = "none" <=> token'[p] = "none",
           Presented'
    PROVE  Inv'
<1> USE DEF Inv
<1>1. Accounts'
  BY NoUnitMoves DEF InHand, Lost
<1>2. Fresh'
  BY DEF Fresh, Untouched, Prizes
<1>3. Serving'
  BY DEF Serving, ChosenBy, Prizes
<1> QED
  BY <1>1, <1>2, <1>3

\* Untouched in the next state, at a prize of this state.
Spared(p) == prize'[p] = "none" /\ mishap'[p] = "none"

\* Each step of the loop: what it needs to show for the draw that takes it.
LEMMA LoopMove ==
    ASSUME Inv, NEW d \in Draws, NEW r \in Locals, Set(d, r), LotteryTypeOK', Accounts',
           \A e \in Draws \ {d}, u \in Entrants :
               prize'[<<e, u>>] = prize[<<e, u>>] /\ mishap'[<<e, u>>] = mishap[<<e, u>>]
               /\ token'[<<e, u>>] = token[<<e, u>>],
           \A p \in Prizes : token[p] # "none" => token'[p] # "none",
           UNCHANGED checkout,
           unitsLeft = 0 => unitsLeft' = 0,
           r.pc \in {"serve", "create", "done", "failed"},
           r.pc \in {"serve", "create"} => \A u \in r.todo : Spared(<<d, u>>),
           r.pc = "create" => r.current \in Entrants \ r.todo /\ Spared(<<d, r.current>>),
           r.pc \in {"serve", "create", "done"} => \A u \in Entrants : token'[<<d, u>>] # "none" =>
               \/ r.pc # "done" /\ u \in r.todo
               \/ r.pc = "create" /\ u = r.current
               \/ prize'[<<d, u>>] = "reserved" \/ mishap'[<<d, u>>] # "none" \/ unitsLeft' = 0
    PROVE  Inv'
<1> USE DEF Inv
<1>1. /\ draw' \in [Draws -> Locals] /\ draw'[d] = r
      /\ \A e \in Draws \ {d} : draw'[e] = draw[e]
  BY DrawMoves
<1>2. Fresh'
  <2>1. ASSUME NEW e \in Draws
        PROVE  /\ draw'[e].pc \in {"checkDrawn", "members", "count", "noEntries", "pick", "store"} =>
                     \A u \in Entrants : Spared(<<e, u>>) /\ token'[<<e, u>>] = "none"
               /\ draw'[e].pc \in {"serve", "create"} => \A u \in draw'[e].todo : Spared(<<e, u>>)
               /\ draw'[e].pc = "create" =>
                     draw'[e].current \in Entrants \ draw'[e].todo /\ Spared(<<e, draw'[e].current>>)
    <3>1. CASE e = d
      BY <1>1, <3>1
    <3>2. CASE e # d
      <4>1. draw'[e] = draw[e] /\ draw[e].todo \subseteq Entrants
        BY <1>1, <3>2 DEF LotteryTypeOK, Locals
      <4> QED
        BY <3>2, <4>1 DEF Fresh, Untouched, Spared
    <3> QED
      BY <3>1, <3>2
  <2> QED
    BY <2>1 DEF Fresh, Untouched, Spared
<1>3. Presented'
  BY DEF Presented
<1>4. Serving'
  <2>1. ASSUME NEW e \in Draws, draw'[e].pc \in {"serve", "create", "done"}, NEW u \in Entrants, token'[<<e, u>>] # "none"
        PROVE  \/ draw'[e].pc # "done" /\ u \in draw'[e].todo
               \/ draw'[e].pc = "create" /\ u = draw'[e].current
               \/ prize'[<<e, u>>] = "reserved" \/ mishap'[<<e, u>>] # "none" \/ unitsLeft' = 0
    <3>1. CASE e = d
      BY <1>1, <2>1, <3>1
    <3>2. CASE e # d
      <4>1. u \in ChosenBy(e)
        BY <2>1, <3>2 DEF ChosenBy
      <4> QED
        BY <1>1, <2>1, <3>2, <4>1 DEF Serving
    <3> QED
      BY <3>1, <3>2
  <2> QED
    BY <2>1 DEF Serving, ChosenBy
<1> QED
  BY <1>2, <1>3, <1>4

-----------------------------------------------------------------------------
(* The steps of a draw *)

\* BeginDraw keeps Inv.
LEMMA BeginKeeps == ASSUME Inv, NEW d \in Draws, BeginDraw(d) PROVE Inv'
<1> DEFINE r == IF drawn THEN [draw[d] EXCEPT !.pc = "members"] ELSE [draw[d] EXCEPT !.pc = "count"]
<1>1. r \in Locals /\ r.pc \in {"members", "count"} /\ Set(d, r) /\ draw[d].pc = "checkDrawn"
  BY DEF BeginDraw, Drawing, Set, Inv, LotteryTypeOK, Locals
<1> HIDE DEF r
<1> QED
  BY <1>1, EarlyMove DEF BeginDraw, faultVars, Inv, LotteryTypeOK

\* ReadWinners keeps Inv.
LEMMA ReadKeeps == ASSUME Inv, NEW d \in Draws, ReadWinners(d) PROVE Inv'
<1> DEFINE r == [draw[d] EXCEPT !.pc = "serve", !.todo = winners]
<1>1. r \in Locals /\ r.pc = "serve" /\ Set(d, r) /\ draw[d].pc = "members"
  BY ZenonT(60) DEF ReadWinners, Drawing, Set, Inv, LotteryTypeOK, Locals
<1> HIDE DEF r
<1> QED
  BY <1>1, EarlyMove DEF ReadWinners, faultVars, Inv, LotteryTypeOK

\* CountEntries keeps Inv.
LEMMA CountKeeps == ASSUME Inv, NEW d \in Draws, CountEntries(d) PROVE Inv'
<1> DEFINE r == IF entries = {} THEN [draw[d] EXCEPT !.pc = "noEntries"]
                ELSE [draw[d] EXCEPT !.pc = "pick", !.count = Cardinality(entries)]
<1>1. Cardinality(entries) \in 0..Cardinality(Entrants)
  <2>1. IsFiniteSet(Entrants) /\ entries \subseteq Entrants
    BY LotteryAssumption DEF Inv, LotteryTypeOK
  <2>2. IsFiniteSet(entries) /\ Cardinality(entries) <= Cardinality(Entrants)
    BY <2>1, FS_Subset
  <2> QED
    BY <2>1, <2>2, FS_CardinalityType
<1>2. draw[d] \in Locals /\ draw[d].pc = "count"
  BY DEF CountEntries, Drawing, Inv, LotteryTypeOK
<1>3. r \in Locals /\ r.pc \in {"noEntries", "pick"}
  BY <1>1, <1>2 DEF Locals
<1>4. Set(d, r)
  BY DEF CountEntries, Set
<1> HIDE DEF r
<1> QED
  BY <1>2, <1>3, <1>4, EarlyMove DEF CountEntries, faultVars, Inv, LotteryTypeOK

\* PickWinners keeps Inv.
LEMMA PickKeeps == ASSUME Inv, NEW d \in Draws, PickWinners(d) PROVE Inv'
<1>1. PICK W \in SUBSET entries : Set(d, [draw[d] EXCEPT !.pc = "store", !.todo = W])
  BY DEF PickWinners, kSubset
<1> DEFINE r == [draw[d] EXCEPT !.pc = "store", !.todo = W]
<1>2. r \in Locals /\ r.pc = "store" /\ draw[d].pc = "pick"
  BY ZenonT(60) DEF PickWinners, Drawing, Inv, LotteryTypeOK, Locals
<1>3. Set(d, r)
  BY <1>1
<1> HIDE DEF r
<1> QED
  BY <1>2, <1>3, EarlyMove DEF PickWinners, faultVars, Inv, LotteryTypeOK

\* StoreWinners keeps Inv.
LEMMA StoreKeeps == ASSUME Inv, NEW d \in Draws, StoreWinners(d) PROVE Inv'
<1> USE DEF Inv
<1> DEFINE r == [draw[d] EXCEPT !.pc = "serve"]
<1>1. /\ draw[d] \in Locals /\ draw[d].pc = "store" /\ draw[d].todo \subseteq Entrants
      /\ draw[d].pc # "create"
  BY DEF StoreWinners, Drawing, LotteryTypeOK, Locals
<1>2. r \in Locals /\ r.pc = "serve" /\ r.todo = draw[d].todo
  BY <1>1 DEF Locals
<1>3. Set(d, r) /\ UNCHANGED <<unitsLeft, prize, mishap, lotteryFaults, checkout, entries, entering>>
      /\ drawn' = TRUE /\ winners' = winners \cup draw[d].todo
  BY DEF StoreWinners, Set, faultVars
<1> HIDE DEF r
<1>4. token' = [p \in Prizes |-> IF p[1] = d /\ p[2] \in draw[d].todo THEN "pending" ELSE token[p]]
  BY DEF StoreWinners
<1>5. token' \in [Prizes -> {"none", "pending", "confirmed", "expired"}]
  BY <1>4 DEF LotteryTypeOK
<1>6. /\ draw' \in [Draws -> Locals] /\ draw'[d] = r
      /\ \A e \in Draws \ {d} : draw'[e] = draw[e]
  BY <1>2, <1>3, DrawMoves
<1>7. LotteryTypeOK'
  BY <1>1, <1>3, <1>5, <1>6 DEF LotteryTypeOK
<1>8. Accounts'
  <2>1. InHand' = InHand /\ Lost' = Lost
    BY <1>1, <1>2, <1>3, <1>6, Hands DEF Lost
  <2> QED
    BY <1>3, <2>1, NoUnitMoves
<1>9. \A u \in Entrants : Untouched(<<d, u>>) /\ token[<<d, u>>] = "none"
  BY <1>1 DEF Fresh
<1>10. \A u \in Entrants : token'[<<d, u>>] # "none" => u \in r.todo
  BY <1>2, <1>4, <1>9 DEF Prizes
<1>11. \A e \in Draws \ {d}, u \in Entrants : token'[<<e, u>>] = token[<<e, u>>]
  BY <1>4 DEF Prizes
<1>12. \A p \in Prizes : token[p] # "none" => token'[p] # "none"
  BY <1>4
<1>13. \A u \in r.todo : Spared(<<d, u>>)
  BY <1>1, <1>2, <1>3, <1>9 DEF Spared, Untouched
<1> QED
  BY <1>2, <1>3, <1>7, <1>8, <1>10, <1>11, <1>12, <1>13, LoopMove

\* A winner leaves the list: the unit is in hand, or was not there.
LEMMA ReserveKeeps == ASSUME Inv, NEW d \in Draws, ReserveForWinner(d) PROVE Inv'
<1> USE DEF Inv
<1>1. PICK u \in draw[d].todo :
         \/ /\ unitsLeft >= 1 /\ unitsLeft' = unitsLeft - 1
            /\ Set(d, [draw[d] EXCEPT !.pc = "create", !.current = u, !.todo = @ \ {u}])
         \/ /\ unitsLeft < 1 /\ UNCHANGED unitsLeft
            /\ Set(d, [draw[d] EXCEPT !.todo = @ \ {u}])
  BY DEF ReserveForWinner
<1>2. draw[d] \in Locals /\ draw[d].pc = "serve" /\ u \in Entrants /\ unitsLeft \in Int
  BY DEF ReserveForWinner, Drawing, LotteryTypeOK, Locals
<1>3. UNCHANGED <<entries, winners, drawn, token, prize, entering, checkout, lotteryFaults, mishap>>
  BY DEF ReserveForWinner, faultVars
<1>4. \A v \in draw[d].todo : Spared(<<d, v>>)
  BY <1>2, <1>3 DEF Fresh, Untouched, Spared
<1>5. \A v \in Entrants : token'[<<d, v>>] # "none" =>
         v \in draw[d].todo \/ prize'[<<d, v>>] = "reserved" \/ mishap'[<<d, v>>] # "none" \/ unitsLeft = 0
  BY <1>2, <1>3 DEF Serving, ChosenBy
<1>6. unitsLeft >= 0
  BY DEF Accounts
<1>7. CASE /\ unitsLeft >= 1 /\ unitsLeft' = unitsLeft - 1
           /\ Set(d, [draw[d] EXCEPT !.pc = "create", !.current = u, !.todo = @ \ {u}])
  <2> DEFINE r == [draw[d] EXCEPT !.pc = "create", !.current = u, !.todo = @ \ {u}]
  <2>1. r \in Locals /\ r.pc = "create" /\ r.current = u /\ r.todo = draw[d].todo \ {u}
    BY <1>2 DEF Locals
  <2>2. Set(d, r)
    BY <1>7
  <2> HIDE DEF r
  <2>3. /\ draw' \in [Draws -> Locals] /\ draw'[d] = r
        /\ \A e \in Draws \ {d} : draw'[e] = draw[e]
    BY <2>1, <2>2, DrawMoves
  <2>4. LotteryTypeOK'
    BY <1>2, <1>3, <1>7, <2>3 DEF LotteryTypeOK
  <2>5. Accounts'
    <3>1. d \notin InHand /\ InHand' = InHand \cup {d}
      BY <1>2, <2>1, <2>3, Hands
    <3> QED
      BY <1>2, <1>3, <1>7, <3>1, UnitTaken
  <2>6. r.current \in Entrants \ r.todo /\ Spared(<<d, r.current>>) /\ \A v \in r.todo : Spared(<<d, v>>)
    BY <1>2, <1>4, <2>1
  <2>7. \A v \in Entrants : token'[<<d, v>>] # "none" =>
          v \in r.todo \/ v = r.current \/ prize'[<<d, v>>] = "reserved" \/ mishap'[<<d, v>>] # "none"
    BY <1>5, <1>7, <2>1
  <2> QED
    BY <1>3, <1>7, <2>1, <2>2, <2>4, <2>5, <2>6, <2>7, LoopMove
<1>8. CASE /\ unitsLeft < 1 /\ UNCHANGED unitsLeft
           /\ Set(d, [draw[d] EXCEPT !.todo = @ \ {u}])
  <2> DEFINE r == [draw[d] EXCEPT !.todo = @ \ {u}]
  <2>1. r \in Locals /\ r.pc = "serve" /\ r.todo = draw[d].todo \ {u}
    BY <1>2 DEF Locals
  <2>2. Set(d, r)
    BY <1>8
  <2> HIDE DEF r
  <2>3. /\ draw' \in [Draws -> Locals] /\ draw'[d] = r
        /\ \A e \in Draws \ {d} : draw'[e] = draw[e]
    BY <2>1, <2>2, DrawMoves
  <2>4. LotteryTypeOK'
    BY <1>2, <1>3, <1>8, <2>3 DEF LotteryTypeOK
  <2>5. Accounts'
    <3>1. InHand' = InHand /\ Lost' = Lost
      BY <1>2, <1>3, <2>1, <2>3, Hands DEF Lost
    <3> QED
      BY <1>3, <1>8, <3>1, NoUnitMoves
  <2>6. unitsLeft' = 0
    BY <1>2, <1>6, <1>8
  <2> QED
    BY <1>3, <1>4, <1>8, <2>1, <2>2, <2>4, <2>5, <2>6, LoopMove
<1> QED
  BY <1>1, <1>7, <1>8

\* The prize in hand gets its reservation, or is lost.
LEMMA PutDown ==
    ASSUME Inv, NEW d \in Draws, draw[d].pc = "create",
           NEW next \in {"serve", "failed"}, NEW r \in Locals, Set(d, r), r.pc = next,
           next = "serve" => r.todo = draw[d].todo,
           \/ /\ prize' = [prize EXCEPT ![<<d, draw[d].current>>] = "reserved"]
              /\ UNCHANGED mishap
           \/ /\ mishap' = [mishap EXCEPT ![<<d, draw[d].current>>] = "lost"]
              /\ UNCHANGED prize,
           lotteryFaults' \in 0..MaxLotteryFaults,
           UNCHANGED <<entries, winners, drawn, token, unitsLeft, entering, checkout>>
    PROVE  Inv'
<1> USE DEF Inv
<1> DEFINE p == <<d, draw[d].current>>
<1>1. /\ draw[d] \in Locals /\ draw[d].current \in Entrants \ draw[d].todo /\ draw[d].todo \subseteq Entrants
      /\ Untouched(p) /\ p \in Prizes /\ unitsLeft \in Int
  BY DEF Fresh, LotteryTypeOK, Prizes, Locals
<1>2. /\ draw' \in [Draws -> Locals] /\ draw'[d] = r
      /\ \A e \in Draws \ {d} : draw'[e] = draw[e]
  BY DrawMoves
<1>3. d \notin InHand' /\ InHand = InHand' \cup {d} /\ IsFiniteSet(InHand')
  BY <1>2, Hands
<1>4. /\ \A q \in Prizes \ {p} : prize'[q] = prize[q] /\ mishap'[q] = mishap[q]
      /\ prize'[p] = "reserved" \/ mishap'[p] = "lost"
      /\ prize' \in [Prizes -> {"none", "reserved"}]
      /\ mishap' \in [Prizes -> {"none", "lost", "skipped"}]
  BY <1>1 DEF LotteryTypeOK
<1>5. LotteryTypeOK'
  BY <1>2, <1>4 DEF LotteryTypeOK
<1>6. Accounts'
  <2>1. CASE prize' = [prize EXCEPT ![p] = "reserved"] /\ UNCHANGED mishap
    <3>1. p \notin Reserved /\ Reserved' = Reserved \cup {p}
      BY <1>1, <2>1 DEF Reserved, Untouched, LotteryTypeOK
    <3> QED
      BY <1>1, <1>3, <2>1, <3>1, UnitReserved
  <2>2. CASE mishap' = [mishap EXCEPT ![p] = "lost"] /\ UNCHANGED prize
    <3>1. p \notin Lost /\ Lost' = Lost \cup {p}
      BY <1>1, <2>2 DEF Lost, Untouched, LotteryTypeOK
    <3> QED
      BY <1>1, <1>3, <2>2, <3>1, UnitLostInHand
  <2> QED
    BY <2>1, <2>2
<1>7. \A e \in Draws \ {d}, u \in Entrants :
          prize'[<<e, u>>] = prize[<<e, u>>] /\ mishap'[<<e, u>>] = mishap[<<e, u>>]
  BY <1>4 DEF Prizes
<1>8. \A v \in draw[d].todo : Spared(<<d, v>>)
  BY <1>1, <1>4 DEF Fresh, Untouched, Spared, Prizes
<1>9. \A v \in Entrants : token'[<<d, v>>] # "none" =>
         v \in draw[d].todo \/ prize'[<<d, v>>] = "reserved" \/ mishap'[<<d, v>>] # "none" \/ unitsLeft' = 0
  <2> SUFFICES ASSUME NEW v \in Entrants, token'[<<d, v>>] # "none"
               PROVE  v \in draw[d].todo \/ prize'[<<d, v>>] = "reserved" \/ mishap'[<<d, v>>] # "none" \/ unitsLeft' = 0
    OBVIOUS
  <2>1. CASE v = draw[d].current
    BY <1>4, <2>1
  <2>2. CASE v # draw[d].current
    <3>1. <<d, v>> \in Prizes \ {p}
      BY <2>2 DEF Prizes
    <3> QED
      BY <1>4, <2>2, <3>1 DEF Serving, ChosenBy
  <2> QED
    BY <2>1, <2>2
<1> HIDE DEF p
<1> QED
  BY <1>5, <1>6, <1>7, <1>8, <1>9, LoopMove

\* CreatePrizeReservation and CreateFails keep Inv.
LEMMA CreateKeeps == ASSUME Inv, NEW d \in Draws, CreatePrizeReservation(d) \/ CreateFails(d) PROVE Inv'
<1> DEFINE r == [draw[d] EXCEPT !.pc = "serve", !.current = NoUser]
<1>1. draw[d] \in Locals /\ draw[d].pc = "create"
  BY DEF CreatePrizeReservation, CreateFails, Drawing, Inv, LotteryTypeOK
<1>2. r \in Locals /\ r.pc = "serve" /\ r.todo = draw[d].todo
  BY <1>1 DEF Locals
<1>3. Set(d, r)
  BY DEF CreatePrizeReservation, CreateFails, Set
<1>4. lotteryFaults' \in 0..MaxLotteryFaults
  BY LotteryAssumption DEF CreatePrizeReservation, CreateFails, LotteryFault, faultVars, Inv, LotteryTypeOK
<1> HIDE DEF r
<1> QED
  BY <1>1, <1>2, <1>3, <1>4, PutDown DEF CreatePrizeReservation, CreateFails, faultVars

\* EndDraw keeps Inv.
LEMMA EndKeeps == ASSUME Inv, NEW d \in Draws, EndDraw(d) PROVE Inv'
<1> USE DEF Inv
<1> DEFINE r == [draw[d] EXCEPT !.pc = "done"]
<1>1. draw[d] \in Locals /\ draw[d].pc = "serve" /\ draw[d].todo = {}
  BY DEF EndDraw, Drawing, LotteryTypeOK
<1>2. r \in Locals /\ r.pc = "done"
  BY <1>1 DEF Locals
<1>3. Set(d, r) /\ UNCHANGED <<entries, winners, drawn, token, unitsLeft, prize, entering, checkout, lotteryFaults, mishap>>
  BY DEF EndDraw, Set, faultVars
<1> HIDE DEF r
<1>4. /\ draw' \in [Draws -> Locals] /\ draw'[d] = r
      /\ \A e \in Draws \ {d} : draw'[e] = draw[e]
  BY <1>2, <1>3, DrawMoves
<1>5. LotteryTypeOK'
  BY <1>3, <1>4 DEF LotteryTypeOK
<1>6. Accounts'
  <2>1. InHand' = InHand /\ Lost' = Lost
    BY <1>1, <1>2, <1>3, <1>4, Hands DEF Lost
  <2> QED
    BY <1>3, <2>1, NoUnitMoves
<1>7. \A v \in Entrants : token'[<<d, v>>] # "none" =>
         prize'[<<d, v>>] = "reserved" \/ mishap'[<<d, v>>] # "none" \/ unitsLeft' = 0
  BY <1>1, <1>3 DEF Serving, ChosenBy
<1> QED
  BY <1>2, <1>3, <1>5, <1>6, <1>7, LoopMove

\* DrawStops keeps Inv.
LEMMA StopKeeps == ASSUME Inv, NEW d \in Draws, DrawStops(d) PROVE Inv'
<1> USE DEF Inv
<1> DEFINE r == [draw[d] EXCEPT !.pc = "failed"]
<1>1. draw[d] \in Locals /\ draw[d].pc \notin {"noEntries", "done", "failed"}
  BY DEF DrawStops, LotteryTypeOK
<1>2. r \in Locals /\ r.pc = "failed"
  BY <1>1 DEF Locals
<1>3. Set(d, r) /\ lotteryFaults' \in 0..MaxLotteryFaults
      /\ UNCHANGED <<entries, winners, drawn, token, unitsLeft, prize, entering, checkout>>
  BY LotteryAssumption DEF DrawStops, Set, LotteryFault, LotteryTypeOK
<1>4. mishap' = IF draw[d].pc = "create" THEN [mishap EXCEPT ![<<d, draw[d].current>>] = "lost"] ELSE mishap
  BY DEF DrawStops, Drawing
<1> HIDE DEF r
<1>5. CASE draw[d].pc = "create"
  BY <1>2, <1>3, <1>4, <1>5, PutDown
<1>6. CASE draw[d].pc \in {"checkDrawn", "members", "count", "pick", "store"}
  BY <1>2, <1>3, <1>4, <1>6, EarlyMove
<1>7. CASE draw[d].pc = "serve"
  <2>1. /\ draw' \in [Draws -> Locals] /\ draw'[d] = r
        /\ \A e \in Draws \ {d} : draw'[e] = draw[e]
    BY <1>2, <1>3, DrawMoves
  <2>2. UNCHANGED mishap
    BY <1>4, <1>7
  <2>3. LotteryTypeOK'
    BY <1>3, <2>1, <2>2 DEF LotteryTypeOK
  <2>4. Accounts'
    <3>1. InHand' = InHand /\ Lost' = Lost
      BY <1>2, <1>7, <2>1, <2>2, Hands DEF Lost
    <3> QED
      BY <1>3, <3>1, NoUnitMoves
  <2> QED
    BY <1>2, <1>3, <2>2, <2>3, <2>4, LoopMove
<1> QED
  BY <1>1, <1>5, <1>6, <1>7 DEF Locals

\* A draw whose pipeline broke off serves nobody.
LEMMA StoreFailsKeeps == ASSUME Inv, NEW d \in Draws, StoreFails(d) PROVE Inv'
<1> USE DEF Inv
<1> DEFINE r == [draw[d] EXCEPT !.pc = "failed"]
<1>1. draw[d] \in Locals /\ draw[d].pc = "store" /\ draw[d].todo \subseteq Entrants
  BY DEF StoreFails, Drawing, LotteryTypeOK, Locals
<1>2. r \in Locals /\ r.pc = "failed"
  BY <1>1 DEF Locals
<1>3. Set(d, r) /\ lotteryFaults' \in 0..MaxLotteryFaults
      /\ UNCHANGED <<entries, unitsLeft, prize, entering, checkout, mishap>>
  BY LotteryAssumption DEF StoreFails, Set, LotteryFault, LotteryTypeOK
<1>4. PICK stored \in SUBSET draw[d].todo, given \in SUBSET draw[d].todo :
         /\ winners' = winners \cup stored
         /\ token' = [p \in Prizes |-> IF p[1] = d /\ p[2] \in given THEN "pending" ELSE token[p]]
         /\ drawn' \in IF given = draw[d].todo THEN {drawn, TRUE} ELSE {drawn}
  BY DEF StoreFails
<1> HIDE DEF r
<1>5. token' \in [Prizes -> {"none", "pending", "confirmed", "expired"}] /\ drawn' \in BOOLEAN
  BY <1>4 DEF LotteryTypeOK
<1>6. /\ draw' \in [Draws -> Locals] /\ draw'[d] = r
      /\ \A e \in Draws \ {d} : draw'[e] = draw[e]
  BY <1>2, <1>3, DrawMoves
<1>7. LotteryTypeOK'
  BY <1>1, <1>3, <1>4, <1>5, <1>6 DEF LotteryTypeOK
<1>8. Accounts'
  <2>1. InHand' = InHand /\ Lost' = Lost
    BY <1>1, <1>2, <1>3, <1>6, Hands DEF Lost
  <2> QED
    BY <1>3, <2>1, NoUnitMoves
<1>9. \A e \in Draws \ {d}, u \in Entrants : token'[<<e, u>>] = token[<<e, u>>]
  BY <1>4 DEF Prizes
<1>10. \A p \in Prizes : token[p] # "none" => token'[p] # "none"
  BY <1>4
<1> QED
  BY <1>2, <1>3, <1>7, <1>8, <1>9, <1>10, LoopMove

\* The stock script fails: the winner is skipped, and the unit may be lost.
LEMMA ReserveFailsKeeps == ASSUME Inv, NEW d \in Draws, ReserveFails(d) PROVE Inv'
<1> USE DEF Inv
<1>1. PICK u \in draw[d].todo :
         /\ \/ unitsLeft' = unitsLeft /\ mishap' = [mishap EXCEPT ![<<d, u>>] = "skipped"]
            \/ unitsLeft >= 1 /\ unitsLeft' = unitsLeft - 1 /\ mishap' = [mishap EXCEPT ![<<d, u>>] = "lost"]
         /\ Set(d, [draw[d] EXCEPT !.todo = @ \ {u}])
  BY DEF ReserveFails
<1> DEFINE r == [draw[d] EXCEPT !.todo = @ \ {u}]
<1> DEFINE p == <<d, u>>
<1>2. draw[d] \in Locals /\ draw[d].pc = "serve" /\ u \in Entrants /\ unitsLeft \in Int /\ draw[d].todo \subseteq Entrants
  BY DEF ReserveFails, Drawing, LotteryTypeOK, Locals
<1>3. r \in Locals /\ r.pc = "serve" /\ r.todo = draw[d].todo \ {u}
  BY <1>2 DEF Locals
<1>4. Set(d, r) /\ lotteryFaults' \in 0..MaxLotteryFaults
      /\ UNCHANGED <<entries, winners, drawn, token, prize, entering, checkout>>
  BY <1>1, LotteryAssumption DEF ReserveFails, LotteryFault, LotteryTypeOK
<1> HIDE DEF r
<1>5. p \in Prizes /\ Untouched(p)
  BY <1>2 DEF Prizes, Fresh
<1>6. /\ draw' \in [Draws -> Locals] /\ draw'[d] = r
      /\ \A e \in Draws \ {d} : draw'[e] = draw[e]
  BY <1>3, <1>4, DrawMoves
<1>7. /\ mishap' \in [Prizes -> {"none", "lost", "skipped"}] /\ mishap'[p] # "none"
      /\ \A q \in Prizes \ {p} : mishap'[q] = mishap[q]
      /\ unitsLeft' \in Int
  BY <1>1, <1>2, <1>5 DEF LotteryTypeOK
<1>8. LotteryTypeOK'
  BY <1>4, <1>6, <1>7 DEF LotteryTypeOK
<1>9. InHand' = InHand
  BY <1>2, <1>3, <1>6, Hands
<1>10. Accounts'
  <2>1. CASE unitsLeft' = unitsLeft /\ mishap' = [mishap EXCEPT ![p] = "skipped"]
    <3>1. Lost' = Lost
      BY <1>5, <2>1 DEF Lost, Untouched, LotteryTypeOK
    <3> QED
      BY <1>4, <1>9, <2>1, <3>1, NoUnitMoves
  <2>2. CASE unitsLeft >= 1 /\ unitsLeft' = unitsLeft - 1 /\ mishap' = [mishap EXCEPT ![p] = "lost"]
    <3>1. p \notin Lost /\ Lost' = Lost \cup {p}
      BY <1>5, <2>2 DEF Lost, Untouched, LotteryTypeOK
    <3> QED
      BY <1>2, <1>4, <1>5, <1>9, <2>2, <3>1, UnitLostAtOnce
  <2> QED
    BY <1>1, <2>1, <2>2
<1>11. \A v \in Entrants, e \in Draws : <<e, v>> # p => mishap'[<<e, v>>] = mishap[<<e, v>>]
  BY <1>7 DEF Prizes
<1>12. \A v \in r.todo : Spared(<<d, v>>)
  BY ZenonT(60), <1>2, <1>3, <1>4, <1>11 DEF Fresh, Untouched, Spared
<1>13. \A v \in Entrants : token'[<<d, v>>] # "none" =>
          v \in r.todo \/ prize'[<<d, v>>] = "reserved" \/ mishap'[<<d, v>>] # "none" \/ unitsLeft' = 0
  <2> SUFFICES ASSUME NEW v \in Entrants, token'[<<d, v>>] # "none", v # u
               PROVE  v \in r.todo \/ prize'[<<d, v>>] = "reserved" \/ mishap'[<<d, v>>] # "none" \/ unitsLeft' = 0
    BY <1>7
  <2>1. mishap'[<<d, v>>] = mishap[<<d, v>>]
    BY <1>11
  <2>2. unitsLeft = 0 => unitsLeft' = 0
    BY <1>1
  <2> QED
    BY <1>2, <1>3, <1>4, <2>1, <2>2 DEF Serving, ChosenBy
<1>14. \A e \in Draws \ {d}, v \in Entrants : mishap'[<<e, v>>] = mishap[<<e, v>>]
  BY <1>11
<1>15. unitsLeft = 0 => unitsLeft' = 0
  BY <1>1
<1> HIDE DEF p
<1> QED
  BY <1>3, <1>4, <1>8, <1>10, <1>12, <1>13, <1>14, <1>15, LoopMove

-----------------------------------------------------------------------------
(* The steps of users, checkouts and time *)

\* CheckDrawn, EnterLottery and EnterFails keep Inv.
LEMMA EntryKeeps ==
    ASSUME Inv, NEW u \in Entrants, CheckDrawn(u) \/ EnterLottery(u) \/ EnterFails(u)
    PROVE  Inv'
<1> USE DEF Inv
<1>1. UNCHANGED <<winners, drawn, token, unitsLeft, prize, draw, checkout, mishap>>
  BY DEF CheckDrawn, EnterLottery, EnterFails, faultVars
<1>2. entering' \in [Entrants -> {"checkDrawn", "add", "entered", "tooLate", "failed"}]
  BY DEF CheckDrawn, EnterLottery, EnterFails, Enter, LotteryTypeOK
<1>3. entries' \in SUBSET Entrants
  BY DEF CheckDrawn, EnterLottery, EnterFails, LotteryTypeOK
<1>4. lotteryFaults' \in 0..MaxLotteryFaults
  BY LotteryAssumption DEF CheckDrawn, EnterLottery, EnterFails, faultVars, LotteryFault, LotteryTypeOK
<1>5. LotteryTypeOK'
  BY <1>1, <1>2, <1>3, <1>4 DEF LotteryTypeOK
<1>6. Presented'
  BY <1>1 DEF Presented
<1> QED
  BY <1>1, <1>5, <1>6, Elsewhere

\* VerifyLotteryToken, ConfirmLotteryToken and CheckoutFails keep Inv.
LEMMA CheckoutKeeps ==
    ASSUME Inv, NEW x \in Checkouts, VerifyLotteryToken(x) \/ ConfirmLotteryToken(x) \/ CheckoutFails(x)
    PROVE  Inv'
<1> USE DEF Inv
<1>1. UNCHANGED <<entries, winners, drawn, unitsLeft, prize, entering, draw, mishap>>
  BY DEF VerifyLotteryToken, ConfirmLotteryToken, CheckoutFails, faultVars
<1>2. lotteryFaults' \in 0..MaxLotteryFaults
  BY LotteryAssumption DEF VerifyLotteryToken, ConfirmLotteryToken, CheckoutFails, faultVars, LotteryFault, LotteryTypeOK
<1> DEFINE Local == [pc : {"verify", "confirm", "completed", "refused"}, token : Prizes \cup {NoUser}]
<1>3. checkout \in [Checkouts -> Local]
  BY DEF LotteryTypeOK
<1>4. CASE \/ VerifyLotteryToken(x)
           \/ CheckoutFails(x) /\ checkout[x].pc = "verify"
  <2>1. PICK p \in Prizes : /\ token[p] # "none"
                            /\ checkout' = [checkout EXCEPT ![x] =
                                 [pc |-> IF token[p] = "pending" THEN "confirm" ELSE "refused", token |-> p]]
                               \/ checkout' = [checkout EXCEPT ![x] = [pc |-> "refused", token |-> p]]
    BY <1>4 DEF VerifyLotteryToken, CheckoutFails
  <2>2. /\ checkout' \in [Checkouts -> Local] /\ checkout'[x].token = p
        /\ \A y \in Checkouts \ {x} : checkout'[y] = checkout[y]
    BY <1>3, <2>1
  <2>3. UNCHANGED token
    BY <1>4 DEF VerifyLotteryToken, CheckoutFails
  <2>4. LotteryTypeOK'
    BY <1>1, <1>2, <2>2, <2>3 DEF LotteryTypeOK
  <2>5. Presented'
    BY <2>1, <2>2, <2>3 DEF Presented
  <2> QED
    BY <1>1, <2>3, <2>4, <2>5, Elsewhere
<1>5. CASE \/ ConfirmLotteryToken(x)
           \/ CheckoutFails(x) /\ checkout[x].pc = "confirm"
  <2>1. /\ checkout[x].pc = "confirm"
        /\ checkout' = [checkout EXCEPT ![x].pc = "completed"]
        /\ token' = [token EXCEPT ![checkout[x].token] = "confirmed"] \/ UNCHANGED token
    BY <1>5 DEF ConfirmLotteryToken, CheckoutFails
  <2>2. /\ checkout' \in [Checkouts -> Local] /\ checkout'[x].pc = "completed"
        /\ \A y \in Checkouts \ {x} : checkout'[y] = checkout[y]
    BY <1>3, <2>1
  <2>3. checkout[x].token \in Prizes /\ token[checkout[x].token] # "none"
    BY <2>1 DEF Presented
  <2>4. /\ token' \in [Prizes -> {"none", "pending", "confirmed", "expired"}]
        /\ \A p \in Prizes : token[p] = "none" <=> token'[p] = "none"
    BY <2>1, <2>3 DEF LotteryTypeOK
  <2>5. LotteryTypeOK'
    BY <1>1, <1>2, <2>2, <2>4 DEF LotteryTypeOK
  <2>6. Presented'
    BY <2>2, <2>4 DEF Presented
  <2> QED
    BY <1>1, <2>4, <2>5, <2>6, Elsewhere
<1> QED
  BY <1>4, <1>5 DEF CheckoutFails

\* The expiry of entries and tokens keeps the invariant.
LEMMA TimeKeeps ==
    ASSUME Inv, EntriesExpire \/ \E p \in Prizes : TokenExpires(p)
    PROVE  Inv'
<1> USE DEF Inv
<1>1. UNCHANGED <<winners, drawn, unitsLeft, prize, entering, draw, checkout, lotteryFaults, mishap>>
  BY DEF EntriesExpire, TokenExpires, faultVars
<1>2. entries' \in SUBSET Entrants
  BY DEF EntriesExpire, TokenExpires, LotteryTypeOK
<1>3. /\ token' \in [Prizes -> {"none", "pending", "confirmed", "expired"}]
      /\ \A p \in Prizes : token[p] = "none" <=> token'[p] = "none"
  BY DEF EntriesExpire, TokenExpires, LotteryTypeOK
<1>4. LotteryTypeOK'
  BY <1>1, <1>2, <1>3 DEF LotteryTypeOK
<1>5. Presented'
  BY <1>1, <1>3 DEF Presented
<1> QED
  BY <1>1, <1>3, <1>4, <1>5, Elsewhere

\* Every step keeps Inv.
LEMMA Step == Inv /\ [LotteryNext]_lotteryVars => Inv'
<1> SUFFICES ASSUME Inv, [LotteryNext]_lotteryVars PROVE Inv'
  OBVIOUS
<1>1. ASSUME NEW d \in Draws, DrawLotteryWinners(d) PROVE Inv'
  BY <1>1, BeginKeeps, ReadKeeps, CountKeeps, PickKeeps, StoreKeeps, ReserveKeeps, CreateKeeps, EndKeeps
     DEF DrawLotteryWinners
<1>2. ASSUME NEW d \in Draws, DrawStops(d) \/ StoreFails(d) \/ ReserveFails(d) \/ CreateFails(d) PROVE Inv'
  BY <1>2, StopKeeps, StoreFailsKeeps, ReserveFailsKeeps, CreateKeeps
<1>3. CASE UNCHANGED lotteryVars
  <2>1. LotteryTypeOK'
    BY <1>3 DEF Inv, LotteryTypeOK, lotteryVars, faultVars
  <2>2. Presented'
    BY <1>3 DEF Inv, Presented, lotteryVars
  <2> QED
    BY <1>3, <2>1, <2>2, Elsewhere DEF lotteryVars, faultVars
<1> QED
  BY <1>1, <1>2, <1>3, EntryKeeps, CheckoutKeeps, TimeKeeps DEF LotteryNext

\* The invariant holds of every state.
THEOREM Invariance == LotterySpec => []Inv
BY Initially, Step, PTL DEF LotterySpec

\* The keys and the locals of the handlers keep their types.
THEOREM TypeCorrect == LotterySpec => []LotteryTypeOK
<1>1. Inv => LotteryTypeOK
  BY DEF Inv
<1> QED
  BY <1>1, Invariance, PTL

\* However many draws run at once and whatever fails, units are neither
\* oversold nor lost without a failure.
THEOREM EveryUnitAccounted == LotterySpec => []UnitsAccounted
<1>1. Inv => UnitsAccounted
  BY DEF Inv, UnitsAccounted, Accounts, Reserved, InHand, Lost
<1> QED
  BY <1>1, Invariance, PTL

\* A draw that has answered has served the winners it chose, as far as the
\* stock went and commands succeeded.
THEOREM EveryWinnerServed == LotterySpec => []WinnersServed
<1>1. Inv => WinnersServed
  BY DEF Inv, WinnersServed, Serving
<1> QED
  BY <1>1, Invariance, PTL

-----------------------------------------------------------------------------
(* Who the winners are *)

\* What a draw is about to store fits its request, and it serves winners.
Chosen == \A d \in Draws :
    /\ draw[d].pc = "store" => Cardinality(draw[d].todo) <= WinnerCount[d]
    /\ draw[d].pc \in {"serve", "create"} => draw[d].todo \subseteq winners
    /\ draw[d].pc = "create" => draw[d].current \in winners

\* The winners without a token can be counted.
LEMMA UnchosenFinite ==
    ASSUME LotteryTypeOK
    PROVE  IsFiniteSet(winners) /\ IsFiniteSet(ChosenByNone) /\ Cardinality(ChosenByNone) \in Nat
<1>1. winners \in SUBSET Entrants /\ ChosenByNone \in SUBSET Entrants
  BY DEF LotteryTypeOK, ChosenByNone
<1> QED
  BY <1>1, LotteryAssumption, FS_Subset, FS_CardinalityType

\* A step that changes no winner and makes no token.
LEMMA SameWinners ==
    ASSUME Inv, Chosen, WinnersBounded, UNCHANGED winners,
           \A p \in Prizes : token'[p] = "none" <=> token[p] = "none",
           \A p \in Prizes : prize'[p] = "reserved" =>
               prize[p] = "reserved" \/ p[2] \in winners,
           lotteryFaults' \in Int, lotteryFaults <= lotteryFaults'
    PROVE  WinnersBounded'
<1>1. \A d \in Draws : ChosenBy(d)' = ChosenBy(d)
  BY DEF ChosenBy, Prizes
<1>2. ChosenByNone' = ChosenByNone
  BY <1>1 DEF ChosenByNone
<1> QED
  BY <1>1, <1>2, UnchosenFinite DEF WinnersBounded, Inv, LotteryTypeOK

\* The winners that a step adds have tokens, all but as many as it adds faults.
LEMMA MoreWinners ==
    ASSUME Inv, Chosen, WinnersBounded, NEW d \in Draws, draw[d].pc = "store",
           NEW stored \in SUBSET draw[d].todo, NEW given \in SUBSET stored,
           Cardinality(stored \ given) <= lotteryFaults' - lotteryFaults, lotteryFaults' \in Int, UNCHANGED prize,
           winners' = winners \cup stored,
           token' = [p \in Prizes |-> IF p[1] = d /\ p[2] \in given THEN "pending" ELSE token[p]]
    PROVE  WinnersBounded'
<1>1. draw[d].todo \in SUBSET Entrants /\ IsFiniteSet(draw[d].todo) /\ lotteryFaults \in Int
      /\ winners \in SUBSET Entrants /\ WinnerCount[d] \in Nat
  <2>1. draw[d].todo \in SUBSET Entrants /\ lotteryFaults \in Int /\ winners \in SUBSET Entrants
    BY DEF Inv, LotteryTypeOK, Locals
  <2>2. IsFiniteSet(draw[d].todo)
    BY <2>1, LotteryAssumption, FS_Subset
  <2> QED
    BY <2>1, <2>2, LotteryAssumption
<1>2. ChosenBy(d) = {} /\ ChosenBy(d)' = given
  BY <1>1 DEF ChosenBy, Inv, Fresh, Prizes
<1>3. \A e \in Draws \ {d} : ChosenBy(e)' = ChosenBy(e)
  BY DEF ChosenBy, Prizes
<1>4. given \in SUBSET draw[d].todo
  OBVIOUS
<1>5. Cardinality(given) <= WinnerCount[d]
  <2>1. Cardinality(given) <= Cardinality(draw[d].todo) /\ Cardinality(draw[d].todo) <= WinnerCount[d]
    BY <1>1, <1>4, FS_Subset DEF Chosen
  <2>2. Cardinality(given) \in Nat /\ Cardinality(draw[d].todo) \in Nat
    BY <1>1, <1>4, FS_Subset, FS_CardinalityType
  <2> QED
    BY <1>1, <2>1, <2>2
<1>6. Cardinality(ChosenByNone') <= lotteryFaults'
  <2> DEFINE Old == ChosenByNone
             Odd == stored \ given
  <2>1. ChosenByNone' \in SUBSET (Old \cup Odd)
    BY <1>2, <1>3 DEF ChosenByNone
  <2>2. IsFiniteSet(Old) /\ IsFiniteSet(Odd) /\ Cardinality(Old) \in Nat
    BY <1>1, UnchosenFinite, FS_Subset DEF Inv
  <2> DEFINE New == ChosenByNone'
  <2>3. New \in SUBSET (Old \cup Odd)
    BY <2>1
  <2>4. Cardinality(Old) <= lotteryFaults /\ Cardinality(Odd) <= lotteryFaults' - lotteryFaults
    BY DEF WinnersBounded
  <2> HIDE DEF Old, Odd, New
  <2>5. /\ IsFiniteSet(Old \cup Odd)
        /\ Cardinality(Old \cup Odd) = Cardinality(Old) + Cardinality(Odd) - Cardinality(Old \cap Odd)
    BY <2>2, FS_Union
  <2>6. Cardinality(New) <= Cardinality(Old \cup Odd) /\ IsFiniteSet(New)
    BY <2>3, <2>5, FS_Subset
  <2>7. IsFiniteSet(Old \cap Odd)
    BY <2>2, FS_Subset
  <2>8. Cardinality(Odd) \in Nat /\ Cardinality(Old \cap Odd) \in Nat /\ Cardinality(New) \in Nat
    BY <2>2, <2>6, <2>7, FS_CardinalityType
  <2>9. Cardinality(New) <= lotteryFaults'
    BY <1>1, <2>2, <2>4, <2>5, <2>6, <2>8
  <2> QED
    BY <2>9 DEF New
<1>7. \A e \in Draws : ChosenBy(e)' \subseteq winners' /\ Cardinality(ChosenBy(e)') <= WinnerCount[e]
  BY <1>2, <1>3, <1>5 DEF WinnersBounded
<1> QED
  BY <1>6, <1>7 DEF WinnersBounded

\* A draw that moves keeps Chosen when its new locals do, as winners only grow.
LEMMA ChosenMoves ==
    ASSUME Inv, Chosen, winners \subseteq winners', NEW d \in Draws, NEW r \in Locals, Set(d, r),
           r.pc = "store" => Cardinality(r.todo) <= WinnerCount[d],
           r.pc \in {"serve", "create"} => r.todo \subseteq winners',
           r.pc = "create" => r.current \in winners'
    PROVE  Chosen'
<1>1. draw'[d] = r /\ \A e \in Draws \ {d} : draw'[e] = draw[e]
  BY DrawMoves DEF Inv
<1> QED
  BY <1>1 DEF Chosen

\* Every step keeps Chosen and WinnersBounded.
LEMMA WinnersStep == Inv /\ Inv' /\ Chosen /\ WinnersBounded /\ [LotteryNext]_lotteryVars => Chosen' /\ WinnersBounded'
<1> SUFFICES ASSUME Inv, Inv', Chosen, WinnersBounded, [LotteryNext]_lotteryVars PROVE Chosen' /\ WinnersBounded'
  OBVIOUS
<1>0. /\ draw \in [Draws -> Locals] /\ draw' \in [Draws -> Locals] /\ lotteryFaults \in Int /\ lotteryFaults' \in Int
      /\ winners \in SUBSET Entrants /\ entries \in SUBSET Entrants
      /\ token \in [Prizes -> {"none", "pending", "confirmed", "expired"}]
      /\ prize \in [Prizes -> {"none", "reserved"}]
  BY DEF Inv, LotteryTypeOK
<1>1. ASSUME NEW d \in Draws,
             \/ BeginDraw(d) \/ ReadWinners(d) \/ CountEntries(d) \/ EndDraw(d) \/ DrawStops(d)
             \/ ReserveForWinner(d) \/ ReserveFails(d) \/ CreateFails(d)
      PROVE  Chosen' /\ WinnersBounded'
  <2>1. UNCHANGED <<winners, token, prize>> /\ lotteryFaults <= lotteryFaults'
    <3>1. UNCHANGED <<winners, token, prize>>
      BY <1>1 DEF BeginDraw, ReadWinners, CountEntries, EndDraw, DrawStops, ReserveForWinner, ReserveFails,
         CreateFails
    <3>2. lotteryFaults' = lotteryFaults \/ lotteryFaults' = lotteryFaults + 1
      BY <1>1 DEF BeginDraw, ReadWinners, CountEntries, EndDraw, DrawStops, ReserveForWinner, ReserveFails,
         CreateFails, LotteryFault, faultVars
    <3> QED
      BY <1>0, <3>1, <3>2
  <2>2. PICK r \in Locals : /\ Set(d, r) /\ r.pc # "store"
                            /\ r.pc \in {"serve", "create"} => r.todo \subseteq winners
                            /\ r.pc = "create" => r.current \in winners
    <3>1. draw'[d] \in Locals /\ draw[d] \in Locals
      BY <1>0
    <3>2. Set(d, draw'[d])
      BY <1>0, <1>1 DEF BeginDraw, ReadWinners, CountEntries, EndDraw, DrawStops, ReserveForWinner, ReserveFails,
         CreateFails, Set
    <3>3. CASE BeginDraw(d) \/ CountEntries(d) \/ EndDraw(d) \/ DrawStops(d)
      <4>1. draw'[d].pc \in {"members", "count", "noEntries", "pick", "done", "failed"}
        BY <1>0, <3>3 DEF BeginDraw, CountEntries, EndDraw, DrawStops, Set, Locals
      <4> QED
        BY <3>1, <3>2, <4>1
    <3>4. CASE ReadWinners(d)
      <4>1. draw'[d].pc = "serve" /\ draw'[d].todo = winners
        BY <1>0, <3>4 DEF ReadWinners, Set, Locals
      <4> QED
        BY <3>1, <3>2, <4>1
    <3>5. CASE ReserveForWinner(d) \/ ReserveFails(d)
      <4>1. PICK u \in draw[d].todo :
               \/ Set(d, [draw[d] EXCEPT !.pc = "create", !.current = u, !.todo = @ \ {u}])
               \/ Set(d, [draw[d] EXCEPT !.todo = @ \ {u}])
        BY <3>5 DEF ReserveForWinner, ReserveFails
      <4>2. draw[d].pc = "serve"
        BY <3>5 DEF ReserveForWinner, ReserveFails, Drawing
      <4>3. /\ draw'[d].todo = draw[d].todo \ {u}
            /\ \/ draw'[d].pc = "serve"
               \/ draw'[d].pc = "create" /\ draw'[d].current = u
        <5>1. CASE Set(d, [draw[d] EXCEPT !.pc = "create", !.current = u, !.todo = @ \ {u}])
          BY <1>0, <5>1 DEF Set, Locals
        <5>2. CASE Set(d, [draw[d] EXCEPT !.todo = @ \ {u}])
          BY <1>0, <4>2, <5>2 DEF Set, Locals
        <5> QED
          BY <4>1, <5>1, <5>2
      <4> QED
        BY <3>1, <3>2, <4>2, <4>3 DEF Chosen
    <3>6. CASE CreateFails(d)
      <4>1. draw[d].pc = "create" /\ draw'[d].todo = draw[d].todo /\ draw'[d].pc = "serve"
        BY <1>0, <3>6 DEF CreateFails, Drawing, Set, Locals
      <4> QED
        BY <3>1, <3>2, <4>1 DEF Chosen
    <3> QED
      BY <1>1, <3>3, <3>4, <3>5, <3>6
  <2> QED
    BY <1>0, <2>1, <2>2, SameWinners, ChosenMoves
<1>2. ASSUME NEW d \in Draws, PickWinners(d) PROVE Chosen' /\ WinnersBounded'
  <2> DEFINE n == Min({WinnerCount[d], draw[d].count, Cardinality(entries)})
  <2>1. PICK W \in SUBSET entries : /\ Cardinality(W) = n
                                    /\ Set(d, [draw[d] EXCEPT !.pc = "store", !.todo = W])
    BY <1>2 DEF PickWinners, kSubset
  <2>2. draw[d].count \in Int /\ Cardinality(entries) \in Int /\ WinnerCount[d] \in Int
    <3>1. IsFiniteSet(entries) /\ IsFiniteSet(Entrants)
      BY <1>0, LotteryAssumption, FS_Subset
    <3>2. Cardinality(entries) \in Nat /\ Cardinality(Entrants) \in Nat
      BY <3>1, FS_CardinalityType
    <3> QED
      BY <1>0, <3>2, LotteryAssumption DEF Locals
  <2>3. n <= WinnerCount[d]
    <3> DEFINE three == {WinnerCount[d], draw[d].count, Cardinality(entries)}
    <3>1. \E x \in three : \A y \in three : x <= y
      BY <2>2
    <3>2. n \in three /\ \A y \in three : n <= y
      BY <3>1 DEF Min
    <3> QED
      BY <3>2
  <2>4. UNCHANGED <<winners, token, prize, lotteryFaults>>
    BY <1>2 DEF PickWinners, faultVars
  <2> DEFINE r == [draw[d] EXCEPT !.pc = "store", !.todo = W]
  <2>5. r \in Locals /\ r.pc = "store" /\ r.todo = W
    BY <1>0, <2>1 DEF Locals
  <2> HIDE DEF r, n
  <2>6. Set(d, r)
    BY <2>1 DEF r
  <2> QED
    BY <1>0, <2>1, <2>3, <2>4, <2>5, <2>6, SameWinners, ChosenMoves
<1>3. ASSUME NEW d \in Draws, StoreWinners(d) PROVE Chosen' /\ WinnersBounded'
  <2> DEFINE r == [draw[d] EXCEPT !.pc = "serve"]
  <2>1. /\ draw[d].pc = "store" /\ winners' = winners \cup draw[d].todo /\ UNCHANGED <<prize, lotteryFaults>>
        /\ token' = [p \in Prizes |-> IF p[1] = d /\ p[2] \in draw[d].todo THEN "pending" ELSE token[p]]
        /\ Set(d, r)
    BY <1>3 DEF StoreWinners, Drawing, faultVars
  <2>2. r \in Locals /\ r.pc = "serve" /\ r.todo = draw[d].todo
    BY <1>0 DEF Locals
  <2> HIDE DEF r
  <2> DEFINE W == draw[d].todo
  <2>3. W \ W = {} /\ W \in SUBSET W
    OBVIOUS
  <2>4. Cardinality(W \ W) = 0
    BY <2>3, FS_EmptySet
  <2>5. lotteryFaults' = lotteryFaults /\ Cardinality(W \ W) <= lotteryFaults' - lotteryFaults
    BY <1>0, <2>1, <2>4
  <2>6. WinnersBounded'
    BY <1>0, <2>1, <2>3, <2>5, MoreWinners
  <2>7. Chosen'
    BY <1>0, <2>1, <2>2, ChosenMoves
  <2> QED
    BY <2>6, <2>7
<1>4. ASSUME NEW d \in Draws, StoreFails(d) PROVE Chosen' /\ WinnersBounded'
  <2> DEFINE r == [draw[d] EXCEPT !.pc = "failed"]
  <2>1. PICK stored \in SUBSET draw[d].todo : \E given \in SUBSET stored :
          /\ Cardinality(stored \ given) <= 1
          /\ winners' = winners \cup stored
          /\ token' = [p \in Prizes |-> IF p[1] = d /\ p[2] \in given THEN "pending" ELSE token[p]]
    BY <1>4 DEF StoreFails
  <2>2. PICK given \in SUBSET stored :
          /\ Cardinality(stored \ given) <= 1
          /\ winners' = winners \cup stored
          /\ token' = [p \in Prizes |-> IF p[1] = d /\ p[2] \in given THEN "pending" ELSE token[p]]
    BY <2>1
  <2>3. draw[d].pc = "store" /\ lotteryFaults' = lotteryFaults + 1 /\ UNCHANGED prize /\ Set(d, r)
    BY <1>4 DEF StoreFails, Drawing, LotteryFault
  <2>4. r \in Locals /\ r.pc = "failed"
    BY <1>0 DEF Locals
  <2> HIDE DEF r
  <2>5. Cardinality(stored \ given) <= lotteryFaults' - lotteryFaults
    BY <1>0, <2>2, <2>3
  <2>6. WinnersBounded'
    BY <1>0, <2>2, <2>3, <2>5, MoreWinners
  <2>7. Chosen'
    BY <1>0, <2>2, <2>3, <2>4, ChosenMoves
  <2> QED
    BY <2>6, <2>7
<1>5. ASSUME NEW d \in Draws, CreatePrizeReservation(d) PROVE Chosen' /\ WinnersBounded'
  <2> DEFINE r == [draw[d] EXCEPT !.pc = "serve", !.current = NoUser]
  <2>1. /\ draw[d].pc = "create" /\ Set(d, r) /\ UNCHANGED <<winners, token, lotteryFaults>>
        /\ prize' = [prize EXCEPT ![<<d, draw[d].current>>] = "reserved"]
    BY <1>5 DEF CreatePrizeReservation, Drawing, faultVars
  <2>2. r \in Locals /\ r.pc = "serve" /\ r.todo = draw[d].todo
    BY <1>0 DEF Locals
  <2> HIDE DEF r
  <2>3. draw[d].current \in winners /\ draw[d].todo \subseteq winners
    BY <2>1 DEF Chosen
  <2>4. \A p \in Prizes : prize'[p] = "reserved" => prize[p] = "reserved" \/ p[2] \in winners
    BY <1>0, <2>1, <2>3
  <2> QED
    BY <1>0, <2>1, <2>2, <2>3, <2>4, SameWinners, ChosenMoves
<1>6. ASSUME UNCHANGED <<winners, prize, draw>>, lotteryFaults <= lotteryFaults',
             \A p \in Prizes : token'[p] = "none" <=> token[p] = "none"
      PROVE  Chosen' /\ WinnersBounded'
  BY <1>0, <1>6, SameWinners DEF Chosen
<1>7. ASSUME NEW u \in Entrants, CheckDrawn(u) \/ EnterLottery(u) \/ EnterFails(u)
      PROVE  Chosen' /\ WinnersBounded'
  BY <1>0, <1>6, <1>7 DEF CheckDrawn, EnterLottery, EnterFails, LotteryFault, faultVars
<1>8. ASSUME NEW x \in Checkouts, VerifyLotteryToken(x) \/ CheckoutFails(x)
      PROVE  Chosen' /\ WinnersBounded'
  BY <1>0, <1>6, <1>8 DEF VerifyLotteryToken, CheckoutFails, LotteryFault, faultVars
<1>9. ASSUME NEW x \in Checkouts, ConfirmLotteryToken(x) PROVE Chosen' /\ WinnersBounded'
  <2>1. checkout[x].token \in Prizes /\ token[checkout[x].token] # "none"
    BY <1>9 DEF ConfirmLotteryToken, Inv, Presented
  <2>2. token' = [token EXCEPT ![checkout[x].token] = "confirmed"] /\ UNCHANGED <<winners, prize, draw, lotteryFaults>>
    BY <1>9 DEF ConfirmLotteryToken, faultVars
  <2> QED
    BY <1>0, <1>6, <2>1, <2>2
<1>10. ASSUME EntriesExpire \/ \E p \in Prizes : TokenExpires(p) PROVE Chosen' /\ WinnersBounded'
  BY <1>0, <1>6, <1>10 DEF EntriesExpire, TokenExpires, faultVars
<1>11. CASE UNCHANGED lotteryVars
  BY <1>0, <1>6, <1>11 DEF lotteryVars, faultVars
<1> QED
  BY <1>1, <1>2, <1>3, <1>4, <1>5, <1>7, <1>8, <1>9, <1>10, <1>11 DEF LotteryNext, DrawLotteryWinners

\* Chosen and WinnersBounded hold in the initial states.
LEMMA WinnersInitially == LotteryInit => Chosen /\ WinnersBounded
<1> SUFFICES ASSUME LotteryInit PROVE Chosen /\ WinnersBounded
  OBVIOUS
<1>1. \A d \in Draws : ChosenBy(d) = {}
  BY DEF LotteryInit, ChosenBy, Prizes
<1>2. ChosenByNone = {}
  BY DEF LotteryInit, ChosenByNone
<1>3. \A d \in Draws : WinnerCount[d] \in Nat /\ WinnerCount[d] >= 0
  BY LotteryAssumption
<1>4. Chosen
  BY DEF LotteryInit, Chosen
<1>5. Cardinality(ChosenByNone) <= lotteryFaults /\ \A d \in Draws : Cardinality(ChosenBy(d)) <= WinnerCount[d]
  <2>1. Cardinality(ChosenByNone) = 0 /\ lotteryFaults = 0
    BY <1>2, FS_EmptySet DEF LotteryInit
  <2>2. \A d \in Draws : Cardinality(ChosenBy(d)) = 0
    BY <1>1, FS_EmptySet
  <2> QED
    BY <1>3, <2>1, <2>2
<1>6. (\A p \in Prizes : prize[p] # "reserved") /\ \A d \in Draws : ChosenBy(d) \subseteq winners
  BY <1>1 DEF LotteryInit
<1> QED
  BY <1>4, <1>5, <1>6 DEF WinnersBounded

\* However draws overlap, each makes no more winners than its request asked for,
\* none takes the place of another's, and units are reserved for winners only.
THEOREM WinnersAreBounded == LotterySpec => []WinnersBounded
BY WinnersStep, WinnersInitially, Invariance, PTL DEF LotterySpec
=============================================================================
