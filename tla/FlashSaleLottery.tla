-------------------------- MODULE FlashSaleLottery --------------------------
(***************************************************************************)
(* The lottery of services/flash-sale, for one product: users enter, an    *)
(* admin draws winners and reserves a unit for each, winners check out     *)
(* with a token.  Every handler is a sequence of Redis commands between    *)
(* which the others run; a pipeline is one step, because the last command  *)
(* of the draw's pipeline is the one that makes the draw visible.  Every   *)
(* unit is taken by luaBucketDecr with quantity one, which finds a bucket  *)
(* exactly when total is positive (CountersAgree of FlashSaleCheckout).    *)
(***************************************************************************)
EXTENDS Integers, FiniteSets, FiniteSetsExt

CONSTANTS
    Entrants,         \* the users
    Draws,            \* POST /flash-sale/lottery/draw requests
    Checkouts,        \* POST /flash-sale/lottery/checkout requests
    WinnerCount,      \* WinnerCount[d]: winner_count of draw request d
    PrizeStock,       \* what flash:total is before the first draw
    Expiry,           \* whether keys with a time to live may expire
    MaxLotteryFaults, \* bound: commands that fail and processes that die
    NoUser

ASSUME LotteryAssumption ==
    /\ IsFiniteSet(Entrants) /\ IsFiniteSet(Draws) /\ IsFiniteSet(Checkouts)
    /\ WinnerCount \in [Draws -> Nat \ {0}]    \* binding:"min=1"
    /\ PrizeStock \in Nat
    /\ Expiry \in BOOLEAN /\ MaxLotteryFaults \in Nat
    /\ NoUser \notin Entrants

\* The token that draw d makes for winner u, and the reservation it makes.
Prizes == Draws \X Entrants

VARIABLES
    entries,          \* flash:lottery:entries
    winners,          \* flash:lottery:winners
    drawn,            \* flash:lottery:drawn exists
    token,            \* flash:lottery:token: its status, "none" before, "expired" after
    unitsLeft,        \* flash:total
    prize,            \* the reservations of the draw, by draw call and winner
    entering,         \* entering[u]: the enter request of u
    draw,             \* draw[d]: the next command of a draw and its locals
    checkout,         \* checkout[x]: the next command of a checkout and its token
    lotteryFaults,
    mishap            \* history: what a failure did to the unit of a winner

faultVars == <<lotteryFaults, mishap>>
lotteryVars == <<entries, winners, drawn, token, unitsLeft, prize, entering, draw, checkout, faultVars>>

LotteryInit ==
    /\ entries = {} /\ winners = {} /\ drawn = FALSE
    /\ token = [p \in Prizes |-> "none"]
    /\ unitsLeft = PrizeStock
    /\ prize = [p \in Prizes |-> "none"]
    /\ entering = [u \in Entrants |-> "checkDrawn"]
    /\ draw = [d \in Draws |->
          [pc |-> "checkDrawn", count |-> 0, todo |-> {}, current |-> NoUser]]
    /\ checkout = [x \in Checkouts |-> [pc |-> "verify", token |-> NoUser]]
    /\ lotteryFaults = 0 /\ mishap = [p \in Prizes |-> "none"]

-----------------------------------------------------------------------------
(* POST /flash-sale/lottery/enter: the drawn flag is read before the entry is *)
(* added; a refusal by the rate limiter changes nothing.                      *)

Enter(u, from, to) == entering[u] = from /\ entering' = [entering EXCEPT ![u] = to]

CheckDrawn(u) ==
    /\ Enter(u, "checkDrawn", IF drawn THEN "tooLate" ELSE "add")
    /\ UNCHANGED <<entries, winners, drawn, token, unitsLeft, prize, draw, checkout, faultVars>>

\* Mutant: an entry without a user.
EnterLottery_Anonymous(u) ==
    /\ Enter(u, "add", "entered")
    /\ entries' = entries \cup {NoUser}
    /\ UNCHANGED <<winners, drawn, token, unitsLeft, prize, draw, checkout, faultVars>>

EnterLottery(u) ==
    /\ Enter(u, "add", "entered")
    /\ entries' = entries \cup {u}
    /\ UNCHANGED <<winners, drawn, token, unitsLeft, prize, draw, checkout, faultVars>>

-----------------------------------------------------------------------------
(* POST /flash-sale/lottery/draw *)

Drawing(d, from) == draw[d].pc = from
Set(d, r) == draw' = [draw EXCEPT ![d] = r]

\* A draw that finds the flag set serves the stored winners again.
BeginDraw(d) ==
    /\ Drawing(d, "checkDrawn")
    /\ Set(d, IF drawn THEN [draw[d] EXCEPT !.pc = "members"]
              ELSE [draw[d] EXCEPT !.pc = "count"])
    /\ UNCHANGED <<entries, winners, drawn, token, unitsLeft, prize, entering, checkout, faultVars>>

ReadWinners(d) ==
    /\ Drawing(d, "members")
    /\ Set(d, [draw[d] EXCEPT !.pc = "serve", !.todo = winners])
    /\ UNCHANGED <<entries, winners, drawn, token, unitsLeft, prize, entering, checkout, faultVars>>

CountEntries(d) ==
    /\ Drawing(d, "count")
    /\ Set(d, IF entries = {} THEN [draw[d] EXCEPT !.pc = "noEntries"]
              ELSE [draw[d] EXCEPT !.pc = "pick", !.count = Cardinality(entries)])
    /\ UNCHANGED <<entries, winners, drawn, token, unitsLeft, prize, entering, checkout, faultVars>>

\* SRANDMEMBER with a positive count: that many distinct members, or all.
PickWinners(d) ==
    /\ Drawing(d, "pick")
    /\ LET n == Min({WinnerCount[d], draw[d].count, Cardinality(entries)})
       IN  \E W \in kSubset(n, entries) :
              Set(d, [draw[d] EXCEPT !.pc = "store", !.todo = W])
    /\ UNCHANGED <<entries, winners, drawn, token, unitsLeft, prize, entering, checkout, faultVars>>

\* Mutant: the winners replace those of other draws.
StoreWinners_Overwrites(d) ==
    /\ Drawing(d, "store")
    /\ winners' = draw[d].todo
    /\ token' = [p \in Prizes |-> IF p[1] = d /\ p[2] \in draw[d].todo THEN "pending" ELSE token[p]]
    /\ drawn' = TRUE
    /\ Set(d, [draw[d] EXCEPT !.pc = "serve"])
    /\ UNCHANGED <<entries, unitsLeft, prize, entering, checkout, faultVars>>

\* Winners, tokens and the flag, in one pipeline.
StoreWinners(d) ==
    /\ Drawing(d, "store")
    /\ winners' = winners \cup draw[d].todo
    /\ token' = [p \in Prizes |-> IF p[1] = d /\ p[2] \in draw[d].todo THEN "pending" ELSE token[p]]
    /\ drawn' = TRUE
    /\ Set(d, [draw[d] EXCEPT !.pc = "serve"])
    /\ UNCHANGED <<entries, unitsLeft, prize, entering, checkout, faultVars>>

\* Mutant: the stock script does not look at the total.
ReserveForWinner_Unchecked(d) ==
    /\ Drawing(d, "serve")
    /\ \E u \in draw[d].todo :
          /\ unitsLeft' = unitsLeft - 1
          /\ Set(d, [draw[d] EXCEPT !.pc = "create", !.current = u, !.todo = @ \ {u}])
    /\ UNCHANGED <<entries, winners, drawn, token, prize, entering, checkout, faultVars>>

\* Mutant: the loop ends after its first winner.
ReserveForWinner_Break(d) ==
    /\ Drawing(d, "serve")
    /\ \E u \in draw[d].todo :
          /\ unitsLeft >= 1 /\ unitsLeft' = unitsLeft - 1
          /\ Set(d, [draw[d] EXCEPT !.pc = "create", !.current = u, !.todo = {}])
    /\ UNCHANGED <<entries, winners, drawn, token, prize, entering, checkout, faultVars>>

\* The loop over the winners: without stock the winner is skipped.
ReserveForWinner(d) ==
    /\ Drawing(d, "serve")
    /\ \E u \in draw[d].todo :
          \/ /\ unitsLeft >= 1 /\ unitsLeft' = unitsLeft - 1
             /\ Set(d, [draw[d] EXCEPT !.pc = "create", !.current = u, !.todo = @ \ {u}])
          \/ /\ unitsLeft < 1 /\ UNCHANGED unitsLeft
             /\ Set(d, [draw[d] EXCEPT !.todo = @ \ {u}])
    /\ UNCHANGED <<entries, winners, drawn, token, prize, entering, checkout, faultVars>>

\* The reservation; GetLotteryResult, which follows, only reads what the answer
\* reports.
CreatePrizeReservation(d) ==
    /\ Drawing(d, "create")
    /\ prize' = [prize EXCEPT ![<<d, draw[d].current>>] = "reserved"]
    /\ Set(d, [draw[d] EXCEPT !.pc = "serve", !.current = NoUser])
    /\ UNCHANGED <<entries, winners, drawn, token, unitsLeft, entering, checkout, faultVars>>

EndDraw(d) ==
    /\ Drawing(d, "serve") /\ draw[d].todo = {}
    /\ Set(d, [draw[d] EXCEPT !.pc = "done"])
    /\ UNCHANGED <<entries, winners, drawn, token, unitsLeft, prize, entering, checkout, faultVars>>

DrawLotteryWinners(d) ==
    \/ BeginDraw(d) \/ ReadWinners(d) \/ CountEntries(d) \/ PickWinners(d) \/ StoreWinners(d)
    \/ ReserveForWinner(d) \/ CreatePrizeReservation(d) \/ EndDraw(d)

-----------------------------------------------------------------------------
(* POST /flash-sale/lottery/checkout: verify, then confirm *)

\* The client presents a token that some draw made.
VerifyLotteryToken(x) ==
    /\ checkout[x].pc = "verify"
    /\ \E p \in Prizes :
          /\ token[p] # "none"
          /\ checkout' = [checkout EXCEPT ![x] =
                [pc |-> IF token[p] = "pending" THEN "confirm" ELSE "refused", token |-> p]]
    /\ UNCHANGED <<entries, winners, drawn, token, unitsLeft, prize, entering, draw, faultVars>>

ConfirmLotteryToken(x) ==
    /\ checkout[x].pc = "confirm"
    /\ checkout' = [checkout EXCEPT ![x].pc = "completed"]
    /\ token' = [token EXCEPT ![checkout[x].token] = "confirmed"]
    /\ UNCHANGED <<entries, winners, drawn, unitsLeft, prize, entering, draw, faultVars>>

-----------------------------------------------------------------------------
(* Entries live two hours after the last entry, tokens ten minutes. *)

EntriesExpire ==
    /\ Expiry /\ entries # {}
    /\ entries' = {}
    /\ UNCHANGED <<winners, drawn, token, unitsLeft, prize, entering, draw, checkout, faultVars>>

TokenExpires(p) ==
    /\ Expiry /\ token[p] \in {"pending", "confirmed"}
    /\ token' = [token EXCEPT ![p] = "expired"]
    /\ UNCHANGED <<entries, winners, drawn, unitsLeft, prize, entering, draw, checkout, faultVars>>

-----------------------------------------------------------------------------
(* Commands that fail, with or without their effect, and processes that die.  *)

LotteryFault == lotteryFaults < MaxLotteryFaults /\ lotteryFaults' = lotteryFaults + 1

EnterFails(u) ==
    /\ LotteryFault
    /\ \/ Enter(u, "checkDrawn", "failed") /\ UNCHANGED entries
       \/ Enter(u, "add", "failed") /\ entries' \in {entries, entries \cup {u}}
    /\ UNCHANGED <<winners, drawn, token, unitsLeft, prize, draw, checkout, mishap>>

\* A command before the pipeline fails, or the process dies anywhere: a unit in its
\* hand is in no reservation.
DrawStops(d) ==
    /\ LotteryFault /\ draw[d].pc \notin {"noEntries", "done", "failed"}
    /\ Set(d, [draw[d] EXCEPT !.pc = "failed"])
    /\ mishap' = IF Drawing(d, "create") THEN [mishap EXCEPT ![<<d, draw[d].current>>] = "lost"] ELSE mishap
    /\ UNCHANGED <<entries, winners, drawn, token, unitsLeft, prize, entering, checkout>>

\* The pipeline breaks off after some of its commands: the last winner may lack its
\* token, and the flag is set only after all of them.
StoreFails(d) ==
    /\ LotteryFault /\ Drawing(d, "store")
    /\ \E stored \in SUBSET draw[d].todo : \E given \in SUBSET stored :
          /\ Cardinality(stored \ given) <= 1
          /\ winners' = winners \cup stored
          /\ token' = [p \in Prizes |-> IF p[1] = d /\ p[2] \in given THEN "pending" ELSE token[p]]
          /\ drawn' \in IF given = draw[d].todo THEN {drawn, TRUE} ELSE {drawn}
    /\ Set(d, [draw[d] EXCEPT !.pc = "failed"])
    /\ UNCHANGED <<entries, unitsLeft, prize, entering, checkout, mishap>>

\* An error of the stock script skips the winner, also when a unit was taken.
ReserveFails(d) ==
    /\ LotteryFault /\ Drawing(d, "serve")
    /\ \E u \in draw[d].todo :
          /\ \/ unitsLeft' = unitsLeft /\ mishap' = [mishap EXCEPT ![<<d, u>>] = "skipped"]
             \/ unitsLeft >= 1 /\ unitsLeft' = unitsLeft - 1 /\ mishap' = [mishap EXCEPT ![<<d, u>>] = "lost"]
          /\ Set(d, [draw[d] EXCEPT !.todo = @ \ {u}])
    /\ UNCHANGED <<entries, winners, drawn, token, prize, entering, checkout>>

\* The error of CreatePrizeReservation is not looked at.
CreateFails(d) ==
    /\ LotteryFault /\ Drawing(d, "create")
    /\ mishap' = [mishap EXCEPT ![<<d, draw[d].current>>] = "lost"]
    /\ Set(d, [draw[d] EXCEPT !.pc = "serve", !.current = NoUser])
    /\ UNCHANGED <<entries, winners, drawn, token, unitsLeft, prize, entering, checkout>>

\* A token that cannot be read is refused; the error of the confirmation is not looked at.
CheckoutFails(x) ==
    /\ LotteryFault
    /\ \/ /\ checkout[x].pc = "verify"
          /\ \E p \in Prizes :
                /\ token[p] # "none"
                /\ checkout' = [checkout EXCEPT ![x] = [pc |-> "refused", token |-> p]]
       \/ checkout[x].pc = "confirm" /\ checkout' = [checkout EXCEPT ![x].pc = "completed"]
    /\ UNCHANGED <<entries, winners, drawn, token, unitsLeft, prize, entering, draw, mishap>>

LotteryNext ==
    \/ \E u \in Entrants : CheckDrawn(u) \/ EnterLottery(u)
    \/ \E d \in Draws : DrawLotteryWinners(d)
    \/ \E x \in Checkouts : VerifyLotteryToken(x) \/ ConfirmLotteryToken(x)
    \/ EntriesExpire
    \/ \E u \in Entrants : EnterFails(u)
    \/ \E d \in Draws : DrawStops(d) \/ StoreFails(d) \/ ReserveFails(d) \/ CreateFails(d)
    \/ \E x \in Checkouts : CheckoutFails(x)
    \/ \E p \in Prizes : TokenExpires(p)

LotterySpec == LotteryInit /\ [][LotteryNext]_lotteryVars

-----------------------------------------------------------------------------
(* Properties *)

Locals == [pc : {"checkDrawn", "members", "count", "noEntries", "pick", "store",
                 "serve", "create", "done", "failed"},
           count : 0..Cardinality(Entrants), todo : SUBSET Entrants,
           current : Entrants \cup {NoUser}]

LotteryTypeOK ==
    /\ entries \subseteq Entrants /\ winners \subseteq Entrants /\ drawn \in BOOLEAN
    /\ token \in [Prizes -> {"none", "pending", "confirmed", "expired"}]
    /\ unitsLeft \in Int
    /\ prize \in [Prizes -> {"none", "reserved"}]
    /\ entering \in [Entrants -> {"checkDrawn", "add", "entered", "tooLate", "failed"}]
    /\ draw \in [Draws -> Locals]
    /\ checkout \in [Checkouts ->
          [pc : {"verify", "confirm", "completed", "refused"}, token : Prizes \cup {NoUser}]]
    /\ lotteryFaults \in 0 .. MaxLotteryFaults /\ mishap \in [Prizes -> {"none", "lost", "skipped"}]

\* However many draws run at once, the units they took are reserved or in the
\* hand of a draw about to reserve them, or a failed command or a dead process took them
\* without a reservation; and they never exceed the stock
\* (service.go:201-210).
UnitsAccounted ==
    /\ unitsLeft >= 0
    /\ unitsLeft + Cardinality({p \in Prizes : prize[p] = "reserved"})
             + Cardinality({d \in Draws : draw[d].pc = "create"})
             + Cardinality({p \in Prizes : mishap[p] = "lost"}) = PrizeStock

ChosenBy(d) == {u \in Entrants : token[<<d, u>>] # "none"}

\* Two draws may both find the flag unset and both choose (store.go:324-336,
\* service.go:201-210).  Each still makes at most as many winners as its request
\* asked for, none of them is lost to the other draw, nobody is a winner whom no
\* draw gave a token, one person for each failure excepted, and units are
\* reserved for winners only, whichever draw reserves them.
ChosenByNone == winners \ UNION {ChosenBy(d) : d \in Draws}
WinnersBounded ==
    /\ \A d \in Draws : ChosenBy(d) \subseteq winners /\ Cardinality(ChosenBy(d)) <= WinnerCount[d]
    /\ Cardinality(ChosenByNone) <= lotteryFaults
    /\ \A p \in Prizes : prize[p] = "reserved" => p[2] \in winners

\* A draw that has answered has reserved a unit for every winner it chose, or
\* the stock has run out, or a command failed for that very winner: the loop skips a
\* winner, it does not stop (service.go:201-210).
WinnersServed == \A d \in Draws : draw[d].pc = "done" =>
    \A u \in ChosenBy(d) : prize[<<d, u>>] = "reserved" \/ mishap[<<d, u>>] # "none" \/ unitsLeft = 0

-----------------------------------------------------------------------------
(* What the documentation says and the code does not do *)

\* store.go:321-322 says that a second draw is a no-op: no winner is given a
\* second unit.
DrawIdempotent == \A u \in Entrants :
    Cardinality({d \in Draws : prize[<<d, u>>] = "reserved"}) <= 1
=============================================================================
