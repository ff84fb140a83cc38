SPECIFICATION LotterySpec
CONSTANTS
    d1 = d1  d2 = d2  e1 = e1  e2 = e2
    NoUser = NoUser
    Entrants = {e1, e2}
    Draws = {d1, d2}
    Checkouts = {}
    WinnerCount <- OneAndTwo
    PrizeStock = 3
    MaxLotteryFaults = 0
    Expiry = FALSE
CHECK_DEADLOCK FALSE
INVARIANT DrawIdempotent
