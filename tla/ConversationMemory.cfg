\* Four requests, one after the other, whose history outgrows the budget and the window.
SPECIFICATION Spec
CONSTANTS
    c1 = c1  u1 = u1
    r1 = r1  r2 = r2  r3 = r3  r4 = r4
    None = None
    Conversations = {c1}
    Users = {u1}
    Owner <- MCOwner
    Requests = {r1, r2, r3, r4}
    Sender <- MCSender
    Target <- MCTarget
    Tokens <- MCTokens
    HistoryLimit = 6
    MaxOpen = 1
    HistoryBudget = 8
    MinVerbatimTurns = 2
    SummaryReserve = 1
    VerbatimFloor = 2
    Faults = {"provider"}
INVARIANTS
    PromptCoversHistory
    PromptFitsBudget
CHECK_DEADLOCK FALSE
