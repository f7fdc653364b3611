\* Three requests at a time in one conversation: the database fails, clients
\* hang up.  Under fair scheduling all of them end.
SPECIFICATION FairSpec
CONSTANTS
    c1 = c1  u1 = u1
    r1 = r1  r2 = r2  r3 = r3  r4 = r4
    None = None
    Conversations = {c1}
    Users = {u1}
    Owner <- MCOwner
    Requests = {r1, r2, r3}
    Sender <- MCSender
    Target <- MCTarget
    Tokens <- MCTokens
    HistoryLimit = 2
    MaxOpen = 3
    HistoryBudget = 6
    MinVerbatimTurns = 2
    SummaryReserve = 1
    VerbatimFloor = 2
    Faults = {"database", "client"}
INVARIANTS
    IInv
    TurnsAreWhole
    TurnsAreAudited
    StoredWasAnswered
    HistoryIsWholeTurns
PROPERTIES
    RequestsEnd
CHECK_DEADLOCK FALSE
