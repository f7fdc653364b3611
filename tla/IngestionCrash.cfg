\* The same upload delivered by two tasks to two instances, and a delete: a
\* crash, lost answers and database failures.
SPECIFICATION Spec
CONSTANTS
    s1 = s1
    empty = empty  small = small  half = half  big = big  mixed = mixed
    fileA = fileA  fileB = fileB
    finance = finance  legal = legal
    i1 = i1  i2 = i2  w1 = w1  w2 = w2
    up1 = up1  up2 = up2  up3 = up3  del1 = del1
    None = None
    Sources = {s1}
    Contents = {empty, small, half, big, mixed}
    EmptyFile = empty
    Filenames = {fileA}
    Departments = {finance, legal}
    Levels = {1, 2, 3}
    Instances = {i1, i2}
    Workers = {w1, w2}
    IngestTasks = {up1, up3}
    DeleteTasks = {del1}
    SourceOf <- MCSourceOf
    ContentOf <- MCContentOf
    FileOf <- MCSameName
    RequestDept <- MCNoDept
    RequestLevel <- MCRequestLevel
    FirstAccess <- MCFirstAccess
    LaterAccess <- MCNoLaterAccess
    ChunkCount <- MCChunkCount
    Overwritten <- MCOverwritten
    Blends <- MCBlends
    Host <- MCTwoHosts
    MaxAttempts = 2
    MaxCrashes = 1
    Faults = {"crash", "network", "database"}
INVARIANTS
    AckedIngestIsStored
    AckedDeleteIsPurged
    NoOrphans
    ReadyHasDocument
    ProcessingHasOwner
PROPERTIES
    ImplementsIndex
    OnlyAuditedDeletion
    RepeatsOverlap
    DeletedCountIsSound
CHECK_DEADLOCK FALSE
