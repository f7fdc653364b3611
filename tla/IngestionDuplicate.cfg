\* Two tasks deliver the same upload at the same time.
SPECIFICATION Spec
CONSTANTS
    s1 = s1
    empty = empty  small = small  half = half  big = big  mixed = mixed
    fileA = fileA  fileB = fileB
    finance = finance  legal = legal
    i1 = i1  i2 = i2  w1 = w1  w2 = w2
    up1 = up1  up2 = up2  up3 = up3  del1 = del1
    None = None
    Sources = {s1}
    Contents = {empty, small, half, big, mixed}
    EmptyFile = empty
    Filenames = {fileA}
    Departments = {finance, legal}
    Levels = {1, 2, 3}
    Instances = {i1}
    Workers = {w1, w2}
    IngestTasks = {up1, up3}
    DeleteTasks = {}
    SourceOf <- MCSourceOf
    ContentOf <- MCContentOf
    FileOf <- MCSameName
    RequestDept <- MCNoDept
    RequestLevel <- MCRequestLevel
    FirstAccess <- MCFirstAccess
    LaterAccess <- MCNoLaterAccess
    ChunkCount <- MCChunkCount
    Overwritten <- MCOverwritten
    Blends <- MCBlends
    Host <- MCOneHost
    MaxAttempts = 2
    MaxCrashes = 0
    Faults = {}
INVARIANTS
    NoDuplicateDocuments
CHECK_DEADLOCK FALSE
