\* Every file of up to four of nine lines and every table of six rows, as text
\* and as markdown.
SPECIFICATION Spec
CONSTANTS
    Files <- MCFiles
    MaxLines = 4
    MaxRows = 6
    Formats = {"text", "markdown"}
    TargetSize = 8
    Overlap = 2
    MinSize = 5
    MaxSize = 14
INVARIANTS
    TextIsCovered
    ChunksAdvance
    OnlyIndivisibleExceeds
    TablesAreWhole
CHECK_DEADLOCK FALSE
