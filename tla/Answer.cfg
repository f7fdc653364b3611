\* Every engine, two queries with and without a history, three chunks of which two are
\* shown, and streams of up to three tokens.
SPECIFICATION FairSpec
CONSTANTS
    None = None
    Recognizers <- MCRecognizers
    Patterns <- MCPatterns
    Matches <- MCMatches
    Queries <- MCQueries
    SelfContained <- MCSelfContained
    Histories <- MCHistories
    Rewrites <- MCRewrites
    Chunks <- MCChunks
    Threshold = 30
    TopN = 2
    Tokens <- MCTokens
    Refusal <- MCRefusal
    MaxAttempts = 5
    MaxTokens = 3
INVARIANTS
    PromptIsRedacted
    UnsharedIsRestored
    ShownIsStored
    CitationsAreSources
PROPERTIES
    AnswerEnds
CHECK_DEADLOCK FALSE
