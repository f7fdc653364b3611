\* The same questions and chunks: is every title of the prompt free of personal data?
SPECIFICATION Spec
CONSTANTS
    None = None
    Recognizers <- MCRecognizers
    Patterns <- MCPatterns
    Matches <- MCMatches
    Queries <- MCQueries
    SelfContained <- MCSelfContained
    Histories <- MCHistories
    Rewrites <- MCRewrites
    Chunks <- MCChunks
    Threshold = 30
    TopN = 2
    Tokens <- MCTokens
    Refusal <- MCRefusal
    MaxAttempts = 5
    MaxTokens = 1
INVARIANTS
    TitlesAreRedacted
CHECK_DEADLOCK FALSE
