CONSTANTS
    Words = {"a", "b", "c", "f"}
    MAXARGS = 3
    NPROC = 7
    NOFILE = 6
    GrammarWords = {"a"}
    MaxTokens = 4
    Loads <- SmallLoads
SPECIFICATION FairSpec
CHECK_DEADLOCK FALSE
INVARIANTS ParsesTheGrammar FdsAsWritten PromptWaits
PROPERTY PromptReturns
