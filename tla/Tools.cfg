CONSTANTS
    Plan <- Tickets  Existing = 1  Children = {0, 2}  MaxChildren = 3
    Triage = {"ready", "wontfix"}  MaxRetries = 1  MaxEdits = 1  MaxTrouble = 2
    Timeout = 1  Scenarios <- Commands  LastTime = 2  MaxComments = 2
    Heads = {"h1", "h2"}  Paths <- Files  Documentation = {"g"}  Base <- Started
    Tree <- TreeOf  Combined = "combined"  Builds <- Published  Demanded <- Extras
    Inputs <- Passed  MaxMoves = 3  MaxRuns = 2
SPECIFICATION Spec
INVARIANTS NoUnauthorizedDuplicates RequestsSpaced MergedIsReviewed VerdictIsRight
PROPERTIES OutcomeIsHonest WakesTellTransitions
CHECK_DEADLOCK FALSE
