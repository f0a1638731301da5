SPECIFICATION Spec
CONSTANTS
    Users = {1, 2, 3}
    Markets = {1, 2, 3}
    Outcomes = {0, 1}
    I64Max = 20
    PageSize = 1
    Moderators = {2}
    Openings <- StartingCommands
    Commands <- OtherCommands
    Guilds <- StartingGuilds
    Amounts = {1}
    Evidence <- MemberLookups
    Presses <- PressedOperations
    MaxInteractions <- Limits
    MaxTasks = 2
    MaxTrouble <- Troubles
    LastTime = 1
INVARIANTS
    StakeTakenOnce
    NoEffectUnacknowledged
    PickersReachEverything
PROPERTIES
    RecordedIsNeverRejected
CHECK_DEADLOCK FALSE
