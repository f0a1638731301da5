CONSTANTS
    BoardLimit = 3
    HandLimit = 4
    DeckLimit = 4
    SecretLimit = 1
    MaximumMana = 2
    Budget = 60
    StartingHealth = 3
    NativeEffects <- NoNatives
    Games <- MCGames
    MaxActions = 4
SPECIFICATION Spec
INVARIANTS
    CheckpointRestores
    ZonesConsistent
    NothingLeftOver
PROPERTIES
    ResolutionEnds
CHECK_DEADLOCK FALSE
