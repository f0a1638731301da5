SPECIFICATION MCSpec
CONSTANTS
    Users = {1, 2, 3}
    Markets = {m1}
    Outcomes = {0, 1, 2}
    I64Max = 12
    Actors <- SmallGuild
    Evidence <- SomeEvidence
    Policies <- OnePolicy
    Times = {0, 2, 4}
    Closings = {0, 2, 4}
    Stakings = {0, 4}
    OptionCounts = {1, 2}
INVARIANTS
    PointsConserved
    GrantsMatchSchedule
    OpenMarketsSettle
    PayoutsAreFairest
PROPERTIES
    GrantsCatchUp
CHECK_DEADLOCK FALSE
