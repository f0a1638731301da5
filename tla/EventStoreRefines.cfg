SPECIFICATION ScenarioSpec
CONSTANTS
    m1 = m1
    Users = {1, 2}
    Markets = {m1}
    Outcomes = {0, 1}
    I64Max = 9
    Tasks = {t1, t2}
    GrantWorker = grants
    Requests <- AllRequests
    Evidence <- MemberTwo
    Policies <- AllPolicies
    Times = {0, 1}
    MaxTicks = 1
    MaxFaults = 1
PROPERTIES
    ImplementsEconomy
SYMMETRY TaskSymmetry
CHECK_DEADLOCK FALSE
