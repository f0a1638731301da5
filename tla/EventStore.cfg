SPECIFICATION Spec
CONSTANTS
    m1 = m1
    Users = {1, 2}
    Markets = {m1}
    Outcomes = {0, 1}
    I64Max = 9
    Tasks = {t1, t2}
    GrantWorker = grants
    Requests <- MixedRequests
    Evidence = {}
    Policies <- TwoPoints
    Times = {0, 1}
    MaxTicks = 0
    MaxFaults = 1
INVARIANTS
    WritersNeverCollide
    ReadYourWrites
SYMMETRY TaskSymmetry
CHECK_DEADLOCK FALSE
