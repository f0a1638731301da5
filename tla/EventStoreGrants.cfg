SPECIFICATION FairSpec
CONSTANTS
    m1 = m1
    Users = {1}
    Markets = {m1}
    Outcomes = {0, 1}
    I64Max = 9
    Tasks = {t1}
    GrantWorker = grants
    Requests <- JoinRequests
    Evidence = {}
    Policies <- OnePoint
    Times = {0, 1, 2}
    MaxTicks = 3
    MaxFaults = 1
PROPERTIES
    GrantsArrive
    RequestsAnswered
CHECK_DEADLOCK FALSE
