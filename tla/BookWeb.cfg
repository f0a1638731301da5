SPECIFICATION WebSpec
CONSTANTS
    \* Two readers at one browser, three forms, two of them sent, one fault.
    Readers = {"a", "b"}
    Texts = {"x"}
    MaxPages = 3
    MaxLogins = 2
    MaxEdits = 2
    MaxTrouble = 1
    \* A reader is refused by the gate, by the limit or by neither, and a second
    \* work evicts the first from the cache.
    Works = {"v", "w"}
    Fields = {"year"}
    InFlight = {1, 2}
    GateInterval = 1
    Window = 2
    ReaderLimit = 1
    FreshFor = 1
    CacheLimit = 1
    LastTime = 3
    MaxRequests = 3
    MaxOutages = 1
    \* The queue fills up, and stderr fails for a record or for a summary.
    Capacity = 2
    MaxRecords = 5
    MaxFailures = 1
INVARIANTS
    ToldStaysTrue SavesAreSerial DraftsStayPrivate AdmissionsWithinLimits
    RecordsAccountedFor
PROPERTY MetadataSurvives
CHECK_DEADLOCK FALSE
