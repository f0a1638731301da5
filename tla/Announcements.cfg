SPECIFICATION MCSpec
CONSTANTS
    Guilds = {1, 2}
    Channels = {7, 8}
    Times = {0, 5}
    BatchLimit = 1
    MaxRevision = 3
    MaxVersion = 2
    MaxFaults = 2
    MaxSetbacks = 1
INVARIANTS
    AnnouncedAsRecorded
    FormerSettingsAreGone
PROPERTIES
    EventuallyAnnounced
CHECK_DEADLOCK FALSE
