SPECIFICATION FairSpec
CONSTANTS
  Readers <- MCReaders
  Works <- MCWorks
  Found = {"w4"}
  Books <- MCBooks
  Slots <- MCSlots
  Starts <- MCStarts
  StartBooks <- MCStartBooks
  MaxActions = 2
  MaxRequests = 2
  MaxDirect = 1
  MaxFaults = 1
INVARIANTS RankingFollowsAnswers ActionsDecidedOnce RepliesStayTrue
PROPERTY RequestsEnd
CHECK_DEADLOCK FALSE
