SPECIFICATION FairSpec
CONSTANTS
  first = first
  second = second
  Entries <- MCEntries
  First = first
  MaxInFlight = 2
  MaxEvents = 3
  MaxFailures = 1
INVARIANTS TypeOK ShowsLatest
PROPERTIES ListSettles CurrentSettles
CHECK_DEADLOCK FALSE
