SPECIFICATION PlayerSpec
CONSTANTS
  t1 = t1
  t2 = t2
  album = album
  junk = junk
  Titles <- MCTitles
  Folders <- MCFolders
  OtherIds <- MCOtherIds
  Contents <- MCContents
  Requests <- TwoTitles
  Counts <- MCCounts
  Writers = {w1}
  Readers = {}
  MaxOps = 1
  FailingSteps <- NoSteps
  Crashes = FALSE
  Clients = {c1}
  Unopened = {}
  FailingQueries <- RowQuery
  Commands <- AllCommands
  MaxCommands = 2
INVARIANTS PlayerTypeOK SignalKept StopHolds TornIsRepeated
PROPERTIES PlaysOn
CHECK_DEADLOCK FALSE
