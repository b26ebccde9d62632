SPECIFICATION PlayerFairSpec
CONSTANTS
  t1 = t1
  t2 = t2
  album = album
  junk = junk
  Titles <- MCTitles
  Folders <- MCFolders
  OtherIds <- MCOtherIds
  Contents <- MCContents
  Requests <- TwoTitles
  Counts <- MCCounts
  Writers = {w1}
  Readers = {}
  MaxOps = 2
  FailingSteps <- NoSteps
  Crashes = FALSE
  Clients = {c1}
  Unopened = {}
  FailingQueries <- NoQueries
  Commands <- NoCommands
  MaxCommands = 0
PROPERTY NeverStranded
CHECK_DEADLOCK FALSE
