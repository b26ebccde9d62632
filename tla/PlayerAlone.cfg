SPECIFICATION PlayerFairSpec
CONSTANTS
  t1 = t1
  t2 = t2
  album = album
  junk = junk
  Titles <- MCTitles
  Folders <- MCFolders
  OtherIds <- MCOtherIds
  Contents <- MCContents
  Requests <- TwoTitles
  Counts <- MCCounts
  Writers = {w1}
  Readers = {}
  MaxOps = 3
  FailingSteps <- NoSteps
  Crashes = FALSE
  Clients = {c1}
  Unopened = {t2}
  FailingQueries <- AllQueries
  Commands <- NoCommands
  MaxCommands = 0
PROPERTIES PlaysOn PlaysThrough
CHECK_DEADLOCK FALSE
