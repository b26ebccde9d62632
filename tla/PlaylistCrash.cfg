SPECIFICATION FairSpec
CONSTANTS
  t1 = t1
  t2 = t2
  album = album
  junk = junk
  Titles <- MCTitles
  Folders <- MCFolders
  OtherIds <- MCOtherIds
  Contents <- MCContents
  Requests <- MCRequests
  Counts <- MCCounts
  Writers = {w1}
  Readers = {r1}
  MaxOps = 3
  FailingSteps <- AllSteps
  Crashes = TRUE
INVARIANT IdsDistinct
PROPERTIES CommandsEnd ReadsEndButInCircles
CHECK_DEADLOCK FALSE
