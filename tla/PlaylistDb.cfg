SPECIFICATION FairSpec
CONSTANTS
  t1 = t1
  t2 = t2
  album = album
  junk = junk
  Titles <- MCTitles
  Folders <- MCFolders
  OtherIds <- MCOtherIds
  Contents <- MCContents
  Requests <- MCPlaces
  Counts <- MCCounts
  Writers = {w1}
  Readers = {r1}
  MaxOps = 3
  FailingSteps <- HarmlessSteps
  Crashes = FALSE
INVARIANTS TypeOK LinksAllForward ListIntact QuietReadExact AddsInPlace
PROPERTY AbstractSpec
CHECK_DEADLOCK FALSE
