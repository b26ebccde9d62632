SPECIFICATION Spec
CONSTANTS
  t1 = t1
  t2 = t2
  album = album
  junk = junk
  Titles <- MCTitles
  Folders <- MCFolders
  OtherIds <- MCOtherIds
  Contents <- MCContents
  Requests <- OneTitle
  Counts <- MCCounts
  Writers = {w1, w2}
  Readers = {}
  MaxOps = 2
  FailingSteps <- NoSteps
  Crashes = FALSE
INVARIANT LinksAllForward
CHECK_DEADLOCK FALSE
