SPECIFICATION Spec
CONSTANTS
  server = server
  server2 = server2
  tool = tool
  scanner = scanner
  player = player
  adder = adder
  adder2 = adder2
  adder3 = adder3
  setter1 = setter1
  setter2 = setter2
  mediaDir = mediaDir
  other = other
  old = old
  new = new
  broken = broken
  Setters = {setter1, setter2}
  Names = {mediaDir, other}
  Values = {old, new}
  Broken = broken
  FirstFiles <- MCFirstFiles
  MaxFaults = 1
  Servers = {server, server2}
  Tools = {tool}
  Scanners = {scanner}
  Players = {player}
  Adders = {adder, adder2, adder3}
  Casts <- MCCasts
  MediaDir = mediaDir
  MaxDeaths = 1
INVARIANTS TypeOK OneBeginning  StateShown SetsKept FileKept
CHECK_DEADLOCK FALSE
