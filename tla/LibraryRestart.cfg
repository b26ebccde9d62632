SPECIFICATION Spec
CONSTANTS
  song = song
  track = track
  folder = folder
  media = media
  a = a
  b = b
  c = c
  text = text
  Files <- MCFiles
  Dirs <- MCDirs
  Root = media
  In <- MCIn
  Contents <- MCContents
  Audio <- MCAudio
  ArtistOf <- MCArtistOf
  AlbumOf <- MCAlbumOf
  MinArtistId = 100
  MinAlbumId = 200
  MinPathId = 300
  Holds <- MCNoise
  Free <- MCFree
  Threshold = 1
  MaxChanges = 1
  MaxFailures = 1
  MaxCrashes = 1
INVARIANTS QuietScanComplete QuietScanExact PathsWhole IdsFree IdsInRange
