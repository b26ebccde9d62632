SPECIFICATION QuerySpec
CONSTANTS
  song = song
  track = track
  folder = folder
  media = media
  a = a
  b = b
  c = c
  text = text
  Files <- MCFiles
  Dirs <- MCDirs
  Root = media
  In <- MCIn
  Contents <- MCContents
  Audio <- MCAudio
  ArtistOf <- MCArtistOf
  AlbumOf <- MCAlbumOf
  MinArtistId = 100
  MinAlbumId = 200
  MinPathId = 300
  Holds <- MCOne
  Free <- MCFree
  Threshold = 1
  MaxChanges = 1
  MaxFailures = 1
  MaxCrashes = 0
CONSTANTS
  Mp3 <- MCMp3
  Asked <- MCAsked
  MaxQueries = 1
INVARIANTS QueryTypeOK PathRight InfoRight FolderRight
