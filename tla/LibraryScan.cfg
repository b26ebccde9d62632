SPECIFICATION FairSpec
CONSTANTS
  song = song
  track = track
  folder = folder
  media = media
  a = a
  b = b
  c = c
  text = text
  Files <- MCFiles
  Dirs <- MCDirs
  Root = media
  In <- MCIn
  Contents <- MCContents
  Audio <- MCAudio
  ArtistOf <- MCArtistOf
  AlbumOf <- MCAlbumOf
  MinArtistId = 100
  MinAlbumId = 200
  MinPathId = 300
  Holds <- MCHolds
  Free <- MCFree
  Threshold = 1
  MaxChanges = 2
  MaxFailures = 0
  MaxCrashes = 0
INVARIANTS TypeOK NoOrphans TagsRight
PROPERTIES TitlesKeepIds CatchesUp
