CONSTANTS
  Songs = {s1, s2}
  NoSong = NoSong
  NoTrack = NoTrack
  Requests = {"List", "Shuffle", "RepeatAll", "Previous", "Next"}
  Outcomes = {"playing"}
  UnexpectedExitRetries = 1
  MaxFailures = 2
  CooldownRetries = 1
  SkipOnFailure = TRUE
  SameArtist = FALSE
  ShuffleInit = FALSE
  RepeatInit = "off"
  RejectWhileAirPlay = TRUE
  Heeded = {"AirPlayStarted"}
  MaxRequests = 4
  MaxAirPlay = 1
  MaxGeneration = 3
  MaxBatch = 2
SPECIFICATION Spec
SYMMETRY SongSymmetry
INVARIANTS CrashesCounted
PROPERTIES SongsKept
CHECK_DEADLOCK FALSE
