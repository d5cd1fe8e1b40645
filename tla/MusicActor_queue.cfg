CONSTANTS
  Songs = {s1, s2}
  NoSong = NoSong
  NoTrack = NoTrack
  Requests = {"Play", "Next", "Previous", "Stop"}
  Outcomes = {"playing", "cooldown", "failed"}
  UnexpectedExitRetries = 1
  MaxFailures = 2
  CooldownRetries = 1
  SkipOnFailure = TRUE
  SameArtist = TRUE
  ShuffleInit = FALSE
  RepeatInit = "off"
  RejectWhileAirPlay = TRUE
  Heeded = {"WakeStarted", "DialogFinished", "AirPlayStarted", "AirPlayEnded"}
  MaxRequests = 3
  MaxAirPlay = 0
  MaxGeneration = 3
  MaxBatch = 1
SPECIFICATION Spec
SYMMETRY SongSymmetry
INVARIANTS SinglePlayer ExitOnItsWay ActiveFlagAgrees RetryScheduledHasTimer
PROPERTIES NoStranding StopIsFinal LeaseSafety
CHECK_DEADLOCK FALSE
