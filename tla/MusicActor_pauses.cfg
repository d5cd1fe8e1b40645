CONSTANTS
  Songs = {s1}
  NoSong = NoSong
  NoTrack = NoTrack
  Requests = {"Play", "Next", "Pause", "Resume", "WakeStarted", "DialogFinished"}
  Outcomes = {"playing"}
  UnexpectedExitRetries = 1
  MaxFailures = 2
  CooldownRetries = 1
  SkipOnFailure = TRUE
  SameArtist = FALSE
  ShuffleInit = FALSE
  RepeatInit = "off"
  RejectWhileAirPlay = FALSE
  Heeded = {"WakeStarted", "DialogFinished", "AirPlayStarted", "AirPlayEnded"}
  MaxRequests = 4
  MaxAirPlay = 1
  MaxGeneration = 3
  MaxBatch = 1
SPECIFICATION FairSpec
INVARIANTS PauseHeld SilentUnderAirPlay LedFollowsPlayer
PROPERTIES LeaseSpec
CHECK_DEADLOCK FALSE
