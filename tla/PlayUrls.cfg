CONSTANTS
  QqKeys = {q1, q2}
  KuwoKeys = {k1}
  MinInterval = 2
  Cooldown = 3
  TimeToLive = 4
  MaxEntries = 2
  BackupEnabled = TRUE
  MaxTime = 8
SPECIFICATION Spec
SYMMETRY KeySymmetry
INVARIANTS TypeOK BrokenNotServed RetryFindsPrimaryOpen
PROPERTIES PrimarySpaced CooldownRespected
CHECK_DEADLOCK FALSE
