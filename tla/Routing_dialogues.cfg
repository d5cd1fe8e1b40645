CONSTANTS
  Dialogs = {a, b}
  NoDialog = NoDialog
  CacheSize = 1
  HomeAssistant = TRUE
  RepeatedResults = TRUE
  MaxLines = 2
SPECIFICATION Spec
SYMMETRY DialogSymmetry
INVARIANTS OncePerDialog NoDoublePlayback WakeHolds
CHECK_DEADLOCK FALSE
