CONSTANTS
  Dialogs = {a, b, c}
  NoDialog = NoDialog
  CacheSize = 2
  HomeAssistant = TRUE
  RepeatedResults = FALSE
  MaxLines = 1
SPECIFICATION FairSpec
PROPERTIES WakeEnds
CHECK_DEADLOCK FALSE
