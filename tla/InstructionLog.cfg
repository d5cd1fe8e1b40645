\* Four lines, two truncations, a connection that takes one message.
CONSTANTS
  Capacity = 1
  MaxLines = 4
  MaxTruncations = 2
SPECIFICATION Spec
CHECK_DEADLOCK FALSE
INVARIANTS InOrder NothingLost
PROPERTIES LinesRouted
