SPECIFICATION InputSpec
CONSTANTS
  Letters = {a}
  NL = NL
  EOF = EOF
  DialogLength = 2
  BufferSize = 3
  Spare = 1
  MaxCount = 4
CHECK_DEADLOCK FALSE
INVARIANTS
  NothingLost
  EofLast
PROPERTIES
  Returns
