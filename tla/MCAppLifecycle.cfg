SPECIFICATION Spec
CONSTANTS
  Handles = {h1, h2}
  None = None
  Memos = 1
  MinLines = 2
  Lines = {0, 3}
  MaxEdits = 2
  MaxDepth = 5
  MaxQueue = 2
INVARIANTS
  TextKept
  NoTextLeaked
  StopsKept
  SetupInForce
PROPERTIES
  MemoChosen
  StopHonoured
