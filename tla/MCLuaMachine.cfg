SPECIFICATION Spec
CONSTANTS
  MAXINDEXRK = 255
  MAXSTACK = 250
  LUAI_MAXVARS = 200
  LUAI_MAXUPVALUES = 60
  LUAI_MAXCCALLS = 20
  LFIELDS_PER_FLUSH = 2
  LUAI_MAXCALLS = 32
  BASIC_CI_SIZE = 4
  MAXTAGLOOP = 3
  SOURCE = "memo"
  Numerals <- MCNumerals
  Strings <- MCStrings
  Library <- MCLibrary
  Source <- MCSource
INVARIANTS AssertsHold CodeChecked UpvaluesSound StacksAgree
CHECK_DEADLOCK FALSE
PROPERTY Meaning
