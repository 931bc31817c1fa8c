SPECIFICATION Spec
CONSTANTS
  Blocks = {a1, a2, a3, a4}
  NULL = NULL
  Hands = {d1, d2}
  MaxHandle = 4
  Modes <- MCModes
SYMMETRY Symmetry
INVARIANTS FilesOwned StreamsLive ReleasedAtExit
