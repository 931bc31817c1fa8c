SPECIFICATION Spec
CONSTANTS
  Streams = {s1, s2}
  OCT_TERM = OCT_TERM
  MaxLines = 3
  Width = 2
  Visible = 2
  Pieces = {0, 1, 5}
SYMMETRY Symmetry
INVARIANTS
  Accounted
  Chained
  HistoryKept
  Referenced
  Bounded
  ViewFollows
