SPECIFICATION ScreenSpec
CONSTANTS
  Streams = {s1, s2}
  OCT_TERM = OCT_TERM
  Blank = Blank
  MaxLines = 4
  Width = 2
  Visible = 3
  Pieces = {0, 2}
SYMMETRY Symmetry
INVARIANTS
  ViewShown
