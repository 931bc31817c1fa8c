SPECIFICATION Spec
CONSTANTS
  a = a
  o = o
  Numbers <- MCNumbers
  Strings = {a}
  Objects = {o}
  Hash <- MCHash
  Values = {v}
  Nil = Nil
  Presizes = {4}
  MAXBITS = 3
  MAX_INT = 9
INVARIANTS LengthIsBorder MainPosition PartsAgree
PROPERTIES Refines HalfUsed
