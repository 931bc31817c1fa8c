SPECIFICATION Spec
CONSTANTS
  main = main
  registry = registry
  co = co
  t = t
  w = w
  k = k
  c = c
  u = u
  d = d
  e = e
  s = s
  none = none
  Main = main
  Registry = registry
  Coroutines = {co}
  Tables = {t}
  WeakValues = {w}
  WeakKeys = {k}
  Closures = {c}
  Upvals = {u}
  Udata = {d, e}
  Strings = {s}
  NoThread = none
  Worlds <- MCWorlds
INVARIANTS NothingLost Colours FinalizedOnce
PROPERTIES FinalizedAtClose Collected
CHECK_DEADLOCK FALSE
