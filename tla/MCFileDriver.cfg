\* Two files that share the buffer; every order of events, timers and reloads.
SPECIFICATION Spec
CONSTANTS
  Paths = {p1, p2}
  Keys = {k1}
  Empty = e
  Values = {e, v}
  Absent = absent
  NoEntry = noEntry
  Bad = bad
  Timers = {t1, t2}
  NoTimer = noTimer
  NoPath = noPath
  MaxWrites = 2
  MaxHooks = 1
SYMMETRY Symmetry
INVARIANTS NoLostReload CacheIsLastGood HooksFollowCache
PROPERTIES IsSnapshot
CHECK_DEADLOCK FALSE
