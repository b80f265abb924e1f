\* One file, one more change: reloads arrive and Close ends everything.
SPECIFICATION FairSpec
CONSTANTS
  Paths = {p1}
  Keys = {k1}
  Empty = e
  Values = {e}
  Absent = absent
  NoEntry = noEntry
  Bad = bad
  Timers = {t1, t2}
  NoTimer = noTimer
  NoPath = noPath
  MaxWrites = 3
  MaxHooks = 1
PROPERTIES ReloadsConverge CloseEndsGoroutines
CHECK_DEADLOCK FALSE
