\* A change of a key that has a hook and that no Get has cached.
SPECIFICATION FairSpec
CONSTANTS
  Keys = {k1}
  Empty = e
  Values = {e, v}
  Absent = absent
  NoEntry = noEntry
  NoKey = noKey
  Readers = {r1}
  Streams = {s1}
  MaxRev = 2
  MaxHooks = 1
PROPERTIES HookPerChange
CHECK_DEADLOCK FALSE
