\* A Get in flight when an event for its key is dropped, or a commit between the
\* Preload and the watch.
SPECIFICATION DSpec
CONSTANTS
  Keys = {k1}
  Empty = e
  Values = {e, v}
  Absent = absent
  NoEntry = noEntry
  NoKey = noKey
  Readers = {r1}
  Streams = {s1}
  MaxRev = 2
  MaxHooks = 1
INVARIANTS QuiescentFresh
CHECK_DEADLOCK FALSE
