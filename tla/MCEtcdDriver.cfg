\* Two Gets of a key against its watch, for every option of the driver.
SPECIFICATION FairSpec
CONSTANTS
  Keys = {k1}
  Empty = e
  Values = {e, v}
  Absent = absent
  NoEntry = noEntry
  NoKey = noKey
  Readers = {r1, r2}
  Streams = {s1}
  MaxRev = 4
  MaxHooks = 1
INVARIANTS EntryShowsEtcd HooksFollowEntry
PROPERTIES StaleOnlyWhenFilledOrStarting CatchesUp CloseEndsWatch
CHECK_DEADLOCK FALSE
