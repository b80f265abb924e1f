\* Two watch streams, a Get, a Preload and hooks that misbehave, over the content "".
SPECIFICATION FairKSpec
CONSTANTS
  Keys = {k1}
  Empty = e
  Values = {e}
  Absent = absent
  NoEntry = noEntry
  NoKey = noKey
  Readers = {r1}
  Streams = {s1, s2}
  MaxRev = 4
  MaxHooks = 1
  NoThread = noThread
  Preloader = preloader
  Registrant = registrant
INVARIANTS EntryShowsEtcd
PROPERTIES StaleOnlyFromWindows GetReturns EventsAreHandled
CHECK_DEADLOCK FALSE
