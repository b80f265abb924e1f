\* Two watches that overlap, two keys under the longer prefix.
SPECIFICATION DSpec
CONSTANTS
  Chars = {"s", "0", "5", "9"}
  Disc = disc
  Low = low
  High = high
  Observers = {disc, low, high}
  LowKey = k1
  HighKey = k2
  Keys = {k1, k2}
  PrefixOf <- Prefixes
  NameOf <- Names
  MinLen = 2
  Hosts = {h1, h2}
  BadHost = bad
  Resolvers = {r1, r2}
  Half = 2
  Narrow = TRUE
  MaxChanges = 3
  MaxSteps = 5
SYMMETRY Symmetry
INVARIANTS EveryObserverIsWatched ListedIsRegistered OwnEndpointIsExact
PROPERTIES ResolveTakesTurns
CHECK_DEADLOCK FALSE
