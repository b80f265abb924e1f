\* A key that comes on the endpoint of another, which then goes.
SPECIFICATION DSpec
CONSTANTS
  Chars = {"s", "0", "5", "9"}
  Disc = disc
  Low = low
  High = high
  Observers = {disc, low, high}
  LowKey = k1
  HighKey = k2
  Keys = {k1, k2}
  PrefixOf <- Prefixes
  NameOf <- Names
  MinLen = 2
  Hosts = {h1, h2}
  BadHost = bad
  Resolvers = {r1, r2}
  Half = 2
  Narrow = FALSE
  MaxChanges = 3
  MaxSteps = 4
SYMMETRY Symmetry
INVARIANTS RegisteredIsListed
CHECK_DEADLOCK FALSE
