\* Two calls that share the factories and go through two sources; two closers.
SPECIFICATION Spec
CONSTANTS
  Calls = {c1, c2}
  Closers = {x, y}
  Namespaces = {n1, n2}
  MaxSources = 2
  NoClient = noClient
  NoDriver = noDriver
  NoCall = noCall
SYMMETRY Symmetry
INVARIANTS NamespacesAreServed FailedLeavesNothing ClientsHaveOwners PassedClientStays OpenMeansOpen PanicNeedsARace CloseIsComplete
CHECK_DEADLOCK FALSE
