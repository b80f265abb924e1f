\* Two fields with any tags, two loaders, two goroutines of the driver, three
\* contents the entry has.
SPECIFICATION Spec
CONSTANTS
  NumFields = 2
  Goroutines = {g1, g2}
  Loaders = {c1, c2}
  Values = {v1}
  Null = null
  Broken = broken
  Absent = absent
  MaxRev = 3
PROPERTIES StaleOnlyIfOvertaken PreloadedWhenDone
SYMMETRY Symmetry
CHECK_DEADLOCK FALSE
