\* Eight chains, every kind of request, next called at most twice, two writes.
SPECIFICATION Spec
CONSTANTS
  Chains <- MCChains
  Listed = listed
  Open = open
  Friend = o1
  Configs = {listed, open}
  Everyone = {open}
  AllowOrigins <- MCAllowOrigins
  Origins = {o1, o2}
  Same = same
  Anyone = anyone
  Nobody = nobody
  Codes = {103, 400}
  MaxCalls = 2
  MaxWrites = 2
INVARIANTS TypeOK NoMiddlewareSkipped SentIsWritten OneAnswer VaryTellsOrigins
PROPERTIES ResultReachesCaller
CHECK_DEADLOCK FALSE
