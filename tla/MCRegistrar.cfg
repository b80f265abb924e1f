\* Two services, three leases, two faults.
SPECIFICATION FairSpec
CONSTANTS
  Keys = {k1, k2}
  Leases = {l1, l2, l3}
  NoLease = noLease
  MaxFaults = 2
INVARIANTS RefreshedIsRegistered
PROPERTIES RegistersAgain StoppedIsUnregistered IsRegistry
CHECK_DEADLOCK FALSE
