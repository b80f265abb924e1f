----------------------------- MODULE RegistrarProofs -----------------------------
(***************************************************************************)
(* Registrar for any keys, leases and number of faults: type correctness,  *)
(* that a refreshed lease holds its key, that readers see the keys of      *)
(* Registry come and go, and what is left of a service that stopped.       *)
(***************************************************************************)
EXTENDS Registrar, TLAPS

IInv == TypeOK /\ RefreshedIsRegistered

LEMMA InitIInv == Init => IInv
<1>1. SUFFICES ASSUME Init PROVE IInv
  OBVIOUS
<1>2. TypeOK
  BY <1>1, RegistrarAssumption DEF Init, TypeOK
<1>3. RefreshedIsRegistered
  BY <1>1 DEF Init, RefreshedIsRegistered
<1> QED
  BY <1>2, <1>3 DEF IInv

\* Whatever ends a lease keeps the types and leaves no key attached to it.
LEMMA EndsTyped ==
  ASSUME TypeOK, NEW l \in Leases, Ends(l)
  PROVE  live' \in SUBSET Leases /\ store' \in [Keys -> Leases \cup {NoLease}]
BY DEF Ends, TypeOK

LEMMA FaultTyped ==
  ASSUME TypeOK, Fault
  PROVE  faults' \in 0..MaxFaults
BY RegistrarAssumption DEF Fault, TypeOK

LEMMA AbandonTyped ==
  ASSUME TypeOK, NEW k \in Keys, pc[k] = "put", Abandon(k)
  PROVE  late' \in SUBSET (Keys \X Leases)
BY DEF Abandon, TypeOK

\* No step disturbs the types.
LEMMA StepTyped == ASSUME TypeOK, [Next]_rvars PROVE TypeOK'
<1>1. ASSUME NEW k \in Keys, NEW l \in Leases, Grant(k, l) PROVE TypeOK'
  BY <1>1 DEF Grant, TypeOK
<1>2. ASSUME NEW k \in Keys, Put(k) PROVE TypeOK'
  BY <1>2 DEF Put, TypeOK
<1>3. ASSUME NEW k \in Keys, PutFails(k) PROVE TypeOK'
  <2>1. late' \in SUBSET (Keys \X Leases)
    BY <1>3, AbandonTyped DEF PutFails
  <2> QED
    BY <1>3, <2>1 DEF PutFails, TypeOK
<1>4. ASSUME NEW k \in Keys, Revoke(k) PROVE TypeOK'
  <2>1. live' \in SUBSET Leases /\ store' \in [Keys -> Leases \cup {NoLease}]
    <3>1. CASE Ends(got[k])
      BY <1>4, <3>1, EndsTyped DEF Revoke, TypeOK
    <3>2. CASE UNCHANGED <<live, store>>
      BY <3>2 DEF TypeOK
    <3> QED
      BY <1>4, <3>1, <3>2 DEF Revoke
  <2> QED
    BY <1>4, <2>1 DEF Revoke, TypeOK
<1>5. ASSUME NEW k \in Keys, ChannelCloses(k) PROVE TypeOK'
  BY <1>5 DEF ChannelCloses, etcd, TypeOK
<1>6. ASSUME NEW k \in Keys, Stop(k) PROVE TypeOK'
  BY <1>6 DEF Stop, etcd, TypeOK
<1>7. ASSUME NEW k \in Keys, GrantFails(k) PROVE TypeOK'
  BY <1>7 DEF GrantFails, etcd, TypeOK
<1>8. ASSUME NEW k \in Keys, PutTimesOut(k) PROVE TypeOK'
  <2>1. faults' \in 0..MaxFaults /\ late' \in SUBSET (Keys \X Leases)
    BY <1>8, AbandonTyped, FaultTyped DEF PutTimesOut
  <2> QED
    BY <1>8, <2>1 DEF PutTimesOut, TypeOK
<1>9. ASSUME NEW k \in Keys, ChannelLost(k) PROVE TypeOK'
  <2>1. faults' \in 0..MaxFaults
    BY <1>9, FaultTyped DEF ChannelLost
  <2> QED
    BY <1>9, <2>1 DEF ChannelLost, TypeOK
<1>10. ASSUME NEW k \in Keys, Cancel(k) PROVE TypeOK'
  BY <1>10 DEF Cancel, etcd, TypeOK
<1>11. ASSUME NEW k \in Keys, Crash(k) PROVE TypeOK'
  <2>1. late' \in SUBSET (Keys \X Leases)
    BY <1>11, AbandonTyped DEF Crash, TypeOK
  <2> QED
    BY <1>11, <2>1 DEF Crash, TypeOK
<1>12. ASSUME NEW k \in Keys, DeregisterService(k) PROVE TypeOK'
  BY <1>12 DEF DeregisterService, TypeOK
<1>13. ASSUME NEW k \in Keys, NEW l \in Leases, Land(k, l) PROVE TypeOK'
  BY <1>13 DEF Land, TypeOK
<1>14. ASSUME NEW l \in Leases, ExpireQuietly(l) PROVE TypeOK'
  <2>1. live' \in SUBSET Leases /\ store' \in [Keys -> Leases \cup {NoLease}]
    BY <1>14, EndsTyped DEF ExpireQuietly
  <2> QED
    BY <1>14, <2>1 DEF ExpireQuietly, TypeOK
<1>15. ASSUME NEW l \in Leases, ExpireNeeded(l) PROVE TypeOK'
  <2>1. live' \in SUBSET Leases /\ store' \in [Keys -> Leases \cup {NoLease}]
    BY <1>15, EndsTyped DEF ExpireNeeded
  <2>2. faults' \in 0..MaxFaults
    BY <1>15, FaultTyped DEF ExpireNeeded
  <2> QED
    BY <1>15, <2>1, <2>2 DEF ExpireNeeded, TypeOK
<1>16. CASE UNCHANGED rvars
  BY <1>16 DEF rvars, etcd, TypeOK
<1> QED
  BY <1>1, <1>2, <1>3, <1>4, <1>5, <1>6, <1>7, <1>8, <1>9, <1>10, <1>11, <1>12, <1>13,
     <1>14, <1>15, <1>16 DEF Next, Goroutine

\* What holds of one key after a step: j is refreshed on its own key.
Holds(j) == pc[j] = "alive" /\ mine[j] \in live /\ ~lost[j] => store[j] = mine[j]

\* The end of a lease detaches only keys that were attached to it.
LEMMA EndsHolds ==
  ASSUME TypeOK, NEW l \in Leases, Ends(l), NEW j \in Keys, Holds(j),
         mine' = mine, lost' = lost, pc'[j] = "alive" => pc[j] = "alive"
  PROVE  Holds(j)'
BY DEF Ends, Holds, TypeOK

LEMMA StepHolds ==
  ASSUME TypeOK, RefreshedIsRegistered, [Next]_rvars, NEW j \in Keys
  PROVE  Holds(j)'
<1>0. Holds(j)
  BY DEF RefreshedIsRegistered, Holds
<1>1. ASSUME NEW k \in Keys, NEW l \in Leases, Grant(k, l) PROVE Holds(j)'
  BY <1>0, <1>1 DEF Grant, Free, Holds, TypeOK
<1>2. ASSUME NEW k \in Keys, Put(k) PROVE Holds(j)'
  BY <1>0, <1>2 DEF Put, Holds, TypeOK
<1>3. ASSUME NEW k \in Keys, PutFails(k) PROVE Holds(j)'
  BY <1>0, <1>3 DEF PutFails, Holds, TypeOK
<1>4. ASSUME NEW k \in Keys, Revoke(k) PROVE Holds(j)'
  <2>1. got[k] \in Leases
    BY <1>4 DEF Revoke, TypeOK
  <2>2. pc'[j] = "alive" => pc[j] = "alive"
    BY <1>4 DEF Revoke, TypeOK
  <2>3. mine' = mine /\ lost' = lost
    BY <1>4 DEF Revoke
  <2>4. CASE Ends(got[k])
    BY <1>0, <2>1, <2>2, <2>3, <2>4, EndsHolds
  <2>5. CASE UNCHANGED <<live, store>>
    BY <1>0, <2>2, <2>3, <2>5 DEF Holds
  <2> QED
    BY <1>4, <2>4, <2>5 DEF Revoke
<1>5. ASSUME NEW k \in Keys, ChannelCloses(k) PROVE Holds(j)'
  BY <1>0, <1>5 DEF ChannelCloses, etcd, Holds, TypeOK
<1>6. ASSUME NEW k \in Keys, Stop(k) PROVE Holds(j)'
  BY <1>0, <1>6 DEF Stop, etcd, Holds, TypeOK
<1>7. ASSUME NEW k \in Keys, GrantFails(k) PROVE Holds(j)'
  BY <1>0, <1>7 DEF GrantFails, etcd, Holds, TypeOK
<1>8. ASSUME NEW k \in Keys, PutTimesOut(k) PROVE Holds(j)'
  BY <1>0, <1>8 DEF PutTimesOut, Holds, TypeOK
<1>9. ASSUME NEW k \in Keys, ChannelLost(k) PROVE Holds(j)'
  BY <1>0, <1>9 DEF ChannelLost, Holds, TypeOK
<1>10. ASSUME NEW k \in Keys, Cancel(k) PROVE Holds(j)'
  BY <1>0, <1>10 DEF Cancel, etcd, Holds
<1>11. ASSUME NEW k \in Keys, Crash(k) PROVE Holds(j)'
  BY <1>0, <1>11 DEF Crash, Holds, TypeOK
<1>12. ASSUME NEW k \in Keys, DeregisterService(k) PROVE Holds(j)'
  BY <1>0, <1>12 DEF DeregisterService, Holds, TypeOK
<1>13. ASSUME NEW k \in Keys, NEW l \in Leases, Land(k, l) PROVE Holds(j)'
  BY <1>0, <1>13 DEF Land, Holds, TypeOK
<1>14. ASSUME NEW l \in Leases, ExpireQuietly(l) PROVE Holds(j)'
  BY <1>0, <1>14, EndsHolds DEF ExpireQuietly
<1>15. ASSUME NEW l \in Leases, ExpireNeeded(l) PROVE Holds(j)'
  BY <1>0, <1>15, EndsHolds DEF ExpireNeeded
<1>16. CASE UNCHANGED rvars
  BY <1>0, <1>16 DEF rvars, etcd, Holds
<1> QED
  BY <1>1, <1>2, <1>3, <1>4, <1>5, <1>6, <1>7, <1>8, <1>9, <1>10, <1>11, <1>12, <1>13,
     <1>14, <1>15, <1>16 DEF Next, Goroutine

\* Both conjuncts of the invariant survive every step.
THEOREM Invariance == Spec => []IInv
<1>1. ASSUME IInv, [Next]_rvars PROVE IInv'
  <2>1. TypeOK'
    BY <1>1, StepTyped DEF IInv
  <2>2. \A j \in Keys : Holds(j)'
    BY <1>1, StepHolds DEF IInv
  <2> QED
    BY <2>1, <2>2 DEF IInv, RefreshedIsRegistered, Holds
<1> QED
  BY <1>1, InitIInv, PTL DEF Spec

\* Every reachable state is well typed: the lease of a running call and the lease
\* of keepAlive are there whenever the code uses them (register.go:109-167).
THEOREM TypeCorrect == Spec => []TypeOK
<1>1. IInv => TypeOK
  BY DEF IInv
<1> QED
  BY <1>1, Invariance, PTL

\* However many keys, leases and faults: while keepAlive refreshes a lease that
\* lives, its key is attached to that lease, unless it was deregistered or
\* overtaken by a Put given up earlier.
THEOREM RefreshedHoldsKey == Spec => []RefreshedIsRegistered
<1>1. IInv => RefreshedIsRegistered
  BY DEF IInv
<1> QED
  BY <1>1, Invariance, PTL

-----------------------------------------------------------------------------
(* The refinement: a lease has to do with one key at most.                 *)

Uses(k, l) == l \in {store[k], mine[k], got[k]} \/ <<k, l>> \in late

LeaseOfOneKey == \A l \in Leases : \A j, k \in Keys : Uses(j, l) /\ Uses(k, l) => j = k

\* Only a Grant gives a key a lease it had nothing to do with, and that lease is free.
LEMMA NewUse ==
  ASSUME TypeOK, [Next]_rvars, NEW j \in Keys, NEW l \in Leases, Uses(j, l)', ~Uses(j, l)
  PROVE  Free(l) /\ Grant(j, l)
<1> USE RegistrarAssumption DEF Uses, TypeOK
<1>1. ASSUME NEW k \in Keys, NEW m \in Leases, Grant(k, m) PROVE Free(l) /\ Grant(j, l)
  BY <1>1 DEF Grant
<1>2. ASSUME NEW k \in Keys, Put(k) PROVE FALSE
  BY <1>2 DEF Put
<1>3. ASSUME NEW k \in Keys, PutFails(k) \/ PutTimesOut(k) PROVE FALSE
  BY <1>3 DEF PutFails, PutTimesOut, Abandon
<1>4. ASSUME NEW k \in Keys, Revoke(k) PROVE FALSE
  BY <1>4 DEF Revoke, Ends
<1>5. ASSUME NEW k \in Keys, ChannelCloses(k) \/ ChannelLost(k) \/ Stop(k) \/ GrantFails(k) \/ Cancel(k)
      PROVE  FALSE
  BY <1>5 DEF ChannelCloses, ChannelLost, Stop, GrantFails, Cancel, etcd
<1>6. ASSUME NEW k \in Keys, Crash(k) PROVE FALSE
  BY <1>6 DEF Crash, Abandon
<1>7. ASSUME NEW k \in Keys, DeregisterService(k) PROVE FALSE
  BY <1>7 DEF DeregisterService
<1>8. ASSUME NEW k \in Keys, NEW m \in Leases, Land(k, m) PROVE FALSE
  BY <1>8 DEF Land
<1>9. ASSUME NEW m \in Leases, ExpireQuietly(m) \/ ExpireNeeded(m) PROVE FALSE
  BY <1>9 DEF ExpireQuietly, ExpireNeeded, Ends
<1>10. CASE UNCHANGED rvars
  BY <1>10 DEF rvars, etcd
<1> QED
  BY <1>1, <1>2, <1>3, <1>4, <1>5, <1>6, <1>7, <1>8, <1>9, <1>10 DEF Next, Goroutine

LEMMA StepOneKey == ASSUME TypeOK, LeaseOfOneKey, [Next]_rvars PROVE LeaseOfOneKey'
<1> SUFFICES ASSUME NEW l \in Leases, NEW j \in Keys, NEW k \in Keys, Uses(j, l)', Uses(k, l)', j # k
             PROVE  FALSE
  BY DEF LeaseOfOneKey
<1>1. Uses(j, l) \/ (Grant(j, l) /\ Free(l))
  BY NewUse
<1>2. Uses(k, l) \/ (Grant(k, l) /\ Free(l))
  BY NewUse
<1>3. CASE Grant(j, l) /\ Free(l)
  <2>1. ~Uses(k, l) /\ got'[k] = got[k] /\ pc'[j] = "put" /\ pc[j] # "put"
    BY <1>3 DEF Free, Uses, Grant, TypeOK
  <2> QED
    BY <1>2, <1>3, <2>1 DEF Free, Uses, Grant, TypeOK
<1>4. CASE Grant(k, l) /\ Free(l)
  <2>1. ~Uses(j, l)
    BY <1>4 DEF Free, Uses
  <2> QED
    BY <1>1, <1>3, <1>4, <2>1
<1> QED
  BY <1>1, <1>2, <1>3, <1>4 DEF LeaseOfOneKey

LEMMA EndsLeaves ==
  ASSUME TypeOK, LeaseOfOneKey, NEW l \in Leases, Ends(l)
  PROVE  [Registry!Next]_{k \in Keys : store[k] # NoLease}
<1>1. CASE \E j \in Keys : store[j] = l
  <2>1. PICK j \in Keys : store[j] = l
    BY <1>1
  <2>2. \A k \in Keys : store[k] = l => k = j
    BY <2>1 DEF LeaseOfOneKey, Uses
  <2>3. Registry!Leaves(j)
    BY <2>1, <2>2, RegistrarAssumption DEF Registry!Leaves, Ends
  <2> QED
    BY <2>3 DEF Registry!Next
<1>2. CASE \A j \in Keys : store[j] # l
  BY <1>2 DEF Ends, TypeOK
<1> QED
  BY <1>1, <1>2

LEMMA StepRegistry ==
  ASSUME TypeOK, LeaseOfOneKey, [Next]_rvars
  PROVE  [Registry!Next]_{k \in Keys : store[k] # NoLease}
<1>1. ASSUME store' = store PROVE [Registry!Next]_{k \in Keys : store[k] # NoLease}
  BY <1>1
<1>2. ASSUME NEW k \in Keys, NEW l \in Leases, store' = [store EXCEPT ![k] = l]
      PROVE  Registry!Next
  <2>1. Registry!Registers(k)
    BY <1>2, RegistrarAssumption DEF Registry!Registers, TypeOK
  <2> QED
    BY <2>1 DEF Registry!Next
<1>3. ASSUME NEW k \in Keys, Put(k) PROVE Registry!Next
  BY <1>2, <1>3 DEF Put, TypeOK
<1>4. ASSUME NEW k \in Keys, NEW l \in Leases, Land(k, l)
      PROVE  [Registry!Next]_{j \in Keys : store[j] # NoLease}
  BY <1>1, <1>2, <1>4 DEF Land
<1>5. ASSUME NEW k \in Keys, DeregisterService(k) PROVE Registry!Next
  <2>1. Registry!Leaves(k)
    BY <1>5 DEF DeregisterService, Registry!Leaves, TypeOK
  <2> QED
    BY <2>1 DEF Registry!Next
<1>6. ASSUME NEW k \in Keys, Revoke(k)
      PROVE  [Registry!Next]_{j \in Keys : store[j] # NoLease}
  BY <1>1, <1>6, EndsLeaves DEF Revoke, TypeOK
<1>7. ASSUME NEW l \in Leases, ExpireQuietly(l) \/ ExpireNeeded(l)
      PROVE  [Registry!Next]_{k \in Keys : store[k] # NoLease}
  BY <1>7, EndsLeaves DEF ExpireQuietly, ExpireNeeded
<1>8. ASSUME NEW k \in Keys,
             \/ \E l \in Leases : Grant(k, l)
             \/ PutFails(k) \/ PutTimesOut(k) \/ ChannelCloses(k) \/ ChannelLost(k) \/ Stop(k)
             \/ GrantFails(k) \/ Cancel(k) \/ Crash(k)
      PROVE  store' = store
  BY <1>8 DEF Grant, PutFails, PutTimesOut, ChannelCloses, ChannelLost, Stop, GrantFails, Cancel,
              Crash, etcd
<1>9. CASE UNCHANGED rvars
  BY <1>1, <1>9 DEF rvars, etcd
<1> QED
  BY <1>1, <1>3, <1>4, <1>5, <1>6, <1>7, <1>8, <1>9 DEF Next, Goroutine

\* Whatever times out, expires, crashes or comes late, the keys of any number of
\* services come and go one at a time: the Registrar implements the Registry.
THEOREM RegistrarIsRegistry == Spec => IsRegistry
<1>1. Init => Registry!Init /\ LeaseOfOneKey
  BY RegistrarAssumption DEF Init, Registry!Init, LeaseOfOneKey, Uses
<1>2. IInv => TypeOK
  BY DEF IInv
<1>3. TypeOK /\ LeaseOfOneKey /\ [Next]_rvars => LeaseOfOneKey'
  BY StepOneKey
<1>4. TypeOK /\ LeaseOfOneKey /\ [Next]_rvars => [Registry!Next]_{k \in Keys : store[k] # NoLease}
  BY StepRegistry
<1> QED
  BY <1>1, <1>2, <1>3, <1>4, Invariance, PTL DEF Spec, IsRegistry, Registry!Spec

-----------------------------------------------------------------------------
(* What StoppedIsUnregistered rests on at every moment: etcd is left to    *)
(* end the lease of a service that stopped.                                *)

\* A key is attached to a lease that lives, and a lease that was only just granted is
\* neither that of its key nor that of a Put on its way.
LeaseInv ==
  /\ \A k \in Keys : store[k] # NoLease => store[k] \in live
  /\ \A k \in Keys : pc[k] = "put" => got[k] # store[k] /\ <<k, got[k]>> \notin late

LEMMA StepLeases == ASSUME TypeOK, LeaseInv, [Next]_rvars PROVE LeaseInv'
<1> SUFFICES ASSUME NEW j \in Keys
             PROVE  /\ store'[j] # NoLease => store'[j] \in live'
                    /\ pc'[j] = "put" => got'[j] # store'[j] /\ <<j, got'[j]>> \notin late'
  BY DEF LeaseInv
<1>0. /\ store[j] # NoLease => store[j] \in live
      /\ pc[j] = "put" => got[j] # store[j] /\ <<j, got[j]>> \notin late /\ got[j] \in Leases
  BY DEF LeaseInv, TypeOK
<1> USE RegistrarAssumption
<1>1. ASSUME NEW k \in Keys, NEW l \in Leases, Grant(k, l)
      PROVE  /\ store'[j] # NoLease => store'[j] \in live'
             /\ pc'[j] = "put" => got'[j] # store'[j] /\ <<j, got'[j]>> \notin late'
  BY <1>0, <1>1 DEF Grant, Free, TypeOK
<1>2. ASSUME NEW k \in Keys, Put(k)
      PROVE  /\ store'[j] # NoLease => store'[j] \in live'
             /\ pc'[j] = "put" => got'[j] # store'[j] /\ <<j, got'[j]>> \notin late'
  BY <1>0, <1>2 DEF Put, TypeOK
<1>3. ASSUME NEW k \in Keys, PutFails(k) \/ PutTimesOut(k) \/ Crash(k)
      PROVE  /\ store'[j] # NoLease => store'[j] \in live'
             /\ pc'[j] = "put" => got'[j] # store'[j] /\ <<j, got'[j]>> \notin late'
  BY <1>0, <1>3 DEF PutFails, PutTimesOut, Crash, Abandon, TypeOK
<1>4. ASSUME NEW k \in Keys, Revoke(k)
      PROVE  /\ store'[j] # NoLease => store'[j] \in live'
             /\ pc'[j] = "put" => got'[j] # store'[j] /\ <<j, got'[j]>> \notin late'
  BY <1>0, <1>4 DEF Revoke, Ends, TypeOK
<1>5. ASSUME NEW k \in Keys,
             ChannelCloses(k) \/ ChannelLost(k) \/ Stop(k) \/ GrantFails(k) \/ Cancel(k)
      PROVE  /\ store'[j] # NoLease => store'[j] \in live'
             /\ pc'[j] = "put" => got'[j] # store'[j] /\ <<j, got'[j]>> \notin late'
  BY <1>0, <1>5 DEF ChannelCloses, ChannelLost, Stop, GrantFails, Cancel, etcd, TypeOK
<1>6. ASSUME NEW k \in Keys, DeregisterService(k)
      PROVE  /\ store'[j] # NoLease => store'[j] \in live'
             /\ pc'[j] = "put" => got'[j] # store'[j] /\ <<j, got'[j]>> \notin late'
  BY <1>0, <1>6 DEF DeregisterService, TypeOK
<1>7. ASSUME NEW k \in Keys, NEW l \in Leases, Land(k, l)
      PROVE  /\ store'[j] # NoLease => store'[j] \in live'
             /\ pc'[j] = "put" => got'[j] # store'[j] /\ <<j, got'[j]>> \notin late'
  BY <1>0, <1>7 DEF Land, TypeOK
<1>8. ASSUME NEW l \in Leases, ExpireQuietly(l) \/ ExpireNeeded(l)
      PROVE  /\ store'[j] # NoLease => store'[j] \in live'
             /\ pc'[j] = "put" => got'[j] # store'[j] /\ <<j, got'[j]>> \notin late'
  BY <1>0, <1>8 DEF ExpireQuietly, ExpireNeeded, Ends, TypeOK
<1>9. CASE UNCHANGED rvars
  BY <1>0, <1>9 DEF rvars, etcd
<1> QED
  BY <1>1, <1>2, <1>3, <1>4, <1>5, <1>6, <1>7, <1>8, <1>9 DEF Next, Goroutine

\* The key of a service that stopped, whichever way, is attached to a lease that lives
\* and that nobody refreshes, its own keepAlive and those of other services included: so
\* etcd ends it without a fault (register.go:84-89, 109-167).
LeftToExpire ==
  \A k \in Keys : Stopped(k) /\ store[k] # NoLease => store[k] \in live /\ ~Needed(store[k])

\* Once a service stopped, only the end of its lease is left between its key and leaving
\* etcd, and no goroutine puts that end off (register.go:84-89, 109-167).
THEOREM StoppedKeyExpires == Spec => []LeftToExpire
<1>1. Init => LeaseOfOneKey /\ LeaseInv
  BY RegistrarAssumption DEF Init, LeaseOfOneKey, Uses, LeaseInv
<1>2. IInv => TypeOK
  BY DEF IInv
<1>3. TypeOK /\ LeaseOfOneKey /\ LeaseInv /\ [Next]_rvars => LeaseOfOneKey' /\ LeaseInv'
  BY StepOneKey, StepLeases
<1>4. TypeOK /\ LeaseOfOneKey /\ LeaseInv => LeftToExpire
  <2> SUFFICES ASSUME TypeOK, LeaseOfOneKey, LeaseInv,
                      NEW k \in Keys, Stopped(k), store[k] # NoLease
               PROVE  store[k] \in live /\ ~Needed(store[k])
    BY DEF LeftToExpire
  <2>1. store[k] \in live /\ store[k] \in Leases /\ Uses(k, store[k])
    BY DEF LeaseInv, TypeOK, Uses
  <2>2. ASSUME NEW j \in Keys, Refreshes(j), mine[j] = store[k] PROVE FALSE
    <3>1. j = k
      BY <2>1, <2>2 DEF LeaseOfOneKey, Uses
    <3> QED
      BY <2>2, <3>1 DEF Refreshes, Stopped
  <2>3. ASSUME NEW j \in Keys, pc[j] = "put", got[j] = store[k] PROVE FALSE
    <3>1. j = k
      BY <2>1, <2>3 DEF LeaseOfOneKey, Uses
    <3> QED
      BY <2>3, <3>1 DEF LeaseInv
  <2> QED
    BY <2>1, <2>2, <2>3 DEF Needed
<1> QED
  BY <1>1, <1>2, <1>3, <1>4, Invariance, PTL DEF Spec

\* Who stopped has stopped for good, and nothing attaches its key to a lease any more
\* but a Put it had given up before (register.go:84-89, 128-131, 154-167).
OnlyLatePutsRevive ==
  [][\A k \in Keys : Stopped(k) =>
       /\ Stopped(k)'
       /\ store'[k] \in {store[k], NoLease} \/ <<k, store'[k]>> \in late \ late']_rvars

\* A service that stopped never registers again; a Put it gave up may still attach its
\* key, and each such Put does so once (register.go:84-89, 128-131, 154-167).
THEOREM StoppedStaysStopped == Spec => OnlyLatePutsRevive
<1>1. ASSUME TypeOK, [Next]_rvars, NEW j \in Keys, Stopped(j)
      PROVE  Stopped(j)' /\ (store'[j] \in {store[j], NoLease} \/ <<j, store'[j]>> \in late \ late')
  <2>1. ASSUME NEW k \in Keys, NEW l \in Leases, Grant(k, l) PROVE Stopped(j)' /\ store' = store
    BY <1>1, <2>1 DEF Grant, Stopped, TypeOK
  <2>2. ASSUME NEW k \in Keys, Put(k) PROVE Stopped(j)' /\ store'[j] = store[j]
    BY <1>1, <2>2 DEF Put, Stopped, TypeOK
  <2>3. ASSUME NEW k \in Keys, PutFails(k) \/ PutTimesOut(k) \/ Crash(k)
        PROVE  Stopped(j)' /\ store' = store
    BY <1>1, <2>3 DEF PutFails, PutTimesOut, Crash, Stopped, TypeOK
  <2>4. ASSUME NEW k \in Keys, Revoke(k) PROVE Stopped(j)' /\ store'[j] \in {store[j], NoLease}
    BY <1>1, <2>4 DEF Revoke, Ends, Stopped, TypeOK
  <2>5. ASSUME NEW k \in Keys,
               ChannelCloses(k) \/ ChannelLost(k) \/ Stop(k) \/ GrantFails(k) \/ Cancel(k)
        PROVE  Stopped(j)' /\ store' = store
    BY <1>1, <2>5 DEF ChannelCloses, ChannelLost, Stop, GrantFails, Cancel, etcd, Stopped, TypeOK
  <2>6. ASSUME NEW k \in Keys, DeregisterService(k)
        PROVE  Stopped(j)' /\ store'[j] \in {store[j], NoLease}
    BY <1>1, <2>6 DEF DeregisterService, Stopped, TypeOK
  <2>7. ASSUME NEW k \in Keys, NEW l \in Leases, Land(k, l)
        PROVE  Stopped(j)' /\ (store'[j] = store[j] \/ <<j, store'[j]>> \in late \ late')
    BY <1>1, <2>7 DEF Land, Stopped, TypeOK
  <2>8. ASSUME NEW l \in Leases, ExpireQuietly(l) \/ ExpireNeeded(l)
        PROVE  Stopped(j)' /\ store'[j] \in {store[j], NoLease}
    BY <1>1, <2>8 DEF ExpireQuietly, ExpireNeeded, Ends, Stopped, TypeOK
  <2>9. CASE UNCHANGED rvars
    BY <1>1, <2>9 DEF rvars, etcd, Stopped
  <2> QED
    BY <1>1, <2>1, <2>2, <2>3, <2>4, <2>5, <2>6, <2>7, <2>8, <2>9 DEF Next, Goroutine
<1>2. TypeOK /\ [Next]_rvars
      => [\A k \in Keys : Stopped(k) =>
            /\ Stopped(k)'
            /\ store'[k] \in {store[k], NoLease} \/ <<k, store'[k]>> \in late \ late']_rvars
  BY <1>1
<1> QED
  BY <1>2, TypeCorrect, PTL DEF Spec, OnlyLatePutsRevive
=================================================================================
