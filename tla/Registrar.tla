------------------------------- MODULE Registrar -------------------------------
(***************************************************************************)
(* etcdutil/register.go: services that register a key in etcd under a      *)
(* lease.  RegisterService grants a lease and puts the key with it; then   *)
(* one keepAlive goroutine per key keeps the lease alive and, when that    *)
(* ends, registers the key again under a new lease until its context is    *)
(* cancelled.  mine is keepAlive's leaseID, got the lease register was     *)
(* granted and has not returned.                                           *)
(*                                                                         *)
(* etcd is external: the leases that live, the lease each key is attached  *)
(* to, and late, the Puts the client gave up on that the server may still  *)
(* serve.  A lease nobody can name any more may be granted again.  lost is *)
(* a history variable: somebody else has changed the key since the last    *)
(* Put its keepAlive knows of.                                             *)
(***************************************************************************)
EXTENDS Naturals

CONSTANTS
  Keys,      \* keys that services register, one for each RegisterService
  Leases,
  NoLease,
  MaxFaults  \* bound: timeouts and partitions longer than a lease

ASSUME RegistrarAssumption ==
  /\ NoLease \notin Leases
  /\ MaxFaults \in Nat

VARIABLES
  live,      \* external: leases that have not expired
  store,     \* external: the lease each key is attached to
  late,      \* external: abandoned Puts still on their way
  faults,    \* external: faults so far
  pc,        \* per key: where RegisterService, then keepAlive, is
  mine, got, \* per key: leaseID; the lease of the register call that runs
  ctx,       \* per key: its context is live
  lost       \* history

etcd == <<live, store, late, faults>>
rvars == <<etcd, pc, mine, got, ctx, lost>>

TypeOK ==
  /\ live \in SUBSET Leases
  /\ store \in [Keys -> Leases \cup {NoLease}]
  /\ late \in SUBSET (Keys \X Leases)
  /\ faults \in 0..MaxFaults
  /\ pc \in [Keys -> {"off", "put", "revoke", "alive", "wait", "done", "failed"}]
  /\ mine \in [Keys -> Leases \cup {NoLease}]
  /\ got \in [Keys -> Leases \cup {NoLease}]
  /\ \A k \in Keys : pc[k] \in {"put", "revoke"} => got[k] \in Leases
  /\ \A k \in Keys : pc[k] \in {"alive", "wait"} => mine[k] \in Leases
  /\ ctx \in [Keys -> BOOLEAN]
  /\ lost \in [Keys -> BOOLEAN]

Init ==
  /\ live = {}
  /\ store = [k \in Keys |-> NoLease]
  /\ late = {}
  /\ faults = 0
  /\ pc = [k \in Keys |-> "off"]
  /\ mine = [k \in Keys |-> NoLease]
  /\ got = [k \in Keys |-> NoLease]
  /\ ctx = [k \in Keys |-> TRUE]
  /\ lost = [k \in Keys |-> FALSE]

-----------------------------------------------------------------------------
(* etcd.                                                                   *)

Fault == faults < MaxFaults /\ faults' = faults + 1

\* A lease takes the keys attached to it along.
Ends(l) ==
  /\ live' = live \ {l}
  /\ store' = [k \in Keys |-> IF store[k] = l THEN NoLease ELSE store[k]]

RefreshesAfterCancel(k) == pc[k] = "alive" /\ mine[k] \in live

\* The channel of KeepAlive is open.
Refreshes(k) == pc[k] = "alive" /\ ctx[k] /\ mine[k] \in live

\* The lease somebody refreshes, or has only just been granted.
Needed(l) ==
  \E k \in Keys : \/ Refreshes(k) /\ mine[k] = l
                  \/ pc[k] = "put" /\ got[k] = l

ExpireQuietly(l) ==
  /\ l \in live
  /\ ~Needed(l)
  /\ Ends(l)
  /\ UNCHANGED <<late, faults, pc, mine, got, ctx, lost>>

\* The service cannot reach etcd for longer than the TTL.
ExpireNeeded(l) ==
  /\ l \in live
  /\ Needed(l)
  /\ Fault
  /\ Ends(l)
  /\ UNCHANGED <<late, pc, mine, got, ctx, lost>>

\* A Put under a lease that has ended is refused; any other may be lost as well.
Land(k, l) ==
  /\ <<k, l>> \in late
  /\ late' = late \ {<<k, l>>}
  /\ \/ UNCHANGED <<store, lost>>
     \/ /\ l \in live
        /\ store' = [store EXCEPT ![k] = l]
        /\ lost' = [lost EXCEPT ![k] = TRUE]
  /\ UNCHANGED <<live, faults, pc, mine, got, ctx>>

-----------------------------------------------------------------------------
(* register, called by RegisterService ("off") and by keepAlive ("wait").  *)
(* A Grant that fails leaves keepAlive where it is, and every etcd call    *)
(* fails once the context is cancelled.                                    *)

Free(l) ==
  /\ l \notin live
  /\ \A k \in Keys : l \notin {store[k], mine[k], got[k]} /\ <<k, l>> \notin late

\* One lease for all the keys of a process.
GrantSharesLease(k, l) ==
  /\ pc[k] \in {"off", "wait"}
  /\ ctx[k]
  /\ l \in live \/ Free(l)
  /\ live' = live \cup {l}
  /\ got' = [got EXCEPT ![k] = l]
  /\ pc' = [pc EXCEPT ![k] = "put"]
  /\ UNCHANGED <<store, late, faults, mine, ctx, lost>>

Grant(k, l) ==
  /\ pc[k] \in {"off", "wait"}
  /\ ctx[k]
  /\ Free(l)
  /\ live' = live \cup {l}
  /\ got' = [got EXCEPT ![k] = l]
  /\ pc' = [pc EXCEPT ![k] = "put"]
  /\ UNCHANGED <<store, late, faults, mine, ctx, lost>>

GrantFails(k) ==
  /\ pc[k] = "off"
  /\ pc' = [pc EXCEPT ![k] = "failed"]
  /\ UNCHANGED <<etcd, mine, got, ctx, lost>>

PutKeepsLeaseID(k) ==
  /\ pc[k] = "put"
  /\ ctx[k]
  /\ got[k] \in live
  /\ store' = [store EXCEPT ![k] = got[k]]
  /\ mine' = IF mine[k] = NoLease THEN [mine EXCEPT ![k] = got[k]] ELSE mine
  /\ got' = [got EXCEPT ![k] = NoLease]
  /\ pc' = [pc EXCEPT ![k] = "alive"]
  /\ lost' = [lost EXCEPT ![k] = FALSE]
  /\ UNCHANGED <<live, late, faults, ctx>>

Put(k) ==
  /\ pc[k] = "put"
  /\ ctx[k]
  /\ got[k] \in live
  /\ store' = [store EXCEPT ![k] = got[k]]
  /\ mine' = [mine EXCEPT ![k] = got[k]]
  /\ got' = [got EXCEPT ![k] = NoLease]
  /\ pc' = [pc EXCEPT ![k] = "alive"]
  /\ lost' = [lost EXCEPT ![k] = FALSE]
  /\ UNCHANGED <<live, late, faults, ctx>>

\* The client gives up on the Put; the server may yet serve it.
Abandon(k) == late' \in {late, late \cup {<<k, got[k]>>}}

PutFails(k) ==
  /\ pc[k] = "put"
  /\ ~ctx[k] \/ got[k] \notin live
  /\ Abandon(k)
  /\ pc' = [pc EXCEPT ![k] = "revoke"]
  /\ UNCHANGED <<live, store, faults, mine, got, ctx, lost>>

PutTimesOut(k) ==
  /\ pc[k] = "put"
  /\ Fault
  /\ Abandon(k)
  /\ pc' = [pc EXCEPT ![k] = "revoke"]
  /\ UNCHANGED <<live, store, mine, got, ctx, lost>>

RevokeGivesUp(k) ==
  /\ pc[k] = "revoke"
  /\ \/ ctx[k] /\ Ends(got[k])
     \/ UNCHANGED <<live, store>>
  /\ got' = [got EXCEPT ![k] = NoLease]
  /\ pc' = [pc EXCEPT ![k] = "failed"]
  /\ UNCHANGED <<late, faults, mine, ctx, lost>>

\* On the context of the Put: if that has expired, so does the lease, later.
Revoke(k) ==
  /\ pc[k] = "revoke"
  /\ \/ ctx[k] /\ Ends(got[k])
     \/ UNCHANGED <<live, store>>
  /\ got' = [got EXCEPT ![k] = NoLease]
  /\ pc' = [pc EXCEPT ![k] = IF mine[k] = NoLease THEN "failed" ELSE "wait"]
  /\ UNCHANGED <<late, faults, mine, ctx, lost>>

-----------------------------------------------------------------------------
(* keepAlive.                                                              *)

ChannelCloses(k) ==
  /\ pc[k] = "alive"
  /\ ~Refreshes(k)
  /\ pc' = [pc EXCEPT ![k] = "wait"]
  /\ UNCHANGED <<etcd, mine, got, ctx, lost>>

\* KeepAlive returns an error, or no answer to it came within the TTL.
ChannelLost(k) ==
  /\ pc[k] = "alive"
  /\ Fault
  /\ pc' = [pc EXCEPT ![k] = "wait"]
  /\ UNCHANGED <<live, store, late, mine, got, ctx, lost>>

Stop(k) ==
  /\ pc[k] = "wait"
  /\ ~ctx[k]
  /\ pc' = [pc EXCEPT ![k] = "done"]
  /\ UNCHANGED <<etcd, mine, got, ctx, lost>>

-----------------------------------------------------------------------------
(* The service.                                                            *)

Cancel(k) ==
  /\ ctx[k]
  /\ pc[k] # "off"
  /\ ctx' = [ctx EXCEPT ![k] = FALSE]
  /\ UNCHANGED <<etcd, pc, mine, got, lost>>

\* Its process dies.
Crash(k) ==
  /\ pc[k] \in {"put", "revoke", "alive", "wait"}
  /\ IF pc[k] = "put" THEN Abandon(k) ELSE UNCHANGED late
  /\ pc' = [pc EXCEPT ![k] = "done"]
  /\ got' = [got EXCEPT ![k] = NoLease]
  /\ UNCHANGED <<live, store, faults, mine, ctx, lost>>

\* It deletes the key RegisterService returned, and keepAlive goes on.
DeregisterService(k) ==
  /\ mine[k] # NoLease
  /\ store[k] # NoLease
  /\ store' = [store EXCEPT ![k] = NoLease]
  /\ lost' = [lost EXCEPT ![k] = TRUE]
  /\ UNCHANGED <<live, late, faults, pc, mine, got, ctx>>

-----------------------------------------------------------------------------
Goroutine(k) ==
  \/ \E l \in Leases : Grant(k, l)
  \/ Put(k)
  \/ PutFails(k)
  \/ Revoke(k)
  \/ ChannelCloses(k)
  \/ Stop(k)

Next ==
  \/ \E k \in Keys :
       \/ Goroutine(k)
       \/ GrantFails(k) \/ PutTimesOut(k) \/ ChannelLost(k)
       \/ Cancel(k) \/ Crash(k) \/ DeregisterService(k)
       \/ \E l \in Leases : Land(k, l)
  \/ \E l \in Leases : ExpireQuietly(l) \/ ExpireNeeded(l)

Spec == Init /\ [][Next]_rvars

\* Goroutines that can run do, etcd answers what it is asked once there are no
\* more faults, and a lease nobody refreshes ends.
FairSpec ==
  /\ Spec
  /\ \A k \in Keys : WF_rvars(pc[k] # "off" /\ Goroutine(k))
  /\ \A k \in Keys, l \in Leases : WF_rvars(Land(k, l))
  /\ \A l \in Leases : WF_rvars(ExpireQuietly(l))

-----------------------------------------------------------------------------
(* Properties.                                                             *)

\* While keepAlive refreshes a lease that lives, the key is there and attached
\* to it, however many leases were granted and given up before, unless it was
\* deregistered or a Put given up earlier came in late (register.go:109-167).
RefreshedIsRegistered ==
  \A k \in Keys : pc[k] = "alive" /\ mine[k] \in live /\ ~lost[k] => store[k] = mine[k]

\* A service that goes on is registered again after every fault that took its
\* key, unless the key was taken behind the back of a lease that is refreshed.
RegistersAgain ==
  \A k \in Keys :
    pc[k] \in {"alive", "wait"} /\ ctx[k]
      ~> store[k] # NoLease \/ ~ctx[k] \/ pc[k] = "done" \/ (pc[k] = "alive" /\ lost[k])

\* A service that stopped, whichever way, and a RegisterService that failed,
\* leave no key in etcd in the end (register.go:64-65, 84-89, 128-131, 160-164).
Stopped(k) == ~ctx[k] \/ pc[k] \in {"done", "failed"}
StoppedIsUnregistered == \A k \in Keys : Stopped(k) ~> [](store[k] = NoLease)

\* What readers of the keys see is a registry whose keys come and go one by one:
\* a lease that ends takes one key at most, however leases are granted, given up
\* and granted again (register.go:154-167).
Registry == INSTANCE Registry WITH registered <- {k \in Keys : store[k] # NoLease}
IsRegistry == Registry!Spec
=================================================================================
