------------------------------ MODULE KvUsesProofs ------------------------------
(***************************************************************************)
(* The two modules that decide when the operations of a Kv run, its lock   *)
(* and the etcd driver.  Both only keep steps of the Kv waiting, so what   *)
(* KvProofs says of every Kv holds there too, and they add to it.          *)
(***************************************************************************)
EXTENDS KvLock, EtcdDriver, KvProofs

-----------------------------------------------------------------------------
(* KvLock: the Kv with its lock implements the Kv without.                 *)

LEMMA LockedStepIsKvStep == IInv /\ [KNext]_kvars => [Next]_vars
  <1> SUFFICES ASSUME IInv, [KNext]_kvars PROVE [Next]_vars
    OBVIOUS
  <1>1. CASE \E k \in Keys, v \in Stored : Commit(k, v) /\ UNCHANGED lockVars
    BY <1>1 DEF Next
  <1>2. ASSUME NEW r \in Readers, (\E k \in Keys : KLookup(r, k)) \/ KFetch(r) \/ KFill(r)
        PROVE  [Next]_vars
    BY <1>2 DEF KLookup, KFetch, KFill, Waits, Next, Reader
  <1>3. CASE KPreloadGet \/ KPreloadApply \/ \E k \in Keys : KOnKeyChange(k)
    BY <1>3 DEF KPreloadGet, KPreloadApply, KOnKeyChange, Waits, Next
  <1>4. ASSUME NEW s \in Streams, KHandle(s)
        PROVE  [Next]_vars
    <2>1. CASE UNCHANGED vars
      BY <2>1
    <2>2. ASSUME NEW k \in Keys, Handle(s, pos[s] + 1, k)
          PROVE  [Next]_vars
      <3>1. pos[s] + 1 \in 1..Rev
        BY <2>2 DEF Handle, Drop, HandlePut, HandleDelete, Delivers, IInv, TypeOK
      <3> QED BY <2>2, <3>1 DEF Next, Stream
    <2> QED BY <1>4, <2>1, <2>2 DEF KHandle, Waits
  <1>5. ASSUME NEW s \in Streams,
               EnterHooks(s) \/ LeaveHooks(s) \/ HookPanics(s) \/ HookReads(s)
                 \/ HookWrites(s)
        PROVE  [Next]_vars
    BY <1>5 DEF EnterHooks, LeaveHooks, HookPanics, HookReads, HookWrites, Next, Stream
  <1>6. ASSUME NEW s \in Streams, KWatch(s) \/ KStop(s)
        PROVE  [Next]_vars
    BY <1>6 DEF KWatch, KStop, Next
  <1>7. CASE UNCHANGED kvars
    BY <1>7 DEF kvars
  <1> QED BY <1>1, <1>2, <1>3, <1>4, <1>5, <1>6, <1>7 DEF KNext, Goroutine

\* Adding the lock adds no behaviour: what is proved of the Kv whose steps come in
\* any order holds of the one whose steps wait for k.mu (kv.go:64, 94, 216, 235, 257, 273, 286).
THEOREM LockedIsKv == KSpec => Spec
  <1>1. KInit => Init
    BY DEF KInit
  <1> QED BY <1>1, InitInv, LockedStepIsKvStep, StepInv, PTL DEF KSpec, Spec

LEMMA KStepTyped == ASSUME KTypeOK, IInv, [KNext]_kvars PROVE KTypeOK'
  <1>1. TypeOK'
    BY LockedStepIsKvStep, StepInv DEF IInv
  <1> SUFFICES /\ hk' \in [Streams -> {"out", "in", "read", "write"}]
               /\ \A s \in Streams : hk'[s] # "out" => ws'[s] = "hook"
               /\ pending' \in Threads \cup {NoThread}
               /\ leaked' \in BOOLEAN
    BY <1>1 DEF KTypeOK
  <1> USE DEF KTypeOK, Threads
  <1>2. CASE \E k \in Keys, v \in Stored : Commit(k, v) /\ UNCHANGED lockVars
    BY <1>2 DEF Commit, lockVars
  <1>3. ASSUME NEW r \in Readers, (\E k \in Keys : KLookup(r, k)) \/ KFetch(r) \/ KFill(r)
        PROVE  /\ hk' = hk /\ ws' = ws /\ leaked' = leaked
               /\ pending' \in Threads \cup {NoThread}
    BY <1>3 DEF KLookup, Lookup, KFetch, Fetch, FetchFail, KFill, Fill, Locks, Waits, lockVars, vars
  <1>4. CASE KPreloadGet \/ KPreloadApply \/ \E k \in Keys : KOnKeyChange(k)
    BY <1>4 DEF KPreloadGet, PreloadGet, KPreloadApply, PreloadApply, KOnKeyChange, OnKeyChange,
                Locks, Waits, lockVars, vars
  <1>5. ASSUME NEW s \in Streams,
               KHandle(s) \/ KWatch(s) \/ KStop(s)
        PROVE  /\ hk' = hk /\ leaked' = leaked
               /\ \A t \in Streams : ws[t] = "hook" => ws'[t] = "hook"
               /\ pending' \in Threads \cup {NoThread}
    BY <1>5 DEF KHandle, KWatch, KStop, Watch, Stop, Locks, Waits, Handle, Drop, HandlePut,
                HandleDelete, Delivers, lockVars, vars, TypeOK
  <1>6. ASSUME NEW s \in Streams,
               EnterHooks(s) \/ LeaveHooks(s) \/ HookPanics(s) \/ HookReads(s)
                 \/ HookWrites(s)
        PROVE  /\ hk' \in [Streams -> {"out", "in", "read", "write"}]
               /\ \A t \in Streams : hk'[t] # "out" => ws'[t] = "hook"
               /\ pending' \in Threads \cup {NoThread}
               /\ leaked' \in BOOLEAN
    BY <1>6 DEF EnterHooks, LeaveHooks, HookPanics, HookReads, HookWrites, Hooks,
                RunHooks, HooksPanic, vars, TypeOK
  <1>7. CASE UNCHANGED kvars
    BY <1>7 DEF kvars, vars, lockVars
  <1> QED BY <1>2, <1>3, <1>4, <1>5, <1>6, <1>7 DEF KNext, Goroutine

\* A goroutine has the read lock for hooks only between an entry that changed and
\* its next event, whoever else waits for the lock (kv.go:233-243).
THEOREM LockTypeCorrect == KSpec => []KTypeOK
  <1>1. KInit => KTypeOK
    BY InitInv DEF KInit, KTypeOK, IInv
  <1> QED BY <1>1, KStepTyped, LockedIsKv, Invariance, PTL DEF KSpec

-----------------------------------------------------------------------------
(* EtcdDriver: the Kv inside the driver.                                   *)

\* The options and the phases are those of etcd.go; Preload is under way in one
\* phase only, and no watch goroutine runs before the watch phase.
PhaseInv ==
  /\ opts \in Options
  /\ phase \in {"preload", "apply", "watch", "open", "closed", "failed", "panicked"}
  /\ client \in {"open", "closed"}
  /\ ctx \in {"live", "cancelled"}
  /\ pl.pc = "apply" <=> phase = "apply"
  /\ phase \in {"preload", "apply"} => \A s \in Streams : ws[s] = "off"
  /\ \A s \in Streams : ws[s] = "off" => pos[s] = 0

\* Every step of the driver is a step of its Kv, or leaves the Kv alone.
LEMMA DStepIsKvStep == [DNext]_dvars => [Next]_vars
  <1> SUFFICES ASSUME [DNext]_dvars PROVE [Next]_vars
    OBVIOUS
  <1>1. CASE DCommit
    BY <1>1 DEF DCommit, Next
  <1>2. CASE DPreloadGet \/ DPreloadApply
    BY <1>2 DEF DPreloadGet, DPreloadApply, Next
  <1>3. CASE DPreloadFail \/ NoPreload \/ Open \/ OnKeyChangePanics \/ Close
    BY <1>3 DEF DPreloadFail, NoPreload, Open, OnKeyChangePanics, Close
  <1>4. ASSUME NEW s \in Streams, DWatch(s) \/ DStream(s) \/ Ends(s) \/ Lost(s)
        PROVE  Next
    BY <1>4 DEF DWatch, DStream, Ends, Lost, Next
  <1>5. ASSUME NEW r \in Readers, DReader(r) PROVE Next
    <2>1. Reader(r)
      BY <1>5 DEF DReader, Reader
    <2> QED BY <2>1 DEF Next
  <1>6. ASSUME NEW k \in Keys, DOnKeyChange(k) PROVE Next
    BY <1>6 DEF DOnKeyChange, Next
  <1>7. CASE UNCHANGED dvars
    BY <1>7 DEF dvars
  <1> QED BY <1>1, <1>2, <1>3, <1>4, <1>5, <1>6, <1>7 DEF DNext

\* The driver implements the Kv: whatever is proved of a Kv used in any order
\* holds of the one inside the driver (etcd.go:89-124, 137-196).
THEOREM DriverIsKv == DSpec => Spec
  <1>1. DInit => Init
    BY DEF DInit
  <1> QED BY <1>1, DStepIsKvStep, PTL DEF DSpec, Spec

LEMMA PhaseStep == IInv /\ PhaseInv /\ [DNext]_dvars => PhaseInv'
  <1> SUFFICES ASSUME IInv, PhaseInv, [DNext]_dvars PROVE PhaseInv'
    OBVIOUS
  <1> USE DEF PhaseInv
  <1>1. CASE DCommit
    BY <1>1 DEF DCommit, Commit, driverVars
  <1>2. CASE DPreloadGet
    BY <1>2 DEF DPreloadGet, PreloadGet
  <1>3. CASE DPreloadApply
    BY <1>3 DEF DPreloadApply, PreloadApply
  <1>4. CASE DPreloadFail \/ NoPreload \/ Open \/ OnKeyChangePanics \/ Close
    BY <1>4 DEF DPreloadFail, NoPreload, Open, OnKeyChangePanics, Close, vars
  <1>5. ASSUME NEW s \in Streams, DWatch(s) \/ DStream(s) \/ Ends(s) \/ Lost(s)
        PROVE  PhaseInv'
    <2>1. UNCHANGED <<driverVars, pl>> /\ ws \in [Streams -> {"off", "idle", "hook", "stopped"}]
      BY <1>5 DEF DWatch, DStream, Ends, Lost, Watch, Stop, Stream, Handle, Drop, HandlePut,
                  HandleDelete, Delivers, RunHooks, IInv, TypeOK
    <2>2. phase \notin {"preload", "apply"}
      BY <1>5 DEF DWatch, DStream, Ends, Lost, Watch, Stop, Stream, Handle, Drop, HandlePut,
                  HandleDelete, Delivers, RunHooks
    <2>3. ws'[s] # "off"
      BY <1>5, <2>1 DEF DWatch, DStream, Ends, Lost, Watch, Stop, Stream, Handle, Drop, HandlePut,
                  HandleDelete, Delivers, RunHooks
    <2>4. \A t \in Streams \ {s} : ws'[t] = ws[t] /\ pos'[t] = pos[t]
      BY <1>5, <2>1 DEF DWatch, DStream, Ends, Lost, Watch, Stop, Stream, Handle, Drop, HandlePut,
                  HandleDelete, Delivers, RunHooks, IInv, TypeOK
    <2> QED BY <2>1, <2>2, <2>3, <2>4 DEF driverVars
  <1>6. ASSUME NEW r \in Readers, DReader(r) PROVE PhaseInv'
    BY <1>6 DEF DReader, Lookup, Fetch, FetchFail, Fill, driverVars
  <1>7. ASSUME NEW k \in Keys, DOnKeyChange(k) PROVE PhaseInv'
    BY <1>7 DEF DOnKeyChange, OnKeyChange, driverVars
  <1>8. CASE UNCHANGED dvars
    BY <1>8 DEF dvars, vars, driverVars
  <1> QED BY <1>1, <1>2, <1>3, <1>4, <1>5, <1>6, <1>7, <1>8 DEF DNext

THEOREM PhaseInvariance == DSpec => [](IInv /\ PhaseInv)
  <1>1. DInit => PhaseInv
    BY DEF DInit, Init, PhaseInv
  <1> QED BY <1>1, PhaseStep, DriverIsKv, Invariance, PTL DEF DSpec

\* Every reachable state of the driver, of its client and of its Kv is well typed
\* (etcd.go:25-43, 79-124).
THEOREM DriverTypeCorrect == DSpec => []DTypeOK
  <1>1. IInv /\ PhaseInv => DTypeOK
    BY DEF IInv, PhaseInv, DTypeOK
  <1> QED BY <1>1, PhaseInvariance, PTL

\* In the driver Preload makes nothing stale, so two windows are left of the
\* three a Kv has (etcd.go:93-124).
THEOREM DriverStaleWindows == DSpec => StaleOnlyWhenFilledOrStarting
  <1>1. ASSUME IInv, PhaseInv, [DNext]_dvars, NEW k \in Keys, Stale(k)', ~Stale(k), InWindow(k)
        PROVE  FilledOrStarting(k)
    <2>1. CASE ~Cached(k)
      BY <2>1 DEF FilledOrStarting
    <2>2. CASE pl.pc = "apply"
      <3>1. phase = "apply" /\ \A s \in Streams : pos[s] = 0
        BY <1>1, <2>2 DEF PhaseInv
      <3>2. pos' = pos
        <4>1. CASE DCommit \/ DPreloadApply \/ UNCHANGED dvars
          BY <4>1 DEF DCommit, Commit, DPreloadApply, PreloadApply, dvars, vars
        <4>2. CASE \E s \in Streams : DStream(s) \/ Ends(s) \/ Lost(s)
          BY <1>1, <3>1, <4>2 DEF PhaseInv, DStream, Ends, Lost, Stop, Stream, Handle, Drop,
                  HandlePut, HandleDelete, Delivers, RunHooks
        <4> QED BY <1>1, <3>1, <4>1, <4>2 DEF DNext, DPreloadGet, DPreloadFail, NoPreload, DWatch,
                  Open, DReader, DOnKeyChange, OnKeyChangePanics, Close
      <3>3. PICK i \in 1..Rev' : \A s \in Streams : pos'[s] >= i
        BY <1>1 DEF Stale, Passed
      <3>4. PICK s \in Streams : TRUE
        BY KvAssumption
      <3> QED BY <3>1, <3>2, <3>3, <3>4
    <2>3. CASE \E s \in Streams : ws[s] = "off" /\ ws'[s] # "off"
      <3>1. PICK s \in Streams : ws[s] = "off" /\ ws'[s] # "off"
        BY <2>3
      <3>2. CASE \E t \in Streams : DWatch(t)
        BY <3>2 DEF DWatch, FilledOrStarting
      <3>3. CASE \E t \in Streams : DStream(t) \/ Ends(t) \/ Lost(t)
        BY <1>1, <3>1, <3>3 DEF DStream, Ends, Lost, Stop, Stream, Handle, Drop, HandlePut,
                HandleDelete, Delivers, RunHooks, IInv, TypeOK
      <3>4. CASE ws' = ws
        BY <3>1, <3>4
      <3> QED BY <1>1, <3>2, <3>3, <3>4 DEF DNext, DCommit, Commit, DPreloadGet, PreloadGet,
                DPreloadApply, PreloadApply, DPreloadFail, NoPreload, Open, DReader, Lookup, Fetch,
                FetchFail, Fill, DOnKeyChange, OnKeyChange, OnKeyChangePanics, Close, dvars, vars
    <2> QED BY <1>1, <2>1, <2>2, <2>3 DEF InWindow
  <1>2. DSpec => StaleOnlyFromWindows
    BY DriverIsKv, StaleWindows
  <1>3. /\ IInv /\ PhaseInv
        /\ [DNext]_dvars
        /\ [\A k \in Keys : Stale(k)' /\ ~Stale(k) => InWindow(k)]_vars
        => [\A k \in Keys : Stale(k)' /\ ~Stale(k) => FilledOrStarting(k)]_dvars
    <2>1. ASSUME UNCHANGED vars, NEW k \in Keys PROVE Stale(k)' = Stale(k)
      BY <2>1 DEF vars, Stale, Passed, Cached, Rev
    <2> QED BY <1>1, <2>1
  <1> QED BY <1>2, <1>3, PhaseInvariance, PTL
          DEF DSpec, StaleOnlyFromWindows, StaleOnlyWhenFilledOrStarting

-----------------------------------------------------------------------------
(* Hooks and cache, with one watch goroutine.                              *)

Announced(s) == hist[pos[s]].key
Pending(k) == \E s \in Streams : ws[s] = "hook" /\ Announced(s) = k

\* Hooks are told of cached keys only; the change a goroutine is about to
\* announce is still in the cache; any other key was announced as it is.
HookInvariant ==
  /\ \A k \in Keys : told[k] # Absent => Cached(k) /\ hooks[k] > 0
  /\ phase \in {"preload", "apply"} => \A k \in Keys : told[k] = Absent
  /\ \A s \in Streams :
       ws[s] = "hook" => /\ At(Announced(s), pos[s]) # Absent
                         /\ entries[Announced(s)] = Present(At(Announced(s), pos[s]))
  /\ \A k \in Keys :
       told[k] # Absent /\ entries[k].exists /\ ~Pending(k) => told[k] = entries[k].value

\* What is cached is told apart from what is not.
LEMMA EntriesAreCached ==
  /\ Missing # NoEntry /\ ~Missing.exists
  /\ \A v \in Stored : v # Absent => Present(v) # NoEntry /\ Present(v).exists /\ Present(v).value = v
  <1>1. Missing \in Entry /\ ~Missing.exists
    BY KvAssumption DEF Missing, Entry
  <1>2. ASSUME NEW v \in Stored, v # Absent
        PROVE  Present(v) \in Entry /\ Present(v).exists /\ Present(v).value = v
    BY <1>2 DEF Present, Entry, Stored
  <1> QED BY <1>1, <1>2, KvAssumption

\* What stays the same of the changes being announced when no stream moves.
LEMMA QuietStep ==
  ASSUME IInv, HookInvariant, UNCHANGED <<ws, pos, told>>,
         \A i \in 1..Rev : hist'[i] = hist[i],
         \A k \in Keys : hooks'[k] >= hooks[k] /\ hooks'[k] \in Nat,
         \A k \in Keys : Cached(k) => entries'[k] = entries[k],
         phase' \in {"preload", "apply"} => phase \in {"preload", "apply"}
  PROVE  HookInvariant'
  <1>1. ASSUME NEW s \in Streams, ws[s] = "hook"
        PROVE  /\ pos[s] \in 1..Rev /\ Announced(s) \in Keys
               /\ Announced(s)' = Announced(s)
               /\ At(Announced(s), pos[s])' = At(Announced(s), pos[s])
    BY <1>1 DEF IInv, RevisionsCommitted, Announced, At
  <1>2. \A k \in Keys : Pending(k)' = Pending(k)
    BY <1>1 DEF Pending
  <1>3. \A k \in Keys : told'[k] # Absent => Cached(k)' /\ hooks'[k] > 0
    <2> SUFFICES ASSUME NEW k \in Keys, told[k] # Absent
                 PROVE  Cached(k)' /\ hooks'[k] > 0
      OBVIOUS
    <2>1. Cached(k) /\ hooks[k] > 0 /\ hooks[k] \in Nat
      BY DEF HookInvariant, IInv, TypeOK
    <2>2. Cached(k)'
      BY <2>1 DEF Cached
    <2> QED BY <2>1, <2>2
  <1>4. \A s \in Streams :
          ws'[s] = "hook" => /\ At(Announced(s), pos[s])' # Absent
                             /\ entries'[Announced(s)'] = Present(At(Announced(s), pos[s])')
    <2> SUFFICES ASSUME NEW s \in Streams, ws[s] = "hook"
                 PROVE  /\ At(Announced(s), pos[s])' # Absent
                        /\ entries'[Announced(s)'] = Present(At(Announced(s), pos[s])')
      OBVIOUS
    <2>1. At(Announced(s), pos[s]) # Absent /\ At(Announced(s), pos[s]) \in Stored
      BY <1>1, RevisionType DEF HookInvariant, IInv
    <2>2. Present(At(Announced(s), pos[s])) # NoEntry
      BY <2>1, EntriesAreCached
    <2>3. Cached(Announced(s))
      BY <2>2 DEF HookInvariant, Cached
    <2> QED BY <1>1, <2>1, <2>3 DEF HookInvariant, Present
  <1>5. \A k \in Keys :
          told'[k] # Absent /\ entries'[k].exists /\ ~Pending(k)' => told'[k] = entries'[k].value
    BY <1>2 DEF HookInvariant
  <1> QED BY <1>3, <1>4, <1>5 DEF HookInvariant, Present

LEMMA HookReader ==
  ASSUME IInv, PhaseInv, HookInvariant, NEW r \in Readers, DReader(r)
  PROVE  HookInvariant'
  <1>1. /\ UNCHANGED <<hist, hooks, ws, pos, told, phase>>
        /\ \A k \in Keys : Cached(k) => entries'[k] = entries[k]
    BY DEF DReader, Lookup, Fetch, FetchFail, Fill, driverVars, IInv, TypeOK, Cached
  <1>2. \A k \in Keys : hooks'[k] >= hooks[k] /\ hooks'[k] \in Nat
    BY <1>1 DEF IInv, TypeOK
  <1> QED BY <1>1, <1>2, QuietStep

\* While Preload is under way no hook was ever called and no goroutine runs.
LEMMA HookPreload ==
  ASSUME IInv, PhaseInv, HookInvariant, DPreloadApply
  PROVE  HookInvariant'
  <1>1. /\ \A k \in Keys : told[k] = Absent
        /\ \A s \in Streams : ws[s] = "off"
        /\ UNCHANGED <<told, ws>>
        /\ phase' = "watch"
    BY DEF DPreloadApply, PreloadApply, HookInvariant, PhaseInv
  <1> QED BY <1>1 DEF HookInvariant

LEMMA HookHandle ==
  ASSUME IInv, PhaseInv, HookInvariant, \A t, u \in Streams : t = u,
         NEW s \in Streams, NEW i \in 1..Rev, NEW k \in Keys, Handle(s, i, k),
         UNCHANGED driverVars
  PROVE  HookInvariant'
  <1>1. /\ UNCHANGED <<hist, hooks, told, phase>>
        /\ hist[i].key = k /\ pos'[s] = i /\ ws[s] = "idle"
        /\ Rev \in Nat /\ i \in Nat /\ At(k, i) \in Stored
    BY RevisionType DEF Handle, Drop, HandlePut, HandleDelete, Delivers, driverVars, IInv, TypeOK, Rev
  <1>2. \A t \in Streams : t = s
    OBVIOUS
  <1>3. \A q \in Keys : ~Pending(q)
    BY <1>1, <1>2 DEF Pending
  <1>4. phase \notin {"preload", "apply"}
    BY <1>1 DEF PhaseInv
  <1>5. \A q \in Keys \ {k} : entries'[q] = entries[q]
    BY DEF Handle, Drop, HandlePut, HandleDelete, IInv, TypeOK
  <1>6. CASE /\ At(k, i) # Absent
             /\ entries'[k] = Present(At(k, i))
             /\ ws'[s] = "hook"
    <2>1. Announced(s)' = k /\ At(k, i)' = At(k, i)
      BY <1>1 DEF Announced, At
    <2>2. Pending(k)'
      BY <1>6, <2>1 DEF Pending
    <2>3. Cached(k)'
      BY <1>1, <1>6, EntriesAreCached DEF Cached
    <2> QED BY <1>1, <1>2, <1>3, <1>4, <1>5, <1>6, <2>1, <2>2, <2>3
            DEF HookInvariant, Cached, Announced, At, Present
  <1>7. CASE ws'[s] = "idle" /\ entries'[k] = entries[k]
    BY <1>1, <1>2, <1>3, <1>4, <1>5, <1>7 DEF HookInvariant, Cached
  <1>8. CASE ws'[s] = "idle" /\ entries'[k] = Missing
    <2>1. Cached(k)' /\ ~entries'[k].exists
      BY <1>8, EntriesAreCached DEF Cached
    <2> QED BY <1>1, <1>2, <1>3, <1>4, <1>5, <1>8, <2>1 DEF HookInvariant, Cached
  <1> QED BY <1>1, <1>6, <1>7, <1>8 DEF Handle, Drop, HandlePut, HandleDelete, IInv, TypeOK

\* The hooks are told what the cache holds, for it is the goroutine that
\* announces a change that would have to make the next one.
LEMMA HookRun ==
  ASSUME IInv, PhaseInv, HookInvariant, \A t, u \in Streams : t = u,
         NEW s \in Streams, RunHooks(s), UNCHANGED driverVars
  PROVE  HookInvariant'
  <1> DEFINE k == Announced(s)
  <1>1. /\ UNCHANGED <<hist, entries, hooks, pos, phase>>
        /\ ws[s] = "hook" /\ ws'[s] = "idle"
        /\ k \in Keys /\ pos[s] \in 1..Rev
        /\ hooks[k] \in Nat
    BY DEF RunHooks, driverVars, IInv, TypeOK, RevisionsCommitted, Announced
  <1>2. told' = IF hooks[k] > 0 THEN [told EXCEPT ![k] = At(k, pos[s])] ELSE told
    BY DEF RunHooks, Announced
  <1>3. /\ At(k, pos[s]) # Absent /\ At(k, pos[s]) \in Stored
        /\ entries[k] = Present(At(k, pos[s]))
    BY <1>1, RevisionType DEF HookInvariant, IInv
  <1>4. Cached(k)
    BY <1>3, EntriesAreCached DEF Cached
  <1>5. \A t \in Streams : ws'[t] = "idle"
    BY <1>1
  <1>6. phase \notin {"preload", "apply"}
    BY <1>1 DEF PhaseInv
  <1>7. \A q \in Keys \ {k} : told'[q] = told[q] /\ ~Pending(q)
    BY <1>1, <1>2 DEF Pending, IInv, TypeOK
  <1>8. \/ hooks[k] > 0 /\ told'[k] = entries[k].value
        \/ told'[k] = told[k] /\ told[k] = Absent
    BY <1>1, <1>2, <1>3 DEF HookInvariant, IInv, TypeOK, Present
  <1> HIDE DEF k
  <1> QED BY <1>1, <1>4, <1>5, <1>6, <1>7, <1>8 DEF HookInvariant, Cached

LEMMA HookStep ==
  ASSUME IInv, PhaseInv, HookInvariant, \A t, u \in Streams : t = u, [DNext]_dvars
  PROVE  HookInvariant'
  <1>0. \A k \in Keys : hooks[k] \in Nat
    BY DEF IInv, TypeOK
  <1>1. CASE DCommit
    <2>1. PICK k \in Keys, v \in Stored : Commit(k, v)
      BY <1>1 DEF DCommit
    <2>2. \A i \in 1..Rev : hist'[i] = hist[i]
      BY <2>1, CommitAppends DEF IInv
    <2>3. UNCHANGED <<entries, hooks, ws, pos, told, phase>>
      BY <1>1, <2>1 DEF Commit, DCommit, driverVars
    <2> QED BY <1>0, <2>2, <2>3, QuietStep
  <1>2. CASE DPreloadApply
    BY <1>2, HookPreload
  <1>3. CASE \/ DPreloadGet \/ DPreloadFail \/ NoPreload
             \/ Open \/ OnKeyChangePanics \/ Close \/ UNCHANGED dvars
    BY <1>0, <1>3, QuietStep DEF DPreloadGet, PreloadGet, DPreloadFail, NoPreload, Open,
            OnKeyChangePanics, Close,
            dvars, vars, driverVars
  <1>4. ASSUME NEW s \in Streams, DStream(s) PROVE HookInvariant'
    BY <1>4, HookHandle, HookRun DEF DStream, Stream
  <1>5. ASSUME NEW s \in Streams, DWatch(s) \/ Ends(s) \/ Lost(s) PROVE HookInvariant'
    <2>1. /\ UNCHANGED <<hist, entries, hooks, told, phase>>
          /\ ws[s] # "hook" /\ ws'[s] # "hook"
      BY <1>5 DEF DWatch, Watch, Ends, Lost, Stop, driverVars, IInv, TypeOK
    <2>2. \A t \in Streams : t = s
      OBVIOUS
    <2>3. \A k \in Keys : ~Pending(k)
      BY <2>1, <2>2 DEF Pending
    <2> QED BY <2>1, <2>2, <2>3 DEF HookInvariant, Cached
  <1>6. ASSUME NEW r \in Readers, DReader(r) PROVE HookInvariant'
    BY <1>6, HookReader
  <1>7. ASSUME NEW k \in Keys, DOnKeyChange(k) PROVE HookInvariant'
    <2>1. /\ UNCHANGED <<hist, entries, ws, pos, told, phase>>
          /\ \A q \in Keys : hooks'[q] >= hooks[q] /\ hooks'[q] \in Nat
      BY <1>0, <1>7 DEF DOnKeyChange, OnKeyChange, driverVars, IInv, TypeOK
    <2> QED BY <2>1, QuietStep
  <1> QED BY <1>1, <1>2, <1>3, <1>4, <1>5, <1>6, <1>7 DEF DNext

\* With one watch goroutine the hooks and the cache of a driver never part for
\* longer than one announcement, however many keys, callers and hooks there are
\* (kv.go:213-254, etcd.go:117-148).
THEOREM HooksFollow ==
  ASSUME \A t, u \in Streams : t = u
  PROVE  DSpec => []HooksFollowEntry
  <1>1. DInit => HookInvariant
    BY DEF DInit, Init, HookInvariant
  <1>2. IInv /\ PhaseInv /\ HookInvariant /\ [DNext]_dvars => HookInvariant'
    BY HookStep
  <1>3. HookInvariant => HooksFollowEntry
    BY DEF HookInvariant, HooksFollowEntry, Pending
  <1> QED BY <1>1, <1>2, <1>3, PhaseInvariance, PTL DEF DSpec
=================================================================================
