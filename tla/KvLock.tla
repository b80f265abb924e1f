--------------------------------- MODULE KvLock ---------------------------------
(***************************************************************************)
(* etcdutil/kv.go: the RWMutex k.mu of a Kv, and hooks that do what they   *)
(* please.  Handle runs the hooks of a key under the read lock: they may   *)
(* return, panic (Watcher recovers it, but Handle has no deferred          *)
(* RUnlock), read a key through Get, or ask for the write lock, which      *)
(* OnKeyChange and a Get that misses do.                                   *)
(*                                                                         *)
(* The steps are those of module Kv; this module says when each of them    *)
(* gets the lock it needs.  Every section but the one that runs hooks is   *)
(* still one step, so nobody holds the write lock between two steps.  As   *)
(* in Go, the first writer to wait (pending) keeps new readers out, and    *)
(* further writers wait behind it.                                         *)
(***************************************************************************)
EXTENDS Kv

CONSTANTS
  NoThread,
  Preloader,   \* the caller of Preload
  Registrant   \* a caller of OnKeyChange that is no hook

Threads == Readers \cup Streams \cup {Preloader, Registrant}

ASSUME KvLockAssumption == NoThread \notin Threads

VARIABLES
  hk,       \* per stream: what its hooks do, once it has the read lock for them
  pending,  \* the thread whose Lock waits for readers to leave
  leaked    \* a hook panicked: its read lock is never given back

lockVars == <<hk, pending, leaked>>
kvars == <<vars, lockVars>>

KTypeOK ==
  /\ TypeOK
  /\ hk \in [Streams -> {"out", "in", "read", "write"}]
  /\ \A s \in Streams : hk[s] # "out" => ws[s] = "hook"
  /\ pending \in Threads \cup {NoThread}
  /\ leaked \in BOOLEAN

KInit ==
  /\ Init
  /\ hk = [s \in Streams |-> "out"]
  /\ pending = NoThread
  /\ leaked = FALSE

-----------------------------------------------------------------------------
(* sync.RWMutex.                                                           *)

ReadLocked == leaked \/ \E s \in Streams : hk[s] # "out"

CanRLock == pending = NoThread

\* t gets the write lock, and gives it back in the same step.
Locks(t) ==
  /\ ~ReadLocked
  /\ pending \in {NoThread, t}
  /\ pending' = NoThread
  /\ UNCHANGED <<hk, leaked>>

\* t calls Lock and has to wait.
Waits(t) ==
  /\ ReadLocked
  /\ pending = NoThread
  /\ pending' = t
  /\ UNCHANGED <<vars, hk, leaked>>

-----------------------------------------------------------------------------
(* Callers of the Kv.                                                      *)

KLookup(r, k) == CanRLock /\ Lookup(r, k) /\ UNCHANGED lockVars

KFetch(r) == (Fetch(r) \/ FetchFail(r)) /\ UNCHANGED lockVars

KFill(r) ==
  \/ Locks(r) /\ Fill(r)
  \/ rd[r].pc = "fill" /\ Waits(r)

KPreloadGet == PreloadGet /\ UNCHANGED lockVars

KPreloadApply ==
  \/ Locks(Preloader) /\ PreloadApply
  \/ pl.pc = "apply" /\ Waits(Preloader)

KOnKeyChange(k) ==
  \/ Locks(Registrant) /\ OnKeyChange(k)
  \/ hooks[k] < MaxHooks /\ Waits(Registrant)

-----------------------------------------------------------------------------
(* Watch goroutines.                                                       *)

KWatch(s) == Watch(s) /\ UNCHANGED lockVars

\* Line 222 left out.
KHandleKeepsLock(s) ==
  LET i == pos[s] + 1 IN
  \/ \E k \in Keys :
       /\ ~ReadLocked
       /\ pending \in {NoThread, s}
       /\ Handle(s, i, k)
       /\ pending' = IF Cached(k) THEN NoThread ELSE s
       /\ UNCHANGED <<hk, leaked>>
  \/ ws[s] = "idle" /\ i <= Rev /\ Waits(s)

KHandle(s) ==
  LET i == pos[s] + 1 IN
  \/ \E k \in Keys : i <= Rev /\ Locks(s) /\ Handle(s, i, k)
  \/ ws[s] = "idle" /\ i <= Rev /\ Waits(s)

\* The hooks of s go on to `to`.
Hooks(s, from, to) ==
  /\ ws[s] = "hook"
  /\ hk[s] = from
  /\ hk' = [hk EXCEPT ![s] = to]

EnterHooks(s) ==
  /\ CanRLock
  /\ Hooks(s, "out", "in")
  /\ UNCHANGED <<vars, pending, leaked>>

LeaveHooks(s) ==
  /\ Hooks(s, "in", "out")
  /\ RunHooks(s)
  /\ UNCHANGED <<pending, leaked>>

\* Recovered by the watch goroutine, which goes on to its next event.
HookPanics(s) ==
  /\ Hooks(s, "in", "out")
  /\ HooksPanic(s)
  /\ leaked' = TRUE
  /\ UNCHANGED pending

\* A hook calls Get: RLock, once more.  It returns at once, which is no step, unless
\* a writer waits; that one waits for the hooks to leave, so neither goes on.
HookReads(s) ==
  /\ ~CanRLock
  /\ Hooks(s, "in", "read")
  /\ hooks[hist[pos[s]].key] > 0
  /\ UNCHANGED <<vars, pending, leaked>>

\* A hook calls OnKeyChange, or its Get has missed: Lock, under its own RLock.
HookWrites(s) ==
  /\ Hooks(s, "in", "write")
  /\ hooks[hist[pos[s]].key] > 0
  /\ pending' = IF CanRLock THEN s ELSE pending
  /\ UNCHANGED <<vars, leaked>>

KStop(s) == pending # s /\ Stop(s) /\ UNCHANGED lockVars

Goroutine(s) ==
  \/ KHandle(s)
  \/ EnterHooks(s)
  \/ LeaveHooks(s)

-----------------------------------------------------------------------------
KNext ==
  \/ \E k \in Keys, v \in Stored : Commit(k, v) /\ UNCHANGED lockVars
  \/ \E r \in Readers : (\E k \in Keys : KLookup(r, k)) \/ KFetch(r) \/ KFill(r)
  \/ KPreloadGet
  \/ KPreloadApply
  \/ \E k \in Keys : KOnKeyChange(k)
  \/ \E s \in Streams :
       \/ KWatch(s)
       \/ Goroutine(s)
       \/ HookPanics(s) \/ HookReads(s) \/ HookWrites(s)
       \/ KStop(s)

KSpec == KInit /\ [][KNext]_kvars

\* Threads that can run do; a caller of OnKeyChange that waits is one of them, and so
\* are hooks: what they do ends.
FairKSpec ==
  /\ KSpec
  /\ \A r \in Readers : WF_kvars(KFill(r))
  /\ WF_kvars(KPreloadApply)
  /\ WF_kvars(pending = Registrant /\ \E k \in Keys : KOnKeyChange(k))
  /\ \A s \in Streams : WF_kvars(Goroutine(s))

-----------------------------------------------------------------------------
(* Properties.                                                             *)

\* The lock is lost for good: a hook panicked and took the read lock with it, a
\* hook waits for the write lock under its own read lock, or it waits for one more
\* read lock behind a writer that waits for the first.
LockIsLost ==
  \/ leaked
  \/ \E s \in Streams : hk[s] \in {"read", "write"}

\* Until the lock is lost it is live: a Get that has its answer caches it and
\* returns, whatever writers, events and hooks wait for, hooks that read through
\* Get included (kv.go:124-129, 269-297; 233-243 hold the read lock longest).
GetReturns ==
  \A r \in Readers : rd[r].pc = "fill" ~> rd[r].pc # "fill" \/ LockIsLost

\* Until then no event waits for ever either (watcher.go:102-124).  A panic of a
\* hook does not stop a goroutine, but it loses the lock, and with it the next event.
EventsAreHandled ==
  \A s \in Streams :
    ws[s] \in {"idle", "hook"} /\ pos[s] < Rev
      ~> ws[s] = "stopped" \/ pos[s] = Rev \/ LockIsLost
=================================================================================
