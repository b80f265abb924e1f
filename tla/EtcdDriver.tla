------------------------------- MODULE EtcdDriver -------------------------------
(***************************************************************************)
(* config/driver/etcd/etcd.go: the life of one Kv inside the etcd driver.  *)
(* NewAdvanced preloads it (if asked), starts the watch (if the path is    *)
(* watched) and returns the driver; from then on callers Get and register  *)
(* hooks; Close closes the client (if it owns it) and cancels the context  *)
(* of the watch, and does not wait for the watch goroutine.                *)
(*                                                                         *)
(* The steps of the Kv are those of module Kv; this module says when each  *)
(* of them can be taken.                                                   *)
(***************************************************************************)
EXTENDS Kv

VARIABLES
  opts,    \* the options the driver was made with
  phase,   \* where NewAdvanced, then the driver, is
  client,  \* is the etcd client usable
  ctx      \* is the context given to the watch live

driverVars == <<opts, phase, client, ctx>>
dvars == <<vars, driverVars>>

\* watch: the path of this Kv is watched; watcher: some path of the driver is, so
\* ed.watcher is set.
Options ==
  {o \in [preload : BOOLEAN, watch : BOOLEAN, watcher : BOOLEAN, closeClient : BOOLEAN] :
     o.watch => o.watcher}

DTypeOK ==
  /\ TypeOK
  /\ opts \in Options
  /\ phase \in {"preload", "apply", "watch", "open", "closed", "failed", "panicked"}
  /\ client \in {"open", "closed"}
  /\ ctx \in {"live", "cancelled"}

DInit ==
  /\ Init
  /\ opts \in Options
  /\ phase = "preload"
  /\ client = "open"
  /\ ctx = "live"

-----------------------------------------------------------------------------
(* NewAdvanced.                                                            *)

DPreloadGet ==
  /\ phase = "preload"
  /\ opts.preload
  /\ PreloadGet
  /\ phase' = "apply"
  /\ UNCHANGED <<opts, client, ctx>>

DPreloadApply ==
  /\ phase = "apply"
  /\ PreloadApply
  /\ phase' = "watch"
  /\ UNCHANGED <<opts, client, ctx>>

\* New returns an error; nothing cancels the context, but nothing runs on it.
DPreloadFail ==
  /\ phase = "preload"
  /\ opts.preload
  /\ phase' = "failed"
  /\ client' = IF opts.closeClient THEN "closed" ELSE client
  /\ UNCHANGED <<vars, opts, ctx>>

NoPreload ==
  /\ phase = "preload"
  /\ ~opts.preload
  /\ phase' = "watch"
  /\ UNCHANGED <<vars, opts, client, ctx>>

\* watcher.Run starts a goroutine per watched prefix ...
DWatch(s) ==
  /\ phase = "watch"
  /\ opts.watch
  /\ Watch(s)
  /\ UNCHANGED driverVars

\* ... and waits until each has its watch channel.
Open ==
  /\ phase = "watch"
  /\ opts.watch => \A s \in Streams : ws[s] # "off"
  /\ phase' = "open"
  /\ UNCHANGED <<vars, opts, client, ctx>>

-----------------------------------------------------------------------------
(* The driver in use.  Nothing refuses a Get after Close: a miss asks the  *)
(* client, which fails if it was closed.                                   *)

DReader(r) ==
  /\ phase \in {"open", "closed"}
  /\ \/ \E k \in Keys : Lookup(r, k)
     \/ client = "open" /\ Fetch(r)
     \/ FetchFail(r)
     \/ Fill(r)
  /\ UNCHANGED driverVars

\* False, and no hook, for a path nobody watches while others are (HasObserver).
DOnKeyChange(k) ==
  /\ phase \in {"open", "closed"}
  /\ opts.watch
  /\ OnKeyChange(k)
  /\ UNCHANGED driverVars

\* HasObserver of a nil Watcher: the process ends, unless the caller recovers, which
\* leaves the driver as it was.
OnKeyChangePanics ==
  /\ phase \in {"open", "closed"}
  /\ ~opts.watcher
  /\ phase' = "panicked"
  /\ UNCHANGED <<vars, opts, client, ctx>>

DStream(s) == Stream(s) /\ UNCHANGED driverVars

CloseKeepsWatch ==
  /\ phase = "open"
  /\ phase' = "closed"
  /\ client' = IF opts.closeClient THEN "closed" ELSE client
  /\ UNCHANGED <<vars, opts, ctx>>

Close ==
  /\ phase = "open"
  /\ phase' = "closed"
  /\ client' = IF opts.closeClient THEN "closed" ELSE client
  /\ ctx' = "cancelled"
  /\ UNCHANGED <<vars, opts>>

\* The watch channel closes because the driver closed; events it had already
\* given out are still handled.
Ends(s) ==
  /\ client = "closed" \/ ctx = "cancelled"
  /\ Stop(s)
  /\ UNCHANGED driverVars

\* The watch channel closes while the driver is in use (the server cancelled the
\* watch): the goroutine logs "stopped" and ends (watcher.go:125).
Lost(s) == Stop(s) /\ UNCHANGED driverVars

DCommit == (\E k \in Keys, v \in Stored : Commit(k, v)) /\ UNCHANGED driverVars

DNext ==
  \/ DCommit
  \/ DPreloadGet \/ DPreloadApply \/ DPreloadFail \/ NoPreload
  \/ \E s \in Streams : DWatch(s)
  \/ Open
  \/ \E r \in Readers : DReader(r)
  \/ \E k \in Keys : DOnKeyChange(k)
  \/ OnKeyChangePanics
  \/ \E s \in Streams : DStream(s) \/ Ends(s) \/ Lost(s)
  \/ Close

DSpec == DInit /\ [][DNext]_dvars

\* A goroutine that can run does: the watch goroutine with an event to handle, a
\* hook to run or a closed channel.  Callers owe the driver nothing.
FairSpec == DSpec /\ \A s \in Streams : WF_dvars(DStream(s)) /\ WF_dvars(Ends(s))

-----------------------------------------------------------------------------
(* Properties.                                                             *)

Watching == \A s \in Streams : ws[s] \in {"idle", "hook"}

\* In the driver an entry turns stale in two windows only: when a Get first
\* caches it, and before the watch has started.  Preload cannot do it once the
\* driver is open (etcd.go:93-124).
FilledOrStarting(k) == ~Cached(k) \/ phase = "watch"

StaleOnlyWhenFilledOrStarting ==
  [][\A k \in Keys : Stale(k)' /\ ~Stale(k) => FilledOrStarting(k)]_dvars

\* With one watch goroutine, hooks lag the cache by at most the change being
\* announced: whenever none is being announced, the last value the hooks of a
\* key heard is the value Get returns, unless the key was deleted (kv.go:233-243).
HooksFollowEntry ==
  \A k \in Keys :
    told[k] # Absent /\ entries[k].exists /\ (\A s \in Streams : ws[s] # "hook")
      => told[k] = entries[k].value

\* A cached key that is not stale comes to show what etcd holds, for as long as
\* the watch lives (watcher.go:102-124).
CatchesUp ==
  \A k \in Keys :
    Cached(k) /\ ~Stale(k) /\ Watching
      ~> ~Watching \/ Stale(k) \/ Shows(k, Current(k))

\* Close ends the watch goroutines, whoever owns the client (etcd.go:186-196).
CloseEndsWatch ==
  phase = "closed" ~> \A s \in Streams : ws[s] \in {"off", "stopped"}

-----------------------------------------------------------------------------
(* What the documentation says and the code does not do.                   *)

\* README.md:143-144: a watched path is monitored "to dynamically load the
\* configuration".  So in a driver with the default options, when every event is
\* handled and no request is on its way, what is cached is what etcd holds.
QuiescentFresh ==
  opts.watch /\ ~opts.preload /\ phase = "open"
  /\ (\A s \in Streams : ws[s] = "idle" /\ pos[s] = Rev)
  /\ (\A r \in Readers : rd[r].pc = "idle")
    => \A k \in Keys : Cached(k) => Shows(k, Current(k))

\* kv.go:88: a registered hook is "called when the key changes".  So handling a
\* PUT that changed a hooked key must go on to its hooks.
HookPerChange ==
  [][\A s \in Streams :
       LET i == pos[s]'  k == hist[i].key IN
       pos[s] < i /\ ws[s] = "idle" /\ hooks[k] > 0 /\ At(k, i) \notin {Absent, At(k, i - 1)}
         => ws'[s] = "hook"]_dvars
=================================================================================
