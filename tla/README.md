# Verification of golt

This directory models the parts of `golt` (`../src`) in which several
goroutines, an etcd server or a file system meet: the etcd key cache with its lock,
the watcher and the driver around it, the file driver, service registration and
discovery, the construction and Close of a Configure, the loading of struct fields,
and a request through the HTTP engine. The modules are TLA+; TLC checks them on
small instances and TLAPS proves their main safety properties for any instance.

    tlc -workers 2 -config MCKvLock.cfg MCKvLock  # a run (see the table below)
    tlapm KvProofs.tla                            # a proof module

## The system

| component | state it keeps | operations | what is hard |
|---|---|---|---|
| `etcdutil.Kv` | cached entries, hooks per key, an RWMutex | Get/GetString/UnsafeGet, Preload, OnKeyChange, Handle | a miss asks etcd without the lock while events arrive; hooks run after the entry changed, under the read lock, and may panic or call back |
| `etcdutil.Watcher` | watched prefixes, observers | Attach, HasObserver, Run | prefixes folded into few; one goroutine per prefix, prefixes that overlap, a watch that ends, observers that panic |
| etcd driver | client, cancel, a Kv per path | NewAdvanced, Get, OnKeyChange, Close | Preload, then watch; Close does not wait |
| file driver | a node of entries per file, one shared buffer, a table of timers | New, Get, OnKeyChange, Close; dedup, eventFunc, listenAndRefresh | timers and their expiry against new events; an unbuffered channel; reload in three sections |
| `etcdutil.Registrar` | a lease per registered key | RegisterService, DeregisterService; keepAlive | timeouts, partitions, late Puts, cancellation, crashes |
| `etcdutil.Discovery` | a list of endpoints, a counter | NewDiscovery(WithWatch), Handle, Resolve | two keys with one endpoint, changes before the watch, two goroutines that copy and store the list, a counter that wraps, and an int of 32 bits |
| `config.Configure`, drivers' registry | driver per namespace; factories of the process | NewConfigure, FromEtcd, FromEtcdConfig, Get..., OnKeyChange, Close | construction that fails half way, clients passed, dialled or found in a factory, two Closes at once |
| struct fields (`load.go`, `atomic.go`) | pointers stored atomically | InitAndPreload, TryLoad, AtomicStore | a load and the hooks of several goroutines store the same field |
| `srvhttp` router, engine, context | a middleware chain and its index, what was written | Use, UseCors, Group, Next, WriteHeader, Hijack, SSEvent | who writes the response, once; what a cache may keep of it |
| unierr, contract, decoders, meta | none, or per call | formatting | nothing for a model, but the status of an error |

Interactions. `Configure` calls a driver; the etcd driver owns one `Kv` per
path, attaches the watched ones to a `Watcher`, whose goroutines call
`Kv.Handle`, which calls hooks; struct fields register such hooks. The file
driver's goroutines pass a path from fsnotify through a timer and a channel to
the goroutine that reloads it and calls hooks. A `Registrar` and a `Discovery`
meet only in etcd.

What makes each correct. *Kv*: an entry shows one revision of etcd, stays fresh
while it is watched, and its hooks hear what it shows. *File driver*: a node
shows what its own file last held, no change is forgotten, hooks hear every
change, Close ends everything. *Registrar*: a running service is registered, a
stopped one is not, in the end. *Discovery*: what is listed is registered, and
the reverse. *Configure*: a construction that fails leaves no driver running, what
the library made has somebody to close it, and nobody else's client is closed. *Fields*: a watched
field ends with the last value. *srvhttp*: one response per request, every
middleware in its order, and no response a cache could give to the wrong origin.
Where the code falls short of these, the properties say by how much: see *Known
exceptions*.

## Modules

### Kv

`etcdutil/kv.go`. A step is one section under `k.mu`, or one request to etcd. A
reader goes `Lookup` (a miss; a hit changes nothing and is no step), `Fetch`
(etcd answers at the revision of that moment; `FetchFail` is an error), `Fill`
(lines 124-129, 272-297). Get, GetString and UnsafeGet do the same to the state.
`PreloadGet` and `PreloadApply` are the two halves of Preload. A stream is a
goroutine of `Watcher.watch`: `Watch` (the watch is created at etcd's current
revision, as line 97 gives no revision), `Drop`/`HandlePut`/`HandleDelete` (the
locked part of Handle), `RunHooks` (233-243), `HooksPanic` (a hook panics, the
Watcher recovers, and the hooks behind it are not called), `Stop`. `Streams` may have more
than one member, as `Attach` can leave two watched prefixes that both cover a
Kv. A hook is counted, not named: all hooks of a key are called with one value.

External: etcd, as the sequence `hist` of its revisions. History variables, which
no action reads: `asOf` (the revision an entry shows) and `told` (the last value
all hooks of a key were given). Abstracted: the spelling of keys (prefix stripping in
`cacheKey`/`etcdKey`), contents other than `Empty`, which `exists` is there to
tell from a missing key.

### KvLock

The RWMutex of a Kv, EXTENDS Kv: when each step gets the lock it needs. Every
section but the one that runs hooks is still one step, so what has to be kept is who
holds the read lock for hooks (`hk`), which writer waits first (`pending`: Go lets no
reader in behind it) and whether a hook's panic has kept the lock for good
(`leaked`: the Watcher recovers the panic, but RUnlock at kv.go:242 is not deferred).
Hooks return, panic (`HookPanics`), read through Get (`HookReads`, where it waits) or
ask for the write lock (`HookWrites`: OnKeyChange, a Get that misses). `LockedIsKv`
says that this is a Kv whose steps come in fewer orders; `Kv` itself has no lock.

### EtcdDriver

`config/driver/etcd/etcd.go`, EXTENDS Kv: when each step of one Kv can be taken.
`phase` follows NewAdvanced (preload, apply, watch), then open and closed; `opts`
are the options (preload, whether the path is watched, whether any path of the driver
is, whether the client is the driver's to close). Without any there is no watcher, and
OnKeyChange dereferences nil (`OnKeyChangePanics`). Gets go on after Close and fail on a closed client. A watch
ends because the client is closed or the context cancelled (`Ends`), or because
the server cancelled it (`Lost`). Close is one step.

### FileDriver

`config/driver/file/file.go`, `file_node.go`. The file system is external: what a
file parses to, or `Bad` (missing, half written), and events per file, in order.
`LoadFirst`/`Watch` are New; `Receive`, `GetTimer`, `AfterFunc`, `SetTimer`,
`Reset` are dedup, where each call on the table of timers is a step; `Expire`,
`DeleteTimer`, `GiveUp` are eventFunc; `Take`, `Load`/`LoadFails`, `Cache`, `Hook`
are listenAndRefresh (`Take` is also the send, as the channel is not buffered).
A timer nobody refers to may be allocated again. Get and GetString change nothing
and hold the lock that `Cache` takes, so they are no step. History: `read`,
`good` (what the last load, and the last good load, of a file read), `unseen`
(files that changed between New's load and its watch), `known` (the value hooks
were registered on or told). A change of a symbolic link that fsnotify does not
name is left out. Close is one step.

### Registrar

`etcdutil/register.go`. Per key: `off`, `put` (a lease is granted), `revoke`
(the Put failed), `alive` (reading the KeepAlive channel), `wait` (the select with
the timer), `done`, `failed`. RegisterService and keepAlive share register, so
they share the steps; a Grant that fails leaves keepAlive in `wait`. `mine` is
keepAlive's `leaseID`, `got` the lease of the running register call. External:
leases that live or expire, the key's lease, and `late`, Puts the client gave up
on that etcd may still serve. The backoff only says when the timer fires and is
left out. `lost` is history: the key was deregistered, or taken by a late Put,
since the last Put.

### Registry

What readers of the keys of services see: keys come and go one at a time. `Registrar`
implements it (`IsRegistry`, a property of the run and a theorem) with the keys of
`store`; `Discovery` builds on it instead of on the Registrar's leases.

### Watcher

`etcdutil/watcher.go`. `Attach` folds the prefix of an observer into the first prefix
that has one in common with it (`commonPrefix`, `Shared`); `Run` makes a goroutine
for each prefix that is left; `Watch`, `Receive`, `Goes`, `WatchEnds` are `watch`:
each event of its prefix goes to every observer whose own prefix the key has, in
order, a panic of one recovered. Names and prefixes are sequences over `Chars`. What an
observer does with an event is the business of the module that EXTENDS this one.
External: `log`, the events of etcd.

### Discovery

`etcdutil/discovery.go`, EXTENDS Watcher: one Discovery among the observers, above a
Registry. `NewDiscovery` lists what one Get finds; `HandleLoad` and `HandleStore` are
the two halves of `add` and `del`, which load the list and store a changed copy:
with prefixes that overlap, two goroutines do so at once. `HandleIgnores` is an
endpoint that is none, or a DELETE whose previous value was compacted;
`OtherHandles` an observer that returns or panics. `Load` and `Take` are Resolve, whose
number is a uint32 that discovery.go:88 takes as an int: if `Narrow`, that has 32 bits
as well, and the upper half of the numbers is negative (`AsInt`), so is what Go's % leaves
of them (`Remainder`), and indexing the list with it panics (`TakePanics`).
History: `missed` (keys an event of which never reached `add` or `del`), `over` (hosts
whose change a store overwrote: until their next event if one key has the endpoint to
itself, and for good if several do, as then no event says how often it is to be
listed), `served` (places of the list
handed out in this round). NewDiscoveryWithWatch is the case without other observers.

### Configure

`config/new.go`, `configure.go`, `driver/registry.go`, and the part of the drivers' New
and Close that owns something. A call goes `NewConfigure` or `FromEtcdConfig` (which
dials its own client, and reads the sources with it), `RegisterDriver` (into the
factories all the calls share), a step of `NewSource` for each source, `Returns`. Each
source makes a file driver, an etcd driver with a client of its own, or one with the
client the `custom_etcd` factory captured, perhaps from another call; or fails, in each
of the ways the code has (`DriverFails`, `SourceAddrPanics`, the branches of
`NewAdvanced`, a namespace that exists in `Adds`), which closes what was made. A closer
goes over the namespaces in any order (`Visit`), then closes the driver in two steps
(`CloseFile` or `CloseClient`, `Finish`), as another closer may come between. History:
`lent`, `ruleless`, and `met` (the closers that were at work while another closed the
same Configure). What drivers do between New and Close is in the modules above.
FromFile reads a file and calls NewConfigure, and so is no action of its own. Writing
the map of factories from two goroutines at once ends a Go program, so registrations are
single steps.

### Fields

`config/load.go`, `config/atomic.go`. Fields of one struct that read one key, each
with any tag. `RegisterHook`/`NotWatchable`, `Defer`, `Preload`/`PreloadFails` and
`PreloadStore` are InitAndPreload, field by field; a field that is exported, or not a
pointer, goes the same way with its options ignored. `TryLoad`, `Get`/`GetFails`,
`Store`, `Check` are a caller of TryLoad; AtomicStore shares `Get` and `Store`, and
differs in what null decodes to (`StoresNil`). The driver is the little that
Configure sees of one: a goroutine updates its entry (`Change`) under the write lock, and
calls the hooks (`RunHooks`, `Hook`) under the read lock, in two sections between which
another goroutine may do the same. The file driver has one such goroutine; an etcd
driver has as many as watched prefixes cover the key, and after Attach of "/x/", "/y/"
and "/" these are "/" and "/y/". OnKeyChange answers true, false (`NotWatchable`), or
panics where an etcd driver watches nothing. `cached` starts as either: a file's
keys have entries, an etcd key has one after a Get or a Preload; until then its changes
are dropped (`ChangeUnseen`). Contents are named
by their place in `hist`, so a field that goes back is seen. A Get is one step here;
its own races are in Kv.

### Engine

`srvhttp/engine.go`, `router.go`, `handler.go`, `sse.go`, and WriteHeader to Flush of
`context.go`, EXTENDS Cors. One request. `chain` lists the calls of Use and UseCors that
lead to its route, with a configuration for each UseCors; `stack` holds the functions of
the application that run, each called by the one below it through `next`. `CallNext` is
chainHandler with its shared index, `Enter` the ServeHTTP of a level (UseCors answers
OPTIONS there), `Return` carries a result through wrapHandler and line 44 of Use,
`UseResponse` is whatever the application does with the response (`SSEvent` among it),
`Answer` is middlewareOne. mux (which middlewares surround a route) and net/http (which
status is really sent) are external; an error is answered with the status of its
`unierr`, any the application chose, or 400; `sent` is the latter's and `status` the Context's,
and the properties relate the two. History: `author`, `ret`, `passed` (the
configurations that the headers come from).

### Cors

`srvhttp/cors.go` as operators: `apply`, `validateOrigin`, and what
`setHeaders` has prepared, for the two headers that depend on who asks. Which strings
the patterns of a configuration match is the constant `AllowOrigins`.

### Snapshot

What readers of a file namespace can rely on: the entries of a file are replaced as
a whole by what the file held at one later moment. `FileDriver` implements it
(`IsSnapshot`, a property of the run and a theorem) with the shared buffer, the nodes
and the files mapped to `taken`, `shown` and `file`.

### Proof and MC modules

`KvProofs`, `FileDriverProofs`, `RegistrarProofs`, `DiscoveryProofs`, `FieldsProofs`,
`ConfigureProofs` and `EngineProofs` EXTEND the module they are about, and
`KvUsesProofs` the two modules about uses of a Kv, `KvLock` and `EtcdDriver`.
`MCKvLock`, `MCEtcdDriver`, `MCFileDriver`, `MCRegistrar`, `MCDiscovery`, `MCFields` and
`MCConfigure` add a symmetry set or the strings of names, `MCEngine` the chains.
Operators that stand just before a definition and differ from it by one plausible
mistake (`FillOverwrites` before `Fill`) are used by the mutants of PROJECT.json only:
each shows that a property notices it.

## Runs

| run | bounds | shows |
|---|---|---|
| `kv_api` | 1 key, 1 content (`""`, or no key), 1 reader, 2 streams, 4 revisions, 1 hook | the API in any order, with its lock and hooks that misbehave: an entry shows one revision (`EntryShowsEtcd`) and turns stale only in three windows (`StaleOnlyFromWindows`); until a hook has lost the lock, by a panic or by calling back, nobody waits for ever (`GetReturns`, `EventsAreHandled`) |
| `etcd_driver` | 1 key, 2 contents, 2 readers, 1 stream, 4 revisions, every option | an entry shows one revision here too, with contents that differ (`EntryShowsEtcd`); hooks follow the entry (`HooksFollowEntry`); once the driver is open only a first fill can be stale (`StaleOnlyWhenFilledOrStarting`); cached keys catch up and Close ends the watch (`CatchesUp`, `CloseEndsWatch`) |
| `etcd_stale` | 2 revisions | violated: `QuiescentFresh` |
| `etcd_hook` | 2 revisions | violated: `HookPerChange` |
| `file_driver` | 2 files, 1 key, 2 timers, 2 changes | `NoLostReload`, `CacheIsLastGood`, `HooksFollowCache`, and the refinement `IsSnapshot` |
| `file_live` | 1 file, 2 timers, 3 changes | `ReloadsConverge`, `CloseEndsGoroutines` |
| `registrar` | 2 keys, 3 leases, 2 faults | `RefreshedIsRegistered`, `RegistersAgain`, `StoppedIsUnregistered`, and the refinement `IsRegistry` |
| `discovery` | 3 observers, 2 keys, 2 hosts and a bad one, 2 resolvers, 3 changes, 5 changes and calls, a counter of 4 values, an int of 32 bits | every observer is under a prefix that is watched (`EveryObserverIsWatched`), the list is what is registered (`ListedIsRegistered`, `OwnEndpointIsExact`), Resolve takes turns, and panics only in the upper half of a 32-bit int (`ResolveTakesTurns`) |
| `discovery_restart` | the same | violated: `RegisteredIsListed` |
| `fields` | 2 fields with any tags, 2 loaders, 2 goroutines of the driver, 3 contents | a watched field goes stale only by a load or a hook that was overtaken (`StaleOnlyIfOvertaken`), a successful InitAndPreload leaves every field ready (`PreloadedWhenDone`) |
| `engine` | 8 chains, every kind of request from 2 origins and its own, 2 calls of next each, 2 uses of the response | whoever calls next once is followed by the next function, also below a retry (`NoMiddlewareSkipped`), results reach callers (`ResultReachesCaller`), one answer with one author (`SentIsWritten`, `OneAnswer`), a response without Vary is right for every origin (`VaryTellsOrigins`) |
| `configure` | 2 calls, 2 closers, 2 namespaces, 2 sources in all | a namespace has one driver (`NamespacesAreServed`), failure leaves no driver (`FailedLeavesNothing`), an open client has somebody to close it but for three leaks (`ClientsHaveOwners`), no client is closed that should stay (`PassedClientStays`, `OpenMeansOpen`), Close panics only while it overlaps another (`PanicNeedsARace`), and one that returns has closed everything (`CloseIsComplete`) |

Type invariants are theorems and not properties of the runs, except Engine's, which is
both: that no function runs past the last one of its level is a question about the code.

Why the bounds are enough. Keys of a Kv do not share state except the stream's
position and the lock, and a hook that holds the lock stops every key alike, so one key
with every race on it is the interesting case; three
revisions give a value, a newer one fetched or delivered, and one more that
overtakes it, and the fourth lets it happen to an entry that was changed before; two streams are the least that overlap, and with them one reader is
enough to race a fill with an event, while `etcd_driver` has the two readers that race
each other, and a content besides the `""` that a missing key is taken for. Two files are the least that can mix in the buffer, two
timers the least that let a spent timer and a new one coexist for a file, and
three changes let events come before, during and after an expiry. A registered key
needs three leases to be between an abandoned Put, a lease that is lost and a new
one; two keys show that leases given up by one may be granted to the other.
Discovery's three observers are the least that fold into two prefixes of which one
covers the other, so that two goroutines handle one event; two keys are the least
that share an endpoint, and three changes the least to register, lose and register
again; the counter's four values have an upper half with a number that panics and one
that does not, and where int is wider the upper half is like the lower one. A list of two divides them, so that its wrap breaks a round only where the
theorem speaks. Two fields share hooks and order; two loaders race each other as well as a
hook; two goroutines of a driver can call hooks in the wrong order; three contents let
one be overtaken and replaced. The chains hold no level,
one, levels within levels, and UseCors above, below and beside others; two calls of
next are a retry. Two calls of NewConfigure are the least that share a factory, two
sources the least of which the later can fail, two closers the least that overlap.
The bounds `MaxRev`, `MaxHooks`, `MaxWrites`, `MaxCalls`, `MaxFaults`, `MaxChanges`,
`MaxSteps` and `MaxSources` are guards of the actions they limit, and `Half` stands for
2^31;
symmetry is over sets whose members no property singles out,
and no run that checks liveness uses symmetry. Deadlock is not checked: when the
bounded outside world is used up, and callers have nothing to ask, these systems
stop.

## The three violated runs

- `etcd_stale`: a Get asks etcd and is answered; the key changes; Handle drops the
  event, as the key is not cached; the Get caches the older answer. No event
  will repair it until the key changes again. README.md:143-144 of the
  repository promises that a watched path is loaded dynamically. The run leaves
  `preload` out, so the gap between Preload and the watch plays no part.
- `etcd_hook`: OnKeyChange without a Get. kv.go:88 says the hook is called when
  the key changes; Handle returns early for a key that is not cached.
- `discovery_restart`: a service comes back on its endpoint, under a new key, before
  the lease of its former key has ended. The end of that lease removes the
  endpoint by value, although the new key still has it.

## Fairness

Goroutines that can run do: weak fairness for a reader that has its answer, Preload's
second half, a caller of OnKeyChange that waits for the lock, and each watch
goroutine with its hooks, which return (`KvLock!FairKSpec`); for each watch stream and
the end of its channel (`EtcdDriver!FairSpec`), for dedup, listenAndRefresh, each
expired timer's goroutine and the expiry of an armed timer
(`FileDriver!FairSpec`), and for each keepAlive, each abandoned Put (served or
lost in the end) and each lease nobody refreshes (`Registrar!FairSpec`). These are
what the Go scheduler, the runtime's timers and etcd's lessor give. Nothing is
assumed of callers: nobody has to Get, register a hook, cancel or Close. In
`Registrar`, etcd answers once the bounded faults are over: nothing else could
ever register again.

## Known exceptions

What the models have, and the properties leave out because the code does nothing about it
and the repository promises nothing of it:

- a hook that panics, or takes the lock it is called under, loses the lock of its Kv
  (kv.go:236-242): `GetReturns` and `EventsAreHandled` end there (`LockIsLost`);
- a watch the server ended is not taken up again (watcher.go:125): `CatchesUp`;
- hooks of two goroutines on overlapping prefixes may run in the wrong order
  (kv.go:231-241): `HooksFollowEntry` is about a driver with one, `StaleOnlyIfOvertaken`
  names it;
- OnKeyChange panics in an etcd driver that watches nothing (etcd.go:143);
- a file that changes between New's load and its watch waits for its next change
  (`unseen`): `NoLostReload`, `ReloadsConverge`;
- a late Put takes a key back to a lease that ends, and DeregisterService does not stop
  keepAlive (`lost`): `RefreshedIsRegistered`, `RegistersAgain`;
- Resolve panics from 2^31 calls on where int has 32 bits (discovery.go:88);
- a second call of `next` skips what of its own Use already ran (router.go:34-37);
- a connection hijacked without a status is answered, and an informational status alone
  suppresses the answer: `OneAnswer`;
- three ways a dialled client is left open (`LeftOpen`): a source without rules
  (etcd.go:117), a construction that panics on a source too short (configure.go:32), which
  leaves its drivers as well, and the client FromEtcdConfig dialled when no driver of its
  own has it, for want of a `custom_etcd` source or because another call's client took its
  place in the factory (new.go:52, 94);
- a client that a later call found in the factory is closed by whoever closes first
  (`lent`): `OpenMeansOpen`; the drivers behind one whose Close panicked are not closed:
  `CloseIsComplete`.

## What is proved

For any non-empty `Streams`, any keys, readers, files, timers, leases, prefixes,
namespaces, calls and closers, and any bounds, from the ASSUMEs of the modules (named
in each) and nothing else. Each module proves its type invariant, and:

- **KvProofs** (`CacheShowsEtcd`, `StaleWindows`).
  The inductive invariant adds to the types that whoever holds a revision (a fill, a
  Preload, a stream, hooks) holds one etcd has committed (`RevisionsCommitted`), and
  that a key differs between two revisions only if one in between changed it
  (`OnlyEventsChange`): without the latter an entry that missed no event of its key
  could still differ from etcd's present store.
- **KvUsesProofs** (`LockedIsKv`; `DriverIsKv`, `DriverTypeCorrect`,
  `DriverStaleWindows`, `HooksFollow`). Every step under the lock is a
  step of Kv or leaves it alone, so all of KvProofs holds whatever hooks do. The driver
  implements the Kv used in any order as well, so all of KvProofs holds in it; a phase
  invariant then rules Preload out once it is open. `HooksFollow` assumes one
  stream: with two the property is false, since the older event's hooks may run
  last.
- **FileDriverProofs** (`LosesNoReload`, `CacheFollowsFile`, `HooksFollow`,
  `DriverIsSnapshot`). `NoLostReload` is strengthened with `TimersOfTheirPaths` (the
  timer dedup holds for a path, and the one in the table, captured that path, so
  resetting it re-arms the right reload) and `Lifecycle` (both goroutines run in an open
  driver that watches something and end only after quit). `CacheIsLastGood` and
  `HooksFollowCache` need `BufferIsLastGood` (the shared buffer is empty between reloads
  and equals the last good load during one) and `FlagsMakeSense`. The refinement follows
  from the same: the step that caches shows what the step that read has taken.
- **RegistrarProofs** (`RefreshedHoldsKey`, `RegistrarIsRegistry`, `StoppedKeyExpires`,
  `StoppedStaysStopped`). The property is
  inductive given the types: granting a lease must not revive one that a key still
  names, which is why `Free` is part of `Grant`; for the refinement, at most one key
  uses a lease (`LeaseOfOneKey`), so the end of a lease takes one key. The last two are
  what liveness rests on once a service stopped: its key names a lease that lives, and
  that is nobody's in the middle of a register call (`LeaseInv`), so only its end is
  left; and nothing but a Put that was given up can attach the key again.
- **DiscoveryProofs** (`ObserversAreWatched`, `DiscoveryTypeCorrect`, `TakesTurns`,
  `ListsWhatIsRegistered`, `OwnEndpointsAreExact`, `OneWatchIsExact`). The first rests
  on what `commonPrefix` returns: the lengths on which two strings agree are an interval
  from 1, so their number is the longest (`SizeIsLast`). `TakesTurns` needs that the
  places handed out in a round are those from some place up to the next
  (`ServedInOrder`), across the wrap of the list and of the counter, and that an index is negative only for
  numbers from `Half` on. The next two speak
  of moments when every event was handled, which says nothing about the steps before;
  `CountInv` does. It accounts for every place an endpoint has in the list by a key that
  is registered, was missed, or has an event some goroutine has yet to handle
  (`CountsAreBounded`), and follows that event: the last event of a key in the log tells
  whether it is registered (`LogTellsRegistry`), each goroutine gives the Discovery each
  event of its watch once (`Dispatch`), and a copy that waits to be stored differs from
  the list it was made of by its event alone (`CopyIsChange`). An endpoint of one key is
  never listed twice, in the list or in a copy (`OwnOnce`), and is exact when no event
  of its key is left (`OwnIsExact`). While no key is under two watched prefixes, the one
  goroutine that hands the Discovery its events is that of its own prefix
  (`OneHandles`), so nothing is ever overwritten (`AloneInv`) and the exceptions of the
  two go.
- **FieldsProofs** (`WatchedStaleOnlyIfOvertaken`, `OneGoroutineStaleOnlyFromLoads`,
  `PreloadsEveryField`). `DriverInOrder` says that a goroutine works on a content there
  is with hooks that are registered, `ContentsAreCached` that whoever holds a
  content got it from an entry (so changes nobody heard of are older than any field),
  and `InitInOrder` that fields before the current one are done and those after it
  untouched: a hook registered on a field that was set already could leave it stale.
  With one goroutine, it works on the newest content whenever it works (`HandlesNewest`),
  so no hook is ever overtaken.
- **ConfigureProofs** (`EveryNamespaceIsServed`, `FailureLeavesNothing`,
  `PassedClientsStay`, `EveryClientHasAnOwner`, `OpenStaysOpen`, `OnlyOverlappingClosesPanic`,
  `ClosesAll`). The invariant relates drivers to calls: what a call has in `ds` it made,
  it has all it made while it is building or open, it has closed all when it failed.
  On it rest which call a factory's client came from (`FactoryOfCall`) and that such a
  client comes with its owner's wish (`PassedInv`); who is still to close a dialled
  client (`OwnersInv`: what a driver may have for a client, and that a driver that was
  closed has shut it); and what a Close has left behind
  it, and that one about to close a driver finds it open or has met another Close
  (`CloserInv`).
- **EngineProofs** (`TypeCorrect`, `EveryMiddlewareRuns`, `ResultsAreHandedUp`,
  `WrittenOnceSent`, `AnsweredOnce`, `CachesAreTold`). The types say of each running
  function that it is a middleware of a level that has one, or the handler, which
  nothing runs above. `ChainInv` ties the shared index to the stack: a middleware that
  has not called its next is where the index of its level is, and one that has called it
  once is followed by the function behind it; a second call is what makes the index run
  ahead, and only until its level is entered anew. Results reach their callers by the types alone, once it is shown that nothing
  but a return makes the stack shorter. `AnswerInv` says that until the engine answers a
  status that was sent is in the Context and a status in the Context that was not sent
  is informational. `HeaderInv` says that the headers are what the levels that were
  passed make of none (`AllOfBoth`: levels one after the other are one list of levels);
  that they tell other origins the same unless they say Vary is the lemma `AllTell`.

`Below` and `applyAll` go down a list of any length, and what they compute is proved by
induction. The library's induction theorems take a predicate as a
parameter, which the provers cannot instantiate; `Induction` (EngineProofs) is about a set
instead, and follows from the theorems on the cardinality of finite sets.

Refinements: `KvLock` and `EtcdDriver` implement `Kv` (theorems, through
`[KNext]_kvars => [Next]_vars` and the like), `FileDriver` implements `Snapshot` and
`Registrar` implements `Registry` (theorems, and properties of the runs). `Discovery`
takes its changes from `Registry`.

Only model-checked: liveness (`GetReturns`,
`EventsAreHandled`, `CatchesUp`, `CloseEndsWatch`, `ReloadsConverge`, `CloseEndsGoroutines`,
`RegistersAgain`, `StoppedIsUnregistered`), which the prover does not reach; the safety
half of the last is `StoppedKeyExpires`. Every
invariant and every action property of the passing runs, and every refinement, is a
theorem. That a mutant is noticed, and that a documented claim is violated, is TLC's alone.

What the proofs changed in the models. `ListedIsRegistered` was false with a third key,
which the run has no room for: two keys share an endpoint, a store overwrites the change
of one of them, and the next event of the other was taken to repair the list. It does so
only for an endpoint of one key (`Settled`), and `over` now says so. In `Engine`, the
result of a static route met two guards of a CASE, of which TLC takes the first and the
proof system either; the condition is now one of the level (`Keeps`).

## Plan

Done: all the modules above, with their runs and proofs. Worth doing next:

1. *The safety half of the other liveness properties*: what `StoppedKeyExpires` is for
   `StoppedIsUnregistered` and `NoLostReload` for `ReloadsConverge`, for `CatchesUp`
   and `CloseEndsGoroutines`.
2. *Nested UseCors*: a UseCors that refuses an origin does not take back what one above it
   granted, and a preflight on a route without its method asks the last UseCors
   only while the request passes all: no document says which should decide.

## Not modelled

`contract` (logging) and `unierr` (values that wrap errors) but for the status: no algorithm, and nothing
to interleave. `decoder.go`: a map of decoders, written when the program starts, and
calls into json, yaml and toml. `meta`: how a source and a rule are spelled, but for the
panic of SourceAddr. The choice of the local IP, the length of backoffs and timeouts,
what a tag spells, the Context's table of values (one lock around one map) and its typed
getters, how responses and events are spelled, the headers of CORS that are the same for
everybody, static files, the printing of routes. Left out of `Engine`: middlewares that
run next in another goroutine (router.go:44), where the Context itself is shared without
a lock. Left out of `Configure`: two registrations at once, which are fatal to the
process.
