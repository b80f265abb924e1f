-------------------------------- MODULE Configure --------------------------------
(***************************************************************************)
(* config/new.go, config/configure.go, driver/registry.go and the part of  *)
(* the drivers' New and Close that owns something: who makes drivers and   *)
(* etcd clients, and who closes them.  Calls of NewConfigure and           *)
(* FromEtcdConfig share the factories of the process and go on side by     *)
(* side; Closers are goroutines that call Close of a Configure, several of *)
(* one Configure perhaps.                                                  *)
(*                                                                         *)
(* A client or a driver has the name of the call and of the source it was  *)
(* made for; source 0 is the call itself: the client its caller passed, or *)
(* FromEtcdConfig dialled.  Which rules a source has is only its set of    *)
(* namespaces.  Two writes of the map of factories at once are fatal to a  *)
(* Go program, so registrations happen one at a time.                      *)
(* lent, ruleless and met are history variables.                           *)
(***************************************************************************)
EXTENDS Naturals

CONSTANTS
  Calls,       \* calls of NewConfigure or FromEtcdConfig, a Configure each
  Closers,     \* goroutines that call Close
  Namespaces,
  MaxSources,  \* bound: sources that all the calls go through
  NoClient, NoDriver, NoCall

Sources == 1..MaxSources
Drivers == Calls \X Sources
Clients == Calls \X (0..MaxSources)
Own(c) == <<c, 0>>

ASSUME ConfigureAssumption ==
  /\ MaxSources \in Nat
  /\ NoClient \notin Clients
  /\ NoDriver \notin Drivers
  /\ NoCall \notin Calls

VARIABLES
  factory,   \* driverFactories["custom_etcd"]: what its closure captured
  preloads,  \* driverFactories["etcd"]: whether its closure preloads
  client,    \* every etcd client
  driver,    \* every driver
  phase,     \* per call: how far it is
  ds,        \* per call: cfg.ds
  sources,   \* how many sources the calls have gone through
  closer,    \* per closer: where Close is
  asked,     \* per call: its options, and whether it dialled its client
  lent,      \* history: clients that another call's Configure got from the factory
  ruleless,  \* history: clients of drivers refused because they had no rules
  met        \* history: closers at work while another closed the same Configure

vars == <<factory, preloads, client, driver, phase, ds, sources, closer, asked,
          lent, ruleless, met>>

Options == [custom : BOOLEAN, dialled : BOOLEAN, close : BOOLEAN, preload : BOOLEAN]
Factory == [client : Clients \cup {NoClient}, close : BOOLEAN, preload : BOOLEAN]
Unregistered == [client |-> NoClient, close |-> FALSE, preload |-> FALSE]
Driver == [state : {"none", "open", "quit", "closed"}, schema : {"file", "etcd"},
           namespaces : SUBSET Namespaces, client : Clients \cup {NoClient}, close : BOOLEAN]
NotMade == [state |-> "none", schema |-> "file", namespaces |-> {}, client |-> NoClient, close |-> FALSE]

\* The namespaces, and the drivers, that a Configure has.
Used(c) == {n \in Namespaces : ds[c][n] # NoDriver}
Made(c) == {ds[c][n] : n \in Used(c)}

\* Close goes over the drivers of a Configure that NewConfigure has returned.
ClosersInRange ==
  \A x \in Closers :
    LET r == closer[x] IN
    /\ r.pc # "idle" => r.call \in Calls /\ phase[r.call] = "open" /\ r.todo \subseteq Used(r.call)
    /\ r.pc \in {"close", "finish"} => r.at \in Made(r.call)

CTypeOK ==
  /\ factory \in Factory
  /\ preloads \in BOOLEAN
  /\ client \in [Clients -> {"none", "open", "closed"}]
  /\ driver \in [Drivers -> Driver]
  /\ phase \in [Calls -> {"idle", "reading", "registering", "building", "open", "failed", "panicked"}]
  /\ ds \in [Calls -> [Namespaces -> Drivers \cup {NoDriver}]]
  /\ sources \in 0..MaxSources
  /\ closer \in [Closers -> [pc : {"idle", "next", "close", "finish", "done", "panicked"},
                             call : Calls \cup {NoCall}, todo : SUBSET Namespaces,
                             at : Drivers \cup {NoDriver}]]
  /\ ClosersInRange
  /\ asked \in [Calls -> Options]
  /\ lent \in SUBSET Clients
  /\ ruleless \in SUBSET Clients
  /\ met \in SUBSET Closers

Init ==
  /\ factory = Unregistered
  /\ preloads = FALSE
  /\ client = [k \in Clients |-> "none"]
  /\ driver = [d \in Drivers |-> NotMade]
  /\ phase = [c \in Calls |-> "idle"]
  /\ ds = [c \in Calls |-> [n \in Namespaces |-> NoDriver]]
  /\ sources = 0
  /\ closer = [x \in Closers |-> [pc |-> "idle", call |-> NoCall, todo |-> {}, at |-> NoDriver]]
  /\ asked = [c \in Calls |-> [custom |-> FALSE, dialled |-> FALSE, close |-> FALSE, preload |-> FALSE]]
  /\ lent = {}
  /\ ruleless = {}
  /\ met = {}

-----------------------------------------------------------------------------
(* NewConfigure, FromEtcdConfig and FromEtcd, up to the registration.      *)

Goes(c, from, to) == phase[c] = from /\ phase' = [phase EXCEPT ![c] = to]

NewConfigure(c, options) ==
  /\ ~options.dialled
  /\ Goes(c, "idle", "registering")
  /\ asked' = [asked EXCEPT ![c] = options]
  /\ client' = IF options.custom THEN [client EXCEPT ![Own(c)] = "open"] ELSE client
  /\ UNCHANGED <<factory, preloads, driver, ds, sources, closer, lent, ruleless, met>>

FromEtcdConfig(c, options) ==
  /\ options.dialled /\ options.custom /\ options.close
  /\ Goes(c, "idle", "reading")
  /\ asked' = [asked EXCEPT ![c] = options]
  /\ client' = [client EXCEPT ![Own(c)] = "open"]
  /\ UNCHANGED <<factory, preloads, driver, ds, sources, closer, lent, ruleless, met>>

\* The client cannot be made; or the key cannot be read, is missing or does not parse.
DialFails(c) ==
  /\ Goes(c, "idle", "failed")
  /\ UNCHANGED <<factory, preloads, client, driver, ds, sources, closer, asked, lent, ruleless, met>>

FromEtcdFails(c) ==
  /\ Goes(c, "reading", "failed")
  /\ client' = [client EXCEPT ![Own(c)] = "closed"]
  /\ UNCHANGED <<factory, preloads, driver, ds, sources, closer, asked, lent, ruleless, met>>

FromEtcd(c) ==
  /\ Goes(c, "reading", "registering")
  /\ UNCHANGED <<factory, preloads, client, driver, ds, sources, closer, asked, lent, ruleless, met>>

\* A call that has nothing to say keeps the factories of the calls before it; a
\* length for the common prefix, alone, registers a factory that does not preload.
RegisterDriver(c) ==
  LET o == asked[c] IN
  /\ Goes(c, "registering", "building")
  /\ factory' = IF o.custom THEN [client |-> Own(c), close |-> o.close, preload |-> o.preload]
                ELSE factory
  /\ preloads' \in IF o.close \/ o.preload THEN {o.preload} ELSE {preloads, FALSE}
  /\ UNCHANGED <<client, driver, ds, sources, closer, asked, lent, ruleless, met>>

-----------------------------------------------------------------------------
(* newConfigure: a driver for each source, or an error that closes all.    *)

Closed(d) == [d EXCEPT !.state = "closed"]

\* Close of drivers, one after another, on what the step has made of the drivers.
Close(made, toClose, clients) ==
  /\ driver' = [d \in Drivers |-> IF d \in toClose THEN Closed(made[d]) ELSE made[d]]
  /\ client' = [k \in Clients |->
       IF \E d \in toClose : made[d].client = k /\ made[d].close THEN "closed" ELSE clients[k]]

FailsOpen(c, made, also, clients) ==
  /\ Goes(c, "building", "failed")
  /\ Close(made, Made(c), clients)
  /\ UNCHANGED ds

\* newConfigure returns an error after closing what it has made, and
\* FromEtcdConfig closes its client.
Fails(c, made, also, clients) ==
  /\ Goes(c, "building", "failed")
  /\ Close(made, Made(c) \cup also,
           IF asked[c].dialled THEN [clients EXCEPT ![Own(c)] = "closed"] ELSE clients)
  /\ UNCHANGED ds

AddsOver(c, d, made, clients) ==
  /\ ds' = [ds EXCEPT ![c] = [n \in Namespaces |-> IF n \in made[d].namespaces THEN d ELSE @[n]]]
  /\ driver' = made
  /\ client' = clients
  /\ UNCHANGED phase

\* The driver gets its namespaces, unless one of them has a driver already.
Adds(c, d, made, clients) ==
  LET ns == made[d].namespaces IN
  \/ /\ ns \cap Used(c) # {}
     /\ Fails(c, made, {d}, clients)
  \/ /\ ns \cap Used(c) = {}
     /\ ds' = [ds EXCEPT ![c] = [n \in Namespaces |-> IF n \in ns THEN d ELSE @[n]]]
     /\ driver' = made
     /\ client' = clients
     /\ UNCHANGED phase

This(c) == <<c, sources + 1>>

\* The next source of a call that is being built.
Source(c) ==
  /\ phase[c] = "building"
  /\ sources < MaxSources
  /\ sources' = sources + 1
  /\ UNCHANGED <<factory, preloads, closer, asked, met>>

\* No factory for its schema, a file that does not load or cannot be watched, no
\* rules for files, or a client that cannot be made: nothing of it is left.
DriverFails(c) ==
  /\ Source(c)
  /\ Fails(c, driver, {}, client)
  /\ UNCHANGED <<lent, ruleless>>

\* No factory, and a source so short that the log line of the error panics.
SourceAddrPanics(c) ==
  /\ Source(c)
  /\ Goes(c, "building", "panicked")
  /\ UNCHANGED <<client, driver, ds, lent, ruleless>>

NewFile(c, ns) ==
  LET d == This(c)
      made == [driver EXCEPT ![d] = [state |-> "open", schema |-> "file", namespaces |-> ns,
                                     client |-> NoClient, close |-> FALSE]]
  IN
  /\ Source(c)
  /\ Adds(c, d, made, client)
  /\ UNCHANGED <<lent, ruleless>>

NewAdvancedLeaves(c, ns, k, clients, closeClient, preload) ==
  LET d == This(c)
      made == [driver EXCEPT ![d] = [state |-> "open", schema |-> "etcd", namespaces |-> ns,
                                     client |-> k, close |-> closeClient]]
  IN
  \/ /\ ns = {}
     /\ Fails(c, driver, {}, clients)
     /\ ruleless' = ruleless \cup {k}
  \/ /\ ns # {} /\ preload
     /\ Fails(c, driver, {}, clients)
     /\ UNCHANGED ruleless
  \/ /\ ns # {} /\ (preload => clients[k] = "open")
     /\ Adds(c, d, made, clients)
     /\ UNCHANGED ruleless

\* NewAdvanced with client k.  Without rules it returns an error and leaves the
\* client; Preload can fail, and fails on a closed client.
NewAdvanced(c, ns, k, clients, closeClient, preload) ==
  LET d == This(c)
      made == [driver EXCEPT ![d] = [state |-> "open", schema |-> "etcd", namespaces |-> ns,
                                     client |-> k, close |-> closeClient]]
  IN
  \/ /\ ns = {}
     /\ Fails(c, driver, {}, clients)
     /\ ruleless' = ruleless \cup {k}
  \/ /\ ns # {} /\ preload
     /\ Fails(c, driver, {}, IF closeClient THEN [clients EXCEPT ![k] = "closed"] ELSE clients)
     /\ UNCHANGED ruleless
  \/ /\ ns # {} /\ (preload => clients[k] = "open")
     /\ Adds(c, d, made, clients)
     /\ UNCHANGED ruleless

NewEtcd(c, ns) ==
  LET k == This(c) IN
  /\ Source(c)
  /\ NewAdvanced(c, ns, k, [client EXCEPT ![k] = "open"], TRUE, preloads)
  /\ UNCHANGED lent

NewCustomEtcdCloses(c, ns) ==
  /\ factory.client # NoClient
  /\ Source(c)
  /\ NewAdvanced(c, ns, factory.client, client, TRUE, factory.preload)
  /\ lent' = IF factory.client = Own(c) THEN lent ELSE lent \cup {factory.client}

NewCustomEtcd(c, ns) ==
  /\ factory.client # NoClient
  /\ Source(c)
  /\ NewAdvanced(c, ns, factory.client, client, factory.close, factory.preload)
  /\ lent' = IF factory.client = Own(c) THEN lent ELSE lent \cup {factory.client}

ReturnsDefersClose(c) ==
  /\ Goes(c, "building", "open")
  /\ client' = IF asked[c].dialled THEN [client EXCEPT ![Own(c)] = "closed"] ELSE client
  /\ UNCHANGED <<factory, preloads, driver, ds, sources, closer, asked, lent, ruleless, met>>

Returns(c) ==
  /\ Goes(c, "building", "open")
  /\ UNCHANGED <<factory, preloads, client, driver, ds, sources, closer, asked, lent, ruleless, met>>

NewSource(c) ==
  \/ DriverFails(c)
  \/ SourceAddrPanics(c)
  \/ \E ns \in (SUBSET Namespaces) \ {{}} : NewFile(c, ns)
  \/ \E ns \in SUBSET Namespaces : NewEtcd(c, ns) \/ NewCustomEtcd(c, ns)

-----------------------------------------------------------------------------
(* Close of a Configure: Close of the driver of each namespace, in no       *)
(* order, so of a driver as often as it has namespaces.                     *)

Closing(x, from, to) ==
  /\ closer[x].pc = from
  /\ closer' = [closer EXCEPT ![x] = to]
  /\ UNCHANGED <<factory, preloads, phase, ds, sources, asked, lent, ruleless>>

\* The closers whose Close of a Configure has begun and has not ended.
AtWork(c) == {y \in Closers : closer[y].call = c /\ closer[y].pc \in {"next", "close", "finish"}}

CloseCalled(x, c) ==
  /\ phase[c] = "open"
  /\ Closing(x, "idle", [closer[x] EXCEPT !.pc = "next", !.call = c, !.todo = Used(c)])
  /\ met' = IF AtWork(c) = {} THEN met ELSE met \cup AtWork(c) \cup {x}
  /\ UNCHANGED <<client, driver>>

IsClosedNever(d) == FALSE

\* The first look: a driver that has been closed is left.
IsClosed(d) == driver[d].state = "closed" \/ driver[d].state = "quit"

VisitStops(x, n) ==
  LET d == ds[closer[x].call][n]
      rest == [closer[x] EXCEPT !.todo = @ \ {n}]
  IN
  /\ n \in closer[x].todo
  /\ Closing(x, "next", IF IsClosed(d) THEN [rest EXCEPT !.todo = {}]
                        ELSE [rest EXCEPT !.pc = "close", !.at = d])
  /\ UNCHANGED <<client, driver, met>>

Visit(x, n) ==
  LET d == ds[closer[x].call][n]
      rest == [closer[x] EXCEPT !.todo = @ \ {n}]
  IN
  /\ n \in closer[x].todo
  /\ Closing(x, "next", IF IsClosed(d) THEN rest ELSE [rest EXCEPT !.pc = "close", !.at = d])
  /\ UNCHANGED <<client, driver, met>>

\* close(f.quit) panics if another Close came first; e.client.Close does not mind.
CloseFile(x) ==
  LET d == closer[x].at IN
  /\ d # NoDriver
  /\ driver[d].schema = "file"
  /\ Closing(x, "close", [closer[x] EXCEPT !.pc = IF driver[d].state = "open" THEN "finish" ELSE "panicked"])
  /\ driver' = IF driver[d].state = "open" THEN [driver EXCEPT ![d].state = "quit"] ELSE driver
  /\ UNCHANGED <<client, met>>

CloseClient(x) ==
  LET d == closer[x].at IN
  /\ d # NoDriver
  /\ driver[d].schema = "etcd"
  /\ Closing(x, "close", [closer[x] EXCEPT !.pc = "finish"])
  /\ client' = IF driver[d].close THEN [client EXCEPT ![driver[d].client] = "closed"] ELSE client
  /\ UNCHANGED <<driver, met>>

\* The file driver's watcher is closed; the etcd driver's watch is cancelled.
Finish(x) ==
  /\ closer[x].at # NoDriver
  /\ Closing(x, "finish", [closer[x] EXCEPT !.pc = "next", !.at = NoDriver])
  /\ driver' = [driver EXCEPT ![closer[x].at] = Closed(@)]
  /\ UNCHANGED <<client, met>>

CloseReturns(x) ==
  /\ closer[x].todo = {}
  /\ Closing(x, "next", [closer[x] EXCEPT !.pc = "done"])
  /\ UNCHANGED <<client, driver, met>>

Closer(x) ==
  \/ \E c \in Calls : CloseCalled(x, c)
  \/ \E n \in Namespaces : Visit(x, n)
  \/ CloseFile(x)
  \/ CloseClient(x)
  \/ Finish(x)
  \/ CloseReturns(x)

-----------------------------------------------------------------------------
Next ==
  \/ \E c \in Calls :
       \/ \E o \in Options : NewConfigure(c, o) \/ FromEtcdConfig(c, o)
       \/ DialFails(c) \/ FromEtcdFails(c) \/ FromEtcd(c)
       \/ RegisterDriver(c)
       \/ NewSource(c)
       \/ Returns(c)
  \/ \E x \in Closers : Closer(x)

Spec == Init /\ [][Next]_vars

-----------------------------------------------------------------------------
(* Properties.                                                             *)

DriversOf(c) == {c} \X Sources

\* The driver every reader and OnKeyChange of a Configure asks (configure.go:52-90).
DriverOf(c, n) == ds[c][n]

\* A namespace is answered by the one source that names it, whatever the sources
\* and their order; and no driver of a Configure is out of its Close's reach
\* (configure.go:37-46, README.md:127: "The namespace determines which file").
NamespacesAreServed ==
  \A c \in Calls : phase[c] \in {"building", "open"} =>
    \A d \in DriversOf(c) : driver[d].state # "none" =>
      \A n \in driver[d].namespaces : DriverOf(c, n) = d

\* A construction that failed at any source leaves no driver running: no file
\* watcher, no goroutine, no watch (configure.go:31-35, 40-43).
FailedLeavesNothing ==
  \A c \in Calls : phase[c] = "failed" =>
    \A d \in DriversOf(c) : driver[d].state \in {"none", "closed"}

Dialled(k) == k[2] # 0 \/ asked[k[1]].dialled

\* The Close of a Configure, or the construction that fails, will close d.
WillClose(d) == driver[d].state # "closed" /\ phase[d[1]] \in {"building", "open"}

\* The clients that nothing ever closes: of a source without rules (etcd.go:117);
\* of a construction that panicked (configure.go:32); and the one FromEtcdConfig
\* dialled when none of the drivers it made has it, for want of a custom_etcd source
\* (new.go:94) or because another call's client took its place (new.go:52).
LeftOpen(k) ==
  \/ k[2] # 0 /\ k \in ruleless
  \/ phase[k[1]] = "panicked"
  \/ k[2] = 0 /\ phase[k[1]] = "open" /\ \A d \in DriversOf(k[1]) : driver[d].client # k

\* A client the library dialled is open only while a driver that closes it is within
\* reach of a Close, or FromEtcdConfig is at work and will close it if it fails; the
\* others are those LeftOpen names, and no more (etcd.go:77-84, 98-121, new.go:88-101).
ClientsHaveOwners ==
  \A k \in Clients : Dialled(k) /\ client[k] = "open" =>
    \/ \E d \in Drivers : driver[d].client = k /\ driver[d].close /\ WillClose(d)
    \/ k[2] = 0 /\ phase[k[1]] \in {"reading", "registering", "building"}
    \/ LeftOpen(k)

\* A client the caller passed and did not ask to have closed is never closed, also
\* not through the factory that a later call finds (options.go:12, new.go:50-55).
PassedClientStays ==
  \A c \in Calls :
    asked[c].custom /\ ~asked[c].dialled /\ ~asked[c].close => client[Own(c)] = "open"

\* The clients of a Configure nobody closes stay open, unless another call found
\* their factory in the process and closed them (new.go:52).
OpenMeansOpen ==
  \A c \in Calls : phase[c] = "open" /\ (\A x \in Closers : closer[x].call # c) =>
    \A d \in DriversOf(c) : driver[d].client # NoClient =>
      client[driver[d].client] = "open" \/ driver[d].client \in lent

\* Close of a driver panics only in a Close that was at work while another Close of
\* the same Configure was, never because the driver has several namespaces or was
\* closed by a Close that had returned (file.go:148, configure.go:163).
PanicNeedsARace == \A x \in Closers : closer[x].pc = "panicked" => x \in met

\* When a Close has returned, every driver is closed and so is every client it was
\* to close, except what another Close is at work on.
CloseIsComplete ==
  \A x \in Closers : closer[x].pc = "done" =>
    \A d \in Made(closer[x].call) :
      \/ /\ driver[d].state = "closed"
         /\ driver[d].close => client[driver[d].client] = "closed"
      \/ \E y \in Closers : closer[y].pc = "finish" /\ closer[y].at = d
=================================================================================
