------------------------------- MODULE Discovery -------------------------------
(***************************************************************************)
(* etcdutil/discovery.go: the list of endpoints one Discovery keeps of the *)
(* keys under its prefix, which come and go as module Registry says.       *)
(* NewDiscovery gets them; from then on the Discovery is an observer of a  *)
(* Watcher (NewDiscoveryWithWatch is the case of one goroutine and no      *)
(* other observer), whose goroutines call Handle; and callers of Resolve   *)
(* take endpoints off the list in turn.                                    *)
(*                                                                         *)
(* The list is an atomic pointer: add and del load it and store a changed  *)
(* copy, Resolve loads it and then takes a number from d.n.  missed, over  *)
(* and served are history variables: keys an event of which never reached  *)
(* add or del; hosts whose change was overwritten by a store that had not  *)
(* seen it, until an event settles how often they are to be listed; and    *)
(* the places of the list handed out in this round.                        *)
(***************************************************************************)
EXTENDS Watcher, Integers

CONSTANTS
  Disc,       \* the Discovery, as an observer
  Hosts,      \* endpoints that net.SplitHostPort accepts
  BadHost,    \* any it does not
  Resolvers,  \* goroutines that call Resolve
  Half,       \* bound: d.n, a uint32, wraps at twice this (2^31 in the code)
  Narrow,     \* whether an int has 32 bits in this build (GOARCH 386, arm), not 64
  MaxChanges, \* bound: changes of keys after NewDiscovery
  MaxSteps    \* bound: those, and calls of Resolve

ASSUME DiscoveryAssumption ==
  /\ Disc \in Observers
  /\ BadHost \notin Hosts
  /\ IsFiniteSet(Keys)
  /\ Half \in Nat \ {0}
  /\ Narrow \in BOOLEAN
  /\ MaxChanges \in Nat
  /\ MaxSteps \in Nat
  /\ \A k \in Keys : HasPrefix(NameOf[k], PrefixOf[Disc])

VARIABLES
  registered,  \* external: the keys that are in etcd
  host,        \* the endpoint each key is registered with
  made,        \* NewDiscovery has returned
  hosts,       \* d.hosts
  held,        \* per goroutine: the list it has loaded and the copy it will store
  n,           \* d.n
  rs,          \* per resolver: the list it has loaded
  calls,       \* bounded: calls of Resolve so far
  missed, over, served  \* history

listVars == <<hosts, held, over, served>>
resolveVars == <<n, rs, calls>>
dvars == <<wvars, registered, host, made, listVars, resolveVars, missed>>

Registry == INSTANCE Registry

Wrap == 2 * Half

Held == [from : Seq(Hosts), to : Seq(Hosts)]
Nothing == [from |-> <<>>, to |-> <<>>]

DTypeOK ==
  /\ WTypeOK
  /\ registered \in SUBSET Keys
  /\ host \in [Keys -> Hosts \cup {BadHost}]
  /\ made \in BOOLEAN
  /\ hosts \in Seq(Hosts)
  /\ held \in Seq(Held)
  /\ Len(held) = Len(gs)
  /\ n \in 0..(Wrap - 1)
  /\ rs \in [Resolvers -> Seq(Hosts)]
  /\ calls \in 0..MaxSteps
  /\ missed \in SUBSET Keys
  /\ over \in SUBSET Hosts
  /\ served \in SUBSET (1..Len(hosts))

DInit ==
  /\ WInit
  /\ Registry!Init
  /\ host \in [Keys -> Hosts \cup {BadHost}]
  /\ made = FALSE
  /\ hosts = <<>>
  /\ held = <<>>
  /\ n = 0
  /\ rs = [r \in Resolvers |-> <<>>]
  /\ calls = 0
  /\ missed = {}
  /\ over = {}
  /\ served = {}

Times(h, list) == Cardinality({i \in DOMAIN list : list[i] = h})
Lists(h) == Times(h, hosts)
HostedBy(h) == {k \in Keys : host[k] = h}

-----------------------------------------------------------------------------
(* etcd: a key comes, comes again or goes.                                 *)

Heard(k) ==
  \E i \in DOMAIN gs : gs[i].pc # "start" /\ HasPrefix(NameOf[k], prefixes[i])

Changes(k, put) ==
  /\ IF put THEN Registry!Registers(k) ELSE Registry!Leaves(k)
  /\ made
  /\ Len(log) < MaxChanges
  /\ Len(log) + calls < MaxSteps
  /\ log' = Append(log, [key |-> k, put |-> put])
  /\ missed' = IF Heard(k) THEN missed ELSE missed \cup {k}
  /\ UNCHANGED <<observers, prefixes, gs, host, made, listVars, resolveVars>>

-----------------------------------------------------------------------------
(* NewDiscovery, then Attach and Run.                                      *)

\* One Get of the prefix, in some order; an endpoint of two keys is listed twice.
NewDiscovery ==
  /\ ~made
  /\ made' = TRUE
  /\ LET good == {k \in registered : host[k] # BadHost}
     IN  \E keys \in [1..Cardinality(good) -> good] :
           /\ \A i, j \in DOMAIN keys : i # j => keys[i] # keys[j]
           /\ hosts' = [i \in DOMAIN keys |-> host[keys[i]]]
  /\ UNCHANGED <<wvars, registered, host, held, over, served, resolveVars, missed>>

DAttach(o) ==
  /\ o = Disc => made
  /\ Attach(o)
  /\ UNCHANGED <<registered, host, made, listVars, resolveVars, missed>>

DRun ==
  /\ Attached(Disc)
  /\ Run
  /\ held' = [i \in DOMAIN prefixes |-> Nothing]
  /\ UNCHANGED <<registered, host, made, hosts, over, served, resolveVars, missed>>

DWatch(i) ==
  /\ Watch(i) \/ Receive(i) \/ WatchEnds(i)
  /\ UNCHANGED <<registered, host, made, listVars, resolveVars, missed>>

-----------------------------------------------------------------------------
(* Handle.                                                                 *)

OtherSkips(i) ==
  /\ \E o \in Observers \ {Disc} : With(i, o) /\ (Goes(i) \/ SkipsTheRest(i))
  /\ UNCHANGED <<log, observers, prefixes, registered, host, made, listVars, resolveVars, missed>>

\* Another observer returns, or panics.
OtherHandles(i) ==
  /\ \E o \in Observers \ {Disc} : With(i, o) /\ Goes(i)
  /\ UNCHANGED <<log, observers, prefixes, registered, host, made, listVars, resolveVars, missed>>

add(list, h) == IF Times(h, list) > 0 THEN list ELSE Append(list, h)

\* The places before the first that holds h, all of them if none does.
Before(h, list) == Cardinality({i \in DOMAIN list : \A j \in 1..i : list[j] # h})

delLast(list, h) == IF Times(h, list) = 0 THEN list ELSE SubSeq(list, 1, Len(list) - 1)

del(list, h) ==
  LET b == Before(h, list) IN
  IF b = Len(list) THEN list ELSE SubSeq(list, 1, b) \o SubSeq(list, b + 2, Len(list))

Changed(ev) ==
  IF ev.put THEN add(hosts, host[ev.key]) ELSE del(hosts, host[ev.key])

\* An event of an endpoint that one key has to itself says how often it is to be
\* listed.  Of an endpoint of several keys, none does.
Settled(h) == {x \in {h} : Cardinality(HostedBy(x)) = 1}

\* add and del load the list, and return if there is nothing to change.
HandleLoad(i) ==
  LET ev == log[gs[i].pos] IN
  /\ With(i, Disc)
  /\ host[ev.key] # BadHost
  /\ IF Changed(ev) = hosts
     THEN /\ Goes(i)
          /\ over' = over \ Settled(host[ev.key])
          /\ UNCHANGED held
     ELSE /\ gs' = [gs EXCEPT ![i].pc = "store"]
          /\ held' = [held EXCEPT ![i] = [from |-> hosts, to |-> Changed(ev)]]
          /\ UNCHANGED over
  /\ UNCHANGED <<log, observers, prefixes, registered, host, made, hosts, served, resolveVars, missed>>

\* An endpoint that is none, or a DELETE of a value etcd has compacted.
HandleIgnores(i) ==
  LET ev == log[gs[i].pos] IN
  /\ With(i, Disc)
  /\ Goes(i)
  /\ \/ host[ev.key] = BadHost /\ UNCHANGED missed
     \/ ~ev.put /\ missed' = missed \cup {ev.key}
  /\ UNCHANGED <<log, observers, prefixes, registered, host, made, listVars, resolveVars>>

\* What the store of goroutine i overwrites: hosts whose count has changed since
\* the load, but for the one this store is about, if it settles it.
Overwrites(i, h) ==
  {x \in Hosts : Times(x, hosts) # Times(x, held[i].from)} \ Settled(h)

\* The copy replaces whatever the list is by now.
HandleStore(i) ==
  LET h == host[log[gs[i].pos].key] IN
  /\ gs[i].pc = "store"
  /\ Goes(i)
  /\ hosts' = held[i].to
  /\ held' = [held EXCEPT ![i] = Nothing]
  /\ over' = (over \ Settled(h)) \cup Overwrites(i, h)
  /\ served' = {}
  /\ UNCHANGED <<log, observers, prefixes, registered, host, made, resolveVars, missed>>

Handle(i) == OtherHandles(i) \/ HandleLoad(i) \/ HandleIgnores(i) \/ HandleStore(i)

-----------------------------------------------------------------------------
(* Resolve.  A list of one, or none, needs no number.                      *)

Load(r) ==
  /\ rs[r] = <<>>
  /\ Len(hosts) > 1
  /\ Len(log) + calls < MaxSteps
  /\ calls' = calls + 1
  /\ rs' = [rs EXCEPT ![r] = hosts]
  /\ UNCHANGED <<wvars, registered, host, made, listVars, n, missed>>

\* int(u) of a uint32.
AsInt(u) == IF Narrow /\ u >= Half THEN u - Wrap ELSE u

\* The % of Go: what it leaves has the sign of what it divides.
Remainder(a, m) == IF a >= 0 THEN a % m ELSE -((-a) % m)

Index(r) == Remainder(AsInt(n), Len(rs[r]))
Place(r) == Index(r) + 1

\* A round ends when every place was handed out, or when the order breaks: n wraps
\* or a caller with an older list takes a number.
Round(r) ==
  LET taken == served \cup {Place(r)} IN
  IF \/ rs[r] # hosts
     \/ taken = DOMAIN hosts
     \/ n + 1 = Wrap /\ Wrap % Len(hosts) # 0
  THEN {} ELSE taken

TakeKeepsNumber(r) ==
  /\ rs[r] # <<>>
  /\ Index(r) >= 0
  /\ served' = Round(r)
  /\ rs' = [rs EXCEPT ![r] = <<>>]
  /\ UNCHANGED <<wvars, registered, host, made, hosts, held, over, n, calls, missed>>

Take(r) ==
  /\ rs[r] # <<>>
  /\ Index(r) >= 0
  /\ served' = Round(r)
  /\ n' = (n + 1) % Wrap
  /\ rs' = [rs EXCEPT ![r] = <<>>]
  /\ UNCHANGED <<wvars, registered, host, made, hosts, held, over, calls, missed>>

\* The index is out of range.  Whoever recovers finds the number taken.
TakePanics(r) ==
  /\ rs[r] # <<>>
  /\ Index(r) < 0
  /\ served' = {}
  /\ n' = (n + 1) % Wrap
  /\ rs' = [rs EXCEPT ![r] = <<>>]
  /\ UNCHANGED <<wvars, registered, host, made, hosts, held, over, calls, missed>>

-----------------------------------------------------------------------------
DNext ==
  \/ \E k \in Keys, put \in BOOLEAN : Changes(k, put)
  \/ NewDiscovery
  \/ \E o \in Observers : DAttach(o)
  \/ DRun
  \/ \E i \in DOMAIN gs : DWatch(i) \/ Handle(i)
  \/ \E r \in Resolvers : Load(r) \/ Take(r) \/ TakePanics(r)

DSpec == DInit /\ [][DNext]_dvars

-----------------------------------------------------------------------------
(* Properties.                                                             *)

\* Every goroutine has handled every event of its watch.
Drained == gs # <<>> /\ \A i \in DOMAIN gs : gs[i].pc = "idle" /\ Unread(i) = {}

\* An endpoint is listed no more often than keys are registered with it, except
\* for events that were missed or overwritten (discovery.go:45-55, 108-165).
ListedIsRegistered ==
  Drained =>
    \A h \in Hosts \ over :
      Lists(h) <= Cardinality({k \in HostedBy(h) : k \in registered \/ k \in missed})

\* An endpoint that one key has all to itself is listed once while the key is
\* registered and not at all otherwise, whichever goroutines tell of it, and
\* whatever a handler overwrote before the last event of that key
\* (discovery.go:126-165 under watcher.go:107-122).
OwnEndpointIsExact ==
  Drained =>
    \A h \in Hosts \ over, k \in Keys :
      HostedBy(h) = {k} /\ k \notin missed => Lists(h) = IF k \in registered THEN 1 ELSE 0

\* Resolve hands out every place of the list before it hands out one again, unless
\* the list changes, d.n wraps at no multiple of its length, or a caller that
\* loaded an older list takes a number in between.  It panics only where an int has
\* 32 bits, and only in the upper half of what d.n runs through; a place it still
\* hands out there is not one it handed out since it last panicked
\* (discovery.go:79-92).
ResolveTakesTurns ==
  [][\A r \in Resolvers :
       rs[r] # <<>> /\ rs'[r] = <<>> /\ rs[r] = hosts
         => IF Index(r) < 0 THEN Narrow /\ n >= Half ELSE Place(r) \notin served]_dvars

-----------------------------------------------------------------------------
(* What the documentation says and the code does not do.                   *)

\* discovery.go:60: NewDiscoveryWithWatch "starts watching for changes".  So when
\* every event was handled, and none was missed or overwritten, what is
\* registered is listed.
RegisteredIsListed ==
  Drained /\ missed = {} /\ over = {} =>
    \A h \in Hosts : \A k \in HostedBy(h) : k \in registered => Lists(h) > 0
=================================================================================
