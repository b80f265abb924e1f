-------------------------------- MODULE Watcher --------------------------------
(***************************************************************************)
(* etcdutil/watcher.go: one Watcher and the observers that share its etcd  *)
(* watches.  Attach folds the prefixes of the observers into few; Run      *)
(* starts one goroutine for each that is left, which gives every event of  *)
(* its watch to every observer whose own prefix the key has.               *)
(*                                                                         *)
(* What an observer does with an event is up to the module that extends    *)
(* this one.  log is external: the events of etcd, oldest first.           *)
(***************************************************************************)
EXTENDS Naturals, Sequences, FiniteSets

CONSTANTS
  Chars,
  Observers,
  Keys,
  PrefixOf,  \* Prefix() of each observer
  NameOf,    \* the name of each key
  MinLen     \* commonPrefixMinLen

ASSUME WatcherAssumption ==
  /\ PrefixOf \in [Observers -> Seq(Chars)]
  /\ NameOf \in [Keys -> Seq(Chars)]
  /\ MinLen \in Nat \ {0}

VARIABLES
  log,        \* external
  observers,  \* w.observers
  prefixes,   \* w.prefixes
  gs          \* per prefix, once Run is called: its goroutine

wvars == <<log, observers, prefixes, gs>>

Event == [key : Keys, put : BOOLEAN]

\* pos is the last event received, at the observer it is with.
Goroutine == [pc : {"start", "idle", "dispatch", "store", "stopped"}, pos : Nat, at : Nat]

WTypeOK ==
  /\ log \in Seq(Event)
  /\ observers \in Seq(Observers)
  /\ prefixes \in Seq(Seq(Chars))
  /\ gs \in Seq(Goroutine)

WInit ==
  /\ log = <<>>
  /\ observers = <<>>
  /\ prefixes = <<>>
  /\ gs = <<>>

-----------------------------------------------------------------------------
(* Prefixes.                                                               *)

HasPrefix(s, p) == Len(p) <= Len(s) /\ \A j \in 1..Len(p) : s[j] = p[j]

Agree(s, t, n) == n <= Len(t) /\ \A j \in 1..n : s[j] = t[j]

\* As long as the number of lengths up to which s and t agree.
Common(s, t) == SubSeq(s, 1, Cardinality({n \in 1..Len(s) : Agree(s, t, n)}))

commonPrefix(s, t) ==
  LET p == Common(s, t) IN
  IF p \in {s, t} \/ Len(p) >= MinLen THEN p ELSE <<>>

\* The prefixes that have one in common with p.
Shared(p) == {i \in DOMAIN prefixes : commonPrefix(p, prefixes[i]) # <<>>}

\* The callers of Attach give it an observer once: the etcd driver keeps the paths it
\* has attached in watchPath.
Attached(o) == \E i \in DOMAIN observers : observers[i] = o

AttachMissingElse(o) ==
  LET p == PrefixOf[o] IN
  /\ gs = <<>>
  /\ ~Attached(o)
  /\ observers' = Append(observers, o)
  /\ prefixes' = IF prefixes = <<>> THEN <<p>>
                 ELSE [prefixes EXCEPT ![1] = IF Shared(p) = {} THEN @ ELSE Common(p, @)]
  /\ UNCHANGED <<log, gs>>

Attach(o) ==
  LET p == PrefixOf[o] IN
  /\ gs = <<>>
  /\ ~Attached(o)
  /\ observers' = Append(observers, o)
  /\ \/ Shared(p) = {} /\ prefixes' = Append(prefixes, p)
     \/ \E i \in Shared(p) :
          /\ \A j \in Shared(p) : i <= j
          /\ prefixes' = [prefixes EXCEPT ![i] = commonPrefix(p, @)]
  /\ UNCHANGED <<log, gs>>

-----------------------------------------------------------------------------
(* Run and its goroutines.                                                 *)

Run ==
  /\ gs = <<>>
  /\ prefixes # <<>>
  /\ gs' = [i \in DOMAIN prefixes |-> [pc |-> "start", pos |-> 0, at |-> 0]]
  /\ UNCHANGED <<log, observers, prefixes>>

\* The watch starts at the revision etcd is at.
Watch(i) ==
  /\ gs[i].pc = "start"
  /\ gs' = [gs EXCEPT ![i] = [pc |-> "idle", pos |-> Len(log), at |-> 0]]
  /\ UNCHANGED <<log, observers, prefixes>>

\* The observers an event of key k is still to be given to.
Due(k, from) == {a \in from..Len(observers) : HasPrefix(NameOf[k], PrefixOf[observers[a]])}

\* Goroutine i, which is as g says, goes on to the next of them, or to its next event.
To(i, g, k) ==
  LET due == Due(k, g.at + 1) IN
  \/ due = {} /\ gs' = [gs EXCEPT ![i] = [g EXCEPT !.pc = "idle", !.at = 0]]
  \/ \E a \in due :
       /\ \A b \in due : a <= b
       /\ gs' = [gs EXCEPT ![i] = [g EXCEPT !.pc = "dispatch", !.at = a]]

\* The events the watch of goroutine i has and the goroutine has not.
Unread(i) ==
  {e \in gs[i].pos + 1 .. Len(log) : HasPrefix(NameOf[log[e].key], prefixes[i])}

Receive(i) ==
  /\ gs[i].pc = "idle"
  /\ \E e \in Unread(i) :
       /\ \A f \in Unread(i) : e <= f
       /\ To(i, [gs[i] EXCEPT !.pos = e], log[e].key)
  /\ UNCHANGED <<log, observers, prefixes>>

With(i, o) == gs[i].pc = "dispatch" /\ observers[gs[i].at] = o

SkipsTheRest(i) == gs' = [gs EXCEPT ![i] = [@ EXCEPT !.pc = "idle", !.at = 0]]

\* The observer goroutine i is with has returned, or panicked: a panic is
\* recovered around each call of Handle.
Goes(i) == To(i, gs[i], log[gs[i].pos].key)

\* The channel of its watch is closed.
WatchEnds(i) ==
  /\ gs[i].pc = "idle"
  /\ gs' = [gs EXCEPT ![i].pc = "stopped"]
  /\ UNCHANGED <<log, observers, prefixes>>

-----------------------------------------------------------------------------
(* Properties.                                                             *)

\* Every observer that is attached is covered by a prefix that is watched, however
\* the prefixes of those attached after it were folded into it (watcher.go:47-65,
\* 128-151).
EveryObserverIsWatched ==
  \A a \in DOMAIN observers :
    \E i \in DOMAIN prefixes : HasPrefix(PrefixOf[observers[a]], prefixes[i])
=================================================================================
