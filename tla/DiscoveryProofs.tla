----------------------------- MODULE DiscoveryProofs -----------------------------
(***************************************************************************)
(* A Watcher and a Discovery on it, for any prefixes, observers and order  *)
(* of Attach, any number of keys, goroutines and resolvers: no observer is *)
(* left without a watch; Resolve takes turns; and the list counts the keys *)
(* of each endpoint, for which CountInv follows every event from the log   *)
(* through the goroutines that have yet to handle it.                      *)
(***************************************************************************)
EXTENDS Discovery, FiniteSetTheorems, FunctionTheorems, TLAPS

LEMMA UpTo ==
  ASSUME NEW m \in Nat
  PROVE  IsFiniteSet(1..m) /\ Cardinality(1..m) = m
  <1>1. IsFiniteSet(1..m) /\ Cardinality(1..m) = IF 1 > m THEN 0 ELSE m - 1 + 1
    BY FS_Interval
  <1> DEFINE card == Cardinality(1..m)
  <1>2. card = IF 1 > m THEN 0 ELSE m - 1 + 1
    BY <1>1
  <1> HIDE DEF card
  <1>3. card = m
    BY <1>2
  <1> QED BY <1>1, <1>3 DEF card

\* A set that holds every positive number below one it holds ends at its size.
LEMMA SizeIsLast ==
  ASSUME NEW m \in Nat, NEW B \in SUBSET (1..m), \A b \in B : \A a \in 1..b : a \in B
  PROVE  /\ Cardinality(B) \in 0..m
         /\ Cardinality(B) = 0 \/ Cardinality(B) \in B
  <1> DEFINE c == Cardinality(B)
  <1>1. IsFiniteSet(B) /\ c <= Cardinality(1..m)
    BY UpTo, FS_Subset, Zenon
  <1>2. c \in Nat
    BY <1>1, FS_CardinalityType
  <1>3. c <= m
    BY <1>1, UpTo, Zenon
  <1>4. ASSUME c # 0, c \notin B PROVE FALSE
    <2>1. c - 1 \in Nat
      <3> HIDE DEF c
      <3> QED BY <1>2, <1>4
    <2>2. B \subseteq 1..(c - 1)
      <3> HIDE DEF c
      <3> SUFFICES ASSUME NEW b \in B, b >= c PROVE FALSE
        BY <1>2
      <3> QED BY <1>2, <1>4
    <2>3. c <= Cardinality(1..(c - 1))
      BY <2>1, <2>2, UpTo, FS_Subset, Zenon
    <2>4. c <= c - 1
      BY <2>1, <2>3, UpTo, Zenon
    <2> HIDE DEF c
    <2> QED BY <1>2, <2>4
  <1> HIDE DEF c
  <1>5. c \in 0..m /\ (c = 0 \/ c \in B)
    BY <1>2, <1>3, <1>4
  <1> QED BY <1>5 DEF c

\* commonPrefix counts the lengths that agree: they are 1, 2 and so on, so their
\* number is the longest (watcher.go:128-141).
LEMMA CommonIsPrefix ==
  ASSUME NEW s \in Seq(Chars), NEW t \in Seq(Chars)
  PROVE  /\ Common(s, t) \in Seq(Chars)
         /\ HasPrefix(s, Common(s, t))
         /\ HasPrefix(t, Common(s, t))
  <1> DEFINE A == {m \in 1..Len(s) : Agree(s, t, m)}
             c == Cardinality(A)
  <1>0. Len(s) \in Nat /\ Len(t) \in Nat
    OBVIOUS
  <1>1. c \in 0..Len(s) /\ (c = 0 \/ c \in A)
    <2>1. \A m \in A : \A a \in 1..m : a \in A
      BY <1>0 DEF Agree
    <2>2. A \in SUBSET (1..Len(s))
      OBVIOUS
    <2> HIDE DEF A
    <2> QED BY <1>0, <2>1, <2>2, SizeIsLast, Zenon
  <1>2. c = 0 \/ Agree(s, t, c)
    BY <1>1
  <1>3. Common(s, t) = SubSeq(s, 1, c)
    BY DEF Common
  <1> HIDE DEF A, c
  <1>4. /\ SubSeq(s, 1, c) \in Seq(Chars)
        /\ Len(SubSeq(s, 1, c)) = c
        /\ \A j \in 1..c : SubSeq(s, 1, c)[j] = s[j]
    BY <1>0, <1>1
  <1>5. c <= Len(t) /\ \A j \in 1..c : s[j] = t[j]
    BY <1>0, <1>1, <1>2 DEF Agree
  <1> QED BY <1>0, <1>1, <1>3, <1>4, <1>5 DEF HasPrefix

LEMMA PrefixIsTransitive ==
  ASSUME NEW s \in Seq(Chars), NEW p \in Seq(Chars), NEW q \in Seq(Chars),
         HasPrefix(s, p), HasPrefix(p, q)
  PROVE  HasPrefix(s, q)
  BY DEF HasPrefix

LEMMA PrefixIsReflexive ==
  ASSUME NEW s \in Seq(Chars)
  PROVE  HasPrefix(s, s)
  BY DEF HasPrefix

CoverInv ==
  /\ observers \in Seq(Observers)
  /\ prefixes \in Seq(Seq(Chars))
  /\ EveryObserverIsWatched

\* Attach covers the new observer, and a prefix that it shortens covers whom it
\* covered before.
LEMMA AttachCovers ==
  ASSUME CoverInv, NEW o \in Observers, Attach(o)
  PROVE  CoverInv'
  <1> DEFINE p == PrefixOf[o]
  <1>1. p \in Seq(Chars)
    BY WatcherAssumption
  <1>2. observers' \in Seq(Observers) /\ Len(observers') = Len(observers) + 1
        /\ observers'[Len(observers) + 1] = o
        /\ \A a \in DOMAIN observers : observers'[a] = observers[a]
    BY DEF CoverInv, Attach
  <1>3. CASE prefixes' = Append(prefixes, p)
    <2>1. /\ prefixes' \in Seq(Seq(Chars))
          /\ DOMAIN prefixes' = 1..(Len(prefixes) + 1)
          /\ prefixes'[Len(prefixes) + 1] = p
          /\ \A i \in DOMAIN prefixes : i \in DOMAIN prefixes' /\ prefixes'[i] = prefixes[i]
      BY <1>1, <1>3 DEF CoverInv
    <2>2. HasPrefix(p, prefixes'[Len(prefixes) + 1]) /\ Len(prefixes) + 1 \in DOMAIN prefixes'
      BY <1>1, <2>1, PrefixIsReflexive DEF CoverInv
    <2>3. ASSUME NEW a \in DOMAIN observers'
          PROVE  \E i \in DOMAIN prefixes' : HasPrefix(PrefixOf[observers'[a]], prefixes'[i])
      <3>1. CASE a = Len(observers) + 1
        BY <1>2, <2>2, <3>1
      <3>2. CASE a \in DOMAIN observers
        BY <1>2, <2>1, <3>2 DEF CoverInv, EveryObserverIsWatched
      <3> QED BY <1>2, <3>1, <3>2 DEF CoverInv
    <2> QED BY <1>2, <2>1, <2>3 DEF CoverInv, EveryObserverIsWatched
  <1>4. ASSUME NEW i \in Shared(p), prefixes' = [prefixes EXCEPT ![i] = commonPrefix(p, @)]
        PROVE  CoverInv'
    <2> DEFINE q == Common(p, prefixes[i])
    <2>1. i \in DOMAIN prefixes /\ prefixes[i] \in Seq(Chars) /\ commonPrefix(p, prefixes[i]) # <<>>
      BY <1>4 DEF Shared, CoverInv
    <2>2. commonPrefix(p, prefixes[i]) = q
      BY <2>1 DEF commonPrefix
    <2>3. q \in Seq(Chars) /\ HasPrefix(p, q) /\ HasPrefix(prefixes[i], q)
      BY <1>1, <2>1, CommonIsPrefix
    <2> HIDE DEF q
    <2>4. /\ prefixes' \in Seq(Seq(Chars))
          /\ DOMAIN prefixes' = DOMAIN prefixes
          /\ prefixes'[i] = q
          /\ \A j \in DOMAIN prefixes : j # i => prefixes'[j] = prefixes[j]
      BY <1>4, <2>1, <2>2, <2>3 DEF CoverInv
    <2>5. ASSUME NEW a \in DOMAIN observers'
          PROVE  \E j \in DOMAIN prefixes' : HasPrefix(PrefixOf[observers'[a]], prefixes'[j])
      <3>1. CASE a = Len(observers) + 1
        BY <1>2, <2>1, <2>3, <2>4, <3>1
      <3>2. CASE a \in DOMAIN observers
        <4>1. PICK j \in DOMAIN prefixes : HasPrefix(PrefixOf[observers[a]], prefixes[j])
          BY <3>2 DEF CoverInv, EveryObserverIsWatched
        <4>2. PrefixOf[observers[a]] \in Seq(Chars)
          BY <3>2, WatcherAssumption DEF CoverInv
        <4>3. CASE j = i
          <5>1. HasPrefix(PrefixOf[observers[a]], q)
            BY <2>1, <2>3, <4>1, <4>2, <4>3, PrefixIsTransitive
          <5> QED BY <1>2, <2>1, <2>4, <3>2, <5>1
        <4>4. CASE j # i
          BY <1>2, <2>4, <3>2, <4>1, <4>4
        <4> QED BY <4>3, <4>4
      <3> QED BY <1>2, <3>1, <3>2 DEF CoverInv
    <2> QED BY <1>2, <2>4, <2>5 DEF CoverInv, EveryObserverIsWatched
  <1> QED BY <1>3, <1>4 DEF Attach

\* No other step moves an observer or a prefix.
LEMMA OthersKeepPrefixes ==
  ASSUME [DNext]_dvars, \A o \in Observers : ~DAttach(o)
  PROVE  UNCHANGED <<observers, prefixes>>
  <1>1. ASSUME NEW k \in Keys, NEW put \in BOOLEAN, Changes(k, put)
        PROVE  UNCHANGED <<observers, prefixes>>
    BY <1>1 DEF Changes
  <1>2. CASE NewDiscovery \/ DRun
    BY <1>2 DEF NewDiscovery, DRun, Run, wvars
  <1>3. ASSUME NEW i \in DOMAIN gs, DWatch(i) \/ Handle(i)
        PROVE  UNCHANGED <<observers, prefixes>>
    BY <1>3 DEF DWatch, Watch, Receive, WatchEnds, Handle, OtherHandles, HandleLoad, HandleIgnores,
                HandleStore
  <1>4. ASSUME NEW r \in Resolvers, Load(r) \/ Take(r) \/ TakePanics(r)
        PROVE  UNCHANGED <<observers, prefixes>>
    BY <1>4 DEF Load, Take, TakePanics, wvars
  <1>5. CASE UNCHANGED dvars
    BY <1>5 DEF dvars, wvars
  <1> QED BY <1>1, <1>2, <1>3, <1>4, <1>5 DEF DNext

LEMMA Covers == DSpec => []CoverInv
  <1>1. DInit => CoverInv
    BY DEF DInit, WInit, CoverInv, EveryObserverIsWatched
  <1>2. ASSUME CoverInv, [DNext]_dvars PROVE CoverInv'
    <2>1. ASSUME NEW o \in Observers, DAttach(o) PROVE CoverInv'
      BY <1>2, <2>1, AttachCovers DEF DAttach
    <2>2. CASE UNCHANGED <<observers, prefixes>>
      BY <1>2, <2>2 DEF CoverInv, EveryObserverIsWatched
    <2> QED BY <1>2, <2>1, <2>2, OthersKeepPrefixes
  <1> QED BY <1>1, <1>2, PTL DEF DSpec

\* Whatever prefixes observers have and in whatever order they are attached, each
\* of them is covered by a prefix that Run watches.
THEOREM ObserversAreWatched == DSpec => []EveryObserverIsWatched
  <1>1. CoverInv => EveryObserverIsWatched
    BY DEF CoverInv
  <1> QED BY <1>1, Covers, PTL

-----------------------------------------------------------------------------
(* Types.                                                                  *)

\* What a goroutine works on is an event of the log; the list is empty and nobody
\* works on it before NewDiscovery.
TypeInv ==
  /\ DTypeOK
  /\ \A i \in DOMAIN gs : gs[i].pc \in {"dispatch", "store"} => gs[i].pos \in DOMAIN log
  /\ Attached(Disc) \/ gs # <<>> => made
  /\ ~made => hosts = <<>>

LEMMA BeforeIsPlace ==
  ASSUME NEW h, NEW list \in Seq(Hosts)
  PROVE  /\ Before(h, list) \in 0..Len(list)
         /\ Before(h, list) # Len(list) => list[Before(h, list) + 1] = h
  <1> DEFINE B == {i \in DOMAIN list : \A j \in 1..i : list[j] # h}
             b == Cardinality(B)
  <1>0. Len(list) \in Nat /\ DOMAIN list = 1..Len(list)
    OBVIOUS
  <1>1. B \in SUBSET (1..Len(list)) /\ \A i \in B : \A a \in 1..i : a \in B
    BY <1>0
  <1>2. b \in 0..Len(list) /\ (b = 0 \/ b \in B)
    <2> HIDE DEF B
    <2> QED BY <1>0, <1>1, SizeIsLast, Zenon
  <1>3. ASSUME b # Len(list), list[b + 1] # h PROVE FALSE
    <2>1. \A j \in 1..b : list[j] # h
      <3> HIDE DEF b
      <3> QED BY <1>2
    <2>2. b + 1 \in B
      <3> HIDE DEF b
      <3>1. b \in 0..Len(list)
        BY <1>2
      <3>2. b + 1 \in 1..Len(list)
        <4> DEFINE m == Len(list)
        <4>1. b \in 0..m /\ b # m /\ m \in Nat
          BY <1>0, <1>3, <3>1
        <4> HIDE DEF m
        <4> QED BY <4>1 DEF m
      <3>3. \A j \in 1..(b + 1) : j \in 1..b \/ j = b + 1
        BY <3>1
      <3>4. \A j \in 1..(b + 1) : list[j] # h
        BY <1>3, <2>1, <3>3
      <3> QED BY <1>0, <3>2, <3>4
    <2>3. IsFiniteSet(B) /\ b + 1 \in 1..(b + 1)
      <3>1. IsFiniteSet(1..Len(list))
        BY <1>0, UpTo
      <3>2. IsFiniteSet(B)
        <4> HIDE DEF B
        <4> QED BY <1>1, <3>1, FS_Subset
      <3> HIDE DEF b
      <3> QED BY <1>2, <3>2
    <2>4. 1..(b + 1) \subseteq B
      <3> HIDE DEF b
      <3> QED BY <1>1, <2>2
    <2>5. Cardinality(1..(b + 1)) <= b
      <3> HIDE DEF B
      <3> QED BY <2>3, <2>4, FS_Subset, Zenon
    <2>6. Cardinality(1..(b + 1)) = b + 1
      <3> HIDE DEF b
      <3> QED BY <1>2, UpTo
    <2> HIDE DEF b
    <2> QED BY <1>2, <2>5, <2>6
  <1>4. Before(h, list) = b
    BY DEF Before
  <1> HIDE DEF b
  <1> QED BY <1>2, <1>3, <1>4

\* A list stays one, whatever is added to it or deleted from it (discovery.go:126-165).
LEMMA ListsStayLists ==
  ASSUME NEW list \in Seq(Hosts), NEW h \in Hosts
  PROVE  add(list, h) \in Seq(Hosts) /\ del(list, h) \in Seq(Hosts)
  <1>1. add(list, h) \in Seq(Hosts)
    BY DEF add
  <1>2. del(list, h) \in Seq(Hosts)
    <2> DEFINE b == Before(h, list)
    <2>1. b \in 0..Len(list) /\ Len(list) \in Nat
      BY BeforeIsPlace
    <2>2. CASE b = Len(list)
      BY <2>2 DEF del
    <2>3. CASE b # Len(list)
      <3>1. del(list, h) = SubSeq(list, 1, b) \o SubSeq(list, b + 2, Len(list))
        BY <2>3 DEF del
      <3> HIDE DEF b
      <3>2. SubSeq(list, 1, b) \in Seq(Hosts)
        BY <2>1
      <3>3. SubSeq(list, b + 2, Len(list)) \in Seq(Hosts)
        BY <2>1, <2>3
      <3> QED BY <3>1, <3>2, <3>3
    <2> QED BY <2>2, <2>3
  <1> QED BY <1>1, <1>2

LEMMA Replaced ==
  ASSUME NEW S, NEW s \in Seq(S), NEW i \in DOMAIN s, NEW x \in S
  PROVE  /\ [s EXCEPT ![i] = x] \in Seq(S)
         /\ Len([s EXCEPT ![i] = x]) = Len(s)
         /\ [s EXCEPT ![i] = x][i] = x
         /\ \A j \in DOMAIN s : j # i => [s EXCEPT ![i] = x][j] = s[j]
  OBVIOUS

LEMMA Filled ==
  ASSUME NEW S, NEW T, NEW s \in Seq(S), NEW x \in T, NEW f, f = [i \in DOMAIN s |-> x]
  PROVE  f \in Seq(T) /\ Len(f) = Len(s) /\ \A i \in DOMAIN f : f[i] = x
  <1>1. Len(s) \in Nat /\ DOMAIN s = 1..Len(s)
    OBVIOUS
  <1>2. f = [i \in 1..Len(s) |-> x]
    BY <1>1
  <1> QED BY <1>1, <1>2

\* A goroutine that goes on keeps its event; the others stay where they are.
LEMMA GoesOn ==
  ASSUME gs \in Seq(Goroutine), observers \in Seq(Observers), NEW i \in DOMAIN gs,
         NEW g \in Goroutine, NEW k, To(i, g, k)
  PROVE  /\ gs' \in Seq(Goroutine)
         /\ Len(gs') = Len(gs)
         /\ gs'[i].pos = g.pos
         /\ \A j \in DOMAIN gs : j # i => gs'[j] = gs[j]
  <1>1. PICK x \in Goroutine : x.pos = g.pos /\ gs' = [gs EXCEPT ![i] = x]
    <2>1. CASE gs' = [gs EXCEPT ![i] = [g EXCEPT !.pc = "idle", !.at = 0]]
      BY <2>1 DEF Goroutine
    <2>2. ASSUME NEW a \in Due(k, g.at + 1),
                 gs' = [gs EXCEPT ![i] = [g EXCEPT !.pc = "dispatch", !.at = a]]
          PROVE  \E x \in Goroutine : x.pos = g.pos /\ gs' = [gs EXCEPT ![i] = x]
      <3>1. a \in Nat
        <4>1. g.at \in Nat /\ Len(observers) \in Nat
          BY DEF Goroutine
        <4>2. a \in (g.at + 1)..Len(observers)
          BY DEF Due
        <4> QED BY <4>1, <4>2
      <3>2. [g EXCEPT !.pc = "dispatch", !.at = a] \in Goroutine
        BY <3>1 DEF Goroutine
      <3>3. [g EXCEPT !.pc = "dispatch", !.at = a].pos = g.pos
        BY DEF Goroutine
      <3> QED BY <2>2, <3>2, <3>3
    <2> QED BY <2>1, <2>2 DEF To
  <1> QED BY <1>1

LEMMA WrapType == Wrap \in Nat \ {0} /\ Half \in Nat \ {0} /\ Wrap = Half + Half
  BY DiscoveryAssumption DEF Wrap

\* What Resolve makes of a number: in the upper half of the numbers, where an int has
\* 32 bits, no place or the first.
LEMMA RemainderOf ==
  ASSUME NEW u \in 0..(Wrap - 1), NEW m \in Nat \ {0}
  PROVE  /\ Narrow /\ u >= Half /\ (Wrap - u) % m = 0 => Remainder(AsInt(u), m) = 0
         /\ Narrow /\ u >= Half /\ (Wrap - u) % m # 0 => Remainder(AsInt(u), m) < 0
         /\ ~(Narrow /\ u >= Half) => Remainder(AsInt(u), m) = u % m
         /\ Remainder(AsInt(u), m) \in (-m)..(m - 1)
  <1>1. CASE Narrow /\ u >= Half
    <2> DEFINE b == Wrap - u
    <2>1. AsInt(u) = u - Wrap
      BY <1>1 DEF AsInt
    <2>2. b \in Nat /\ ~(u - Wrap >= 0) /\ -(u - Wrap) = b
      BY WrapType
    <2> HIDE DEF b
    <2>6. Remainder(AsInt(u), m) = -(b % m)
      BY <2>1, <2>2 DEF Remainder
    <2>3. b % m \in 0..(m - 1)
      BY <2>2
    <2>4. b % m = 0 => Remainder(AsInt(u), m) = 0
      BY <2>6
    <2>5. b % m # 0 => Remainder(AsInt(u), m) < 0
      BY <2>3, <2>6
    <2>7. Remainder(AsInt(u), m) \in (-m)..(m - 1)
      BY <2>3, <2>6
    <2> QED BY <1>1, <2>4, <2>5, <2>7 DEF b
  <1>2. CASE ~(Narrow /\ u >= Half)
    <2>1. AsInt(u) = u /\ u \in Nat
      BY <1>2, WrapType DEF AsInt
    <2>2. u % m \in 0..(m - 1)
      BY <2>1
    <2> QED BY <1>2, <2>1, <2>2 DEF Remainder
  <1> QED BY <1>1, <1>2

LEMMA OthersStay ==
  ASSUME TypeInv, UNCHANGED <<log, observers, prefixes, registered, host, made>>,
         gs' \in Seq(Goroutine), Len(gs') = Len(gs),
         \A j \in DOMAIN gs : gs'[j].pc \in {"dispatch", "store"} => gs'[j].pos \in DOMAIN log,
         held' \in Seq(Held), Len(held') = Len(held),
         hosts' \in Seq(Hosts), made \/ hosts' = <<>>,
         over' \in SUBSET Hosts, missed' \in SUBSET Keys, served' \in SUBSET (1..Len(hosts')),
         UNCHANGED resolveVars
  PROVE  TypeInv'
  <1>1. DTypeOK'
    BY DEF TypeInv, DTypeOK, WTypeOK, resolveVars
  <1>2. DOMAIN gs' = DOMAIN gs /\ (gs' # <<>> => gs # <<>>)
    BY DEF TypeInv, DTypeOK, WTypeOK
  <1> QED BY <1>1, <1>2 DEF TypeInv, Attached

\* What Handle works on: an event of a key, and the lists that go with it.
LEMMA EventOf ==
  ASSUME TypeInv, NEW i \in DOMAIN gs, gs[i].pc \in {"dispatch", "store"}
  PROVE  /\ gs[i] \in Goroutine
         /\ gs[i].pos \in DOMAIN log
         /\ log[gs[i].pos] \in Event
         /\ log[gs[i].pos].key \in Keys
         /\ host[log[gs[i].pos].key] \in Hosts \cup {BadHost}
         /\ i \in DOMAIN held /\ held[i] \in Held
         /\ made
  <1>1. gs[i].pos \in DOMAIN log
    BY DEF TypeInv
  <1>2. log[gs[i].pos] \in Event
    BY <1>1 DEF TypeInv, DTypeOK, WTypeOK
  <1>3. log[gs[i].pos].key \in Keys
    BY <1>2 DEF Event
  <1>4. gs[i] \in Goroutine /\ i \in DOMAIN held /\ held[i] \in Held
    BY DEF TypeInv, DTypeOK, WTypeOK
  <1>5. gs # <<>>
    BY DEF TypeInv, DTypeOK, WTypeOK
  <1> QED BY <1>1, <1>2, <1>3, <1>4, <1>5 DEF TypeInv, DTypeOK

LEMMA HandleTypes ==
  ASSUME TypeInv, NEW i \in DOMAIN gs, Handle(i)
  PROVE  TypeInv'
  <1> DEFINE ev == log[gs[i].pos]
             h == host[ev.key]
  <1>1. gs[i].pc \in {"dispatch", "store"}
    BY DEF Handle, OtherHandles, HandleLoad, HandleIgnores, HandleStore, With
  <1>2. /\ gs[i] \in Goroutine /\ gs[i].pos \in DOMAIN log
        /\ ev.key \in Keys /\ h \in Hosts \cup {BadHost}
        /\ i \in DOMAIN held /\ held[i] \in Held /\ made
    BY <1>1, EventOf
  <1>3. /\ gs \in Seq(Goroutine) /\ observers \in Seq(Observers) /\ hosts \in Seq(Hosts)
        /\ held \in Seq(Held) /\ over \in SUBSET Hosts /\ missed \in SUBSET Keys
        /\ served \in SUBSET (1..Len(hosts))
        /\ \A j \in DOMAIN gs : gs[j].pc \in {"dispatch", "store"} => gs[j].pos \in DOMAIN log
    BY DEF TypeInv, DTypeOK, WTypeOK
  <1>4. ASSUME Goes(i)
        PROVE  /\ gs' \in Seq(Goroutine) /\ Len(gs') = Len(gs)
               /\ \A j \in DOMAIN gs : gs'[j].pc \in {"dispatch", "store"} => gs'[j].pos \in DOMAIN log
    <2>1. /\ gs' \in Seq(Goroutine) /\ Len(gs') = Len(gs) /\ gs'[i].pos = gs[i].pos
          /\ \A j \in DOMAIN gs : j # i => gs'[j] = gs[j]
      BY <1>2, <1>3, <1>4, GoesOn DEF Goes
    <2> QED BY <1>2, <1>3, <2>1
  <1>5. CASE OtherHandles(i)
    BY <1>2, <1>3, <1>4, <1>5, OthersStay DEF OtherHandles, listVars
  <1>6. CASE HandleIgnores(i)
    <2>1. missed' \in SUBSET Keys
      BY <1>2, <1>3, <1>6 DEF HandleIgnores
    <2> QED BY <1>2, <1>3, <1>4, <1>6, <2>1, OthersStay DEF HandleIgnores, listVars
  <1>7. CASE HandleLoad(i)
    <2>1. h \in Hosts
      BY <1>2, <1>7 DEF HandleLoad
    <2>2. Changed(ev) \in Seq(Hosts)
      BY <1>3, <2>1, ListsStayLists DEF Changed
    <2>3. CASE Changed(ev) = hosts
      <3>1. Goes(i) /\ over' = over \ Settled(h) /\ UNCHANGED held
        BY <1>7, <2>3 DEF HandleLoad
      <3>2. UNCHANGED <<log, observers, prefixes, registered, host, made, hosts, served, resolveVars, missed>>
        BY <1>7 DEF HandleLoad
      <3>3. over' \in SUBSET Hosts
        BY <1>3, <3>1
      <3> QED BY <1>2, <1>3, <1>4, <3>1, <3>2, <3>3, OthersStay
    <2>4. CASE Changed(ev) # hosts
      <3>1. /\ gs' = [gs EXCEPT ![i].pc = "store"]
            /\ held' = [held EXCEPT ![i] = [from |-> hosts, to |-> Changed(ev)]]
            /\ over' = over
        BY <1>7, <2>4 DEF HandleLoad
      <3>2. UNCHANGED <<log, observers, prefixes, registered, host, made, hosts, served, resolveVars, missed>>
        BY <1>7 DEF HandleLoad
      <3>3. held' \in Seq(Held) /\ Len(held') = Len(held)
        <4>1. [from |-> hosts, to |-> Changed(ev)] \in Held
          BY <1>3, <2>2 DEF Held
        <4> QED BY <1>2, <1>3, <3>1, <4>1, Replaced
      <3>4. /\ gs' \in Seq(Goroutine) /\ Len(gs') = Len(gs) /\ gs'[i].pos = gs[i].pos
            /\ \A j \in DOMAIN gs : j # i => gs'[j] = gs[j]
        <4> DEFINE x == [gs[i] EXCEPT !.pc = "store"]
        <4>1. x \in Goroutine /\ x.pos = gs[i].pos
          BY <1>2 DEF Goroutine
        <4>2. gs' = [gs EXCEPT ![i] = x]
          BY <3>1
        <4> HIDE DEF x
        <4> QED BY <1>3, <4>1, <4>2, Replaced
      <3>5. \A j \in DOMAIN gs : gs'[j].pc \in {"dispatch", "store"} => gs'[j].pos \in DOMAIN log
        BY <1>2, <1>3, <3>4
      <3> QED BY <1>2, <1>3, <3>1, <3>2, <3>3, <3>4, <3>5, OthersStay
    <2> QED BY <2>3, <2>4
  <1>8. CASE HandleStore(i)
    <2>1. hosts' = held[i].to /\ held' = [held EXCEPT ![i] = Nothing]
          /\ over' = (over \ Settled(h)) \cup Overwrites(i, h) /\ served' = {} /\ Goes(i)
      BY <1>8 DEF HandleStore
    <2>2. UNCHANGED <<log, observers, prefixes, registered, host, made, resolveVars, missed>>
      BY <1>8 DEF HandleStore
    <2>3. hosts' \in Seq(Hosts)
      BY <1>2, <2>1 DEF Held
    <2>4. Nothing \in Held
      BY DEF Nothing, Held
    <2>5. held' \in Seq(Held) /\ Len(held') = Len(held)
      BY <1>2, <1>3, <2>1, <2>4, Replaced
    <2>6. over' \in SUBSET Hosts
      BY <1>3, <2>1 DEF Overwrites
    <2>7. served' \in SUBSET (1..Len(hosts'))
      BY <2>1
    <2> QED BY <1>2, <1>3, <1>4, <2>1, <2>2, <2>3, <2>5, <2>6, <2>7, OthersStay
  <1> QED BY <1>5, <1>6, <1>7, <1>8 DEF Handle

LEMMA TypeStep ==
  ASSUME TypeInv, [DNext]_dvars
  PROVE  TypeInv'
  <1>1. ASSUME NEW k \in Keys, NEW put \in BOOLEAN, Changes(k, put) PROVE TypeInv'
    <2>1. log \in Seq(Event) /\ [key |-> k, put |-> put] \in Event
      BY DEF TypeInv, DTypeOK, WTypeOK, Event
    <2>2. log' = Append(log, [key |-> k, put |-> put])
      BY <1>1 DEF Changes
    <2>3. log' \in Seq(Event) /\ DOMAIN log \subseteq DOMAIN log'
      BY <2>1, <2>2
    <2>4. registered' \in SUBSET Keys /\ missed' \in SUBSET Keys
      BY <1>1 DEF Changes, Registry!Registers, Registry!Leaves, TypeInv, DTypeOK
    <2>5. UNCHANGED <<observers, prefixes, gs, host, made, listVars, resolveVars>>
      BY <1>1 DEF Changes
    <2>6. DTypeOK'
      BY <2>3, <2>4, <2>5 DEF TypeInv, DTypeOK, WTypeOK, listVars, resolveVars
    <2> QED BY <2>3, <2>5, <2>6 DEF TypeInv, Attached, listVars
  <1>2. CASE NewDiscovery
    <2> DEFINE good == {k \in registered : host[k] # BadHost}
    <2>1. Cardinality(good) \in Nat
      <3>1. good \in SUBSET Keys
        BY DEF TypeInv, DTypeOK
      <3> HIDE DEF good
      <3> QED BY <3>1, FS_Subset, FS_CardinalityType, DiscoveryAssumption
    <2>2. hosts' \in Seq(Hosts)
      <3>1. PICK keys \in [1..Cardinality(good) -> good] :
              hosts' = [j \in DOMAIN keys |-> host[keys[j]]]
        BY <1>2 DEF NewDiscovery
      <3>2. \A k \in good : host[k] \in Hosts
        BY DEF TypeInv, DTypeOK
      <3> HIDE DEF good
      <3>3. hosts' \in [1..Cardinality(good) -> Hosts]
        BY <3>1, <3>2
      <3> QED BY <2>1, <3>3
    <2>3. served = {}
      BY <1>2 DEF NewDiscovery, TypeInv, DTypeOK
    <2>4. made' /\ UNCHANGED <<wvars, registered, host, held, over, served, resolveVars, missed>>
      BY <1>2 DEF NewDiscovery
    <2>5. DTypeOK'
      BY <2>2, <2>3, <2>4 DEF TypeInv, DTypeOK, WTypeOK, wvars, resolveVars
    <2> QED BY <2>4, <2>5 DEF TypeInv, wvars
  <1>3. ASSUME NEW o \in Observers, DAttach(o) PROVE TypeInv'
    <2>1. /\ gs = <<>>
          /\ observers' = Append(observers, o)
          /\ o = Disc => made
          /\ UNCHANGED <<log, gs, registered, host, made, listVars, resolveVars, missed>>
      BY <1>3 DEF DAttach, Attach
    <2>2. observers \in Seq(Observers) /\ prefixes \in Seq(Seq(Chars))
      BY DEF TypeInv, DTypeOK, WTypeOK
    <2>3. observers' \in Seq(Observers)
      BY <2>1, <2>2
    <2>4. prefixes' \in Seq(Seq(Chars))
      <3> DEFINE p == PrefixOf[o]
      <3>1. p \in Seq(Chars)
        BY WatcherAssumption
      <3>2. CASE prefixes' = Append(prefixes, p)
        BY <2>2, <3>1, <3>2
      <3>3. ASSUME NEW i \in Shared(p), prefixes' = [prefixes EXCEPT ![i] = commonPrefix(p, @)]
            PROVE  prefixes' \in Seq(Seq(Chars))
        <4>1. i \in DOMAIN prefixes /\ prefixes[i] \in Seq(Chars)
              /\ commonPrefix(p, prefixes[i]) # <<>>
          BY <2>2, <3>3 DEF Shared
        <4>2. commonPrefix(p, prefixes[i]) \in Seq(Chars)
          BY <3>1, <4>1, CommonIsPrefix DEF commonPrefix
        <4> QED BY <2>2, <3>3, <4>1, <4>2, Replaced
      <3> QED BY <1>3, <3>2, <3>3 DEF DAttach, Attach
    <2>5. DTypeOK'
      BY <2>1, <2>3, <2>4 DEF TypeInv, DTypeOK, WTypeOK, listVars, resolveVars
    <2>6. Attached(Disc)' => Attached(Disc) \/ o = Disc
      BY <2>1, <2>2 DEF Attached
    <2> QED BY <2>1, <2>5, <2>6 DEF TypeInv, listVars
  <1>4. CASE DRun
    <2>1. /\ Attached(Disc)
          /\ gs' = [i \in DOMAIN prefixes |-> [pc |-> "start", pos |-> 0, at |-> 0]]
          /\ held' = [i \in DOMAIN prefixes |-> Nothing]
          /\ UNCHANGED <<log, observers, prefixes>>
          /\ UNCHANGED <<registered, host, made, hosts, over, served, resolveVars, missed>>
      BY <1>4 DEF DRun, Run
    <2>2. prefixes \in Seq(Seq(Chars))
      BY DEF TypeInv, DTypeOK, WTypeOK
    <2>3. /\ gs' \in Seq(Goroutine) /\ Len(gs') = Len(prefixes)
          /\ \A i \in DOMAIN gs' : gs'[i].pc = "start"
      <3> DEFINE x == [pc |-> "start", pos |-> 0, at |-> 0]
      <3>1. x \in Goroutine /\ x.pc = "start"
        BY DEF Goroutine
      <3>2. gs' = [i \in DOMAIN prefixes |-> x]
        BY <2>1
      <3> HIDE DEF x
      <3> QED BY <2>2, <3>1, <3>2, Filled
    <2>4. held' \in Seq(Held) /\ Len(held') = Len(prefixes)
      <3>1. Nothing \in Held
        BY DEF Nothing, Held
      <3> QED BY <2>1, <2>2, <3>1, Filled
    <2>5. DTypeOK'
      BY <2>1, <2>3, <2>4 DEF TypeInv, DTypeOK, WTypeOK, resolveVars
    <2> QED BY <2>1, <2>3, <2>5 DEF TypeInv
  <1>5. ASSUME NEW i \in DOMAIN gs, DWatch(i) PROVE TypeInv'
    <2>1. gs \in Seq(Goroutine) /\ observers \in Seq(Observers) /\ log \in Seq(Event)
          /\ gs[i] \in Goroutine
      BY DEF TypeInv, DTypeOK, WTypeOK
    <2>2. UNCHANGED <<log, observers, prefixes, registered, host, made, listVars, resolveVars, missed>>
      BY <1>5 DEF DWatch, Watch, Receive, WatchEnds
    <2>3. /\ gs' \in Seq(Goroutine) /\ Len(gs') = Len(gs)
          /\ gs'[i].pc \in {"dispatch", "store"} => gs'[i].pos \in DOMAIN log
          /\ \A j \in DOMAIN gs : j # i => gs'[j] = gs[j]
      <3>1. CASE Watch(i)
        <4> DEFINE x == [pc |-> "idle", pos |-> Len(log), at |-> 0]
        <4>1. x \in Goroutine /\ x.pc = "idle"
          BY <2>1 DEF Goroutine
        <4>2. gs' = [gs EXCEPT ![i] = x]
          BY <3>1 DEF Watch
        <4> HIDE DEF x
        <4> QED BY <2>1, <4>1, <4>2, Replaced
      <3>2. CASE WatchEnds(i)
        <4> DEFINE x == [gs[i] EXCEPT !.pc = "stopped"]
        <4>1. x \in Goroutine /\ x.pc = "stopped"
          BY <2>1 DEF Goroutine
        <4>2. gs' = [gs EXCEPT ![i] = x]
          BY <3>2 DEF WatchEnds
        <4> HIDE DEF x
        <4> QED BY <2>1, <4>1, <4>2, Replaced
      <3>3. CASE Receive(i)
        <4>1. PICK e \in Unread(i) : To(i, [gs[i] EXCEPT !.pos = e], log[e].key)
          BY <3>3 DEF Receive
        <4>2. e \in DOMAIN log
          <5>1. gs[i].pos \in Nat /\ Len(log) \in Nat
            BY <2>1 DEF Goroutine
          <5>2. e \in (gs[i].pos + 1)..Len(log)
            BY DEF Unread
          <5> QED BY <2>1, <5>1, <5>2
        <4>3. [gs[i] EXCEPT !.pos = e] \in Goroutine /\ [gs[i] EXCEPT !.pos = e].pos = e
          <5>1. e \in Nat
            BY <2>1, <4>2
          <5> QED BY <2>1, <5>1 DEF Goroutine
        <4> QED BY <2>1, <4>1, <4>2, <4>3, GoesOn
      <3> QED BY <1>5, <3>1, <3>2, <3>3 DEF DWatch
    <2>4. \A j \in DOMAIN gs : gs'[j].pc \in {"dispatch", "store"} => gs'[j].pos \in DOMAIN log
      BY <2>3 DEF TypeInv
    <2> QED BY <2>2, <2>3, <2>4, OthersStay DEF TypeInv, DTypeOK, listVars
  <1>6. ASSUME NEW i \in DOMAIN gs, Handle(i) PROVE TypeInv'
    BY <1>6, HandleTypes
  <1>7. ASSUME NEW r \in Resolvers, Load(r) PROVE TypeInv'
    <2>1. calls' \in 0..MaxSteps
      <3>1. Len(log) \in Nat
        BY DEF TypeInv, DTypeOK, WTypeOK
      <3> QED BY <1>7, <3>1, DiscoveryAssumption DEF Load, TypeInv, DTypeOK
    <2>2. rs' \in [Resolvers -> Seq(Hosts)]
      BY <1>7 DEF Load, TypeInv, DTypeOK
    <2>3. UNCHANGED <<wvars, registered, host, made, listVars, n, missed>>
      BY <1>7 DEF Load
    <2>4. DTypeOK'
      BY <2>1, <2>2, <2>3 DEF TypeInv, DTypeOK, WTypeOK, wvars, listVars
    <2> QED BY <2>3, <2>4 DEF TypeInv, Attached, wvars, listVars
  <1>8. ASSUME NEW r \in Resolvers, Take(r) \/ TakePanics(r) PROVE TypeInv'
    <2>1. UNCHANGED <<wvars, registered, host, made, hosts, held, over, calls, missed>>
      BY <1>8 DEF Take, TakePanics
    <2>2. n' \in 0..(Wrap - 1)
      <3>1. n' = (n + 1) % Wrap /\ n + 1 \in Nat
        BY <1>8, WrapType DEF Take, TakePanics, TypeInv, DTypeOK
      <3> DEFINE a == n + 1
      <3> HIDE DEF a
      <3>2. a % Wrap \in 0..(Wrap - 1)
        BY <3>1, WrapType DEF a
      <3> QED BY <3>1, <3>2 DEF a
    <2>3. rs' \in [Resolvers -> Seq(Hosts)]
      <3>1. <<>> \in Seq(Hosts)
        OBVIOUS
      <3> QED BY <1>8, <3>1 DEF Take, TakePanics, TypeInv, DTypeOK
    <2>4. served' \in SUBSET (1..Len(hosts))
      <3>1. /\ served' = {} \/ served' = Round(r)
            /\ rs[r] # <<>>
        BY <1>8 DEF Take, TakePanics
      <3>2. CASE served' = {}
        BY <3>2
      <3>3. CASE Round(r) # {} /\ served' = Round(r) /\ Take(r)
        <4>1. rs[r] = hosts /\ Round(r) = served \cup {Place(r)}
          BY <3>3 DEF Round
        <4> DEFINE m == Len(hosts)
        <4>2. m \in Nat \ {0} /\ n \in 0..(Wrap - 1) /\ Index(r) >= 0
          BY <3>1, <3>3, <4>1 DEF Take, TypeInv, DTypeOK
        <4>3. served \in SUBSET (1..m)
          BY DEF TypeInv, DTypeOK
        <4>6. Index(r) = Remainder(AsInt(n), m)
          BY <4>1 DEF Index
        <4> HIDE DEF m
        <4>7. Index(r) \in (-m)..(m - 1)
          BY <4>2, <4>6, RemainderOf
        <4>4. Place(r) \in 1..m
          BY <4>2, <4>7 DEF Place
        <4>5. served' \in SUBSET (1..m)
          BY <3>1, <4>1, <4>3, <4>4
        <4> QED BY <4>5 DEF m
      <3> QED BY <1>8, <3>1, <3>2, <3>3 DEF Take, TakePanics
    <2>5. DTypeOK'
      BY <2>1, <2>2, <2>3, <2>4 DEF TypeInv, DTypeOK, WTypeOK, wvars
    <2> QED BY <2>1, <2>5 DEF TypeInv, Attached, wvars
  <1>9. CASE UNCHANGED dvars
    <2>1. DTypeOK'
      BY <1>9 DEF TypeInv, DTypeOK, WTypeOK, dvars, wvars, listVars, resolveVars
    <2> QED BY <1>9, <2>1 DEF TypeInv, Attached, dvars, wvars, listVars
  <1> QED BY <1>1, <1>2, <1>3, <1>4, <1>5, <1>6, <1>7, <1>8, <1>9 DEF DNext

LEMMA TypeInit == DInit => TypeInv
  <1> SUFFICES ASSUME DInit PROVE TypeInv
    OBVIOUS
  <1>1. /\ log = <<>> /\ observers = <<>> /\ prefixes = <<>> /\ gs = <<>> /\ hosts = <<>>
        /\ held = <<>> /\ made = FALSE /\ served = {} /\ over = {} /\ missed = {}
    BY DEF DInit, WInit
  <1>2. /\ registered \in SUBSET Keys /\ host \in [Keys -> Hosts \cup {BadHost}]
        /\ n \in 0..(Wrap - 1) /\ calls \in 0..MaxSteps /\ rs \in [Resolvers -> Seq(Hosts)]
    BY WrapType, DiscoveryAssumption DEF DInit, Registry!Init
  <1>3. WTypeOK
    BY <1>1 DEF WTypeOK
  <1>4. hosts \in Seq(Hosts) /\ held \in Seq(Held) /\ Len(held) = Len(gs)
    BY <1>1
  <1>5. /\ served \in SUBSET (1..Len(hosts)) /\ over \in SUBSET Hosts /\ missed \in SUBSET Keys
        /\ made \in BOOLEAN
    BY <1>1, Zenon
  <1>6. DTypeOK
    BY <1>2, <1>3, <1>4, <1>5 DEF DTypeOK
  <1> QED BY <1>1, <1>6 DEF TypeInv, Attached

\* Every reachable state of the Watcher, the Discovery on it and its resolvers is
\* well typed: goroutines stay within the log, numbers within the list
\* (watcher.go:80-126, discovery.go:79-165).
THEOREM DiscoveryTypeCorrect == DSpec => []DTypeOK
  <1>1. TypeInv /\ [DNext]_dvars => TypeInv'
    BY TypeStep
  <1>2. TypeInv => DTypeOK
    BY DEF TypeInv
  <1> QED BY <1>1, <1>2, TypeInit, PTL DEF DSpec

-----------------------------------------------------------------------------
(* Resolve.                                                                *)

\* The places handed out in this round are the last ones before the next, from some
\* place a on; a is the next place itself when there are none.
Turn(list, a, p) ==
  {x \in DOMAIN list : IF a <= p THEN a < x /\ x <= p ELSE a < x \/ x <= p}

InTurn ==
  \E a \in 0..(Len(hosts) - 1) : served = Turn(hosts, a, n % Len(hosts))

\* Where an int has 32 bits the upper half of the numbers hands out the first place
\* or panics, and panics in between.
ServedInOrder ==
  hosts # <<>> =>
    IF Narrow /\ n >= Half THEN (Wrap - n) % Len(hosts) = 0 => 1 \notin served ELSE InTurn

\* A list of one needs no number.
ListsAreLong == \A r \in Resolvers : rs[r] # <<>> => Len(rs[r]) > 1

LEMMA NextRemainder ==
  ASSUME NEW a \in Nat, NEW m \in Nat \ {0}
  PROVE  (a + 1) % m = IF a % m = m - 1 THEN 0 ELSE (a % m) + 1
  <1> DEFINE q == a \div m
             r == a % m
  <1>1. a = m * q + r /\ q \in Nat /\ r \in 0..(m - 1)
    OBVIOUS
  <1>2. \A p, s \in Nat : s < m => (p * m + s) % m = s
    OBVIOUS
  <1> HIDE DEF q, r
  <1>3. CASE r = m - 1
    <2>1. a + 1 = (q + 1) * m + 0
      BY <1>1, <1>3
    <2>2. q + 1 \in Nat /\ 0 \in Nat /\ 0 < m
      BY <1>1
    <2>3. ((q + 1) * m + 0) % m = 0
      BY <1>2, <2>2
    <2> QED BY <1>3, <2>1, <2>3 DEF r
  <1>4. CASE r # m - 1
    <2>1. a + 1 = q * m + (r + 1)
      BY <1>1
    <2>2. r + 1 \in Nat /\ r + 1 < m
      BY <1>1, <1>4
    <2>3. (q * m + (r + 1)) % m = r + 1
      BY <1>1, <1>2, <2>2
    <2> QED BY <1>4, <2>1, <2>3 DEF r
  <1> QED BY <1>3, <1>4

LEMMA NoTurn ==
  ASSUME NEW list \in Seq(Hosts), list # <<>>, NEW c \in Nat
  PROVE  \E a \in 0..(Len(list) - 1) : {} = Turn(list, a, c % Len(list))
  <1> DEFINE m == Len(list)
             p == c % m
  <1>1. m \in Nat \ {0}
    OBVIOUS
  <1>2. p \in 0..(m - 1)
    <2> HIDE DEF m
    <2> QED BY <1>1
  <1>3. {} = Turn(list, p, p)
    <2> HIDE DEF m, p
    <2> QED BY <1>2 DEF Turn
  <1> QED BY <1>2, <1>3

\* One more place is handed out: the round goes on from the place it began with, or
\* is over.
LEMMA TakeInTurn ==
  ASSUME TypeInv, ServedInOrder, NEW r \in Resolvers, Take(r), rs[r] = hosts,
         ~(Narrow /\ n >= Half)
  PROVE  Place(r) \notin served /\ InTurn'
  <1> DEFINE m == Len(hosts)
             p == n % m
  <1>1. /\ hosts # <<>> /\ hosts' = hosts
        /\ served' = Round(r) /\ n' = (n + 1) % Wrap
        /\ n \in 0..(Wrap - 1) /\ Wrap \in Nat \ {0}
    BY WrapType DEF Take, TypeInv, DTypeOK
  <1>2. m \in Nat \ {0} /\ DOMAIN hosts = 1..m
    BY <1>1 DEF TypeInv, DTypeOK
  <1>3. p \in 0..(m - 1) /\ Place(r) = p + 1
    <2>1. Index(r) = Remainder(AsInt(n), m)
      BY DEF Index
    <2> HIDE DEF m
    <2> QED BY <1>1, <1>2, <2>1, RemainderOf DEF Place
  <1>4. PICK a \in 0..(m - 1) : served = Turn(hosts, a, p)
    BY <1>1 DEF ServedInOrder, InTurn
  <1> DEFINE q == n' % m
             next == IF p = m - 1 THEN 0 ELSE p + 1
  <1>5. CASE Round(r) = {}
    <2>1. InTurn'
      <3>1. n' \in Nat /\ hosts \in Seq(Hosts)
        BY <1>1 DEF TypeInv, DTypeOK
      <3>2. \E b \in 0..(m - 1) : {} = Turn(hosts, b, q)
        BY <1>1, <3>1, NoTurn
      <3> QED BY <1>1, <1>5, <3>2 DEF InTurn
    <2>2. Place(r) \notin served
      <3> HIDE DEF p, m
      <3> QED BY <1>2, <1>3, <1>4 DEF Turn
    <2> QED BY <2>1, <2>2
  <1>6. CASE Round(r) # {}
    <2>1. /\ served' = served \cup {p + 1}
          /\ served' # DOMAIN hosts
          /\ n + 1 = Wrap => Wrap % m = 0
      <3> HIDE DEF p
      <3> QED BY <1>1, <1>3, <1>6 DEF Round
    <2>2. q = next
      <3>1. (n + 1) % m = next
        <4>1. n \in Nat
          BY <1>1
        <4> HIDE DEF m
        <4> QED BY <1>2, <4>1, NextRemainder
      <3>2. CASE n + 1 = Wrap
        <4>1. n' = 0
          BY <1>1, <3>2
        <4>2. q = 0
          <5> HIDE DEF m
          <5> QED BY <1>2, <4>1
        <4> QED BY <2>1, <3>1, <3>2, <4>2
      <3>3. CASE n + 1 # Wrap
        <4>1. n + 1 \in Nat /\ n + 1 < Wrap
          BY <1>1, <3>3
        <4>2. n' = n + 1
          BY <1>1, <4>1
        <4> QED BY <3>1, <4>2
      <3> QED BY <3>2, <3>3
    <2> HIDE DEF p, m, q
    <2>3. p + 1 \notin served
      BY <1>2, <1>3, <1>4 DEF Turn
    <2>4. served' = Turn(hosts, a, q)
      <3>1. next # a
        <4> SUFFICES ASSUME next = a PROVE FALSE
          OBVIOUS
        <4>1. served \cup {p + 1} = 1..m
          BY <1>2, <1>3, <1>4 DEF Turn
        <4> QED BY <1>2, <2>1, <4>1
      <3> QED BY <1>2, <1>3, <1>4, <2>1, <2>2, <3>1 DEF Turn
    <2> QED BY <1>1, <1>3, <1>4, <2>3, <2>4 DEF InTurn, q, m
  <1> QED BY <1>5, <1>6

LEMMA TakeInOrder ==
  ASSUME TypeInv, ServedInOrder, ListsAreLong, NEW r \in Resolvers, Take(r), rs[r] = hosts
  PROVE  Place(r) \notin served /\ ServedInOrder'
  <1> DEFINE m == Len(hosts)
  <1>1. /\ hosts # <<>> /\ hosts' = hosts
        /\ n' = (n + 1) % Wrap /\ n \in 0..(Wrap - 1) /\ Index(r) >= 0
        /\ m \in Nat /\ m > 1 /\ m \in Nat \ {0} /\ hosts \in Seq(Hosts)
    BY WrapType DEF Take, TypeInv, DTypeOK, ListsAreLong
  <1>2. n + 1 < Wrap => n' = n + 1
    BY <1>1, WrapType
  <1>3. CASE ~(Narrow /\ n >= Half)
    <2>1. Place(r) \notin served /\ InTurn'
      BY <1>3, TakeInTurn
    <2>2. CASE ~(Narrow /\ n' >= Half)
      BY <1>1, <2>1, <2>2 DEF ServedInOrder
    <2>3. CASE Narrow /\ n' >= Half
      <3>1. n' = Half /\ Wrap - n' = Half
        BY <1>1, <1>2, <1>3, <2>3, WrapType
      <3>2. PICK a \in 0..(m - 1) : served' = Turn(hosts, a, Half % m)
        BY <1>1, <2>1, <3>1 DEF InTurn
      <3>3. Half % m = 0 => 1 \notin served'
        <4> HIDE DEF m
        <4> QED BY <1>1, <3>2 DEF Turn
      <3> QED BY <1>1, <2>1, <2>3, <3>1, <3>3 DEF ServedInOrder
    <2> QED BY <2>1, <2>2, <2>3
  <1>4. CASE Narrow /\ n >= Half
    <2> DEFINE b == Wrap - (n + 1)
    <2>1. (Wrap - n) % m = 0 /\ Index(r) = 0
      <3>1. Index(r) = Remainder(AsInt(n), m)
        BY DEF Index
      <3> HIDE DEF m
      <3>2. Index(r) \in (-m)..(m - 1)
        BY <1>1, <3>1, RemainderOf
      <3>3. (Wrap - n) % m # 0 => Index(r) < 0
        BY <1>1, <1>4, <3>1, RemainderOf
      <3>4. (Wrap - n) % m = 0 => Index(r) = 0
        BY <1>1, <1>4, <3>1, RemainderOf
      <3> QED BY <1>1, <3>2, <3>3, <3>4
    <2>2. Place(r) \notin served
      BY <1>1, <1>4, <2>1 DEF Place, ServedInOrder
    <2>3. b \in Nat /\ Wrap - n = b + 1
      BY <1>1, WrapType
    <2> HIDE DEF b, m
    <2>4. b % m # 0
      <3>1. (b + 1) % m = IF b % m = m - 1 THEN 0 ELSE (b % m) + 1
        BY <1>1, <2>3, NextRemainder
      <3> QED BY <1>1, <2>1, <2>3, <3>1
    <2>5. b # 0
      BY <1>1, <2>4
    <2>6. n' = n + 1 /\ n' >= Half /\ Wrap - n' = b
      BY <1>1, <1>2, <1>4, <2>3, <2>5, WrapType DEF b
    <2> QED BY <1>1, <1>4, <2>2, <2>4, <2>6 DEF ServedInOrder, m
  <1> QED BY <1>3, <1>4

LEMMA LongStep ==
  ASSUME TypeInv, ListsAreLong, [DNext]_dvars
  PROVE  ListsAreLong'
  <1>1. ASSUME NEW r \in Resolvers, Load(r) \/ Take(r) \/ TakePanics(r) PROVE ListsAreLong'
    BY <1>1 DEF Load, Take, TakePanics, ListsAreLong, TypeInv, DTypeOK
  <1>2. CASE UNCHANGED rs
    BY <1>2 DEF ListsAreLong
  <1> QED BY <1>1, <1>2 DEF DNext, Changes, NewDiscovery, DAttach, DRun, DWatch, Handle,
          OtherHandles, HandleLoad, HandleIgnores, HandleStore, dvars, resolveVars

LEMMA OrderStep ==
  ASSUME TypeInv, ServedInOrder, ListsAreLong, [DNext]_dvars
  PROVE  ServedInOrder'
  <1>1. CASE UNCHANGED <<hosts, n, served>>
    BY <1>1 DEF ServedInOrder, InTurn
  <1>2. CASE served' = {}
    <2>1. TypeInv'
      BY TypeStep
    <2>2. hosts' \in Seq(Hosts) /\ n' \in Nat
      BY <2>1, WrapType DEF TypeInv, DTypeOK
    <2> QED BY <1>2, <2>2, NoTurn DEF ServedInOrder, InTurn
  <1>3. ASSUME NEW k \in Keys, NEW put \in BOOLEAN, Changes(k, put)
        PROVE  UNCHANGED <<hosts, n, served>>
    BY <1>3 DEF Changes, listVars, resolveVars
  <1>4. CASE NewDiscovery
    <2>1. served = {} /\ served' = served
      BY <1>4 DEF NewDiscovery, TypeInv, DTypeOK
    <2> QED BY <1>2, <2>1
  <1>5. ASSUME NEW o \in Observers, DAttach(o) PROVE UNCHANGED <<hosts, n, served>>
    BY <1>5 DEF DAttach, listVars, resolveVars
  <1>6. CASE DRun
    BY <1>1, <1>6 DEF DRun, listVars, resolveVars
  <1>7. ASSUME NEW i \in DOMAIN gs, DWatch(i) \/ Handle(i)
        PROVE  UNCHANGED <<hosts, n, served>> \/ served' = {}
    BY <1>7 DEF DWatch, Handle, OtherHandles, HandleLoad, HandleIgnores, HandleStore, listVars,
                resolveVars
  <1>8. ASSUME NEW r \in Resolvers, Load(r) PROVE UNCHANGED <<hosts, n, served>>
    BY <1>8 DEF Load, listVars
  <1>9. ASSUME NEW r \in Resolvers, Take(r) \/ TakePanics(r) PROVE ServedInOrder'
    <2>1. CASE rs[r] = hosts /\ Take(r)
      BY <1>9, <2>1, TakeInOrder
    <2>2. CASE rs[r] # hosts \/ TakePanics(r)
      BY <1>2, <1>9, <2>2 DEF Take, TakePanics, Round
    <2> QED BY <1>9, <2>1, <2>2
  <1>10. CASE UNCHANGED dvars
    BY <1>1, <1>10 DEF dvars, listVars, resolveVars
  <1> QED BY <1>1, <1>2, <1>3, <1>4, <1>5, <1>6, <1>7, <1>8, <1>9, <1>10 DEF DNext

\* Whatever lists and numbers callers of Resolve work with at once, a place is handed
\* out again only when the round that handed it out is over (discovery.go:79-92).
THEOREM TakesTurns == DSpec => ResolveTakesTurns
  <1>1. DInit => ServedInOrder /\ ListsAreLong
    BY DEF DInit, ServedInOrder, ListsAreLong
  <1>2. TypeInv /\ ServedInOrder /\ ListsAreLong /\ [DNext]_dvars
        => ServedInOrder' /\ ListsAreLong'
    BY OrderStep, LongStep
  <1>3. ASSUME TypeInv, ServedInOrder, ListsAreLong, [DNext]_dvars, NEW r \in Resolvers,
               rs[r] # <<>>, rs'[r] = <<>>, rs[r] = hosts
        PROVE  IF Index(r) < 0 THEN Narrow /\ n >= Half ELSE Place(r) \notin served
    <2>1. rs' # rs
      BY <1>3
    <2>2. PICK q \in Resolvers : Load(q) \/ Take(q) \/ TakePanics(q)
      BY <1>3, <2>1 DEF DNext, Changes, NewDiscovery, DAttach, DRun, DWatch, Handle, OtherHandles,
         HandleLoad, HandleIgnores, HandleStore, dvars, resolveVars
    <2>3. (Take(q) \/ TakePanics(q)) /\ q = r
      BY <1>3, <2>2 DEF Load, Take, TakePanics, TypeInv, DTypeOK
    <2>4. CASE Take(q)
      <3>1. Place(r) \notin served /\ Index(r) >= 0
        BY <1>3, <2>3, <2>4, TakeInOrder DEF Take
      <3>2. ~(Index(r) < 0)
        <4> DEFINE m == Len(hosts)
        <4>1. /\ n \in 0..(Wrap - 1) /\ m \in Nat \ {0}
              /\ Index(r) = Remainder(AsInt(n), m)
          BY <1>3 DEF Index, TypeInv, DTypeOK
        <4> HIDE DEF m
        <4>2. Index(r) \in (-m)..(m - 1)
          BY <4>1, RemainderOf
        <4> QED BY <3>1, <4>1, <4>2
      <3> QED BY <3>1, <3>2
    <2>5. CASE TakePanics(q)
      <3> DEFINE m == Len(hosts)
      <3>1. /\ Index(r) < 0 /\ Index(r) = Remainder(AsInt(n), m)
            /\ n \in 0..(Wrap - 1) /\ m \in Nat \ {0}
        BY <1>3, <2>3, <2>5 DEF TakePanics, Index, TypeInv, DTypeOK
      <3> HIDE DEF m
      <3>2. Narrow /\ n >= Half
        BY <3>1, RemainderOf
      <3> QED BY <3>1, <3>2
    <2> QED BY <2>3, <2>4, <2>5
  <1>4. TypeInv /\ ServedInOrder /\ ListsAreLong /\ [DNext]_dvars
        => [\A r \in Resolvers :
              rs[r] # <<>> /\ rs'[r] = <<>> /\ rs[r] = hosts
                => IF Index(r) < 0 THEN Narrow /\ n >= Half ELSE Place(r) \notin served]_dvars
    BY <1>3
  <1> QED BY <1>1, <1>2, <1>4, TypeInit, TypeStep, PTL DEF DSpec, ResolveTakesTurns

-----------------------------------------------------------------------------
(* Events and registry.                                                    *)

\* The events goroutine i has had from its watch, or will have, and whose Handle
\* by the Discovery is not over.
Current(i) ==
  {e \in {gs[i].pos} :
     \/ gs[i].pc = "store"
     \/ gs[i].pc = "dispatch" /\ \A a \in 1..(gs[i].at - 1) : observers[a] # Disc}

Yet(i) == IF gs[i].pc = "start" THEN {} ELSE Unread(i) \cup Current(i)

Pending(k) == \E i \in DOMAIN gs : \E e \in Yet(i) : log[e].key = k

\* What has happened to a key since NewDiscovery is what its last event says.
LogTellsRegistry ==
  \A e \in DOMAIN log :
    \/ \E f \in DOMAIN log : f > e /\ log[f].key = log[e].key
    \/ log[e].key \in registered <=> log[e].put

\* Whoever is started gives the Discovery each of its events: the Discovery is
\* attached, once, and an event that was received is one of the watch.
Dispatch ==
  /\ gs # <<>> => Attached(Disc) /\ Len(gs) = Len(prefixes)
  /\ \A a, b \in DOMAIN observers : observers[a] = Disc /\ observers[b] = Disc => a = b
  /\ \A i \in DOMAIN gs :
       /\ gs[i].pos <= Len(log)
       /\ gs[i].pc = "idle" => gs[i].at = 0
       /\ gs[i].pc \in {"dispatch", "store"} =>
            /\ gs[i].at \in DOMAIN observers
            /\ HasPrefix(NameOf[log[gs[i].pos].key], prefixes[i])
       /\ gs[i].pc = "store" => observers[gs[i].at] = Disc

\* A copy that is to be stored differs from the list it was made of by its event.
CopyIsChange ==
  \A i \in DOMAIN gs : gs[i].pc = "store" =>
    LET ev == log[gs[i].pos]
        h == host[ev.key]
    IN  /\ h \in Hosts
        /\ held[i].to # held[i].from
        /\ held[i].to = IF ev.put THEN add(held[i].from, h) ELSE del(held[i].from, h)

-----------------------------------------------------------------------------
(* Counts.                                                                 *)

\* The keys that account for places of h in the list.
Live(h) == {k \in HostedBy(h) : k \in registered \/ k \in missed \/ Pending(k)}

CountsAreBounded == \A h \in Hosts \ over : Lists(h) <= Cardinality(Live(h))

\* The endpoint of one key is never listed twice.
OwnOnce ==
  \A h \in Hosts, k \in Keys : HostedBy(h) = {k} =>
    Lists(h) <= 1 /\ \A i \in DOMAIN held : Times(h, held[i].from) <= 1

OwnIsExact ==
  made => \A h \in Hosts \ over, k \in Keys :
    HostedBy(h) = {k} /\ k \notin missed /\ ~Pending(k)
      => Lists(h) = IF k \in registered THEN 1 ELSE 0

CountInv ==
  /\ LogTellsRegistry
  /\ Dispatch
  /\ CopyIsChange
  /\ CountsAreBounded
  /\ OwnOnce
  /\ OwnIsExact

-----------------------------------------------------------------------------
(* How often an endpoint is in a list.                                     *)

LEMMA TimesIsNumber ==
  ASSUME NEW list \in Seq(Hosts), NEW h
  PROVE  /\ IsFiniteSet({i \in DOMAIN list : list[i] = h})
         /\ Times(h, list) \in Nat
         /\ Times(h, list) = 0 <=> \A i \in DOMAIN list : list[i] # h
  <1> DEFINE P == {i \in DOMAIN list : list[i] = h}
  <1>1. P \in SUBSET (1..Len(list)) /\ Len(list) \in Nat
    OBVIOUS
  <1>2. IsFiniteSet(P)
    <2> HIDE DEF P
    <2> QED BY <1>1, UpTo, FS_Subset
  <1>3. Cardinality(P) \in Nat /\ (Cardinality(P) = 0 <=> P = {})
    <2> HIDE DEF P
    <2> QED BY <1>2, FS_CardinalityType, FS_EmptySet
  <1> QED BY <1>2, <1>3 DEF Times

LEMMA TimesOfAppend ==
  ASSUME NEW list \in Seq(Hosts), NEW h \in Hosts, NEW x \in Hosts
  PROVE  Times(x, Append(list, h)) = IF x = h THEN Times(x, list) + 1 ELSE Times(x, list)
  <1> DEFINE P == {i \in DOMAIN list : list[i] = x}
             Q == {i \in DOMAIN Append(list, h) : Append(list, h)[i] = x}
             last == Len(list) + 1
  <1>1. /\ DOMAIN Append(list, h) = DOMAIN list \cup {last}
        /\ last \notin DOMAIN list
        /\ Append(list, h)[last] = h
        /\ \A i \in DOMAIN list : Append(list, h)[i] = list[i]
    OBVIOUS
  <1>2. Times(x, list) = Cardinality(P) /\ Times(x, Append(list, h)) = Cardinality(Q)
    BY DEF Times
  <1>3. IsFiniteSet(P) /\ last \notin P
    BY <1>1, TimesIsNumber
  <1>4. CASE x = h
    <2>1. Q = P \cup {last}
      BY <1>1, <1>4
    <2> HIDE DEF P, Q, last
    <2>2. Cardinality(Q) = Cardinality(P) + 1
      BY <1>3, <2>1, FS_AddElement
    <2> QED BY <1>2, <1>4, <2>2
  <1>5. CASE x # h
    <2>1. Q = P
      BY <1>1, <1>5
    <2> QED BY <1>2, <1>5, <2>1
  <1> QED BY <1>4, <1>5

\* add lists an endpoint that is not listed, and del takes away one place of an
\* endpoint that is (discovery.go:126-165).
LEMMA AddChanges ==
  ASSUME NEW list \in Seq(Hosts), NEW h \in Hosts
  PROVE  /\ add(list, h) = list <=> Times(h, list) > 0
         /\ \A x \in Hosts : Times(x, add(list, h)) =
              IF x = h /\ Times(h, list) = 0 THEN 1 ELSE Times(x, list)
  <1>1. Times(h, list) \in Nat
    BY TimesIsNumber
  <1>2. CASE Times(h, list) > 0
    BY <1>1, <1>2 DEF add
  <1>3. CASE Times(h, list) = 0
    <2>1. add(list, h) = Append(list, h)
      BY <1>3 DEF add
    <2>2. Append(list, h) # list
      <3>1. Len(Append(list, h)) = Len(list) + 1 /\ Len(list) \in Nat
        OBVIOUS
      <3> QED BY <3>1
    <2> QED BY <1>3, <2>1, <2>2, TimesOfAppend
  <1> QED BY <1>1, <1>2, <1>3

LEMMA DelLeaves ==
  ASSUME NEW list \in Seq(Hosts), NEW h \in Hosts, NEW b \in Nat, b < Len(list)
  PROVE  LET rest == SubSeq(list, 1, b) \o SubSeq(list, b + 2, Len(list)) IN
         /\ DOMAIN rest = 1..(Len(list) - 1)
         /\ Len(rest) = Len(list) - 1
         /\ \A i \in 1..b : rest[i] = list[i]
         /\ \A i \in (b + 1)..(Len(list) - 1) : rest[i] = list[i + 1]
  <1> DEFINE s == SubSeq(list, 1, b)
             t == SubSeq(list, b + 2, Len(list))
  <1>0. Len(list) \in Nat
    OBVIOUS
  <1>1. s \in Seq(Hosts) /\ Len(s) = b /\ \A i \in 1..b : s[i] = list[i]
    BY <1>0
  <1>2. t \in Seq(Hosts) /\ Len(t) = Len(list) - b - 1
        /\ \A i \in 1..(Len(list) - b - 1) : t[i] = list[i + b + 1]
    BY <1>0
  <1> HIDE DEF s, t
  <1>3. /\ DOMAIN (s \o t) = 1..(Len(list) - 1)
        /\ Len(s \o t) = Len(list) - 1
        /\ \A i \in 1..b : (s \o t)[i] = s[i]
        /\ \A i \in (b + 1)..(Len(list) - 1) : (s \o t)[i] = t[i - b]
    BY <1>0, <1>1, <1>2
  <1>4. \A i \in (b + 1)..(Len(list) - 1) : t[i - b] = list[i + 1]
    <2> TAKE i \in (b + 1)..(Len(list) - 1)
    <2>1. i - b \in 1..(Len(list) - b - 1) /\ (i - b) + b + 1 = i + 1
      BY <1>0
    <2> QED BY <1>2, <2>1
  <1> QED BY <1>1, <1>3, <1>4 DEF s, t

LEMMA DelChanges ==
  ASSUME NEW list \in Seq(Hosts), NEW h \in Hosts
  PROVE  /\ del(list, h) = list <=> Times(h, list) = 0
         /\ \A x \in Hosts : Times(x, del(list, h)) =
              IF x = h /\ Times(h, list) > 0 THEN Times(x, list) - 1 ELSE Times(x, list)
  <1> DEFINE b == Before(h, list)
             m == Len(list)
  <1>0. Len(list) \in Nat /\ DOMAIN list = 1..Len(list)
    OBVIOUS
  <1>1. b \in 0..m /\ (b # m => list[b + 1] = h)
    BY BeforeIsPlace
  <1>2. b = m <=> Times(h, list) = 0
    <2>1. CASE b # m
      <3>1. b + 1 \in DOMAIN list
        <4>1. m \in Nat /\ DOMAIN list = 1..m
          BY <1>0
        <4> HIDE DEF b, m
        <4> QED BY <1>1, <2>1, <4>1
      <3> QED BY <1>1, <2>1, <3>1, TimesIsNumber
    <2>2. ASSUME b = m, NEW i \in DOMAIN list, list[i] = h PROVE FALSE
      <3> DEFINE B == {a \in DOMAIN list : \A j \in 1..a : list[j] # h}
      <3>1. B \in SUBSET (1..m) /\ i \in 1..m /\ i \notin B
        BY <1>0, <2>2
      <3>2. IsFiniteSet(1..m) /\ Cardinality(1..m) = m
        BY <1>0, UpTo
      <3>3. Cardinality(B) = m
        BY <2>2 DEF Before
      <3>4. B = 1..m
        <4> HIDE DEF B, m
        <4> QED BY <3>1, <3>2, <3>3, FS_Subset
      <3> QED BY <3>1, <3>4
    <2> QED BY <2>1, <2>2, TimesIsNumber
  <1>3. CASE b = m
    <2>1. del(list, h) = list
      BY <1>3 DEF del
    <2> QED BY <1>2, <1>3, <2>1, TimesIsNumber
  <1>4. CASE b # m
    <2> DEFINE rest == SubSeq(list, 1, b) \o SubSeq(list, b + 2, m)
    <2>1. del(list, h) = rest
      BY <1>4 DEF del
    <2>2. b \in Nat /\ b < m
      <3>1. m \in Nat
        BY <1>0
      <3> HIDE DEF b, m
      <3> QED BY <1>1, <1>4, <3>1
    <2>3. /\ DOMAIN rest = 1..(m - 1)
          /\ Len(rest) = m - 1
          /\ \A i \in 1..b : rest[i] = list[i]
          /\ \A i \in (b + 1)..(m - 1) : rest[i] = list[i + 1]
      <3> HIDE DEF b
      <3> QED BY <2>2, DelLeaves
    <2>4. rest # list
      <3> HIDE DEF rest
      <3> QED BY <1>0, <2>3
    <2>5. b + 1 \in DOMAIN list /\ list[b + 1] = h /\ Times(h, list) # 0
      <3>1. m \in Nat /\ DOMAIN list = 1..m
        BY <1>0
      <3> HIDE DEF b, m
      <3> QED BY <1>1, <1>2, <1>4, <2>2, <3>1
    <2>6. ASSUME NEW x \in Hosts
          PROVE  Times(x, rest) = IF x = h THEN Times(x, list) - 1 ELSE Times(x, list)
      <3> DEFINE P == {i \in DOMAIN list : list[i] = x}
                 Q == {i \in DOMAIN rest : rest[i] = x}
                 f == [i \in Q |-> IF i <= b THEN i ELSE i + 1]
      <3> HIDE DEF b, rest
      <3>1. f \in [Q -> P \ {b + 1}]
        BY <1>0, <2>2, <2>3
      <3>2. \A i, j \in Q : f[i] = f[j] => i = j
        BY <1>0, <2>2, <2>3
      <3>3. \A k \in P \ {b + 1} : \E i \in Q : f[i] = k
        <4> TAKE k \in P \ {b + 1}
        <4>1. k \in 1..m /\ list[k] = x /\ k # b + 1
          BY <1>0
        <4>2. CASE k <= b
          <5>1. k \in Q /\ f[k] = k
            BY <1>0, <2>2, <2>3, <4>1, <4>2
          <5> QED BY <5>1
        <4>3. CASE k > b
          <5>1. k - 1 \in (b + 1)..(m - 1) /\ (k - 1) + 1 = k
            BY <1>0, <2>2, <4>1, <4>3
          <5>2. k - 1 \in Q /\ f[k - 1] = k
            BY <1>0, <2>2, <2>3, <4>1, <5>1
          <5> QED BY <5>2
        <4> QED BY <1>0, <2>2, <4>1, <4>2, <4>3
      <3>4. ExistsBijection(Q, P \ {b + 1})
        <4>1. f \in Bijection(Q, P \ {b + 1})
          <5> HIDE DEF P, Q, f
          <5> QED BY <3>1, <3>2, <3>3 DEF Bijection, Injection, Surjection, IsInjective
        <4> HIDE DEF P, Q, f
        <4> QED BY <4>1 DEF ExistsBijection
      <3>5. IsFiniteSet(P) /\ Times(x, list) = Cardinality(P) /\ Times(x, rest) = Cardinality(Q)
        BY TimesIsNumber DEF Times
      <3>6. b + 1 \in P <=> x = h
        BY <2>5
      <3> HIDE DEF P, Q, f
      <3>7. IsFiniteSet(P \ {b + 1})
        BY <3>5, FS_RemoveElement
      <3>8. Cardinality(P \ {b + 1}) = IF b + 1 \in P THEN Cardinality(P) - 1 ELSE Cardinality(P)
        BY <3>5, FS_RemoveElement
      <3>9. ExistsBijection(P \ {b + 1}, Q)
        BY <3>4, Fun_ExistsBijSymmetric
      <3>10. Cardinality(Q) = Cardinality(P \ {b + 1})
        BY <3>7, <3>9, FS_Bijection
      <3> QED BY <3>5, <3>6, <3>8, <3>10
    <2>7. Times(h, list) > 0
      <3>1. Times(h, list) \in Nat
        BY TimesIsNumber
      <3> QED BY <2>5, <3>1
    <2> HIDE DEF b, rest
    <2> QED BY <2>1, <2>4, <2>5, <2>6, <2>7
  <1> QED BY <1>3, <1>4

-----------------------------------------------------------------------------
(* What is still to be handled.                                            *)

\* From g on goroutine i reaches the Discovery, unless it has passed it.
LEMMA ToReaches ==
  ASSUME TypeInv, Attached(Disc), NEW i \in DOMAIN gs, NEW g \in Goroutine, NEW k \in Keys,
         To(i, g, k)
  PROVE  \E x \in Goroutine :
           /\ gs' = [gs EXCEPT ![i] = x]
           /\ x.pos = g.pos
           /\ x.pc \in {"idle", "dispatch"}
           /\ x.pc = "idle" => x.at = 0
           /\ x.pc = "dispatch" => x.at \in DOMAIN observers /\ x.at > g.at
           /\ (x.pc = "dispatch" /\ \A a \in 1..(x.at - 1) : observers[a] # Disc)
                <=> \A a \in DOMAIN observers : a <= g.at => observers[a] # Disc
  <1> DEFINE due == Due(k, g.at + 1)
  <1>1. /\ observers \in Seq(Observers) /\ Len(observers) \in Nat
        /\ DOMAIN observers = 1..Len(observers)
    BY DEF TypeInv, DTypeOK, WTypeOK
  <1>2. g.at \in Nat /\ HasPrefix(NameOf[k], PrefixOf[Disc])
    BY DiscoveryAssumption DEF Goroutine
  <1>3. due \subseteq (g.at + 1)..Len(observers)
    BY DEF Due
  <1>4. \A a \in DOMAIN observers : observers[a] = Disc /\ a > g.at => a \in due
    BY <1>1, <1>2 DEF Due
  <1>5. PICK d \in DOMAIN observers : observers[d] = Disc
    BY DEF Attached
  <1> HIDE DEF due
  <1>6. CASE due = {} /\ gs' = [gs EXCEPT ![i] = [g EXCEPT !.pc = "idle", !.at = 0]]
    <2> DEFINE x == [g EXCEPT !.pc = "idle", !.at = 0]
    <2>1. x \in Goroutine /\ x.pos = g.pos /\ x.pc = "idle" /\ x.at = 0
      BY DEF Goroutine
    <2>2. d <= g.at
      BY <1>1, <1>2, <1>4, <1>5, <1>6
    <2> HIDE DEF x
    <2> QED BY <1>5, <1>6, <2>1, <2>2 DEF x
  <1>7. ASSUME NEW a \in due, \A b \in due : a <= b,
               gs' = [gs EXCEPT ![i] = [g EXCEPT !.pc = "dispatch", !.at = a]]
        PROVE  \E x \in Goroutine :
           /\ gs' = [gs EXCEPT ![i] = x]
           /\ x.pos = g.pos
           /\ x.pc = "dispatch"
           /\ x.at \in DOMAIN observers /\ x.at > g.at
           /\ (\A b \in 1..(x.at - 1) : observers[b] # Disc)
                <=> \A b \in DOMAIN observers : b <= g.at => observers[b] # Disc
    <2> DEFINE x == [g EXCEPT !.pc = "dispatch", !.at = a]
    <2>1. a \in Nat /\ a > g.at /\ a \in DOMAIN observers
      BY <1>1, <1>2, <1>3
    <2>2. x \in Goroutine /\ x.pos = g.pos /\ x.pc = "dispatch" /\ x.at = a
      BY <2>1 DEF Goroutine
    <2>3. (\A b \in 1..(a - 1) : observers[b] # Disc)
            <=> \A b \in DOMAIN observers : b <= g.at => observers[b] # Disc
      BY <1>1, <1>2, <1>4, <1>7, <2>1
    <2> HIDE DEF x
    <2> QED BY <1>7, <2>1, <2>2, <2>3 DEF x
  <1> QED BY <1>6, <1>7 DEF To, due

LEMMA StartedAttached == ASSUME TypeInv, Dispatch, NEW i \in DOMAIN gs PROVE Attached(Disc)
  <1>1. gs # <<>>
    BY DEF TypeInv, DTypeOK, WTypeOK
  <1> QED BY <1>1 DEF Dispatch

\* What goroutine j has yet to handle depends on how far it is only.
LEMMA YetOfOthers ==
  ASSUME UNCHANGED <<log, observers, prefixes>>, NEW j, gs'[j] = gs[j]
  PROVE  Yet(j)' = Yet(j)
  BY DEF Yet, Unread, Current

\* Another observer is done with an event: the Discovery gets it if it had it to come.
LEMMA PassesOn ==
  ASSUME TypeInv, Dispatch, UNCHANGED <<log, observers, prefixes>>,
         NEW i \in DOMAIN gs, gs[i].pc \in {"dispatch", "store"}, Goes(i)
  PROVE  /\ Dispatch'
         /\ DOMAIN gs' = DOMAIN gs
         /\ gs'[i].pc # "store"
         /\ \A j \in DOMAIN gs : j # i => gs'[j] = gs[j] /\ Yet(j)' = Yet(j)
         /\ observers[gs[i].at] # Disc => Yet(i)' = Yet(i)
         /\ observers[gs[i].at] = Disc => Yet(i)' = Yet(i) \ {gs[i].pos}
  <1> DEFINE e == gs[i].pos
             k == log[gs[i].pos].key
  <1>1. /\ gs[i] \in Goroutine /\ gs[i].pos \in DOMAIN log /\ k \in Keys
        /\ gs \in Seq(Goroutine) /\ log \in Seq(Event) /\ observers \in Seq(Observers)
    BY EventOf DEF TypeInv, DTypeOK, WTypeOK
  <1>2. Attached(Disc)
    BY StartedAttached
  <1> HIDE DEF k
  <1>3. PICK x \in Goroutine :
           /\ gs' = [gs EXCEPT ![i] = x]
           /\ x.pos = gs[i].pos
           /\ x.pc \in {"idle", "dispatch"}
           /\ x.pc = "idle" => x.at = 0
           /\ x.pc = "dispatch" => x.at \in DOMAIN observers /\ x.at > gs[i].at
           /\ (x.pc = "dispatch" /\ \A a \in 1..(x.at - 1) : observers[a] # Disc)
                <=> \A a \in DOMAIN observers : a <= gs[i].at => observers[a] # Disc
    <2>1. To(i, gs[i], k)
      BY DEF Goes, k
    <2> QED BY <1>1, <1>2, <2>1, ToReaches
  <1>4. /\ DOMAIN gs' = DOMAIN gs /\ Len(gs') = Len(gs) /\ gs'[i] = x
        /\ \A j \in DOMAIN gs : j # i => gs'[j] = gs[j]
    BY <1>1, <1>3
  <1>5. HasPrefix(NameOf[log[gs[i].pos].key], prefixes[i]) /\ gs[i].at \in DOMAIN observers
    BY DEF Dispatch
  <1>6. Dispatch'
    <2>1. gs' # <<>> => gs # <<>>
      BY <1>1, <1>4
    <2>2. Attached(Disc)' = Attached(Disc)
      BY DEF Attached
    <2>3. /\ gs'[i].pos <= Len(log)
          /\ gs'[i].pc = "idle" => gs'[i].at = 0
          /\ gs'[i].pc \in {"dispatch", "store"} =>
               gs'[i].at \in DOMAIN observers /\ HasPrefix(NameOf[log[gs'[i].pos].key], prefixes[i])
          /\ gs'[i].pc # "store"
      BY <1>3, <1>4, <1>5 DEF Dispatch
    <2> QED BY <1>4, <2>1, <2>2, <2>3 DEF Dispatch
  <1>7. /\ Unread(i)' = Unread(i)
        /\ gs[i].pos \notin Unread(i)
    BY <1>1, <1>3, <1>4 DEF Unread, Goroutine
  <1>8. Yet(i)' = Unread(i) \cup Current(i)' /\ Yet(i) = Unread(i) \cup Current(i)
    BY <1>3, <1>4, <1>7 DEF Yet
  <1>9. Current(i)' = {a \in {e} : \A b \in DOMAIN observers : b <= gs[i].at => observers[b] # Disc}
    BY <1>3, <1>4 DEF Current
  <1>10. gs[i].at \in Nat /\ Len(observers) \in Nat /\ DOMAIN observers = 1..Len(observers)
    BY <1>1 DEF Goroutine
  <1>11. ASSUME observers[gs[i].at] # Disc PROVE Yet(i)' = Yet(i)
    <2>1. gs[i].pc = "dispatch"
      BY <1>11 DEF Dispatch
    <2>2. Current(i) = {a \in {e} : \A b \in 1..(gs[i].at - 1) : observers[b] # Disc}
      BY <2>1 DEF Current
    <2>3. (\A b \in 1..(gs[i].at - 1) : observers[b] # Disc)
            <=> \A b \in DOMAIN observers : b <= gs[i].at => observers[b] # Disc
      BY <1>5, <1>10, <1>11
    <2> QED BY <1>8, <1>9, <2>2, <2>3
  <1>12. ASSUME observers[gs[i].at] = Disc PROVE Yet(i)' = Yet(i) \ {e}
    <2>1. Current(i)' = {}
      BY <1>5, <1>9, <1>10, <1>12
    <2>2. Current(i) \subseteq {e}
      BY DEF Current
    <2> QED BY <1>7, <1>8, <2>1, <2>2
  <1>13. \A j \in DOMAIN gs : j # i => Yet(j)' = Yet(j)
    BY <1>4, YetOfOthers
  <1> QED BY <1>3, <1>4, <1>6, <1>11, <1>12, <1>13

LEMMA PendingOf ==
  ASSUME NEW k \in Keys, log' = log, DOMAIN gs' = DOMAIN gs,
         \A i \in DOMAIN gs : Yet(i)' = Yet(i)
  PROVE  Pending(k)' <=> Pending(k)
  BY DEF Pending

\* A watch goes on, or ends: nothing gets lost on the way to the Discovery.
LEMMA WatchKeeps ==
  ASSUME TypeInv, Dispatch, NEW i \in DOMAIN gs, DWatch(i)
  PROVE  /\ Dispatch'
         /\ DOMAIN gs' = DOMAIN gs
         /\ gs'[i].pc # "store"
         /\ \A j \in DOMAIN gs : j # i => gs'[j] = gs[j]
         /\ \A j \in DOMAIN gs : Yet(j)' = Yet(j)
  <1>1. /\ gs[i] \in Goroutine /\ gs \in Seq(Goroutine) /\ log \in Seq(Event)
        /\ observers \in Seq(Observers) /\ Len(log) \in Nat /\ DOMAIN log = 1..Len(log)
        /\ gs[i].pos \in Nat
    <2>1. /\ gs[i] \in Goroutine /\ gs \in Seq(Goroutine) /\ log \in Seq(Event)
          /\ observers \in Seq(Observers)
      BY DEF TypeInv, DTypeOK, WTypeOK
    <2>2. Len(log) \in Nat /\ DOMAIN log = 1..Len(log) /\ gs[i].pos \in Nat
      BY <2>1 DEF Goroutine
    <2> QED BY <2>1, <2>2
  <1>2. UNCHANGED <<log, observers, prefixes>>
    BY DEF DWatch, Watch, Receive, WatchEnds
  <1>3. Attached(Disc)
    BY StartedAttached
  <1>4. ASSUME NEW x, gs' = [gs EXCEPT ![i] = x],
               x.pc = "idle" => x.at = 0, x.pc # "store", x.pos <= Len(log),
               x.pc = "dispatch" => /\ x.at \in DOMAIN observers
                                    /\ HasPrefix(NameOf[log[x.pos].key], prefixes[i]),
               Yet(i)' = Yet(i)
        PROVE  /\ Dispatch'
               /\ DOMAIN gs' = DOMAIN gs
               /\ gs'[i].pc # "store"
               /\ \A j \in DOMAIN gs : j # i => gs'[j] = gs[j]
               /\ \A j \in DOMAIN gs : Yet(j)' = Yet(j)
    <2>1. /\ DOMAIN gs' = DOMAIN gs /\ Len(gs') = Len(gs) /\ gs'[i] = x
          /\ \A j \in DOMAIN gs : j # i => gs'[j] = gs[j]
      BY <1>1, <1>4
    <2>2. gs' # <<>> => gs # <<>>
      BY <1>1, <2>1
    <2>3. Attached(Disc)' = Attached(Disc)
      BY <1>2 DEF Attached
    <2>4. Dispatch'
      BY <1>2, <1>4, <2>1, <2>2, <2>3 DEF Dispatch
    <2>5. \A j \in DOMAIN gs : Yet(j)' = Yet(j)
      BY <1>2, <1>4, <2>1, YetOfOthers
    <2> QED BY <1>4, <2>1, <2>4, <2>5
  <1>5. CASE Watch(i)
    <2> DEFINE x == [pc |-> "idle", pos |-> Len(log), at |-> 0]
    <2>1. gs' = [gs EXCEPT ![i] = x] /\ gs[i].pc = "start"
      BY <1>5 DEF Watch
    <2>2. gs'[i] = x
      BY <1>1, <2>1
    <2>3. Yet(i)' = {} /\ Yet(i) = {}
      <3>1. Unread(i)' = {} /\ Current(i)' = {}
        BY <1>1, <1>2, <2>2 DEF Unread, Current
      <3> QED BY <2>1, <3>1 DEF Yet
    <2>4. x.pc = "idle" /\ x.at = 0 /\ x.pos <= Len(log)
      BY <1>1
    <2> HIDE DEF x
    <2> QED BY <1>4, <2>1, <2>3, <2>4
  <1>6. CASE WatchEnds(i)
    <2> DEFINE x == [gs[i] EXCEPT !.pc = "stopped"]
    <2>1. gs' = [gs EXCEPT ![i] = x] /\ gs[i].pc = "idle"
      BY <1>6 DEF WatchEnds
    <2>2. gs'[i] = x
      BY <1>1, <2>1
    <2>3. x.pc = "stopped" /\ x.pos = gs[i].pos
      BY <1>1 DEF Goroutine
    <2>4. Yet(i)' = Yet(i)
      <3> HIDE DEF x
      <3> QED BY <1>2, <2>1, <2>2, <2>3 DEF Yet, Unread, Current
    <2>5. gs[i].pos <= Len(log)
      BY DEF Dispatch
    <2> HIDE DEF x
    <2> QED BY <1>4, <2>1, <2>3, <2>4, <2>5
  <1>7. CASE Receive(i)
    <2>1. PICK e \in Unread(i) :
            /\ \A f \in Unread(i) : e <= f
            /\ To(i, [gs[i] EXCEPT !.pos = e], log[e].key)
      BY <1>7 DEF Receive
    <2>2. /\ e \in Nat /\ e > gs[i].pos /\ e \in DOMAIN log
          /\ HasPrefix(NameOf[log[e].key], prefixes[i])
      <3>1. e \in (gs[i].pos + 1)..Len(log) /\ HasPrefix(NameOf[log[e].key], prefixes[i])
        BY DEF Unread
      <3> QED BY <1>1, <3>1
    <2>3. log[e].key \in Keys
      <3>1. log[e] \in Event
        BY <1>1, <2>2
      <3> QED BY <3>1 DEF Event
    <2>4. gs[i].pc = "idle" /\ gs[i].at = 0
      BY <1>7 DEF Receive, Dispatch
    <2> DEFINE g == [gs[i] EXCEPT !.pos = e]
    <2>5. g \in Goroutine /\ g.pos = e /\ g.at = 0
      BY <1>1, <2>2, <2>4 DEF Goroutine
    <2> HIDE DEF g
    <2>6. PICK x \in Goroutine :
           /\ gs' = [gs EXCEPT ![i] = x]
           /\ x.pos = g.pos
           /\ x.pc \in {"idle", "dispatch"}
           /\ x.pc = "idle" => x.at = 0
           /\ x.pc = "dispatch" => x.at \in DOMAIN observers /\ x.at > g.at
           /\ (x.pc = "dispatch" /\ \A a \in 1..(x.at - 1) : observers[a] # Disc)
                <=> \A a \in DOMAIN observers : a <= g.at => observers[a] # Disc
      <3>1. To(i, g, log[e].key)
        BY <2>1 DEF g
      <3> QED BY <1>3, <2>3, <2>5, <3>1, ToReaches
    <2>7. gs'[i] = x
      BY <1>1, <2>6
    <2>8. x.pc = "dispatch" /\ \A a \in 1..(x.at - 1) : observers[a] # Disc
      BY <1>1, <2>5, <2>6
    <2>9. Yet(i)' = Yet(i)
      <3>1. Yet(i) = Unread(i)
        BY <2>4 DEF Yet, Current
      <3>2. Current(i)' = {e}
        BY <1>2, <2>5, <2>6, <2>7, <2>8 DEF Current
      <3>3. Unread(i)' = {f \in (e + 1)..Len(log) : HasPrefix(NameOf[log[f].key], prefixes[i])}
        BY <1>2, <2>5, <2>6, <2>7 DEF Unread
      <3>4. Unread(i) = Unread(i)' \cup {e}
        <4>1. \A f \in Unread(i) : f \in Unread(i)' \cup {e}
          <5> TAKE f \in Unread(i)
          <5>1. f \in (gs[i].pos + 1)..Len(log) /\ HasPrefix(NameOf[log[f].key], prefixes[i])
            BY DEF Unread
          <5>2. e <= f
            BY <2>1
          <5>3. f = e \/ f \in (e + 1)..Len(log)
            BY <1>1, <2>2, <5>1, <5>2
          <5> QED BY <3>3, <5>1, <5>3
        <4>2. \A f \in Unread(i)' : f \in Unread(i)
          <5> TAKE f \in Unread(i)'
          <5>1. f \in (e + 1)..Len(log) /\ HasPrefix(NameOf[log[f].key], prefixes[i])
            BY <3>3
          <5>2. f \in (gs[i].pos + 1)..Len(log)
            BY <1>1, <2>2, <5>1
          <5> QED BY <5>1, <5>2 DEF Unread
        <4> QED BY <2>1, <4>1, <4>2
      <3> QED BY <2>7, <2>8, <3>1, <3>2, <3>4 DEF Yet
    <2>10. e <= Len(log)
      BY <1>1, <2>2
    <2> QED BY <1>4, <2>2, <2>5, <2>6, <2>8, <2>9, <2>10
  <1> QED BY <1>5, <1>6, <1>7 DEF DWatch

\* The Discovery is done with an event of goroutine i: of that key no other is to be
\* handled, or this was its last.
LEMMA HandledLast ==
  ASSUME TypeInv, LogTellsRegistry, Dispatch, UNCHANGED <<log, observers, prefixes>>,
         NEW i \in DOMAIN gs, gs[i].pc \in {"dispatch", "store"}, Goes(i),
         observers[gs[i].at] = Disc, NEW k \in Keys
  PROVE  /\ k # log[gs[i].pos].key => (Pending(k)' <=> Pending(k))
         /\ k = log[gs[i].pos].key /\ ~Pending(k)' => (k \in registered <=> log[gs[i].pos].put)
  <1> DEFINE e == gs[i].pos
  <1>1. /\ DOMAIN gs' = DOMAIN gs
        /\ \A j \in DOMAIN gs : j # i => Yet(j)' = Yet(j)
        /\ Yet(i)' = Yet(i) \ {e}
    BY PassesOn
  <1>2. e \in DOMAIN log /\ gs[i] \in Goroutine /\ log \in Seq(Event)
    BY EventOf DEF TypeInv, DTypeOK, WTypeOK
  <1>3. ASSUME k # log[e].key PROVE Pending(k)' <=> Pending(k)
    BY <1>1, <1>3 DEF Pending
  <1>4. ASSUME k = log[e].key, ~Pending(k)' PROVE k \in registered <=> log[e].put
    <2>1. ASSUME NEW f \in DOMAIN log, f > e, log[f].key = k PROVE FALSE
      <3>1. f \in Unread(i)
        <4>1. HasPrefix(NameOf[k], prefixes[i])
          BY <1>4 DEF Dispatch
        <4>2. f \in (e + 1)..Len(log)
          BY <1>2, <2>1 DEF Goroutine
        <4> QED BY <2>1, <4>1, <4>2 DEF Unread
      <3>2. f \in Yet(i)'
        BY <1>1, <1>2, <2>1, <3>1 DEF Yet, Goroutine
      <3> QED BY <1>1, <1>4, <2>1, <3>2 DEF Pending
    <2> QED BY <1>2, <1>4, <2>1 DEF LogTellsRegistry
  <1> QED BY <1>3, <1>4

-----------------------------------------------------------------------------
(* Steps and counts.                                                       *)

LEMMA FewerKeys ==
  ASSUME NEW T \in SUBSET Keys, NEW S \in SUBSET T
  PROVE  /\ IsFiniteSet(S)
         /\ Cardinality(S) \in Nat /\ Cardinality(T) \in Nat
         /\ Cardinality(S) <= Cardinality(T)
  <1>1. IsFiniteSet(T)
    BY DiscoveryAssumption, FS_Subset
  <1> QED BY <1>1, FS_Subset, FS_CardinalityType

LEMMA LiveKeys ==
  ASSUME NEW h
  PROVE  /\ Live(h) \in SUBSET Keys
         /\ Cardinality(Live(h)) \in Nat
  <1>1. Live(h) \in SUBSET Keys
    BY DEF Live, HostedBy
  <1> QED BY <1>1, FewerKeys

LEMMA SettledIsOwn ==
  ASSUME NEW h
  PROVE  /\ Settled(h) = {} \/ (Settled(h) = {h} /\ \E k \in Keys : HostedBy(h) = {k})
         /\ \A k : HostedBy(h) = {k} => Settled(h) = {h}
  <1>1. HostedBy(h) \in SUBSET Keys
    BY DEF HostedBy
  <1>2. IsFiniteSet(HostedBy(h))
    BY <1>1, FewerKeys
  <1>3. Cardinality(HostedBy(h)) = 1 <=> \E k : HostedBy(h) = {k}
    BY <1>2, FS_Singleton
  <1>4. /\ Cardinality(HostedBy(h)) = 1 => Settled(h) = {h}
        /\ Cardinality(HostedBy(h)) # 1 => Settled(h) = {}
    BY DEF Settled
  <1>5. \A k : HostedBy(h) = {k} => k \in Keys
    BY <1>1
  <1>6. Cardinality(HostedBy(h)) = 1 => \E k \in Keys : HostedBy(h) = {k}
    BY <1>3, <1>5
  <1>7. \A k : HostedBy(h) = {k} => Cardinality(HostedBy(h)) = 1
    BY <1>3
  <1>8. \A k : HostedBy(h) = {k} => Settled(h) = {h}
    BY <1>4, <1>7, Zenon
  <1>9. Settled(h) = {} \/ (Settled(h) = {h} /\ \E k \in Keys : HostedBy(h) = {k})
    BY <1>4, <1>6, Zenon
  <1> QED BY <1>8, <1>9, Zenon

\* Steps that change no list: keys count as before, or more of them do.
LEMMA QuietStep ==
  ASSUME TypeInv, CountsAreBounded, OwnOnce, OwnIsExact,
         UNCHANGED <<host, made, hosts, over>>,
         \A k \in Keys : host[k] \in Hosts =>
           /\ k \in registered \/ k \in missed \/ Pending(k)
                => k \in registered' \/ k \in missed' \/ Pending(k)'
           /\ k \notin missed' /\ ~Pending(k)'
                => k \notin missed /\ ~Pending(k) /\ (k \in registered' <=> k \in registered),
         \A i \in DOMAIN held' : \/ held'[i].from \in {<<>>, hosts}
                                 \/ \E j \in DOMAIN held : held'[i].from = held[j].from
  PROVE  CountsAreBounded' /\ OwnOnce' /\ OwnIsExact'
  <1>1. \A h : HostedBy(h)' = HostedBy(h) /\ Lists(h)' = Lists(h)
    BY DEF HostedBy, Lists, Times
  <1>2. CountsAreBounded'
    <2> SUFFICES ASSUME NEW h \in Hosts \ over PROVE Lists(h) <= Cardinality(Live(h)')
      BY <1>1 DEF CountsAreBounded
    <2>1. Live(h)' \in SUBSET Keys /\ Live(h) \subseteq Live(h)'
      BY <1>1 DEF Live, HostedBy
    <2>2. Cardinality(Live(h)) <= Cardinality(Live(h)') /\ Cardinality(Live(h)) \in Nat
          /\ Cardinality(Live(h)') \in Nat
      BY <2>1, FewerKeys
    <2>3. Lists(h) <= Cardinality(Live(h)) /\ Lists(h) \in Nat
      BY TimesIsNumber DEF CountsAreBounded, Lists, TypeInv, DTypeOK
    <2> QED BY <2>2, <2>3
  <1>3. OwnOnce'
    <2> SUFFICES ASSUME NEW h \in Hosts, NEW k \in Keys, HostedBy(h) = {k}
                 PROVE  Lists(h) <= 1 /\ \A i \in DOMAIN held' : Times(h, held'[i].from) <= 1
      BY <1>1 DEF OwnOnce, Times
    <2>1. Lists(h) <= 1 /\ \A j \in DOMAIN held : Times(h, held[j].from) <= 1
      BY DEF OwnOnce
    <2>2. Times(h, <<>>) = 0
      <3>1. <<>> \in Seq(Hosts) /\ DOMAIN <<>> = {}
        OBVIOUS
      <3> QED BY <3>1, TimesIsNumber
    <2> QED BY <2>1, <2>2 DEF Lists
  <1>4. OwnIsExact'
    BY <1>1 DEF OwnIsExact, HostedBy
  <1> QED BY <1>2, <1>3, <1>4

\* The Discovery has handled an event of goroutine i, with c places of its endpoint
\* in the list it changed.
LEMMA HandledStep ==
  ASSUME TypeInv, TypeInv', CountInv,
         UNCHANGED <<log, observers, prefixes, registered, host, made, missed>>,
         NEW i \in DOMAIN gs, gs[i].pc \in {"dispatch", "store"}, Goes(i),
         observers[gs[i].at] = Disc,
         NEW h \in Hosts, h = host[log[gs[i].pos].key], over \subseteq over' \cup Settled(h),
         \A x \in Hosts \ over' : x # h => Lists(x)' = Lists(x),
         NEW c \in Nat,
         Settled(h) = {} /\ h \notin over' => c = Lists(h),
         Settled(h) # {} => c <= 1,
         Lists(h)' = IF log[gs[i].pos].put THEN (IF c = 0 THEN 1 ELSE c)
                     ELSE (IF c = 0 THEN 0 ELSE c - 1)
  PROVE  CountsAreBounded' /\ OwnIsExact'
  <1> DEFINE ev == log[gs[i].pos]
  <1>1. PICK key \in Keys : key = ev.key
    BY EventOf
  <1>2. \A x : HostedBy(x)' = HostedBy(x)
    BY DEF HostedBy
  <1>3. \A k \in Keys : k # key => (Pending(k)' <=> Pending(k))
    BY <1>1, HandledLast DEF CountInv
  <1>4. ~Pending(key)' => (key \in registered <=> ev.put)
    BY <1>1, HandledLast DEF CountInv
  <1>5. key \in HostedBy(h) /\ \A x \in Hosts : x # h => key \notin HostedBy(x)
    BY <1>1 DEF HostedBy
  <1>6. Settled(h) = {} \/ (Settled(h) = {h} /\ HostedBy(h) = {key})
    BY <1>5, SettledIsOwn
  <1> HIDE DEF ev
  <1>7. ASSUME NEW x \in Hosts \ over' PROVE Lists(x)' <= Cardinality(Live(x)')
    <2>1. /\ Live(x)' \in SUBSET Keys /\ Cardinality(Live(x)') \in Nat
          /\ Live(x) \in SUBSET Keys /\ Cardinality(Live(x)) \in Nat
      <3>1. Live(x)' \in SUBSET Keys
        BY <1>2 DEF Live, HostedBy
      <3> QED BY <3>1, FewerKeys, LiveKeys
    <2>2. CASE x # h
      <3>1. x \notin over /\ Lists(x)' = Lists(x)
        BY <1>6, <1>7, <2>2
      <3>2. Live(x)' = Live(x)
        BY <1>2, <1>3, <1>5, <2>2 DEF Live, HostedBy
      <3> QED BY <3>1, <3>2 DEF CountInv, CountsAreBounded
    <2>3. CASE x = h /\ ev.put
      <3>1. key \in Live(h)'
        BY <1>2, <1>4, <1>5, <2>3 DEF Live
      <3>2. Cardinality(Live(h)') >= 1
        <4>1. {key} \subseteq Live(h)' /\ Cardinality({key}) = 1
          BY <3>1, FS_Singleton
        <4> QED BY <2>1, <2>3, <4>1, FewerKeys
      <3>3. CASE Settled(h) # {}
        <4>1. Lists(h)' = 1
          BY <2>3, <3>3 DEF ev
        <4> QED BY <2>3, <3>2, <4>1
      <3>4. CASE Settled(h) = {}
        <4>1. c = Lists(h) /\ h \notin over
          BY <1>7, <2>3, <3>4
        <4>2. Lists(h) <= Cardinality(Live(h))
          BY <4>1 DEF CountInv, CountsAreBounded
        <4>3. Live(h) \subseteq Live(h)'
          BY <1>2, <1>3, <3>1 DEF Live, HostedBy
        <4>4. Cardinality(Live(h)) <= Cardinality(Live(h)')
          BY <2>1, <2>3, <4>3, FewerKeys
        <4>5. Lists(h)' = IF c = 0 THEN 1 ELSE c
          BY <2>3 DEF ev
        <4> QED BY <2>1, <2>3, <3>2, <4>1, <4>2, <4>4, <4>5
      <3> QED BY <3>3, <3>4
    <2>4. CASE x = h /\ ~ev.put
      <3>1. Lists(h)' = IF c = 0 THEN 0 ELSE c - 1
        BY <2>4 DEF ev
      <3>2. CASE Settled(h) # {}
        <4>1. Lists(h)' = 0
          BY <3>1, <3>2
        <4> QED BY <2>1, <2>4, <4>1
      <3>3. CASE Settled(h) = {}
        <4>1. c = Lists(h) /\ h \notin over
          BY <1>7, <2>4, <3>3
        <4>2. Lists(h) <= Cardinality(Live(h))
          BY <4>1 DEF CountInv, CountsAreBounded
        <4>3. Live(h) \ {key} \subseteq Live(h)'
          BY <1>2, <1>3 DEF Live, HostedBy
        <4>4. Cardinality(Live(h) \ {key}) <= Cardinality(Live(h)')
              /\ Cardinality(Live(h) \ {key}) \in Nat
          BY <2>1, <2>4, <4>3, FewerKeys
        <4>5. Cardinality(Live(h) \ {key}) >= Cardinality(Live(h)) - 1
          <5>1. IsFiniteSet(Live(h))
            BY <2>1, <2>4, FewerKeys
          <5>2. Cardinality(Live(h) \ {key}) =
                  IF key \in Live(h) THEN Cardinality(Live(h)) - 1 ELSE Cardinality(Live(h))
            BY <5>1, FS_RemoveElement
          <5> QED BY <2>1, <2>4, <5>2
        <4> QED BY <2>1, <2>4, <3>1, <4>1, <4>2, <4>4, <4>5
      <3> QED BY <3>2, <3>3
    <2> QED BY <2>2, <2>3, <2>4
  <1>8. ASSUME made, NEW x \in Hosts \ over', NEW k \in Keys,
               HostedBy(x) = {k}, k \notin missed, ~Pending(k)'
        PROVE  Lists(x)' = IF k \in registered THEN 1 ELSE 0
    <2>1. CASE x # h
      <3>1. k # key /\ x \notin over /\ Lists(x)' = Lists(x)
        BY <1>5, <1>6, <1>8, <2>1
      <3>2. ~Pending(k)
        BY <1>3, <1>8, <3>1
      <3> QED BY <1>8, <3>1, <3>2 DEF CountInv, OwnIsExact
    <2>2. CASE x = h
      <3>1. k = key /\ Settled(h) # {}
        BY <1>5, <1>8, <2>2, SettledIsOwn
      <3>2. k \in registered <=> ev.put
        BY <1>4, <1>8, <3>1
      <3>3. Lists(h)' = IF ev.put THEN 1 ELSE 0
        BY <3>1 DEF ev
      <3> QED BY <2>2, <3>2, <3>3
    <2> QED BY <2>1, <2>2
  <1> QED BY <1>2, <1>7, <1>8 DEF CountsAreBounded, OwnIsExact

\* A key comes or goes: a goroutine that watches it has an event more to handle, or
\* the event is missed (watcher.go:96-107).
LEMMA ChangesKeep ==
  ASSUME TypeInv, TypeInv', CountInv, NEW k \in Keys, NEW put \in BOOLEAN, Changes(k, put)
  PROVE  CountInv'
  <1> DEFINE new == Len(log) + 1
  <1>1. /\ log' = Append(log, [key |-> k, put |-> put])
        /\ missed' = IF Heard(k) THEN missed ELSE missed \cup {k}
        /\ UNCHANGED <<observers, prefixes, gs, host, made, hosts, held, over>>
        /\ registered' = IF put THEN registered \cup {k} ELSE registered \ {k}
    BY DEF Changes, listVars, Registry!Registers, Registry!Leaves
  <1>2. /\ log \in Seq(Event) /\ Len(log) \in Nat /\ DOMAIN log = 1..Len(log)
        /\ gs \in Seq(Goroutine) /\ \A i \in DOMAIN gs : gs[i] \in Goroutine /\ gs[i].pos \in Nat
    <2>1. log \in Seq(Event) /\ gs \in Seq(Goroutine)
      BY DEF TypeInv, DTypeOK, WTypeOK
    <2>2. \A i \in DOMAIN gs : gs[i] \in Goroutine
      BY <2>1
    <2> QED BY <2>1, <2>2 DEF Goroutine
  <1>3. /\ DOMAIN log' = DOMAIN log \cup {new} /\ Len(log') = new /\ new \notin DOMAIN log
        /\ log'[new] = [key |-> k, put |-> put]
        /\ \A e \in DOMAIN log : log'[e] = log[e] /\ e < new
    BY <1>1, <1>2
  <1> HIDE DEF new
  <1>4. LogTellsRegistry'
    <2> SUFFICES ASSUME NEW e \in DOMAIN log',
                        ~ \E f \in DOMAIN log' : f > e /\ log'[f].key = log'[e].key
                 PROVE  log'[e].key \in registered' <=> log'[e].put
      BY DEF LogTellsRegistry
    <2>1. CASE e = new
      BY <1>1, <1>3, <2>1
    <2>2. CASE e \in DOMAIN log
      <3>1. log[e].key # k
        BY <1>3, <2>2
      <3>2. ~ \E f \in DOMAIN log : f > e /\ log[f].key = log[e].key
        BY <1>3, <2>2
      <3>3. log[e].key \in registered <=> log[e].put
        BY <2>2, <3>2 DEF CountInv, LogTellsRegistry
      <3> QED BY <1>1, <1>3, <2>2, <3>1, <3>3
    <2> QED BY <1>3, <2>1, <2>2
  <1>5. \A i \in DOMAIN gs : gs[i].pc \in {"dispatch", "store"} => log'[gs[i].pos] = log[gs[i].pos]
    BY <1>3 DEF TypeInv
  <1>6. Dispatch'
    <2>1. \A i \in DOMAIN gs : gs[i].pos <= Len(log')
      BY <1>2, <1>3 DEF CountInv, Dispatch, new
    <2> QED BY <1>1, <1>5, <2>1 DEF CountInv, Dispatch, Attached
  <1>7. CopyIsChange'
    <2> SUFFICES ASSUME NEW i \in DOMAIN gs, gs[i].pc = "store"
                 PROVE  LET ev == log'[gs[i].pos]
                            h == host[ev.key]
                        IN  /\ h \in Hosts
                            /\ held[i].to # held[i].from
                            /\ held[i].to = IF ev.put THEN add(held[i].from, h)
                                            ELSE del(held[i].from, h)
      BY <1>1 DEF CopyIsChange, add, del, Times, Before
    <2> QED BY <1>5 DEF CountInv, CopyIsChange
  <1>8. ASSUME NEW i \in DOMAIN gs
        PROVE  /\ \A e \in Yet(i) : e \in Yet(i)' /\ log'[e] = log[e]
               /\ \A e \in Yet(i)' : \/ e \in Yet(i) /\ log'[e] = log[e]
                                     \/ log'[e].key = k
               /\ gs[i].pc # "start" /\ HasPrefix(NameOf[k], prefixes[i]) => new \in Yet(i)'
    <2>1. \A e \in Unread(i) : e \in Unread(i)' /\ log'[e] = log[e]
      <3> TAKE e \in Unread(i)
      <3>1. e \in (gs[i].pos + 1)..Len(log) /\ HasPrefix(NameOf[log[e].key], prefixes[i])
        BY DEF Unread
      <3>2. e \in DOMAIN log /\ e \in (gs[i].pos + 1)..Len(log')
        BY <1>2, <1>3, <3>1
      <3> QED BY <1>1, <1>3, <3>1, <3>2 DEF Unread
    <2>2. Current(i)' = Current(i) /\ \A e \in Current(i) : log'[e] = log[e]
      BY <1>1, <1>5 DEF Current
    <2>3. \A e \in Unread(i)' : (e \in Unread(i) /\ log'[e] = log[e]) \/ log'[e].key = k
      <3> TAKE e \in Unread(i)'
      <3>1. e \in (gs[i].pos + 1)..Len(log') /\ HasPrefix(NameOf[log'[e].key], prefixes[i])
        BY <1>1 DEF Unread
      <3>2. CASE e = new
        BY <1>3, <3>2
      <3>3. CASE e # new
        <4>1. e \in (gs[i].pos + 1)..Len(log) /\ e \in DOMAIN log
          BY <1>2, <1>3, <3>1, <3>3 DEF new
        <4> QED BY <1>3, <3>1, <4>1 DEF Unread
      <3> QED BY <3>2, <3>3
    <2>4. ASSUME gs[i].pc # "start", HasPrefix(NameOf[k], prefixes[i]) PROVE new \in Yet(i)'
      <3>1. gs[i].pos <= Len(log)
        BY DEF CountInv, Dispatch
      <3>2. new \in (gs[i].pos + 1)..Len(log')
        BY <1>2, <1>3, <3>1 DEF new
      <3>3. new \in Unread(i)'
        BY <1>1, <1>3, <2>4, <3>2 DEF Unread
      <3> QED BY <1>1, <2>4, <3>3 DEF Yet
    <2>5. /\ Yet(i) = IF gs[i].pc = "start" THEN {} ELSE Unread(i) \cup Current(i)
          /\ Yet(i)' = IF gs[i].pc = "start" THEN {} ELSE Unread(i)' \cup Current(i)'
      BY <1>1 DEF Yet
    <2> QED BY <2>1, <2>2, <2>3, <2>4, <2>5
  <1>9. Pending(k)' \/ k \in missed'
    BY <1>1, <1>3, <1>8 DEF Heard, Pending
  <1>10. ASSUME NEW j \in Keys
         PROVE  /\ Pending(j) => Pending(j)'
                /\ j # k => (Pending(j)' <=> Pending(j))
    BY <1>1, <1>8 DEF Pending
  <1>11. CountsAreBounded' /\ OwnOnce' /\ OwnIsExact'
    <2>1. \A j \in Keys :
            /\ j \in registered \/ j \in missed \/ Pending(j)
                 => j \in registered' \/ j \in missed' \/ Pending(j)'
            /\ j \notin missed' /\ ~Pending(j)'
                 => j \notin missed /\ ~Pending(j) /\ (j \in registered' <=> j \in registered)
      BY <1>1, <1>9, <1>10
    <2> QED BY <1>1, <2>1, QuietStep DEF CountInv
  <1> QED BY <1>4, <1>6, <1>7, <1>11 DEF CountInv

\* NewDiscovery lists the endpoint of every key once (discovery.go:36-76).
LEMMA NewDiscoveryCounts ==
  ASSUME TypeInv, TypeInv', CountInv, NewDiscovery
  PROVE  CountInv'
  <1> DEFINE good == {k \in registered : host[k] # BadHost}
             m == Cardinality(good)
  <1>1. /\ ~made /\ made' = TRUE
        /\ UNCHANGED <<wvars, registered, host, held, over, served, resolveVars, missed>>
    BY DEF NewDiscovery
  <1>2. gs = <<>> /\ held = <<>> /\ registered \in SUBSET Keys
    <2>1. gs = <<>> /\ held \in Seq(Held) /\ Len(held) = Len(gs) /\ registered \in SUBSET Keys
      BY <1>1 DEF TypeInv, DTypeOK
    <2> QED BY <2>1
  <1>3. PICK keys \in [1..m -> good] :
          /\ \A i, j \in DOMAIN keys : i # j => keys[i] # keys[j]
          /\ hosts' = [i \in DOMAIN keys |-> host[keys[i]]]
    BY DEF NewDiscovery
  <1>4. IsFiniteSet(good) /\ m \in Nat
    <2>1. good \in SUBSET Keys
      BY <1>2
    <2> HIDE DEF good
    <2> QED BY <2>1, FewerKeys
  <1>5. IsFiniteSet(1..m) /\ Cardinality(1..m) = m
    <2> HIDE DEF m
    <2> QED BY <1>4, UpTo
  <1>6. keys \in Surjection(1..m, good)
    <2>1. keys \in Injection(1..m, good)
      BY <1>3 DEF Injection, IsInjective
    <2> HIDE DEF good
    <2>2. Cardinality(1..m) = Cardinality(good)
      BY <1>5
    <2> QED BY <1>4, <2>1, <2>2, FS_Injection
  <1>7. \A k : ~Pending(k)'
    BY <1>1, <1>2 DEF Pending, wvars
  <1>8. \A h : HostedBy(h)' = HostedBy(h)
    BY <1>1 DEF HostedBy
  <1>9. ASSUME NEW h \in Hosts
        PROVE  /\ Lists(h)' <= Cardinality(Live(h)')
               /\ \A k \in Keys : HostedBy(h) = {k} =>
                    Lists(h)' = IF k \in registered THEN 1 ELSE 0
    <2> DEFINE P == {i \in 1..m : host[keys[i]] = h}
               R == {k \in registered : host[k] = h}
               f == [i \in P |-> keys[i]]
    <2>1. Lists(h)' = Cardinality(P)
      <3>1. {i \in DOMAIN hosts' : hosts'[i] = h} = P
        BY <1>3
      <3> QED BY <3>1 DEF Lists, Times
    <2>2. BadHost \notin Hosts
      BY DiscoveryAssumption
    <2>3. f \in Injection(P, R)
      <3>1. \A i \in P : keys[i] \in R
        BY <1>3
      <3>2. \A i, j \in P : f[i] = f[j] => i = j
        BY <1>3
      <3> HIDE DEF P, R
      <3> QED BY <3>1, <3>2 DEF Injection, IsInjective
    <2>4. R \in SUBSET Keys /\ R \subseteq Live(h)' /\ Live(h)' \in SUBSET Keys
      BY <1>1, <1>2, <1>8 DEF Live, HostedBy
    <2> HIDE DEF P, R, f
    <2>5. IsFiniteSet(R) /\ Cardinality(R) \in Nat /\ Cardinality(Live(h)') \in Nat
          /\ Cardinality(R) <= Cardinality(Live(h)')
      BY <2>4, FewerKeys
    <2>6. IsFiniteSet(P) /\ Cardinality(P) <= Cardinality(R)
      BY <2>3, <2>5, FS_Injection
    <2>7. Cardinality(P) \in Nat /\ (Cardinality(P) = 0 <=> P = {})
      BY <2>6, FS_CardinalityType, FS_EmptySet
    <2>8. ASSUME NEW k \in Keys, HostedBy(h) = {k}
          PROVE  Lists(h)' = IF k \in registered THEN 1 ELSE 0
      <3>1. R = IF k \in registered THEN {k} ELSE {}
        BY <1>2, <2>8 DEF R, HostedBy
      <3>2. CASE k \in registered
        <4>1. Cardinality(R) = 1
          BY <3>1, <3>2, FS_Singleton
        <4>2. k \in good
          BY <2>2, <2>8, <3>2 DEF HostedBy
        <4>3. PICK i \in 1..m : keys[i] = k
          BY <1>6, <4>2 DEF Surjection
        <4>4. i \in P
          BY <2>8, <4>3 DEF P, HostedBy
        <4> QED BY <2>1, <2>6, <2>7, <3>2, <4>1, <4>4
      <3>3. CASE k \notin registered
        <4>1. Cardinality(R) = 0
          BY <3>1, <3>3, FS_EmptySet
        <4> QED BY <2>1, <2>6, <2>7, <3>3, <4>1
      <3> QED BY <3>2, <3>3
    <2>9. Lists(h)' <= Cardinality(Live(h)')
      BY <2>1, <2>5, <2>6, <2>7
    <2> QED BY <2>8, <2>9
  <1>10. CountsAreBounded' /\ OwnIsExact'
    BY <1>1, <1>8, <1>9 DEF CountsAreBounded, OwnIsExact
  <1>11. OwnOnce'
    <2>1. held' = <<>>
      BY <1>1, <1>2
    <2> SUFFICES ASSUME NEW h \in Hosts, NEW k \in Keys, HostedBy(h) = {k}
                 PROVE  Lists(h)' <= 1
      BY <1>8, <2>1 DEF OwnOnce
    <2> QED BY <1>9
  <1>12. LogTellsRegistry' /\ Dispatch' /\ CopyIsChange'
    BY <1>1, <1>2 DEF CountInv, LogTellsRegistry, Dispatch, CopyIsChange, wvars, Attached
  <1> QED BY <1>10, <1>11, <1>12 DEF CountInv

\* Attach: no goroutine runs yet, and an observer is attached once (watcher.go:47-65).
LEMMA AttachCounts ==
  ASSUME TypeInv, TypeInv', CountInv, NEW o \in Observers, DAttach(o)
  PROVE  CountInv'
  <1>1. /\ gs = <<>> /\ gs' = gs /\ log' = log
        /\ ~Attached(o)
        /\ observers' = Append(observers, o)
        /\ UNCHANGED <<registered, host, made, hosts, held, over, missed>>
    BY DEF DAttach, Attach, listVars
  <1>2. observers \in Seq(Observers)
    BY DEF TypeInv, DTypeOK, WTypeOK
  <1>3. \A a, b \in DOMAIN observers' :
          observers'[a] = Disc /\ observers'[b] = Disc => a = b
    <2>1. /\ DOMAIN observers' = DOMAIN observers \cup {Len(observers) + 1}
          /\ observers'[Len(observers) + 1] = o
          /\ \A a \in DOMAIN observers : observers'[a] = observers[a]
      BY <1>1, <1>2
    <2>2. o = Disc => \A a \in DOMAIN observers : observers[a] # Disc
      BY <1>1 DEF Attached
    <2> QED BY <2>1, <2>2 DEF CountInv, Dispatch
  <1>4. Dispatch'
    BY <1>1, <1>3 DEF Dispatch
  <1>5. LogTellsRegistry' /\ CopyIsChange'
    BY <1>1 DEF CountInv, LogTellsRegistry, CopyIsChange
  <1>6. \A k \in Keys : Pending(k)' <=> Pending(k)
    BY <1>1 DEF Pending
  <1>7. CountsAreBounded' /\ OwnOnce' /\ OwnIsExact'
    BY <1>1, <1>6, QuietStep DEF CountInv
  <1> QED BY <1>4, <1>5, <1>7 DEF CountInv

\* Run: every goroutine is yet to watch (watcher.go:67-78).
LEMMA RunCounts ==
  ASSUME TypeInv, TypeInv', CountInv, DRun
  PROVE  CountInv'
  <1>1. /\ Attached(Disc) /\ gs = <<>>
        /\ gs' = [i \in DOMAIN prefixes |-> [pc |-> "start", pos |-> 0, at |-> 0]]
        /\ held' = [i \in DOMAIN prefixes |-> Nothing]
        /\ UNCHANGED <<log, observers, prefixes, registered, host, made, hosts, over, missed>>
    BY DEF DRun, Run
  <1>2. Len(log) \in Nat /\ prefixes \in Seq(Seq(Chars)) /\ gs' \in Seq(Goroutine)
    BY DEF TypeInv, DTypeOK, WTypeOK
  <1>3. /\ DOMAIN gs' = DOMAIN prefixes /\ Len(gs') = Len(prefixes)
        /\ \A i \in DOMAIN gs' : gs'[i].pc = "start" /\ gs'[i].pos = 0
    <2> DEFINE x == [pc |-> "start", pos |-> 0, at |-> 0]
    <2>1. x \in Goroutine /\ x.pc = "start" /\ x.pos = 0 /\ gs' = [i \in DOMAIN prefixes |-> x]
      BY <1>1 DEF Goroutine
    <2> HIDE DEF x
    <2>2. DOMAIN gs' = DOMAIN prefixes
      BY <2>1
    <2> QED BY <1>2, <2>1, <2>2, Filled
  <1>4. Attached(Disc)'
    BY <1>1 DEF Attached
  <1>5. Dispatch'
    BY <1>1, <1>2, <1>3, <1>4 DEF CountInv, Dispatch
  <1>6. LogTellsRegistry' /\ CopyIsChange'
    BY <1>1, <1>3 DEF CountInv, LogTellsRegistry, CopyIsChange
  <1>7. \A k \in Keys : ~Pending(k)' /\ ~Pending(k)
    BY <1>1, <1>3 DEF Pending, Yet
  <1>8. \A i \in DOMAIN held' : held'[i].from = <<>>
    BY <1>1 DEF Nothing
  <1>9. CountsAreBounded' /\ OwnOnce' /\ OwnIsExact'
    BY <1>1, <1>7, <1>8, QuietStep DEF CountInv
  <1> QED BY <1>5, <1>6, <1>9 DEF CountInv

\* A goroutine keeps its copy until it stores it.
LEMMA CopiesStay ==
  ASSUME CopyIsChange, UNCHANGED <<log, host>>, DOMAIN gs' = DOMAIN gs,
         \A j \in DOMAIN gs : gs'[j].pc = "store" => gs'[j] = gs[j] /\ held'[j] = held[j]
  PROVE  CopyIsChange'
  <1>1. \A list, h : add(list, h)' = add(list, h) /\ del(list, h)' = del(list, h)
    BY DEF add, del, Times, Before
  <1>2. ASSUME NEW j \in DOMAIN gs', gs'[j].pc = "store"
        PROVE  LET ev == log'[gs'[j].pos]
                   h == host'[ev.key]
               IN  /\ h \in Hosts
                   /\ held'[j].to # held'[j].from
                   /\ held'[j].to = IF ev.put THEN add(held'[j].from, h)
                                    ELSE del(held'[j].from, h)
    <2>1. gs'[j] = gs[j] /\ held'[j] = held[j] /\ j \in DOMAIN gs
      BY <1>2
    <2> QED BY <1>2, <2>1 DEF CopyIsChange
  <1> QED BY <1>1, <1>2 DEF CopyIsChange

LEMMA WatchCounts ==
  ASSUME TypeInv, TypeInv', CountInv, NEW i \in DOMAIN gs, DWatch(i)
  PROVE  CountInv'
  <1>1. UNCHANGED <<log, observers, prefixes, registered, host, made, hosts, held, over, missed>>
    BY DEF DWatch, Watch, Receive, WatchEnds, listVars
  <1>2. /\ Dispatch' /\ DOMAIN gs' = DOMAIN gs /\ gs'[i].pc # "store"
        /\ \A j \in DOMAIN gs : j # i => gs'[j] = gs[j]
        /\ \A j \in DOMAIN gs : Yet(j)' = Yet(j)
    BY WatchKeeps DEF CountInv
  <1>3. \A k \in Keys : Pending(k)' <=> Pending(k)
    BY <1>1, <1>2, PendingOf
  <1>4. LogTellsRegistry'
    BY <1>1 DEF CountInv, LogTellsRegistry
  <1>5. CopyIsChange'
    BY <1>1, <1>2, CopiesStay DEF CountInv
  <1>6. CountsAreBounded' /\ OwnOnce' /\ OwnIsExact'
    BY <1>1, <1>3, QuietStep DEF CountInv
  <1> QED BY <1>2, <1>4, <1>5, <1>6 DEF CountInv

LEMMA OtherHandlesCounts ==
  ASSUME TypeInv, TypeInv', CountInv, NEW i \in DOMAIN gs, OtherHandles(i)
  PROVE  CountInv'
  <1>1. UNCHANGED <<log, observers, prefixes, registered, host, made, hosts, held, over, missed>>
    BY DEF OtherHandles, listVars
  <1>2. gs[i].pc = "dispatch" /\ observers[gs[i].at] # Disc /\ Goes(i)
    BY DEF OtherHandles, With
  <1>3. /\ Dispatch' /\ DOMAIN gs' = DOMAIN gs /\ gs'[i].pc # "store"
        /\ \A j \in DOMAIN gs : j # i => gs'[j] = gs[j]
        /\ \A j \in DOMAIN gs : Yet(j)' = Yet(j)
    BY <1>1, <1>2, PassesOn DEF CountInv
  <1>4. \A k \in Keys : Pending(k)' <=> Pending(k)
    BY <1>1, <1>3, PendingOf
  <1>5. LogTellsRegistry'
    BY <1>1 DEF CountInv, LogTellsRegistry
  <1>6. CopyIsChange'
    BY <1>1, <1>3, CopiesStay DEF CountInv
  <1>7. CountsAreBounded' /\ OwnOnce' /\ OwnIsExact'
    BY <1>1, <1>4, QuietStep DEF CountInv
  <1> QED BY <1>3, <1>5, <1>6, <1>7 DEF CountInv

\* An event that Handle ignores is of no endpoint, or counts as missed
\* (discovery.go:94-121).
LEMMA IgnoresCounts ==
  ASSUME TypeInv, TypeInv', CountInv, NEW i \in DOMAIN gs, HandleIgnores(i)
  PROVE  CountInv'
  <1> DEFINE ev == log[gs[i].pos]
  <1>1. /\ UNCHANGED <<log, observers, prefixes, registered, host, made, hosts, held, over>>
        /\ gs[i].pc = "dispatch" /\ observers[gs[i].at] = Disc /\ Goes(i)
        /\ \/ host[ev.key] = BadHost /\ UNCHANGED missed
           \/ missed' = missed \cup {ev.key}
    BY DEF HandleIgnores, listVars, With
  <1>2. /\ Dispatch' /\ DOMAIN gs' = DOMAIN gs /\ gs'[i].pc # "store"
        /\ \A j \in DOMAIN gs : j # i => gs'[j] = gs[j]
    BY <1>1, PassesOn DEF CountInv
  <1>3. \A k \in Keys : k # ev.key => (Pending(k)' <=> Pending(k))
    BY <1>1, HandledLast DEF CountInv
  <1>4. BadHost \notin Hosts
    BY DiscoveryAssumption
  <1>5. LogTellsRegistry'
    BY <1>1 DEF CountInv, LogTellsRegistry
  <1>6. CopyIsChange'
    BY <1>1, <1>2, CopiesStay DEF CountInv
  <1>7. CountsAreBounded' /\ OwnOnce' /\ OwnIsExact'
    <2> HIDE DEF ev
    <2>1. \A k \in Keys : host[k] \in Hosts =>
            /\ k \in registered \/ k \in missed \/ Pending(k)
                 => k \in registered' \/ k \in missed' \/ Pending(k)'
            /\ k \notin missed' /\ ~Pending(k)'
                 => k \notin missed /\ ~Pending(k) /\ (k \in registered' <=> k \in registered)
      BY <1>1, <1>3, <1>4
    <2> QED BY <1>1, <2>1, QuietStep DEF CountInv
  <1> QED BY <1>2, <1>5, <1>6, <1>7 DEF CountInv

\* add and del change the count of their endpoint by one, and of no other
\* (discovery.go:126-165).
LEMMA ChangeCounts ==
  ASSUME NEW list \in Seq(Hosts), NEW h \in Hosts, NEW put \in BOOLEAN
  PROVE  LET to == IF put THEN add(list, h) ELSE del(list, h)
             c == Times(h, list)
         IN  /\ c \in Nat
             /\ Times(h, to) = IF put THEN (IF c = 0 THEN 1 ELSE c)
                               ELSE (IF c = 0 THEN 0 ELSE c - 1)
             /\ \A x \in Hosts : x # h => Times(x, to) = Times(x, list)
  <1>1. Times(h, list) \in Nat
    BY TimesIsNumber
  <1>2. CASE put
    BY <1>1, <1>2, AddChanges
  <1>3. CASE ~put
    <2>1. \A x \in Hosts : Times(x, del(list, h)) =
            IF x = h /\ Times(h, list) > 0 THEN Times(x, list) - 1 ELSE Times(x, list)
      BY DelChanges
    <2> QED BY <1>1, <1>3, <2>1
  <1> QED BY <1>2, <1>3

\* A copy is made: of a list that is the current one (discovery.go:126-165).
LEMMA LoadCounts ==
  ASSUME TypeInv, TypeInv', CountInv, NEW i \in DOMAIN gs, HandleLoad(i)
  PROVE  CountInv'
  <1> DEFINE ev == log[gs[i].pos]
             h == host[ev.key]
  <1>1. /\ UNCHANGED <<log, observers, prefixes, registered, host, made, hosts, missed>>
        /\ gs[i].pc = "dispatch" /\ observers[gs[i].at] = Disc /\ h # BadHost
    BY DEF HandleLoad, With
  <1>2. /\ gs[i] \in Goroutine /\ gs[i].pos \in DOMAIN log /\ ev \in Event
        /\ h \in Hosts /\ i \in DOMAIN held
    BY <1>1, EventOf
  <1>3. ev.put \in BOOLEAN
    BY <1>2 DEF Event
  <1>4. gs \in Seq(Goroutine) /\ hosts \in Seq(Hosts) /\ held \in Seq(Held) /\ over \in SUBSET Hosts
        /\ observers \in Seq(Observers)
    BY DEF TypeInv, DTypeOK, WTypeOK
  <1>5. LogTellsRegistry'
    BY <1>1 DEF CountInv, LogTellsRegistry
  <1>6. CASE Changed(ev) = hosts
    <2>1. Goes(i) /\ over' = over \ Settled(h) /\ held' = held
      BY <1>6 DEF HandleLoad
    <2>2. /\ Dispatch' /\ DOMAIN gs' = DOMAIN gs /\ gs'[i].pc # "store"
          /\ \A j \in DOMAIN gs : j # i => gs'[j] = gs[j]
      BY <1>1, <2>1, PassesOn DEF CountInv
    <2>3. CopyIsChange'
      BY <1>1, <2>1, <2>2, CopiesStay DEF CountInv
    <2>4. \A x : Lists(x)' = Lists(x) /\ HostedBy(x)' = HostedBy(x)
      BY <1>1 DEF Lists, Times, HostedBy
    <2>5. OwnOnce'
      BY <1>1, <2>1, <2>4 DEF CountInv, OwnOnce, Times
    <2>6. PICK z \in Hosts : z = h
      BY <1>2
    <2>7. PICK c \in Nat : c = Lists(z)
      BY <1>4, TimesIsNumber DEF Lists
    <2>8. Settled(z) # {} => c <= 1
      BY <2>7, SettledIsOwn DEF CountInv, OwnOnce
    <2>9. Lists(z)' = IF ev.put THEN (IF c = 0 THEN 1 ELSE c) ELSE (IF c = 0 THEN 0 ELSE c - 1)
      <3>1. hosts = IF ev.put THEN add(hosts, z) ELSE del(hosts, z)
        BY <1>6, <2>6 DEF Changed
      <3> HIDE DEF ev, h
      <3>2. Lists(z) = IF ev.put THEN (IF c = 0 THEN 1 ELSE c) ELSE (IF c = 0 THEN 0 ELSE c - 1)
        BY <1>3, <1>4, <2>7, <3>1, ChangeCounts DEF Lists
      <3> QED BY <2>4, <3>2
    <2>10. over \subseteq over' \cup Settled(z)
      BY <2>1, <2>6
    <2>11. CountsAreBounded' /\ OwnIsExact'
      <3>1. z = host[log[gs[i].pos].key] /\ z = h
        BY <2>6
      <3>2. Lists(z)' = IF log[gs[i].pos].put THEN (IF c = 0 THEN 1 ELSE c)
                        ELSE (IF c = 0 THEN 0 ELSE c - 1)
        BY <2>9
      <3> HIDE DEF ev, h
      <3> QED BY <1>1, <2>1, <2>4, <2>7, <2>8, <2>10, <3>1, <3>2, HandledStep
    <2> QED BY <1>5, <2>2, <2>3, <2>5, <2>11 DEF CountInv
  <1>7. CASE Changed(ev) # hosts
    <2> DEFINE x == [gs[i] EXCEPT !.pc = "store"]
               y == [from |-> hosts, to |-> Changed(ev)]
    <2>1. gs' = [gs EXCEPT ![i] = x] /\ held' = [held EXCEPT ![i] = y] /\ over' = over
      BY <1>7 DEF HandleLoad
    <2>2. x \in Goroutine /\ x.pc = "store" /\ x.pos = gs[i].pos /\ x.at = gs[i].at
      BY <1>2 DEF Goroutine
    <2>3. /\ DOMAIN gs' = DOMAIN gs /\ Len(gs') = Len(gs) /\ gs'[i] = x
          /\ \A j \in DOMAIN gs : j # i => gs'[j] = gs[j]
      <3> HIDE DEF x
      <3> QED BY <1>4, <2>1, <2>2, Replaced
    <2>4. /\ DOMAIN held' = DOMAIN held /\ held'[i] = y
          /\ \A j \in DOMAIN held : j # i => held'[j] = held[j]
      <3> HIDE DEF y
      <3> QED BY <1>2, <1>4, <2>1
    <2> HIDE DEF x
    <2>5. Dispatch'
      <3>1. gs' # <<>> => gs # <<>>
        BY <1>4, <2>3
      <3>2. Attached(Disc)' = Attached(Disc)
        BY <1>1 DEF Attached
      <3>3. /\ gs[i].pos <= Len(log)
            /\ gs[i].at \in DOMAIN observers
            /\ HasPrefix(NameOf[log[gs[i].pos].key], prefixes[i])
        BY <1>1 DEF CountInv, Dispatch
      <3> QED BY <1>1, <2>2, <2>3, <3>1, <3>2, <3>3 DEF CountInv, Dispatch
    <2>6. Yet(i)' = Yet(i)
      <3>1. \A a \in 1..(gs[i].at - 1) : observers[a] # Disc
        <4>1. /\ gs[i].at \in DOMAIN observers
              /\ \A a, b \in DOMAIN observers : observers[a] = Disc /\ observers[b] = Disc => a = b
          BY <1>1 DEF CountInv, Dispatch
        <4>2. Len(observers) \in Nat /\ DOMAIN observers = 1..Len(observers)
          BY <1>4
        <4>3. \A a \in 1..(gs[i].at - 1) : a \in DOMAIN observers /\ a # gs[i].at
          BY <4>1, <4>2
        <4> QED BY <1>1, <4>1, <4>3
      <3>2. Current(i) = {gs[i].pos} /\ Current(i)' = {gs[i].pos}
        BY <1>1, <2>2, <2>3, <3>1 DEF Current
      <3>3. Unread(i)' = Unread(i)
        BY <1>1, <2>2, <2>3 DEF Unread
      <3> QED BY <1>1, <2>2, <2>3, <3>2, <3>3 DEF Yet
    <2>7. \A j \in DOMAIN gs : Yet(j)' = Yet(j)
      BY <1>1, <2>3, <2>6, YetOfOthers
    <2>8. \A k \in Keys : Pending(k)' <=> Pending(k)
      BY <1>1, <2>3, <2>7, PendingOf
    <2>9. CopyIsChange'
      <3>1. \A list, z : add(list, z)' = add(list, z) /\ del(list, z)' = del(list, z)
        BY DEF add, del, Times, Before
      <3>2. ASSUME NEW j \in DOMAIN gs', gs'[j].pc = "store"
            PROVE  LET e == log'[gs'[j].pos]
                       z == host'[e.key]
                   IN  /\ z \in Hosts
                       /\ held'[j].to # held'[j].from
                       /\ held'[j].to = IF e.put THEN add(held'[j].from, z)
                                        ELSE del(held'[j].from, z)
        <4>1. CASE j = i
          <5>1. log'[gs'[j].pos] = ev /\ host'[ev.key] = h
            BY <1>1, <2>2, <2>3, <4>1
          <5>2. held'[j].from = hosts /\ held'[j].to = Changed(ev)
            BY <2>4, <4>1
          <5>3. Changed(ev) = IF ev.put THEN add(hosts, h) ELSE del(hosts, h)
            BY DEF Changed
          <5> HIDE DEF ev, h
          <5> QED BY <1>2, <1>7, <5>1, <5>2, <5>3
        <4>2. CASE j # i
          <5>1. j \in DOMAIN gs /\ gs'[j] = gs[j] /\ j \in DOMAIN held /\ held'[j] = held[j]
            BY <2>3, <2>4, <3>2, <4>2 DEF TypeInv, DTypeOK
          <5> QED BY <1>1, <3>2, <5>1 DEF CountInv, CopyIsChange
        <4> QED BY <4>1, <4>2
      <3> QED BY <3>1, <3>2 DEF CopyIsChange
    <2>10. \A j \in DOMAIN held' : \/ held'[j].from \in {<<>>, hosts}
                                   \/ \E l \in DOMAIN held : held'[j].from = held[l].from
      BY <2>4
    <2>11. CountsAreBounded' /\ OwnOnce' /\ OwnIsExact'
      BY <1>1, <2>1, <2>8, <2>10, QuietStep DEF CountInv
    <2> QED BY <1>5, <2>5, <2>9, <2>11 DEF CountInv
  <1> QED BY <1>6, <1>7

\* The copy of goroutine i is stored: all it may undo of what others stored since
\* is written down (discovery.go:126-165).
LEMMA StoreCounts ==
  ASSUME TypeInv, TypeInv', CountInv, NEW i \in DOMAIN gs, HandleStore(i)
  PROVE  CountInv'
  <1> DEFINE ev == log[gs[i].pos]
  <1>1. /\ UNCHANGED <<log, observers, prefixes, registered, host, made, missed>>
        /\ gs[i].pc = "store" /\ Goes(i)
        /\ hosts' = held[i].to
        /\ held' = [held EXCEPT ![i] = Nothing]
    BY DEF HandleStore
  <1>2. /\ gs[i] \in Goroutine /\ gs[i].pos \in DOMAIN log /\ ev \in Event
        /\ i \in DOMAIN held /\ held[i] \in Held
    BY <1>1, EventOf
  <1>3. ev.put \in BOOLEAN
    BY <1>2 DEF Event
  <1>4. observers[gs[i].at] = Disc
    BY <1>1 DEF CountInv, Dispatch
  <1>5. PICK h \in Hosts : h = host[ev.key]
    BY <1>1 DEF CountInv, CopyIsChange
  <1>6. over' = (over \ Settled(h)) \cup Overwrites(i, h)
    BY <1>5 DEF HandleStore
  <1>7. PICK from \in Seq(Hosts) : from = held[i].from
    BY <1>2 DEF Held
  <1>8. hosts' = IF ev.put THEN add(from, h) ELSE del(from, h)
    BY <1>1, <1>5, <1>7 DEF CountInv, CopyIsChange
  <1> HIDE DEF ev
  <1>9. PICK c \in Nat : c = Times(h, from)
    BY <1>7, TimesIsNumber
  <1>10. /\ Lists(h)' = IF ev.put THEN (IF c = 0 THEN 1 ELSE c) ELSE (IF c = 0 THEN 0 ELSE c - 1)
         /\ \A x \in Hosts : x # h => Lists(x)' = Times(x, from)
    <2>1. \A x : Lists(x)' = Times(x, hosts')
      BY DEF Lists, Times
    <2> QED BY <1>3, <1>7, <1>8, <1>9, <2>1, ChangeCounts
  <1>11. \A x \in Hosts : Times(x, hosts) # Times(x, from) => x \in Overwrites(i, h) \/ x \in Settled(h)
    BY <1>7 DEF Overwrites
  <1>12. Settled(h) \subseteq {h}
    BY DEF Settled
  <1>13. /\ Dispatch' /\ DOMAIN gs' = DOMAIN gs /\ gs'[i].pc # "store"
         /\ \A j \in DOMAIN gs : j # i => gs'[j] = gs[j]
    BY <1>1, PassesOn DEF CountInv
  <1>14. /\ DOMAIN held' = DOMAIN held /\ held'[i] = Nothing
         /\ \A j \in DOMAIN held : j # i => held'[j] = held[j]
    <2> DEFINE y == Nothing
    <2>1. held' = [held EXCEPT ![i] = y]
      BY <1>1
    <2> HIDE DEF y
    <2>2. /\ DOMAIN held' = DOMAIN held /\ held'[i] = y
          /\ \A j \in DOMAIN held : j # i => held'[j] = held[j]
      BY <1>2, <2>1
    <2> QED BY <2>2 DEF y
  <1>15. LogTellsRegistry'
    BY <1>1 DEF CountInv, LogTellsRegistry
  <1>16. CopyIsChange'
    <2>1. \A j \in DOMAIN gs : gs'[j].pc = "store" => gs'[j] = gs[j] /\ held'[j] = held[j]
      BY <1>13, <1>14 DEF TypeInv, DTypeOK, WTypeOK
    <2> QED BY <1>1, <1>13, <2>1, CopiesStay DEF CountInv
  <1>17. \A x \in Hosts \ over' : x # h => Lists(x)' = Lists(x)
    <2> TAKE x \in Hosts \ over'
    <2>1. x # h => x \notin Overwrites(i, h) /\ x \notin Settled(h)
      BY <1>6, <1>12
    <2> QED BY <1>10, <1>11, <2>1 DEF Lists
  <1>18. Settled(h) = {} /\ h \notin over' => c = Lists(h)
    BY <1>6, <1>9, <1>11 DEF Lists
  <1>19. Settled(h) # {} => c <= 1
    BY <1>2, <1>7, <1>9, SettledIsOwn DEF CountInv, OwnOnce
  <1>20. over \subseteq over' \cup Settled(h)
    BY <1>6
  <1>21. CountsAreBounded' /\ OwnIsExact'
    <2>1. /\ Lists(h)' = IF log[gs[i].pos].put THEN (IF c = 0 THEN 1 ELSE c)
                         ELSE (IF c = 0 THEN 0 ELSE c - 1)
          /\ h = host[log[gs[i].pos].key]
      BY <1>5, <1>10 DEF ev
    <2> QED BY <1>1, <1>4, <1>17, <1>18, <1>19, <1>20, <2>1, HandledStep
  <1>22. OwnOnce'
    <2>1. \A x : HostedBy(x)' = HostedBy(x)
      BY <1>1 DEF HostedBy
    <2> SUFFICES ASSUME NEW x \in Hosts, NEW k \in Keys, HostedBy(x) = {k}
                 PROVE  Lists(x)' <= 1 /\ \A j \in DOMAIN held' : Times(x, held'[j].from) <= 1
      BY <2>1 DEF OwnOnce, Times
    <2>2. \A j \in DOMAIN held : Times(x, held[j].from) <= 1
      BY DEF CountInv, OwnOnce
    <2>3. Lists(x)' <= 1
      <3>1. CASE x = h
        BY <1>2, <1>3, <1>7, <1>9, <1>10, <2>2, <3>1
      <3>2. CASE x # h
        BY <1>2, <1>7, <1>10, <2>2, <3>2
      <3> QED BY <3>1, <3>2
    <2>4. Times(x, <<>>) = 0
      <3>1. <<>> \in Seq(Hosts) /\ DOMAIN <<>> = {}
        OBVIOUS
      <3> QED BY <3>1, TimesIsNumber
    <2>5. \A j \in DOMAIN held' : Times(x, held'[j].from) <= 1
      <3>1. Nothing.from = <<>>
        BY DEF Nothing
      <3> QED BY <1>14, <2>2, <2>4, <3>1
    <2> QED BY <2>3, <2>5
  <1> QED BY <1>13, <1>15, <1>16, <1>21, <1>22 DEF CountInv

\* Resolve moves neither the list nor an event.
LEMMA ResolveCounts ==
  ASSUME CountInv, UNCHANGED <<wvars, registered, host, made, hosts, held, over, missed>>
  PROVE  CountInv'
  <1>1. UNCHANGED <<log, observers, prefixes, gs>>
    BY DEF wvars
  <1>2. LogTellsRegistry' /\ Dispatch'
    BY <1>1 DEF CountInv, LogTellsRegistry, Dispatch, Attached
  <1>3. CopyIsChange'
    BY <1>1, CopiesStay DEF CountInv
  <1>4. \A k : Pending(k)' <=> Pending(k)
    BY <1>1 DEF Pending, Yet, Unread, Current
  <1>5. \A h : HostedBy(h)' = HostedBy(h) /\ Lists(h)' = Lists(h)
    BY DEF HostedBy, Lists, Times
  <1>6. \A h : Live(h)' = Live(h)
    BY <1>4, <1>5 DEF Live
  <1>7. CountsAreBounded' /\ OwnOnce' /\ OwnIsExact'
    BY <1>4, <1>5, <1>6 DEF CountInv, CountsAreBounded, OwnOnce, OwnIsExact, Times
  <1> QED BY <1>2, <1>7, <1>3 DEF CountInv

LEMMA CountInit == DInit => CountInv
  <1> SUFFICES ASSUME DInit PROVE CountInv
    OBVIOUS
  <1>1. /\ log = <<>> /\ observers = <<>> /\ gs = <<>> /\ hosts = <<>> /\ held = <<>> /\ made = FALSE
    BY DEF DInit, WInit
  <1>2. LogTellsRegistry /\ Dispatch /\ CopyIsChange /\ OwnIsExact
    BY <1>1 DEF LogTellsRegistry, Dispatch, CopyIsChange, OwnIsExact
  <1>3. \A h : Lists(h) = 0
    <2>1. hosts \in Seq(Hosts) /\ DOMAIN hosts = {}
      BY <1>1
    <2> QED BY <2>1, TimesIsNumber DEF Lists
  <1>4. CountsAreBounded
    BY <1>3, LiveKeys DEF CountsAreBounded
  <1>5. OwnOnce
    BY <1>1, <1>3 DEF OwnOnce
  <1> QED BY <1>2, <1>4, <1>5 DEF CountInv

LEMMA CountStep ==
  ASSUME TypeInv, CountInv, [DNext]_dvars
  PROVE  CountInv'
  <1>1. TypeInv'
    BY TypeStep
  <1>2. ASSUME NEW k \in Keys, NEW put \in BOOLEAN, Changes(k, put) PROVE CountInv'
    BY <1>1, <1>2, ChangesKeep
  <1>3. CASE NewDiscovery
    BY <1>1, <1>3, NewDiscoveryCounts
  <1>4. ASSUME NEW o \in Observers, DAttach(o) PROVE CountInv'
    BY <1>1, <1>4, AttachCounts
  <1>5. CASE DRun
    BY <1>1, <1>5, RunCounts
  <1>6. ASSUME NEW i \in DOMAIN gs, DWatch(i) PROVE CountInv'
    BY <1>1, <1>6, WatchCounts
  <1>7. ASSUME NEW i \in DOMAIN gs, Handle(i) PROVE CountInv'
    BY <1>1, <1>7, OtherHandlesCounts, LoadCounts, IgnoresCounts, StoreCounts DEF Handle
  <1>8. ASSUME NEW r \in Resolvers, Load(r) \/ Take(r) \/ TakePanics(r) PROVE CountInv'
    BY <1>8, ResolveCounts DEF Load, Take, TakePanics, listVars
  <1>9. CASE UNCHANGED dvars
    BY <1>9, ResolveCounts DEF dvars, listVars
  <1> QED BY <1>2, <1>3, <1>4, <1>5, <1>6, <1>7, <1>8, <1>9 DEF DNext

LEMMA CountsHold == DSpec => [](TypeInv /\ CountInv)
  <1>1. DInit => TypeInv /\ CountInv
    BY TypeInit, CountInit
  <1>2. TypeInv /\ CountInv /\ [DNext]_dvars => (TypeInv /\ CountInv)'
    BY TypeStep, CountStep
  <1> QED BY <1>1, <1>2, PTL DEF DSpec

\* When the goroutines have handled all there is, nothing is pending.
LEMMA DrainedIsDone ==
  ASSUME TypeInv, Drained
  PROVE  made /\ \A k : ~Pending(k)
  BY DEF TypeInv, Drained, Pending, Yet, Current

\* Whatever prefixes are watched, however events of a key reach several goroutines and
\* copies overwrite each other: an endpoint is listed no more often than keys are
\* registered with it, unless its events were missed or its change was overwritten
\* (discovery.go:45-55, 108-165).
THEOREM ListsWhatIsRegistered == DSpec => []ListedIsRegistered
  <1>1. TypeInv /\ CountInv => ListedIsRegistered
    <2> SUFFICES ASSUME TypeInv, CountInv, Drained, NEW h \in Hosts \ over
                 PROVE  Lists(h) <= Cardinality({k \in HostedBy(h) : k \in registered \/ k \in missed})
      BY DEF ListedIsRegistered
    <2>1. Live(h) = {k \in HostedBy(h) : k \in registered \/ k \in missed}
      BY DrainedIsDone DEF Live
    <2>2. Lists(h) <= Cardinality(Live(h))
      BY DEF CountInv, CountsAreBounded
    <2> QED BY <2>1, <2>2
  <1> QED BY <1>1, CountsHold, PTL

\* An endpoint that one key has to itself is listed exactly while the key is
\* registered, whatever interleaving of goroutines told of it (discovery.go:126-165
\* under watcher.go:107-122).
THEOREM OwnEndpointsAreExact == DSpec => []OwnEndpointIsExact
  <1>1. TypeInv /\ CountInv => OwnEndpointIsExact
    BY DrainedIsDone DEF OwnEndpointIsExact, CountInv, OwnIsExact
  <1> QED BY <1>1, CountsHold, PTL

-----------------------------------------------------------------------------
(* One goroutine for each key.                                             *)

\* No key is under two prefixes that are watched: so it is with NewDiscoveryWithWatch,
\* whose Watcher has one.
OnePrefixPerKey ==
  \A i, j \in DOMAIN prefixes : \A k \in Keys :
    HasPrefix(NameOf[k], prefixes[i]) /\ HasPrefix(NameOf[k], prefixes[j]) => i = j

\* Then a copy that is to be stored is one of the list as it is.
AloneInv ==
  /\ gs = <<>> => over = {}
  /\ OnePrefixPerKey =>
       over = {} /\ \A i \in DOMAIN gs : gs[i].pc = "store" => held[i].from = hosts

\* A prefix that covers the Discovery covers all its keys, so only the goroutine of that
\* prefix is ever with one of its events.
LEMMA OneHandles ==
  ASSUME TypeInv, CoverInv, Dispatch, OnePrefixPerKey, NEW i \in DOMAIN gs, NEW j \in DOMAIN gs,
         gs[i].pc \in {"dispatch", "store"}, gs[j].pc \in {"dispatch", "store"}
  PROVE  i = j
  <1>1. gs # <<>> /\ DOMAIN gs = DOMAIN prefixes
    BY DEF Dispatch, TypeInv, DTypeOK, WTypeOK
  <1>2. PICK a \in DOMAIN observers : observers[a] = Disc
    BY <1>1 DEF Dispatch, Attached
  <1>3. PICK c \in DOMAIN prefixes : HasPrefix(PrefixOf[Disc], prefixes[c])
    BY <1>2 DEF CoverInv, EveryObserverIsWatched
  <1>4. ASSUME NEW k \in Keys PROVE HasPrefix(NameOf[k], prefixes[c])
    <2>1. HasPrefix(NameOf[k], PrefixOf[Disc])
      BY DiscoveryAssumption
    <2>2. NameOf[k] \in Seq(Chars) /\ PrefixOf[Disc] \in Seq(Chars) /\ prefixes[c] \in Seq(Chars)
      BY WatcherAssumption, DiscoveryAssumption DEF CoverInv
    <2> QED BY <1>3, <2>1, <2>2, PrefixIsTransitive
  <1>5. ASSUME NEW b \in DOMAIN gs, gs[b].pc \in {"dispatch", "store"} PROVE b = c
    <2>1. PICK k \in Keys : k = log[gs[b].pos].key
      BY <1>5, EventOf
    <2>2. HasPrefix(NameOf[k], prefixes[b])
      BY <1>5, <2>1 DEF Dispatch
    <2> QED BY <1>1, <1>4, <2>2 DEF OnePrefixPerKey
  <1> QED BY <1>5

LEMMA AloneStays ==
  ASSUME AloneInv, UNCHANGED <<prefixes, hosts, over>>, DOMAIN gs' = DOMAIN gs,
         gs' = <<>> => gs = <<>>,
         \A j \in DOMAIN gs : gs'[j].pc = "store" => gs[j].pc = "store" /\ held'[j] = held[j]
  PROVE  AloneInv'
  BY DEF AloneInv, OnePrefixPerKey

LEMMA AloneStep ==
  ASSUME TypeInv, CoverInv, CountInv, AloneInv, [DNext]_dvars
  PROVE  AloneInv'
  <1>0. gs \in Seq(Goroutine) /\ held \in Seq(Held) /\ DOMAIN held = DOMAIN gs /\ Dispatch
    BY DEF TypeInv, DTypeOK, WTypeOK, CountInv
  <1>1. ASSUME NEW k \in Keys, NEW put \in BOOLEAN, Changes(k, put) PROVE AloneInv'
    BY <1>1, AloneStays DEF Changes, listVars
  <1>2. CASE NewDiscovery
    <2>1. gs = <<>> /\ UNCHANGED <<gs, over>>
      BY <1>2 DEF NewDiscovery, TypeInv, wvars
    <2>2. DOMAIN gs' = {}
      BY <2>1
    <2> QED BY <2>1, <2>2 DEF AloneInv
  <1>3. ASSUME NEW o \in Observers, DAttach(o) PROVE AloneInv'
    <2>1. gs = <<>> /\ UNCHANGED <<gs, over>>
      BY <1>3 DEF DAttach, Attach, listVars
    <2>2. DOMAIN gs' = {}
      BY <2>1
    <2> QED BY <2>1, <2>2 DEF AloneInv
  <1>4. CASE DRun
    <2>1. /\ gs = <<>> /\ UNCHANGED over
          /\ gs' = [i \in DOMAIN prefixes |-> [pc |-> "start", pos |-> 0, at |-> 0]]
      BY <1>4 DEF DRun, Run
    <2>2. \A i \in DOMAIN gs' : gs'[i].pc # "store"
      BY <2>1
    <2> QED BY <2>1, <2>2 DEF AloneInv
  <1>5. ASSUME NEW i \in DOMAIN gs, DWatch(i) PROVE AloneInv'
    <2>1. UNCHANGED <<prefixes, hosts, held, over>>
      BY <1>5 DEF DWatch, Watch, Receive, WatchEnds, listVars
    <2>2. /\ DOMAIN gs' = DOMAIN gs /\ gs'[i].pc # "store"
          /\ \A j \in DOMAIN gs : j # i => gs'[j] = gs[j]
      BY <1>0, <1>5, WatchKeeps
    <2>3. gs' # <<>>
      BY <2>2
    <2> QED BY <2>1, <2>2, <2>3, AloneStays
  <1>6. ASSUME NEW i \in DOMAIN gs, Handle(i) PROVE AloneInv'
    <2>1. UNCHANGED <<log, observers, prefixes>>
      BY <1>6 DEF Handle, OtherHandles, HandleLoad, HandleIgnores, HandleStore
    <2>2. gs[i].pc \in {"dispatch", "store"}
      BY <1>6 DEF Handle, OtherHandles, HandleLoad, HandleIgnores, HandleStore, With
    <2>3. Goes(i) => /\ DOMAIN gs' = DOMAIN gs /\ gs'[i].pc # "store" /\ gs' # <<>>
                     /\ \A j \in DOMAIN gs : j # i => gs'[j] = gs[j]
      <3> SUFFICES ASSUME Goes(i)
                   PROVE  /\ DOMAIN gs' = DOMAIN gs /\ gs'[i].pc # "store" /\ gs' # <<>>
                          /\ \A j \in DOMAIN gs : j # i => gs'[j] = gs[j]
        OBVIOUS
      <3>1. /\ DOMAIN gs' = DOMAIN gs /\ gs'[i].pc # "store"
            /\ \A j \in DOMAIN gs : j # i => gs'[j] = gs[j]
        BY <1>0, <2>1, <2>2, PassesOn
      <3>2. gs' # <<>>
        BY <3>1
      <3> QED BY <3>1, <3>2
    <2>4. CASE OtherHandles(i) \/ HandleIgnores(i)
      <3>1. UNCHANGED <<hosts, held, over>> /\ Goes(i)
        BY <2>4 DEF OtherHandles, HandleIgnores, listVars
      <3> QED BY <2>1, <2>3, <3>1, AloneStays
    <2>5. CASE HandleLoad(i)
      <3>1. CASE Goes(i) /\ UNCHANGED held
        <4>1. hosts' = hosts /\ over' \subseteq over
          BY <2>5 DEF HandleLoad
        <4> QED BY <2>1, <2>3, <3>1, <4>1 DEF AloneInv, OnePrefixPerKey
      <3>2. CASE /\ gs' = [gs EXCEPT ![i].pc = "store"]
                 /\ held' = [held EXCEPT ![i] = [from |-> hosts, to |-> Changed(log[gs[i].pos])]]
                 /\ UNCHANGED over
        <4>1. hosts' = hosts
          BY <2>5 DEF HandleLoad
        <4>2. /\ DOMAIN gs' = DOMAIN gs /\ gs' # <<>> /\ held'[i].from = hosts
              /\ \A j \in DOMAIN gs : j # i => gs'[j] = gs[j] /\ held'[j] = held[j]
          BY <1>0, <3>2
        <4> QED BY <2>1, <3>2, <4>1, <4>2 DEF AloneInv, OnePrefixPerKey
      <3> QED BY <2>5, <3>1, <3>2 DEF HandleLoad
    <2>6. CASE HandleStore(i)
      <3> DEFINE h == host[log[gs[i].pos].key]
      <3>1. /\ gs[i].pc = "store" /\ Goes(i)
            /\ over' = (over \ Settled(h)) \cup Overwrites(i, h)
        BY <2>6 DEF HandleStore
      <3>2. ASSUME OnePrefixPerKey
            PROVE  over' = {} /\ \A j \in DOMAIN gs : gs'[j].pc # "store"
        <4>1. over = {} /\ held[i].from = hosts
          BY <3>1, <3>2 DEF AloneInv
        <4>2. Overwrites(i, h) = {}
          BY <4>1 DEF Overwrites
        <4>3. ASSUME NEW j \in DOMAIN gs PROVE gs'[j].pc # "store"
          <5>1. CASE j = i
            BY <2>3, <3>1, <5>1
          <5>2. CASE j # i
            BY <1>0, <2>2, <2>3, <3>1, <3>2, <5>2, OneHandles
          <5> QED BY <5>1, <5>2
        <4> QED BY <3>1, <4>1, <4>2, <4>3
      <3>3. OnePrefixPerKey' => OnePrefixPerKey
        BY <2>1 DEF OnePrefixPerKey
      <3> QED BY <2>3, <3>1, <3>2, <3>3 DEF AloneInv
    <2> QED BY <1>6, <2>4, <2>5, <2>6 DEF Handle
  <1>7. ASSUME NEW r \in Resolvers, Load(r) \/ Take(r) \/ TakePanics(r) PROVE AloneInv'
    BY <1>7, AloneStays DEF Load, Take, TakePanics, listVars, wvars
  <1>8. CASE UNCHANGED dvars
    BY <1>8, AloneStays DEF dvars, listVars, wvars
  <1> QED BY <1>1, <1>2, <1>3, <1>4, <1>5, <1>6, <1>7, <1>8 DEF DNext

\* While no key is under two watched prefixes nothing is overwritten: an endpoint of one
\* key none of whose events was missed is listed exactly while the key is registered, with
\* no exception left (discovery.go:60-77, 126-165).
THEOREM OneWatchIsExact ==
  DSpec => [](OnePrefixPerKey /\ Drained =>
                /\ over = {}
                /\ \A h \in Hosts, k \in Keys :
                     HostedBy(h) = {k} /\ k \notin missed
                       => Lists(h) = IF k \in registered THEN 1 ELSE 0)
  <1>1. DInit => AloneInv
    BY DEF DInit, WInit, AloneInv
  <1>2. TypeInv /\ CoverInv /\ CountInv /\ AloneInv /\ [DNext]_dvars => AloneInv'
    BY AloneStep
  <1>3. OwnEndpointIsExact /\ AloneInv
        => (OnePrefixPerKey /\ Drained =>
              /\ over = {}
              /\ \A h \in Hosts, k \in Keys :
                   HostedBy(h) = {k} /\ k \notin missed
                     => Lists(h) = IF k \in registered THEN 1 ELSE 0)
    BY DEF OwnEndpointIsExact, AloneInv
  <1> QED BY <1>1, <1>2, <1>3, Covers, CountsHold, OwnEndpointsAreExact, PTL DEF DSpec
=================================================================================
