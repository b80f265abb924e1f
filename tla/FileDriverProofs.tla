---------------------------- MODULE FileDriverProofs ----------------------------
(***************************************************************************)
(* What holds of the file driver for any number of files, keys, timers and *)
(* changes.                                                                *)
(***************************************************************************)
EXTENDS FileDriver, TLAPS

\* The timer dedup holds, and the one path2timers has for a path, is a timer of
\* that path.
TimersOfTheirPaths ==
  /\ dd.pc \in {"reset", "set"} => owner[dd.timer] = dd.path
  /\ \A p \in Paths : timer[p] # NoTimer => owner[timer[p]] = p
  /\ \A t \in Timers : armed[t] => owner[t] \in Paths

\* Both goroutines run in an open driver that watches something, and end only
\* after quit; New reads every file before the watch and notices no change.
Lifecycle ==
  /\ quit => phase \in {"closed", "failed"}
  /\ phase = "open" /\ watched # {} => dd.pc # "off"
  /\ dd.pc = "done" => quit
  /\ phase = "new" => rf.pc = "off"
  /\ phase = "new" => \A p \in Paths \ unseen : read[p] # Bad => disk[p] \in {Bad, read[p]}

IInv == TypeOK /\ TimersOfTheirPaths /\ Lifecycle

-----------------------------------------------------------------------------
(* The operators the nodes are built from.                                 *)

\* Caching what a file has for a key makes the entry show just that.
LEMMA CachedEntryShows ==
  ASSUME NEW e \in Entry \cup {NoEntry}, NEW v \in Stored
  PROVE  /\ CachedEntry(e, v) \in Entry \cup {NoEntry}
         /\ Shown(CachedEntry(e, v)) = v
  <1>1. CASE v # Absent /\ e = NoEntry
    <2>1. CachedEntry(e, v) = Unhooked(v) /\ v \in Values
      BY <1>1 DEF CachedEntry, Stored
    <2>2. Unhooked(v) \in Entry
      BY <2>1 DEF Unhooked, Entry
    <2>3. Unhooked(v) # NoEntry
      BY <2>2, FileAssumption
    <2> QED BY <2>1, <2>2, <2>3 DEF Shown, Unhooked
  <1>2. CASE v # Absent /\ e # NoEntry /\ e.exists /\ e.value = v
    BY <1>2 DEF CachedEntry, Shown
  <1>3. CASE v # Absent /\ e # NoEntry /\ ~(e.exists /\ e.value = v)
    <2> DEFINE n == [e EXCEPT !.exists = TRUE, !.value = v, !.flag = @ \/ e.hooks > 0]
    <2>1. CachedEntry(e, v) = n
      BY <1>3 DEF CachedEntry
    <2>2. n \in Entry /\ n.exists /\ n.value = v
      BY <1>3 DEF Entry, Stored
    <2>3. n # NoEntry
      BY <2>2, FileAssumption
    <2> HIDE DEF n
    <2> QED BY <2>1, <2>2, <2>3 DEF Shown
  <1>4. CASE v = Absent /\ (e = NoEntry \/ e.hooks = 0)
    BY <1>4 DEF CachedEntry, Shown
  <1>5. CASE v = Absent /\ e # NoEntry /\ e.hooks # 0
    <2> DEFINE n == [e EXCEPT !.exists = FALSE, !.value = Empty]
    <2>1. CachedEntry(e, v) = n
      BY <1>5 DEF CachedEntry
    <2>2. n \in Entry /\ ~n.exists
      BY <1>5, FileAssumption DEF Entry
    <2> HIDE DEF n
    <2> QED BY <1>5, <2>1, <2>2 DEF Shown
  <1> QED BY <1>1, <1>2, <1>3, <1>4, <1>5

\* Hooks and flags of an entry are no part of what it shows.
LEMMA EntryUpdates ==
  ASSUME NEW e \in Entry
  PROVE  /\ [e EXCEPT !.flag = FALSE] \in Entry
         /\ Shown([e EXCEPT !.flag = FALSE]) = Shown(e)
         /\ [e EXCEPT !.hooks = @ + 1] \in Entry
         /\ Shown([e EXCEPT !.hooks = @ + 1]) = Shown(e)
  <1> DEFINE unflagged == [e EXCEPT !.flag = FALSE]
             hooked == [e EXCEPT !.hooks = @ + 1]
  <1>1. /\ unflagged \in Entry
        /\ unflagged.exists = e.exists /\ unflagged.value = e.value
    BY DEF Entry
  <1>2. /\ hooked \in Entry
        /\ hooked.exists = e.exists /\ hooked.value = e.value
    BY DEF Entry
  <1>3. e # NoEntry /\ unflagged # NoEntry /\ hooked # NoEntry
    BY <1>1, <1>2, FileAssumption
  <1> HIDE DEF unflagged, hooked
  <1>4. Shown(unflagged) = Shown(e) /\ Shown(hooked) = Shown(e)
    BY <1>1, <1>2, <1>3 DEF Shown
  <1> QED BY <1>1, <1>2, <1>4 DEF unflagged, hooked

\* What Unmarshal puts into a buffer is a content.
LEMMA UnmarshalType ==
  ASSUME NEW b \in Content, NEW c \in Content
  PROVE  Unmarshal(b, c) \in Content
  BY DEF Unmarshal, Content

\* Into an empty buffer it puts what the file has.
LEMMA UnmarshalFresh ==
  ASSUME NEW c \in Content
  PROVE  Unmarshal(Nothing, c) = c
  BY DEF Unmarshal, Nothing, Content

LEMMA NothingType == Nothing \in Content
  BY DEF Nothing, Content, Stored

LEMMA PlaceholderType == Placeholder \in Entry
  BY FileAssumption DEF Placeholder, Entry

\* CacheFrom returns entries.
LEMMA CacheFromType ==
  ASSUME TypeOK, NEW p \in Paths, NEW c \in Content
  PROVE  CacheFrom(p, c) \in [Keys -> Entry \cup {NoEntry}]
  <1>1. \A k \in Keys : entries[p][k] \in Entry \cup {NoEntry} /\ c[k] \in Stored
    BY DEF TypeOK, Content
  <1> QED BY <1>1, CachedEntryShows DEF CacheFrom

-----------------------------------------------------------------------------
(* Types.                                                                  *)

LEMMA InitInv == Init => IInv
  <1> SUFFICES ASSUME Init PROVE IInv
    OBVIOUS
  <1>0. Nothing \in Content /\ Nothing \in [Keys -> Stored] /\ 0 \in 0..MaxWrites
    BY NothingType, FileAssumption DEF Content
  <1>1. TypeOK
    BY <1>0 DEF Init, TypeOK
  <1>2. TimersOfTheirPaths
    BY DEF Init, TimersOfTheirPaths
  <1>3. Lifecycle
    BY DEF Init, Lifecycle
  <1> QED BY <1>1, <1>2, <1>3 DEF IInv

\* Types survive every step; in the steps that cache, because of what caching
\* returns.
LEMMA TypeStep == IInv /\ [Next]_vars => TypeOK'
  <1> SUFFICES ASSUME IInv, [Next]_vars PROVE TypeOK'
    OBVIOUS
  <1> USE DEF TypeOK, external, timers, reloads, history
  <1>0. TypeOK /\ TimersOfTheirPaths
    BY DEF IInv
  <1>1. ASSUME NEW p \in Paths, NEW c \in Content \cup {Bad}, Write(p, c) PROVE TypeOK'
    BY <1>0, <1>1, FileAssumption DEF Write
  <1>2. ASSUME NEW p \in Paths, Remove(p) PROVE TypeOK'
    BY <1>0, <1>2, FileAssumption DEF Remove
  <1>3. ASSUME NEW p \in Paths, LoadFirst(p) PROVE TypeOK'
    <2>1. disk[p] \in Content /\ Unmarshal(buf, disk[p]) \in Content /\ Nothing \in Content
      BY <1>0, <1>3, UnmarshalType, NothingType DEF LoadFirst
    <2>2. CacheFrom(p, Unmarshal(buf, disk[p])) \in [Keys -> Entry \cup {NoEntry}]
      BY <1>0, <2>1, CacheFromType
    <2> QED BY <1>0, <1>3, <2>1, <2>2 DEF LoadFirst
  <1>4. ASSUME NEW p \in Paths, LoadFirstFails(p) PROVE TypeOK'
    BY <1>0, <1>4 DEF LoadFirstFails
  <1>5. CASE Watch \/ WatchFails
    BY <1>0, <1>5 DEF Watch, WatchFails
  <1>6. ASSUME NEW p \in Paths, NEW k \in Keys, OnKeyChange(p, k) PROVE TypeOK'
    <2> DEFINE e == IF entries[p][k] = NoEntry THEN Placeholder ELSE entries[p][k]
               n == [e EXCEPT !.hooks = @ + 1]
    <2>1. e \in Entry
      BY <1>0, PlaceholderType
    <2>2. n \in Entry
      BY <2>1, EntryUpdates
    <2>3. Shown(e) \in Stored
      BY <2>1 DEF Shown, Entry, Stored
    <2>4. entries' = [entries EXCEPT ![p][k] = n]
          /\ known' = IF e.hooks = 0 THEN [known EXCEPT ![p][k] = Shown(e)] ELSE known
      BY <1>6 DEF OnKeyChange
    <2> HIDE DEF e, n
    <2>5. entries' \in [Paths -> [Keys -> Entry \cup {NoEntry}]] /\ known' \in [Paths -> [Keys -> Stored]]
      BY <1>0, <2>2, <2>3, <2>4
    <2> QED BY <1>0, <1>6, <2>5 DEF OnKeyChange
  <1>7. CASE Close
    BY <1>0, <1>7 DEF Close
  <1>8. ASSUME NEW p \in Paths, Receive(p) PROVE TypeOK'
    <2>1. /\ events' \in [Paths -> Nat]
          /\ UNCHANGED timers
      BY <1>0, <1>8 DEF Receive
    <2>2. /\ dd' = [pc |-> "get", path |-> p, timer |-> NoTimer] \/ dd' = Selecting
          /\ UNCHANGED <<external, watched, phase, entries, quit, reloads, rf, buf, history>>
      BY <1>8 DEF Receive, Dedup, Selecting
    <2> QED BY <1>0, <2>1, <2>2 DEF Selecting
  <1>9. CASE GetTimer \/ SetTimer \/ Reset \/ DedupEnds
    <2>1. CASE GetTimer
      BY <1>0, <2>1 DEF GetTimer, Dedup
    <2>2. CASE SetTimer
      BY <1>0, <2>2 DEF SetTimer, Dedup, Selecting
    <2>3. CASE Reset
      BY <1>0, <2>3 DEF Reset, Dedup, Selecting
    <2>4. CASE DedupEnds
      BY <1>0, <2>4 DEF DedupEnds, Dedup, Selecting
    <2> QED BY <1>9, <2>1, <2>2, <2>3, <2>4
  <1>10. ASSUME NEW t \in Timers, AfterFunc(t) PROVE TypeOK'
    BY <1>0, <1>10 DEF AfterFunc, Dedup
  <1>11. ASSUME NEW t \in Timers, Expire(t) PROVE TypeOK'
    BY <1>0, <1>11 DEF Expire, TimersOfTheirPaths
  <1>12. ASSUME NEW p \in Paths, DeleteTimer(p) \/ GiveUp(p) PROVE TypeOK'
    <2>1. CASE DeleteTimer(p)
      BY <1>0, <2>1 DEF DeleteTimer
    <2>2. CASE GiveUp(p)
      BY <1>0, <2>2 DEF GiveUp
    <2> QED BY <1>12, <2>1, <2>2
  <1>13. ASSUME NEW p \in Paths, Take(p) PROVE TypeOK'
    BY <1>0, <1>13 DEF Take, Refreshing
  <1>14. CASE LoadFails
    BY <1>0, <1>14, NothingType DEF LoadFails, Refreshing, Refreshed
  <1>15. CASE Load
    <2>1. disk[rf.path] \in Content /\ Unmarshal(buf, disk[rf.path]) \in Content
      BY <1>0, <1>15, UnmarshalType DEF Load, Refreshing
    <2> QED BY <1>0, <1>15, <2>1 DEF Load, Refreshing
  <1>16. CASE Cache
    <2>1. CacheFrom(rf.path, buf) \in [Keys -> Entry \cup {NoEntry}]
      BY <1>0, <1>16, CacheFromType DEF Cache, Refreshing
    <2> QED BY <1>0, <1>16, <2>1 DEF Cache, Refreshing
  <1>17. CASE Hook
    <2> DEFINE p == rf.path
    <2>1. p \in Paths /\ buf \in [Keys -> Stored]
      BY <1>0, <1>17 DEF Hook, Refreshing, Content
    <2>2. ASSUME NEW k \in Keys, Executes(p, k, buf)
          PROVE  [entries[p][k] EXCEPT !.flag = FALSE] \in Entry
      <3>1. entries[p][k] \in Entry
        BY <1>0, <2>1, <2>2 DEF Executes
      <3> QED BY <3>1, EntryUpdates
    <2>3. entries' \in [Paths -> [Keys -> Entry \cup {NoEntry}]] /\ known' \in [Paths -> [Keys -> Stored]]
      BY <1>0, <1>17, <2>1, <2>2 DEF Hook, ExecuteHook
    <2> QED BY <1>0, <1>17, <2>3, NothingType DEF Hook, Refreshing, Refreshed
  <1>18. CASE RefreshEnds
    BY <1>0, <1>18 DEF RefreshEnds, Refreshing, Refreshed
  <1>19. CASE UNCHANGED vars
    BY <1>0, <1>19 DEF vars
  <1> QED BY <1>1, <1>2, <1>3, <1>4, <1>5, <1>6, <1>7, <1>8, <1>9, <1>10, <1>11, <1>12, <1>13, <1>14,
             <1>15, <1>16, <1>17, <1>18, <1>19 DEF Next, DedupStep, RefreshStep

\* A timer is given to another path only when nothing refers to it.
LEMMA TimerStep == IInv /\ [Next]_vars => TimersOfTheirPaths'
  <1> SUFFICES ASSUME IInv, [Next]_vars PROVE TimersOfTheirPaths'
    OBVIOUS
  <1> USE DEF IInv, TimersOfTheirPaths, timers
  <1>1. CASE UNCHANGED <<dd, timers>>
    BY <1>1
  <1>2. ASSUME NEW p \in Paths, Receive(p) PROVE TimersOfTheirPaths'
    BY <1>2 DEF Receive, Dedup, Selecting
  <1>3. CASE GetTimer
    BY <1>3 DEF GetTimer, Dedup, TypeOK
  <1>4. ASSUME NEW t \in Timers, AfterFunc(t) PROVE TimersOfTheirPaths'
    <2>1. /\ owner' = [owner EXCEPT ![t] = dd.path] /\ armed' = [armed EXCEPT ![t] = TRUE]
          /\ timer' = timer /\ dd' = [dd EXCEPT !.pc = "set", !.timer = t]
          /\ dd.path \in Paths
      BY <1>4 DEF AfterFunc, Dedup, TypeOK
    <2>2. dd'.timer = t /\ dd'.path = dd.path
      BY <2>1 DEF TypeOK
    <2>3. \A p \in Paths : timer[p] # NoTimer => timer[p] \in Timers /\ timer[p] # t
      BY <1>4 DEF AfterFunc, Unreachable, TypeOK
    <2>4. owner'[t] = dd.path /\ \A u \in Timers \ {t} : owner'[u] = owner[u] /\ armed'[u] = armed[u]
      BY <2>1 DEF TypeOK
    <2> QED BY <2>1, <2>2, <2>3, <2>4
  <1>5. CASE SetTimer
    <2>1. /\ timer' = [timer EXCEPT ![dd.path] = dd.timer] /\ UNCHANGED <<owner, armed>>
          /\ dd' = Selecting /\ owner[dd.timer] = dd.path
      BY <1>5 DEF SetTimer, Dedup
    <2> QED BY <2>1 DEF Selecting, TypeOK
  <1>6. CASE Reset
    <2>1. /\ armed' = [armed EXCEPT ![dd.timer] = TRUE] /\ UNCHANGED <<owner, timer>>
          /\ dd' = Selecting /\ owner[dd.timer] = dd.path /\ dd.path \in Paths
      BY <1>6 DEF Reset, Dedup, TypeOK
    <2> QED BY <2>1 DEF Selecting, TypeOK
  <1>7. CASE DedupEnds
    BY <1>7 DEF DedupEnds, Dedup, Selecting
  <1>8. ASSUME NEW t \in Timers, Expire(t) PROVE TimersOfTheirPaths'
    BY <1>8 DEF Expire, TypeOK
  <1>9. ASSUME NEW p \in Paths, DeleteTimer(p) PROVE TimersOfTheirPaths'
    BY <1>9 DEF DeleteTimer, TypeOK
  <1>10. CASE Watch
    <2>1. UNCHANGED timers /\ (dd' = dd \/ dd' = [dd EXCEPT !.pc = "select"])
      BY <1>10 DEF Watch
    <2> QED BY <2>1 DEF TypeOK
  <1> QED BY <1>1, <1>2, <1>3, <1>4, <1>5, <1>6, <1>7, <1>8, <1>9, <1>10
          DEF Next, DedupStep, RefreshStep, Write, Remove, LoadFirst, LoadFirstFails, WatchFails,
              OnKeyChange, Close, GiveUp, Take, LoadFails, Load, Cache, Hook, RefreshEnds, Refreshing,
              vars

LEMMA LifecycleStep == IInv /\ [Next]_vars => Lifecycle'
  <1> SUFFICES ASSUME IInv, [Next]_vars PROVE Lifecycle'
    OBVIOUS
  <1> USE DEF IInv, Lifecycle
  <1>1. CASE UNCHANGED <<quit, phase, watched, dd, rf, unseen, read, disk>>
    BY <1>1
  <1>2. ASSUME NEW p \in Paths, NEW c \in Content \cup {Bad}, Write(p, c) PROVE Lifecycle'
    BY <1>2 DEF Write, TypeOK, history
  <1>3. ASSUME NEW p \in Paths, Remove(p) PROVE Lifecycle'
    BY <1>3 DEF Remove, TypeOK, history
  <1>4. ASSUME NEW p \in Paths, LoadFirst(p) PROVE Lifecycle'
    BY <1>4 DEF LoadFirst, TypeOK, external
  <1>5. CASE (\E p \in Paths : LoadFirstFails(p)) \/ Watch \/ WatchFails \/ Close
    BY <1>5 DEF LoadFirstFails, Watch, WatchFails, Loaded, Close, TypeOK, external, history
  <1>6. CASE DedupStep
    <2>1. /\ UNCHANGED <<quit, phase, watched, rf, unseen, read, disk>>
          /\ dd.pc # "off"
      BY <1>6 DEF DedupStep, Receive, GetTimer, AfterFunc, SetTimer, Reset, DedupEnds, Dedup,
                  external, history
    <2>2. dd'.pc # "off" /\ (dd'.pc = "done" => quit)
      <3>1. ASSUME NEW p \in Paths, Receive(p) PROVE dd'.pc \in {"get", "select"}
        BY <3>1 DEF Receive, Dedup, Selecting
      <3>2. CASE GetTimer
        BY <3>2 DEF GetTimer, Dedup, TypeOK
      <3>3. ASSUME NEW t \in Timers, AfterFunc(t) PROVE dd'.pc = "set"
        BY <3>3 DEF AfterFunc, Dedup, TypeOK
      <3>4. CASE SetTimer \/ Reset \/ DedupEnds
        BY <3>4 DEF SetTimer, Reset, DedupEnds, Dedup, Selecting
      <3> QED BY <1>6, <3>1, <3>2, <3>3, <3>4 DEF DedupStep
    <2> QED BY <2>1, <2>2
  <1>7. CASE RefreshStep
    BY <1>7 DEF RefreshStep, Take, LoadFails, Load, Cache, Hook, RefreshEnds, Refreshing
  <1> QED BY <1>1, <1>2, <1>3, <1>4, <1>5, <1>6, <1>7
          DEF Next, OnKeyChange, Expire, DeleteTimer, GiveUp, external, history, vars

THEOREM Invariance == Spec => []IInv
  <1> QED BY InitInv, TypeStep, TimerStep, LifecycleStep, PTL DEF Spec, IInv

\* The state of the file driver is what file.go and file_node.go declare.
THEOREM TypeCorrect == Spec => []TypeOK
  <1> QED BY Invariance, PTL DEF IInv

-----------------------------------------------------------------------------
(* No reload is lost.                                                      *)

Wanted(p) == p \in watched \ unseen /\ disk[p] \notin {Bad, read[p]}

\* A reload on its way stays on its way until the file is read.
LEMMA InFlightStep ==
  ASSUME IInv, IInv', phase = "open", phase' = "open", NEW p \in watched, InFlight(p), [Next]_vars
  PROVE  InFlight(p)' \/ disk'[p] \in {Bad, read'[p]}
  <1> USE DEF IInv, InFlight
  <1>0. ~quit /\ p \in Paths
    BY DEF Lifecycle, TypeOK
  <1>1. CASE UNCHANGED <<events, dd, armed, owner, expired, sending, rf>>
    BY <1>1
  <1>2. ASSUME NEW q \in Paths, NEW c \in Content \cup {Bad}, Write(q, c) PROVE InFlight(p)'
    BY <1>2 DEF Write, TypeOK, timers, reloads
  <1>3. ASSUME NEW q \in Paths, Receive(q) PROVE InFlight(p)'
    <2>1. /\ events' = [events EXCEPT ![q] = @ - 1] /\ dd.pc = "select"
          /\ UNCHANGED <<armed, owner, expired, sending, rf>>
      BY <1>3 DEF Receive, Dedup, timers, reloads
    <2>2. CASE q = p
      BY <1>3, <2>2 DEF Receive, Dedup, Selecting
    <2>3. CASE q # p
      BY <2>1, <2>3 DEF TypeOK
    <2> QED BY <2>2, <2>3
  <1>4. CASE GetTimer
    <2>1. dd'.pc = "reset" /\ dd'.path = dd.path
      BY <1>4 DEF GetTimer, Dedup, TypeOK
    <2> QED BY <1>4, <2>1 DEF GetTimer, Dedup, timers, reloads
  <1>5. ASSUME NEW t \in Timers, AfterFunc(t) PROVE InFlight(p)'
    <2>1. /\ armed' = [armed EXCEPT ![t] = TRUE] /\ owner' = [owner EXCEPT ![t] = dd.path]
          /\ ~armed[t] /\ dd.pc = "get" /\ UNCHANGED <<events, expired, sending, rf>>
      BY <1>5 DEF AfterFunc, Unreachable, Dedup, timers, reloads
    <2>2. \A u \in Timers : armed[u] => armed'[u] /\ owner'[u] = owner[u]
      BY <2>1 DEF TypeOK
    <2>3. armed'[t] /\ owner'[t] = dd.path
      BY <2>1 DEF TypeOK
    <2> QED BY <2>1, <2>2, <2>3
  <1>6. CASE SetTimer
    BY <1>6 DEF SetTimer, Dedup, reloads
  <1>7. CASE Reset
    <2>1. /\ armed' = [armed EXCEPT ![dd.timer] = TRUE] /\ dd.pc = "reset"
          /\ owner[dd.timer] = dd.path /\ dd.timer \in Timers
          /\ UNCHANGED <<events, owner, expired, sending, rf>>
      BY <1>7 DEF Reset, Dedup, reloads, TimersOfTheirPaths, TypeOK
    <2> QED BY <2>1 DEF TypeOK
  <1>8. ASSUME NEW t \in Timers, Expire(t) PROVE InFlight(p)'
    <2>1. /\ armed' = [armed EXCEPT ![t] = FALSE] /\ expired' = [expired EXCEPT ![owner[t]] = @ + 1]
          /\ owner[t] \in Paths /\ UNCHANGED <<events, dd, owner, sending, rf>>
      BY <1>8 DEF Expire, TimersOfTheirPaths
    <2> QED BY <2>1 DEF TypeOK
  <1>9. ASSUME NEW q \in Paths, DeleteTimer(q) PROVE InFlight(p)'
    BY <1>9 DEF DeleteTimer, TypeOK
  <1>10. ASSUME NEW q \in Paths, Take(q) PROVE InFlight(p)'
    BY <1>10 DEF Take, Refreshing, timers, TypeOK
  <1>11. CASE LoadFails \/ Load
    <2>1. UNCHANGED <<events, dd, armed, owner, expired, sending, disk>>
      BY <1>11 DEF LoadFails, Load, Refreshing, timers, external
    <2>2. rf.path = p => disk[p] \in {Bad, read'[p]}
      BY <1>11 DEF LoadFails, Load, TypeOK
    <2> QED BY <2>1, <2>2
  <1>12. CASE Cache \/ Hook
    <2>1. UNCHANGED <<events, dd, armed, owner, expired, sending>> /\ rf.pc # "load"
      BY <1>12 DEF Cache, Hook, Refreshing, timers
    <2> QED BY <2>1
  <1> QED BY <1>0, <1>1, <1>2, <1>3, <1>4, <1>5, <1>6, <1>7, <1>8, <1>9, <1>10, <1>11, <1>12
          DEF Next, DedupStep, RefreshStep, Remove, LoadFirst, LoadFirstFails, Watch, WatchFails,
              Loaded, OnKeyChange, Close, DedupEnds, GiveUp, RefreshEnds, vars, timers, reloads

\* Only a change of its file, which is an event, makes a reload wanted.
LEMMA WantedStep ==
  ASSUME IInv, phase = "open", NEW p \in watched, ~Wanted(p), Wanted(p)', [Next]_vars
  PROVE  InFlight(p)'
  <1>0. dd.pc # "off" /\ p \in Paths /\ watched' = watched
    BY DEF IInv, Lifecycle, TypeOK, Next, DedupStep, RefreshStep, Write, Remove, LoadFirst,
           LoadFirstFails, Watch, WatchFails, OnKeyChange, Close, Receive, GetTimer, AfterFunc, SetTimer,
           Reset, DedupEnds, Dedup, Expire, DeleteTimer, GiveUp, Take, LoadFails, Load, Cache, Hook,
           RefreshEnds, Refreshing, vars
  <1>1. CASE UNCHANGED <<disk, read, unseen>>
    BY <1>0, <1>1 DEF Wanted
  <1>2. ASSUME NEW q \in Paths, NEW c \in Content \cup {Bad}, Write(q, c) PROVE InFlight(p)'
    <2>1. CASE q = p
      BY <1>0, <1>2, <2>1 DEF Write, InFlight, IInv, TypeOK
    <2>2. CASE q # p
      BY <1>0, <1>2, <2>2 DEF Write, Wanted, IInv, TypeOK
    <2> QED BY <2>1, <2>2
  <1>3. ASSUME NEW q \in Paths, Remove(q) PROVE FALSE
    BY <1>0, <1>3 DEF Remove, Wanted, history, IInv, TypeOK
  <1>4. CASE LoadFails \/ Load
    <2>1. UNCHANGED disk /\ rf.path \in Paths /\ unseen' = unseen \ {rf.path}
      BY <1>4 DEF LoadFails, Load, Refreshing, external, IInv, TypeOK
    <2>2. disk[rf.path] \in {Bad, read'[rf.path]} /\ \A q \in Paths \ {rf.path} : read'[q] = read[q]
      BY <1>4, <2>1 DEF LoadFails, Load, IInv, TypeOK
    <2> QED BY <1>0, <2>1, <2>2 DEF Wanted
  <1> QED BY <1>1, <1>2, <1>3, <1>4
          DEF Next, DedupStep, RefreshStep, LoadFirst, LoadFirstFails, Watch, WatchFails, Loaded,
              OnKeyChange, Close, Receive, GetTimer, AfterFunc, SetTimer, Reset, DedupEnds, Dedup,
              Expire, DeleteTimer, GiveUp, Take, Cache, Hook, RefreshEnds, Refreshing, vars,
              external, history

\* However timers, expiries and goroutines interleave, a change of a watched file
\* is read in the end or still on its way (file.go:212-298).
THEOREM LosesNoReload == Spec => []NoLostReload
  <1>1. Init => NoLostReload
    BY DEF Init, NoLostReload
  <1>2. IInv /\ IInv' /\ NoLostReload /\ [Next]_vars => NoLostReload'
    <2> SUFFICES ASSUME IInv, IInv', NoLostReload, [Next]_vars, phase' = "open",
                        NEW p \in watched', Wanted(p)'
                 PROVE  InFlight(p)'
      BY DEF NoLostReload, Wanted
    <2>1. CASE phase = "open"
      <3>1. p \in watched
        BY <2>1 DEF Next, DedupStep, RefreshStep, Write, Remove, LoadFirst,
               LoadFirstFails, Watch, WatchFails, OnKeyChange, Close, Receive, GetTimer, AfterFunc,
               SetTimer, Reset, DedupEnds, Dedup, Expire, DeleteTimer, GiveUp, Take, LoadFails, Load,
               Cache, Hook, RefreshEnds, Refreshing, vars
      <3>2. CASE Wanted(p)
        <4>1. InFlight(p)
          BY <2>1, <3>1, <3>2 DEF NoLostReload, Wanted
        <4> QED BY <2>1, <3>1, <4>1, InFlightStep DEF Wanted
      <3>3. CASE ~Wanted(p)
        BY <2>1, <3>1, <3>3, WantedStep
      <3> QED BY <3>2, <3>3
    <2>2. CASE phase # "open"
      <3>1. Watch
        BY <2>2 DEF Next, DedupStep, RefreshStep, Write, Remove, LoadFirst,
               LoadFirstFails, WatchFails, OnKeyChange, Close, Receive, GetTimer, AfterFunc,
               SetTimer, Reset, DedupEnds, Dedup, Expire, DeleteTimer, GiveUp, Take, LoadFails, Load,
               Cache, Hook, RefreshEnds, Refreshing, vars
      <3>2. phase = "new" /\ UNCHANGED <<disk, read, unseen, watched>> /\ \A q \in Paths : read[q] # Bad
        BY <3>1 DEF Watch, Loaded, external, history
      <3> QED BY <3>2 DEF IInv, Lifecycle, TypeOK, Wanted
    <2> QED BY <2>1, <2>2
  <1> QED BY <1>1, <1>2, Invariance, PTL DEF Spec

-----------------------------------------------------------------------------
(* The cache, its buffer and the hooks.                                    *)

\* Between two reloads the shared buffer is empty; during one it holds the file
\* being reloaded, so that is what gets cached and told.
BufferIsLastGood ==
  /\ rf.pc \in {"cache", "hook"} => buf = good[rf.path]
  /\ rf.pc \notin {"cache", "hook"} => buf = Nothing

\* A flag is set on an entry that exists and has hooks, and New sets none.
FlagsMakeSense ==
  \A p \in Paths, k \in Keys :
    LET e == entries[p][k] IN
    e # NoEntry => /\ e.flag => e.exists /\ e.hooks > 0
                   /\ phase = "new" => e.hooks = 0

NodeInv == BufferIsLastGood /\ CacheIsLastGood /\ FlagsMakeSense /\ HooksFollowCache

\* What caching does to the hooks of a key: a new value flags it, and nothing
\* else does.
LEMMA CachedEntryFlags ==
  ASSUME NEW e \in Entry \cup {NoEntry}, NEW v \in Stored, e # NoEntry => ~e.flag,
         CachedEntry(e, v) # NoEntry
  PROVE  LET n == CachedEntry(e, v) IN
         /\ n.flag => n.exists /\ n.hooks > 0
         /\ e = NoEntry => n.hooks = 0 /\ ~n.flag
         /\ e # NoEntry => n.hooks = e.hooks
         /\ n.hooks > 0 /\ n.exists /\ ~n.flag => e # NoEntry /\ e.exists /\ n.value = e.value
  <1>1. CASE e = NoEntry
    <2>1. v # Absent /\ CachedEntry(e, v) = Unhooked(v)
      BY <1>1 DEF CachedEntry
    <2> QED BY <1>1, <2>1 DEF Unhooked
  <1>2. CASE v # Absent /\ e # NoEntry /\ e.exists /\ e.value = v
    BY <1>2 DEF CachedEntry
  <1>3. CASE v # Absent /\ e # NoEntry /\ ~(e.exists /\ e.value = v)
    <2> DEFINE n == [e EXCEPT !.exists = TRUE, !.value = v, !.flag = @ \/ e.hooks > 0]
    <2>1. CachedEntry(e, v) = n
      BY <1>3 DEF CachedEntry
    <2>2. n.exists /\ n.hooks = e.hooks /\ (n.flag <=> e.hooks > 0)
      BY <1>3 DEF Entry
    <2> HIDE DEF n
    <2> QED BY <1>3, <2>1, <2>2
  <1>4. CASE v = Absent /\ e # NoEntry
    <2> DEFINE n == [e EXCEPT !.exists = FALSE, !.value = Empty]
    <2>1. CachedEntry(e, v) = n
      BY <1>4 DEF CachedEntry
    <2>2. ~n.exists /\ n.hooks = e.hooks /\ ~n.flag
      BY <1>4 DEF Entry
    <2> HIDE DEF n
    <2> QED BY <1>4, <2>1, <2>2
  <1> QED BY <1>1, <1>2, <1>3, <1>4

LEMMA CacheStep ==
  ASSUME IInv, NodeInv, Cache
  PROVE  NodeInv'
  <1> DEFINE p == rf.path
  <1>1. /\ p \in Paths /\ rf.pc = "cache" /\ rf' = [rf EXCEPT !.pc = "hook"]
        /\ entries' = [entries EXCEPT ![p] = CacheFrom(p, buf)]
        /\ UNCHANGED <<buf, good, known, phase>>
        /\ buf = good[p] /\ buf \in Content
    BY DEF Cache, Refreshing, history, IInv, TypeOK, NodeInv, BufferIsLastGood
  <1>2. rf'.pc = "hook" /\ rf'.path = p
    BY <1>1 DEF IInv, TypeOK
  <1>3. \A q \in Paths \ {p} : entries'[q] = entries[q]
    BY <1>1 DEF IInv, TypeOK
  <1>4. ASSUME NEW k \in Keys
        PROVE  /\ entries'[p][k] = CachedEntry(entries[p][k], buf[k])
               /\ entries[p][k] \in Entry \cup {NoEntry} /\ buf[k] \in Stored
               /\ entries[p][k] # NoEntry => ~entries[p][k].flag
    BY <1>1 DEF CacheFrom, IInv, TypeOK, Content, NodeInv, HooksFollowCache
  <1> HIDE DEF p
  <1>5. BufferIsLastGood'
    BY <1>1, <1>2 DEF BufferIsLastGood
  <1>6. CacheIsLastGood'
    BY <1>1, <1>2, <1>3, <1>4, CachedEntryShows DEF CacheIsLastGood, NodeInv
  <1>7. ASSUME NEW q \in Paths, NEW k \in Keys, entries'[q][k] # NoEntry
        PROVE  LET e == entries'[q][k] IN
               /\ e.flag => e.exists /\ e.hooks > 0
               /\ phase' = "new" => e.hooks = 0
               /\ e.flag => rf'.pc = "hook" /\ rf'.path = q
               /\ e.hooks > 0 /\ e.exists /\ ~e.flag => known'[q][k] = e.value
    <2>1. CASE q # p
      <3>1. entries[q][k] # NoEntry /\ ~entries[q][k].flag
        BY <1>1, <1>3, <1>7, <2>1 DEF NodeInv, HooksFollowCache
      <3> QED BY <1>1, <1>3, <2>1, <3>1 DEF NodeInv, HooksFollowCache, FlagsMakeSense
    <2>2. CASE q = p
      <3> DEFINE e == entries[p][k]
                 n == CachedEntry(e, buf[k])
      <3>1. /\ n.flag => n.exists /\ n.hooks > 0
            /\ e = NoEntry => n.hooks = 0 /\ ~n.flag
            /\ e # NoEntry => n.hooks = e.hooks
            /\ n.hooks > 0 /\ n.exists /\ ~n.flag => e # NoEntry /\ e.exists /\ n.value = e.value
        BY <1>4, <1>7, <2>2, CachedEntryFlags
      <3>2. e # NoEntry => /\ ~e.flag
                           /\ phase = "new" => e.hooks = 0
                           /\ e.hooks > 0 /\ e.exists /\ ~e.flag => known[p][k] = e.value
        BY <1>1, <1>4 DEF NodeInv, HooksFollowCache, FlagsMakeSense
      <3>3. entries'[q][k] = n
        BY <1>4, <2>2
      <3> HIDE DEF n, e
      <3> QED BY <1>1, <1>2, <2>2, <3>1, <3>2, <3>3
    <2> QED BY <2>1, <2>2
  <1> QED BY <1>5, <1>6, <1>7 DEF NodeInv, FlagsMakeSense, HooksFollowCache

LEMMA HookStep ==
  ASSUME IInv, NodeInv, Hook
  PROVE  NodeInv'
  <1> DEFINE p == rf.path
             runs(k) == Executes(p, k, buf)
  <1>1. /\ p \in Paths /\ rf.pc = "hook" /\ rf' = Refreshed /\ buf' = Nothing
        /\ UNCHANGED <<good, phase>>
        /\ buf = good[p] /\ buf \in Content
    BY DEF Hook, Refreshing, IInv, TypeOK, NodeInv, BufferIsLastGood
  <1>2. /\ \A q \in Paths \ {p} : entries'[q] = entries[q] /\ known'[q] = known[q]
        /\ \A k \in Keys :
             /\ entries'[p][k] = IF runs(k) THEN [entries[p][k] EXCEPT !.flag = FALSE] ELSE entries[p][k]
             /\ known'[p][k] = IF runs(k) /\ entries[p][k].flag /\ entries[p][k].hooks > 0
                               THEN buf[k] ELSE known[p][k]
    BY <1>1 DEF Hook, ExecuteHook, IInv, TypeOK
  <1>3. ASSUME NEW q \in Paths, NEW k \in Keys
        PROVE  /\ Shown(entries'[q][k]) = good[q][k]
               /\ entries'[q][k] # NoEntry =>
                    /\ ~entries'[q][k].flag
                    /\ phase = "new" => entries'[q][k].hooks = 0
                    /\ entries'[q][k].hooks > 0 /\ entries'[q][k].exists
                         => known'[q][k] = entries'[q][k].value
    <2> DEFINE e == entries[q][k]
    <2>0. /\ e \in Entry \cup {NoEntry}
          /\ Shown(e) = good[q][k]
          /\ e # NoEntry => /\ e.flag => e.exists /\ e.hooks > 0 /\ q = p
                            /\ phase = "new" => e.hooks = 0
                            /\ e.hooks > 0 /\ e.exists /\ ~e.flag => known[q][k] = e.value
      BY <1>1 DEF NodeInv, CacheIsLastGood, FlagsMakeSense, HooksFollowCache, IInv, TypeOK
    <2>1. CASE q # p
      <3>1. entries'[q][k] = e /\ known'[q][k] = known[q][k]
        BY <1>2, <2>1
      <3> HIDE DEF e
      <3> QED BY <2>0, <2>1, <3>1
    <2>2. CASE q = p /\ ~runs(k)
      <3>1. entries'[q][k] = e /\ known'[q][k] = known[q][k]
        BY <1>2, <2>2
      <3>2. e # NoEntry => ~e.exists
        <4>1. e # NoEntry => buf[k] = Absent
          BY <2>2 DEF Executes
        <4> QED BY <1>1, <2>0, <2>2, <4>1, FileAssumption DEF Shown, Entry
      <3> HIDE DEF e
      <3> QED BY <2>0, <3>1, <3>2
    <2>3. CASE q = p /\ runs(k)
      <3>1. e # NoEntry /\ e \in Entry /\ buf[k] # Absent
        BY <2>0, <2>3 DEF Executes
      <3>2. /\ entries'[q][k] = [e EXCEPT !.flag = FALSE]
            /\ known'[q][k] = IF e.flag /\ e.hooks > 0 THEN buf[k] ELSE known[q][k]
        BY <1>2, <2>3
      <3>3. e.exists /\ e.value = buf[k]
        BY <1>1, <2>0, <2>3, <3>1 DEF Shown
      <3>4. /\ entries'[q][k].value = e.value /\ entries'[q][k].exists = e.exists
            /\ entries'[q][k].hooks = e.hooks /\ entries'[q][k].flag = FALSE
        BY <3>1, <3>2 DEF Entry
      <3>5. Shown(entries'[q][k]) = Shown(e)
        BY <3>1, <3>2, EntryUpdates
      <3> HIDE DEF e
      <3> QED BY <2>0, <3>1, <3>2, <3>3, <3>4, <3>5
    <2> QED BY <2>1, <2>2, <2>3
  <1>4. rf'.pc = "select"
    BY <1>1 DEF Refreshed
  <1> QED BY <1>1, <1>3, <1>4
          DEF NodeInv, BufferIsLastGood, CacheIsLastGood, FlagsMakeSense, HooksFollowCache

LEMMA LoadFirstStep ==
  ASSUME IInv, NodeInv, NEW p \in Paths, LoadFirst(p)
  PROVE  NodeInv'
  <1>1. /\ phase = "new" /\ rf.pc = "off" /\ disk[p] \in Content
        /\ UNCHANGED <<rf, known, phase>> /\ buf = Nothing /\ buf' = Nothing
    BY DEF LoadFirst, IInv, TypeOK, Lifecycle, NodeInv, BufferIsLastGood
  <1>2. Unmarshal(buf, disk[p]) = disk[p]
    BY <1>1, UnmarshalFresh
  <1>3. /\ entries' = [entries EXCEPT ![p] = CacheFrom(p, disk[p])]
        /\ good' = [good EXCEPT ![p] = disk[p]]
    BY <1>2 DEF LoadFirst
  <1>4. /\ \A q \in Paths \ {p} : entries'[q] = entries[q] /\ good'[q] = good[q]
        /\ \A k \in Keys : entries'[p][k] = CachedEntry(entries[p][k], disk[p][k])
        /\ good'[p] = disk[p]
    BY <1>3 DEF CacheFrom, IInv, TypeOK
  <1>5. ASSUME NEW q \in Paths, NEW k \in Keys
        PROVE  /\ Shown(entries'[q][k]) = good'[q][k]
               /\ entries'[q][k] # NoEntry => entries'[q][k].hooks = 0 /\ ~entries'[q][k].flag
    <2> DEFINE e == entries[q][k]
    <2>0. /\ e \in Entry \cup {NoEntry} /\ disk[p][k] \in Stored
          /\ Shown(e) = good[q][k]
          /\ e # NoEntry => e.hooks = 0 /\ ~e.flag
      BY <1>1 DEF NodeInv, CacheIsLastGood, FlagsMakeSense, HooksFollowCache, IInv, TypeOK, Content
    <2>1. CASE q # p
      BY <1>4, <2>0, <2>1
    <2>2. CASE q = p
      <3>1. entries'[q][k] = CachedEntry(e, disk[p][k]) /\ good'[q][k] = disk[p][k]
        BY <1>4, <2>2
      <3>2. Shown(entries'[q][k]) = disk[p][k]
        BY <2>0, <3>1, CachedEntryShows
      <3>3. ASSUME entries'[q][k] # NoEntry
            PROVE  entries'[q][k].hooks = 0 /\ ~entries'[q][k].flag
        <4>1. CachedEntry(e, disk[p][k]) # NoEntry
          BY <3>1, <3>3
        <4> HIDE DEF e
        <4>2. LET n == CachedEntry(e, disk[p][k]) IN
              /\ n.flag => n.exists /\ n.hooks > 0
              /\ e = NoEntry => n.hooks = 0 /\ ~n.flag
              /\ e # NoEntry => n.hooks = e.hooks
          BY <2>0, <4>1, CachedEntryFlags
        <4> QED BY <2>0, <3>1, <4>2
      <3> QED BY <3>1, <3>2, <3>3
    <2> QED BY <2>1, <2>2
  <1> QED BY <1>1, <1>5
          DEF NodeInv, BufferIsLastGood, CacheIsLastGood, FlagsMakeSense, HooksFollowCache

LEMMA OnKeyChangeStep ==
  ASSUME IInv, NodeInv, NEW p \in Paths, NEW k \in Keys, OnKeyChange(p, k)
  PROVE  NodeInv'
  <1> DEFINE e == IF entries[p][k] = NoEntry THEN Placeholder ELSE entries[p][k]
             n == [e EXCEPT !.hooks = @ + 1]
  <1>1. /\ e \in Entry /\ Shown(e) = Shown(entries[p][k])
        /\ entries[p][k] = NoEntry => e.hooks = 0 /\ ~e.flag /\ ~e.exists
    <2>1. Placeholder \in Entry /\ Placeholder # NoEntry /\ ~Placeholder.exists
          /\ Placeholder.hooks = 0 /\ ~Placeholder.flag
      BY PlaceholderType, FileAssumption DEF Placeholder
    <2> QED BY <2>1 DEF IInv, TypeOK, Shown
  <1>2. /\ n \in Entry /\ n # NoEntry /\ Shown(n) = Shown(e)
        /\ n.hooks = e.hooks + 1 /\ n.exists = e.exists /\ n.value = e.value /\ n.flag = e.flag
    <2>1. n \in Entry /\ Shown(n) = Shown(e)
      BY <1>1, EntryUpdates
    <2>2. n.hooks = e.hooks + 1 /\ n.exists = e.exists /\ n.value = e.value /\ n.flag = e.flag
      BY <1>1 DEF Entry
    <2> QED BY <2>1, <2>2, FileAssumption
  <1>3. /\ phase # "new"
        /\ UNCHANGED <<rf, buf, good, phase>>
        /\ entries' = [entries EXCEPT ![p][k] = n]
        /\ known' = IF e.hooks = 0 THEN [known EXCEPT ![p][k] = Shown(e)] ELSE known
    BY DEF OnKeyChange
  <1>4. /\ e.hooks \in Nat
        /\ e.flag => e.exists /\ e.hooks > 0 /\ rf.pc = "hook" /\ rf.path = p
        /\ e.hooks > 0 /\ e.exists /\ ~e.flag => known[p][k] = e.value
        /\ e.exists => Shown(e) = e.value
    <2>1. e.hooks \in Nat /\ e # NoEntry
      BY <1>1, FileAssumption DEF Entry
    <2> QED BY <1>1, <2>1 DEF NodeInv, FlagsMakeSense, HooksFollowCache, Shown
  <1> HIDE DEF e, n
  <1>5. /\ entries'[p][k] = n
        /\ known'[p][k] = IF e.hooks = 0 THEN Shown(e) ELSE known[p][k]
        /\ \A q \in Paths, j \in Keys :
             q # p \/ j # k => entries'[q][j] = entries[q][j] /\ known'[q][j] = known[q][j]
    BY <1>3 DEF IInv, TypeOK
  <1>6. CacheIsLastGood'
    BY <1>1, <1>2, <1>3, <1>5 DEF NodeInv, CacheIsLastGood
  <1>7. HooksFollowCache' /\ FlagsMakeSense'
    <2> SUFFICES ASSUME NEW q \in Paths, NEW j \in Keys, entries'[q][j] # NoEntry
                 PROVE  LET f == entries'[q][j] IN
                        /\ f.flag => f.exists /\ f.hooks > 0 /\ rf.pc = "hook" /\ rf.path = q
                        /\ f.hooks > 0 /\ f.exists /\ ~f.flag => known'[q][j] = f.value
      BY <1>3 DEF HooksFollowCache, FlagsMakeSense
    <2>1. CASE q = p /\ j = k
      BY <1>2, <1>4, <1>5, <2>1
    <2>2. CASE q # p \/ j # k
      BY <1>5, <2>2 DEF NodeInv, FlagsMakeSense, HooksFollowCache
    <2> QED BY <2>1, <2>2
  <1> QED BY <1>3, <1>6, <1>7 DEF NodeInv, BufferIsLastGood

LEMMA NodeStep == IInv /\ NodeInv /\ [Next]_vars => NodeInv'
  <1> SUFFICES ASSUME IInv, NodeInv, [Next]_vars PROVE NodeInv'
    OBVIOUS
  <1> USE DEF NodeInv, BufferIsLastGood, CacheIsLastGood, FlagsMakeSense, HooksFollowCache
  <1>1. CASE /\ UNCHANGED <<entries, known, buf, good, rf>>
             /\ phase' = "new" => phase = "new"
    BY <1>1
  <1>2. CASE Load
    <2>1. /\ rf.path \in Paths /\ rf.pc = "load" /\ buf = Nothing /\ disk[rf.path] \in Content
          /\ rf' = [rf EXCEPT !.pc = "cache"]
          /\ good' = [good EXCEPT ![rf.path] = disk[rf.path]]
          /\ buf' = Unmarshal(buf, disk[rf.path])
          /\ UNCHANGED <<entries, known, phase>>
      BY <1>2 DEF Load, Refreshing, IInv, TypeOK
    <2>2. rf'.pc = "cache" /\ rf'.path = rf.path
      BY <2>1 DEF IInv, TypeOK
    <2>3. buf' = good'[rf.path] /\ \A q \in Paths \ {rf.path} : good'[q] = good[q]
      BY <2>1, UnmarshalFresh DEF IInv, TypeOK
    <2> QED BY <2>1, <2>2, <2>3
  <1>3. CASE LoadFails \/ (\E p \in Paths : Take(p)) \/ RefreshEnds
    <2>1. /\ rf.pc \in {"select", "load"} /\ rf'.pc \in {"load", "select", "done"}
          /\ UNCHANGED <<entries, known, good, phase>>
          /\ buf' \in {buf, Nothing}
      BY <1>3 DEF LoadFails, Take, RefreshEnds, Refreshing, Refreshed, history
    <2> QED BY <2>1
  <1>4. CASE Watch
    <2>1. /\ phase = "new" /\ phase' = "open" /\ rf.pc = "off"
          /\ rf' = rf \/ rf' = [rf EXCEPT !.pc = "select"]
          /\ UNCHANGED <<entries, known, good, buf>>
      BY <1>4 DEF Watch, Loaded, history, IInv, Lifecycle
    <2>2. rf'.pc \in {"off", "select"}
      BY <2>1 DEF IInv, TypeOK
    <2> QED BY <2>1, <2>2
  <1> QED BY <1>1, <1>2, <1>3, <1>4, CacheStep, HookStep, LoadFirstStep, OnKeyChangeStep
          DEF Next, DedupStep, RefreshStep, Write, Remove, LoadFirstFails, WatchFails, Loaded, Close,
              Receive, GetTimer, AfterFunc, SetTimer, Reset, DedupEnds, Dedup, Expire, DeleteTimer,
              GiveUp, vars, history

THEOREM NodeInvariance == Spec => []NodeInv
  <1>1. Init => NodeInv
    <2> SUFFICES ASSUME Init PROVE NodeInv
      OBVIOUS
    <2>1. BufferIsLastGood /\ FlagsMakeSense /\ HooksFollowCache
      BY DEF Init, BufferIsLastGood, FlagsMakeSense, HooksFollowCache
    <2>2. CacheIsLastGood
      BY DEF Init, CacheIsLastGood, Shown, Nothing
    <2> QED BY <2>1, <2>2 DEF NodeInv
  <1> QED BY <1>1, NodeStep, Invariance, PTL DEF Spec

\* Sharing one buffer mixes no two files and no two loads of a file, and Get sees
\* a file as it was at one moment (file.go:160-181, 267-298, file_node.go:28-70).
THEOREM CacheFollowsFile == Spec => []CacheIsLastGood
  <1> QED BY NodeInvariance, PTL DEF NodeInv

\* No change of a value escapes the hooks registered on its key, whenever they
\* were registered; and no flag outlives the reload that set it, which is why
\* clearing it needs no more than the read lock (file.go:290-293).
THEOREM HooksFollow == Spec => []HooksFollowCache
  <1> QED BY NodeInvariance, PTL DEF NodeInv

-----------------------------------------------------------------------------
(* The driver implements Snapshot.                                         *)

\* An answer for every file and key: two that agree everywhere are one.
LEMMA AnswersOf ==
  ASSUME TypeOK, NEW p \in Paths, \A k \in Keys : Shown(entries[p][k]) = good[p][k]
  PROVE  Answers[p] = good[p]
  BY DEF Answers, TypeOK, Content

LEMMA AnswersElsewhere ==
  ASSUME TypeOK, TypeOK', NEW p \in Paths,
         \A q \in Paths \ {p}, k \in Keys : Shown(entries'[q][k]) = Shown(entries[q][k]),
         Answers'[p] = good'[p]
  PROVE  Answers' = [Answers EXCEPT ![p] = good'[p]]
  <1>1. \A q \in Paths \ {p} : Answers'[q] = Answers[q]
    BY DEF Answers
  <1>2. /\ Answers = [q \in Paths |-> Answers[q]] /\ Answers' = [q \in Paths |-> Answers'[q]]
    BY DEF Answers
  <1> HIDE DEF Answers
  <1> QED BY <1>1, <1>2

\* Steps that load and cache nothing answer what was answered.
LEMMA SameAnswers ==
  ASSUME \A p \in Paths, k \in Keys : Shown(entries'[p][k]) = Shown(entries[p][k])
  PROVE  Answers' = Answers
  BY DEF Answers

LEMMA FilesOnlyChange ==
  ASSUME IInv, NEW p \in Paths, NEW c \in Content \cup {Bad},
         disk' = [disk EXCEPT ![p] = c], UNCHANGED <<entries, good>>
  PROVE  Snapshot!Next
  <1>1. Answers' = Answers
    BY SameAnswers
  <1>2. Snapshot!Change(p, c)
    BY <1>1 DEF Snapshot!Change
  <1> QED BY <1>2 DEF Snapshot!Next

\* Each step of the driver is one of Snapshot's, or changes nothing a reader sees.
LEMMA SnapshotStep ==
  ASSUME IInv, IInv', NodeInv, NodeInv', [Next]_vars
  PROVE  [Snapshot!Next]_<<disk, good, Answers>>
  <1>0. TypeOK /\ TypeOK'
    BY DEF IInv
  <1>1. CASE UNCHANGED <<disk, good, entries>>
    BY <1>1, SameAnswers
  <1>2. ASSUME NEW p \in Paths, NEW c \in Content \cup {Bad}, Write(p, c) PROVE Snapshot!Next
    BY <1>2, FilesOnlyChange DEF Write
  <1>3. ASSUME NEW p \in Paths, Remove(p) PROVE Snapshot!Next
    <2>1. disk' = [disk EXCEPT ![p] = Bad] /\ UNCHANGED <<entries, good>>
      BY <1>3 DEF Remove, history
    <2> QED BY <2>1, FilesOnlyChange
  <1>4. ASSUME NEW p \in Paths, LoadFirst(p) PROVE Snapshot!Next
    <2>1. /\ disk[p] # Bad /\ good' = [good EXCEPT ![p] = disk[p]] /\ UNCHANGED disk
          /\ entries' = [entries EXCEPT ![p] = CacheFrom(p, Unmarshal(buf, disk[p]))]
          /\ rf.pc # "cache" /\ rf'.pc # "cache"
      BY <1>4 DEF LoadFirst, external, IInv, Lifecycle
    <2>2. good'[p] = disk[p]
      BY <1>0, <2>1 DEF TypeOK
    <2>3. Answers'[p] = good'[p]
      <3>1. \A k \in Keys : Shown(entries'[p][k]) = good'[p][k]
        BY <2>1 DEF NodeInv, CacheIsLastGood
      <3> QED BY <1>0, <3>1 DEF Answers, TypeOK, Content
    <2>4. \A q \in Paths \ {p}, k \in Keys : Shown(entries'[q][k]) = Shown(entries[q][k])
      BY <1>0, <2>1 DEF TypeOK
    <2>5. Answers' = [Answers EXCEPT ![p] = disk[p]]
      BY <1>0, <2>2, <2>3, <2>4, AnswersElsewhere
    <2>6. Snapshot!Open(p)
      BY <2>1, <2>5 DEF Snapshot!Open
    <2> QED BY <2>6 DEF Snapshot!Next
  <1>5. ASSUME NEW p \in Paths, NEW k \in Keys, OnKeyChange(p, k) PROVE UNCHANGED <<disk, good, Answers>>
    <2> DEFINE e == IF entries[p][k] = NoEntry THEN Placeholder ELSE entries[p][k]
    <2>1. /\ entries' = [entries EXCEPT ![p][k] = [e EXCEPT !.hooks = @ + 1]]
          /\ UNCHANGED <<disk, good>>
      BY <1>5 DEF OnKeyChange, external
    <2>2. e \in Entry /\ Shown(e) = Shown(entries[p][k])
      <3>1. Placeholder # NoEntry /\ ~Placeholder.exists
        BY PlaceholderType, FileAssumption DEF Placeholder
      <3> QED BY <1>0, <3>1, PlaceholderType DEF TypeOK, Shown
    <2> HIDE DEF e
    <2>3. Shown([e EXCEPT !.hooks = @ + 1]) = Shown(e)
      BY <2>2, EntryUpdates
    <2>4. \A q \in Paths, j \in Keys : Shown(entries'[q][j]) = Shown(entries[q][j])
      BY <1>0, <2>1, <2>2, <2>3 DEF TypeOK
    <2> QED BY <2>1, <2>4, SameAnswers
  <1>6. CASE Load
    <2>1. /\ rf.path \in Paths /\ disk[rf.path] # Bad
          /\ good' = [good EXCEPT ![rf.path] = disk[rf.path]]
          /\ UNCHANGED <<disk, entries>>
      BY <1>0, <1>6 DEF Load, Refreshing, external, TypeOK
    <2>2. Answers' = Answers
      BY <2>1, SameAnswers
    <2>3. Snapshot!Take(rf.path)
      BY <2>1, <2>2 DEF Snapshot!Take
    <2> QED BY <2>1, <2>3 DEF Snapshot!Next
  <1>7. CASE Cache
    <2> DEFINE p == rf.path
    <2>1. /\ p \in Paths /\ rf' = [rf EXCEPT !.pc = "hook"]
          /\ entries' = [entries EXCEPT ![p] = CacheFrom(p, buf)]
          /\ UNCHANGED <<disk, good>>
      BY <1>0, <1>7 DEF Cache, Refreshing, external, history, TypeOK
    <2>2. rf'.pc = "hook"
      BY <1>0, <2>1 DEF TypeOK
    <2>3. Answers'[p] = good'[p]
      <3>1. \A k \in Keys : Shown(entries'[p][k]) = good'[p][k]
        BY <2>1, <2>2 DEF NodeInv, CacheIsLastGood
      <3> HIDE DEF p
      <3> QED BY <1>0, <2>1, <3>1 DEF Answers, TypeOK, Content
    <2>4. \A q \in Paths \ {p}, k \in Keys : Shown(entries'[q][k]) = Shown(entries[q][k])
      BY <1>0, <2>1 DEF TypeOK
    <2> HIDE DEF p
    <2>5. Answers' = [Answers EXCEPT ![p] = good[p]]
      BY <1>0, <2>1, <2>3, <2>4, AnswersElsewhere
    <2>6. Snapshot!Show(p)
      BY <2>1, <2>5 DEF Snapshot!Show
    <2> QED BY <2>1, <2>6 DEF Snapshot!Next
  <1>8. CASE Hook
    <2>1. rf.pc = "hook" /\ rf'.pc = "select" /\ UNCHANGED <<disk, good>>
      BY <1>8 DEF Hook, Refreshing, Refreshed, external
    <2>2. \A p \in Paths, k \in Keys : Shown(entries'[p][k]) = Shown(entries[p][k])
      BY <2>1 DEF NodeInv, CacheIsLastGood
    <2> QED BY <2>1, <2>2, SameAnswers
  <1> QED BY <1>1, <1>2, <1>3, <1>4, <1>5, <1>6, <1>7, <1>8
          DEF Next, DedupStep, RefreshStep, LoadFirstFails, Watch, WatchFails, Close,
              Receive, GetTimer, AfterFunc, SetTimer, Reset, DedupEnds, Dedup, Expire, DeleteTimer,
              GiveUp, Take, LoadFails, RefreshEnds, Refreshing, vars, external, history

\* Whatever the timers and goroutines of a reload do, Get answers for each file
\* what it held at one moment, and moves to a later one as a whole: the driver
\* implements Snapshot (file.go:160-181, 267-298, file_node.go:28-70).
THEOREM DriverIsSnapshot == Spec => IsSnapshot
  <1>1. Init => Snapshot!Init
    <2> SUFFICES ASSUME Init PROVE Snapshot!Init
      OBVIOUS
    <2>1. Answers = [p \in Paths |-> Nothing]
      BY DEF Init, Answers, Shown, Nothing
    <2> QED BY <2>1 DEF Init, Snapshot!Init
  <1> QED BY <1>1, SnapshotStep, Invariance, NodeInvariance, PTL DEF Spec, IsSnapshot, Snapshot!Spec
=================================================================================
