------------------------------- MODULE FileDriver -------------------------------
(***************************************************************************)
(* config/driver/file: files parsed into nodes of entries, and their       *)
(* reload.  Goroutines: the caller of New, then Close; the callers of      *)
(* OnKeyChange; dedup, which turns the events of a file into one timer;    *)
(* a goroutine per expiry of a timer (eventFunc), which hands the file to  *)
(* listenAndRefresh; and listenAndRefresh, which reads it, caches it and   *)
(* runs the hooks.  Get and GetString change nothing and are no step.      *)
(*                                                                         *)
(* The file system is external: what a file parses to is a function from   *)
(* Keys to Stored, or Bad when it cannot be read or parsed (removed, half  *)
(* written).  A timer nobody can reach any more may be allocated again.    *)
(* read, good, unseen and known are history variables.                     *)
(***************************************************************************)
EXTENDS Naturals

CONSTANTS
  Paths,      \* files of the configuration (filepath2node)
  Keys,       \* top-level keys
  Values,     \* contents of a key
  Empty,      \* the content ""
  Absent,     \* the file does not have the key
  NoEntry,    \* node.entries has nothing for the key
  Bad,        \* the file cannot be read or parsed
  Timers,     \* *time.Timer objects
  NoTimer,    \* path2timers has nothing for the path
  NoPath,
  MaxWrites,  \* bound: changes of the files
  MaxHooks    \* bound: hooks registered for one key

Stored == Values \cup {Absent}
Content == [Keys -> Stored]
Entry == [value : Values, exists : BOOLEAN, hooks : Nat, flag : BOOLEAN]

ASSUME FileAssumption ==
  /\ Empty \in Values
  /\ Absent \notin Values
  /\ NoEntry \notin Entry
  /\ Bad \notin Content
  /\ NoTimer \notin Timers
  /\ NoPath \notin Paths
  /\ MaxWrites \in Nat
  /\ MaxHooks \in Nat

VARIABLES
  disk, writes,   \* external: what each file parses to; how often files changed
  events,         \* external: events of each file that dedup has not received
  watched,        \* paths whose node.watch is set
  phase,          \* where New, then the driver, is
  entries,        \* filepath2node[path].entries
  quit,           \* f.quit is closed
  dd,             \* the dedup goroutine
  armed, owner,   \* per timer: will it expire; the path its function captured
  timer,          \* path2timers
  expired,        \* eventFunc goroutines that have not yet deleted their path
  sending,        \* eventFunc goroutines blocked on f.ch
  rf, buf,        \* the listenAndRefresh goroutine; f.buf
  read,           \* history: what the last load of each file read
  good,           \* history: what the last load that succeeded read
  unseen,         \* history: files changed after New read them and before the watch
  known           \* history: the value the hooks of a key were registered on or told

external == <<disk, writes>>
timers == <<armed, owner, timer>>
reloads == <<expired, sending>>
history == <<read, good, unseen, known>>
vars == <<external, events, watched, phase, entries, quit, dd, timers, reloads, rf, buf, history>>

Nothing == [k \in Keys |-> Absent]
Unhooked(v) == [value |-> v, exists |-> TRUE, hooks |-> 0, flag |-> FALSE]
Shown(e) == IF e = NoEntry THEN Absent ELSE IF e.exists THEN e.value ELSE Absent

TypeOK ==
  /\ disk \in [Paths -> Content \cup {Bad}]
  /\ writes \in 0..MaxWrites
  /\ events \in [Paths -> Nat]
  /\ watched \in SUBSET Paths
  /\ phase \in {"new", "open", "closed", "failed"}
  /\ entries \in [Paths -> [Keys -> Entry \cup {NoEntry}]]
  /\ quit \in BOOLEAN
  /\ dd \in [pc : {"off", "select", "get", "reset", "set", "done"},
             path : Paths \cup {NoPath}, timer : Timers \cup {NoTimer}]
  /\ dd.pc \in {"get", "reset", "set"} => dd.path \in Paths
  /\ dd.pc \in {"reset", "set"} => dd.timer \in Timers
  /\ armed \in [Timers -> BOOLEAN]
  /\ owner \in [Timers -> Paths \cup {NoPath}]
  /\ timer \in [Paths -> Timers \cup {NoTimer}]
  /\ expired \in [Paths -> Nat]
  /\ sending \in [Paths -> Nat]
  /\ rf \in [pc : {"off", "select", "load", "cache", "hook", "done"}, path : Paths \cup {NoPath}]
  /\ rf.pc \in {"load", "cache", "hook"} => rf.path \in Paths
  /\ buf \in Content
  /\ read \in [Paths -> Content \cup {Bad}]
  /\ good \in [Paths -> Content]
  /\ unseen \in SUBSET Paths
  /\ known \in [Paths -> [Keys -> Stored]]

Init ==
  /\ disk \in [Paths -> Content \cup {Bad}]
  /\ writes = 0
  /\ events = [p \in Paths |-> 0]
  /\ watched \in SUBSET Paths
  /\ phase = "new"
  /\ entries = [p \in Paths |-> [k \in Keys |-> NoEntry]]
  /\ quit = FALSE
  /\ dd = [pc |-> "off", path |-> NoPath, timer |-> NoTimer]
  /\ armed = [t \in Timers |-> FALSE]
  /\ owner = [t \in Timers |-> NoPath]
  /\ timer = [p \in Paths |-> NoTimer]
  /\ expired = [p \in Paths |-> 0]
  /\ sending = [p \in Paths |-> 0]
  /\ rf = [pc |-> "off", path |-> NoPath]
  /\ buf = Nothing
  /\ read = [p \in Paths |-> Bad]
  /\ good = [p \in Paths |-> Nothing]
  /\ unseen = {}
  /\ known = [p \in Paths |-> Nothing]

-----------------------------------------------------------------------------
(* The file system.  Writing, creating or renaming a file to the path is   *)
(* an event once its directory is watched; so is an event of a node that   *)
(* is not, which dedup throws away.  Removing a file is none it looks at.  *)

Write(p, c) ==
  /\ writes < MaxWrites
  /\ writes' = writes + 1
  /\ disk' = [disk EXCEPT ![p] = c]
  /\ events' = IF phase = "open" /\ dd.pc # "off" THEN [events EXCEPT ![p] = @ + 1] ELSE events
  /\ unseen' = IF phase = "new" /\ read[p] # Bad THEN unseen \cup {p} ELSE unseen
  /\ UNCHANGED <<watched, phase, entries, quit, dd, timers, reloads, rf, buf, read, good, known>>

Remove(p) ==
  /\ writes < MaxWrites
  /\ writes' = writes + 1
  /\ disk' = [disk EXCEPT ![p] = Bad]
  /\ UNCHANGED <<events, watched, phase, entries, quit, dd, timers, reloads, rf, buf, history>>

-----------------------------------------------------------------------------
(* CacheFrom and ExecuteHook on the entry of one key, v being what the     *)
(* parsed file has for it.                                                 *)

\* A key that left the file keeps its entry for its hooks.
CachedEntry(e, v) ==
  CASE v # Absent /\ e = NoEntry -> Unhooked(v)
    [] v # Absent /\ e # NoEntry ->
         IF e.exists /\ e.value = v THEN e
         ELSE [e EXCEPT !.exists = TRUE, !.value = v, !.flag = @ \/ e.hooks > 0]
    [] v = Absent /\ e = NoEntry -> NoEntry
    [] v = Absent /\ e # NoEntry ->
         IF e.hooks = 0 THEN NoEntry ELSE [e EXCEPT !.exists = FALSE, !.value = Empty]

CacheFrom(p, fields) == [k \in Keys |-> CachedEntry(entries[p][k], fields[k])]

Executes(p, k, fields) == fields[k] # Absent /\ entries[p][k] # NoEntry

ExecuteHookKeepsFlags(p, fields) ==
  /\ UNCHANGED entries
  /\ known' = [known EXCEPT ![p] =
       [k \in Keys |->
          IF Executes(p, k, fields) /\ entries[p][k].flag /\ entries[p][k].hooks > 0
          THEN fields[k] ELSE known[p][k]]]

ExecuteHook(p, fields) ==
  /\ entries' = [entries EXCEPT ![p] =
       [k \in Keys |-> IF Executes(p, k, fields) THEN [entries[p][k] EXCEPT !.flag = FALSE]
                       ELSE entries[p][k]]]
  /\ known' = [known EXCEPT ![p] =
       [k \in Keys |->
          IF Executes(p, k, fields) /\ entries[p][k].flag /\ entries[p][k].hooks > 0
          THEN fields[k] ELSE known[p][k]]]

\* Unmarshal adds the keys of the file to those the buffer already has.
Unmarshal(into, c) == [k \in Keys |-> IF c[k] # Absent THEN c[k] ELSE into[k]]

-----------------------------------------------------------------------------
(* New: read and cache each file, then watch.  The first error ends it.    *)

LoadFirst(p) ==
  /\ phase = "new"
  /\ read[p] = Bad
  /\ disk[p] # Bad
  /\ entries' = [entries EXCEPT ![p] = CacheFrom(p, Unmarshal(buf, disk[p]))]
  /\ buf' = Nothing
  /\ read' = [read EXCEPT ![p] = disk[p]]
  /\ good' = [good EXCEPT ![p] = disk[p]]
  /\ UNCHANGED <<external, events, watched, phase, quit, dd, timers, reloads, rf, unseen, known>>

LoadFirstFails(p) ==
  /\ phase = "new"
  /\ read[p] = Bad
  /\ disk[p] = Bad
  /\ phase' = "failed"
  /\ UNCHANGED <<external, events, watched, entries, quit, dd, timers, reloads, rf, buf, history>>

Loaded == phase = "new" /\ \A p \in Paths : read[p] # Bad

Watch ==
  /\ Loaded
  /\ phase' = "open"
  /\ IF watched = {}
     THEN UNCHANGED <<dd, rf>>
     ELSE /\ dd' = [dd EXCEPT !.pc = "select"]
          /\ rf' = [rf EXCEPT !.pc = "select"]
  /\ UNCHANGED <<external, events, watched, entries, quit, timers, reloads, buf, history>>

\* The watcher cannot be made, or a directory cannot be added to it.
WatchFails ==
  /\ Loaded
  /\ watched # {}
  /\ phase' = "failed"
  /\ quit' = TRUE
  /\ UNCHANGED <<external, events, watched, entries, dd, timers, reloads, rf, buf, history>>

-----------------------------------------------------------------------------
\* A hook on a key the file does not have waits on an entry that does not exist.
Placeholder == [value |-> Empty, exists |-> FALSE, hooks |-> 0, flag |-> FALSE]

OnKeyChange(p, k) ==
  LET e == IF entries[p][k] = NoEntry THEN Placeholder ELSE entries[p][k] IN
  /\ phase \in {"open", "closed"}
  /\ p \in watched
  /\ e.hooks < MaxHooks
  /\ entries' = [entries EXCEPT ![p][k] = [e EXCEPT !.hooks = @ + 1]]
  /\ known' = IF e.hooks = 0 THEN [known EXCEPT ![p][k] = Shown(e)] ELSE known
  /\ UNCHANGED <<external, events, watched, phase, quit, dd, timers, reloads, rf, buf,
                 read, good, unseen>>

\* The select of Close finds quit open and closes it; then the watcher stops.
Close ==
  /\ phase = "open"
  /\ phase' = "closed"
  /\ quit' = TRUE
  /\ events' = [p \in Paths |-> 0]
  /\ UNCHANGED <<external, watched, entries, dd, timers, reloads, rf, buf, history>>

-----------------------------------------------------------------------------
(* dedup: path2timers is locked for each call, so an expiry can come       *)
(* between looking a timer up and resetting it, or making and storing it.  *)

Dedup(from, to) ==
  /\ dd.pc = from
  /\ dd' = to
  /\ UNCHANGED <<external, watched, phase, entries, quit, reloads, rf, buf, history>>

Selecting == [pc |-> "select", path |-> NoPath, timer |-> NoTimer]

Receive(p) ==
  /\ events[p] > 0
  /\ Dedup("select", IF p \in watched THEN [Selecting EXCEPT !.pc = "get", !.path = p] ELSE Selecting)
  /\ events' = [events EXCEPT ![p] = @ - 1]
  /\ UNCHANGED timers

Unreachable(t) == ~armed[t] /\ dd.timer # t /\ \A p \in Paths : timer[p] # t

GetTimer ==
  /\ dd.pc = "get"
  /\ timer[dd.path] # NoTimer
  /\ Dedup("get", [dd EXCEPT !.pc = "reset", !.timer = timer[dd.path]])
  /\ UNCHANGED <<events, timers>>

AfterFunc(t) ==
  /\ dd.pc = "get"
  /\ timer[dd.path] = NoTimer
  /\ Unreachable(t)
  /\ Dedup("get", [dd EXCEPT !.pc = "set", !.timer = t])
  /\ armed' = [armed EXCEPT ![t] = TRUE]
  /\ owner' = [owner EXCEPT ![t] = dd.path]
  /\ UNCHANGED <<events, timer>>

SetTimer ==
  /\ Dedup("set", Selecting)
  /\ timer' = [timer EXCEPT ![dd.path] = dd.timer]
  /\ UNCHANGED <<events, armed, owner>>

ResetForgets ==
  /\ Dedup("reset", Selecting)
  /\ UNCHANGED <<events, timers>>

Reset ==
  /\ Dedup("reset", Selecting)
  /\ armed' = [armed EXCEPT ![dd.timer] = TRUE]
  /\ UNCHANGED <<events, owner, timer>>

DedupEnds ==
  /\ quit
  /\ Dedup("select", [Selecting EXCEPT !.pc = "done"])
  /\ UNCHANGED <<events, timers>>

DedupStep ==
  \/ \E p \in Paths : Receive(p)
  \/ GetTimer
  \/ \E t \in Timers : AfterFunc(t)
  \/ SetTimer
  \/ Reset
  \/ DedupEnds

-----------------------------------------------------------------------------
(* eventFunc: 500ms without an event.                                      *)

Expire(t) ==
  /\ armed[t]
  /\ armed' = [armed EXCEPT ![t] = FALSE]
  /\ expired' = [expired EXCEPT ![owner[t]] = @ + 1]
  /\ UNCHANGED <<external, events, watched, phase, entries, quit, dd, owner, timer, sending,
                 rf, buf, history>>

DeleteTimerDropsIfBusy(p) ==
  /\ expired[p] > 0
  /\ expired' = [expired EXCEPT ![p] = @ - 1]
  /\ sending' = IF rf.pc = "select" THEN [sending EXCEPT ![p] = @ + 1] ELSE sending
  /\ timer' = [timer EXCEPT ![p] = NoTimer]
  /\ UNCHANGED <<external, events, watched, phase, entries, quit, dd, armed, owner, rf, buf, history>>

DeleteTimer(p) ==
  /\ expired[p] > 0
  /\ expired' = [expired EXCEPT ![p] = @ - 1]
  /\ sending' = [sending EXCEPT ![p] = @ + 1]
  /\ timer' = [timer EXCEPT ![p] = NoTimer]
  /\ UNCHANGED <<external, events, watched, phase, entries, quit, dd, armed, owner, rf, buf, history>>

GiveUpNever(p) ==
  /\ quit
  /\ sending[p] > 0
  /\ UNCHANGED vars

\* f.ch is not buffered: the send waits for listenAndRefresh, or for quit.
GiveUp(p) ==
  /\ quit
  /\ sending[p] > 0
  /\ sending' = [sending EXCEPT ![p] = @ - 1]
  /\ UNCHANGED <<external, events, watched, phase, entries, quit, dd, timers, expired, rf, buf, history>>

-----------------------------------------------------------------------------
(* listenAndRefresh.                                                       *)

Refreshing(from, to) ==
  /\ rf.pc = from
  /\ rf' = to
  /\ UNCHANGED <<external, events, watched, phase, quit, dd, timers, expired>>

Refreshed == [pc |-> "select", path |-> NoPath]

Take(p) ==
  /\ sending[p] > 0
  /\ Refreshing("select", [pc |-> "load", path |-> p])
  /\ sending' = [sending EXCEPT ![p] = @ - 1]
  /\ UNCHANGED <<entries, buf, history>>

LoadFails ==
  /\ rf.pc = "load"
  /\ disk[rf.path] = Bad
  /\ Refreshing("load", Refreshed)
  /\ buf' = Nothing
  /\ read' = [read EXCEPT ![rf.path] = Bad]
  /\ unseen' = unseen \ {rf.path}
  /\ UNCHANGED <<entries, sending, good, known>>

Load ==
  /\ rf.pc = "load"
  /\ disk[rf.path] # Bad
  /\ Refreshing("load", [rf EXCEPT !.pc = "cache"])
  /\ buf' = Unmarshal(buf, disk[rf.path])
  /\ read' = [read EXCEPT ![rf.path] = disk[rf.path]]
  /\ good' = [good EXCEPT ![rf.path] = disk[rf.path]]
  /\ unseen' = unseen \ {rf.path}
  /\ UNCHANGED <<entries, sending, known>>

Cache ==
  /\ Refreshing("cache", [rf EXCEPT !.pc = "hook"])
  /\ entries' = [entries EXCEPT ![rf.path] = CacheFrom(rf.path, buf)]
  /\ UNCHANGED <<sending, buf, history>>

HookKeepsBuf ==
  /\ Refreshing("hook", Refreshed)
  /\ ExecuteHook(rf.path, buf)
  /\ UNCHANGED <<sending, buf, read, good, unseen>>

Hook ==
  /\ Refreshing("hook", Refreshed)
  /\ ExecuteHook(rf.path, buf)
  /\ buf' = Nothing
  /\ UNCHANGED <<sending, read, good, unseen>>

RefreshEnds ==
  /\ quit
  /\ Refreshing("select", [Refreshed EXCEPT !.pc = "done"])
  /\ UNCHANGED <<entries, sending, buf, history>>

RefreshStep ==
  \/ \E p \in Paths : Take(p)
  \/ LoadFails
  \/ Load
  \/ Cache
  \/ Hook
  \/ RefreshEnds

-----------------------------------------------------------------------------
Next ==
  \/ \E p \in Paths : (\E c \in Content \cup {Bad} : Write(p, c)) \/ Remove(p)
  \/ \E p \in Paths : LoadFirst(p) \/ LoadFirstFails(p)
  \/ Watch
  \/ WatchFails
  \/ \E p \in Paths, k \in Keys : OnKeyChange(p, k)
  \/ Close
  \/ DedupStep
  \/ \E t \in Timers : Expire(t)
  \/ \E p \in Paths : DeleteTimer(p) \/ GiveUp(p)
  \/ RefreshStep

Spec == Init /\ [][Next]_vars

\* Goroutines that can run do, and a timer nobody resets expires.  Files need
\* not change, and the driver need not be closed.
FairSpec ==
  /\ Spec
  /\ WF_vars(DedupStep)
  /\ WF_vars(RefreshStep)
  /\ \A t \in Timers : WF_vars(Expire(t))
  /\ \A p \in Paths : WF_vars(DeleteTimer(p)) /\ WF_vars(GiveUp(p))

-----------------------------------------------------------------------------
(* Properties.                                                             *)

\* A reload of p is on its way: some goroutine, timer or event will make
\* listenAndRefresh read the file after now.
InFlight(p) ==
  \/ events[p] > 0
  \/ dd.pc \in {"get", "reset"} /\ dd.path = p
  \/ \E t \in Timers : armed[t] /\ owner[t] = p
  \/ expired[p] > 0
  \/ sending[p] > 0
  \/ rf.pc = "load" /\ rf.path = p

\* However events, timers, and the goroutines of expired timers interleave, no
\* change of a watched file is forgotten (file.go:212-265), unless it fell between
\* the load of New and its watch (52-88).
NoLostReload ==
  phase = "open" =>
    \A p \in watched \ unseen : disk[p] \notin {Bad, read[p]} => InFlight(p)

\* A node answers what its own file held when it was last read well: nothing of
\* another file, or of an older load, is left in the buffer they share
\* (file.go:44, 160-181, 280-295, file_node.go:28-70).
CacheIsLastGood ==
  \A p \in Paths :
    ~(rf.pc = "cache" /\ rf.path = p) => \A k \in Keys : Shown(entries[p][k]) = good[p][k]

\* However changes, timers and reloads interleave, what Get answers for a file is
\* what the file held at one moment, replaced as a whole by what it held at a later
\* one, one file at a time (file.go:160-181, 267-298, file_node.go:28-70).
Answers == [p \in Paths |-> [k \in Keys |-> Shown(entries[p][k])]]
Snapshot == INSTANCE Snapshot WITH
  Files <- Paths, Contents <- Content, Unreadable <- Bad, file <- disk, taken <- good, shown <- Answers
IsSnapshot == Snapshot!Spec

\* The hooks of a key were registered on, or told, the value it has, except while
\* they are due (file_node.go:41-48, 90-111; file.go:290-293).
HooksFollowCache ==
  \A p \in Paths, k \in Keys :
    LET e == entries[p][k] IN
    e # NoEntry =>
      /\ e.flag => rf.pc = "hook" /\ rf.path = p
      /\ e.hooks > 0 /\ e.exists /\ ~e.flag => known[p][k] = e.value

\* A watched file that stays readable is shown in the end.
Agrees(p) == disk[p] # Bad /\ \A k \in Keys : Shown(entries[p][k]) = disk[p][k]

ReloadsConverge ==
  \A p \in Paths :
    phase = "open" /\ p \in watched
      ~> phase # "open" \/ disk[p] = Bad \/ p \in unseen \/ Agrees(p)

\* Closing leaves no goroutine or timer behind (file.go:147-158, 216-222).
CloseEndsGoroutines ==
  phase = "closed"
    ~> /\ dd.pc \in {"off", "done"} /\ rf.pc \in {"off", "done"}
       /\ \A t \in Timers : ~armed[t]
       /\ \A p \in Paths : expired[p] = 0 /\ sending[p] = 0
=================================================================================
