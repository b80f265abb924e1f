----------------------------------- MODULE Kv -----------------------------------
(***************************************************************************)
(* etcdutil/kv.go: the read-through cache one Kv keeps of the etcd keys    *)
(* under its prefix, and the goroutines that touch it: callers of Get,     *)
(* GetString and UnsafeGet, a caller of Preload, callers of OnKeyChange,   *)
(* and one goroutine per etcd watch stream that delivers events to Handle. *)
(*                                                                         *)
(* Every section the code runs under k.mu is one step; what it does        *)
(* between two sections (the etcd request of a miss, the gap between the   *)
(* update of an entry and its hooks) lies between two steps.  A cache hit  *)
(* changes nothing and is no step.  Keys are the names cacheKey returns.   *)
(*                                                                         *)
(* The etcd server is external: hist is its sequence of revisions, each    *)
(* with the key it changed and the whole store after it, so hist[r] is     *)
(* what a Get served at revision r reads and what a watch delivers for r.  *)
(* asOf and told are history variables, read only by properties: the       *)
(* revision whose value a cached entry shows, and the last value given to  *)
(* all the hooks of a key.                                                 *)
(***************************************************************************)
EXTENDS Naturals, Sequences

CONSTANTS
  Keys,      \* keys under the prefix, as cacheKey names them
  Values,    \* contents a key can have
  Empty,     \* the content "", which entry.exists tells from "no such key"
  Absent,    \* what etcd has for a key that is not there
  NoEntry,   \* k.entries has nothing for the key
  NoKey,     \* the "changed key" of the initial revision
  Readers,   \* goroutines that call Get, GetString or UnsafeGet
  Streams,   \* watch goroutines whose prefix covers this Kv (watcher.go)
  MaxRev,    \* bound: revisions etcd commits
  MaxHooks   \* bound: hooks registered for one key

Entry == [value : Values, exists : BOOLEAN]
Stored == Values \cup {Absent}
Revision == [key : Keys \cup {NoKey}, store : [Keys -> Stored]]

ASSUME KvAssumption ==
  /\ Empty \in Values
  /\ Absent \notin Values
  /\ NoEntry \notin Entry
  /\ NoKey \notin Keys
  /\ Streams # {}    \* nothing refreshes a Kv that no Watcher has as an observer
  /\ MaxRev \in Nat
  /\ MaxHooks \in Nat

VARIABLES
  hist,      \* external: etcd's revisions, oldest first
  entries,   \* k.entries
  hooks,     \* len(k.hooks[key])
  rd,        \* per reader: where it is in Get, its key, the revision its Get read
  pl,        \* the caller of Preload: where it is, the revision it read
  ws,        \* per stream: where its goroutine is
  pos,       \* per stream: the last revision it handled or started after
  asOf,      \* history: the revision whose value entries[k] shows
  told       \* history: the last value every hook of k was called with

vars == <<hist, entries, hooks, rd, pl, ws, pos, asOf, told>>

Rev == Len(hist)
At(k, r) == hist[r].store[k]
Current(k) == At(k, Rev)

Cached(k) == entries[k] # NoEntry
Shows(k, v) == Cached(k) /\ v = IF entries[k].exists THEN entries[k].value ELSE Absent
Present(v) == [value |-> v, exists |-> TRUE]
Missing == [value |-> Empty, exists |-> FALSE]
EntryOf(v) == IF v = Absent THEN Missing ELSE Present(v)

TypeOK ==
  /\ hist \in Seq(Revision)
  /\ Rev >= 1
  /\ entries \in [Keys -> Entry \cup {NoEntry}]
  /\ hooks \in [Keys -> Nat]
  /\ rd \in [Readers -> [pc : {"idle", "fetch", "fill"}, key : Keys \cup {NoKey}, rev : Nat]]
  /\ \A r \in Readers : rd[r].pc # "idle" => rd[r].key \in Keys
  /\ pl \in [pc : {"idle", "apply"}, rev : Nat]
  /\ ws \in [Streams -> {"off", "idle", "hook", "stopped"}]
  /\ pos \in [Streams -> Nat]
  /\ asOf \in [Keys -> Nat]
  /\ told \in [Keys -> Stored]

Idle == [pc |-> "idle", key |-> NoKey, rev |-> 0]

Init ==
  /\ \E store \in [Keys -> Stored] : hist = <<[key |-> NoKey, store |-> store]>>
  /\ entries = [k \in Keys |-> NoEntry]
  /\ hooks = [k \in Keys |-> 0]
  /\ rd = [r \in Readers |-> Idle]
  /\ pl = [pc |-> "idle", rev |-> 0]
  /\ ws = [s \in Streams |-> "off"]
  /\ pos = [s \in Streams |-> 0]
  /\ asOf = [k \in Keys |-> 0]
  /\ told = [k \in Keys |-> Absent]

-----------------------------------------------------------------------------
(* etcd: other clients write; a Put of the value a key already has is a    *)
(* revision too, a Delete of a missing key is not.                         *)

Commit(k, v) ==
  /\ Rev < MaxRev
  /\ v = Absent => Current(k) # Absent
  /\ hist' = Append(hist, [key |-> k, store |-> [hist[Rev].store EXCEPT ![k] = v]])
  /\ UNCHANGED <<entries, hooks, rd, pl, ws, pos, asOf, told>>

-----------------------------------------------------------------------------
(* Get, GetString, UnsafeGet: look in the cache under the read lock; on a  *)
(* miss ask etcd with no lock held; then, under the lock, cache the answer *)
(* (a missing key too) unless somebody cached the key meanwhile.           *)

Lookup(r, k) ==
  /\ rd[r].pc = "idle"
  /\ ~Cached(k)
  /\ rd' = [rd EXCEPT ![r] = [pc |-> "fetch", key |-> k, rev |-> 0]]
  /\ UNCHANGED <<hist, entries, hooks, pl, ws, pos, asOf, told>>

Fetch(r) ==
  /\ rd[r].pc = "fetch"
  /\ rd' = [rd EXCEPT ![r] = [pc |-> "fill", key |-> rd[r].key, rev |-> Rev]]
  /\ UNCHANGED <<hist, entries, hooks, pl, ws, pos, asOf, told>>

\* An error other than ErrNotFound is returned and nothing is cached.
FetchFail(r) ==
  /\ rd[r].pc = "fetch"
  /\ rd' = [rd EXCEPT ![r] = Idle]
  /\ UNCHANGED <<hist, entries, hooks, pl, ws, pos, asOf, told>>

FillOverwrites(r) ==
  LET k == rd[r].key IN
  /\ rd[r].pc = "fill"
  /\ rd' = [rd EXCEPT ![r] = Idle]
  /\ entries' = [entries EXCEPT ![k] = EntryOf(At(k, rd[r].rev))]
  /\ asOf' = [asOf EXCEPT ![k] = rd[r].rev]
  /\ UNCHANGED <<hist, hooks, pl, ws, pos, told>>

Fill(r) ==
  LET k == rd[r].key IN
  /\ rd[r].pc = "fill"
  /\ rd' = [rd EXCEPT ![r] = Idle]
  /\ IF Cached(k)
     THEN UNCHANGED <<entries, asOf>>
     ELSE /\ entries' = [entries EXCEPT ![k] = EntryOf(At(k, rd[r].rev))]
          /\ asOf' = [asOf EXCEPT ![k] = rd[r].rev]
  /\ UNCHANGED <<hist, hooks, pl, ws, pos, told>>

Reader(r) == (\E k \in Keys : Lookup(r, k)) \/ Fetch(r) \/ FetchFail(r) \/ Fill(r)

-----------------------------------------------------------------------------
(* Preload: one ranged Get of the prefix, then, under the lock, every key  *)
(* the answer holds is created or overwritten.  No hook is called.         *)

PreloadGet ==
  /\ pl.pc = "idle"
  /\ pl' = [pc |-> "apply", rev |-> Rev]
  /\ UNCHANGED <<hist, entries, hooks, rd, ws, pos, asOf, told>>

Preloads(k) == At(k, pl.rev) # Absent /\ entries[k] # Present(At(k, pl.rev))

PreloadApply ==
  /\ pl.pc = "apply"
  /\ pl' = [pc |-> "idle", rev |-> 0]
  /\ entries' = [k \in Keys |-> IF Preloads(k) THEN Present(At(k, pl.rev)) ELSE entries[k]]
  /\ asOf' = [k \in Keys |-> IF Preloads(k) THEN pl.rev ELSE asOf[k]]
  /\ UNCHANGED <<hist, hooks, rd, ws, pos, told>>

-----------------------------------------------------------------------------
(* Watching: a stream starts at the revision etcd is at when the watch is  *)
(* created, then delivers every later revision in order.  Handle updates   *)
(* the entry under the lock, releases it, and runs the hooks of the key    *)
(* under the read lock; a key nobody cached is dropped.                    *)

OnKeyChange(k) ==
  /\ hooks[k] < MaxHooks
  /\ hooks' = [hooks EXCEPT ![k] = @ + 1]
  /\ UNCHANGED <<hist, entries, rd, pl, ws, pos, asOf, told>>

Watch(s) ==
  /\ ws[s] = "off"
  /\ ws' = [ws EXCEPT ![s] = "idle"]
  /\ pos' = [pos EXCEPT ![s] = Rev]
  /\ UNCHANGED <<hist, entries, hooks, rd, pl, asOf, told>>

\* Stream s takes its next event, revision i, which changed key k.
Delivers(s, i, k) ==
  /\ ws[s] = "idle"
  /\ i = pos[s] + 1
  /\ i <= Rev
  /\ k = hist[i].key
  /\ pos' = [pos EXCEPT ![s] = i]
  /\ UNCHANGED <<hist, hooks, rd, pl, told>>

Drop(s, i, k) ==
  /\ Delivers(s, i, k)
  /\ ~Cached(k)
  /\ UNCHANGED <<entries, asOf, ws>>

HandlePutIgnoresExists(s, i, k) ==
  /\ Delivers(s, i, k)
  /\ Cached(k)
  /\ At(k, i) # Absent
  /\ IF entries[k].value = At(k, i)
     THEN UNCHANGED <<entries, ws>>
     ELSE /\ entries' = [entries EXCEPT ![k] = Present(At(k, i))]
          /\ ws' = [ws EXCEPT ![s] = "hook"]
  /\ asOf' = [asOf EXCEPT ![k] = i]

HandlePut(s, i, k) ==
  /\ Delivers(s, i, k)
  /\ Cached(k)
  /\ At(k, i) # Absent
  /\ IF entries[k] = Present(At(k, i))
     THEN UNCHANGED <<entries, ws>>
     ELSE /\ entries' = [entries EXCEPT ![k] = Present(At(k, i))]
          /\ ws' = [ws EXCEPT ![s] = "hook"]
  /\ asOf' = [asOf EXCEPT ![k] = i]

HandleDeleteKeepsValue(s, i, k) ==
  /\ Delivers(s, i, k)
  /\ Cached(k)
  /\ At(k, i) = Absent
  /\ asOf' = [asOf EXCEPT ![k] = i]
  /\ UNCHANGED <<entries, ws>>

HandleDelete(s, i, k) ==
  /\ Delivers(s, i, k)
  /\ Cached(k)
  /\ At(k, i) = Absent
  /\ entries' = [entries EXCEPT ![k] = Missing]
  /\ asOf' = [asOf EXCEPT ![k] = i]
  /\ UNCHANGED ws

Handle(s, i, k) == Drop(s, i, k) \/ HandlePut(s, i, k) \/ HandleDelete(s, i, k)

\* The hooks get the value of the event, not the value cached by now.
RunHooks(s) ==
  LET k == hist[pos[s]].key IN
  /\ ws[s] = "hook"
  /\ ws' = [ws EXCEPT ![s] = "idle"]
  /\ told' = IF hooks[k] > 0 THEN [told EXCEPT ![k] = At(k, pos[s])] ELSE told
  /\ UNCHANGED <<hist, entries, hooks, rd, pl, pos, asOf>>

\* A hook of the key panics and the watch goroutine recovers (watcher.go:112-118):
\* the hooks behind it are not called.
HooksPanic(s) ==
  /\ ws[s] = "hook"
  /\ hooks[hist[pos[s]].key] > 0
  /\ ws' = [ws EXCEPT ![s] = "idle"]
  /\ UNCHANGED <<hist, entries, hooks, rd, pl, pos, asOf, told>>

\* The channel of the stream is closed (its context is cancelled, the client
\* is closed, or the revision it must resume from is compacted away): the
\* goroutine ends and nothing watches again.
Stop(s) ==
  /\ ws[s] = "idle"
  /\ ws' = [ws EXCEPT ![s] = "stopped"]
  /\ UNCHANGED <<hist, entries, hooks, rd, pl, pos, asOf, told>>

Stream(s) ==
  \/ \E i \in 1..Rev, k \in Keys : Handle(s, i, k)
  \/ RunHooks(s)

-----------------------------------------------------------------------------
Next ==
  \/ \E k \in Keys, v \in Stored : Commit(k, v)
  \/ \E r \in Readers : Reader(r)
  \/ PreloadGet
  \/ PreloadApply
  \/ \E k \in Keys : OnKeyChange(k)
  \/ \E s \in Streams : Watch(s) \/ Stream(s) \/ HooksPanic(s) \/ Stop(s)

Spec == Init /\ [][Next]_vars

-----------------------------------------------------------------------------
(* Properties.                                                             *)

\* What the cache answers for a key is what etcd held for it at one revision:
\* a fill, a preload and an event never mix two revisions, and "" stays apart
\* from a deleted key (kv.go:18-23, 214-251).
ShowsEtcd(k) == Cached(k) => asOf[k] \in 1..Rev /\ Shows(k, At(k, asOf[k]))
EntryShowsEtcd == \A k \in Keys : ShowsEtcd(k)

\* Every stream has passed revision i: no event for it will come any more.
Passed(i) == \A s \in Streams : pos[s] >= i

\* A cached key is stale when a revision that changed it after the one it shows
\* has been passed by every stream: nothing will repair it until the key
\* changes again.
Stale(k) ==
  /\ Cached(k)
  /\ \E i \in 1..Rev : asOf[k] < i /\ hist[i].key = k /\ Passed(i)

\* An entry that follows its streams keeps following them.  It can become stale
\* only in the three windows of kv.go: when it is first cached from an answer
\* older than an event already dropped (142-156 against 219-224), when a
\* Preload overwrites it from an old snapshot (59-83), and when a watch starts
\* after revisions the entry has not seen (watcher.go:97).
InWindow(k) ==
  \/ ~Cached(k)
  \/ pl.pc = "apply" /\ pl'.pc = "idle"
  \/ \E s \in Streams : ws[s] = "off" /\ ws'[s] # "off"

StaleOnlyFromWindows == [][\A k \in Keys : Stale(k)' /\ ~Stale(k) => InWindow(k)]_vars
=================================================================================
