--------------------------------- MODULE Fields ---------------------------------
(***************************************************************************)
(* config/load.go and atomic.go: the fields of one struct that are loaded  *)
(* from a configuration key and stored through atomic pointers by whoever  *)
(* gets there: InitAndPreload, callers of TryLoad and of AtomicStore, and  *)
(* the hooks the driver calls when the key changes.                        *)
(*                                                                         *)
(* All fields read one key, as addr to addr5 of load_test.go do.  The      *)
(* driver is what Configure sees of one: an entry for the key, and the     *)
(* goroutines that update the entry under the write lock and then, under   *)
(* the read lock, call the hooks (Kv.Handle, listenAndRefresh).  The file  *)
(* driver has one of them; an etcd driver has one for each watched prefix  *)
(* that covers the key, and Watcher.Attach may leave two (watcher.go:55).  *)
(*                                                                         *)
(* hist is the sequence of contents a Get of the key finds: those of the   *)
(* entry, in the order it had them, and before there is one those of etcd. *)
(* A decoded content is named by its index there, and nil is 0.            *)
(***************************************************************************)
EXTENDS Naturals, Sequences

CONSTANTS
  NumFields,  \* fields with a config tag, in the order of the struct
  Goroutines, \* goroutines of the driver that update the key's entry
  Loaders,    \* goroutines that call TryLoad or AtomicStore
  Values,     \* contents that decode
  Null,       \* a content that decodes to a nil pointer where one is asked for
  Broken,     \* a content the decoder rejects
  Absent,     \* the key is not there
  MaxRev      \* bound: contents the key has

Fields == 1..NumFields
Contents == Values \cup {Null, Broken, Absent}
Decodes(v) == v \in Values \cup {Null}

ASSUME FieldsAssumption ==
  /\ NumFields \in Nat \ {0}
  /\ MaxRev \in Nat
  /\ Broken \notin Values \cup {Null}
  /\ Absent \notin Values \cup {Null, Broken}

VARIABLES
  tag,      \* per field: is it an unexported pointer, is it lazy, is it watched
  watches,  \* what OnKeyChange does: true, false, or it panics
  hist,     \* the contents a Get of the key finds, the newest last
  cached,   \* the driver has an entry for the key, which changes update
  hooked,   \* fields whose hook the driver has, in the order of the struct
  gs,       \* per goroutine of the driver: the change it handles, hooks still to call
  field,    \* per field: the content it holds
  init,     \* InitAndPreload: where it is, at which field, what its Get read
  funcs,    \* the fields of the FieldLazyLoadMap
  ld        \* per loader: where it is, in which operation, what its Get read

setup == <<tag, watches>>
driver == <<hist, cached, gs>>
vars == <<setup, driver, hooked, field, init, funcs, ld>>

Rev == Len(hist)
Tag == [pointer : BOOLEAN, lazy : BOOLEAN, watch : BOOLEAN]
\* The options of a field that is exported, or not a pointer, are ignored.
Lazy(f) == tag[f].pointer /\ tag[f].lazy
Watched(f) == tag[f].pointer /\ tag[f].watch

TypeOK ==
  /\ tag \in [Fields -> Tag]
  /\ watches \in {"yes", "no", "panics"}
  /\ hist \in Seq(Contents)
  /\ Rev >= 1
  /\ cached \in BOOLEAN
  /\ hooked \in SUBSET Fields
  /\ gs \in [Goroutines -> [pc : {"idle", "changed", "hooks"}, rev : 0..Rev,
                            todo : SUBSET Fields]]
  /\ field \in [Fields -> 0..Rev]
  /\ init \in [pc : {"hook", "load", "store", "done", "failed", "panicked"}, at : 1..(NumFields + 1), rev : 0..Rev]
  /\ init.pc \in {"hook", "load", "store"} => init.at \in Fields
  /\ funcs \in SUBSET Fields
  /\ ld \in [Loaders -> [pc : {"idle", "get", "store", "check"}, op : {"try", "atomic"},
                         field : Fields, rev : 0..Rev]]

Quiet == [pc |-> "idle", rev |-> 0, todo |-> {}]

Begin(f) == IF f > NumFields THEN "done" ELSE IF Watched(f) THEN "hook" ELSE "load"

AtField(f) == [pc |-> Begin(f), at |-> f, rev |-> 0]

Init ==
  /\ tag \in [Fields -> Tag]
  /\ watches \in {"yes", "no", "panics"}
  /\ \E v \in Contents : hist = <<v>>
  /\ cached \in BOOLEAN
  /\ hooked = {}
  /\ gs = [g \in Goroutines |-> Quiet]
  /\ field = [f \in Fields |-> 0]
  /\ init = AtField(1)
  /\ funcs = {}
  /\ ld = [c \in Loaders |-> [pc |-> "idle", op |-> "try", field |-> 1, rev |-> 0]]

-----------------------------------------------------------------------------
(* The driver.  An etcd key nobody asked for has no entry, and its changes *)
(* are dropped; a file's keys all have one, and an entry of a namespace    *)
(* that is not watched never changes.  A key that goes away calls no hook. *)

\* k.mu, f.mu: hooks are called under the read lock.
ReadLocked == \E g \in Goroutines : gs[g].pc = "hooks"

ChangeUnseen(v) ==
  /\ Rev < MaxRev
  /\ ~cached
  /\ v # hist[Rev]
  /\ hist' = Append(hist, v)
  /\ UNCHANGED <<setup, cached, gs, hooked, field, init, funcs, ld>>

Change(g, v) ==
  /\ Rev < MaxRev
  /\ cached
  /\ watches = "yes"
  /\ gs[g].pc = "idle"
  /\ ~ReadLocked
  /\ v # hist[Rev]
  /\ hist' = Append(hist, v)
  /\ gs' = IF v = Absent THEN gs
           ELSE [gs EXCEPT ![g] = [pc |-> "changed", rev |-> Rev + 1, todo |-> {}]]
  /\ UNCHANGED <<setup, cached, hooked, field, init, funcs, ld>>

\* The hooks called are those the driver has by now.  A file's hook registered
\* since the change may not be called: its field loads the new content anyway.
RunHooks(g) ==
  /\ gs[g].pc = "changed"
  /\ gs' = [gs EXCEPT ![g] = IF hooked = {} THEN Quiet
                             ELSE [pc |-> "hooks", rev |-> gs[g].rev, todo |-> hooked]]
  /\ UNCHANGED <<setup, hist, cached, hooked, field, init, funcs, ld>>

HookOnlyFillsNil(g, f) ==
  /\ f \in gs[g].todo
  /\ \A h \in gs[g].todo : f <= h
  /\ field' = IF field[f] = 0 /\ Decodes(hist[gs[g].rev]) THEN [field EXCEPT ![f] = gs[g].rev]
              ELSE field
  /\ gs' = [gs EXCEPT ![g] = IF gs[g].todo = {f} THEN Quiet
                             ELSE [pc |-> "hooks", rev |-> gs[g].rev, todo |-> gs[g].todo \ {f}]]
  /\ UNCHANGED <<setup, hist, cached, hooked, init, funcs, ld>>

\* The hook of a field decodes what it is given and stores it, or fails.
Hook(g, f) ==
  /\ f \in gs[g].todo
  /\ \A h \in gs[g].todo : f <= h
  /\ field' = IF Decodes(hist[gs[g].rev]) THEN [field EXCEPT ![f] = gs[g].rev] ELSE field
  /\ gs' = [gs EXCEPT ![g] = IF gs[g].todo = {f} THEN Quiet
                             ELSE [pc |-> "hooks", rev |-> gs[g].rev, todo |-> gs[g].todo \ {f}]]
  /\ UNCHANGED <<setup, hist, cached, hooked, init, funcs, ld>>

\* Decode: the driver's Get, then the decoder.  A Get that misses asks etcd
\* and may fail; the content at hand may not be there or not decode.
Decode == Decodes(hist[Rev]) /\ cached' = TRUE
DecodeFails == (~cached \/ ~Decodes(hist[Rev])) /\ cached' \in {cached, TRUE}

-----------------------------------------------------------------------------
(* InitAndPreload takes the fields in order and stops at the first error.  *)

RegisterHook ==
  /\ init.pc = "hook"
  /\ watches = "yes"
  /\ ~ReadLocked
  /\ hooked' = hooked \cup {init.at}
  /\ init' = [init EXCEPT !.pc = "load"]
  /\ UNCHANGED <<setup, driver, field, funcs, ld>>

\* A file that is not watched, or an etcd path among others that are.
NotWatchable ==
  /\ init.pc = "hook"
  /\ watches = "no"
  /\ init' = [init EXCEPT !.pc = "failed"]
  /\ UNCHANGED <<setup, driver, hooked, field, funcs, ld>>

\* An etcd driver that watches no path has no watcher (etcd.go:121, 143).
OnKeyChangePanics ==
  /\ init.pc = "hook"
  /\ watches = "panics"
  /\ init' = [init EXCEPT !.pc = "panicked"]
  /\ UNCHANGED <<setup, driver, hooked, field, funcs, ld>>

Defer ==
  /\ init.pc = "load"
  /\ Lazy(init.at)
  /\ funcs' = funcs \cup {init.at}
  /\ init' = AtField(init.at + 1)
  /\ UNCHANGED <<setup, driver, hooked, field, ld>>

Preload ==
  /\ init.pc = "load"
  /\ ~Lazy(init.at)
  /\ Decode
  /\ init' = [init EXCEPT !.pc = "store", !.rev = Rev]
  /\ UNCHANGED <<setup, hist, gs, hooked, field, funcs, ld>>

PreloadFailsOn ==
  /\ init.pc = "load"
  /\ ~Lazy(init.at)
  /\ DecodeFails
  /\ init' = AtField(init.at + 1)
  /\ UNCHANGED <<setup, hist, gs, hooked, field, funcs, ld>>

PreloadFails ==
  /\ init.pc = "load"
  /\ ~Lazy(init.at)
  /\ DecodeFails
  /\ init' = [init EXCEPT !.pc = "failed"]
  /\ UNCHANGED <<setup, hist, gs, hooked, field, funcs, ld>>

PreloadStore ==
  /\ init.pc = "store"
  /\ field' = [field EXCEPT ![init.at] = init.rev]
  /\ init' = AtField(init.at + 1)
  /\ UNCHANGED <<setup, driver, hooked, funcs, ld>>

InitAndPreload ==
  RegisterHook \/ NotWatchable \/ OnKeyChangePanics \/ Defer \/ Preload \/ PreloadFails \/ PreloadStore

-----------------------------------------------------------------------------
(* TryLoad and AtomicStore, once InitAndPreload has returned its map.  A   *)
(* TryLoad of a field that is not nil, or has no function, is no step.     *)

TryLoad(c, f) ==
  /\ init.pc = "done"
  /\ ld[c].pc = "idle"
  /\ field[f] = 0
  /\ f \in funcs
  /\ ld' = [ld EXCEPT ![c] = [pc |-> "get", op |-> "try", field |-> f, rev |-> 0]]
  /\ UNCHANGED <<setup, driver, hooked, field, init, funcs>>

AtomicStore(c, f) ==
  /\ init.pc = "done"
  /\ ld[c].pc = "idle"
  /\ tag[f].pointer
  /\ ld' = [ld EXCEPT ![c] = [pc |-> "get", op |-> "atomic", field |-> f, rev |-> 0]]
  /\ UNCHANGED <<setup, driver, hooked, field, init, funcs>>

Get(c) ==
  /\ ld[c].pc = "get"
  /\ Decode
  /\ ld' = [ld EXCEPT ![c] = [@ EXCEPT !.pc = "store", !.rev = Rev]]
  /\ UNCHANGED <<setup, hist, gs, hooked, field, init, funcs>>

GetFails(c) ==
  /\ ld[c].pc = "get"
  /\ DecodeFails
  /\ ld' = [ld EXCEPT ![c].pc = "idle"]
  /\ UNCHANGED <<setup, hist, gs, hooked, field, init, funcs>>

\* AtomicStore decodes into a pointer, so null is stored as nil; the others
\* decode into a new value, and their pointer is never nil.
StoresNil(c) == ld[c].op = "atomic" /\ hist[ld[c].rev] = Null

Store(c) ==
  /\ ld[c].pc = "store"
  /\ field' = [field EXCEPT ![ld[c].field] = IF StoresNil(c) THEN 0 ELSE ld[c].rev]
  /\ ld' = [ld EXCEPT ![c] = [@ EXCEPT !.pc = IF ld[c].op = "try" THEN "check" ELSE "idle"]]
  /\ UNCHANGED <<setup, driver, hooked, init, funcs>>

\* TryLoad looks again: a pointer is returned, nil is ErrNotFound.
Check(c) ==
  /\ ld[c].pc = "check"
  /\ ld' = [ld EXCEPT ![c].pc = "idle"]
  /\ UNCHANGED <<setup, driver, hooked, field, init, funcs>>

Loader(c) ==
  \/ \E f \in Fields : TryLoad(c, f) \/ AtomicStore(c, f)
  \/ Get(c)
  \/ GetFails(c)
  \/ Store(c)
  \/ Check(c)

-----------------------------------------------------------------------------
Driver(g) ==
  \/ \E v \in Contents : Change(g, v)
  \/ RunHooks(g)
  \/ \E f \in Fields : Hook(g, f)

Next ==
  \/ \E v \in Contents : ChangeUnseen(v)
  \/ \E g \in Goroutines : Driver(g)
  \/ InitAndPreload
  \/ \E c \in Loaders : Loader(c)

Spec == Init /\ [][Next]_vars

-----------------------------------------------------------------------------
(* Properties.                                                             *)

\* g is about to give f a content that decodes.
WillHook(g, f) ==
  /\ gs[g].pc = "changed" \/ f \in gs[g].todo
  /\ Decodes(hist[gs[g].rev])

\* A watched field holds a content although the driver has had a newer one that
\* decodes, and no hook is on its way with one as new: it stays so until the key
\* changes again.
Stale(f) ==
  /\ f \in hooked
  /\ field[f] # 0
  /\ \E i \in 1..Rev :
       /\ i > field[f]
       /\ Decodes(hist[i])
       /\ \A g \in Goroutines : WillHook(g, f) => gs[g].rev < i

\* The last step of a load of f: its store.
LoadStores(f) ==
  \/ init.pc = "store" /\ init.at = f /\ init'.pc # "store"
  \/ \E c \in Loaders : ld[c].pc = "store" /\ ld[c].field = f /\ ld'[c].pc # "store"

\* A goroutine calls the hook of f with a content the entry has no more, since
\* another goroutine has updated it again.
HookOvertaken(f) ==
  \E g \in Goroutines : f \in gs[g].todo /\ f \notin gs'[g].todo /\ gs[g].rev < Rev

\* A watched field follows its key (load.go:26, load_test.go: addr4, addr5).  It
\* stops doing so only when a load stores, after the hook did, what it had read
\* before the change (load.go:170-176 and atomic.go:23-28 against 150-160), or
\* when two goroutines of an etcd driver, on prefixes Attach left overlapping
\* (watcher.go:55-66), call its hook in the other order than they updated the
\* entry (kv.go:231-241).
StaleOnlyIfOvertaken ==
  [][\A f \in Fields : Stale(f)' /\ ~Stale(f) => LoadStores(f) \/ HookOvertaken(f)]_vars

\* With one goroutine (any file, an etcd key under one watched prefix) the hooks
\* are called in the order of the changes, and only a load can be the cause.
StaleOnlyFromLoads ==
  [][\A f \in Fields : Stale(f)' /\ ~Stale(f) => LoadStores(f)]_vars

\* When InitAndPreload returns without an error, each field was loaded, or is
\* in the map and only a hook can have set it; a caller may dereference a field
\* that is not lazy (load.go:37-72).
PreloadedWhenDone ==
  [][init.pc # "done" /\ init'.pc = "done" =>
       \A f \in Fields : IF Lazy(f) THEN f \in funcs' ELSE field'[f] # 0]_vars
=================================================================================
