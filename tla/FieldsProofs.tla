------------------------------ MODULE FieldsProofs ------------------------------
(***************************************************************************)
(* Fields for any number of fields, goroutines, loaders, contents and      *)
(* changes: type correctness, when a watched field can become stale, and   *)
(* what a successful InitAndPreload leaves behind.                         *)
(***************************************************************************)
EXTENDS Fields, TLAPS

\* A goroutine of the driver works on a content the entry has had, and calls
\* hooks that are registered.
DriverInOrder ==
  \A g \in Goroutines :
    /\ gs[g].pc # "idle" => gs[g].rev # 0
    /\ gs[g].pc # "hooks" => gs[g].todo = {}
    /\ gs[g].todo \subseteq hooked

\* Whoever holds a content got it from the driver's entry.
ContentsAreCached ==
  /\ ~cached => /\ \A g \in Goroutines : gs[g].pc = "idle"
                /\ \A f \in Fields : field[f] = 0
                /\ init.pc # "store"
                /\ \A c \in Loaders : ld[c].pc # "store"
  /\ init.pc = "store" => init.rev # 0
  /\ \A c \in Loaders : ld[c].pc = "store" => ld[c].rev # 0

Initialising == init.pc \in {"hook", "load", "store"}

\* InitAndPreload is done with the fields before init.at, and has not touched
\* those after it; nobody calls TryLoad or AtomicStore before it returns.
InitInOrder ==
  /\ init.pc # "done" => \A c \in Loaders : ld[c].pc = "idle"
  /\ Initialising =>
       \A g \in Fields :
         /\ g < init.at => IF Lazy(g) THEN g \in funcs ELSE field[g] # 0
         /\ g > init.at => g \notin hooked /\ field[g] = 0
  /\ init.pc = "hook" => init.at \notin hooked /\ field[init.at] = 0
  /\ init.pc = "store" => ~Lazy(init.at)

IInv == TypeOK /\ DriverInOrder /\ ContentsAreCached /\ InitInOrder

\* Where InitAndPreload goes next: to a field that is there, or to its end.
LEMMA AtFieldFacts ==
  ASSUME NEW f \in 1..(NumFields + 1)
  PROVE  /\ AtField(f).at = f
         /\ AtField(f).rev = 0
         /\ AtField(f).pc \in {"hook", "load", "done"}
         /\ AtField(f).pc # "done" <=> f \in Fields
         /\ AtField(f) = [pc |-> AtField(f).pc, at |-> f, rev |-> 0]
BY FieldsAssumption DEF AtField, Begin, Fields

LEMMA InitIInv == Init => IInv
<1> SUFFICES ASSUME Init PROVE IInv
  OBVIOUS
<1>1. PICK v \in Contents : hist = <<v>>
  BY DEF Init
<1>2. hist \in Seq(Contents) /\ Rev = 1
  BY <1>1 DEF Rev
<1>3. 1 \in Fields /\ 1 \in 1..(NumFields + 1)
  BY FieldsAssumption DEF Fields
<1>4. init \in [pc : {"hook", "load"}, at : {1}, rev : {0}]
  BY <1>3, AtFieldFacts DEF Init
<1>5. TypeOK
  <2>1. ld \in [Loaders -> [pc : {"idle", "get", "store", "check"}, op : {"try", "atomic"},
                            field : Fields, rev : 0..Rev]]
    BY <1>2, <1>3 DEF Init
  <2>2. init \in [pc : {"hook", "load", "store", "done", "failed", "panicked"}, at : 1..(NumFields + 1), rev : 0..Rev]
    BY <1>2, <1>3, <1>4
  <2> QED
    BY <1>2, <1>3, <1>4, <2>1, <2>2 DEF Init, TypeOK, Quiet
<1>6. DriverInOrder /\ ContentsAreCached
  BY <1>4 DEF Init, DriverInOrder, ContentsAreCached, Quiet
<1>7. InitInOrder
  BY <1>3, <1>4 DEF Init, InitInOrder, Initialising, Fields
<1> QED
  BY <1>5, <1>6, <1>7 DEF IInv

-----------------------------------------------------------------------------
(* Types.                                                                  *)

\* The types once the newest content is the last of hist', which grows.
LEMMA Grown ==
  ASSUME TypeOK, NEW v \in Contents, hist' = Append(hist, v)
  PROVE  /\ hist' \in Seq(Contents)
         /\ Rev' = Rev + 1
         /\ Rev \in Nat
         /\ \A i \in 1..Rev : hist'[i] = hist[i]
         /\ hist'[Rev + 1] = v
BY DEF TypeOK, Rev

LEMMA GrownTyped ==
  ASSUME TypeOK, NEW v \in Contents, hist' = Append(hist, v),
         gs' \in [Goroutines -> [pc : {"idle", "changed", "hooks"}, rev : 0..(Rev + 1),
                                 todo : SUBSET Fields]],
         UNCHANGED <<setup, cached, hooked, field, init, funcs, ld>>
  PROVE  TypeOK'
<1>1. hist' \in Seq(Contents) /\ Rev' = Rev + 1 /\ Rev \in Nat
  BY Grown
<1>2. \A i \in 0..Rev : i \in 0..Rev'
  BY <1>1
<1>3. field' \in [Fields -> 0..Rev']
  BY <1>2 DEF TypeOK
<1>4. init' \in [pc : {"hook", "load", "store", "done", "failed", "panicked"},
                 at : 1..(NumFields + 1), rev : 0..Rev']
  BY <1>2 DEF TypeOK
<1>5. ld' \in [Loaders -> [pc : {"idle", "get", "store", "check"}, op : {"try", "atomic"},
                           field : Fields, rev : 0..Rev']]
  BY <1>2 DEF TypeOK
<1> QED
  BY <1>1, <1>3, <1>4, <1>5 DEF TypeOK, setup

\* InitAndPreload moves to a field or to its end, or stops.
LEMMA NextFieldTyped ==
  ASSUME TypeOK, init.at \in Fields, init' = AtField(init.at + 1), UNCHANGED hist
  PROVE  /\ init' \in [pc : {"hook", "load", "done"}, at : 1..(NumFields + 1), rev : 0..Rev]
         /\ init'.pc \in {"hook", "load", "store"} => init'.at \in Fields
<1>1. init.at + 1 \in 1..(NumFields + 1)
  BY FieldsAssumption DEF Fields
<1>2. 0 \in 0..Rev
  BY DEF TypeOK, Rev
<1> QED
  BY <1>1, <1>2, AtFieldFacts

GsType == [pc : {"idle", "changed", "hooks"}, rev : 0..Rev, todo : SUBSET Fields]

LEMMA QuietTyped == ASSUME TypeOK PROVE Quiet \in GsType
<1>1. 0 \in 0..Rev
  BY DEF TypeOK, Rev
<1> QED
  BY <1>1 DEF Quiet, GsType

LdType == [pc : {"idle", "get", "store", "check"}, op : {"try", "atomic"},
           field : Fields, rev : 0..Rev]

LEMMA StepTyped == ASSUME TypeOK, [Next]_vars PROVE TypeOK'
<1> USE DEF setup, driver
<1>1. ASSUME NEW g \in Goroutines, NEW v \in Contents, Change(g, v) PROVE TypeOK'
  <2> DEFINE Wider == [pc : {"idle", "changed", "hooks"}, rev : 0..(Rev + 1), todo : SUBSET Fields]
  <2>1. Rev \in Nat
    BY DEF TypeOK, Rev
  <2>2. GsType \subseteq Wider
    BY <2>1 DEF GsType
  <2>3. [pc |-> "changed", rev |-> Rev + 1, todo |-> {}] \in Wider
    BY <2>1
  <2>4. gs \in [Goroutines -> Wider]
    BY <2>2 DEF TypeOK, GsType
  <2> HIDE DEF Wider
  <2>5. gs' \in [Goroutines -> Wider]
    BY <1>1, <2>3, <2>4 DEF Change
  <2> QED
    BY <1>1, <2>5, GrownTyped DEF Change, Wider
<1>17. ASSUME NEW v \in Contents, ChangeUnseen(v) PROVE TypeOK'
  <2> DEFINE Wider == [pc : {"idle", "changed", "hooks"}, rev : 0..(Rev + 1), todo : SUBSET Fields]
  <2>1. Rev \in Nat
    BY DEF TypeOK, Rev
  <2>2. GsType \subseteq Wider
    BY <2>1 DEF GsType
  <2>3. gs \in [Goroutines -> Wider]
    BY <2>2 DEF TypeOK, GsType
  <2> QED
    BY <1>17, <2>3, GrownTyped DEF ChangeUnseen
<1>2. ASSUME NEW g \in Goroutines, RunHooks(g) PROVE TypeOK'
  <2>1. gs[g] \in GsType /\ hooked \in SUBSET Fields
    BY DEF TypeOK, GsType
  <2>2. [pc |-> "hooks", rev |-> gs[g].rev, todo |-> hooked] \in GsType
    BY <2>1 DEF GsType
  <2>3. gs' \in [Goroutines -> GsType]
    BY <1>2, <2>2, QuietTyped DEF RunHooks, TypeOK, GsType
  <2> QED
    BY <1>2, <2>3 DEF RunHooks, TypeOK, Rev, GsType
<1>3. ASSUME NEW g \in Goroutines, NEW f \in Fields, Hook(g, f) PROVE TypeOK'
  <2>0. gs[g] \in GsType
    BY DEF TypeOK, GsType
  <2>1. [pc |-> "hooks", rev |-> gs[g].rev, todo |-> gs[g].todo \ {f}] \in GsType
    BY <2>0 DEF GsType
  <2>2. gs' \in [Goroutines -> GsType]
    BY <1>3, <2>1, QuietTyped DEF Hook, TypeOK, GsType
  <2>3. field' \in [Fields -> 0..Rev]
    BY <1>3, <2>0 DEF Hook, TypeOK, GsType
  <2> QED
    BY <1>3, <2>2, <2>3 DEF Hook, TypeOK, Rev, GsType
<1>4. ASSUME RegisterHook PROVE TypeOK'
  BY <1>4 DEF RegisterHook, TypeOK, Rev
<1>5. ASSUME NotWatchable \/ OnKeyChangePanics PROVE TypeOK'
  BY <1>5 DEF NotWatchable, OnKeyChangePanics, TypeOK, Rev
<1>6. ASSUME Defer PROVE TypeOK'
  <2>1. init.at \in Fields
    BY <1>6 DEF Defer, TypeOK
  <2> QED
    BY <1>6, <2>1, NextFieldTyped DEF Defer, TypeOK, Rev
<1>7. ASSUME Preload PROVE TypeOK'
  <2>1. Rev \in 0..Rev
    BY DEF TypeOK, Rev
  <2> QED
    BY <1>7, <2>1 DEF Preload, Decode, TypeOK, Rev
<1>8. ASSUME PreloadFails PROVE TypeOK'
  BY <1>8 DEF PreloadFails, DecodeFails, TypeOK, Rev
<1>9. ASSUME PreloadStore PROVE TypeOK'
  <2>1. init.at \in Fields
    BY <1>9 DEF PreloadStore, TypeOK
  <2> QED
    BY <1>9, <2>1, NextFieldTyped DEF PreloadStore, TypeOK, Rev
<1>10. ASSUME NEW c \in Loaders, NEW f \in Fields, TryLoad(c, f) PROVE TypeOK'
  <2>1. 0 \in 0..Rev
    BY DEF TypeOK, Rev
  <2> QED
    BY <1>10, <2>1 DEF TryLoad, TypeOK, Rev
<1>11. ASSUME NEW c \in Loaders, NEW f \in Fields, AtomicStore(c, f) PROVE TypeOK'
  <2>1. 0 \in 0..Rev
    BY DEF TypeOK, Rev
  <2> QED
    BY <1>11, <2>1 DEF AtomicStore, TypeOK, Rev
<1>12. ASSUME NEW c \in Loaders, Get(c) PROVE TypeOK'
  <2>1. Rev \in 0..Rev
    BY DEF TypeOK, Rev
  <2> QED
    <3>1. ld[c] \in LdType
      BY DEF TypeOK, LdType
    <3>2. [ld[c] EXCEPT !.pc = "store", !.rev = Rev] \in LdType
      BY <2>1, <3>1 DEF LdType
    <3>3. ld' \in [Loaders -> LdType]
      BY <1>12, <3>2 DEF Get, TypeOK, LdType
    <3> QED
      BY <1>12, <3>3 DEF Get, Decode, TypeOK, Rev, LdType
<1>13. ASSUME NEW c \in Loaders, GetFails(c) PROVE TypeOK'
  BY <1>13 DEF GetFails, DecodeFails, TypeOK, Rev
<1>14. ASSUME NEW c \in Loaders, Store(c) PROVE TypeOK'
  <2>1. 0 \in 0..Rev /\ ld[c].rev \in 0..Rev
    BY DEF TypeOK, Rev
  <2>2. field' \in [Fields -> 0..Rev]
    BY <1>14, <2>1 DEF Store, TypeOK
  <2>3. [ld[c] EXCEPT !.pc = IF ld[c].op = "try" THEN "check" ELSE "idle"] \in LdType
    BY DEF TypeOK, LdType
  <2>4. ld' \in [Loaders -> LdType]
    BY <1>14, <2>3 DEF Store, TypeOK, LdType
  <2> QED
    BY <1>14, <2>2, <2>4 DEF Store, TypeOK, Rev, LdType
<1>15. ASSUME NEW c \in Loaders, Check(c) PROVE TypeOK'
  BY <1>15 DEF Check, TypeOK, Rev
<1>16. CASE UNCHANGED vars
  BY <1>16 DEF vars, TypeOK, Rev
<1> QED
  BY <1>1, <1>2, <1>3, <1>4, <1>5, <1>6, <1>7, <1>8, <1>9, <1>10, <1>11, <1>12, <1>13,
     <1>14, <1>15, <1>16, <1>17 DEF Next, Driver, InitAndPreload, Loader
-----------------------------------------------------------------------------
(* The order of things.                                                    *)

LEMMA StepDriver == ASSUME TypeOK, DriverInOrder, [Next]_vars PROVE DriverInOrder'
<1> USE DEF setup, driver
<1>1. ASSUME NEW g \in Goroutines, NEW v \in Contents, Change(g, v) PROVE DriverInOrder'
  <2>1. Rev + 1 # 0
    BY DEF TypeOK, Rev
  <2> QED
    BY <1>1, <2>1 DEF Change, DriverInOrder, TypeOK
<1>17. ASSUME NEW v \in Contents, ChangeUnseen(v) PROVE DriverInOrder'
  BY <1>17 DEF ChangeUnseen, DriverInOrder
<1>2. ASSUME NEW g \in Goroutines, RunHooks(g) PROVE DriverInOrder'
  BY <1>2 DEF RunHooks, DriverInOrder, TypeOK, Quiet
<1>3. ASSUME NEW g \in Goroutines, NEW f \in Fields, Hook(g, f) PROVE DriverInOrder'
  BY <1>3 DEF Hook, DriverInOrder, TypeOK, Quiet
<1>4. ASSUME RegisterHook PROVE DriverInOrder'
  BY <1>4 DEF RegisterHook, DriverInOrder, Rev, TypeOK
<1>5. ASSUME NotWatchable \/ OnKeyChangePanics PROVE DriverInOrder'
  BY <1>5 DEF NotWatchable, OnKeyChangePanics, DriverInOrder, Rev, TypeOK
<1>6. ASSUME Defer PROVE DriverInOrder'
  BY <1>6 DEF Defer, DriverInOrder, Rev, TypeOK
<1>7. ASSUME Preload PROVE DriverInOrder'
  BY <1>7 DEF Preload, DriverInOrder, Rev, TypeOK
<1>8. ASSUME PreloadFails PROVE DriverInOrder'
  BY <1>8 DEF PreloadFails, DriverInOrder, Rev, TypeOK
<1>9. ASSUME PreloadStore PROVE DriverInOrder'
  BY <1>9 DEF PreloadStore, DriverInOrder, Rev, TypeOK
<1>10. ASSUME NEW c \in Loaders, NEW f \in Fields, TryLoad(c, f) PROVE DriverInOrder'
  BY <1>10 DEF TryLoad, DriverInOrder, Rev, TypeOK
<1>11. ASSUME NEW c \in Loaders, NEW f \in Fields, AtomicStore(c, f) PROVE DriverInOrder'
  BY <1>11 DEF AtomicStore, DriverInOrder, Rev, TypeOK
<1>12. ASSUME NEW c \in Loaders, Get(c) PROVE DriverInOrder'
  BY <1>12 DEF Get, DriverInOrder, Rev, TypeOK
<1>13. ASSUME NEW c \in Loaders, GetFails(c) PROVE DriverInOrder'
  BY <1>13 DEF GetFails, DriverInOrder, Rev, TypeOK
<1>14. ASSUME NEW c \in Loaders, Store(c) PROVE DriverInOrder'
  BY <1>14 DEF Store, DriverInOrder, Rev, TypeOK
<1>15. ASSUME NEW c \in Loaders, Check(c) PROVE DriverInOrder'
  BY <1>15 DEF Check, DriverInOrder, Rev, TypeOK
<1>16. CASE UNCHANGED vars
  BY <1>16 DEF vars, DriverInOrder, Rev, TypeOK
<1> QED
  BY <1>1, <1>2, <1>3, <1>4, <1>5, <1>6, <1>7, <1>8,
     <1>9, <1>10, <1>11, <1>12, <1>13, <1>14, <1>15, <1>16, <1>17
     DEF Next, Driver, InitAndPreload, Loader

LEMMA StepCached ==
  ASSUME TypeOK, DriverInOrder, ContentsAreCached, [Next]_vars
  PROVE  ContentsAreCached'
<1> USE DEF setup, driver
<1>0. Rev # 0
  BY DEF TypeOK
<1>1. ASSUME NEW g \in Goroutines, NEW v \in Contents, Change(g, v) PROVE ContentsAreCached'
  BY <1>0, <1>1 DEF Change, ContentsAreCached, TypeOK
<1>17. ASSUME NEW v \in Contents, ChangeUnseen(v) PROVE ContentsAreCached'
  BY <1>0, <1>17 DEF ChangeUnseen, ContentsAreCached, TypeOK
<1>2. ASSUME NEW g \in Goroutines, RunHooks(g) PROVE ContentsAreCached'
  BY <1>0, <1>2 DEF RunHooks, ContentsAreCached, TypeOK
<1>3. ASSUME NEW g \in Goroutines, NEW f \in Fields, Hook(g, f) PROVE ContentsAreCached'
  BY <1>0, <1>3 DEF Hook, DriverInOrder, ContentsAreCached, TypeOK
<1>4. ASSUME RegisterHook PROVE ContentsAreCached'
  BY <1>0, <1>4 DEF RegisterHook, ContentsAreCached, TypeOK
<1>5. ASSUME NotWatchable \/ OnKeyChangePanics PROVE ContentsAreCached'
  BY <1>0, <1>5 DEF NotWatchable, OnKeyChangePanics, ContentsAreCached, TypeOK
<1>6. ASSUME Defer PROVE ContentsAreCached'
  <2>1. init.at + 1 \in 1..(NumFields + 1)
    BY <1>6, FieldsAssumption DEF Defer, TypeOK, Fields
  <2>2. init'.pc # "store"
    BY <1>6, <2>1, AtFieldFacts DEF Defer
  <2> QED
    BY <1>6, <2>2 DEF Defer, ContentsAreCached, TypeOK
<1>7. ASSUME Preload PROVE ContentsAreCached'
  BY <1>0, <1>7 DEF Preload, Decode, ContentsAreCached, TypeOK
<1>8. ASSUME PreloadFails PROVE ContentsAreCached'
  <2>1. ~cached' => ~cached
    BY <1>8, Zenon DEF PreloadFails, DecodeFails
  <2> QED
    BY <1>8, <2>1 DEF PreloadFails, ContentsAreCached, TypeOK
<1>9. ASSUME PreloadStore PROVE ContentsAreCached'
  <2>1. init.at + 1 \in 1..(NumFields + 1)
    BY <1>9, FieldsAssumption DEF PreloadStore, TypeOK, Fields
  <2>2. init'.pc # "store"
    BY <1>9, <2>1, AtFieldFacts DEF PreloadStore
  <2> QED
    BY <1>9, <2>2 DEF PreloadStore, ContentsAreCached, TypeOK
<1>10. ASSUME NEW c \in Loaders, NEW f \in Fields, TryLoad(c, f) PROVE ContentsAreCached'
  BY <1>0, <1>10 DEF TryLoad, ContentsAreCached, TypeOK
<1>11. ASSUME NEW c \in Loaders, NEW f \in Fields, AtomicStore(c, f) PROVE ContentsAreCached'
  BY <1>0, <1>11 DEF AtomicStore, ContentsAreCached, TypeOK
<1>12. ASSUME NEW c \in Loaders, Get(c) PROVE ContentsAreCached'
  BY <1>0, <1>12 DEF Get, Decode, ContentsAreCached, TypeOK
<1>13. ASSUME NEW c \in Loaders, GetFails(c) PROVE ContentsAreCached'
  <2>1. ~cached' => ~cached
    BY <1>13, Zenon DEF GetFails, DecodeFails
  <2> QED
    BY <1>13, <2>1 DEF GetFails, ContentsAreCached, TypeOK
<1>14. ASSUME NEW c \in Loaders, Store(c) PROVE ContentsAreCached'
  BY <1>0, <1>14 DEF Store, ContentsAreCached, TypeOK
<1>15. ASSUME NEW c \in Loaders, Check(c) PROVE ContentsAreCached'
  BY <1>0, <1>15 DEF Check, ContentsAreCached, TypeOK
<1>16. CASE UNCHANGED vars
  BY <1>0, <1>16 DEF vars, ContentsAreCached, TypeOK
<1> QED
  BY <1>1, <1>2, <1>3, <1>4, <1>5, <1>6, <1>7, <1>8,
     <1>9, <1>10, <1>11, <1>12, <1>13, <1>14, <1>15, <1>16, <1>17
     DEF Next, Driver, InitAndPreload, Loader

LEMMA StepInit ==
  ASSUME TypeOK, DriverInOrder, ContentsAreCached, InitInOrder, [Next]_vars
  PROVE  InitInOrder'
<1> USE DEF setup, driver
<1>1. ASSUME NEW g \in Goroutines, NEW v \in Contents, Change(g, v) PROVE InitInOrder'
  BY <1>1 DEF Change, InitInOrder, Initialising, TypeOK, Lazy
<1>17. ASSUME NEW v \in Contents, ChangeUnseen(v) PROVE InitInOrder'
  BY <1>17 DEF ChangeUnseen, InitInOrder, Initialising, TypeOK, Lazy
<1>2. ASSUME NEW g \in Goroutines, RunHooks(g) PROVE InitInOrder'
  BY <1>2 DEF RunHooks, InitInOrder, Initialising, TypeOK, Lazy
<1>3. ASSUME NEW g \in Goroutines, NEW f \in Fields, Hook(g, f) PROVE InitInOrder'
  <2>1. f \in hooked /\ gs[g].rev # 0
    BY <1>3 DEF Hook, DriverInOrder, TypeOK
  <2>2. \A h \in Fields : h # f => field'[h] = field[h]
    BY <1>3 DEF Hook, TypeOK
  <2>3. field'[f] = field[f] \/ field'[f] # 0
    BY <1>3, <2>1 DEF Hook, TypeOK
  <2> QED
    BY <1>3, <2>1, <2>2, <2>3 DEF Hook, InitInOrder, Initialising, TypeOK, Lazy
<1>4. ASSUME RegisterHook PROVE InitInOrder'
  BY <1>4 DEF RegisterHook, InitInOrder, Initialising, TypeOK, Lazy
<1>5. ASSUME NotWatchable \/ OnKeyChangePanics PROVE InitInOrder'
  BY <1>5 DEF NotWatchable, OnKeyChangePanics, InitInOrder, Initialising, TypeOK, Lazy
<1>6. ASSUME Defer PROVE InitInOrder'
  <2>1. init.at \in Fields /\ init.at + 1 \in 1..(NumFields + 1)
    BY <1>6, FieldsAssumption DEF Defer, TypeOK, Fields
  <2>2. /\ init'.at = init.at + 1
        /\ init'.pc # "done" <=> init.at + 1 \in Fields
        /\ init'.pc \in {"hook", "load", "done"}
    BY <1>6, <2>1, AtFieldFacts DEF Defer
  <2>3. \A g \in Fields :
           /\ g < init.at + 1 => IF Lazy(g) THEN g \in funcs' ELSE field'[g] # 0
           /\ g > init.at => g \notin hooked' /\ field'[g] = 0
    BY <1>6, <2>1 DEF Defer, InitInOrder, Initialising, ContentsAreCached, TypeOK, Fields
  <2> QED
    BY <1>6, <2>1, <2>2, <2>3 DEF Defer, InitInOrder, Initialising, TypeOK, Lazy, Fields
<1>7. ASSUME Preload PROVE InitInOrder'
  BY <1>7 DEF Preload, InitInOrder, Initialising, TypeOK, Lazy
<1>8. ASSUME PreloadFails PROVE InitInOrder'
  BY <1>8 DEF PreloadFails, InitInOrder, Initialising, TypeOK, Lazy
<1>9. ASSUME PreloadStore PROVE InitInOrder'
  <2>1. init.at \in Fields /\ init.at + 1 \in 1..(NumFields + 1)
    BY <1>9, FieldsAssumption DEF PreloadStore, TypeOK, Fields
  <2>2. /\ init'.at = init.at + 1
        /\ init'.pc # "done" <=> init.at + 1 \in Fields
        /\ init'.pc \in {"hook", "load", "done"}
    BY <1>9, <2>1, AtFieldFacts DEF PreloadStore
  <2>3. \A g \in Fields :
           /\ g < init.at + 1 => IF Lazy(g) THEN g \in funcs' ELSE field'[g] # 0
           /\ g > init.at => g \notin hooked' /\ field'[g] = 0
    BY <1>9, <2>1 DEF PreloadStore, InitInOrder, Initialising, ContentsAreCached, TypeOK, Fields
  <2> QED
    BY <1>9, <2>1, <2>2, <2>3 DEF PreloadStore, InitInOrder, Initialising, TypeOK, Lazy, Fields
<1>10. ASSUME NEW c \in Loaders, NEW f \in Fields, TryLoad(c, f) PROVE InitInOrder'
  BY <1>10 DEF TryLoad, InitInOrder, Initialising, TypeOK, Lazy
<1>11. ASSUME NEW c \in Loaders, NEW f \in Fields, AtomicStore(c, f) PROVE InitInOrder'
  BY <1>11 DEF AtomicStore, InitInOrder, Initialising, TypeOK, Lazy
<1>12. ASSUME NEW c \in Loaders, Get(c) PROVE InitInOrder'
  BY <1>12 DEF Get, InitInOrder, Initialising, TypeOK, Lazy
<1>13. ASSUME NEW c \in Loaders, GetFails(c) PROVE InitInOrder'
  BY <1>13 DEF GetFails, InitInOrder, Initialising, TypeOK, Lazy
<1>14. ASSUME NEW c \in Loaders, Store(c) PROVE InitInOrder'
  BY <1>14 DEF Store, InitInOrder, Initialising, TypeOK, Lazy
<1>15. ASSUME NEW c \in Loaders, Check(c) PROVE InitInOrder'
  BY <1>15 DEF Check, InitInOrder, Initialising, TypeOK, Lazy
<1>16. CASE UNCHANGED vars
  BY <1>16 DEF vars, InitInOrder, Initialising, TypeOK, Lazy
<1> QED
  BY <1>1, <1>2, <1>3, <1>4, <1>5, <1>6, <1>7, <1>8,
     <1>9, <1>10, <1>11, <1>12, <1>13, <1>14, <1>15, <1>16, <1>17
     DEF Next, Driver, InitAndPreload, Loader
LEMMA Invariance == Spec => []IInv
<1>1. ASSUME IInv, [Next]_vars PROVE IInv'
  BY <1>1, StepTyped, StepDriver, StepCached, StepInit DEF IInv
<1> QED
  BY <1>1, InitIInv, PTL DEF Spec

\* Only a load's store or an overtaken hook makes a watched field stale.
LEMMA StepStale ==
  ASSUME IInv, Next, NEW f \in Fields, Stale(f)', ~Stale(f)
  PROVE  LoadStores(f) \/ HookOvertaken(f)
<1> USE DEF IInv, setup, driver
<1>1. ASSUME NEW g \in Goroutines, NEW v \in Contents, Change(g, v) PROVE FALSE
  <2>1. /\ Rev' = Rev + 1
        /\ Rev \in Nat
        /\ \A i \in 1..Rev : hist'[i] = hist[i]
        /\ hist'[Rev + 1] = v
    BY <1>1, Grown DEF Change
  <2>2. ~WillHook(g, f)
    BY <1>1 DEF Change, WillHook, DriverInOrder
  <2>3. \A h \in Goroutines : gs[h].rev \in 0..Rev
    BY DEF TypeOK
  <2>4. \A h \in Goroutines : h # g => gs'[h] = gs[h]
    BY <1>1 DEF Change, TypeOK
  <2>5. PICK i \in 1..Rev' : /\ i > field'[f]
                             /\ Decodes(hist'[i])
                             /\ \A h \in Goroutines : WillHook(h, f)' => gs'[h].rev < i
    BY DEF Stale, Decodes
  <2>6. ~Decodes(v)
    <3>1. CASE v = Absent
      BY <3>1, FieldsAssumption DEF Decodes
    <3>2. CASE v # Absent
      <4>1. gs'[g].pc = "changed" /\ gs'[g].rev = Rev + 1
        BY <1>1, <3>2 DEF Change, TypeOK
      <4>2. Decodes(v) => WillHook(g, f)'
        BY <2>1, <4>1 DEF WillHook, Decodes
      <4> QED
        BY <2>1, <2>5, <4>1, <4>2
    <3> QED
      BY <3>1, <3>2
  <2>7. i \in 1..Rev /\ Decodes(hist[i]) /\ i > field[f] /\ f \in hooked /\ field[f] # 0
    <3>1. hooked' = hooked /\ field' = field
      BY <1>1 DEF Change
    <3>2. f \in hooked /\ field[f] # 0
      BY <3>1 DEF Stale
    <3>3. i # Rev + 1
      BY <2>1, <2>5, <2>6 DEF Decodes
    <3>4. i \in 1..Rev /\ hist'[i] = hist[i]
      BY <2>1, <3>3
    <3> QED
      BY <2>5, <3>1, <3>2, <3>4 DEF Decodes
  <2>8. ASSUME NEW h \in Goroutines, WillHook(h, f) PROVE gs[h].rev < i
    <3>1. h # g
      BY <2>2, <2>8
    <3>2. gs'[h] = gs[h] /\ gs[h].rev \in 1..Rev
      BY <2>1, <2>3, <2>4, <2>8, <3>1 DEF WillHook, DriverInOrder
    <3>3. WillHook(h, f)'
      BY <2>1, <2>8, <3>2 DEF WillHook, Decodes
    <3> QED
      BY <2>5, <3>2, <3>3
  <2> QED
    BY <2>7, <2>8 DEF Stale
<1>12. ASSUME NEW v \in Contents, ChangeUnseen(v) PROVE FALSE
  BY <1>12 DEF ChangeUnseen, Stale, ContentsAreCached
<1>2. ASSUME NEW g \in Goroutines, RunHooks(g) PROVE FALSE
  <2>1. f \in hooked
    BY <1>2 DEF RunHooks, Stale
  <2>2. gs'[g].rev = gs[g].rev /\ f \in gs'[g].todo
    BY <1>2, <2>1 DEF RunHooks, TypeOK
  <2>3. \A h \in Goroutines : h # g => gs'[h] = gs[h]
    BY <1>2 DEF RunHooks, TypeOK
  <2>4. \A h \in Goroutines : WillHook(h, f) => WillHook(h, f)' /\ gs'[h].rev = gs[h].rev
    BY <1>2, <2>2, <2>3 DEF RunHooks, WillHook, Decodes
  <2> QED
    BY <1>2, <2>4 DEF RunHooks, Stale, Decodes, Rev
<1>3. ASSUME NEW g \in Goroutines, NEW e \in Fields, Hook(g, e) PROVE HookOvertaken(f)
  <2> DEFINE r == gs[g].rev
  <2>1. r \in 0..Rev /\ Rev \in Nat /\ Rev' = Rev /\ hist' = hist /\ hooked' = hooked
    BY <1>3 DEF Hook, TypeOK, Rev
  <2>2. \A h \in Goroutines : h # g => gs'[h] = gs[h]
    BY <1>3 DEF Hook, TypeOK
  <2>3. PICK i \in 1..Rev : /\ i > field'[f]
                            /\ Decodes(hist[i])
                            /\ \A h \in Goroutines : WillHook(h, f)' => gs'[h].rev < i
    BY <2>1 DEF Stale, Decodes
  <2>4. \A h \in Goroutines : h # g /\ WillHook(h, f) => gs[h].rev < i
    BY <2>1, <2>2, <2>3 DEF WillHook, Decodes
  <2>5. ASSUME WillHook(g, f), e # f PROVE WillHook(g, f)' /\ gs'[g].rev = r
    BY <1>3, <2>1, <2>5 DEF Hook, WillHook, Decodes, TypeOK, DriverInOrder
  <2>6. ASSUME field'[f] = field[f], WillHook(g, f) => r < i PROVE FALSE
    BY <2>1, <2>3, <2>4, <2>6 DEF Stale
  <2>7. CASE e # f
    <3>1. field'[f] = field[f]
      BY <1>3, <2>7 DEF Hook, TypeOK
    <3>2. WillHook(g, f) => r < i
      BY <2>3, <2>5, <2>7
    <3> QED
      BY <2>6, <3>1, <3>2
  <2>8. CASE e = f /\ ~Decodes(hist[r])
    <3>1. field'[f] = field[f] /\ ~WillHook(g, f)
      BY <1>3, <2>8 DEF Hook, WillHook, Decodes
    <3> QED
      BY <2>6, <3>1
  <2>9. CASE e = f /\ Decodes(hist[r])
    <3>1. field'[f] = r
      BY <1>3, <2>9 DEF Hook, TypeOK
    <3>2. r < Rev
      BY <2>1, <2>3, <3>1
    <3>3. f \in gs[g].todo /\ f \notin gs'[g].todo
      BY <1>3, <2>9 DEF Hook, TypeOK, Quiet
    <3> QED
      BY <3>2, <3>3 DEF HookOvertaken
  <2> QED
    BY <2>7, <2>8, <2>9
<1>4. ASSUME RegisterHook PROVE FALSE
  BY <1>4 DEF RegisterHook, Stale, WillHook, InitInOrder, Decodes, Rev, TypeOK
<1>5. ASSUME UNCHANGED <<hist, gs, hooked, field>> PROVE FALSE
  BY <1>5 DEF Stale, WillHook, Decodes, Rev
<1>6. ASSUME PreloadStore PROVE LoadStores(f)
  <2>1. init.at \in Fields /\ init.at + 1 \in 1..(NumFields + 1)
    BY <1>6, FieldsAssumption DEF PreloadStore, TypeOK, Fields
  <2>2. init'.pc # "store"
    BY <1>6, <2>1, AtFieldFacts DEF PreloadStore
  <2>3. f = init.at
    <3>1. f # init.at => field'[f] = field[f]
      BY <1>6 DEF PreloadStore, TypeOK
    <3> QED
      BY <1>6, <3>1 DEF PreloadStore, Stale, WillHook, Decodes, Rev
  <2> QED
    BY <1>6, <2>2, <2>3 DEF PreloadStore, LoadStores
<1>7. ASSUME NEW c \in Loaders, Store(c) PROVE LoadStores(f)
  <2>1. ld'[c].pc # "store"
    BY <1>7 DEF Store, TypeOK
  <2>2. f = ld[c].field
    <3>1. f # ld[c].field => field'[f] = field[f]
      BY <1>7 DEF Store, TypeOK
    <3> QED
      BY <1>7, <3>1 DEF Store, Stale, WillHook, Decodes, Rev
  <2> QED
    BY <1>7, <2>1, <2>2 DEF Store, LoadStores
<1>8. CASE NotWatchable \/ OnKeyChangePanics \/ Defer \/ Preload \/ PreloadFails
  BY <1>5, <1>8 DEF NotWatchable, OnKeyChangePanics, Defer, Preload, PreloadFails
<1>9. ASSUME NEW c \in Loaders, NEW g \in Fields, TryLoad(c, g) \/ AtomicStore(c, g) PROVE FALSE
  BY <1>5, <1>9 DEF TryLoad, AtomicStore
<1>10. ASSUME NEW c \in Loaders, Get(c) \/ GetFails(c) \/ Check(c) PROVE FALSE
  BY <1>5, <1>10 DEF Get, GetFails, Check
<1> QED
  BY <1>1, <1>2, <1>3, <1>4, <1>6, <1>7, <1>8, <1>9, <1>10, <1>12
     DEF Next, Driver, InitAndPreload, Loader

-----------------------------------------------------------------------------
(* The theorems.                                                           *)

\* Every reachable state is well typed; in particular no step refers to a field
\* the struct does not have (load.go:37-69).
THEOREM TypeCorrect == Spec => []TypeOK
<1>1. IInv => TypeOK
  BY DEF IInv
<1> QED
  BY <1>1, Invariance, PTL

\* However many fields, goroutines, loaders and changes: a watched field stops
\* following its key only when a load stores what it read before a change, after
\* the hook, or when a hook is called with a content another goroutine of the
\* driver has replaced meanwhile.
THEOREM WatchedStaleOnlyIfOvertaken == Spec => StaleOnlyIfOvertaken
<1>1. ASSUME IInv, [Next]_vars
      PROVE  [\A f \in Fields : Stale(f)' /\ ~Stale(f) => LoadStores(f) \/ HookOvertaken(f)]_vars
  BY <1>1, StepStale
<1> QED
  BY <1>1, Invariance, PTL DEF Spec, StaleOnlyIfOvertaken

\* The only goroutine of a driver works on what the entry has now.
HandlesNewest == \A g \in Goroutines : gs[g].pc # "idle" => gs[g].rev = Rev

LEMMA StepHandlesNewest ==
  ASSUME \A g, h \in Goroutines : g = h, IInv, HandlesNewest, [Next]_vars
  PROVE  HandlesNewest'
<1> USE DEF IInv, setup, driver
<1>1. ASSUME NEW g \in Goroutines, NEW v \in Contents, Change(g, v) PROVE HandlesNewest'
  BY <1>1, Grown DEF Change, HandlesNewest, TypeOK
<1>2. ASSUME NEW v \in Contents, ChangeUnseen(v) PROVE HandlesNewest'
  BY <1>2 DEF ChangeUnseen, HandlesNewest, ContentsAreCached
<1>3. ASSUME NEW g \in Goroutines, RunHooks(g) PROVE HandlesNewest'
  BY <1>3 DEF RunHooks, HandlesNewest, TypeOK, Quiet, Rev
<1>4. ASSUME NEW g \in Goroutines, NEW f \in Fields, Hook(g, f) PROVE HandlesNewest'
  BY <1>4 DEF Hook, HandlesNewest, TypeOK, Quiet, Rev, DriverInOrder
<1>5. CASE UNCHANGED <<hist, gs>>
  BY <1>5 DEF HandlesNewest, Rev
<1> QED
  BY <1>1, <1>2, <1>3, <1>4, <1>5
     DEF Next, Driver, InitAndPreload, Loader, RegisterHook, NotWatchable, OnKeyChangePanics,
         Defer, Preload, PreloadFails, PreloadStore, TryLoad, AtomicStore, Get, GetFails, Store,
         Check, vars

\* With one goroutine, hooks are called in the order of the changes, and only a
\* load makes a watched field stale: so it is with any file, and with an etcd key
\* that one watched prefix covers (file.go:207, watcher.go:86-91).
THEOREM OneGoroutineStaleOnlyFromLoads ==
  ASSUME \A g, h \in Goroutines : g = h
  PROVE  Spec => StaleOnlyFromLoads
<1>1. Init => HandlesNewest
  BY DEF Init, HandlesNewest, Quiet
<1>2. ASSUME IInv, HandlesNewest, [Next]_vars PROVE HandlesNewest'
  BY <1>2, StepHandlesNewest
<1>3. ASSUME IInv, HandlesNewest, [Next]_vars
      PROVE  [\A f \in Fields : Stale(f)' /\ ~Stale(f) => LoadStores(f)]_vars
  <2>1. \A f \in Fields : ~HookOvertaken(f)
    BY <1>3 DEF HookOvertaken, HandlesNewest, IInv, TypeOK, DriverInOrder
  <2> QED
    BY <1>3, <2>1, StepStale
<1> QED
  BY <1>1, <1>2, <1>3, Invariance, PTL DEF Spec, StaleOnlyFromLoads

\* However many fields and whatever the driver does meanwhile: an InitAndPreload
\* that succeeds has loaded every field, or has its function in the map.
THEOREM PreloadsEveryField == Spec => PreloadedWhenDone
<1>1. ASSUME IInv, Next, init.pc # "done", init'.pc = "done", NEW f \in Fields
      PROVE  IF Lazy(f) THEN f \in funcs' ELSE field'[f] # 0
  <2> USE DEF IInv
  <2>1. CASE Defer \/ PreloadStore
    <3>1. init.at \in Fields /\ init.at + 1 \in 1..(NumFields + 1) /\ Initialising
      BY <1>1, <2>1, FieldsAssumption DEF Defer, PreloadStore, TypeOK, Fields, Initialising
    <3>2. init.at + 1 \notin Fields
      BY <1>1, <2>1, <3>1, AtFieldFacts DEF Defer, PreloadStore
    <3>3. f < init.at \/ f = init.at
      BY <3>1, <3>2, FieldsAssumption DEF Fields
    <3>4. CASE Defer
      BY <1>1, <3>1, <3>3, <3>4 DEF Defer, InitInOrder
    <3>5. CASE PreloadStore
      BY <1>1, <3>1, <3>3, <3>5 DEF PreloadStore, InitInOrder, ContentsAreCached, TypeOK
    <3> QED
      BY <2>1, <3>4, <3>5
  <2>2. CASE ~(Defer \/ PreloadStore)
    <3>1. init'.pc # "done"
      BY <1>1, <2>2 DEF Next, Driver, InitAndPreload, Loader, Driver, Change, ChangeUnseen, RunHooks, Hook,
         RegisterHook, NotWatchable, OnKeyChangePanics, Preload, PreloadFails, TryLoad, AtomicStore, Get, GetFails, Store, Check, TypeOK
    <3> QED
      BY <1>1, <3>1
  <2> QED
    BY <2>1, <2>2
<1>2. ASSUME IInv, [Next]_vars
      PROVE  [init.pc # "done" /\ init'.pc = "done" =>
                \A f \in Fields : IF Lazy(f) THEN f \in funcs' ELSE field'[f] # 0]_vars
  BY <1>1, <1>2
<1> QED
  BY <1>2, Invariance, PTL DEF Spec, PreloadedWhenDone
=================================================================================
