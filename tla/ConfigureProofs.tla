----------------------------- MODULE ConfigureProofs -----------------------------
(***************************************************************************)
(* What holds of Configure for any number of calls, sources, namespaces    *)
(* and goroutines that call Close.                                         *)
(***************************************************************************)
EXTENDS Configure, TLAPS

\* What one source leaves of the drivers: with new, its driver r among them.
After(c, new, r) == IF new THEN [driver EXCEPT ![This(c)] = r] ELSE driver

Also(c, new) == IF new THEN {This(c)} ELSE {}

FailsWith(c, new, r, clients) == Fails(c, After(c, new, r), Also(c, new), clients)

AddsWith(c, r, clients) ==
  /\ r.namespaces \cap Used(c) = {}
  /\ ds' = [ds EXCEPT ![c] = [n \in Namespaces |-> IF n \in r.namespaces THEN This(c) ELSE @[n]]]
  /\ driver' = [driver EXCEPT ![This(c)] = r]
  /\ client' = clients
  /\ UNCHANGED phase

Panics(c) ==
  /\ phase' = [phase EXCEPT ![c] = "panicked"]
  /\ UNCHANGED <<client, driver, ds>>

Status == [Clients -> {"none", "open", "closed"}]

\* The driver that a source makes.
MadeBy(c, r) ==
  /\ r.state = "open" /\ r.namespaces # {}
  /\ \/ r.schema = "file" /\ r.client = NoClient /\ r.close = FALSE
     \/ r.schema = "etcd" /\ r.client = This(c) /\ r.close = TRUE
     \/ /\ r.schema = "etcd" /\ r.client = factory.client /\ r.client \in Clients
        /\ r.close = factory.close
        /\ r.client = Own(c) \/ r.client \in lent'

\* Its client is the only one it opens.
Opens(c, r, clients) ==
  /\ \A k \in Clients \ {This(c)} : clients[k] = client[k]
  /\ r.client = This(c) => clients[This(c)] = "open"
  /\ r.client # This(c) => clients[This(c)] = client[This(c)]

\* A source that makes no driver leaves its client only if it had no rules, and
\* closes no other than the one of the factory.
Leaves(c, clients) ==
  /\ \/ clients[This(c)] \in {client[This(c)], "closed"}
     \/ clients[This(c)] = "open" /\ This(c) \in ruleless'
  /\ \A k \in Clients \ {This(c)} :
       \/ clients[k] = client[k]
       \/ /\ k = factory.client /\ factory.close /\ clients[k] = "closed"
          /\ k = Own(c) \/ k \in lent'

NoneMade(c, clients) == Leaves(c, clients) /\ FailsWith(c, FALSE, NotMade, clients)

OneMade(c, r, clients) ==
  /\ MadeBy(c, r)
  /\ Opens(c, r, clients)
  /\ FailsWith(c, TRUE, r, clients) \/ AddsWith(c, r, clients)

\* The factory has the client that a call was given or has dialled.
FactoryOfCall ==
  factory.client # NoClient =>
    \E b \in Calls :
      /\ factory.client = Own(b)
      /\ phase[b] \notin {"idle", "reading", "registering"}
      /\ asked[b].custom
      /\ factory.close = asked[b].close

LEMMA OwnName ==
  ASSUME NEW c \in Calls
  PROVE  Own(c) \in Clients /\ Own(c)[1] = c /\ Own(c)[2] = 0
  <1>1. 0 \in 0..MaxSources
    BY ConfigureAssumption
  <1> QED BY <1>1 DEF Own, Clients

LEMMA ThisName ==
  ASSUME NEW c \in Calls, sources \in 0..MaxSources, sources < MaxSources
  PROVE  /\ This(c) \in Drivers /\ This(c) \in Clients /\ This(c) \in DriversOf(c)
         /\ This(c) = <<c, sources + 1>> /\ This(c)[1] = c /\ This(c)[2] # 0
  <1>1. sources + 1 \in Sources /\ sources + 1 \in 0..MaxSources /\ sources + 1 # 0
    BY ConfigureAssumption DEF Sources
  <1> QED BY <1>1 DEF This, Drivers, Clients, DriversOf

\* NewAdvanced, on its own client or on the factory's.
LEMMA AdvancedEffect ==
  ASSUME CTypeOK, NEW c \in Calls, sources < MaxSources,
         NEW ns \in SUBSET Namespaces, NEW k \in Clients, NEW clients \in Status,
         NEW close \in BOOLEAN, NEW pre \in BOOLEAN, NewAdvanced(c, ns, k, clients, close, pre),
         \/ k = This(c) /\ close /\ clients = [client EXCEPT ![This(c)] = "open"]
         \/ /\ k = factory.client /\ close = factory.close /\ clients = client /\ k # This(c)
            /\ k = Own(c) \/ k \in lent'
  PROVE  /\ ruleless' \in SUBSET Clients /\ ruleless \subseteq ruleless'
         /\ \E r \in Driver, after \in Status : NoneMade(c, after) \/ OneMade(c, r, after)
  <1> DEFINE r == [state |-> "open", schema |-> "etcd", namespaces |-> ns,
                   client |-> k, close |-> close]
             after == [clients EXCEPT ![k] = "closed"]
  <1>1. /\ This(c) \in Drivers /\ This(c) \in Clients
        /\ client \in Status /\ clients \in Status /\ after \in Status
        /\ driver \in [Drivers -> Driver] /\ ruleless \in SUBSET Clients
    BY ThisName DEF CTypeOK, Status
  <1>2. r \in Driver /\ r.state = "open" /\ r.schema = "etcd" /\ r.namespaces = ns
        /\ r.client = k /\ r.close = close
    BY DEF Driver
  <1>3. \/ ns = {} /\ Fails(c, driver, {}, clients) /\ ruleless' = ruleless \cup {k}
        \/ /\ ruleless' = ruleless
           /\ \/ Fails(c, driver, {}, IF close THEN after ELSE clients)
              \/ ns # {} /\ Adds(c, This(c), [driver EXCEPT ![This(c)] = r], clients)
    BY DEF NewAdvanced
  <1>4. [driver EXCEPT ![This(c)] = r][This(c)] = r
    BY <1>1
  <1> HIDE DEF r, after
  <1>5. CASE ns = {} /\ Fails(c, driver, {}, clients) /\ ruleless' = ruleless \cup {k}
    <2>1. FailsWith(c, FALSE, NotMade, clients)
      BY <1>5 DEF FailsWith, After, Also
    <2>2. Leaves(c, clients)
      BY <1>1, <1>5 DEF Leaves, Status
    <2> QED BY <1>1, <1>2, <1>5, <2>1, <2>2 DEF NoneMade
  <1>6. CASE ruleless' = ruleless /\ Fails(c, driver, {}, IF close THEN after ELSE clients)
    <2> DEFINE left == IF close THEN after ELSE clients
    <2>1. FailsWith(c, FALSE, NotMade, left)
      BY <1>6 DEF FailsWith, After, Also
    <2>2. left \in Status
      BY <1>1
    <2>3. Leaves(c, left)
      BY <1>1 DEF Leaves, Status, after
    <2> QED BY <1>1, <1>2, <1>6, <2>1, <2>2, <2>3 DEF NoneMade
  <1>7. CASE ruleless' = ruleless /\ ns # {} /\ Adds(c, This(c), [driver EXCEPT ![This(c)] = r], clients)
    <2>1. FailsWith(c, TRUE, r, clients) \/ AddsWith(c, r, clients)
      BY <1>4, <1>7 DEF Adds, FailsWith, AddsWith, After, Also
    <2>2. MadeBy(c, r)
      BY <1>2, <1>7 DEF MadeBy
    <2>3. Opens(c, r, clients)
      BY <1>1, <1>2 DEF Opens, Status
    <2> QED BY <1>1, <1>2, <1>7, <2>1, <2>2, <2>3 DEF OneMade
  <1> QED BY <1>3, <1>5, <1>6, <1>7

\* A source that is gone through either fails the call, adds one driver that is
\* open and has namespaces, or panics.
LEMMA SourceEffect ==
  ASSUME CTypeOK, FactoryOfCall, NEW c \in Calls, NewSource(c)
  PROVE  /\ phase[c] = "building" /\ sources < MaxSources /\ sources' = sources + 1
         /\ UNCHANGED <<factory, preloads, closer, asked, met>>
         /\ lent' \in SUBSET Clients /\ ruleless' \in SUBSET Clients
         /\ lent \subseteq lent' /\ ruleless \subseteq ruleless'
         /\ \/ \E r \in Driver, clients \in Status : NoneMade(c, clients) \/ OneMade(c, r, clients)
            \/ Panics(c)
  <1>1. /\ client \in Status /\ NotMade \in Driver
        /\ phase[c] = "building" /\ sources < MaxSources /\ sources' = sources + 1
        /\ UNCHANGED <<factory, preloads, closer, asked, met>>
        /\ lent \in SUBSET Clients /\ ruleless \in SUBSET Clients
    <2>1. Source(c)
      BY DEF NewSource, DriverFails, SourceAddrPanics, NewFile, NewEtcd, NewCustomEtcd
    <2> QED BY <2>1 DEF Source, CTypeOK, Status, NotMade, Driver
  <1>2. This(c) \in Drivers /\ This(c) \in Clients /\ This(c)[2] # 0
    BY <1>1, ThisName DEF CTypeOK
  <1>3. CASE DriverFails(c)
    <2>1. FailsWith(c, FALSE, NotMade, client) /\ UNCHANGED <<lent, ruleless>>
      BY <1>3 DEF DriverFails, FailsWith, After, Also
    <2>2. NoneMade(c, client)
      BY <2>1 DEF NoneMade, Leaves
    <2> QED BY <1>1, <2>1, <2>2
  <1>4. CASE SourceAddrPanics(c)
    BY <1>1, <1>4 DEF SourceAddrPanics, Goes, Panics
  <1>5. ASSUME NEW ns \in (SUBSET Namespaces) \ {{}}, NewFile(c, ns)
        PROVE  /\ UNCHANGED <<lent, ruleless>>
               /\ \E r \in Driver : OneMade(c, r, client)
    <2> DEFINE r == [state |-> "open", schema |-> "file", namespaces |-> ns,
                     client |-> NoClient, close |-> FALSE]
    <2>1. r \in Driver /\ MadeBy(c, r) /\ r.client = NoClient
      BY DEF Driver, MadeBy
    <2>2. Adds(c, This(c), [driver EXCEPT ![This(c)] = r], client) /\ UNCHANGED <<lent, ruleless>>
      BY <1>5 DEF NewFile
    <2> HIDE DEF r
    <2>3. [driver EXCEPT ![This(c)] = r][This(c)] = r
      BY <1>2 DEF CTypeOK
    <2>4. FailsWith(c, TRUE, r, client) \/ AddsWith(c, r, client)
      BY <2>1, <2>2, <2>3 DEF Adds, FailsWith, AddsWith, After, Also
    <2>5. Opens(c, r, client)
      BY <1>2, <2>1, ConfigureAssumption DEF Opens
    <2> QED BY <2>1, <2>2, <2>4, <2>5 DEF OneMade
  <1>6. ASSUME NEW ns \in SUBSET Namespaces, NewEtcd(c, ns)
        PROVE  /\ lent' = lent /\ ruleless' \in SUBSET Clients /\ ruleless \subseteq ruleless'
               /\ \E r \in Driver, clients \in Status : NoneMade(c, clients) \/ OneMade(c, r, clients)
    <2> DEFINE clients == [client EXCEPT ![This(c)] = "open"]
    <2>1. NewAdvanced(c, ns, This(c), clients, TRUE, preloads) /\ lent' = lent
      BY <1>6 DEF NewEtcd
    <2>2. clients \in Status /\ preloads \in BOOLEAN
      BY <1>1, <1>2 DEF CTypeOK, Status
    <2> QED BY <1>1, <1>2, <2>1, <2>2, AdvancedEffect
  <1>7. ASSUME NEW ns \in SUBSET Namespaces, NewCustomEtcd(c, ns)
        PROVE  /\ lent' \in SUBSET Clients /\ lent \subseteq lent'
               /\ ruleless' \in SUBSET Clients /\ ruleless \subseteq ruleless'
               /\ \E r \in Driver, clients \in Status : NoneMade(c, clients) \/ OneMade(c, r, clients)
    <2>1. /\ NewAdvanced(c, ns, factory.client, client, factory.close, factory.preload)
          /\ factory.client \in Clients /\ factory.close \in BOOLEAN /\ factory.preload \in BOOLEAN
          /\ lent' = IF factory.client = Own(c) THEN lent ELSE lent \cup {factory.client}
      BY <1>7 DEF NewCustomEtcd, CTypeOK, Factory
    <2>2. lent' \in SUBSET Clients /\ lent \subseteq lent' /\ (factory.client = Own(c) \/ factory.client \in lent')
      BY <1>1, <2>1
    <2>3. factory.client # This(c)
      BY <1>2, <2>1, OwnName, ConfigureAssumption DEF FactoryOfCall
    <2> QED BY <1>1, <2>1, <2>2, <2>3, AdvancedEffect
  <1> QED BY <1>1, <1>3, <1>4, <1>5, <1>6, <1>7 DEF NewSource

-----------------------------------------------------------------------------
(* Drivers.                                                                *)

\* Drivers of a Configure were made for it, have namespaces, and none is there
\* before its construction.
Owned ==
  /\ \A c \in Calls : Made(c) \subseteq DriversOf(c)
  /\ \A c \in Calls : \A d \in Made(c) : driver[d].state # "none"
  /\ \A d \in Drivers : driver[d].state # "none" => driver[d].namespaces # {}
  /\ \A c \in Calls : phase[c] \in {"idle", "reading", "registering"} =>
       \A d \in DriversOf(c) : driver[d].state = "none"

IInv == CTypeOK /\ Owned /\ NamespacesAreServed /\ FailedLeavesNothing

LEMMA DriversOfCalls ==
  ASSUME NEW c \in Calls, NEW d \in DriversOf(c)
  PROVE  d \in Drivers /\ \A b \in Calls \ {c} : d \notin DriversOf(b)
  BY DEF DriversOf, Drivers

\* What is open stays so, with the drivers it has.
OthersKeep(c) ==
  \A b \in Calls \ {c} : phase'[b] = phase[b] /\ ds'[b] = ds[b]

LEMMA ClosersType ==
  ASSUME CTypeOK, NEW c \in Calls, phase[c] # "open", OthersKeep(c), closer' = closer
  PROVE  ClosersInRange'
  <1> SUFFICES ASSUME NEW x \in Closers, closer[x].pc # "idle"
               PROVE  /\ closer[x].call \in Calls /\ phase'[closer[x].call] = "open"
                      /\ closer[x].todo \subseteq Used(closer[x].call)'
                      /\ closer[x].pc \in {"close", "finish"} => closer[x].at \in Made(closer[x].call)'
    BY DEF ClosersInRange
  <1>1. /\ closer[x].call \in Calls \ {c} /\ closer[x].todo \subseteq Used(closer[x].call)
        /\ closer[x].pc \in {"close", "finish"} => closer[x].at \in Made(closer[x].call)
        /\ phase[closer[x].call] = "open"
    BY DEF CTypeOK, ClosersInRange
  <1>2. ds'[closer[x].call] = ds[closer[x].call] /\ phase'[closer[x].call] = phase[closer[x].call]
    BY <1>1 DEF OthersKeep
  <1> QED BY <1>1, <1>2 DEF Used, Made

LEMMA AfterType ==
  ASSUME CTypeOK, NEW c \in Calls, sources < MaxSources, NEW new \in BOOLEAN, NEW r \in Driver
  PROVE  /\ After(c, new, r) \in [Drivers -> Driver]
         /\ \A d \in Drivers : d \notin Also(c, new) => After(c, new, r)[d] = driver[d]
         /\ new => After(c, new, r)[This(c)] = r
         /\ Also(c, new) \subseteq DriversOf(c)
  BY ThisName DEF CTypeOK, After, Also

LEMMA FailsStep ==
  ASSUME IInv, NEW c \in Calls, phase[c] = "building", sources < MaxSources, sources' = sources + 1,
         NEW new \in BOOLEAN, NEW r \in Driver, new => r.state = "open" /\ r.namespaces # {},
         NEW clients \in Status, FailsWith(c, new, r, clients),
         UNCHANGED <<factory, preloads, closer, asked, met>>,
         lent' \in SUBSET Clients, ruleless' \in SUBSET Clients
  PROVE  IInv'
  <1> DEFINE made == After(c, new, r)
             shut == Made(c) \cup Also(c, new)
  <1>0. CTypeOK /\ Owned /\ NamespacesAreServed /\ FailedLeavesNothing
    BY DEF IInv
  <1>1. /\ made \in [Drivers -> Driver]
        /\ \A d \in Drivers : d \notin Also(c, new) => made[d] = driver[d]
        /\ new => made[This(c)] = r
        /\ shut \subseteq DriversOf(c)
    BY <1>0, AfterType DEF Owned
  <1>2. /\ phase' = [phase EXCEPT ![c] = "failed"]
        /\ driver' = [d \in Drivers |-> IF d \in shut THEN Closed(made[d]) ELSE made[d]]
        /\ client' \in Status
        /\ ds' = ds
    BY <1>0, OwnName DEF FailsWith, Fails, Goes, Close, Status, CTypeOK
  <1>3. ASSUME NEW d \in Drivers
        PROVE  /\ driver'[d] \in Driver
               /\ driver'[d].namespaces = made[d].namespaces
               /\ d \in shut => driver'[d].state = "closed"
               /\ d \notin shut => driver'[d] = driver[d]
    BY <1>1, <1>2 DEF Closed, Driver
  <1>4. OthersKeep(c) /\ phase'[c] = "failed"
    BY <1>0, <1>2 DEF OthersKeep, CTypeOK
  <1>5. ASSUME NEW d \in DriversOf(c), driver'[d].state # "none"
        PROVE  d \in shut /\ made[d].namespaces # {}
    <2>1. CASE d \in Also(c, new)
      BY <1>1, <2>1 DEF Also
    <2>2. CASE d \notin Also(c, new) /\ d \in Made(c)
      BY <1>0, <1>1, <2>2, DriversOfCalls DEF Owned
    <2>3. CASE d \notin Also(c, new) /\ d \notin Made(c)
      <3>1. driver'[d] = driver[d]
        BY <1>3, <2>3, DriversOfCalls
      <3>2. PICK n \in driver[d].namespaces : TRUE
        BY <1>0, <1>5, <3>1, DriversOfCalls DEF Owned
      <3>3. n \in Namespaces /\ d \in Drivers
        BY <1>0, DriversOfCalls DEF CTypeOK, Driver
      <3>4. ds[c][n] = d
        BY <1>0, <1>5, <3>1, <3>2 DEF NamespacesAreServed, DriverOf
      <3>5. d # NoDriver
        BY <3>3, ConfigureAssumption
      <3> QED BY <2>3, <3>3, <3>4, <3>5 DEF Made, Used
    <2> QED BY <2>1, <2>2, <2>3
  <1>6. ASSUME NEW b \in Calls \ {c}, NEW d \in DriversOf(b)
        PROVE  driver'[d] = driver[d]
    BY <1>1, <1>3, DriversOfCalls
  <1> HIDE DEF made, shut
  <1>7. CTypeOK'
    <2>1. driver' \in [Drivers -> Driver]
      BY <1>2, <1>3
    <2>2. phase' \in [Calls -> {"idle", "reading", "registering", "building", "open", "failed", "panicked"}]
      BY <1>0, <1>2 DEF CTypeOK
    <2>3. sources' \in 0..MaxSources
      BY <1>0, ConfigureAssumption DEF CTypeOK
    <2>4. ClosersInRange'
      BY <1>0, <1>4, ClosersType
    <2> QED BY <1>0, <1>2, <2>1, <2>2, <2>3, <2>4 DEF CTypeOK, Status
  <1>8. \A b \in Calls : Made(b)' = Made(b)
    BY <1>2 DEF Made, Used
  <1>9. Owned'
    <2>1. \A b \in Calls : Made(b)' \subseteq DriversOf(b)'
      BY <1>0, <1>8 DEF Owned, DriversOf
    <2>2. ASSUME NEW b \in Calls, NEW d \in Made(b) PROVE driver'[d].state # "none"
      <3>1. d \in DriversOf(b) /\ driver[d].state # "none" /\ d \in Drivers
        BY <1>0, <2>2, DriversOfCalls DEF Owned
      <3>2. CASE b = c
        BY <1>3, <3>1, <3>2 DEF shut
      <3>3. CASE b # c
        BY <1>6, <3>1, <3>3
      <3> QED BY <3>2, <3>3
    <2>3. ASSUME NEW d \in Drivers, driver'[d].state # "none" PROVE driver'[d].namespaces # {}
      <3>1. PICK b \in Calls : d \in DriversOf(b)
        BY DEF Drivers, DriversOf
      <3>2. CASE b = c
        BY <1>3, <1>5, <2>3, <3>1, <3>2
      <3>3. CASE b # c
        BY <1>0, <1>6, <2>3, <3>1, <3>3 DEF Owned
      <3> QED BY <3>2, <3>3
    <2>4. ASSUME NEW b \in Calls, phase'[b] \in {"idle", "reading", "registering"}, NEW d \in DriversOf(b)
          PROVE  driver'[d].state = "none"
      BY <1>0, <1>4, <1>6, <2>4 DEF Owned, OthersKeep
    <2> QED BY <1>8, <2>1, <2>2, <2>3, <2>4 DEF Owned, DriversOf
  <1>10. NamespacesAreServed'
    <2> SUFFICES ASSUME NEW b \in Calls, phase'[b] \in {"building", "open"},
                        NEW d \in DriversOf(b), driver'[d].state # "none",
                        NEW n \in driver'[d].namespaces
                 PROVE  ds'[b][n] = d
      BY DEF NamespacesAreServed, DriverOf, DriversOf
    <2>1. b # c
      BY <1>4
    <2> QED BY <1>0, <1>2, <1>4, <1>6, <2>1 DEF NamespacesAreServed, DriverOf, OthersKeep
  <1>11. FailedLeavesNothing'
    <2> SUFFICES ASSUME NEW b \in Calls, phase'[b] = "failed", NEW d \in DriversOf(b)
                 PROVE  driver'[d].state \in {"none", "closed"}
      BY DEF FailedLeavesNothing, DriversOf
    <2>1. CASE b = c
      BY <1>3, <1>5, <2>1, DriversOfCalls
    <2>2. CASE b # c
      BY <1>0, <1>4, <1>6, <2>2 DEF FailedLeavesNothing, OthersKeep
    <2> QED BY <2>1, <2>2
  <1> QED BY <1>7, <1>9, <1>10, <1>11 DEF IInv

LEMMA AddsStep ==
  ASSUME IInv, NEW c \in Calls, phase[c] = "building", sources < MaxSources, sources' = sources + 1,
         NEW r \in Driver, r.state = "open", r.namespaces # {},
         NEW clients \in Status, AddsWith(c, r, clients),
         UNCHANGED <<factory, preloads, closer, asked, met>>,
         lent' \in SUBSET Clients, ruleless' \in SUBSET Clients
  PROVE  IInv'
  <1> DEFINE t == This(c)
  <1>0. CTypeOK /\ Owned /\ NamespacesAreServed /\ FailedLeavesNothing
    BY DEF IInv
  <1>1. /\ t \in Drivers /\ t \in DriversOf(c)
        /\ r.namespaces \subseteq Namespaces /\ r.namespaces \cap Used(c) = {}
        /\ ds' = [ds EXCEPT ![c] = [n \in Namespaces |-> IF n \in r.namespaces THEN t ELSE @[n]]]
        /\ driver' = [driver EXCEPT ![t] = r]
        /\ client' \in Status
        /\ phase' = phase
        /\ t # NoDriver
    BY <1>0, ThisName, ConfigureAssumption DEF AddsWith, CTypeOK, Driver
  <1> HIDE DEF t
  <1>2. /\ driver'[t] = r
        /\ \A d \in Drivers \ {t} : driver'[d] = driver[d]
        /\ \A n \in Namespaces : ds'[c][n] = IF n \in r.namespaces THEN t ELSE ds[c][n]
        /\ \A b \in Calls \ {c} : ds'[b] = ds[b]
    BY <1>0, <1>1 DEF CTypeOK
  <1>3. ASSUME NEW b \in Calls, NEW d \in DriversOf(b), d # t \/ b # c
        PROVE  driver'[d] = driver[d] /\ d \in Drivers
    BY <1>1, <1>2, <1>3, DriversOfCalls
  <1>4. CTypeOK'
    <2>1. sources' \in 0..MaxSources
      BY <1>0, ConfigureAssumption DEF CTypeOK
    <2>2. OthersKeep(c)
      BY <1>1, <1>2 DEF OthersKeep
    <2>3. ds' \in [Calls -> [Namespaces -> Drivers \cup {NoDriver}]] /\ driver' \in [Drivers -> Driver]
      BY <1>0, <1>1 DEF CTypeOK
    <2>4. ClosersInRange'
      BY <1>0, <2>2, ClosersType
    <2> QED BY <1>0, <1>1, <2>1, <2>3, <2>4 DEF CTypeOK, Status
  <1>5. ASSUME NEW b \in Calls PROVE Made(b)' \subseteq IF b = c THEN Made(b) \cup {t} ELSE Made(b)
    BY <1>2 DEF Made, Used
  <1>6. Owned'
    <2>1. \A b \in Calls : Made(b)' \subseteq DriversOf(b)'
      BY <1>0, <1>1, <1>5 DEF Owned, DriversOf
    <2>2. ASSUME NEW b \in Calls, NEW d \in Made(b)' PROVE driver'[d].state # "none"
      <3>1. d \in DriversOf(b)
        BY <2>1 DEF DriversOf
      <3>2. CASE d = t
        BY <1>2, <3>2
      <3>3. CASE d # t
        <4>1. d \in Made(b)
          BY <1>5, <2>2, <3>3
        <4> QED BY <1>0, <1>3, <3>1, <3>3, <4>1 DEF Owned
      <3> QED BY <3>2, <3>3
    <2>3. ASSUME NEW d \in Drivers, driver'[d].state # "none" PROVE driver'[d].namespaces # {}
      BY <1>0, <1>2, <2>3 DEF Owned
    <2>4. ASSUME NEW b \in Calls, phase'[b] \in {"idle", "reading", "registering"}, NEW d \in DriversOf(b)
          PROVE  driver'[d].state = "none"
      BY <1>0, <1>1, <1>3, <2>4 DEF Owned
    <2> QED BY <2>1, <2>2, <2>3, <2>4 DEF Owned, DriversOf
  <1>7. NamespacesAreServed'
    <2> SUFFICES ASSUME NEW b \in Calls, phase'[b] \in {"building", "open"},
                        NEW d \in DriversOf(b), driver'[d].state # "none",
                        NEW n \in driver'[d].namespaces
                 PROVE  ds'[b][n] = d
      BY DEF NamespacesAreServed, DriverOf, DriversOf
    <2>1. CASE d = t
      <3>1. b = c
        BY <1>1, <2>1, DriversOfCalls
      <3> QED BY <1>1, <1>2, <2>1, <3>1
    <2>2. CASE d # t
      <3>1. driver'[d] = driver[d] /\ n \in Namespaces
        BY <1>0, <1>3, <2>2 DEF CTypeOK, Driver
      <3>2. ds[b][n] = d
        BY <1>0, <1>1, <3>1 DEF NamespacesAreServed, DriverOf
      <3>3. b = c => n \in Used(c)
        BY <1>3, <2>2, <3>1, <3>2, ConfigureAssumption DEF Used
      <3> QED BY <1>1, <1>2, <3>1, <3>2, <3>3
    <2> QED BY <2>1, <2>2
  <1>8. FailedLeavesNothing'
    <2> SUFFICES ASSUME NEW b \in Calls, phase'[b] = "failed", NEW d \in DriversOf(b)
                 PROVE  driver'[d].state \in {"none", "closed"}
      BY DEF FailedLeavesNothing, DriversOf
    <2>1. b # c /\ driver'[d] = driver[d]
      BY <1>1, <1>3
    <2> QED BY <1>0, <1>1, <2>1 DEF FailedLeavesNothing
  <1> QED BY <1>4, <1>6, <1>7, <1>8 DEF IInv

\* Steps of a call that leave the drivers and cfg.ds.
LEMMA PhaseStep ==
  ASSUME IInv, NEW c \in Calls, NEW to,
         phase' = [phase EXCEPT ![c] = to],
         \/ phase[c] = "idle" /\ to \in {"reading", "registering", "failed"}
         \/ phase[c] = "reading" /\ to \in {"registering", "failed"}
         \/ phase[c] = "registering" /\ to = "building"
         \/ phase[c] = "building" /\ to \in {"open", "panicked"},
         UNCHANGED <<driver, ds, closer, met>>,
         factory' \in Factory, preloads' \in BOOLEAN, client' \in Status, sources' \in 0..MaxSources,
         asked' \in [Calls -> Options], lent' \in SUBSET Clients, ruleless' \in SUBSET Clients
  PROVE  IInv'
  <1>0. CTypeOK /\ Owned /\ NamespacesAreServed /\ FailedLeavesNothing
    BY DEF IInv
  <1>1. phase'[c] = to /\ \A b \in Calls \ {c} : phase'[b] = phase[b]
    BY <1>0 DEF CTypeOK
  <1>2. CTypeOK'
    <2>1. OthersKeep(c) /\ phase[c] # "open"
      BY <1>1 DEF OthersKeep
    <2>2. ClosersInRange'
      BY <1>0, <2>1, ClosersType
    <2>3. phase' \in [Calls -> {"idle", "reading", "registering", "building", "open", "failed", "panicked"}]
      BY <1>0 DEF CTypeOK
    <2> QED BY <1>0, <2>2, <2>3 DEF CTypeOK, Status
  <1>3. Owned'
    BY <1>0, <1>1 DEF Owned, Made, Used, DriversOf
  <1>4. NamespacesAreServed'
    BY <1>0, <1>1 DEF Owned, NamespacesAreServed, DriverOf, DriversOf
  <1>5. FailedLeavesNothing'
    BY <1>0, <1>1 DEF Owned, FailedLeavesNothing, DriversOf
  <1> QED BY <1>2, <1>3, <1>4, <1>5 DEF IInv

\* Close of a Configure only closes drivers, and only the drivers it has.
LEMMA CloserStep ==
  ASSUME IInv, NEW x \in Closers, Closer(x)
  PROVE  /\ IInv'
         /\ UNCHANGED <<factory, preloads, phase, ds, sources, asked, lent, ruleless>>
         /\ \A y \in Closers \ {x} : closer'[y] = closer[y]
         /\ \A d \in Drivers :
              /\ driver'[d].namespaces = driver[d].namespaces /\ driver'[d].client = driver[d].client
              /\ driver'[d].close = driver[d].close /\ driver'[d].schema = driver[d].schema
  <1>0. CTypeOK /\ Owned /\ NamespacesAreServed /\ FailedLeavesNothing
    BY DEF IInv
  <1>1. /\ UNCHANGED <<factory, preloads, phase, ds, sources, asked, lent, ruleless>>
        /\ \E r : closer' = [closer EXCEPT ![x] = r]
    BY DEF Closer, Closing, CloseCalled, Visit, CloseFile, CloseClient, Finish, CloseReturns
  <1>2. \A y \in Closers \ {x} : closer'[y] = closer[y]
    BY <1>0, <1>1 DEF CTypeOK
  <1>3. ASSUME closer[x].at # NoDriver, closer[x].pc \in {"close", "finish"}
        PROVE  /\ closer[x].call \in Calls /\ phase[closer[x].call] = "open"
               /\ closer[x].at \in DriversOf(closer[x].call) /\ closer[x].at \in Drivers
               /\ closer[x].at \in Made(closer[x].call)
    BY <1>0, <1>3, DriversOfCalls DEF CTypeOK, ClosersInRange, Owned
  <1>4. \/ driver' = driver
        \/ /\ closer[x].at # NoDriver /\ closer[x].pc \in {"close", "finish"}
           /\ \/ driver' = [driver EXCEPT ![closer[x].at].state = "quit"]
              \/ driver' = [driver EXCEPT ![closer[x].at] = Closed(@)]
    BY DEF Closer, Closing, CloseCalled, Visit, CloseFile, CloseClient, Finish, CloseReturns
  <1>5. /\ driver' \in [Drivers -> Driver]
        /\ \A d \in Drivers :
             /\ driver'[d].namespaces = driver[d].namespaces /\ driver'[d].client = driver[d].client
             /\ driver'[d].close = driver[d].close /\ driver'[d].schema = driver[d].schema
             /\ \/ driver'[d].state = driver[d].state
                \/ /\ driver'[d].state \in {"quit", "closed"}
                   /\ closer[x].call \in Calls /\ phase[closer[x].call] = "open"
                   /\ d \in Made(closer[x].call) /\ d \in DriversOf(closer[x].call)
    <2>1. driver \in [Drivers -> Driver]
      BY <1>0 DEF CTypeOK
    <2>2. CASE driver' = driver
      BY <2>1, <2>2
    <2>3. CASE driver' # driver
      <3> DEFINE d == closer[x].at
      <3>1. d \in Drivers /\ d \in DriversOf(closer[x].call) /\ phase[closer[x].call] = "open"
            /\ d \in Made(closer[x].call) /\ closer[x].call \in Calls
        BY <1>3, <1>4, <2>3
      <3>2. PICK s \in {"quit", "closed"} : driver' = [driver EXCEPT ![d] = [@ EXCEPT !.state = s]]
        BY <1>4, <2>3 DEF Closed
      <3> HIDE DEF d
      <3>3. [driver[d] EXCEPT !.state = s] \in Driver
        BY <2>1, <3>1 DEF Driver
      <3>4. driver' \in [Drivers -> Driver] /\ driver'[d] = [driver[d] EXCEPT !.state = s]
            /\ \A e \in Drivers \ {d} : driver'[e] = driver[e]
        BY <2>1, <3>1, <3>2, <3>3
      <3>5. driver'[d].state = s /\ driver'[d].namespaces = driver[d].namespaces
            /\ driver'[d].client = driver[d].client /\ driver'[d].close = driver[d].close
            /\ driver'[d].schema = driver[d].schema
        BY <2>1, <3>1, <3>4 DEF Driver
      <3> QED BY <3>1, <3>4, <3>5
    <2> QED BY <2>2, <2>3
  <1>6. client' \in Status
    <2>1. closer[x].at # NoDriver => closer[x].at \in Drivers
      BY <1>0 DEF CTypeOK
    <2> QED BY <1>0, <2>1 DEF Closer, Closing, CloseCalled, Visit, CloseFile, CloseClient, Finish,
                              CloseReturns, CTypeOK, Driver, Status
  <1>7. /\ closer' \in [Closers ->
             [pc : {"idle", "next", "close", "finish", "done", "panicked"},
              call : Calls \cup {NoCall}, todo : SUBSET Namespaces, at : Drivers \cup {NoDriver}]]
        /\ \/ closer'[x].pc = "idle"
           \/ /\ closer'[x].call \in Calls /\ phase[closer'[x].call] = "open"
              /\ closer'[x].todo \subseteq Used(closer'[x].call)
              /\ closer'[x].pc \in {"close", "finish"} => closer'[x].at \in Made(closer'[x].call)
    <2> DEFINE r == closer[x]
    <2>0. /\ r.pc # "idle" => r.call \in Calls /\ phase[r.call] = "open" /\ r.todo \subseteq Used(r.call)
          /\ r.pc \in {"close", "finish"} => r.at \in Made(r.call)
          /\ closer \in [Closers ->
               [pc : {"idle", "next", "close", "finish", "done", "panicked"},
                call : Calls \cup {NoCall}, todo : SUBSET Namespaces, at : Drivers \cup {NoDriver}]]
      BY <1>0 DEF CTypeOK, ClosersInRange
    <2>1. ASSUME NEW c \in Calls, CloseCalled(x, c) PROVE <1>7!:
      BY <2>0, <2>1 DEF CloseCalled, Closing, Used
    <2>2. ASSUME NEW n \in Namespaces, Visit(x, n) PROVE <1>7!:
      <3>1. n \in Used(r.call) /\ ds[r.call][n] \in Drivers /\ ds[r.call][n] \in Made(r.call)
        BY <1>0, <2>0, <2>2 DEF Visit, Closing, Made, Used, CTypeOK
      <3> QED BY <2>0, <2>2, <3>1 DEF Visit, Closing
    <2>3. CASE CloseFile(x)
      <3>1. /\ r.pc = "close"
            /\ \E to \in {"finish", "panicked"} : closer' = [closer EXCEPT ![x] = [r EXCEPT !.pc = to]]
        BY <2>3 DEF CloseFile, Closing
      <3> QED BY <2>0, <3>1
    <2>4. CASE CloseClient(x)
      BY <2>0, <2>4 DEF CloseClient, Closing
    <2>5. CASE Finish(x)
      BY <2>0, <2>5 DEF Finish, Closing
    <2>6. CASE CloseReturns(x)
      BY <2>0, <2>6 DEF CloseReturns, Closing
    <2> QED BY <2>1, <2>2, <2>3, <2>4, <2>5, <2>6 DEF Closer
  <1>8. CTypeOK'
    <2>1. ClosersInRange'
      BY <1>0, <1>1, <1>2, <1>7 DEF CTypeOK, ClosersInRange, Used, Made
    <2>2. met' \in SUBSET Closers
      BY <1>0 DEF CTypeOK, Closer, CloseCalled, AtWork, Visit, CloseFile, CloseClient, Finish,
                  CloseReturns
    <2> QED BY <1>0, <1>1, <1>5, <1>6, <1>7, <2>1, <2>2 DEF CTypeOK, Status
  <1>9. Owned'
    BY <1>0, <1>1, <1>5, DriversOfCalls DEF Owned, Made, Used, DriversOf
  <1>10. NamespacesAreServed'
    <2>1. \A d \in Drivers : driver'[d].state # "none" => driver[d].state # "none"
      BY <1>0, <1>5 DEF Owned
    <2> QED BY <1>0, <1>1, <1>5, <2>1, DriversOfCalls DEF NamespacesAreServed, DriverOf, DriversOf
  <1>11. FailedLeavesNothing'
    <2> SUFFICES ASSUME NEW b \in Calls, phase[b] = "failed", NEW d \in DriversOf(b)
                 PROVE  driver'[d].state \in {"none", "closed"}
      BY <1>1 DEF FailedLeavesNothing, DriversOf
    <2>1. driver'[d].state = driver[d].state
      BY <1>5, DriversOfCalls
    <2> QED BY <1>0, <2>1 DEF FailedLeavesNothing
  <1> QED BY <1>1, <1>2, <1>5, <1>8, <1>9, <1>10, <1>11 DEF IInv

LEMMA InitInv == Init => IInv
  <1> SUFFICES ASSUME Init PROVE IInv
    OBVIOUS
  <1>1. 0 \in 0..MaxSources /\ NotMade \in Driver /\ Unregistered \in Factory
    BY ConfigureAssumption DEF NotMade, Driver, Unregistered, Factory
  <1>2. CTypeOK
    BY <1>1 DEF Init, CTypeOK, ClosersInRange, Options
  <1>3. Owned
    BY DEF Init, Owned, Made, Used, DriversOf, Drivers, NotMade
  <1>4. NamespacesAreServed /\ FailedLeavesNothing
    BY DEF Init, NamespacesAreServed, FailedLeavesNothing
  <1> QED BY <1>2, <1>3, <1>4 DEF IInv

LEMMA FactoryStep == CTypeOK /\ FactoryOfCall /\ [Next]_vars => FactoryOfCall'
  <1> SUFFICES ASSUME CTypeOK, FactoryOfCall, [Next]_vars PROVE FactoryOfCall'
    OBVIOUS
  <1>1. ASSUME NEW c \in Calls, RegisterDriver(c) PROVE FactoryOfCall'
    <2>1. /\ phase'[c] = "building"
          /\ \A b \in Calls \ {c} : phase'[b] = phase[b]
          /\ asked' = asked
      BY <1>1 DEF RegisterDriver, Goes, CTypeOK
    <2>2. CASE asked[c].custom
      <3>1. factory'.client = Own(c) /\ factory'.close = asked[c].close
        BY <1>1, <2>2 DEF RegisterDriver
      <3> QED BY <2>1, <2>2, <3>1 DEF FactoryOfCall
    <2>3. CASE ~asked[c].custom
      <3>1. factory' = factory
        BY <1>1, <2>3 DEF RegisterDriver
      <3> QED BY <2>1, <3>1 DEF FactoryOfCall, Own
    <2> QED BY <2>2, <2>3
  <1>2. CASE /\ factory' = factory
             /\ \A b \in Calls :
                  phase[b] \notin {"idle", "reading", "registering"} =>
                    /\ phase'[b] \notin {"idle", "reading", "registering"}
                    /\ asked'[b] = asked[b]
    BY <1>2 DEF FactoryOfCall, Own
  <1>3. ASSUME NEW c \in Calls, NEW o \in Options, NewConfigure(c, o) \/ FromEtcdConfig(c, o)
        PROVE  <1>2!1
    BY <1>3 DEF NewConfigure, FromEtcdConfig, Goes, CTypeOK
  <1>4. ASSUME NEW c \in Calls, DialFails(c) \/ FromEtcdFails(c) \/ FromEtcd(c) \/ Returns(c)
        PROVE  <1>2!1
    BY <1>4 DEF DialFails, FromEtcdFails, FromEtcd, Returns, Goes, CTypeOK
  <1>5. ASSUME NEW c \in Calls, NewSource(c) PROVE <1>2!1
    <2>1. UNCHANGED <<factory, asked>> /\ phase[c] = "building"
          /\ (phase' = phase \/ \E to \in {"failed", "panicked"} : phase' = [phase EXCEPT ![c] = to])
      <3>1. /\ UNCHANGED <<factory, asked>> /\ phase[c] = "building"
            /\ \/ \E r \in Driver, clients \in Status : NoneMade(c, clients) \/ OneMade(c, r, clients)
               \/ Panics(c)
        BY <1>5, SourceEffect
      <3> QED BY <3>1 DEF NoneMade, OneMade, FailsWith, AddsWith, Panics, Fails, Goes
    <2> QED BY <2>1 DEF CTypeOK
  <1>6. ASSUME NEW x \in Closers, Closer(x) PROVE <1>2!1
    BY <1>6 DEF Closer, Closing, CloseCalled, Visit, CloseFile, CloseClient, Finish, CloseReturns
  <1>7. CASE UNCHANGED vars
    BY <1>2, <1>7 DEF vars
  <1> QED BY <1>1, <1>2, <1>3, <1>4, <1>5, <1>6, <1>7 DEF Next

LEMMA StepInv == IInv /\ FactoryOfCall /\ [Next]_vars => IInv'
  <1> SUFFICES ASSUME IInv, FactoryOfCall, [Next]_vars PROVE IInv'
    OBVIOUS
  <1>0. CTypeOK
    BY DEF IInv
  <1>1. ASSUME NEW c \in Calls, NEW o \in Options, NewConfigure(c, o) \/ FromEtcdConfig(c, o)
        PROVE  IInv'
    <2>1. /\ phase[c] = "idle"
          /\ \E to \in {"reading", "registering"} : phase' = [phase EXCEPT ![c] = to]
          /\ client' \in Status /\ asked' \in [Calls -> Options]
          /\ UNCHANGED <<factory, preloads, driver, ds, sources, closer, lent, ruleless, met>>
      <3>1. /\ phase[c] = "idle"
            /\ \/ phase' = [phase EXCEPT ![c] = "reading"]
               \/ phase' = [phase EXCEPT ![c] = "registering"]
            /\ client' \in {client, [client EXCEPT ![Own(c)] = "open"]}
            /\ asked' = [asked EXCEPT ![c] = o]
            /\ UNCHANGED <<factory, preloads, driver, ds, sources, closer, lent, ruleless, met>>
        BY <1>1 DEF NewConfigure, FromEtcdConfig, Goes
      <3>2. client' \in Status
        BY <1>0, <3>1, OwnName DEF CTypeOK, Status
      <3>3. asked' \in [Calls -> Options]
        BY <1>0, <3>1 DEF CTypeOK
      <3> QED BY <3>1, <3>2, <3>3
    <2>2. PICK to \in {"reading", "registering"} : phase' = [phase EXCEPT ![c] = to]
      BY <2>1
    <2>3. /\ factory' \in Factory /\ preloads' \in BOOLEAN /\ sources' \in 0..MaxSources
          /\ lent' \in SUBSET Clients /\ ruleless' \in SUBSET Clients
      BY <1>0, <2>1 DEF CTypeOK
    <2> QED BY <2>1, <2>2, <2>3, PhaseStep
  <1>2. ASSUME NEW c \in Calls, DialFails(c) \/ FromEtcdFails(c) \/ FromEtcd(c)
        PROVE  IInv'
    <2>1. /\ \/ phase[c] = "idle" /\ phase' = [phase EXCEPT ![c] = "failed"]
             \/ /\ phase[c] = "reading"
                /\ \E to \in {"registering", "failed"} : phase' = [phase EXCEPT ![c] = to]
          /\ client' \in Status
          /\ UNCHANGED <<factory, preloads, driver, ds, sources, closer, asked, lent, ruleless, met>>
      BY <1>0, <1>2, OwnName DEF DialFails, FromEtcdFails, FromEtcd, Goes, CTypeOK, Status
    <2> QED BY <1>0, <2>1, PhaseStep DEF CTypeOK
  <1>3. ASSUME NEW c \in Calls, RegisterDriver(c) PROVE IInv'
    <2>1. /\ phase[c] = "registering" /\ phase' = [phase EXCEPT ![c] = "building"]
          /\ UNCHANGED <<client, driver, ds, sources, closer, asked, lent, ruleless, met>>
          /\ preloads' \in BOOLEAN /\ factory' \in Factory
      BY <1>0, <1>3, OwnName DEF RegisterDriver, Goes, CTypeOK, Options, Factory
    <2>2. client' \in Status
      BY <1>0, <2>1 DEF CTypeOK, Status
    <2> QED BY <1>0, <2>1, <2>2, PhaseStep DEF CTypeOK
  <1>4. ASSUME NEW c \in Calls, Returns(c) PROVE IInv'
    <2>1. /\ phase[c] = "building" /\ phase' = [phase EXCEPT ![c] = "open"]
          /\ UNCHANGED <<factory, preloads, client, driver, ds, sources, closer, asked, lent, ruleless, met>>
      BY <1>4 DEF Returns, Goes
    <2>2. client' \in Status
      BY <1>0, <2>1 DEF CTypeOK, Status
    <2> QED BY <1>0, <2>1, <2>2, PhaseStep DEF CTypeOK
  <1>5. ASSUME NEW c \in Calls, NewSource(c) PROVE IInv'
    <2>1. /\ phase[c] = "building" /\ sources < MaxSources /\ sources' = sources + 1
          /\ UNCHANGED <<factory, preloads, closer, asked, met>>
          /\ lent' \in SUBSET Clients /\ ruleless' \in SUBSET Clients
          /\ \/ \E r \in Driver, clients \in Status : NoneMade(c, clients) \/ OneMade(c, r, clients)
             \/ Panics(c)
      BY <1>0, <1>5, SourceEffect
    <2>2. CASE Panics(c)
      <3>1. phase' = [phase EXCEPT ![c] = "panicked"] /\ UNCHANGED <<client, driver, ds>>
        BY <2>2 DEF Panics
      <3>2. client' \in Status /\ sources' \in 0..MaxSources
        BY <1>0, <2>1, <3>1, ConfigureAssumption DEF CTypeOK, Status
      <3> QED BY <1>0, <2>1, <3>1, <3>2, PhaseStep DEF CTypeOK
    <2>3. ASSUME NEW r \in Driver, NEW clients \in Status, NEW new \in BOOLEAN,
                 new => r.state = "open" /\ r.namespaces # {}, FailsWith(c, new, r, clients)
          PROVE  IInv'
      BY <2>1, <2>3, FailsStep
    <2>4. ASSUME NEW r \in Driver, NEW clients \in Status,
                 r.state = "open", r.namespaces # {}, AddsWith(c, r, clients)
          PROVE  IInv'
      BY <2>1, <2>4, AddsStep
    <2>5. NotMade \in Driver
      BY DEF NotMade, Driver
    <2> QED BY <2>1, <2>2, <2>3, <2>4, <2>5 DEF NoneMade, OneMade, MadeBy
  <1>6. ASSUME NEW x \in Closers, Closer(x) PROVE IInv'
    BY <1>6, CloserStep
  <1>7. CASE UNCHANGED vars
    BY <1>7 DEF vars, IInv, CTypeOK, ClosersInRange, Owned, NamespacesAreServed, FailedLeavesNothing,
                DriverOf, Made, Used
  <1> QED BY <1>1, <1>2, <1>3, <1>4, <1>5, <1>6, <1>7 DEF Next

THEOREM Invariance == Spec => [](IInv /\ FactoryOfCall)
  <1>1. Init => FactoryOfCall
    BY DEF Init, FactoryOfCall, Unregistered
  <1>2. IInv => CTypeOK
    BY DEF IInv
  <1> QED BY <1>1, <1>2, InitInv, StepInv, FactoryStep, PTL DEF Spec

\* The state of Configure, its drivers and its clients is what new.go, configure.go
\* and the drivers declare, and a Close works on what its Configure has.
THEOREM TypeCorrect == Spec => []CTypeOK
  <1> QED BY Invariance, PTL DEF IInv

\* However many sources there are, a namespace leads to the one driver that names
\* it, and no driver is out of reach of Close (configure.go:37-46).
THEOREM EveryNamespaceIsServed == Spec => []NamespacesAreServed
  <1> QED BY Invariance, PTL DEF IInv

\* Whichever source fails, a construction that returns an error has closed every
\* driver it made (configure.go:31-35, 40-43).
THEOREM FailureLeavesNothing == Spec => []FailedLeavesNothing
  <1> QED BY Invariance, PTL DEF IInv
-----------------------------------------------------------------------------
(* Clients.                                                                *)

\* A driver closes the client a call was given only if that call asked for it.
LentAsAsked(made) ==
  \A d \in Drivers, b \in Calls :
    made[d].client = Own(b) => phase[b] # "idle" /\ made[d].close = asked[b].close

Passed(b) == asked[b].custom /\ ~asked[b].dialled /\ ~asked[b].close

PassedInv ==
  /\ \A b \in Calls : phase[b] = "idle" => ~asked[b].custom
  /\ \A b \in Calls : phase[b] = "reading" => asked[b].dialled
  /\ LentAsAsked(driver)
  /\ PassedClientStays

LEMMA PassedSource ==
  ASSUME CTypeOK, FactoryOfCall, PassedInv, NEW c \in Calls, NewSource(c)
  PROVE  PassedInv'
  <1>1. /\ phase[c] = "building" /\ sources < MaxSources /\ asked' = asked
        /\ \/ \E r \in Driver, clients \in Status : NoneMade(c, clients) \/ OneMade(c, r, clients)
           \/ Panics(c)
    BY SourceEffect
  <1>2. This(c) \in Drivers /\ This(c)[2] # 0
    BY <1>1, ThisName DEF CTypeOK
  <1>3. ASSUME NEW b \in Calls
        PROVE  /\ Own(b) \in Clients \ {This(c)} /\ Own(b) # NoClient
               /\ \A a \in Calls : Own(a) = Own(b) => a = b
    BY <1>2, OwnName, ConfigureAssumption
  <1>4. CASE Panics(c)
    <2>1. /\ UNCHANGED <<client, driver, asked>>
          /\ phase'[c] = "panicked" /\ \A b \in Calls \ {c} : phase'[b] = phase[b]
      BY <1>1, <1>4 DEF Panics, CTypeOK
    <2> QED BY <2>1 DEF PassedInv, LentAsAsked, PassedClientStays, Own
  <1>5. ASSUME NEW clients \in Status, Leaves(c, clients) \/ (\E r \in Driver : Opens(c, r, clients)),
               NEW b \in Calls, Passed(b)
        PROVE  clients[Own(b)] = "open"
    <2>1. client[Own(b)] = "open"
      BY <1>5 DEF PassedInv, PassedClientStays, Passed
    <2>2. ~(Own(b) = factory.client /\ factory.close)
      BY <1>3, <1>5 DEF FactoryOfCall, Passed
    <2> QED BY <1>3, <1>5, <2>1, <2>2 DEF Leaves, Opens
  <1>6. ASSUME NEW r \in Driver, MadeBy(c, r), NEW b \in Calls, r.client = Own(b)
        PROVE  phase[b] # "idle" /\ r.close = asked[b].close
    BY <1>3, <1>6 DEF MadeBy, FactoryOfCall
  <1>7. ASSUME NEW new \in BOOLEAN, NEW r \in Driver, new => MadeBy(c, r)
        PROVE  LentAsAsked(After(c, new, r))
    <2>1. \A d \in Drivers : \/ After(c, new, r)[d] = driver[d]
                             \/ new /\ After(c, new, r)[d] = r
      BY <1>2 DEF After, CTypeOK
    <2> QED BY <1>6, <1>7, <2>1 DEF LentAsAsked, PassedInv
  <1>8. ASSUME NEW new \in BOOLEAN, NEW r \in Driver, NEW clients \in Status,
               new => MadeBy(c, r), FailsWith(c, new, r, clients),
               \A b \in Calls : Passed(b) => clients[Own(b)] = "open"
        PROVE  PassedInv'
    <2> DEFINE made == After(c, new, r)
               shut == Made(c) \cup Also(c, new)
               rest == IF asked[c].dialled THEN [clients EXCEPT ![Own(c)] = "closed"] ELSE clients
    <2>1. LentAsAsked(made)
      BY <1>7, <1>8
    <2>2. /\ phase' = [phase EXCEPT ![c] = "failed"]
          /\ driver' = [d \in Drivers |-> IF d \in shut THEN Closed(made[d]) ELSE made[d]]
          /\ client' = [k \in Clients |->
               IF \E d \in shut : made[d].client = k /\ made[d].close THEN "closed" ELSE rest[k]]
      BY <1>8 DEF FailsWith, Fails, Goes, Close
    <2>3. shut \subseteq Drivers /\ made \in [Drivers -> Driver]
      <3>1. Made(c) \subseteq Drivers
        BY ConfigureAssumption DEF CTypeOK, Made, Used
      <3> QED BY <1>1, <1>2, <3>1, AfterType DEF Also
    <2> HIDE DEF made, shut
    <2>4. phase'[c] = "failed" /\ \A b \in Calls \ {c} : phase'[b] = phase[b]
      BY <2>2 DEF CTypeOK
    <2>5. ASSUME NEW d \in Drivers
          PROVE  driver'[d].client = made[d].client /\ driver'[d].close = made[d].close
      BY <2>2, <2>3 DEF Closed, Driver
    <2>6. LentAsAsked(driver)'
      BY <1>1, <2>1, <2>4, <2>5 DEF LentAsAsked, Own
    <2>7. ASSUME NEW b \in Calls, Passed(b) PROVE client'[Own(b)] = "open"
      <3>1. ~ \E d \in shut : made[d].client = Own(b) /\ made[d].close
        BY <2>1, <2>3, <2>7 DEF LentAsAsked, Passed
      <3>2. rest[Own(b)] = "open"
        BY <1>3, <1>8, <2>7 DEF Passed, Status
      <3> QED BY <1>3, <2>2, <3>1, <3>2
    <2> QED BY <1>1, <2>4, <2>6, <2>7 DEF PassedInv, PassedClientStays, Passed, Own
  <1>9. ASSUME NEW r \in Driver, NEW clients \in Status, MadeBy(c, r), AddsWith(c, r, clients),
               \A b \in Calls : Passed(b) => clients[Own(b)] = "open"
        PROVE  PassedInv'
    <2>1. /\ phase' = phase /\ client' = clients /\ driver' = After(c, TRUE, r)
      BY <1>9 DEF AddsWith, After
    <2>2. LentAsAsked(driver)'
      BY <1>1, <1>7, <1>9, <2>1 DEF LentAsAsked, Own
    <2> QED BY <1>1, <1>9, <2>1, <2>2 DEF PassedInv, PassedClientStays, Passed, Own
  <1>10. ASSUME NEW clients \in Status, NoneMade(c, clients) PROVE PassedInv'
    <2>1. NotMade \in Driver
      BY DEF NotMade, Driver
    <2>2. \A b \in Calls : Passed(b) => clients[Own(b)] = "open"
      BY <1>5, <1>10 DEF NoneMade
    <2> QED BY <1>8, <1>10, <2>1, <2>2 DEF NoneMade
  <1>11. ASSUME NEW r \in Driver, NEW clients \in Status, OneMade(c, r, clients) PROVE PassedInv'
    <2>1. \A b \in Calls : Passed(b) => clients[Own(b)] = "open"
      BY <1>5, <1>11 DEF OneMade
    <2> QED BY <1>8, <1>9, <1>11, <2>1 DEF OneMade
  <1> QED BY <1>1, <1>4, <1>10, <1>11

LEMMA PassedStep == IInv /\ FactoryOfCall /\ PassedInv /\ [Next]_vars => PassedInv'
  <1> SUFFICES ASSUME IInv, FactoryOfCall, PassedInv, [Next]_vars PROVE PassedInv'
    OBVIOUS
  <1>0. CTypeOK
    BY DEF IInv
  <1>1. ASSUME NEW c \in Calls, NEW o \in Options, NewConfigure(c, o) \/ FromEtcdConfig(c, o)
        PROVE  PassedInv'
    <2>1. /\ phase[c] = "idle" /\ phase'[c] \in {"reading", "registering"}
          /\ phase'[c] = "reading" => o.dialled
          /\ \A b \in Calls \ {c} : phase'[b] = phase[b] /\ asked'[b] = asked[b]
          /\ asked'[c] = o /\ driver' = driver
          /\ client' = IF o.custom THEN [client EXCEPT ![Own(c)] = "open"] ELSE client
      BY <1>0, <1>1 DEF NewConfigure, FromEtcdConfig, Goes, CTypeOK
    <2>2. \A b \in Calls : Own(b) \in Clients /\ (Own(b) = Own(c) => b = c)
      BY OwnName
    <2>3. LentAsAsked(driver)'
      BY <2>1 DEF PassedInv, LentAsAsked, Own
    <2>4. PassedClientStays'
      <3> SUFFICES ASSUME NEW b \in Calls, asked'[b].custom, ~asked'[b].dialled, ~asked'[b].close
                   PROVE  client'[Own(b)] = "open"
        BY DEF PassedClientStays, Own
      <3>1. CASE b = c
        BY <1>0, <2>1, <2>2, <3>1 DEF CTypeOK
      <3>2. CASE b # c
        BY <1>0, <2>1, <2>2, <3>2 DEF CTypeOK, PassedInv, PassedClientStays
      <3> QED BY <3>1, <3>2
    <2> QED BY <2>1, <2>3, <2>4 DEF PassedInv
  <1>2. ASSUME NEW c \in Calls, DialFails(c) \/ FromEtcdFails(c) \/ FromEtcd(c) \/ RegisterDriver(c) \/ Returns(c)
        PROVE  PassedInv'
    <2>1. /\ UNCHANGED <<asked, driver>>
          /\ phase'[c] \notin {"idle", "reading"} /\ \A b \in Calls \ {c} : phase'[b] = phase[b]
          /\ \/ client' = client
             \/ asked[c].dialled /\ client' = [client EXCEPT ![Own(c)] = "closed"]
      BY <1>0, <1>2 DEF DialFails, FromEtcdFails, FromEtcd, RegisterDriver, Returns, Goes, CTypeOK, PassedInv
    <2>2. \A b \in Calls : Own(b) \in Clients /\ (Own(b) = Own(c) => b = c)
      BY OwnName
    <2>3. LentAsAsked(driver)'
      BY <2>1 DEF PassedInv, LentAsAsked, Own
    <2>4. PassedClientStays'
      BY <1>0, <2>1, <2>2 DEF PassedInv, PassedClientStays, CTypeOK, Own
    <2> QED BY <2>1, <2>3, <2>4 DEF PassedInv
  <1>3. ASSUME NEW c \in Calls, NewSource(c) PROVE PassedInv'
    BY <1>0, <1>3, PassedSource
  <1>4. ASSUME NEW x \in Closers, Closer(x) PROVE PassedInv'
    <2>1. /\ UNCHANGED <<phase, asked>>
          /\ \A d \in Drivers : driver'[d].client = driver[d].client /\ driver'[d].close = driver[d].close
      BY <1>4, CloserStep
    <2>2. LentAsAsked(driver)'
      BY <2>1 DEF PassedInv, LentAsAsked, Own
    <2>3. \/ client' = client
          \/ \E d \in Drivers : driver[d].close /\ client' = [client EXCEPT ![driver[d].client] = "closed"]
      <3>1. closer[x].at # NoDriver => closer[x].at \in Drivers
        BY <1>0 DEF CTypeOK
      <3> QED BY <1>4, <3>1 DEF Closer, CloseCalled, Visit, CloseFile, CloseClient, Finish, CloseReturns
    <2>4. PassedClientStays'
      <3> SUFFICES ASSUME NEW b \in Calls, Passed(b) PROVE client'[Own(b)] = "open"
        BY <2>1 DEF PassedClientStays, Passed, Own
      <3>1. client[Own(b)] = "open" /\ Own(b) \in Clients
        BY OwnName DEF PassedInv, PassedClientStays, Passed
      <3>2. \A d \in Drivers : driver[d].close => driver[d].client # Own(b)
        BY DEF PassedInv, LentAsAsked, Passed
      <3> QED BY <1>0, <2>3, <3>1, <3>2 DEF CTypeOK
    <2> QED BY <2>1, <2>2, <2>4 DEF PassedInv
  <1>5. CASE UNCHANGED vars
    BY <1>5 DEF vars, PassedInv, LentAsAsked, PassedClientStays, Own
  <1> QED BY <1>1, <1>2, <1>3, <1>4, <1>5 DEF Next

\* No call of NewConfigure, no driver that got the client from the factory, and no
\* Close ever closes a client whose owner did not ask for it (new.go:50-55,
\* etcd.go:43, 98-100, 191-193).
THEOREM PassedClientsStay == Spec => []PassedClientStays
  <1>1. Init => PassedInv
    <2> SUFFICES ASSUME Init PROVE PassedInv
      OBVIOUS
    <2>1. \A d \in Drivers : driver[d].client = NoClient
      BY DEF Init, NotMade
    <2>2. \A b \in Calls : Own(b) # NoClient
      BY OwnName, ConfigureAssumption
    <2> QED BY <2>1, <2>2 DEF Init, PassedInv, LentAsAsked, PassedClientStays
  <1>2. PassedInv => PassedClientStays
    BY DEF PassedInv
  <1> QED BY <1>1, <1>2, PassedStep, Invariance, PTL DEF Spec
-----------------------------------------------------------------------------
(* Owners of clients, and Close.                                           *)

\* What a source does to a driver: it leaves it, closes it, or makes it.
Leave(d) == driver'[d] = driver[d]

Shut(c, d) ==
  /\ d \in Made(c)
  /\ driver'[d] = Closed(driver[d])
  /\ driver[d].close /\ driver[d].client \in Clients => client'[driver[d].client] = "closed"

Make(c, d) ==
  /\ d = This(c)
  /\ \E r \in Driver :
       /\ MadeBy(c, r)
       /\ \/ /\ driver'[d] = r /\ phase'[c] = "building"
             /\ r.client = This(c) => client'[This(c)] = "open"
          \/ /\ driver'[d] = Closed(r) /\ phase'[c] = "failed"
             /\ r.close => client'[r.client] = "closed"

\* What it does to a client.
ShutClient(c, k) ==
  /\ client'[k] = "closed" /\ phase'[c] = "failed"
  /\ \/ k \in {This(c), Own(c)} \cup lent'
     \/ \E e \in Made(c) : driver[e].client = k

OpenClient(c, k) ==
  /\ k = This(c) /\ client'[k] = "open"
  /\ \/ k \in ruleless'
     \/ /\ driver'[This(c)].client = k /\ driver'[This(c)].close
        /\ driver'[This(c)].state = "open"

SourceDoes(c) ==
  /\ phase[c] = "building" /\ phase'[c] \in {"building", "failed", "panicked"}
  /\ \A b \in Calls \ {c} : phase'[b] = phase[b] /\ ds'[b] = ds[b]
  /\ sources < MaxSources /\ sources' = sources + 1 /\ UNCHANGED <<closer, asked, met>>
  /\ lent \subseteq lent' /\ ruleless \subseteq ruleless'
  /\ \A d \in Drivers : Leave(d) \/ Shut(c, d) \/ Make(c, d)
  /\ \A k \in Clients : client'[k] = client[k] \/ ShutClient(c, k) \/ OpenClient(c, k)
  /\ phase'[c] = "failed" /\ asked[c].dialled => client'[Own(c)] = "closed"

LEMMA SourceDone ==
  ASSUME CTypeOK, FactoryOfCall, NEW c \in Calls, NewSource(c)
  PROVE  SourceDoes(c)
  <1>1. /\ phase[c] = "building" /\ sources < MaxSources /\ sources' = sources + 1
        /\ UNCHANGED <<factory, preloads, closer, asked, met>>
        /\ lent \subseteq lent' /\ ruleless \subseteq ruleless'
        /\ \/ \E r \in Driver, clients \in Status : NoneMade(c, clients) \/ OneMade(c, r, clients)
           \/ Panics(c)
    BY SourceEffect
  <1>2. /\ This(c) \in Drivers /\ This(c) \in Clients /\ This(c)[2] # 0
        /\ Own(c) \in Clients /\ Made(c) \subseteq Drivers
    <2>1. Made(c) \subseteq Drivers
      BY ConfigureAssumption DEF CTypeOK, Made, Used
    <2> QED BY <1>1, <2>1, ThisName, OwnName DEF CTypeOK
  <1>3. CASE Panics(c)
    <2>1. /\ UNCHANGED <<client, driver, ds>>
          /\ phase'[c] = "panicked" /\ \A b \in Calls \ {c} : phase'[b] = phase[b]
      BY <1>3 DEF Panics, CTypeOK
    <2> QED BY <1>1, <2>1 DEF SourceDoes, Leave
  <1>4. ASSUME NEW new \in BOOLEAN, NEW r \in Driver, NEW clients \in Status,
               new => MadeBy(c, r), FailsWith(c, new, r, clients),
               new => Opens(c, r, clients), ~new => Leaves(c, clients)
        PROVE  SourceDoes(c)
    <2> DEFINE made == After(c, new, r)
               shut == Made(c) \cup Also(c, new)
               rest == IF asked[c].dialled THEN [clients EXCEPT ![Own(c)] = "closed"] ELSE clients
    <2>1. /\ made \in [Drivers -> Driver] /\ shut \subseteq Drivers
          /\ \A d \in Drivers : d \notin Also(c, new) => made[d] = driver[d]
          /\ new => made[This(c)] = r
      BY <1>1, <1>2, AfterType DEF Also
    <2>2. /\ phase' = [phase EXCEPT ![c] = "failed"]
          /\ driver' = [d \in Drivers |-> IF d \in shut THEN Closed(made[d]) ELSE made[d]]
          /\ client' = [k \in Clients |->
               IF \E d \in shut : made[d].client = k /\ made[d].close THEN "closed" ELSE rest[k]]
          /\ ds' = ds
      BY <1>4 DEF FailsWith, Fails, Goes, Close
    <2>3. \A d \in shut : made[d].close /\ made[d].client \in Clients => client'[made[d].client] = "closed"
      BY <2>2
    <2>4. rest \in Status
      BY <1>2 DEF Status
    <2>5. asked[c].dialled => client'[Own(c)] = "closed"
      BY <1>2, <1>4, <2>2 DEF Status
    <2> HIDE DEF made, rest
    <2>6. phase'[c] = "failed" /\ \A b \in Calls \ {c} : phase'[b] = phase[b] /\ ds'[b] = ds[b]
      BY <2>2 DEF CTypeOK
    <2>7. ASSUME NEW d \in Drivers PROVE Leave(d) \/ Shut(c, d) \/ Make(c, d)
      <3>1. CASE d \in Also(c, new)
        <4>1. new /\ d = This(c) /\ driver'[d] = Closed(r) /\ MadeBy(c, r)
          BY <1>4, <2>1, <2>2, <3>1 DEF Also
        <4>2. r.close => r.client \in Clients
          BY <1>2, <4>1 DEF MadeBy
        <4>3. r.close => client'[r.client] = "closed"
          BY <2>1, <2>3, <3>1, <4>1, <4>2
        <4> QED BY <2>6, <4>1, <4>3 DEF Make
      <3>2. CASE d \notin Also(c, new) /\ d \in Made(c)
        BY <2>1, <2>2, <2>3, <3>2 DEF Shut
      <3>3. CASE d \notin Also(c, new) /\ d \notin Made(c)
        BY <2>1, <2>2, <3>3 DEF Leave
      <3> QED BY <3>1, <3>2, <3>3
    <2>8. ASSUME NEW k \in Clients PROVE client'[k] = client[k] \/ ShutClient(c, k) \/ OpenClient(c, k)
      <3>1. CASE \E d \in shut : made[d].client = k /\ made[d].close
        <4>1. PICK d \in shut : made[d].client = k /\ made[d].close
          BY <3>1
        <4>2. client'[k] = "closed"
          BY <2>1, <2>3, <4>1
        <4>3. CASE d \in Also(c, new)
          BY <1>2, <1>4, <2>1, <2>6, <4>1, <4>2, <4>3 DEF Also, ShutClient, MadeBy
        <4>4. CASE d \notin Also(c, new)
          BY <2>1, <2>6, <4>1, <4>2, <4>4 DEF ShutClient
        <4> QED BY <4>3, <4>4
      <3>2. CASE ~ \E d \in shut : made[d].client = k /\ made[d].close
        <4>1. client'[k] = rest[k]
          BY <2>2, <3>2
        <4>2. CASE asked[c].dialled /\ k = Own(c)
          BY <2>5, <2>6, <4>2 DEF ShutClient
        <4>3. CASE ~(asked[c].dialled /\ k = Own(c))
          <5>1. client'[k] = clients[k]
            BY <1>2, <1>4, <4>1, <4>3 DEF rest, Status
          <5>2. CASE new
            <6>1. k = This(c) => r.client # This(c)
              <7> SUFFICES ASSUME k = This(c), r.client = This(c) PROVE FALSE
                OBVIOUS
              <7>1. r.close
                BY <1>2, <1>4, <5>2, OwnName, ConfigureAssumption DEF MadeBy, FactoryOfCall
              <7> QED BY <1>2, <2>1, <3>2, <5>2, <7>1 DEF Also
            <6> QED BY <1>2, <1>4, <5>1, <5>2, <6>1 DEF Opens
          <5>3. CASE ~new
            <6>1. CASE k = This(c)
              <7>1. clients[k] \in {"none", "open", "closed"} /\ client[k] \in {"none", "open", "closed"}
                BY <1>4 DEF Status, CTypeOK
              <7> QED BY <1>4, <2>6, <5>1, <5>3, <6>1, <7>1 DEF Leaves, ShutClient, OpenClient
            <6>2. CASE k # This(c)
              BY <1>4, <2>6, <5>1, <5>3, <6>2 DEF Leaves, ShutClient
            <6> QED BY <6>1, <6>2
          <5> QED BY <5>2, <5>3
        <4> QED BY <4>2, <4>3
      <3> QED BY <3>1, <3>2
    <2> QED BY <1>1, <2>5, <2>6, <2>7, <2>8 DEF SourceDoes
  <1>5. ASSUME NEW r \in Driver, NEW clients \in Status,
               MadeBy(c, r), Opens(c, r, clients), AddsWith(c, r, clients)
        PROVE  SourceDoes(c)
    <2>1. /\ phase' = phase /\ client' = clients
          /\ driver'[This(c)] = r /\ \A d \in Drivers \ {This(c)} : driver'[d] = driver[d]
          /\ \A b \in Calls \ {c} : ds'[b] = ds[b]
      BY <1>2, <1>5 DEF AddsWith, CTypeOK
    <2>2. ASSUME NEW d \in Drivers PROVE Leave(d) \/ Make(c, d)
      BY <1>1, <1>5, <2>1 DEF Leave, Make, Opens
    <2>3. ASSUME NEW k \in Clients PROVE client'[k] = client[k] \/ OpenClient(c, k)
      <3>1. r.client = This(c) => r.close /\ r.state = "open"
        BY <1>2, <1>5, OwnName, ConfigureAssumption DEF MadeBy, FactoryOfCall
      <3> QED BY <1>5, <2>1, <3>1 DEF Opens, OpenClient
    <2> QED BY <1>1, <2>1, <2>2, <2>3 DEF SourceDoes
  <1>6. NotMade \in Driver
    BY DEF NotMade, Driver
  <1>7. ASSUME NEW clients \in Status, NoneMade(c, clients) PROVE SourceDoes(c)
    BY <1>4, <1>6, <1>7 DEF NoneMade
  <1>8. ASSUME NEW r \in Driver, NEW clients \in Status, OneMade(c, r, clients) PROVE SourceDoes(c)
    BY <1>4, <1>5, <1>8 DEF OneMade
  <1> QED BY <1>1, <1>3, <1>7, <1>8
Started(b) == phase[b] \notin {"idle", "reading", "registering"}

\* Which client a driver has, and whether it closes it.
HasClient(d) ==
  LET r == driver[d] IN
  \/ r.schema = "file" /\ r.client = NoClient /\ r.close = FALSE
  \/ /\ r.schema = "etcd" /\ r.state # "none"
     /\ \/ r.client = d /\ r.close = TRUE
        \/ \E b \in Calls :
             /\ r.client = Own(b) /\ Started(b) /\ asked[b].custom
             /\ r.close = asked[b].close
             /\ b = d[1] \/ Own(b) \in lent

Shuts(d) == driver[d].close => client[driver[d].client] = "closed"

Unclosed(c) == \A x \in Closers : closer[x].call # c

\* The client of a source has the source's driver as its owner, or is left open.
SourceOwned(k) ==
  \/ k \in ruleless
  \/ phase[k[1]] = "panicked"
  \/ driver[k].client = k /\ driver[k].close /\ WillClose(k)

OwnersInv ==
  /\ \A d \in Drivers : d[2] > sources => driver[d] = NotMade
  /\ \A d \in Drivers : HasClient(d)
  /\ \A d \in Drivers : driver[d].state = "closed" => Shuts(d)
  /\ \A x \in Closers : closer[x].pc = "finish" => Shuts(closer[x].at)
  /\ \A b \in Calls : asked[b].dialled => asked[b].close /\ asked[b].custom
  /\ \A b \in Calls : phase[b] = "idle" => ~asked[b].custom
  /\ \A b \in Calls : asked[b].dialled /\ phase[b] = "failed" => client[Own(b)] # "open"
  /\ \A k \in Drivers : client[k] = "open" => SourceOwned(k)

\* What a call was given, or its drivers dialled, is open until it fails or is closed.
StaysOpen ==
  \A c \in Calls : phase[c] \notin {"idle", "failed", "panicked"} /\ Unclosed(c) =>
    /\ asked[c].custom => client[Own(c)] = "open" \/ Own(c) \in lent
    /\ \A d \in DriversOf(c) : driver[d].client = d => client[d] = "open" \/ d \in lent

Working(x) == closer[x].pc \in {"next", "close", "finish"}

Settled(d) == driver[d].state = "closed" \/ \E y \in Closers : closer[y].pc = "finish" /\ closer[y].at = d

Went(x, n) ==
  \/ Settled(ds[closer[x].call][n])
  \/ closer[x].pc \in {"close", "finish"} /\ closer[x].at = ds[closer[x].call][n]
  \/ closer[x].pc = "panicked"

CloserInv ==
  /\ \A d \in Drivers : driver[d].state = "quit" => Settled(d)
  /\ \A x \in Closers :
       /\ closer[x].pc = "idle" => closer[x].call = NoCall
       /\ closer[x].pc = "close" => driver[closer[x].at].state = "open" \/ x \in met
       /\ closer[x].pc = "panicked" => x \in met
       /\ closer[x].pc = "done" => closer[x].todo = {}
       /\ closer[x].pc # "idle" => \A n \in Used(closer[x].call) \ closer[x].todo : Went(x, n)
       /\ \A y \in Closers : Working(x) /\ Working(y) /\ x # y /\ closer[x].call = closer[y].call
                            => x \in met

LEMMA ClientNames ==
  /\ \A k \in Clients : k[1] \in Calls /\ (k[2] = 0 => k = Own(k[1]))
  /\ \A d \in Drivers : d \in Clients /\ d[1] \in Calls /\ d[2] \in Nat /\ d[2] # 0 /\ d \in DriversOf(d[1])
  /\ \A c \in Calls : \A d \in DriversOf(c) : d \in Drivers /\ d[1] = c
  /\ \A d \in Drivers, b \in Calls : Own(b) # d /\ d # NoClient /\ Own(b) # NoClient
  /\ \A a, b \in Calls : Own(a) = Own(b) => a = b
  /\ \A b \in Calls : Own(b) \in Clients /\ Own(b)[1] = b /\ Own(b)[2] = 0
  <1>1. Sources \subseteq 0..MaxSources /\ 0 \in 0..MaxSources /\ 0 \notin Sources /\ Sources \subseteq Nat
    BY ConfigureAssumption DEF Sources
  <1>2. \A k \in Clients : k[1] \in Calls /\ (k[2] = 0 => k = Own(k[1]))
    BY <1>1 DEF Clients, Own
  <1>3. \A d \in Drivers : d \in Clients /\ d[1] \in Calls /\ d[2] \in Nat /\ d[2] # 0 /\ d \in DriversOf(d[1])
    BY <1>1 DEF Drivers, Clients, DriversOf
  <1>4. \A c \in Calls : \A d \in DriversOf(c) : d \in Drivers /\ d[1] = c
    BY DEF Drivers, DriversOf
  <1>5. \A d \in Drivers, b \in Calls : Own(b) # d /\ d # NoClient /\ Own(b) # NoClient
    BY <1>1, <1>3, OwnName, ConfigureAssumption
  <1> QED BY <1>2, <1>3, <1>4, <1>5, OwnName

\* The driver a closer is at belongs to its Configure, which is open.
LEMMA CloserAt ==
  ASSUME IInv, NEW x \in Closers, closer[x].pc \in {"close", "finish"}
  PROVE  /\ closer[x].call \in Calls /\ phase[closer[x].call] = "open"
         /\ closer[x].at \in Made(closer[x].call) /\ closer[x].at \in Drivers
         /\ closer[x].at \in DriversOf(closer[x].call) /\ closer[x].at # NoDriver
         /\ closer[x].at[1] = closer[x].call /\ driver[closer[x].at].state # "none"
  BY ClientNames, ConfigureAssumption DEF IInv, CTypeOK, ClosersInRange, Owned

\* A source changes no driver of another call, and none that is not made.
LEMMA SourceElsewhere ==
  ASSUME IInv, NEW c \in Calls, SourceDoes(c), NEW d \in Drivers, d[1] # c
  PROVE  Leave(d)
  <1>1. This(c)[1] = c
    BY DEF This
  <1>2. \A e \in Made(c) : e[1] = c
    BY ClientNames DEF IInv, Owned
  <1> QED BY <1>1, <1>2 DEF SourceDoes, Shut, Make
LEMMA OwnersSource ==
  ASSUME IInv, FactoryOfCall, OwnersInv, NEW c \in Calls, SourceDoes(c), FailedLeavesNothing'
  PROVE  OwnersInv'
  <1>1. This(c) = <<c, sources + 1>> /\ This(c) \in Drivers /\ This(c) \in Clients
    BY ThisName DEF IInv, CTypeOK, SourceDoes
  <1>2. /\ sources \in Nat /\ sources' = sources + 1 /\ asked' = asked /\ closer' = closer
        /\ lent \subseteq lent' /\ ruleless \subseteq ruleless'
        /\ phase[c] = "building" /\ ~ (phase'[c] \in {"idle", "reading", "registering"})
        /\ \A b \in Calls \ {c} : phase'[b] = phase[b]
    BY ConfigureAssumption DEF SourceDoes, IInv, CTypeOK
  <1>3. driver[This(c)] = NotMade
    BY <1>1, <1>2 DEF OwnersInv
  <1>4. \A d \in Made(c) : d # This(c) /\ d \in Drivers
    BY <1>3, ClientNames DEF IInv, Owned, NotMade
  <1>5. \A b \in Calls : Started(b) => Started(b)'
    BY <1>2 DEF Started
  <1>6. \A d \in Drivers : d[2] > sources' => driver'[d] = NotMade
    <2> SUFFICES ASSUME NEW d \in Drivers, d[2] > sources' PROVE driver'[d] = NotMade
      OBVIOUS
    <2>1. d # This(c) /\ d[2] > sources
      BY <1>1, <1>2, ClientNames
    <2>2. driver[d] = NotMade
      BY <2>1 DEF OwnersInv
    <2>3. d \notin Made(c)
      BY <2>2 DEF IInv, Owned, NotMade
    <2> QED BY <2>1, <2>2, <2>3 DEF SourceDoes, Leave, Shut, Make
  <1>7. ASSUME NEW d \in Drivers PROVE HasClient(d)'
    <2>1. CASE Make(c, d)
      <3>1. PICK r \in Driver : d = This(c) /\ MadeBy(c, r) /\ (driver'[d] = r \/ driver'[d] = Closed(r))
        BY <2>1 DEF Make
      <3>2. /\ driver'[d].client = r.client /\ driver'[d].close = r.close /\ driver'[d].schema = r.schema
            /\ driver'[d].state # "none"
        BY <3>1 DEF Closed, Driver, MadeBy
      <3>3. d[1] = c
        BY <1>1, <3>1
      <3>4. CASE /\ r.schema = "etcd" /\ r.client = factory.client /\ r.client \in Clients
                 /\ r.close = factory.close /\ (r.client = Own(c) \/ r.client \in lent')
        <4>1. PICK b \in Calls : /\ r.client = Own(b) /\ Started(b) /\ asked[b].custom
                                 /\ r.close = asked[b].close
          BY <3>4, ConfigureAssumption DEF FactoryOfCall, Started
        <4>2. b = d[1] \/ Own(b) \in lent'
          BY <3>3, <3>4, <4>1, ClientNames
        <4> QED BY <1>2, <1>5, <3>2, <3>4, <4>1, <4>2 DEF HasClient, Own
      <3> QED BY <3>1, <3>2, <3>4 DEF HasClient, MadeBy
    <2>2. CASE Leave(d) \/ Shut(c, d)
      <3>1. /\ driver'[d].client = driver[d].client /\ driver'[d].close = driver[d].close
            /\ driver'[d].schema = driver[d].schema
            /\ driver[d].state # "none" => driver'[d].state # "none"
        BY <2>2 DEF Leave, Shut, Closed, Driver, IInv, CTypeOK
      <3>2. CASE \E b \in Calls : /\ driver[d].client = Own(b) /\ Started(b) /\ asked[b].custom
                                  /\ driver[d].close = asked[b].close
                                  /\ b = d[1] \/ Own(b) \in lent
        <4>1. PICK b \in Calls : /\ driver[d].client = Own(b) /\ Started(b) /\ asked[b].custom
                                 /\ driver[d].close = asked[b].close
                                 /\ b = d[1] \/ Own(b) \in lent
          BY <3>2
        <4>2. driver[d].schema = "etcd" /\ driver[d].state # "none"
          <5>1. HasClient(d) /\ Own(b) # NoClient
            BY ClientNames DEF OwnersInv
          <5> QED BY <4>1, <5>1 DEF HasClient
        <4>3. /\ driver'[d].client = Own(b) /\ Started(b)' /\ asked'[b].custom
              /\ driver'[d].close = asked'[b].close
              /\ b = d[1] \/ Own(b) \in lent'
          BY <1>2, <1>5, <3>1, <4>1
        <4>4. driver'[d].schema = "etcd" /\ driver'[d].state # "none"
          BY <3>1, <4>2
        <4> QED BY <4>3, <4>4 DEF HasClient, Own
      <3> QED BY <3>1, <3>2 DEF OwnersInv, HasClient
    <2> QED BY <2>1, <2>2 DEF SourceDoes
  \* A client that a driver has closed is not opened again.
  <1>8. ASSUME NEW d \in Drivers, d # This(c), Leave(d), Shuts(d) PROVE Shuts(d)'
    <2> SUFFICES ASSUME driver[d].close PROVE client'[driver[d].client] = "closed"
      BY <1>8 DEF Leave, Shuts
    <2>1. /\ driver[d].client \in Clients /\ driver[d].client # This(c)
          /\ client[driver[d].client] = "closed"
      BY <1>1, <1>8, ClientNames DEF OwnersInv, HasClient, Shuts
    <2> QED BY <2>1 DEF SourceDoes, ShutClient, OpenClient
  <1>9. ASSUME NEW d \in Drivers, driver'[d].state = "closed" PROVE Shuts(d)'
    <2>1. CASE Leave(d)
      BY <1>3, <1>8, <1>9, <2>1 DEF OwnersInv, Leave, NotMade
    <2>2. CASE Shut(c, d)
      <3>1. driver'[d].close = driver[d].close /\ driver'[d].client = driver[d].client
        BY <2>2 DEF Shut, Closed, Driver, IInv, CTypeOK
      <3>2. driver[d].close => driver[d].client \in Clients
        BY ClientNames DEF OwnersInv, HasClient
      <3> QED BY <2>2, <3>1, <3>2 DEF Shut, Shuts
    <2>3. CASE Make(c, d)
      BY <1>9, <2>3 DEF Make, MadeBy, Closed, Driver, Shuts
    <2> QED BY <2>1, <2>2, <2>3 DEF SourceDoes
  <1>10. ASSUME NEW x \in Closers, closer'[x].pc = "finish" PROVE Shuts(closer[x].at)'
    <2>1. /\ closer[x].at \in Drivers /\ closer[x].at[1] # c
          /\ closer[x].at # This(c) /\ Shuts(closer[x].at)
      BY <1>1, <1>2, <1>10, CloserAt DEF OwnersInv
    <2> DEFINE d == closer[x].at
    <2>2. Shuts(d) /\ d \in Drivers /\ d # This(c) /\ Leave(d)
      BY <2>1, SourceElsewhere
    <2>3. driver'[d].close => client'[driver'[d].client] = "closed"
      <3> HIDE DEF d
      <3> QED BY <1>8, <2>2 DEF Shuts
    <2> QED BY <1>2, <2>3 DEF Shuts
  <1>11. ASSUME NEW k \in Drivers, client'[k] = "open" PROVE SourceOwned(k)'
    <2>0. k \in Clients /\ k[1] \in Calls
      BY ClientNames
    <2>1. CASE OpenClient(c, k)
      <3>1. k = This(c) /\ k[1] = c
        BY <1>1, <2>1 DEF OpenClient
      <3>2. CASE k \in ruleless'
        BY <3>2 DEF SourceOwned
      <3>3. CASE driver'[k].client = k /\ driver'[k].close /\ driver'[k].state = "open"
        <4>1. Make(c, k)
          <5>1. driver[k].state = "none" /\ k \notin Made(c)
            BY <1>3, <1>4, <3>1 DEF NotMade
          <5> QED BY <3>3, <5>1 DEF SourceDoes, Leave, Shut
        <4>2. phase'[c] = "building"
          BY <3>3, <4>1 DEF Make, Closed, Driver
        <4> QED BY <3>1, <3>3, <4>2 DEF SourceOwned, WillClose
      <3> QED BY <2>1, <3>1, <3>2, <3>3 DEF OpenClient
    <2>2. CASE client'[k] = client[k]
      <3>1. SourceOwned(k)
        BY <1>11, <2>2 DEF OwnersInv
      <3>2. CASE k \in ruleless
        BY <1>2, <3>2 DEF SourceOwned
      <3>3. CASE phase[k[1]] = "panicked"
        BY <1>2, <2>0, <3>3 DEF SourceOwned
      <3>4. CASE driver[k].client = k /\ driver[k].close /\ WillClose(k)
        <4>1. k # This(c)
          BY <1>3, <3>4 DEF NotMade
        <4>2. ~ Shut(c, k)
          BY <1>11, <2>0, <3>4 DEF Shut
        <4>3. Leave(k)
          BY <4>1, <4>2 DEF SourceDoes, Make
        <4>4. phase'[c] = "failed" => k[1] # c
          <5>1. phase'[c] = "failed" => \A d \in DriversOf(c) : driver'[d].state \in {"none", "closed"}
            BY DEF FailedLeavesNothing
          <5>2. driver[k].state # "none" /\ k # NoClient
            BY <3>4, ClientNames DEF OwnersInv, HasClient
          <5> QED BY <3>4, <4>3, <5>1, <5>2, ClientNames DEF Leave, WillClose
        <4> QED BY <1>2, <2>0, <3>4, <4>3, <4>4 DEF SourceOwned, WillClose, Leave, SourceDoes
      <3> QED BY <3>1, <3>2, <3>3, <3>4 DEF SourceOwned
    <2>3. CASE ShutClient(c, k)
      BY <1>11, <2>3 DEF ShutClient
    <2> QED BY <2>0, <2>1, <2>2, <2>3 DEF SourceDoes
  <1>12. ASSUME NEW b \in Calls, asked[b].dialled, phase'[b] = "failed"
         PROVE  client'[Own(b)] # "open"
    <2>1. CASE b = c
      BY <1>12, <2>1 DEF SourceDoes
    <2>2. CASE b # c
      <3>1. Own(b) \in Clients /\ Own(b) # This(c) /\ client[Own(b)] # "open"
        BY <1>1, <1>2, <1>12, <2>2, ClientNames DEF OwnersInv
      <3> QED BY <3>1 DEF SourceDoes, ShutClient, OpenClient
    <2> QED BY <2>1, <2>2
  <1>13. \A b \in Calls : phase'[b] = "idle" => phase[b] = "idle"
    BY <1>2
  <1> QED BY <1>2, <1>6, <1>7, <1>9, <1>10, <1>11, <1>12, <1>13 DEF OwnersInv, Own
LEMMA StaysOpenSource ==
  ASSUME IInv, OwnersInv, StaysOpen, NEW c \in Calls, SourceDoes(c)
  PROVE  StaysOpen'
  <1> SUFFICES ASSUME NEW b \in Calls, phase'[b] \notin {"idle", "failed", "panicked"},
                      \A x \in Closers : closer'[x].call # b
               PROVE  /\ asked'[b].custom => client'[Own(b)] = "open" \/ Own(b) \in lent'
                      /\ \A d \in DriversOf(b) : driver'[d].client = d => client'[d] = "open" \/ d \in lent'
    BY DEF StaysOpen, Unclosed, Own, DriversOf
  <1>1. /\ asked' = asked /\ closer' = closer /\ lent \subseteq lent' /\ phase[c] = "building"
        /\ b # c => phase'[b] = phase[b]
        /\ b = c => phase'[c] # "failed"
    BY DEF SourceDoes
  <1>2. /\ asked[b].custom => client[Own(b)] = "open" \/ Own(b) \in lent
        /\ \A d \in DriversOf(b) : driver[d].client = d => client[d] = "open" \/ d \in lent
    BY <1>1 DEF StaysOpen, Unclosed
  <1>3. This(c) = <<c, sources + 1>> /\ This(c) \in Drivers
    BY ThisName DEF IInv, CTypeOK, SourceDoes
  <1>4. \A k \in Clients : client[k] = "open" => client'[k] = "open" \/ ShutClient(c, k)
    BY DEF SourceDoes, OpenClient
  <1>5. ASSUME asked[b].custom PROVE client'[Own(b)] = "open" \/ Own(b) \in lent'
    <2>1. ASSUME ShutClient(c, Own(b)), b # c PROVE Own(b) \in lent'
      <3>1. Own(b) # This(c) /\ Own(b) # Own(c)
        BY <1>3, <2>1, ClientNames
      <3>2. ASSUME NEW e \in Made(c), driver[e].client = Own(b) PROVE Own(b) \in lent
        <4>1. e \in Drivers /\ e[1] = c
          BY ClientNames DEF IInv, Owned
        <4>2. HasClient(e)
          BY <4>1 DEF OwnersInv
        <4>3. Own(b) # NoClient /\ Own(b) # e
          BY <4>1, ClientNames
        <4>4. PICK a \in Calls : Own(b) = Own(a) /\ (a = e[1] \/ Own(a) \in lent)
          BY <3>2, <4>2, <4>3 DEF HasClient
        <4> QED BY <2>1, <4>1, <4>4, ClientNames
      <3> QED BY <1>1, <2>1, <3>1, <3>2 DEF ShutClient
    <2> QED BY <1>1, <1>2, <1>4, <1>5, <2>1, ClientNames DEF ShutClient
  <1>6. ASSUME NEW d \in DriversOf(b), driver'[d].client = d
        PROVE  client'[d] = "open" \/ d \in lent'
    <2>1. d \in Drivers /\ d[1] = b /\ d \in Clients
      BY ClientNames
    <2>2. CASE Make(c, d)
      <3>1. d = This(c) /\ b = c
        BY <1>3, <2>1, <2>2 DEF Make
      <3> QED BY <1>1, <1>6, <2>2, <3>1 DEF Make
    <2>3. CASE Leave(d) \/ Shut(c, d)
      <3>1. driver[d].client = d
        BY <1>6, <2>1, <2>3 DEF Leave, Shut, Closed, Driver, IInv, CTypeOK
      <3>2. ASSUME ShutClient(c, d), b # c PROVE d \in lent'
        <4>1. d # This(c) /\ d # Own(c)
          BY <1>3, <2>1, <3>2, ClientNames
        <4>2. ASSUME NEW e \in Made(c), driver[e].client = d PROVE FALSE
          <5>1. e \in Drivers /\ e[1] = c
            BY ClientNames DEF IInv, Owned
          <5>2. HasClient(e)
            BY <5>1 DEF OwnersInv
          <5>3. e # d /\ d # NoClient /\ \A a \in Calls : Own(a) # d
            BY <2>1, <3>2, <5>1, ClientNames
          <5> QED BY <4>2, <5>2, <5>3 DEF HasClient
        <4> QED BY <3>2, <4>1, <4>2 DEF ShutClient
      <3> QED BY <1>1, <1>2, <1>4, <2>1, <3>1, <3>2 DEF ShutClient
    <2> QED BY <2>1, <2>2, <2>3 DEF SourceDoes
  <1> QED BY <1>1, <1>5, <1>6

\* The steps of a call before its first source, and its return.
PhaseDoes(c) ==
  /\ UNCHANGED <<driver, ds, sources, closer, lent, ruleless, met>>
  /\ \A b \in Calls \ {c} : phase'[b] = phase[b] /\ asked'[b] = asked[b]
  /\ \A k \in Clients \ {Own(c)} : client'[k] = client[k]
  /\ \/ /\ phase[c] = "idle" /\ phase'[c] \in {"reading", "registering"}
        /\ asked'[c].dialled => asked'[c].close /\ asked'[c].custom
        /\ client'[Own(c)] = IF asked'[c].custom THEN "open" ELSE client[Own(c)]
     \/ /\ asked'[c] = asked[c]
        /\ phase[c] = "reading" /\ phase'[c] = "failed" /\ client'[Own(c)] = "closed"
     \/ /\ asked'[c] = asked[c] /\ client'[Own(c)] = client[Own(c)]
        /\ \/ phase[c] = "idle" /\ phase'[c] = "failed"
           \/ phase[c] = "reading" /\ phase'[c] = "registering"
           \/ phase[c] = "registering" /\ phase'[c] = "building"
           \/ phase[c] = "building" /\ phase'[c] = "open"

LEMMA PhaseDone ==
  ASSUME CTypeOK, NEW c \in Calls,
         \/ \E o \in Options : NewConfigure(c, o) \/ FromEtcdConfig(c, o)
         \/ DialFails(c) \/ FromEtcdFails(c) \/ FromEtcd(c) \/ RegisterDriver(c) \/ Returns(c)
  PROVE  PhaseDoes(c)
  <1>1. Own(c) \in Clients
    BY OwnName
  <1>2. ASSUME NEW o \in Options, NewConfigure(c, o) \/ FromEtcdConfig(c, o)
        PROVE  PhaseDoes(c)
    <2>1. /\ asked' = [asked EXCEPT ![c] = o]
          /\ client' = IF o.custom THEN [client EXCEPT ![Own(c)] = "open"] ELSE client
          /\ o.dialled => o.close /\ o.custom
          /\ phase[c] = "idle"
          /\ phase' = [phase EXCEPT ![c] = "reading"] \/ phase' = [phase EXCEPT ![c] = "registering"]
          /\ UNCHANGED <<driver, ds, sources, closer, lent, ruleless, met>>
      BY <1>2 DEF NewConfigure, FromEtcdConfig, Goes
    <2>2. asked'[c] = o /\ \A b \in Calls \ {c} : phase'[b] = phase[b] /\ asked'[b] = asked[b]
      BY <2>1 DEF CTypeOK
    <2>3. phase'[c] \in {"reading", "registering"}
      BY <2>1 DEF CTypeOK
    <2>4. /\ \A k \in Clients \ {Own(c)} : client'[k] = client[k]
          /\ client'[Own(c)] = IF asked'[c].custom THEN "open" ELSE client[Own(c)]
      BY <1>1, <2>1, <2>2 DEF CTypeOK
    <2> QED BY <2>1, <2>2, <2>3, <2>4 DEF PhaseDoes
  <1>3. ASSUME DialFails(c) \/ FromEtcdFails(c) \/ FromEtcd(c) \/ RegisterDriver(c) \/ Returns(c)
        PROVE  PhaseDoes(c)
    BY <1>1, <1>3 DEF DialFails, FromEtcdFails, FromEtcd, RegisterDriver, Returns, Goes, CTypeOK, PhaseDoes
  <1> QED BY <1>2, <1>3

LEMMA OwnersPhase ==
  ASSUME IInv, OwnersInv, StaysOpen, NEW c \in Calls, PhaseDoes(c)
  PROVE  OwnersInv' /\ StaysOpen'
  <1>1. \A b \in Calls : Started(b) => Started(b)' /\ asked'[b] = asked[b] /\ client'[Own(b)] = client[Own(b)]
    BY ClientNames DEF PhaseDoes, Started
  <1>2. UNCHANGED <<driver, ds, sources, closer, lent, ruleless>>
    BY DEF PhaseDoes
  <1>3. ASSUME NEW d \in Drivers
        PROVE  HasClient(d)' /\ (driver[d].close => client'[driver[d].client] = client[driver[d].client])
    <2>1. HasClient(d)
      BY DEF OwnersInv
    <2>2. CASE \E b \in Calls : /\ driver[d].client = Own(b) /\ Started(b) /\ asked[b].custom
                                /\ driver[d].close = asked[b].close
                                /\ b = d[1] \/ Own(b) \in lent
      <3>1. PICK b \in Calls : /\ driver[d].client = Own(b) /\ Started(b) /\ asked[b].custom
                               /\ driver[d].close = asked[b].close
                               /\ b = d[1] \/ Own(b) \in lent
        BY <2>2
      <3>2. Own(b) # NoClient /\ Own(b) # d
        BY ClientNames
      <3>3. driver[d].schema = "etcd" /\ driver[d].state # "none"
        BY <2>1, <3>1, <3>2 DEF HasClient
      <3> QED BY <1>1, <1>2, <3>1, <3>3 DEF HasClient, Own
    <2>3. CASE driver[d].client = d
      <3>1. client'[d] = client[d]
        BY ClientNames DEF PhaseDoes
      <3> QED BY <1>2, <2>1, <2>3, <3>1, ClientNames DEF HasClient
    <2>4. CASE driver[d].client = NoClient
      BY <1>2, <2>1, <2>4, ClientNames DEF HasClient
    <2> QED BY <2>1, <2>2, <2>3, <2>4 DEF HasClient
  <1>4. \A d \in Drivers : Shuts(d) => Shuts(d)'
    BY <1>2, <1>3 DEF Shuts
  <1>5. \A x \in Closers : closer'[x].pc = "finish" => Shuts(closer[x].at)'
    <2> SUFFICES ASSUME NEW x \in Closers, closer[x].pc = "finish"
                 PROVE  driver'[closer'[x].at].close => client'[driver'[closer'[x].at].client] = "closed"
      BY <1>2 DEF Shuts
    <2>1. closer[x].at \in Drivers /\ Shuts(closer[x].at)
      BY CloserAt DEF OwnersInv
    <2> QED BY <1>2, <1>3, <2>1 DEF Shuts
  <1>6. ASSUME NEW k \in Drivers, client'[k] = "open" PROVE SourceOwned(k)'
    <2>1. client'[k] = client[k] /\ k[1] \in Calls
      BY ClientNames DEF PhaseDoes
    <2>2. SourceOwned(k)
      BY <1>6, <2>1 DEF OwnersInv
    <2>3. phase[k[1]] \in {"panicked", "building", "open"} =>
            \/ phase'[k[1]] = phase[k[1]]
            \/ phase[k[1]] = "building" /\ phase'[k[1]] = "open"
      BY <2>1 DEF PhaseDoes
    <2> QED BY <1>2, <2>2, <2>3 DEF SourceOwned, WillClose
  <1>11. ASSUME NEW b \in Calls, asked'[b].dialled, phase'[b] = "failed"
         PROVE  client'[Own(b)] # "open"
    <2>1. CASE b = c
      BY <1>11, <2>1 DEF PhaseDoes, OwnersInv
    <2>2. CASE b # c
      <3>1. asked'[b] = asked[b] /\ phase'[b] = phase[b] /\ client'[Own(b)] = client[Own(b)]
        BY <2>2, ClientNames DEF PhaseDoes
      <3> QED BY <1>11, <3>1 DEF OwnersInv
    <2> QED BY <2>1, <2>2
  <1>7. /\ \A b \in Calls : asked'[b].dialled => asked'[b].close /\ asked'[b].custom
        /\ \A b \in Calls : phase'[b] = "idle" => ~asked'[b].custom
    BY DEF PhaseDoes, OwnersInv
  <1>8. StaysOpen'
    <2> SUFFICES ASSUME NEW b \in Calls, phase'[b] \notin {"idle", "failed", "panicked"}, Unclosed(b)
                 PROVE  /\ asked'[b].custom => client'[Own(b)] = "open" \/ Own(b) \in lent
                        /\ \A d \in DriversOf(b) : driver[d].client = d => client'[d] = "open" \/ d \in lent
      BY <1>2 DEF StaysOpen, Unclosed, Own, DriversOf
    <2>1. \A d \in DriversOf(b) : d \in Drivers /\ client'[d] = client[d]
      BY ClientNames DEF PhaseDoes
    <2>2. CASE b = c /\ phase[c] = "idle"
      <3>1. asked'[b].custom => client'[Own(b)] = "open"
        BY <2>2 DEF PhaseDoes
      <3>2. \A d \in DriversOf(b) : driver[d].client # d
        <4> SUFFICES ASSUME NEW d \in DriversOf(b), driver[d].client = d PROVE FALSE
          OBVIOUS
        <4>1. driver[d].state = "none" /\ HasClient(d) /\ d # NoClient
          BY <2>1, <2>2, ClientNames DEF IInv, Owned, OwnersInv
        <4> QED BY <4>1 DEF HasClient
      <3> QED BY <3>1, <3>2
    <2>3. CASE b # c \/ phase[c] # "idle"
      <3>1. asked'[b] = asked[b] /\ phase[b] \notin {"idle", "failed", "panicked"} /\ client'[Own(b)] = client[Own(b)]
        BY <2>3, ClientNames DEF PhaseDoes
      <3> QED BY <2>1, <3>1 DEF StaysOpen
    <2> QED BY <2>2, <2>3
  <1>9. \A d \in Drivers : driver'[d].state = "closed" => Shuts(d)'
    BY <1>2, <1>4 DEF OwnersInv
  <1>10. \A d \in Drivers : d[2] > sources' => driver'[d] = NotMade
    BY <1>2 DEF OwnersInv
  <1> QED BY <1>3, <1>5, <1>6, <1>7, <1>8, <1>9, <1>10, <1>11 DEF OwnersInv, Own

\* The steps of a Close.
Enters(x) ==
  /\ closer[x].pc = "idle" /\ closer'[x].pc = "next" /\ closer'[x].call \in Calls
  /\ closer'[x].todo = Used(closer'[x].call)
  /\ UNCHANGED <<client, driver>>
  /\ met \subseteq met'
  /\ \A y \in Closers \ {x} : Working(y) /\ closer[y].call = closer'[x].call => x \in met' /\ y \in met'

Visits(x) ==
  LET d(n) == ds[closer[x].call][n] IN
  /\ closer[x].pc = "next"
  /\ \E n \in closer[x].todo :
       /\ closer'[x].todo = closer[x].todo \ {n}
       /\ \/ IsClosed(d(n)) /\ closer'[x].pc = "next"
          \/ ~IsClosed(d(n)) /\ closer'[x].pc = "close" /\ closer'[x].at = d(n)
  /\ UNCHANGED <<client, driver>>

Begins(x) ==
  LET d == closer[x].at IN
  /\ closer[x].pc = "close" /\ closer'[x].at = d /\ closer'[x].todo = closer[x].todo
  /\ \/ /\ closer'[x].pc = "panicked" /\ driver[d].state # "open"
        /\ UNCHANGED <<client, driver>>
     \/ /\ closer'[x].pc = "finish" /\ driver[d].schema = "file" /\ driver[d].state = "open"
        /\ driver' = [driver EXCEPT ![d].state = "quit"]
        /\ client' = client
     \/ /\ closer'[x].pc = "finish" /\ driver[d].schema = "etcd"
        /\ client' = IF driver[d].close THEN [client EXCEPT ![driver[d].client] = "closed"] ELSE client
        /\ driver' = driver

Finishes(x) ==
  /\ closer[x].pc = "finish" /\ closer'[x].pc = "next" /\ closer'[x].todo = closer[x].todo
  /\ driver' = [driver EXCEPT ![closer[x].at] = Closed(@)]
  /\ client' = client

LeavesClose(x) ==
  /\ closer[x].pc = "next" /\ closer[x].todo = {}
  /\ closer'[x].pc = "done" /\ closer'[x].todo = {}
  /\ UNCHANGED <<client, driver>>

CloserDoes(x) ==
  /\ UNCHANGED <<factory, preloads, phase, ds, sources, asked, lent, ruleless>>
  /\ \A y \in Closers \ {x} : closer'[y] = closer[y]
  /\ \/ Enters(x)
     \/ /\ closer[x].pc # "idle" /\ closer'[x].call = closer[x].call /\ met' = met
        /\ Visits(x) \/ Begins(x) \/ Finishes(x) \/ LeavesClose(x)

LEMMA CloserDone ==
  ASSUME IInv, NEW x \in Closers, Closer(x)
  PROVE  CloserDoes(x)
  <1>1. /\ UNCHANGED <<factory, preloads, phase, ds, sources, asked, lent, ruleless>>
        /\ \A y \in Closers \ {x} : closer'[y] = closer[y]
    BY CloserStep
  <1>2. closer \in [Closers -> [pc : {"idle", "next", "close", "finish", "done", "panicked"},
                                call : Calls \cup {NoCall}, todo : SUBSET Namespaces,
                                at : Drivers \cup {NoDriver}]]
    BY DEF IInv, CTypeOK
  <1>3. ASSUME NEW c \in Calls, CloseCalled(x, c) PROVE Enters(x)
    <2>1. /\ closer[x].pc = "idle" /\ ds' = ds /\ UNCHANGED <<client, driver>>
          /\ closer' = [closer EXCEPT ![x] = [closer[x] EXCEPT !.pc = "next", !.call = c, !.todo = Used(c)]]
      BY <1>3 DEF CloseCalled, Closing
    <2>2. closer'[x].pc = "next" /\ closer'[x].call = c /\ closer'[x].todo = Used(c)
      BY <1>2, <2>1
    <2>3. /\ met \subseteq met'
          /\ \A y \in Closers : Working(y) /\ closer[y].call = c => x \in met' /\ y \in met'
      BY <1>3 DEF CloseCalled, AtWork, Working
    <2> QED BY <2>1, <2>2, <2>3 DEF Enters
  <1>4. ASSUME NEW n \in Namespaces, Visit(x, n) PROVE CloserDoes(x)
    <2> DEFINE d == ds[closer[x].call][n]
    <2>1. /\ n \in closer[x].todo /\ closer[x].pc = "next" /\ UNCHANGED <<client, driver, met>>
          /\ closer' = [closer EXCEPT ![x] =
               IF IsClosed(d) THEN [closer[x] EXCEPT !.todo = @ \ {n}]
               ELSE [[closer[x] EXCEPT !.todo = @ \ {n}] EXCEPT !.pc = "close", !.at = d]]
      BY <1>4 DEF Visit, Closing
    <2> HIDE DEF d
    <2>2. /\ closer'[x].todo = closer[x].todo \ {n} /\ closer'[x].call = closer[x].call
          /\ IsClosed(d) => closer'[x].pc = "next"
          /\ ~IsClosed(d) => closer'[x].pc = "close" /\ closer'[x].at = d
      BY <1>2, <2>1
    <2>3. Visits(x)
      BY <2>1, <2>2 DEF Visits, d
    <2> QED BY <1>1, <2>1, <2>2, <2>3 DEF CloserDoes
  <1>5. CASE CloseFile(x)
    <2>1. closer[x].pc = "close" /\ driver[closer[x].at].schema = "file" /\ UNCHANGED <<client, met>>
      BY <1>5 DEF CloseFile, Closing
    <2>2. CASE driver[closer[x].at].state = "open"
      <3>1. /\ closer' = [closer EXCEPT ![x] = [closer[x] EXCEPT !.pc = "finish"]]
            /\ driver' = [driver EXCEPT ![closer[x].at].state = "quit"]
        BY <1>5, <2>2 DEF CloseFile, Closing
      <3>2. /\ closer'[x].pc = "finish" /\ closer'[x].call = closer[x].call
            /\ closer'[x].at = closer[x].at /\ closer'[x].todo = closer[x].todo
        BY <1>2, <3>1
      <3> QED BY <1>1, <2>1, <2>2, <3>1, <3>2 DEF CloserDoes, Begins
    <2>3. CASE driver[closer[x].at].state # "open"
      <3>1. /\ closer' = [closer EXCEPT ![x] = [closer[x] EXCEPT !.pc = "panicked"]]
            /\ driver' = driver
        BY <1>5, <2>3 DEF CloseFile, Closing
      <3>2. /\ closer'[x].pc = "panicked" /\ closer'[x].call = closer[x].call
            /\ closer'[x].at = closer[x].at /\ closer'[x].todo = closer[x].todo
        BY <1>2, <3>1
      <3> QED BY <1>1, <2>1, <2>3, <3>1, <3>2 DEF CloserDoes, Begins
    <2> QED BY <2>2, <2>3
  <1>6. CASE CloseClient(x)
    <2>1. /\ closer[x].pc = "close" /\ driver[closer[x].at].schema = "etcd" /\ UNCHANGED <<driver, met>>
          /\ client' = IF driver[closer[x].at].close
                       THEN [client EXCEPT ![driver[closer[x].at].client] = "closed"] ELSE client
          /\ closer' = [closer EXCEPT ![x] = [closer[x] EXCEPT !.pc = "finish"]]
      BY <1>6 DEF CloseClient, Closing
    <2>2. /\ closer'[x].pc = "finish" /\ closer'[x].call = closer[x].call
          /\ closer'[x].at = closer[x].at /\ closer'[x].todo = closer[x].todo
      BY <1>2, <2>1
    <2> QED BY <1>1, <2>1, <2>2 DEF CloserDoes, Begins
  <1>7. CASE Finish(x)
    <2>1. /\ closer[x].pc = "finish" /\ UNCHANGED <<client, met>>
          /\ driver' = [driver EXCEPT ![closer[x].at] = Closed(@)]
          /\ closer' = [closer EXCEPT ![x] = [closer[x] EXCEPT !.pc = "next", !.at = NoDriver]]
      BY <1>7 DEF Finish, Closing
    <2>2. /\ closer'[x].pc = "next" /\ closer'[x].call = closer[x].call
          /\ closer'[x].todo = closer[x].todo
      BY <1>2, <2>1
    <2> QED BY <1>1, <2>1, <2>2 DEF CloserDoes, Finishes
  <1>8. CASE CloseReturns(x)
    <2>1. /\ closer[x].pc = "next" /\ closer[x].todo = {} /\ UNCHANGED <<client, driver, met>>
          /\ closer' = [closer EXCEPT ![x] = [closer[x] EXCEPT !.pc = "done"]]
      BY <1>8 DEF CloseReturns, Closing
    <2>2. /\ closer'[x].pc = "done" /\ closer'[x].call = closer[x].call
          /\ closer'[x].todo = closer[x].todo
      BY <1>2, <2>1
    <2> QED BY <1>1, <2>1, <2>2 DEF CloserDoes, LeavesClose
  <1> QED BY <1>1, <1>3, <1>4, <1>5, <1>6, <1>7, <1>8 DEF Closer, CloserDoes

\* What a Close does to a driver and to a client.
LEMMA CloserEffect ==
  ASSUME IInv, OwnersInv, NEW x \in Closers, CloserDoes(x)
  PROVE  /\ \A d \in Drivers :
              \/ driver'[d] = driver[d]
              \/ /\ Begins(x) /\ d = closer[x].at
                 /\ driver[d].state = "open" /\ driver'[d] = [driver[d] EXCEPT !.state = "quit"]
              \/ Finishes(x) /\ d = closer[x].at /\ driver'[d] = Closed(driver[d])
         /\ \A k \in Clients :
              \/ client'[k] = client[k]
              \/ /\ Begins(x) /\ driver[closer[x].at].client = k /\ driver[closer[x].at].close
                 /\ client'[k] = "closed"
         /\ \A d \in Drivers : Shuts(d) => Shuts(d)'
         /\ \A d \in Drivers :
              /\ driver'[d].client = driver[d].client /\ driver'[d].close = driver[d].close
              /\ driver'[d].schema = driver[d].schema
              /\ driver[d].state # "none" => driver'[d].state # "none"
  <1>1. /\ driver \in [Drivers -> Driver] /\ client \in Status
        /\ \A d \in Drivers : driver[d].close => driver[d].client \in Clients
    BY ClientNames DEF IInv, CTypeOK, Status, OwnersInv, HasClient
  <1>2. CASE Begins(x)
    <2> DEFINE at == closer[x].at
    <2>1. at \in Drivers
      BY <1>2, CloserAt DEF Begins
    <2>2. \/ UNCHANGED <<client, driver>>
          \/ /\ driver[at].state = "open" /\ driver' = [driver EXCEPT ![at] = [@ EXCEPT !.state = "quit"]]
             /\ client' = client
          \/ /\ client' = IF driver[at].close THEN [client EXCEPT ![driver[at].client] = "closed"] ELSE client
             /\ driver' = driver
      BY <1>2 DEF Begins
    <2> HIDE DEF at
    <2>3. \A d \in Drivers :
            \/ driver'[d] = driver[d]
            \/ d = at /\ driver[d].state = "open" /\ driver'[d] = [driver[d] EXCEPT !.state = "quit"]
      BY <1>1, <2>1, <2>2
    <2>4. \A k \in Clients :
            \/ client'[k] = client[k]
            \/ driver[at].client = k /\ driver[at].close /\ client'[k] = "closed"
      BY <1>1, <2>1, <2>2 DEF Status
    <2>5. \A d \in Drivers :
            /\ driver'[d].client = driver[d].client /\ driver'[d].close = driver[d].close
            /\ driver'[d].schema = driver[d].schema
            /\ driver[d].state # "none" => driver'[d].state # "none"
      BY <1>1, <2>3 DEF Driver
    <2>6. \A d \in Drivers : Shuts(d) => Shuts(d)'
      BY <1>1, <2>4, <2>5 DEF Shuts
    <2> QED BY <1>2, <2>3, <2>4, <2>5, <2>6 DEF at
  <1>3. CASE Finishes(x)
    <2>1. closer[x].at \in Drivers
      BY <1>3, CloserAt DEF Finishes
    <2>2. /\ client' = client
          /\ \A d \in Drivers : IF d = closer[x].at THEN driver'[d] = Closed(driver[d]) ELSE driver'[d] = driver[d]
      BY <1>1, <1>3, <2>1 DEF Finishes
    <2>3. \A d \in Drivers :
            /\ driver'[d].client = driver[d].client /\ driver'[d].close = driver[d].close
            /\ driver'[d].schema = driver[d].schema
            /\ driver[d].state # "none" => driver'[d].state # "none"
      BY <1>1, <2>2 DEF Driver, Closed
    <2> QED BY <1>3, <2>2, <2>3 DEF Shuts
  <1>4. CASE UNCHANGED <<client, driver>>
    BY <1>4 DEF Shuts
  <1> QED BY <1>2, <1>3, <1>4 DEF CloserDoes, Enters, Visits, LeavesClose

\* Closing a driver closes the client it was to close.
LEMMA OwnersCloser ==
  ASSUME IInv, OwnersInv, NEW x \in Closers, CloserDoes(x)
  PROVE  OwnersInv'
  <1>1. /\ UNCHANGED <<phase, sources, asked, lent, ruleless>>
        /\ \A y \in Closers \ {x} : closer'[y] = closer[y]
    BY DEF CloserDoes
  <1>2. ASSUME NEW d \in Drivers
        PROVE  /\ driver'[d].client = driver[d].client /\ driver'[d].close = driver[d].close
               /\ driver'[d].schema = driver[d].schema
               /\ driver[d].state # "none" => driver'[d].state # "none"
    BY CloserEffect
  <1>3. \A d \in Drivers : d[2] > sources => driver'[d] = NotMade
    <2> SUFFICES ASSUME NEW d \in Drivers, driver[d] = NotMade PROVE driver'[d] = NotMade
      BY DEF OwnersInv
    <2>1. ~((Begins(x) \/ Finishes(x)) /\ d = closer[x].at)
      BY CloserAt DEF Begins, Finishes, NotMade
    <2> QED BY <2>1, CloserEffect
  <1>4. ASSUME NEW d \in Drivers PROVE HasClient(d)'
    <2>1. HasClient(d)
      BY DEF OwnersInv
    <2>2. CASE \E b \in Calls : /\ driver[d].client = Own(b) /\ Started(b) /\ asked[b].custom
                                /\ driver[d].close = asked[b].close
                                /\ b = d[1] \/ Own(b) \in lent
      <3>1. PICK b \in Calls : /\ driver[d].client = Own(b) /\ Started(b) /\ asked[b].custom
                               /\ driver[d].close = asked[b].close
                               /\ b = d[1] \/ Own(b) \in lent
        BY <2>2
      <3>2. Own(b) # NoClient /\ Own(b) # d
        BY ClientNames
      <3>3. driver[d].schema = "etcd" /\ driver[d].state # "none"
        BY <2>1, <3>1, <3>2 DEF HasClient
      <3> QED BY <1>1, <1>2, <3>1, <3>3 DEF HasClient, Own, Started
    <2>3. CASE driver[d].client \in {d, NoClient}
      BY <1>1, <1>2, <2>1, <2>3, ClientNames DEF HasClient
    <2> QED BY <2>1, <2>2, <2>3 DEF HasClient
  <1>5. ASSUME NEW d \in Drivers, driver'[d].state = "closed" PROVE Shuts(d)'
    <2>1. CASE driver[d].state = "closed"
      BY <2>1, CloserEffect DEF OwnersInv
    <2>2. CASE driver[d].state # "closed"
      <3>1. driver[d] \in Driver
        BY DEF IInv, CTypeOK
      <3>2. Finishes(x) /\ d = closer[x].at
        BY <1>5, <2>2, <3>1, CloserEffect DEF Driver
      <3>3. Shuts(d)
        BY <3>2 DEF Finishes, OwnersInv
      <3> QED BY <3>3, CloserEffect
    <2> QED BY <2>1, <2>2
  <1>6. ASSUME NEW y \in Closers, closer'[y].pc = "finish" PROVE Shuts(closer[y].at)'
    <2> SUFFICES driver'[closer'[y].at].close => client'[driver'[closer'[y].at].client] = "closed"
      BY DEF Shuts
    <2>1. CASE y # x
      <3>1. closer'[y] = closer[y]
        BY <1>1, <2>1
      <3>2. closer[y].at \in Drivers /\ Shuts(closer[y].at)
        BY <1>6, <3>1, CloserAt DEF OwnersInv
      <3>3. Shuts(closer[y].at) => (driver'[closer[y].at].close => client'[driver'[closer[y].at].client] = "closed")
        BY <3>2, CloserEffect DEF Shuts
      <3> QED BY <3>1, <3>2, <3>3
    <2>2. CASE y = x
      <3> DEFINE at == closer[x].at
      <3>1. Begins(x) /\ closer'[x].pc = "finish"
        BY <1>6, <2>2 DEF CloserDoes, Enters, Visits, Finishes, LeavesClose
      <3>2. at \in Drivers /\ closer'[x].at = at /\ HasClient(at)
        BY <3>1, CloserAt DEF Begins, OwnersInv
      <3>3. at # NoClient /\ driver'[at].close = driver[at].close /\ driver'[at].client = driver[at].client
        BY <1>2, <3>2, ClientNames
      <3>4. CASE driver[at].schema = "file"
        BY <2>2, <3>2, <3>3, <3>4 DEF HasClient
      <3>5. CASE driver[at].schema = "etcd"
        <4>1. driver[at].close => driver[at].client \in Clients
          <5>1. \A d \in Drivers : driver[d].close => driver[d].client \in Clients
            BY ClientNames DEF OwnersInv, HasClient
          <5> QED BY <3>2, <5>1
        <4>2. driver[at].close => client' = [client EXCEPT ![driver[at].client] = "closed"]
          BY <3>1, <3>5 DEF Begins
        <4> QED BY <2>2, <3>2, <3>3, <4>1, <4>2 DEF IInv, CTypeOK
      <3> QED BY <3>2, <3>4, <3>5 DEF HasClient
    <2> QED BY <2>1, <2>2
  <1>7. ASSUME NEW k \in Drivers, client'[k] = "open" PROVE SourceOwned(k)'
    <2>1. client[k] = "open" /\ k[1] \in Calls
      <3>1. k \in Clients /\ k[1] \in Calls
        BY ClientNames
      <3> QED BY <1>7, <3>1, CloserEffect
    <2>2. SourceOwned(k)
      BY <2>1 DEF OwnersInv
    <2>3. CASE driver[k].client = k /\ driver[k].close /\ WillClose(k)
      <3>1. driver'[k].state # "closed"
        BY <1>2, <1>5, <1>7, <2>3 DEF Shuts
      <3> QED BY <1>1, <1>2, <2>3, <3>1 DEF SourceOwned, WillClose
    <2> QED BY <1>1, <2>2, <2>3 DEF SourceOwned
  <1>8. ASSUME NEW b \in Calls, asked[b].dialled, phase[b] = "failed"
        PROVE  client'[Own(b)] # "open"
    <2>1. client[Own(b)] # "open" /\ Own(b) \in Clients
      BY <1>8, ClientNames DEF OwnersInv
    <2> QED BY <2>1, CloserEffect
  <1> QED BY <1>1, <1>3, <1>4, <1>5, <1>6, <1>7, <1>8 DEF OwnersInv, Own

LEMMA StaysOpenCloser ==
  ASSUME IInv, OwnersInv, StaysOpen, CloserInv, NEW x \in Closers, CloserDoes(x)
  PROVE  StaysOpen'
  <1> SUFFICES ASSUME NEW b \in Calls, phase[b] \notin {"idle", "failed", "panicked"},
                      \A y \in Closers : closer'[y].call # b
               PROVE  /\ asked[b].custom => client'[Own(b)] = "open" \/ Own(b) \in lent
                      /\ \A d \in DriversOf(b) : driver'[d].client = d => client'[d] = "open" \/ d \in lent
    BY DEF StaysOpen, Unclosed, Own, DriversOf, CloserDoes
  <1>1. closer[x].call # b
    <2>1. CASE closer[x].pc = "idle"
      BY <2>1, ConfigureAssumption DEF CloserInv
    <2>2. CASE closer[x].pc # "idle"
      BY <2>2 DEF CloserDoes, Enters
    <2> QED BY <2>1, <2>2
  <1>2. Unclosed(b)
    BY <1>1 DEF Unclosed, CloserDoes
  <1>3. /\ asked[b].custom => client[Own(b)] = "open" \/ Own(b) \in lent
        /\ \A d \in DriversOf(b) : driver[d].client = d => client[d] = "open" \/ d \in lent
    BY <1>2 DEF StaysOpen
  <1> DEFINE at == closer[x].at
  <1>4. ASSUME NEW k \in Clients, client[k] = "open", client'[k] # "open"
        PROVE  at \in Drivers /\ at[1] # b /\ driver[at].client = k /\ HasClient(at)
    <2>1. Begins(x) /\ driver[at].client = k
      BY <1>4, CloserEffect
    <2>2. at \in Drivers /\ at[1] = closer[x].call
      BY <2>1, CloserAt DEF Begins
    <2> QED BY <1>1, <2>1, <2>2 DEF OwnersInv
  <1> HIDE DEF at
  <1>5. ASSUME client[Own(b)] = "open", client'[Own(b)] # "open" PROVE Own(b) \in lent
    <2>1. at \in Drivers /\ at[1] # b /\ driver[at].client = Own(b) /\ HasClient(at)
      BY <1>4, <1>5, ClientNames
    <2>2. Own(b) # NoClient /\ Own(b) # at
      BY <2>1, ClientNames
    <2>3. PICK a \in Calls : Own(b) = Own(a) /\ (a = at[1] \/ Own(a) \in lent)
      BY <2>1, <2>2 DEF HasClient
    <2> QED BY <2>1, <2>3, ClientNames
  <1>6. ASSUME NEW d \in DriversOf(b), driver'[d].client = d
        PROVE  client'[d] = "open" \/ d \in lent
    <2>1. d \in Drivers /\ d \in Clients /\ d[1] = b
      BY ClientNames
    <2>2. driver[d].client = d
      BY <1>6, <2>1, CloserEffect
    <2>3. ASSUME client[d] = "open", client'[d] # "open" PROVE FALSE
      <3>1. at \in Drivers /\ at[1] # b /\ driver[at].client = d /\ HasClient(at)
        BY <1>4, <2>1, <2>3
      <3>2. d # NoClient /\ d # at /\ \A a \in Calls : Own(a) # d
        BY <2>1, <3>1, ClientNames
      <3> QED BY <3>1, <3>2 DEF HasClient
    <2> QED BY <1>3, <2>2, <2>3
  <1> QED BY <1>3, <1>5, <1>6

\* Steps of calls leave what a Close has to do: its Configure is open.
LEMMA CloserInvOthers ==
  ASSUME IInv, CloserInv, NEW c \in Calls, SourceDoes(c) \/ PhaseDoes(c)
  PROVE  CloserInv'
  <1>1. closer' = closer /\ met' = met /\ phase[c] # "open" /\ \A b \in Calls : phase[b] = "open" => ds'[b] = ds[b]
    BY DEF SourceDoes, PhaseDoes
  <1>2. ASSUME NEW d \in Drivers PROVE driver'[d] = driver[d] \/ (d[1] = c /\ driver'[d].state \in {"open", "closed"})
    <2>1. CASE PhaseDoes(c)
      BY <2>1 DEF PhaseDoes
    <2>2. CASE SourceDoes(c)
      <3>1. CASE Leave(d)
        BY <3>1 DEF Leave
      <3>2. CASE Shut(c, d)
        <4>1. driver[d] \in Driver
          BY DEF IInv, CTypeOK
        <4> QED BY <2>2, <3>2, <4>1, SourceElsewhere DEF Leave, Shut, Closed, Driver
      <3>3. CASE Make(c, d)
        BY <2>2, <3>3, SourceElsewhere DEF Leave, Make, MadeBy, Closed, Driver
      <3> QED BY <2>2, <3>1, <3>2, <3>3 DEF SourceDoes
    <2> QED BY <2>1, <2>2
  <1>3. \A d \in Drivers : driver[d].state = "closed" => driver'[d].state = "closed" \/ d[1] = c
    BY <1>2
  <1>4. ASSUME NEW d \in Drivers, driver'[d].state = "quit" PROVE Settled(d)'
    <2>1. driver'[d] = driver[d]
      BY <1>2, <1>4
    <2> QED BY <1>1, <1>4, <2>1 DEF CloserInv, Settled
  <1>5. ASSUME NEW x \in Closers, closer[x].pc # "idle"
        PROVE  /\ closer[x].call \in Calls /\ phase[closer[x].call] = "open" /\ closer[x].call # c
               /\ ds'[closer[x].call] = ds[closer[x].call]
               /\ \A n \in Used(closer[x].call) :
                    ds[closer[x].call][n] \in Drivers /\ ds[closer[x].call][n][1] = closer[x].call
    <2>1. closer[x].call \in Calls /\ phase[closer[x].call] = "open"
      BY <1>5 DEF IInv, CTypeOK, ClosersInRange
    <2>2. \A n \in Used(closer[x].call) : ds[closer[x].call][n] \in Made(closer[x].call)
      BY DEF Made
    <2> QED BY <1>1, <2>1, <2>2, ClientNames DEF IInv, Owned
  <1>6. ASSUME NEW x \in Closers
        PROVE  closer'[x].pc = "close" => driver'[closer[x].at].state = "open" \/ x \in met'
    <2> SUFFICES ASSUME closer[x].pc = "close", x \notin met PROVE driver'[closer[x].at].state = "open"
      BY <1>1
    <2>1. closer[x].at \in Drivers /\ closer[x].at[1] # c /\ driver[closer[x].at].state = "open"
      BY <1>5, CloserAt DEF CloserInv
    <2> QED BY <1>2, <2>1
  <1>7. ASSUME NEW x \in Closers, closer[x].pc # "idle", NEW n \in Used(closer[x].call) \ closer[x].todo
        PROVE  Went(x, n)'
    <2>1. Went(x, n)
      BY <1>7 DEF CloserInv
    <2>2. /\ ds'[closer[x].call][n] = ds[closer[x].call][n]
          /\ ds[closer[x].call][n] \in Drivers /\ ds[closer[x].call][n][1] # c
      BY <1>5, <1>7
    <2>3. driver'[ds[closer[x].call][n]] = driver[ds[closer[x].call][n]]
      BY <1>2, <2>2
    <2> QED BY <1>1, <2>1, <2>2, <2>3 DEF Went, Settled
  <1>8. ASSUME NEW x \in Closers, closer[x].pc # "idle" PROVE Used(closer[x].call)' = Used(closer[x].call)
    BY <1>1, <1>5, <1>8 DEF Used
  <1>9. ASSUME NEW x \in Closers
        PROVE  /\ closer'[x].pc = "idle" => closer'[x].call = NoCall
               /\ closer'[x].pc = "panicked" => x \in met'
               /\ closer'[x].pc = "done" => closer'[x].todo = {}
               /\ \A y \in Closers :
                    Working(x)' /\ Working(y)' /\ x # y /\ closer'[x].call = closer'[y].call => x \in met'
    BY <1>1 DEF CloserInv, Working
  <1> QED BY <1>1, <1>4, <1>6, <1>7, <1>8, <1>9 DEF CloserInv
\* A Close of one goroutine: the drivers it went by are settled, and it meets a
\* driver that another has shut only if that one closes the same Configure.
LEMMA CloserInvCloser ==
  ASSUME IInv, OwnersInv, CloserInv, NEW x \in Closers, CloserDoes(x)
  PROVE  CloserInv'
  <1>1. /\ ds' = ds /\ phase' = phase
        /\ \A y \in Closers \ {x} : closer'[y] = closer[y]
        /\ \A c \in Calls : Used(c)' = Used(c)
    BY DEF CloserDoes, Used
  <1>2. \/ Enters(x)
        \/ /\ closer[x].pc # "idle" /\ closer'[x].call = closer[x].call
           /\ Visits(x) \/ Begins(x) \/ Finishes(x) \/ LeavesClose(x)
    BY DEF CloserDoes
  <1>3. \A d \in Drivers : driver[d] \in Driver
    BY DEF IInv, CTypeOK
  <1>4. ASSUME NEW d \in Drivers, driver[d].state = "closed" PROVE driver'[d].state = "closed"
    <2>1. driver'[d] = driver[d] \/ driver[d].state = "open" \/ driver'[d] = Closed(driver[d])
      BY CloserEffect
    <2> QED BY <1>3, <1>4, <2>1 DEF Closed, Driver
  <1>5. ASSUME NEW d \in Drivers, Finishes(x), d = closer[x].at PROVE driver'[d].state = "closed"
    <2>1. driver' = [driver EXCEPT ![d] = Closed(@)] /\ driver \in [Drivers -> Driver]
      BY <1>5 DEF Finishes, IInv, CTypeOK
    <2> QED BY <2>1, <1>3 DEF Closed, Driver
  <1>6. ASSUME NEW d \in Drivers, Settled(d) PROVE Settled(d)'
    <2>1. CASE driver[d].state = "closed"
      BY <1>4, <2>1 DEF Settled
    <2>2. ASSUME NEW y \in Closers, closer[y].pc = "finish", closer[y].at = d PROVE Settled(d)'
      <3>1. CASE y # x
        BY <1>1, <2>2, <3>1 DEF Settled
      <3>2. CASE y = x
        <4>1. Finishes(x)
          BY <1>2, <2>2, <3>2 DEF Enters, Visits, Begins, LeavesClose
        <4> QED BY <1>5, <2>2, <3>2, <4>1 DEF Settled
      <3> QED BY <3>1, <3>2
    <2> QED BY <1>6, <2>1, <2>2 DEF Settled
  <1>7. met \subseteq met'
    BY <1>2 DEF CloserDoes, Enters
  <1>8. ASSUME NEW y \in Closers, closer[y].pc # "idle"
        PROVE  /\ closer[y].call \in Calls /\ closer[y].todo \subseteq Used(closer[y].call)
               /\ \A n \in Used(closer[y].call) :
                    /\ ds[closer[y].call][n] \in Drivers
                    /\ driver[ds[closer[y].call][n]].state # "none"
    <2>1. closer[y].call \in Calls /\ closer[y].todo \subseteq Used(closer[y].call)
      BY <1>8 DEF IInv, CTypeOK, ClosersInRange
    <2>2. \A n \in Used(closer[y].call) : ds[closer[y].call][n] \in Made(closer[y].call)
      BY DEF Made
    <2> QED BY <2>1, <2>2, ClientNames DEF IInv, Owned
  <1>9. ASSUME NEW d \in Drivers, driver'[d].state = "quit" PROVE Settled(d)'
    <2>1. CASE driver[d].state = "quit"
      BY <1>6, <2>1 DEF CloserInv
    <2>2. CASE driver[d].state # "quit"
      <3>1. Begins(x) /\ d = closer[x].at /\ driver'[d] # driver[d]
        <4>1. \/ driver'[d] = driver[d]
              \/ Begins(x) /\ d = closer[x].at
              \/ driver'[d] = Closed(driver[d])
          BY CloserEffect
        <4> QED BY <1>3, <1>9, <2>2, <4>1 DEF Closed, Driver
      <3>2. closer'[x].pc = "finish" /\ closer'[x].at = d
        BY <3>1 DEF Begins
      <3> QED BY <3>2 DEF Settled
    <2> QED BY <2>1, <2>2
  <1>10. ASSUME NEW y \in Closers, closer'[y].pc = "close"
         PROVE  driver'[closer'[y].at].state = "open" \/ y \in met'
    <2>1. CASE y # x
      <3>1. closer'[y] = closer[y] /\ closer[y].pc = "close"
        BY <1>1, <1>10, <2>1
      <3>2. CASE y \in met
        BY <1>7, <3>2
      <3>3. CASE y \notin met
        <4>1. driver[closer[y].at].state = "open" /\ closer[y].at \in Drivers
              /\ closer[y].at[1] = closer[y].call
          BY <3>1, <3>3, CloserAt DEF CloserInv
        <4>2. ASSUME Begins(x) \/ Finishes(x), closer[y].at = closer[x].at PROVE FALSE
          <5>1. closer[x].at[1] = closer[x].call /\ Working(x) /\ Working(y)
            BY <3>1, <4>2, CloserAt DEF Begins, Finishes, Working
          <5> QED BY <2>1, <3>3, <4>1, <4>2, <5>1 DEF CloserInv
        <4>3. driver'[closer[y].at] = driver[closer[y].at]
          BY <4>1, <4>2, CloserEffect
        <4> QED BY <3>1, <4>1, <4>3
      <3> QED BY <3>2, <3>3
    <2>2. CASE y = x
      <3>1. Visits(x)
        BY <1>2, <1>10, <2>2 DEF Enters, Begins, Finishes, LeavesClose
      <3>2. PICK n \in closer[x].todo : ~IsClosed(ds[closer[x].call][n])
                                        /\ closer'[x].at = ds[closer[x].call][n]
        BY <1>10, <2>2, <3>1 DEF Visits
      <3>3. closer'[x].at \in Drivers /\ driver[closer'[x].at].state # "none"
        BY <1>8, <3>1, <3>2 DEF Visits
      <3>4. driver[closer'[x].at].state = "open"
        BY <1>3, <3>2, <3>3 DEF IsClosed, Driver
      <3> QED BY <2>2, <3>1, <3>4 DEF Visits
    <2> QED BY <2>1, <2>2
  <1>11. ASSUME NEW y \in Closers
         PROVE  /\ closer'[y].pc = "idle" => closer'[y].call = NoCall
                /\ closer'[y].pc = "panicked" => y \in met'
                /\ closer'[y].pc = "done" => closer'[y].todo = {}
    <2>1. CASE y # x
      <3>1. closer'[y] = closer[y]
        BY <1>1, <2>1
      <3> QED BY <1>7, <3>1 DEF CloserInv
    <2>2. CASE y = x
      <3>1. ASSUME closer'[x].pc = "panicked" PROVE x \in met'
        <4>1. closer[x].pc = "close" /\ driver[closer[x].at].state # "open"
          BY <1>2, <3>1 DEF Enters, Visits, Begins, Finishes, LeavesClose
        <4> QED BY <1>7, <4>1 DEF CloserInv
      <3>2. closer'[x].pc # "idle" /\ (closer'[x].pc = "done" => closer'[x].todo = {})
        BY <1>2 DEF Enters, Visits, Begins, Finishes, LeavesClose
      <3> QED BY <2>2, <3>1, <3>2
    <2> QED BY <2>1, <2>2
  <1>12. ASSUME NEW y \in Closers, closer'[y].pc # "idle",
                NEW n \in Used(closer'[y].call) \ closer'[y].todo
         PROVE  Went(y, n)'
    <2>1. CASE y # x
      <3>1. closer'[y] = closer[y] /\ n \in Used(closer[y].call) \ closer[y].todo
        BY <1>1, <1>8, <1>12, <2>1
      <3>2. Went(y, n) /\ ds[closer[y].call][n] \in Drivers
        BY <1>8, <1>12, <3>1 DEF CloserInv
      <3> QED BY <1>1, <1>6, <3>1, <3>2 DEF Went
    <2>2. CASE y = x
      <3>1. ~Enters(x)
        BY <1>1, <1>12, <2>2 DEF Enters
      <3>2. closer[x].pc # "idle" /\ closer'[x].call = closer[x].call
        BY <1>2, <3>1
      <3>3. n \in Used(closer[x].call) /\ ds[closer[x].call][n] \in Drivers
        BY <1>1, <1>8, <1>12, <2>2, <3>2
      <3> PICK d \in Drivers : d = ds[closer[x].call][n]
        BY <3>3
      <3>4. Settled(d)' => Went(x, n)'
        BY <1>1, <3>2 DEF Went, Settled
      <3>5. CASE n \in closer[x].todo
        <4>1. Visits(x)
          BY <1>2, <1>12, <2>2, <3>1, <3>5 DEF Begins, Finishes, LeavesClose
        <4>2. \/ IsClosed(d)
              \/ closer'[x].pc = "close" /\ closer'[x].at = d
          BY <1>12, <2>2, <3>5, <4>1 DEF Visits
        <4>3. IsClosed(d) => Settled(d)
          BY <3>3 DEF IsClosed, CloserInv, Settled
        <4> QED BY <1>1, <1>6, <2>2, <3>2, <3>3, <3>4, <4>2, <4>3 DEF Went
      <3>6. CASE n \notin closer[x].todo
        <4>1. Went(x, n)
          BY <3>2, <3>3, <3>6 DEF CloserInv
        <4>2. CASE Settled(d)
          BY <1>6, <2>2, <3>3, <3>4, <4>2
        <4>3. CASE closer[x].pc \in {"close", "finish"} /\ closer[x].at = d
          <5>1. CASE Begins(x)
            BY <1>1, <2>2, <3>2, <4>3, <5>1 DEF Begins, Went
          <5>2. CASE Finishes(x)
            BY <1>5, <2>2, <3>3, <3>4, <4>3, <5>2 DEF Settled
          <5> QED BY <1>2, <3>1, <4>3, <5>1, <5>2 DEF Visits, LeavesClose
        <4>4. closer[x].pc # "panicked"
          BY <1>2, <3>1 DEF Visits, Begins, Finishes, LeavesClose
        <4> QED BY <4>1, <4>2, <4>3, <4>4 DEF Went
      <3> QED BY <3>5, <3>6
    <2> QED BY <2>1, <2>2
  <1>13. ASSUME NEW y \in Closers, NEW z \in Closers, Working(y)', Working(z)', y # z,
                closer'[y].call = closer'[z].call
         PROVE  y \in met'
    <2>1. CASE Enters(x) /\ x \in {y, z}
      <3>1. \A w \in Closers \ {x} : Working(w)' => Working(w) /\ closer'[w].call = closer[w].call
        BY <1>1 DEF Working
      <3> QED BY <1>13, <2>1, <3>1 DEF Enters
    <2>2. CASE ~(Enters(x) /\ x \in {y, z})
      <3>1. \A w \in {y, z} : Working(w) /\ closer'[w].call = closer[w].call
        BY <1>1, <1>2, <1>13, <2>2 DEF Working, Visits, Begins, Finishes, LeavesClose
      <3> QED BY <1>7, <1>13, <3>1 DEF CloserInv
    <2> QED BY <2>1, <2>2
  <1> QED BY <1>1, <1>9, <1>10, <1>11, <1>12, <1>13 DEF CloserInv, Used

LEMMA ClosingStep ==
  IInv /\ FactoryOfCall /\ OwnersInv /\ StaysOpen /\ CloserInv /\ [Next]_vars
    => OwnersInv' /\ StaysOpen' /\ CloserInv'
  <1> SUFFICES ASSUME IInv, FactoryOfCall, OwnersInv, StaysOpen, CloserInv, [Next]_vars
               PROVE  OwnersInv' /\ StaysOpen' /\ CloserInv'
    OBVIOUS
  <1>0. CTypeOK
    BY DEF IInv
  <1>1. ASSUME NEW c \in Calls, NewSource(c) PROVE OwnersInv' /\ StaysOpen' /\ CloserInv'
    <2>1. SourceDoes(c)
      BY <1>0, <1>1, SourceDone
    <2>2. FailedLeavesNothing'
      BY StepInv DEF IInv
    <2> QED BY <2>1, <2>2, OwnersSource, StaysOpenSource, CloserInvOthers
  <1>2. ASSUME NEW c \in Calls,
               \/ \E o \in Options : NewConfigure(c, o) \/ FromEtcdConfig(c, o)
               \/ DialFails(c) \/ FromEtcdFails(c) \/ FromEtcd(c) \/ RegisterDriver(c) \/ Returns(c)
        PROVE  OwnersInv' /\ StaysOpen' /\ CloserInv'
    <2>1. PhaseDoes(c)
      BY <1>0, <1>2, PhaseDone
    <2> QED BY <2>1, OwnersPhase, CloserInvOthers
  <1>3. ASSUME NEW x \in Closers, Closer(x) PROVE OwnersInv' /\ StaysOpen' /\ CloserInv'
    <2>1. CloserDoes(x)
      BY <1>3, CloserDone
    <2> QED BY <2>1, OwnersCloser, StaysOpenCloser, CloserInvCloser
  <1>4. CASE UNCHANGED vars
    <2>1. OwnersInv'
      BY <1>4 DEF vars, OwnersInv, HasClient, Started, Shuts, SourceOwned, WillClose, Own
    <2>2. StaysOpen'
      BY <1>4 DEF vars, StaysOpen, Unclosed, Own
    <2>3. CloserInv'
      BY <1>4 DEF vars, CloserInv, Settled, Working, Went, Used
    <2> QED BY <2>1, <2>2, <2>3
  <1> QED BY <1>1, <1>2, <1>3, <1>4 DEF Next

LEMMA ClosingInit == Init => OwnersInv /\ StaysOpen /\ CloserInv
  <1> SUFFICES ASSUME Init PROVE OwnersInv /\ StaysOpen /\ CloserInv
    OBVIOUS
  <1>1. /\ \A d \in Drivers : driver[d] = NotMade
        /\ \A k \in Clients : client[k] = "none"
        /\ \A x \in Closers : closer[x].pc = "idle" /\ closer[x].call = NoCall
        /\ \A c \in Calls : phase[c] = "idle" /\ ~asked[c].custom /\ ~asked[c].dialled
    BY DEF Init
  <1>2. OwnersInv
    <2>1. \A d \in Drivers : HasClient(d) /\ driver[d].state = "none"
      BY <1>1 DEF HasClient, NotMade
    <2>2. \A k \in Drivers : client[k] = "none"
      BY <1>1, ClientNames
    <2> QED BY <1>1, <2>1, <2>2 DEF OwnersInv
  <1>3. StaysOpen /\ CloserInv
    BY <1>1 DEF StaysOpen, CloserInv, NotMade, Working
  <1> QED BY <1>2, <1>3

LEMMA ClosingInvariance == Spec => [](IInv /\ OwnersInv /\ StaysOpen /\ CloserInv)
  <1> QED BY ClosingInit, ClosingStep, Invariance, PTL DEF Spec

\* A client the library dialled, whatever fails and however many calls share the
\* factories, has a driver that closes it within reach of a Close, or a FromEtcdConfig
\* that is at work, but for the leaks LeftOpen names: sources without rules, panics,
\* and clients of FromEtcdConfig that none of its drivers has (etcd.go:117,
\* configure.go:32, new.go:52, 94).
THEOREM EveryClientHasAnOwner == Spec => []ClientsHaveOwners
  <1>1. IInv /\ OwnersInv => ClientsHaveOwners
    <2> SUFFICES ASSUME IInv, OwnersInv, NEW k \in Clients, Dialled(k), client[k] = "open"
                 PROVE  \/ \E d \in Drivers : driver[d].client = k /\ driver[d].close /\ WillClose(d)
                        \/ k[2] = 0 /\ phase[k[1]] \in {"reading", "registering", "building"}
                        \/ LeftOpen(k)
      BY DEF ClientsHaveOwners
    <2>1. CASE k[2] # 0
      <3>1. k \in Drivers
        BY <2>1, ConfigureAssumption DEF Clients, Drivers, Sources
      <3> QED BY <2>1, <3>1 DEF OwnersInv, SourceOwned, LeftOpen
    <2>2. CASE k[2] = 0
      <3>1. PICK b \in Calls : k = Own(b) /\ k[1] = b /\ asked[b].dialled
        BY <2>2, ClientNames DEF Dialled
      <3>2. phase[b] \in {"reading", "registering", "building", "open", "panicked"}
        BY <3>1 DEF OwnersInv, IInv, CTypeOK
      <3>3. ASSUME phase[b] = "open", NEW d \in DriversOf(b), driver[d].client = k
            PROVE  d \in Drivers /\ driver[d].close /\ WillClose(d)
        <4>1. d \in Drivers /\ d[1] = b /\ k # d /\ k # NoClient
          BY <3>1, <3>3, ClientNames
        <4>2. driver[d].close
          BY <3>1, <3>3, <4>1, ClientNames DEF OwnersInv, HasClient
        <4>3. driver[d].state # "closed"
          BY <3>3, <4>1, <4>2 DEF OwnersInv, Shuts
        <4> QED BY <3>3, <4>1, <4>2, <4>3 DEF WillClose
      <3> QED BY <2>2, <3>1, <3>2, <3>3 DEF LeftOpen
    <2> QED BY <2>1, <2>2
  <1> QED BY <1>1, ClosingInvariance, PTL

\* The clients of a Configure stay open until its Close, however many calls share
\* the factories, unless another call took the client from the factory
\* (new.go:39-64).
THEOREM OpenStaysOpen == Spec => []OpenMeansOpen
  <1>1. OwnersInv /\ StaysOpen => OpenMeansOpen
    <2> SUFFICES ASSUME OwnersInv, StaysOpen, NEW c \in Calls, phase[c] = "open", Unclosed(c),
                        NEW d \in DriversOf(c), driver[d].client # NoClient
                 PROVE  client[driver[d].client] = "open" \/ driver[d].client \in lent
      BY DEF OpenMeansOpen, Unclosed
    <2>1. d \in Drivers /\ d[1] = c
      BY ClientNames
    <2>2. /\ asked[c].custom => client[Own(c)] = "open" \/ Own(c) \in lent
          /\ driver[d].client = d => client[d] = "open" \/ d \in lent
      BY DEF StaysOpen
    <2> QED BY <2>1, <2>2 DEF OwnersInv, HasClient
  <1> QED BY <1>1, ClosingInvariance, PTL

\* However many goroutines, drivers and namespaces: only a Close that was at work
\* together with another Close of its Configure closes the quit channel of a file
\* driver twice (file.go:148-151, configure.go:163-167).
THEOREM OnlyOverlappingClosesPanic == Spec => []PanicNeedsARace
  <1>1. CloserInv => PanicNeedsARace
    BY DEF CloserInv, PanicNeedsARace
  <1> QED BY <1>1, ClosingInvariance, PTL

\* What Close leaves when it returns: every driver closed with its client, or in the
\* hands of a Close that is not done (configure.go:163-167).
THEOREM ClosesAll == Spec => []CloseIsComplete
  <1>1. IInv /\ OwnersInv /\ CloserInv => CloseIsComplete
    <2> SUFFICES ASSUME IInv, OwnersInv, CloserInv, NEW x \in Closers, closer[x].pc = "done",
                        NEW d \in Made(closer[x].call)
                 PROVE  \/ /\ driver[d].state = "closed"
                           /\ driver[d].close => client[driver[d].client] = "closed"
                        \/ \E y \in Closers : closer[y].pc = "finish" /\ closer[y].at = d
      BY DEF CloseIsComplete
    <2>1. PICK n \in Used(closer[x].call) : d = ds[closer[x].call][n]
      BY DEF Made
    <2>2. Went(x, n) /\ closer[x].call \in Calls
      BY <2>1 DEF CloserInv, IInv, CTypeOK, ClosersInRange
    <2>3. Settled(d)
      BY <2>1, <2>2 DEF Went
    <2>4. d \in Drivers
      BY <2>2, ClientNames DEF IInv, Owned
    <2> QED BY <2>3, <2>4 DEF Settled, OwnersInv, Shuts
  <1> QED BY <1>1, ClosingInvariance, PTL
=================================================================================
