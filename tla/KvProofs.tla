-------------------------------- MODULE KvProofs --------------------------------
(***************************************************************************)
(* What holds of a Kv for any number of keys, values, readers and watch    *)
(* goroutines, and any bounds.                                             *)
(***************************************************************************)
EXTENDS Kv, TLAPS

\* A revision changes its own key only, said of any two revisions at once: this
\* form is inductive, where "each revision and the one before it" would need an
\* induction on the distance between the two.
OnlyEventsChange ==
  \A k \in Keys : \A j \in 1..Rev : \A i \in 1..j :
    (\A m \in (i + 1)..j : hist[m].key # k) => At(k, i) = At(k, j)

\* Whoever holds a revision, or the place of one, holds one etcd has committed.
RevisionsCommitted ==
  /\ \A r \in Readers : rd[r].pc = "fill" => rd[r].rev \in 1..Rev
  /\ pl.pc = "apply" => pl.rev \in 1..Rev
  /\ \A s \in Streams : pos[s] \in 0..Rev
  /\ \A s \in Streams : ws[s] = "hook" => pos[s] \in 1..Rev /\ hist[pos[s]].key \in Keys

IInv == TypeOK /\ RevisionsCommitted /\ OnlyEventsChange /\ EntryShowsEtcd

\* The only action that touches hist appends one revision.
LEMMA CommitAppends ==
  ASSUME TypeOK, NEW k \in Keys, NEW v \in Stored, Commit(k, v)
  PROVE  /\ Rev \in Nat /\ Rev >= 1
         /\ Rev' = Rev + 1
         /\ \A i \in 1..Rev : hist'[i] = hist[i]
         /\ hist'[Rev + 1] = [key |-> k, store |-> [hist[Rev].store EXCEPT ![k] = v]]
         /\ hist' \in Seq(Revision)
  <1> DEFINE new == [key |-> k, store |-> [hist[Rev].store EXCEPT ![k] = v]]
  <1>1. hist \in Seq(Revision) /\ Rev >= 1 /\ Rev \in Nat
    BY DEF TypeOK, Rev
  <1>2. hist[Rev] \in Revision
    BY <1>1 DEF Rev
  <1>3. new \in Revision
    BY <1>2 DEF Revision
  <1>4. hist' = Append(hist, new)
    BY DEF Commit
  <1> HIDE DEF new
  <1>5. /\ Rev' = Rev + 1
        /\ \A i \in 1..Rev : hist'[i] = hist[i]
        /\ hist'[Rev + 1] = new
        /\ hist' \in Seq(Revision)
    BY <1>1, <1>3, <1>4 DEF Rev
  <1> QED BY <1>1, <1>5 DEF new

\* Every revision is one, and gives every key a value or none.
LEMMA RevisionType ==
  ASSUME TypeOK, NEW i \in 1..Rev
  PROVE  hist[i] \in Revision /\ \A k \in Keys : At(k, i) \in Stored
  <1>1. hist[i] \in Revision
    BY DEF TypeOK, Rev
  <1> QED BY <1>1 DEF At, Revision

\* An answer is cached as an entry that shows it.
LEMMA EntryOfType ==
  ASSUME NEW v \in Stored
  PROVE  /\ EntryOf(v) \in Entry
         /\ EntryOf(v).exists <=> v # Absent
         /\ EntryOf(v).exists => EntryOf(v).value = v
         /\ v # Absent => EntryOf(v) = Present(v)
  BY KvAssumption DEF EntryOf, Entry, Missing, Present, Stored

\* The first states satisfy the invariant.
LEMMA InitInv == Init => IInv
  <1> SUFFICES ASSUME Init PROVE IInv
    OBVIOUS
  <1>1. PICK store \in [Keys -> Stored] : hist = <<[key |-> NoKey, store |-> store]>>
    BY DEF Init
  <1>2. Rev = 1 /\ hist[1] = [key |-> NoKey, store |-> store]
    BY <1>1 DEF Rev
  <1>3. hist \in Seq(Revision)
    BY <1>1 DEF Revision
  <1>4. TypeOK
    BY <1>2, <1>3, KvAssumption DEF Init, TypeOK, Idle, Stored
  <1>5. RevisionsCommitted
    BY <1>2 DEF Init, RevisionsCommitted, Idle
  <1>6. OnlyEventsChange
    BY <1>2 DEF OnlyEventsChange
  <1>7. EntryShowsEtcd
    BY DEF Init, EntryShowsEtcd, ShowsEtcd, Cached
  <1> QED BY <1>4, <1>5, <1>6, <1>7 DEF IInv

-----------------------------------------------------------------------------
(* Every step keeps the invariant.                                         *)

\* A commit moves nothing but the end of hist.
LEMMA CommitInv ==
  ASSUME IInv, NEW k \in Keys, NEW v \in Stored, Commit(k, v)
  PROVE  IInv'
  <1> USE DEF IInv
  <1>1. /\ Rev \in Nat /\ Rev >= 1
        /\ Rev' = Rev + 1
        /\ \A i \in 1..Rev : hist'[i] = hist[i]
        /\ hist'[Rev + 1] = [key |-> k, store |-> [hist[Rev].store EXCEPT ![k] = v]]
        /\ hist' \in Seq(Revision)
    BY CommitAppends
  <1>2. \A q \in Keys : \A i \in 1..Rev : At(q, i)' = At(q, i)
    BY <1>1 DEF At
  <1>3. \A q \in Keys \ {k} : hist'[Rev + 1].store[q] = At(q, Rev)
    <2>1. hist[Rev].store \in [Keys -> Stored]
      BY <1>1, RevisionType DEF Revision
    <2> QED BY <1>1, <2>1 DEF At
  <1>4. TypeOK'
    BY <1>1 DEF Commit, TypeOK
  <1>5. RevisionsCommitted'
    <2>1. \A i \in 0..Rev : i \in 0..Rev' /\ (i > 0 => i \in 1..Rev')
      BY <1>1
    <2>2. \A i \in 1..Rev : i \in 1..Rev' /\ hist'[i] = hist[i]
      BY <1>1
    <2> QED BY <2>1, <2>2 DEF Commit, RevisionsCommitted
  <1>6. OnlyEventsChange'
    <2> SUFFICES ASSUME NEW q \in Keys, NEW j \in 1..Rev', NEW i \in 1..j,
                        \A m \in (i + 1)..j : hist'[m].key # q
                 PROVE  At(q, i)' = At(q, j)'
      BY DEF OnlyEventsChange
    <2>1. CASE i = j
      BY <2>1
    <2>2. CASE j <= Rev
      <3>1. \A m \in (i + 1)..j : hist[m].key # q
        BY <1>1, <2>2
      <3>2. At(q, i) = At(q, j)
        BY <1>1, <2>2, <3>1 DEF OnlyEventsChange
      <3> QED BY <1>1, <1>2, <2>2, <3>2
    <2>3. CASE j = Rev + 1 /\ i # j
      <3>1. q # k
        BY <1>1, <2>3
      <3>2. \A m \in (i + 1)..Rev : hist[m].key # q
        BY <1>1, <2>3
      <3>3. i \in 1..Rev
        BY <1>1, <2>3
      <3>4. At(q, i) = At(q, Rev)
        BY <1>1, <3>2, <3>3 DEF OnlyEventsChange
      <3>5. At(q, j)' = hist'[Rev + 1].store[q]
        BY <2>3 DEF At
      <3> QED BY <1>2, <1>3, <3>1, <3>3, <3>4, <3>5
    <2> QED BY <1>1, <2>1, <2>2, <2>3
  <1>7. EntryShowsEtcd'
    BY <1>1, <1>2 DEF Commit, EntryShowsEtcd, ShowsEtcd, Shows, Cached
  <1> QED BY <1>4, <1>5, <1>6, <1>7

\* What a step that is no commit has to show.
LEMMA NoCommitInv ==
  ASSUME IInv, hist' = hist, TypeOK', RevisionsCommitted',
         \A k \in Keys : ShowsEtcd(k)'
  PROVE  IInv'
  BY DEF IInv, OnlyEventsChange, EntryShowsEtcd, At, Rev

\* Asking for a key, failing to, registering a hook and running the hooks leave
\* the cache alone.
LEMMA CacheAloneInv ==
  ASSUME IInv, UNCHANGED <<hist, entries, asOf>>, TypeOK', RevisionsCommitted'
  PROVE  IInv'
  <1>1. \A k \in Keys : ShowsEtcd(k)'
    BY DEF IInv, EntryShowsEtcd, ShowsEtcd, Shows, Cached, At, Rev
  <1> QED BY <1>1, NoCommitInv

LEMMA ReaderInv ==
  ASSUME IInv, NEW r \in Readers, Reader(r)
  PROVE  IInv'
  <1> USE DEF IInv
  <1>1. Rev \in Nat /\ Rev >= 1 /\ Rev \in 1..Rev
    BY DEF TypeOK, Rev
  <1>2. ASSUME NEW k \in Keys, Lookup(r, k) PROVE IInv'
    <2>1. TypeOK'
      BY <1>2 DEF Lookup, TypeOK, Rev
    <2>2. RevisionsCommitted'
      BY <1>2 DEF Lookup, RevisionsCommitted, Rev, TypeOK
    <2> QED BY <1>2, <2>1, <2>2, CacheAloneInv DEF Lookup
  <1>3. CASE Fetch(r)
    <2>1. TypeOK'
      BY <1>1, <1>3 DEF Fetch, TypeOK, Rev
    <2>2. RevisionsCommitted'
      BY <1>1, <1>3 DEF Fetch, RevisionsCommitted, Rev, TypeOK
    <2> QED BY <1>3, <2>1, <2>2, CacheAloneInv DEF Fetch
  <1>4. CASE FetchFail(r)
    <2>1. TypeOK'
      BY <1>4 DEF FetchFail, TypeOK, Rev, Idle
    <2>2. RevisionsCommitted'
      BY <1>4 DEF FetchFail, RevisionsCommitted, Rev, TypeOK, Idle
    <2> QED BY <1>4, <2>1, <2>2, CacheAloneInv DEF FetchFail
  <1>5. CASE Fill(r)
    <2> DEFINE k == rd[r].key
    <2>1. k \in Keys /\ rd[r].rev \in 1..Rev
      BY <1>5 DEF Fill, TypeOK, RevisionsCommitted
    <2>2. At(k, rd[r].rev) \in Stored
      BY <2>1, RevisionType
    <2>3. TypeOK'
      <3>1. rd' = [rd EXCEPT ![r] = Idle]
        BY <1>5 DEF Fill
      <3>2. EntryOf(At(k, rd[r].rev)) \in Entry /\ rd[r].rev \in Nat
        BY <2>1, <2>2, EntryOfType
      <3>3. entries' \in [Keys -> Entry \cup {NoEntry}] /\ asOf' \in [Keys -> Nat]
        BY <1>5, <2>1, <3>2 DEF Fill, TypeOK
      <3> QED BY <1>5, <3>1, <3>3 DEF Fill, TypeOK, Rev, Idle
    <2>4. RevisionsCommitted'
      BY <1>5 DEF Fill, RevisionsCommitted, Rev, TypeOK, Idle
    <2>5. ASSUME NEW q \in Keys
          PROVE  ShowsEtcd(q)'
      <3>0. ShowsEtcd(q)
        BY DEF EntryShowsEtcd
      <3>1. CASE entries' = entries /\ asOf' = asOf
        BY <1>5, <3>0, <3>1 DEF Fill, ShowsEtcd, Shows, Cached, At, Rev
      <3>2. CASE /\ ~Cached(k)
                 /\ entries' = [entries EXCEPT ![k] = EntryOf(At(k, rd[r].rev))]
                 /\ asOf' = [asOf EXCEPT ![k] = rd[r].rev]
        <4>1. CASE q = k
          <5>1. entries'[q] = EntryOf(At(q, rd[r].rev)) /\ asOf'[q] = rd[r].rev
            BY <2>1, <3>2, <4>1 DEF TypeOK
          <5>2. hist' = hist /\ At(q, rd[r].rev) \in Stored
            BY <1>5, <2>2, <4>1 DEF Fill
          <5> HIDE DEF k
          <5> QED BY <2>1, <4>1, <5>1, <5>2, EntryOfType DEF ShowsEtcd, Shows, Cached, At, Rev
        <4>2. CASE q # k
          <5>1. entries'[q] = entries[q] /\ asOf'[q] = asOf[q]
            BY <2>1, <3>2, <4>2 DEF TypeOK
          <5> QED BY <1>5, <3>0, <5>1 DEF Fill, ShowsEtcd, Shows, Cached, At, Rev
        <4> QED BY <4>1, <4>2
      <3> QED BY <1>5, <3>1, <3>2 DEF Fill
    <2> QED BY <1>5, <2>3, <2>4, <2>5, NoCommitInv DEF Fill
  <1> QED BY <1>2, <1>3, <1>4, <1>5 DEF Reader

LEMMA PreloadInv ==
  ASSUME IInv, PreloadGet \/ PreloadApply
  PROVE  IInv'
  <1> USE DEF IInv
  <1>1. Rev \in Nat /\ Rev >= 1 /\ Rev \in 1..Rev
    BY DEF TypeOK, Rev
  <1>2. CASE PreloadGet
    <2>1. TypeOK'
      BY <1>1, <1>2 DEF PreloadGet, TypeOK, Rev
    <2>2. RevisionsCommitted'
      BY <1>1, <1>2 DEF PreloadGet, RevisionsCommitted, Rev
    <2> QED BY <1>2, <2>1, <2>2, CacheAloneInv DEF PreloadGet
  <1>3. CASE PreloadApply
    <2>1. pl.rev \in 1..Rev
      BY <1>3 DEF PreloadApply, RevisionsCommitted
    <2>2. \A k \in Keys : At(k, pl.rev) \in Stored
      BY <2>1, RevisionType
    <2>3. \A k \in Keys : Preloads(k) => Present(At(k, pl.rev)) \in Entry
      BY <2>2 DEF Preloads, Present, Entry, Stored
    <2>4. /\ entries' \in [Keys -> Entry \cup {NoEntry}]
          /\ asOf' \in [Keys -> Nat]
      BY <1>1, <1>3, <2>1, <2>3 DEF PreloadApply, TypeOK
    <2>5. TypeOK'
      BY <1>3, <2>4 DEF PreloadApply, TypeOK, Rev
    <2>6. RevisionsCommitted'
      BY <1>3 DEF PreloadApply, RevisionsCommitted, Rev
    <2>7. ASSUME NEW k \in Keys
          PROVE  ShowsEtcd(k)'
      <3>1. CASE Preloads(k)
        BY <1>3, <2>1, <3>1 DEF PreloadApply, Preloads, Present, ShowsEtcd, Shows, At, Rev
      <3>2. CASE ~Preloads(k)
        BY <1>3, <3>2 DEF PreloadApply, EntryShowsEtcd, ShowsEtcd, Shows, Cached, At, Rev
      <3> QED BY <3>1, <3>2
    <2> QED BY <1>3, <2>5, <2>6, <2>7, NoCommitInv DEF PreloadApply
  <1> QED BY <1>2, <1>3

\* One lemma for the three ways an event is handled: an event puts the store of
\* its own revision into the entry.
LEMMA HandleInv ==
  ASSUME IInv, NEW s \in Streams, NEW i \in 1..Rev, NEW k \in Keys, Handle(s, i, k)
  PROVE  IInv'
  <1> USE DEF IInv
  <1>1. Rev \in Nat /\ i \in Nat /\ At(k, i) \in Stored /\ hist[i].key = k
    BY RevisionType DEF TypeOK, Rev, Handle, Drop, HandlePut, HandleDelete, Delivers
  <1>2. /\ UNCHANGED <<hist, hooks, rd, pl, told>>
        /\ pos' = [pos EXCEPT ![s] = i]
    BY DEF Handle, Drop, HandlePut, HandleDelete, Delivers
  <1>3. CASE Drop(s, i, k)
    <2>1. TypeOK'
      BY <1>1, <1>2, <1>3 DEF Drop, TypeOK, Rev
    <2>2. RevisionsCommitted'
      <3>1. ws' = ws /\ ws[s] = "idle"
        BY <1>3 DEF Drop, Delivers
      <3> QED BY <1>1, <1>2, <3>1 DEF RevisionsCommitted, Rev, TypeOK
    <2> QED BY <1>2, <1>3, <2>1, <2>2, CacheAloneInv DEF Drop
  <1>4. CASE HandlePut(s, i, k) \/ HandleDelete(s, i, k)
    <2> DEFINE new == IF At(k, i) = Absent THEN Missing ELSE Present(At(k, i))
    <2>1. /\ new \in Entry
          /\ At(k, i) = IF new.exists THEN new.value ELSE Absent
      BY <1>1, KvAssumption DEF Missing, Present, Entry, Stored
    <2>2. entries' = [entries EXCEPT ![k] = new]
      <3>1. CASE entries[k] = Present(At(k, i)) /\ HandlePut(s, i, k)
        BY <3>1 DEF HandlePut, TypeOK
      <3>2. CASE entries[k] # Present(At(k, i)) /\ HandlePut(s, i, k)
        BY <3>2 DEF HandlePut
      <3>3. CASE HandleDelete(s, i, k)
        BY <3>3 DEF HandleDelete
      <3> QED BY <1>4, <3>1, <3>2, <3>3
    <2>3. asOf' = [asOf EXCEPT ![k] = i] /\ Cached(k)
      BY <1>4 DEF HandlePut, HandleDelete
    <2>4. ws' = ws \/ ws' = [ws EXCEPT ![s] = "hook"]
      BY <1>4 DEF HandlePut, HandleDelete
    <2>5. TypeOK'
      <3>1. entries' \in [Keys -> Entry \cup {NoEntry}] /\ asOf' \in [Keys -> Nat]
        BY <1>1, <2>1, <2>2, <2>3 DEF TypeOK
      <3>2. ws' \in [Streams -> {"off", "idle", "hook", "stopped"}] /\ pos' \in [Streams -> Nat]
        BY <1>1, <1>2, <2>4 DEF TypeOK
      <3> QED BY <1>2, <3>1, <3>2 DEF TypeOK, Rev
    <2>6. RevisionsCommitted'
      <3>1. \A t \in Streams \ {s} : ws'[t] = ws[t] /\ pos'[t] = pos[t]
        BY <1>2, <2>4 DEF TypeOK
      <3>2. pos'[s] = i
        BY <1>2 DEF TypeOK
      <3> QED BY <1>1, <1>2, <3>1, <3>2 DEF RevisionsCommitted, Rev
    <2>7. ASSUME NEW q \in Keys
          PROVE  ShowsEtcd(q)'
      <3>1. CASE q = k
        <4>1. entries'[q] = new /\ asOf'[q] = i
          BY <2>2, <2>3, <3>1 DEF TypeOK
        <4> QED BY <1>2, <2>1, <3>1, <4>1 DEF ShowsEtcd, Shows, At, Rev
      <3>2. CASE q # k
        <4>1. entries'[q] = entries[q] /\ asOf'[q] = asOf[q]
          BY <2>2, <2>3, <3>2 DEF TypeOK
        <4> QED BY <1>2, <4>1 DEF EntryShowsEtcd, ShowsEtcd, Shows, Cached, At, Rev
      <3> QED BY <3>1, <3>2
    <2> QED BY <1>2, <2>5, <2>6, <2>7, NoCommitInv
  <1> QED BY <1>3, <1>4 DEF Handle

\* Starting, ending and the hooks of a watch goroutine.
LEMMA StreamInv ==
  ASSUME IInv, NEW s \in Streams, Watch(s) \/ RunHooks(s) \/ HooksPanic(s) \/ Stop(s)
  PROVE  IInv'
  <1> USE DEF IInv
  <1>1. Rev \in Nat /\ Rev \in 0..Rev
    BY DEF TypeOK, Rev
  <1>2. CASE Watch(s)
    <2>1. TypeOK'
      BY <1>1, <1>2 DEF Watch, TypeOK, Rev
    <2>2. RevisionsCommitted'
      BY <1>1, <1>2 DEF Watch, RevisionsCommitted, Rev, TypeOK
    <2> QED BY <1>2, <2>1, <2>2, CacheAloneInv DEF Watch
  <1>3. CASE RunHooks(s)
    <2>1. hist[pos[s]].key \in Keys /\ At(hist[pos[s]].key, pos[s]) \in Stored
      BY <1>3, RevisionType DEF RunHooks, RevisionsCommitted
    <2>2. TypeOK'
      BY <1>3, <2>1 DEF RunHooks, TypeOK, Rev
    <2>3. RevisionsCommitted'
      BY <1>3 DEF RunHooks, RevisionsCommitted, Rev, TypeOK
    <2> QED BY <1>3, <2>2, <2>3, CacheAloneInv DEF RunHooks
  <1>4. CASE Stop(s)
    <2>1. TypeOK'
      BY <1>4 DEF Stop, TypeOK, Rev
    <2>2. RevisionsCommitted'
      BY <1>4 DEF Stop, RevisionsCommitted, Rev, TypeOK
    <2> QED BY <1>4, <2>1, <2>2, CacheAloneInv DEF Stop
  <1>5. CASE HooksPanic(s)
    <2>1. TypeOK'
      BY <1>5 DEF HooksPanic, TypeOK, Rev
    <2>2. RevisionsCommitted'
      BY <1>5 DEF HooksPanic, RevisionsCommitted, Rev, TypeOK
    <2> QED BY <1>5, <2>1, <2>2, CacheAloneInv DEF HooksPanic
  <1> QED BY <1>2, <1>3, <1>4, <1>5

LEMMA HookInv ==
  ASSUME IInv, NEW k \in Keys, OnKeyChange(k)
  PROVE  IInv'
  <1>1. TypeOK'
    BY DEF IInv, OnKeyChange, TypeOK, Rev
  <1>2. RevisionsCommitted'
    BY DEF IInv, OnKeyChange, RevisionsCommitted, Rev
  <1> QED BY <1>1, <1>2, CacheAloneInv DEF OnKeyChange

LEMMA StepInv == IInv /\ [Next]_vars => IInv'
  <1> SUFFICES ASSUME IInv, [Next]_vars PROVE IInv'
    OBVIOUS
  <1>1. CASE Next
    <2>1. CASE \E k \in Keys, v \in Stored : Commit(k, v)
      BY <2>1, CommitInv
    <2>2. CASE \E r \in Readers : Reader(r)
      BY <2>2, ReaderInv
    <2>3. CASE PreloadGet \/ PreloadApply
      BY <2>3, PreloadInv
    <2>4. CASE \E k \in Keys : OnKeyChange(k)
      BY <2>4, HookInv
    <2>5. CASE \E s \in Streams, i \in 1..Rev, k \in Keys : Handle(s, i, k)
      BY <2>5, HandleInv
    <2>6. CASE \E s \in Streams : Watch(s) \/ RunHooks(s) \/ HooksPanic(s) \/ Stop(s)
      BY <2>6, StreamInv
    <2> QED BY <1>1, <2>1, <2>2, <2>3, <2>4, <2>5, <2>6 DEF Next, Stream
  <1>2. CASE UNCHANGED vars
    <2>1. TypeOK' /\ RevisionsCommitted'
      BY <1>2 DEF IInv, vars, TypeOK, RevisionsCommitted, Rev
    <2> QED BY <1>2, <2>1, CacheAloneInv DEF vars
  <1> QED BY <1>1, <1>2

THEOREM Invariance == Spec => []IInv
  <1> QED BY InitInv, StepInv, PTL DEF Spec

-----------------------------------------------------------------------------
(* The results.                                                            *)

\* The state of a Kv is what kv.go declares, and every revision it refers to is
\* one etcd has.
THEOREM TypeCorrect == Spec => []TypeOK
  <1> QED BY Invariance, PTL DEF IInv

\* Whatever order fills, preloads and events come in, an entry shows a value its
\* key really had (kv.go:58-86, 272-297, 213-254).
THEOREM CacheShowsEtcd == Spec => []EntryShowsEtcd
  <1> QED BY Invariance, PTL DEF IInv

\* Handling an event leaves no key staler than it was: the key of the event now
\* shows the newest revision its stream has passed, and no other key can be
\* waiting for that revision.
LEMMA HandleNotStale ==
  ASSUME IInv, NEW s \in Streams, NEW i \in 1..Rev, NEW q \in Keys, Handle(s, i, q),
         NEW k \in Keys, Cached(k), Stale(k)'
  PROVE  Stale(k)
  <1>1. /\ hist' = hist /\ hist[i].key = q /\ i = pos[s] + 1
        /\ pos' = [pos EXCEPT ![s] = i]
        /\ Rev \in Nat /\ i \in Nat /\ pos \in [Streams -> Nat]
    BY DEF IInv, TypeOK, Rev, Handle, Drop, HandlePut, HandleDelete, Delivers
  <1>2. PICK j \in 1..Rev : asOf'[k] < j /\ hist[j].key = k /\ \A t \in Streams : pos'[t] >= j
    BY <1>1 DEF Stale, Passed, Rev
  <1>3. asOf[k] \in Nat /\ j <= i
    BY <1>1, <1>2 DEF IInv, TypeOK
  <1>4. CASE k = q
    <2>1. asOf'[k] = i
      BY <1>4 DEF IInv, TypeOK, Handle, Drop, HandlePut, HandleDelete
    <2> QED BY <1>1, <1>2, <1>3, <2>1
  <1>5. CASE k # q
    <2>1. asOf'[k] = asOf[k]
      BY <1>5 DEF IInv, TypeOK, Handle, Drop, HandlePut, HandleDelete
    <2>2. j # i
      BY <1>1, <1>2, <1>5
    <2>3. \A t \in Streams : pos[t] >= j
      BY <1>1, <1>2, <1>3, <2>2
    <2> QED BY <1>2, <2>1, <2>3 DEF Stale, Passed
  <1> QED BY <1>4, <1>5

\* A new revision cannot be one that every stream has passed.
LEMMA CommitNotStale ==
  ASSUME IInv, NEW q \in Keys, NEW v \in Stored, Commit(q, v),
         NEW k \in Keys, Stale(k)'
  PROVE  Stale(k)
  <1>1. /\ Rev \in Nat /\ Rev' = Rev + 1
        /\ \A i \in 1..Rev : hist'[i] = hist[i]
        /\ UNCHANGED <<entries, pos, asOf>>
    BY CommitAppends DEF IInv, Commit
  <1>2. PICK j \in 1..Rev' : asOf[k] < j /\ hist'[j].key = k /\ \A t \in Streams : pos[t] >= j
    BY <1>1 DEF Stale, Passed
  <1>3. PICK t \in Streams : TRUE
    BY KvAssumption
  <1>4. j \in 1..Rev
    BY <1>1, <1>2, <1>3 DEF IInv, RevisionsCommitted
  <1> QED BY <1>1, <1>2, <1>4 DEF Stale, Passed, Cached

\* An entry that follows its streams can fall behind for good only in the three
\* windows of the code (kv.go:58-86, 124-129, 272-297, watcher.go:97).
THEOREM StaleWindows == Spec => StaleOnlyFromWindows
  <1>1. ASSUME IInv, [Next]_vars, NEW k \in Keys, Stale(k)', ~Stale(k)
        PROVE  InWindow(k)
    <2> SUFFICES ASSUME Cached(k) PROVE InWindow(k)
      BY DEF InWindow
    <2>1. CASE UNCHANGED <<hist, entries, pos, asOf>>
      BY <1>1, <2>1 DEF Stale, Passed, Cached, Rev
    <2>2. CASE \E q \in Keys, v \in Stored : Commit(q, v)
      BY <1>1, <2>2, CommitNotStale
    <2>3. CASE \E s \in Streams, i \in 1..Rev, q \in Keys : Handle(s, i, q)
      BY <1>1, <2>3, HandleNotStale
    <2>4. CASE \E r \in Readers : Reader(r)
      <3>1. PICK r \in Readers : Reader(r)
        BY <2>4
      <3>2. hist' = hist /\ pos' = pos /\ entries'[k] = entries[k] /\ asOf'[k] = asOf[k]
        BY <1>1, <3>1 DEF Reader, Lookup, Fetch, FetchFail, Fill, IInv, TypeOK, Cached
      <3> QED BY <1>1, <3>2 DEF Stale, Passed, Cached, Rev
    <2>5. CASE PreloadApply
      BY <2>5 DEF PreloadApply, InWindow
    <2>6. CASE \E s \in Streams : Watch(s)
      BY <1>1, <2>6 DEF Watch, InWindow, IInv, TypeOK
    <2>7. CASE \/ PreloadGet
               \/ \E q \in Keys : OnKeyChange(q)
               \/ \E s \in Streams : RunHooks(s) \/ HooksPanic(s) \/ Stop(s)
      BY <2>1, <2>7 DEF PreloadGet, OnKeyChange, RunHooks, HooksPanic, Stop
    <2> QED BY <1>1, <2>1, <2>2, <2>3, <2>4, <2>5, <2>6, <2>7 DEF Next, Stream, vars
  <1>2. IInv /\ [Next]_vars => [\A k \in Keys : Stale(k)' /\ ~Stale(k) => InWindow(k)]_vars
    BY <1>1
  <1> QED BY <1>2, Invariance, PTL DEF Spec, StaleOnlyFromWindows
=================================================================================
