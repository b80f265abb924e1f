------------------------------ MODULE EngineProofs ------------------------------
(***************************************************************************)
(* What holds of Engine and Cors for any levels of Use and UseCors, any    *)
(* configurations and origins, any number of calls of next and any use of  *)
(* the response.                                                           *)
(*                                                                         *)
(* Below and applyAll go down a chain of any length, so the proofs need    *)
(* induction over the natural numbers.  It comes from the theorems about   *)
(* finite sets, as a lemma about a set instead of a predicate.             *)
(***************************************************************************)
EXTENDS Engine, FiniteSetTheorems, SequenceTheorems, TLAPS

-----------------------------------------------------------------------------
(* Induction.  A set of numbers that misses n, and whose members below n    *)
(* have their successors in it, would map to itself without its 0.         *)

LEMMA Induction ==
  ASSUME NEW S, 0 \in S, \A n \in Nat : n \in S => n + 1 \in S
  PROVE  \A n \in Nat : n \in S
  <1> SUFFICES ASSUME NEW n \in Nat, n \notin S PROVE FALSE
    OBVIOUS
  <1> DEFINE T == {a \in 0..n : a \in S}
             f == [a \in T |-> a + 1]
  <1>1. IsFiniteSet(T)
    <2>1. IsFiniteSet(0..n) /\ T \subseteq 0..n
      BY FS_Interval
    <2> HIDE DEF T
    <2> QED BY <2>1, FS_Subset
  <1>2. IsFiniteSet(T \ {0}) /\ Cardinality(T \ {0}) = Cardinality(T) - 1
    <2>1. 0 \in T
      OBVIOUS
    <2> HIDE DEF T
    <2> QED BY <1>1, <2>1, FS_RemoveElement
  <1>3. f \in Injection(T, T \ {0})
    <2>1. \A a \in T : a + 1 \in T \ {0}
      <3> TAKE a \in T
      <3>1. a \in Nat /\ a <= n /\ a # n
        OBVIOUS
      <3> QED BY <3>1
    <2>2. \A a, b \in T : f[a] = f[b] => a = b
      OBVIOUS
    <2> HIDE DEF T
    <2> QED BY <2>1, <2>2 DEF Injection, IsInjective
  <1>4. Cardinality(T) <= Cardinality(T \ {0})
    <2> HIDE DEF T, f
    <2> QED BY <1>2, <1>3, FS_Injection
  <1>5. Cardinality(T) \in Nat
    <2> HIDE DEF T
    <2> QED BY <1>1, FS_CardinalityType
  <1> DEFINE c == Cardinality(T)
  <1>6. c \in Nat /\ c <= c - 1
    BY <1>2, <1>4, <1>5
  <1> HIDE DEF c
  <1> QED BY <1>6

\* The members of a chain from l on have a first that is no UseCors: or else it is
\* the handler.
LEMMA BelowIsFirst ==
  ASSUME chain \in Seq((Nat \ {0}) \cup Configs), NEW l \in 1..HandlerLevel
  PROVE  /\ Below(l) \in l..HandlerLevel
         /\ Below(l) # HandlerLevel => chain[Below(l)] \notin Configs
         /\ \A m \in l..(Below(l) - 1) : chain[m] \in Configs
  <1>1. Len(chain) \in Nat /\ DOMAIN chain = 1..Len(chain) /\ HandlerLevel = Len(chain) + 1
    BY DEF HandlerLevel
  <1> DEFINE Q(m) == /\ m = HandlerLevel \/ chain[m] \notin Configs
                     /\ \A b \in l..(m - 1) : chain[b] \in Configs
             S == {a \in Nat : (\E m \in l..HandlerLevel : Q(m)) \/ \A b \in l..(l + a) : b \in 1..Len(chain) /\ chain[b] \in Configs}
  <1>2. \E m \in l..HandlerLevel : Q(m)
    <2> SUFFICES ASSUME ~ \E m \in l..HandlerLevel : Q(m) PROVE FALSE
      OBVIOUS
    <2>1. 0 \in S
      <3>1. ~ Q(l)
        BY <1>1
      <3>2. l # HandlerLevel /\ chain[l] \in Configs
        BY <1>1, <3>1
      <3> QED BY <1>1, <3>2
    <2>2. ASSUME NEW a \in Nat, a \in S PROVE a + 1 \in S
      <3>1. \A b \in l..(l + a) : b \in 1..Len(chain) /\ chain[b] \in Configs
        BY <2>2
      <3>2. l + a \in 1..Len(chain)
        BY <1>1, <3>1
      <3>3. l + a + 1 \in l..HandlerLevel
        BY <1>1, <3>2
      <3>4. ~ Q(l + a + 1)
        BY <3>3
      <3>5. l + a + 1 # HandlerLevel /\ chain[l + a + 1] \in Configs
        BY <1>1, <3>1, <3>4
      <3>6. \A b \in l..(l + (a + 1)) : b \in l..(l + a) \/ b = l + a + 1
        BY <1>1
      <3>7. \A b \in l..(l + (a + 1)) : b \in 1..Len(chain) /\ chain[b] \in Configs
        BY <1>1, <3>1, <3>3, <3>5, <3>6
      <3> QED BY <3>7
    <2>3. \A a \in Nat : a \in S
      <3> HIDE DEF S
      <3> QED BY <2>1, <2>2, Induction
    <2>4. Len(chain) \in S
      BY <1>1, <2>3
    <2>5. l + Len(chain) \in l..(l + Len(chain)) /\ l + Len(chain) \notin 1..Len(chain)
      BY <1>1
    <2> QED BY <2>4, <2>5
  <1>3. Below(l) = CHOOSE m \in l..HandlerLevel : Q(m)
    BY DEF Below
  <1>4. Below(l) \in l..HandlerLevel /\ Q(Below(l))
    <2> HIDE DEF Q
    <2> QED BY <1>2, <1>3
  <1> QED BY <1>4

-----------------------------------------------------------------------------
(* UseCors.                                                                *)

\* The headers after the first n levels of UseCors in cs, for each n.
IsAfter(g, m, cs, origin, h) ==
  g = [n \in 0..m |-> IF n = 0 THEN h ELSE apply(cs[n], origin, g[n - 1])]

LEMMA AfterExists ==
  ASSUME NEW cs, NEW origin, NEW h
  PROVE  \A m \in Nat : \E g : IsAfter(g, m, cs, origin, h)
  <1> DEFINE S == {m \in Nat : \E g : IsAfter(g, m, cs, origin, h)}
  <1>1. 0 \in S
    <2> DEFINE g == [n \in 0..0 |-> h]
    <2>1. IsAfter(g, 0, cs, origin, h)
      BY DEF IsAfter
    <2> QED BY <2>1
  <1>2. ASSUME NEW m \in Nat, m \in S PROVE m + 1 \in S
    <2>1. PICK g : IsAfter(g, m, cs, origin, h)
      BY <1>2
    <2> DEFINE k == [n \in 0..(m + 1) |-> IF n = m + 1 THEN apply(cs[m + 1], origin, g[m]) ELSE g[n]]
               r == [n \in 0..(m + 1) |-> IF n = 0 THEN h ELSE apply(cs[n], origin, k[n - 1])]
    <2>2. DOMAIN g = 0..m /\ \A n \in 0..m : g[n] = IF n = 0 THEN h ELSE apply(cs[n], origin, g[n - 1])
      BY <2>1 DEF IsAfter
    <2>3. \A n \in 0..(m + 1) : k[n] = r[n]
      <3> TAKE n \in 0..(m + 1)
      <3>1. CASE n = 0
        BY <2>2, <3>1
      <3>2. CASE n \in 1..m
        <4>1. n \in 0..m /\ n # m + 1 /\ n # 0 /\ n - 1 \in 0..(m + 1) /\ n - 1 # m + 1 /\ n - 1 \in 0..m
          BY <3>2
        <4>2. k[n - 1] = g[n - 1] /\ k[n] = g[n]
          BY <4>1
        <4>3. g[n] = apply(cs[n], origin, g[n - 1])
          BY <2>2, <4>1
        <4> QED BY <4>1, <4>2, <4>3
      <3>3. CASE n = m + 1
        <4>1. n # 0 /\ n - 1 = m /\ m \in 0..(m + 1) /\ m # m + 1
          BY <3>3
        <4>2. k[m] = g[m]
          BY <4>1
        <4> QED BY <3>3, <4>1, <4>2
      <3> QED BY <3>1, <3>2, <3>3
    <2>4. k = r
      BY <2>3, Zenon
    <2>5. IsAfter(k, m + 1, cs, origin, h)
      BY <2>4 DEF IsAfter
    <2> QED BY <2>5
  <1> HIDE DEF S
  <1>3. \A m \in Nat : m \in S
    BY <1>1, <1>2, Induction
  <1> QED BY <1>3 DEF S

LEMMA AppliedIsAfter ==
  ASSUME NEW cs \in Seq(Configs), NEW origin, NEW h
  PROVE  \E g : /\ applyAll(cs, origin, h) = g[Len(cs)]
                /\ g[0] = h
                /\ \A n \in 1..Len(cs) : g[n] = apply(cs[n], origin, g[n - 1])
  <1> DEFINE g == CHOOSE f : IsAfter(f, Len(cs), cs, origin, h)
  <1>1. Len(cs) \in Nat
    OBVIOUS
  <1>2. IsAfter(g, Len(cs), cs, origin, h)
    BY <1>1, AfterExists
  <1>3. applyAll(cs, origin, h) = g[Len(cs)]
    BY DEF applyAll, IsAfter
  <1> HIDE DEF g
  <1>4. \A n \in 0..Len(cs) : g[n] = IF n = 0 THEN h ELSE apply(cs[n], origin, g[n - 1])
    BY <1>2 DEF IsAfter
  <1> QED BY <1>1, <1>3, <1>4

\* What follows of levels p and then q is what q makes of what p made.
LEMMA AllOfBoth ==
  ASSUME NEW p \in Seq(Configs), NEW q \in Seq(Configs), NEW origin, NEW h
  PROVE  applyAll(p \o q, origin, h) = applyAll(q, origin, applyAll(p, origin, h))
  <1>0. PICK both \in Seq(Configs) : both = p \o q
    <2>1. p \o q \in Seq(Configs)
      OBVIOUS
    <2> QED BY <2>1, Zenon
  <1> DEFINE a == Len(p)
             b == Len(q)
             hp == applyAll(p, origin, h)
  <1>1. Len(both) = a + b /\ a \in Nat /\ b \in Nat
    BY <1>0
  <1>8. /\ \A n \in 1..a : both[n] = p[n]
        /\ \A n \in 1..b : both[a + n] = q[n]
    BY <1>0
  <1>2. PICK f : /\ hp = f[a] /\ f[0] = h
                 /\ \A n \in 1..a : f[n] = apply(p[n], origin, f[n - 1])
    BY AppliedIsAfter
  <1>3. PICK g : /\ applyAll(q, origin, hp) = g[b] /\ g[0] = hp
                 /\ \A n \in 1..b : g[n] = apply(q[n], origin, g[n - 1])
    <2> HIDE DEF hp
    <2> QED BY AppliedIsAfter
  <1>4. PICK k : /\ applyAll(both, origin, h) = k[Len(both)] /\ k[0] = h
                 /\ \A n \in 1..Len(both) : k[n] = apply(both[n], origin, k[n - 1])
    BY AppliedIsAfter
  <1> HIDE DEF a, b, hp
  <1>5. \A n \in Nat : n <= a => k[n] = f[n]
    <2> DEFINE S == {n \in Nat : n <= a => k[n] = f[n]}
    <2>1. 0 \in S
      BY <1>2, <1>4
    <2>2. ASSUME NEW n \in Nat, n \in S PROVE n + 1 \in S
      <3> SUFFICES ASSUME n + 1 <= a PROVE k[n + 1] = f[n + 1]
        OBVIOUS
      <3>1. n + 1 \in 1..a /\ n + 1 \in 1..Len(both) /\ (n + 1) - 1 = n /\ k[n] = f[n]
        BY <1>1, <2>2
      <3> QED BY <1>2, <1>4, <1>8, <3>1
    <2> HIDE DEF S
    <2>3. \A n \in Nat : n \in S
      BY <2>1, <2>2, Induction
    <2> QED BY <2>3 DEF S
  <1>6. \A n \in Nat : n <= b => k[a + n] = g[n]
    <2> DEFINE S == {n \in Nat : n <= b => k[a + n] = g[n]}
    <2>1. 0 \in S
      <3>1. k[a] = f[a] /\ a + 0 = a
        BY <1>1, <1>5
      <3> QED BY <1>2, <1>3, <3>1
    <2>2. ASSUME NEW n \in Nat, n \in S PROVE n + 1 \in S
      <3> SUFFICES ASSUME n + 1 <= b PROVE k[a + (n + 1)] = g[n + 1]
        OBVIOUS
      <3>1. n + 1 \in 1..b /\ (n + 1) - 1 = n /\ k[a + n] = g[n]
        BY <1>1, <2>2
      <3>2. PICK m \in 1..Len(both) : m = a + (n + 1) /\ m - 1 = a + n
        BY <1>1
      <3>3. k[m] = apply(both[m], origin, k[m - 1])
        BY <1>4
      <3>4. both[m] = q[n + 1]
        BY <1>8, <3>1, <3>2
      <3> QED BY <1>3, <3>1, <3>2, <3>3, <3>4
    <2> HIDE DEF S
    <2>3. \A n \in Nat : n \in S
      BY <2>1, <2>2, Induction
    <2> QED BY <2>3 DEF S
  <1>7. k[a + b] = g[b]
    BY <1>1, <1>6
  <1> QED BY <1>0, <1>1, <1>3, <1>4, <1>7 DEF hp

LEMMA AllOfNone == ASSUME NEW origin, NEW h PROVE applyAll(<<>>, origin, h) = h
  <1>0. <<>> \in Seq(Configs) /\ Len(<<>>) = 0
    OBVIOUS
  <1>1. PICK cs \in Seq(Configs) : cs = <<>> /\ Len(cs) = 0
    BY <1>0, Zenon
  <1>2. PICK g : /\ applyAll(cs, origin, h) = g[Len(cs)] /\ g[0] = h
                 /\ \A n \in 1..Len(cs) : g[n] = apply(cs[n], origin, g[n - 1])
    BY AppliedIsAfter
  <1> QED BY <1>1, <1>2

LEMMA AllOfOne ==
  ASSUME NEW c \in Configs, NEW origin, NEW h
  PROVE  applyAll(<<c>>, origin, h) = apply(c, origin, h)
  <1>0. <<c>> \in Seq(Configs) /\ Len(<<c>>) = 1 /\ <<c>>[1] = c
    OBVIOUS
  <1>1. PICK cs \in Seq(Configs) : cs = <<c>> /\ Len(cs) = 1 /\ cs[1] = c
    BY <1>0, Zenon
  <1>2. PICK g : /\ applyAll(cs, origin, h) = g[Len(cs)] /\ g[0] = h
                 /\ \A n \in 1..Len(cs) : g[n] = apply(cs[n], origin, g[n - 1])
    BY AppliedIsAfter
  <1>3. 1 \in 1..1 /\ 1 - 1 = 0
    OBVIOUS
  <1>4. g[1] = apply(c, origin, h)
    BY <1>1, <1>2, <1>3
  <1> QED BY <1>1, <1>2, <1>4

\* One level that does not say Vary treats all origins alike, and says Vary if the
\* levels above did (cors.go:34-60).
LEMMA ApplyTells ==
  ASSUME NEW c \in Configs, NEW r \in Origins \cup {Same}, NEW h \in Headers
  PROVE  /\ apply(c, r, h) \in Headers
         /\ ~apply(c, r, h).vary => ~h.vary /\ \A o \in Origins : apply(c, o, h) = apply(c, r, h)
  BY CorsAssumption DEF apply, notCors, validateOrigin, setHeaders, Headers

\* The levels together: either they say Vary or every origin is told the same.
LEMMA AllTell ==
  ASSUME NEW cs \in Seq(Configs), NEW r \in Origins \cup {Same}, NEW h \in Headers
  PROVE  /\ applyAll(cs, r, h) \in Headers
         /\ ~applyAll(cs, r, h).vary => \A o \in Origins : applyAll(cs, o, h) = applyAll(cs, r, h)
  <1>1. PICK f : /\ applyAll(cs, r, h) = f[Len(cs)] /\ f[0] = h
                 /\ \A n \in 1..Len(cs) : f[n] = apply(cs[n], r, f[n - 1])
    BY AppliedIsAfter
  <1>2. \A n \in 1..Len(cs) : cs[n] \in Configs
    OBVIOUS
  <1>3. Len(cs) \in Nat
    OBVIOUS
  <1>4. \A n \in Nat : n <= Len(cs) => f[n] \in Headers
    <2> DEFINE S == {n \in Nat : n <= Len(cs) => f[n] \in Headers}
    <2>1. 0 \in S
      BY <1>1
    <2>2. ASSUME NEW n \in Nat, n \in S PROVE n + 1 \in S
      <3> SUFFICES ASSUME n + 1 <= Len(cs) PROVE f[n + 1] \in Headers
        OBVIOUS
      <3>1. n + 1 \in 1..Len(cs) /\ (n + 1) - 1 = n /\ f[n] \in Headers
        BY <1>3, <2>2
      <3>2. f[n + 1] = apply(cs[n + 1], r, f[n]) /\ cs[n + 1] \in Configs
        BY <1>1, <1>2, <3>1
      <3> HIDE DEF S
      <3> QED BY <3>1, <3>2, ApplyTells
    <2> HIDE DEF S
    <2>3. \A n \in Nat : n \in S
      BY <2>1, <2>2, Induction
    <2> QED BY <2>3 DEF S
  <1>5. ASSUME NEW o \in Origins
        PROVE  ~applyAll(cs, r, h).vary => applyAll(cs, o, h) = applyAll(cs, r, h)
    <2>1. PICK g : /\ applyAll(cs, o, h) = g[Len(cs)] /\ g[0] = h
                   /\ \A n \in 1..Len(cs) : g[n] = apply(cs[n], o, g[n - 1])
      BY AppliedIsAfter
    <2> DEFINE S == {n \in Nat : n <= Len(cs) => (f[n].vary \/ g[n] = f[n])}
    <2>2. 0 \in S
      BY <1>1, <2>1
    <2>3. ASSUME NEW n \in Nat, n \in S PROVE n + 1 \in S
      <3> SUFFICES ASSUME n + 1 <= Len(cs), ~f[n + 1].vary PROVE g[n + 1] = f[n + 1]
        OBVIOUS
      <3>1. n + 1 \in 1..Len(cs) /\ (n + 1) - 1 = n /\ f[n] \in Headers /\ (f[n].vary \/ g[n] = f[n])
        BY <1>3, <1>4, <2>3
      <3>2. f[n + 1] = apply(cs[n + 1], r, f[n]) /\ g[n + 1] = apply(cs[n + 1], o, g[n])
        BY <1>1, <2>1, <3>1
      <3>3. ~f[n].vary /\ apply(cs[n + 1], o, f[n]) = apply(cs[n + 1], r, f[n])
        BY <1>2, <3>1, <3>2, ApplyTells
      <3> QED BY <3>1, <3>2, <3>3
    <2> HIDE DEF S
    <2>4. \A n \in Nat : n \in S
      BY <2>2, <2>3, Induction
    <2> QED BY <1>1, <1>3, <2>1, <2>4 DEF S
  <1> QED BY <1>1, <1>3, <1>4, <1>5

-----------------------------------------------------------------------------
(* Types, a part of the state at a time.                                   *)

RequestOK ==
  /\ chain \in Chains
  /\ request \in Request
  /\ rsp \in Results
  /\ writes \in 0..MaxWrites
  /\ ret \in Results

ResponseOK ==
  /\ status \in Nat
  /\ sent \in Nat
  /\ hijacked \in BOOLEAN
  /\ author \in SUBSET {"application", "engine"}
  /\ type \in {"none", "stream", "json"}

CorsOK == headers \in Headers /\ passed \in Seq(Configs)

\* A running function is a middleware of a Use, or the handler, which calls nothing.
IsMiddleware(f) ==
  f.lv \in 1..Len(chain) /\ chain[f.lv] \notin Configs /\ f.at \in 1..chain[f.lv]

IsHandler(f) == f.lv = HandlerLevel /\ f.at = 1

StackOK ==
  /\ phase \in {"new", "serving", "answer", "done"}
  /\ stack \in Seq(Frame)
  /\ stack # <<>> <=> phase = "serving"
  /\ \A n \in 1..Len(stack) : IsMiddleware(stack[n]) \/ (IsHandler(stack[n]) /\ n = Len(stack))
  /\ index \in [1..Len(chain) -> Nat]

TypeInv == RequestOK /\ ResponseOK /\ CorsOK /\ StackOK

LEMMA ChainOf ==
  ASSUME RequestOK
  PROVE  /\ chain \in Seq((Nat \ {0}) \cup Configs)
         /\ Len(chain) \in Nat
         /\ HandlerLevel = Len(chain) + 1
         /\ \A l \in 1..Len(chain) : chain[l] \notin Configs => chain[l] \in Nat \ {0}
  <1>1. chain \in Seq((Nat \ {0}) \cup Configs)
    BY EngineAssumption DEF RequestOK
  <1> QED BY <1>1 DEF HandlerLevel

\* The innermost function; those that called it are middlewares.
LEMMA TopOf ==
  ASSUME TypeInv, phase = "serving"
  PROVE  /\ Len(stack) \in Nat \ {0} /\ DOMAIN stack = 1..Len(stack)
         /\ Top \in Frame
         /\ IsMiddleware(Top) \/ IsHandler(Top)
         /\ \A n \in 1..(Len(stack) - 1) : IsMiddleware(stack[n])
         /\ \A n \in 1..Len(stack) : stack[n] \in Frame
  <1>1. stack \in Seq(Frame) /\ stack # <<>>
    BY DEF TypeInv, StackOK
  <1>2. Len(stack) \in Nat \ {0} /\ DOMAIN stack = 1..Len(stack) /\ \A n \in 1..Len(stack) : stack[n] \in Frame
    BY <1>1
  <1>3. Len(stack) \in 1..Len(stack) /\ \A n \in 1..(Len(stack) - 1) : n \in 1..Len(stack) /\ n # Len(stack)
    <2> DEFINE m == Len(stack)
    <2>1. m \in Nat \ {0}
      BY <1>2
    <2> HIDE DEF m
    <2>2. m \in 1..m /\ \A n \in 1..(m - 1) : n \in 1..m /\ n # m
      BY <2>1
    <2> QED BY <2>2 DEF m
  <1> QED BY <1>2, <1>3 DEF TypeInv, StackOK, Top

LEMMA ResponseTyped ==
  ASSUME ResponseOK,
         \/ UNCHANGED response
         \/ \E s \in Nat : WriteHeader(s)
         \/ \E who \in {"application", "engine"} : Write(who)
         \/ SSEvent \/ Flush \/ Hijack
         \/ \E r \in Results : Respond(r)
  PROVE  ResponseOK'
  <1>1. \A s \in Nat : Send(s) \in Nat
    BY DEF Send, ResponseOK
  <1>2. Begun \in Nat /\ \A r \in Results : CodesOf(r) \subseteq Nat
    BY EngineAssumption DEF Begun, ResponseOK, CodesOf, Results
  <1>3. CASE UNCHANGED response
    BY <1>3 DEF ResponseOK, response
  <1>4. ASSUME NEW s \in Nat, WriteHeader(s) PROVE ResponseOK'
    BY <1>1, <1>4 DEF ResponseOK, WriteHeader
  <1>5. ASSUME NEW who \in {"application", "engine"}, Write(who) PROVE ResponseOK'
    BY <1>1, <1>2, <1>5 DEF ResponseOK, Write
  <1>6. CASE SSEvent \/ Flush \/ Hijack
    BY <1>1, <1>2, <1>6 DEF ResponseOK, SSEvent, Flush, Hijack, SetType
  <1>7. ASSUME NEW r \in Results, Respond(r) PROVE ResponseOK'
    <2>1. status' \in Nat
      BY <1>2, <1>7 DEF Respond
    <2>2. sent' \in Nat
      BY <1>1, <1>7, <2>1 DEF Respond
    <2> QED BY <1>7, <2>1, <2>2 DEF ResponseOK, Respond, SetType
  <1> QED BY <1>3, <1>4, <1>5, <1>6, <1>7

\* The levels of UseCors that lead into level l.
LEMMA CorsOnTheWay ==
  ASSUME RequestOK, NEW l \in 1..HandlerLevel
  PROVE  (IF Preflight(l) THEN <<chain[l]>> ELSE SubSeq(chain, l, Below(l) - 1)) \in Seq(Configs)
  <1>1. /\ chain \in Seq((Nat \ {0}) \cup Configs) /\ Len(chain) \in Nat
        /\ HandlerLevel = Len(chain) + 1
    BY ChainOf
  <1>2. /\ Below(l) \in l..HandlerLevel
        /\ \A m \in l..(Below(l) - 1) : chain[m] \in Configs
    BY <1>1, BelowIsFirst
  <1>3. CASE Preflight(l)
    <2>1. l \in l..(Below(l) - 1)
      BY <1>1, <1>2, <1>3 DEF Preflight
    <2> QED BY <1>2, <1>3, <2>1
  <1>4. CASE ~Preflight(l)
    <2> DEFINE b == Below(l)
               s == SubSeq(chain, l, b - 1)
    <2>1. b \in Nat /\ l \in Nat \ {0} /\ b - 1 <= Len(chain)
      BY <1>1, <1>2
    <2>2. \A m \in l..(b - 1) : chain[m] \in Configs
      BY <1>2
    <2> HIDE DEF b
    <2>3. SubSeq(chain, l, b - 1) \in Seq(Configs)
      <3>1. b - 1 \in Int /\ l \in Int
        BY <2>1
      <3> QED BY <2>2, <3>1, SubSeqProperties
    <2> QED BY <1>4, <2>3 DEF b
  <1> QED BY <1>3, <1>4

LEMMA CorsTyped ==
  ASSUME RequestOK, CorsOK, NEW l \in 1..HandlerLevel, UseCors(l)
  PROVE  CorsOK'
  <1>1. request.origin \in Origins \cup {Same}
    BY DEF RequestOK, Request
  <1>2. PICK cs \in Seq(Configs) :
          cs = IF Preflight(l) THEN <<chain[l]>> ELSE SubSeq(chain, l, Below(l) - 1)
    BY CorsOnTheWay, Zenon
  <1>3. CASE UNCHANGED cors
    BY <1>3 DEF CorsOK, cors
  <1>4. CASE headers' = applyAll(cs, request.origin, headers) /\ passed' = passed \o cs
    <2>1. applyAll(cs, request.origin, headers) \in Headers
      BY <1>1, AllTell DEF CorsOK
    <2>2. passed \o cs \in Seq(Configs)
      BY DEF CorsOK
    <2> QED BY <1>4, <2>1, <2>2 DEF CorsOK
  <1> QED BY <1>2, <1>3, <1>4 DEF UseCors

LEMMA SamePlaces ==
  ASSUME chain' = chain
  PROVE  \A f : (IsMiddleware(f)' <=> IsMiddleware(f)) /\ (IsHandler(f)' <=> IsHandler(f))
  BY DEF IsMiddleware, IsHandler, HandlerLevel

\* A frame got a result: the functions that run are the same.
LEMMA GotStack ==
  ASSUME NEW s \in Seq(Frame), s # <<>>, NEW v \in Results,
         NEW t, t = [s EXCEPT ![Len(s)].got = v]
  PROVE  /\ t \in Seq(Frame) /\ Len(t) = Len(s)
         /\ t[Len(s)].got = v
         /\ \A n \in 1..Len(s) : t[n].lv = s[n].lv /\ t[n].at = s[n].at /\ t[n].calls = s[n].calls
  <1> DEFINE m == Len(s)
             f == [s[m] EXCEPT !.got = v]
  <1>1. m \in Nat /\ m \in 1..m /\ \A n \in 1..m : s[n] \in Frame
    OBVIOUS
  <1>2. f \in Frame /\ f.got = v /\ f.lv = s[m].lv /\ f.at = s[m].at /\ f.calls = s[m].calls
    BY <1>1 DEF Frame, Results
  <1>3. t = [s EXCEPT ![m] = f]
    OBVIOUS
  <1> HIDE DEF f
  <1>4. t \in Seq(Frame) /\ Len(t) = m /\ \A n \in 1..m : t[n] = IF n = m THEN f ELSE s[n]
    BY <1>1, <1>2, <1>3, ExceptSeq
  <1> QED BY <1>1, <1>2, <1>4

\* What is running after a level was entered.
LEMMA EnterTyped ==
  ASSUME RequestOK, StackOK, UNCHANGED <<chain>>,
         NEW l \in 1..HandlerLevel, NEW below \in Seq(Frame),
         \A n \in 1..Len(below) : IsMiddleware(below[n]),
         below # <<>> => phase = "serving",
         Enter(l, below)
  PROVE  StackOK'
  <1>1. /\ chain \in Seq((Nat \ {0}) \cup Configs) /\ Len(chain) \in Nat
        /\ HandlerLevel = Len(chain) + 1
        /\ \A k \in 1..Len(chain) : chain[k] \notin Configs => chain[k] \in Nat \ {0}
    BY ChainOf
  <1>2. /\ Below(l) \in l..HandlerLevel
        /\ Below(l) # HandlerLevel => chain[Below(l)] \notin Configs
    BY <1>1, BelowIsFirst
  <1>3. index \in [1..Len(chain) -> Nat] /\ rsp \in Results
    BY DEF StackOK, RequestOK
  <1>4. CASE Preflight(l) /\ below = <<>>
    <2>1. stack' = <<>> /\ phase' = "answer" /\ index' = index
      BY <1>4 DEF Enter
    <2>2. stack' \in Seq(Frame) /\ Len(stack') = 0
      BY <2>1
    <2> QED BY <1>3, <2>1, <2>2 DEF StackOK
  <1>5. CASE Preflight(l) /\ below # <<>>
    <2>1. stack' = [below EXCEPT ![Len(below)].got = rsp] /\ phase' = phase /\ index' = index
      BY <1>5 DEF Enter
    <2>2. PICK t : t = [below EXCEPT ![Len(below)].got = rsp]
      OBVIOUS
    <2>3. /\ t \in Seq(Frame) /\ Len(t) = Len(below)
          /\ \A n \in 1..Len(below) :
               t[n].lv = below[n].lv /\ t[n].at = below[n].at /\ t[n].calls = below[n].calls
      <3>1. PICK v \in Results : v = rsp
        BY <1>3
      <3>2. t = [below EXCEPT ![Len(below)].got = v] /\ below # <<>>
        BY <1>5, <2>2, <3>1
      <3> QED BY <3>2, GotStack
    <2>4. t # <<>> /\ phase = "serving"
      BY <1>5, <2>3
    <2>5. \A n \in 1..Len(t) : IsMiddleware(t[n])
      BY <2>3 DEF IsMiddleware
    <2> QED BY <1>3, <2>1, <2>2, <2>3, <2>4, <2>5, SamePlaces DEF StackOK
  <1>6. CASE ~Preflight(l)
    <2> DEFINE b == Below(l)
               f == Running(b, 1)
    <2>1. stack' = Append(below, f) /\ phase' = "serving" /\ index' = IndexOf(b)
      BY <1>6 DEF Enter
    <2>2. b \in Nat /\ b \in 1..HandlerLevel /\ (b # HandlerLevel => b \in 1..Len(chain) /\ chain[b] \in Nat \ {0})
      BY <1>1, <1>2
    <2>3. b # HandlerLevel => chain[b] \notin Configs
      BY <1>2
    <2> HIDE DEF b
    <2>4. f \in Frame /\ f.lv = b /\ f.at = 1
      BY <2>2 DEF Running, Frame
    <2>5. IsMiddleware(f) \/ IsHandler(f)
      BY <2>2, <2>3, <2>4 DEF IsMiddleware, IsHandler
    <2>6. index' \in [1..Len(chain) -> Nat]
      BY <1>3, <2>1 DEF IndexOf
    <2> HIDE DEF f
    <2>7. PICK t : t = Append(below, f)
      OBVIOUS
    <2>8. /\ t \in Seq(Frame) /\ Len(t) = Len(below) + 1 /\ Len(below) \in Nat
          /\ t[Len(below) + 1] = f
          /\ \A n \in 1..Len(below) : t[n] = below[n]
      BY <2>4, <2>7
    <2>9. t # <<>> /\ \A n \in 1..Len(t) : IsMiddleware(t[n]) \/ (IsHandler(t[n]) /\ n = Len(t))
      BY <2>5, <2>8
    <2> QED BY <2>1, <2>6, <2>7, <2>8, <2>9, SamePlaces DEF StackOK
  <1> QED BY <1>4, <1>5, <1>6

\* The innermost middleware has called its next once more.
LEMMA CalledStack ==
  ASSUME TypeInv, phase = "serving", Top.lv # HandlerLevel,
         NEW t, t = [stack EXCEPT ![Len(stack)].calls = @ + 1]
  PROVE  /\ Len(stack) \in Nat \ {0} /\ IsMiddleware(Top) /\ Top \in Frame
         /\ t \in Seq(Frame) /\ Len(t) = Len(stack)
         /\ \A n \in 1..Len(stack) : IsMiddleware(t[n]) /\ t[n].lv = stack[n].lv /\ t[n].at = stack[n].at
         /\ \A n \in 1..(Len(stack) - 1) : t[n] = stack[n]
         /\ t[Len(stack)].calls = Top.calls + 1
  <1> DEFINE m == Len(stack)
             f == [stack[m] EXCEPT !.calls = @ + 1]
  <1>1. /\ m \in Nat \ {0} /\ IsMiddleware(Top) /\ Top \in Frame
        /\ \A n \in 1..(m - 1) : IsMiddleware(stack[n])
        /\ stack \in Seq(Frame)
    BY TopOf DEF IsHandler, TypeInv, StackOK
  <1>2. stack[m] = Top
    BY DEF Top
  <1>3. f \in Frame /\ f.lv = Top.lv /\ f.at = Top.at /\ f.calls = Top.calls + 1
    <2>1. PICK top \in Frame : top = stack[m] /\ top = Top
      BY <1>1, <1>2
    <2> QED BY <2>1 DEF Frame
  <1>4. t = [stack EXCEPT ![m] = f]
    OBVIOUS
  <1> HIDE DEF f
  <1>5. t \in Seq(Frame) /\ Len(t) = m /\ \A n \in 1..m : t[n] = IF n = m THEN f ELSE stack[n]
    BY <1>1, <1>3, <1>4, ExceptSeq
  <1>6. IsMiddleware(f)
    BY <1>1, <1>3 DEF IsMiddleware
  <1> HIDE DEF m
  <1>7. ASSUME NEW n \in 1..m PROVE IsMiddleware(t[n]) /\ t[n].lv = stack[n].lv /\ t[n].at = stack[n].at
    BY <1>1, <1>2, <1>3, <1>5, <1>6
  <1>8. m \in 1..m /\ \A n \in 1..(m - 1) : n \in 1..m /\ n # m
    BY <1>1
  <1> QED BY <1>1, <1>3, <1>5, <1>7, <1>8 DEF m

LEMMA FrontOf ==
  ASSUME NEW S, NEW s \in Seq(S), NEW b \in Nat, b <= Len(s)
  PROVE  Len(SubSeq(s, 1, b)) = b /\ \A n \in 1..b : SubSeq(s, 1, b)[n] = s[n]
  OBVIOUS

\* What is left when the innermost function has returned.
LEMMA ReturnStack ==
  ASSUME TypeInv, NEW v \in Results, Return(v)
  PROVE  /\ stack' \in Seq(Frame) /\ Len(stack') = Len(stack) - 1 /\ Len(stack) \in Nat \ {0}
         /\ stack' = <<>> <=> Len(stack) = 1
         /\ \A n \in 1..(Len(stack) - 1) :
              stack'[n].lv = stack[n].lv /\ stack'[n].at = stack[n].at /\ stack'[n].calls = stack[n].calls
         /\ stack' # <<>> => stack'[Len(stack')].got = IF EntersLevel(Len(stack)) THEN Kept(v) ELSE v
         /\ phase' = IF Len(stack) = 1 THEN "answer" ELSE phase
         /\ ret' = v /\ rsp' = Kept(v) /\ rsp' \in Results
         /\ UNCHANGED <<chain, request, index, response, cors, writes>>
  <1> DEFINE m == Len(stack)
             got == IF EntersLevel(m) THEN Kept(v) ELSE v
  <1>1. /\ phase = "serving" /\ rsp' = Kept(v) /\ ret' = v
        /\ phase' = IF m = 1 THEN "answer" ELSE phase
        /\ stack' = IF m = 1 THEN <<>> ELSE [SubSeq(stack, 1, m - 1) EXCEPT ![m - 1].got = got]
        /\ UNCHANGED <<chain, request, index, response, cors, writes>>
    BY DEF Return
  <1>2. stack \in Seq(Frame) /\ m \in Nat \ {0}
    BY <1>1, TopOf DEF TypeInv, StackOK
  <1>3. Kept(v) \in Results
    BY DEF Kept, TypeInv, RequestOK
  <1>4. PICK g \in Results : g = got
    BY <1>3
  <1>5. CASE m = 1
    <2>1. stack' = <<>> /\ Len(stack') = 0 /\ stack' \in Seq(Frame)
      BY <1>1, <1>5
    <2> HIDE DEF got
    <2> QED BY <1>1, <1>2, <1>3, <1>5, <2>1
  <1>6. CASE m # 1
    <2>1. PICK s \in Seq(Frame) : s = SubSeq(stack, 1, m - 1)
      <3>1. SubSeq(stack, 1, m - 1) \in Seq(Frame)
        BY <1>2, <1>6
      <3> QED BY <3>1, Zenon
    <2>2. Len(s) = m - 1 /\ \A n \in 1..(m - 1) : s[n] = stack[n]
      <3>1. PICK b \in Nat : b = m - 1
        BY <1>2
      <3>2. b \in Int /\ 1 \in Int /\ 1 <= b + 1 /\ \A n \in 1..b : stack[n] \in Frame
        <4>1. \A n \in 1..m : stack[n] \in Frame
          BY <1>2
        <4> HIDE DEF m
        <4> QED BY <1>2, <3>1, <4>1
      <3>3. Len(SubSeq(stack, 1, b)) = b /\ \A n \in 1..b : SubSeq(stack, 1, b)[n] = stack[n]
        <4>1. b <= Len(stack)
          BY <1>2, <3>1
        <4> QED BY <1>2, <4>1, FrontOf
      <3> HIDE DEF m
      <3> QED BY <2>1, <3>1, <3>3
    <2>3. s # <<>>
      BY <1>2, <1>6, <2>2
    <2>4. PICK t : t = [s EXCEPT ![Len(s)].got = g]
      OBVIOUS
    <2>5. /\ t \in Seq(Frame) /\ Len(t) = Len(s)
          /\ t[Len(s)].got = g
          /\ \A n \in 1..Len(s) : t[n].lv = s[n].lv /\ t[n].at = s[n].at /\ t[n].calls = s[n].calls
      BY <2>3, <2>4, GotStack
    <2>6. stack' = t
      <3>1. stack' = [SubSeq(stack, 1, m - 1) EXCEPT ![m - 1].got = got]
        BY <1>1, <1>6
      <3> HIDE DEF got
      <3> QED BY <1>4, <2>1, <2>2, <2>4, <3>1
    <2>7. t # <<>>
      BY <1>2, <1>6, <2>2, <2>5
    <2> QED BY <1>1, <1>2, <1>3, <1>4, <1>6, <2>2, <2>5, <2>6, <2>7
  <1> QED BY <1>5, <1>6

LEMMA TypeInit == Init => TypeInv
  <1> SUFFICES ASSUME Init PROVE TypeInv
    OBVIOUS
  <1>1. RequestOK
    <2>1. 0 \in 0..MaxWrites
      BY EngineAssumption
    <2> QED BY <2>1 DEF Init, RequestOK, Results
  <1>4. ResponseOK
    BY DEF Init, ResponseOK
  <1>2. CorsOK
    <2>1. <<>> \in Seq(Configs)
      OBVIOUS
    <2>2. NoHeaders \in Headers
      BY DEF NoHeaders, Headers
    <2> QED BY <2>1, <2>2 DEF Init, CorsOK
  <1>3. StackOK
    <2>1. stack = <<>> /\ <<>> \in Seq(Frame) /\ Len(<<>>) = 0
      BY DEF Init
    <2> QED BY <2>1 DEF Init, StackOK
  <1> QED BY <1>1, <1>2, <1>3, <1>4 DEF TypeInv

LEMMA StackStays ==
  ASSUME StackOK, UNCHANGED <<chain, stack, index>>, phase # "serving" \/ phase' = "serving",
         phase' \in {"new", "serving", "answer", "done"}, phase = "serving" \/ phase' # "serving"
  PROVE  StackOK'
  BY SamePlaces DEF StackOK

LEMMA TypeStep == ASSUME TypeInv, [Next]_vars PROVE TypeInv'
  <1>1. CASE Serve
    <2>1. UNCHANGED <<chain, request, rsp, writes, ret>> /\ Enter(1, <<>>) /\ phase = "new"
      BY <1>1 DEF Serve
    <2>2. 1 \in 1..HandlerLevel
      BY ChainOf DEF TypeInv
    <2>3. PICK below \in Seq(Frame) : below = <<>> /\ Len(below) = 0
      <3>1. <<>> \in Seq(Frame) /\ Len(<<>>) = 0
        OBVIOUS
      <3> QED BY <3>1, Zenon
    <2>4. StackOK'
      <3>1. PICK l \in 1..HandlerLevel : l = 1
        BY <2>2
      <3>2. Enter(l, below) /\ chain' = chain /\ RequestOK /\ StackOK
        BY <2>1, <2>3, <3>1 DEF TypeInv
      <3>3. (\A n \in 1..Len(below) : IsMiddleware(below[n])) /\ (below # <<>> => phase = "serving")
        BY <2>3
      <3> QED BY <3>2, <3>3, EnterTyped
    <2>5. CorsOK'
      BY <2>1, <2>2, CorsTyped DEF TypeInv, Enter
    <2>6. ResponseOK'
      BY <2>1, ResponseTyped DEF TypeInv, Enter
    <2> QED BY <2>1, <2>4, <2>5, <2>6 DEF TypeInv, RequestOK
  <1>2. CASE NoRoute
    <2>1. /\ UNCHANGED <<chain, request, stack, index, rsp, status, hijacked, type, writes, author, ret>>
          /\ sent' \in {204, 404, 405} /\ phase = "new" /\ phase' = "done"
      BY <1>2 DEF NoRoute
    <2>2. CorsOK'
      <3>1. CASE UNCHANGED cors
        BY <3>1 DEF TypeInv, CorsOK, cors
      <3>2. ASSUME NEW l \in CorsLevels, headers' = apply(chain[l], request.origin, headers),
                   passed' = <<chain[l]>>
            PROVE  CorsOK'
        <4>1. chain[l] \in Configs /\ request.origin \in Origins \cup {Same}
          BY DEF CorsLevels, TypeInv, RequestOK, Request
        <4>2. <<chain[l]>> \in Seq(Configs)
          BY <4>1
        <4> QED BY <3>2, <4>1, <4>2, ApplyTells DEF TypeInv, CorsOK
      <3> QED BY <1>2, <3>1, <3>2 DEF NoRoute
    <2>3. StackOK'
      BY <2>1, StackStays DEF TypeInv
    <2> QED BY <2>1, <2>2, <2>3 DEF TypeInv, RequestOK, ResponseOK
  <1>3. CASE CallNext
    <2> DEFINE m == Len(stack)
    <2>1. /\ UNCHANGED <<chain, request, rsp, writes, ret>> /\ phase = "serving" /\ Top.lv # HandlerLevel
      BY <1>3 DEF CallNext
    <2>3. PICK called : called = [stack EXCEPT ![m].calls = @ + 1]
      OBVIOUS
    <2>2. m \in Nat \ {0} /\ IsMiddleware(Top) /\ Top \in Frame
      BY <2>1, <2>3, CalledStack
    <2>4. /\ called \in Seq(Frame) /\ Len(called) = m
          /\ \A n \in 1..m : IsMiddleware(called[n])
      BY <2>1, <2>3, CalledStack
    <2>5. CASE More(Top.lv)
      <3> DEFINE l == Top.lv
                 f == Running(l, index[l] + 1)
      <3>1. /\ index' = [index EXCEPT ![l] = @ + 1] /\ stack' = Append(called, f)
            /\ UNCHANGED <<phase, response, cors>>
        BY <1>3, <2>3, <2>5 DEF CallNext
      <3>2. /\ l \in 1..Len(chain) /\ chain[l] \notin Configs /\ chain[l] \in Nat \ {0}
            /\ index[l] \in Nat /\ index \in [1..Len(chain) -> Nat]
        BY <2>2, ChainOf DEF IsMiddleware, TypeInv, StackOK
      <3>3. index[l] + 1 \in 1..chain[l]
        BY <2>5, <3>2 DEF More
      <3>4. f \in Frame /\ f.lv = l /\ f.at = index[l] + 1
        BY <2>2, <3>2 DEF Running, Frame
      <3>5. IsMiddleware(f)
        BY <3>2, <3>3, <3>4 DEF IsMiddleware
      <3> HIDE DEF f
      <3>6. index' \in [1..Len(chain) -> Nat]
        BY <3>1, <3>2
      <3>7. PICK t : t = Append(called, f)
        OBVIOUS
      <3>8. /\ t \in Seq(Frame) /\ Len(t) = m + 1 /\ t[m + 1] = f
            /\ \A n \in 1..m : t[n] = called[n]
        BY <2>2, <2>4, <3>4, <3>7
      <3>9. t # <<>> /\ \A n \in 1..Len(t) : IsMiddleware(t[n])
        BY <2>2, <2>4, <3>5, <3>8
      <3>10. StackOK'
        BY <2>1, <3>1, <3>6, <3>7, <3>8, <3>9, SamePlaces DEF StackOK
      <3> QED BY <2>1, <3>1, <3>10 DEF TypeInv, RequestOK, ResponseOK, CorsOK, response, cors
    <2>6. CASE ~More(Top.lv)
      <3>1. Enter(Top.lv + 1, called)
        BY <1>3, <2>3, <2>6 DEF CallNext
      <3>2. Top.lv + 1 \in 1..HandlerLevel
        BY <2>2, ChainOf DEF IsMiddleware, TypeInv
      <3>3. PICK l \in 1..HandlerLevel : l = Top.lv + 1
        BY <3>2
      <3>4. StackOK'
        BY <2>1, <2>4, <3>1, <3>3, EnterTyped DEF TypeInv
      <3>5. CorsOK'
        BY <3>1, <3>3, CorsTyped DEF TypeInv, Enter
      <3>6. ResponseOK'
        BY <3>1, ResponseTyped DEF TypeInv, Enter
      <3> QED BY <2>1, <3>4, <3>5, <3>6 DEF TypeInv, RequestOK
    <2> QED BY <2>5, <2>6
  <1>4. ASSUME NEW v \in Results, Return(v) PROVE TypeInv'
    <2>1. StackOK'
      <3>1. \A n \in 1..(Len(stack) - 1) : IsMiddleware(stack[n])
        BY <1>4, TopOf DEF Return
      <3>2. PICK t : t = stack'
        OBVIOUS
      <3>3. /\ t \in Seq(Frame) /\ Len(t) = Len(stack) - 1
            /\ t = <<>> <=> Len(stack) = 1
            /\ \A n \in 1..(Len(stack) - 1) : t[n].lv = stack[n].lv /\ t[n].at = stack[n].at
            /\ phase' = IF Len(stack) = 1 THEN "answer" ELSE phase
            /\ phase = "serving" /\ UNCHANGED <<chain, index>>
        BY <1>4, <3>2, ReturnStack DEF Return
      <3>4. \A n \in 1..Len(t) : IsMiddleware(t[n])
        BY <3>1, <3>3 DEF IsMiddleware
      <3> QED BY <3>2, <3>3, <3>4, SamePlaces DEF TypeInv, StackOK
    <2>2. /\ ret' = v /\ rsp' \in Results /\ UNCHANGED <<chain, request, index, response, cors, writes>>
      BY <1>4, ReturnStack
    <2> QED BY <1>4, <2>1, <2>2 DEF TypeInv, RequestOK, ResponseOK, CorsOK, response, cors
  <1>5. CASE UseResponse
    <2>1. /\ UNCHANGED <<chain, request, phase, stack, index, rsp, cors, ret>>
          /\ writes' = writes + 1 /\ writes < MaxWrites /\ phase = "serving"
          /\ (\E s \in Codes : WriteHeader(s)) \/ Write("application") \/ SSEvent \/ Flush \/ Hijack
      BY <1>5 DEF UseResponse
    <2>2. Codes \subseteq Nat
      BY EngineAssumption
    <2>3. ResponseOK'
      BY <2>1, <2>2, ResponseTyped DEF TypeInv
    <2>4. StackOK'
      BY <2>1, StackStays DEF TypeInv, StackOK
    <2>5. RequestOK'
      BY <2>1, EngineAssumption DEF TypeInv, RequestOK
    <2> QED BY <2>1, <2>3, <2>4, <2>5 DEF TypeInv, CorsOK, cors
  <1>6. CASE Answer
    <2>1. /\ UNCHANGED <<chain, request, stack, index, rsp, cors, writes, ret>>
          /\ phase = "answer" /\ phase' = "done"
          /\ IF status = 0 THEN Respond(rsp) ELSE UNCHANGED response
      BY <1>6 DEF Answer
    <2>2. ResponseOK'
      BY <2>1, ResponseTyped DEF TypeInv, RequestOK
    <2>3. StackOK'
      BY <2>1, StackStays DEF TypeInv
    <2> QED BY <2>1, <2>2, <2>3 DEF TypeInv, RequestOK, CorsOK, cors
  <1>7. CASE UNCHANGED vars
    <2>1. StackOK'
      BY <1>7, StackStays DEF TypeInv, StackOK, vars
    <2> QED BY <1>7, <2>1 DEF TypeInv, RequestOK, ResponseOK, CorsOK, vars, response, cors
  <1> QED BY <1>1, <1>2, <1>3, <1>4, <1>5, <1>6, <1>7 DEF Next

LEMMA Typed == Spec => []TypeInv
  BY TypeInit, TypeStep, PTL DEF Spec

LEMMA TypesOfParts == TypeInv => TypeOK
  <1> SUFFICES ASSUME TypeInv PROVE TypeOK
    OBVIOUS
  <1>1. \A n \in 1..Len(stack) :
          \/ stack[n].lv = HandlerLevel /\ n = Len(stack) /\ stack[n].at = 1
          \/ stack[n].lv \in 1..Len(chain) /\ stack[n].at \in 1..chain[stack[n].lv]
    BY DEF TypeInv, StackOK, IsMiddleware, IsHandler
  <1> QED BY <1>1 DEF TypeInv, RequestOK, ResponseOK, CorsOK, StackOK, TypeOK

\* Every reachable state of a request is well typed, for any levels of Use and UseCors:
\* what runs is a middleware there is, or the handler, and nothing runs above the
\* handler (router.go:25-44, 80-103).
THEOREM TypeCorrect == Spec => []TypeOK
  BY Typed, TypesOfParts, PTL

-----------------------------------------------------------------------------
(* The functions that run are behind one another.                          *)

\* A middleware that has not called its next is where the index of its level is, and
\* one that has called it once is followed by the function behind it.
ChainInv ==
  /\ stack # <<>> => stack[1].lv = Below(1) /\ stack[1].at = 1
  /\ stack # <<>> /\ Top.lv # HandlerLevel /\ Top.calls = 0 => index[Top.lv] = Top.at
  /\ \A n \in 1..(Len(stack) - 1) :
       /\ stack[n].calls >= 1
       /\ stack[n].calls = 1 => Follows(stack[n], stack[n + 1])

LEMMA SameLevels ==
  ASSUME chain' = chain
  PROVE  /\ HandlerLevel' = HandlerLevel
         /\ \A l : Below(l)' = Below(l)
         /\ \A f, g : Follows(f, g)' <=> Follows(f, g)
  BY DEF Below, HandlerLevel, Follows

\* The same in terms of t, what stack becomes, and of k, what index becomes.
LEMMA ChainNext ==
  ASSUME chain' = chain, NEW t, t = stack', NEW k, k = index',
         t # <<>> => t[1].lv = Below(1) /\ t[1].at = 1,
         t # <<>> /\ t[Len(t)].lv # HandlerLevel /\ t[Len(t)].calls = 0 => k[t[Len(t)].lv] = t[Len(t)].at,
         \A n \in 1..(Len(t) - 1) :
           t[n].calls >= 1 /\ (t[n].calls = 1 => Follows(t[n], t[n + 1]))
  PROVE  ChainInv'
  BY SameLevels DEF ChainInv, Top

LEMMA ChainEnter ==
  ASSUME RequestOK, StackOK, chain' = chain, NEW l \in 1..HandlerLevel,
         NEW s \in Seq(Frame), Enter(l, s),
         s = <<>> => l = 1,
         s # <<>> => s[1].lv = Below(1) /\ s[1].at = 1,
         \A n \in 1..(Len(s) - 1) :
           s[n].calls >= 1 /\ (s[n].calls = 1 => Follows(s[n], s[n + 1])),
         s # <<>> => s[Len(s)].calls >= 1,
         s # <<>> /\ s[Len(s)].calls = 1
           => \A g : g.lv = Below(l) /\ g.at = 1 => Follows(s[Len(s)], g)
  PROVE  ChainInv'
  <1>1. Below(l) \in l..HandlerLevel /\ HandlerLevel = Len(chain) + 1 /\ Len(chain) \in Nat
    BY ChainOf, BelowIsFirst
  <1>2. index \in [1..Len(chain) -> Nat] /\ rsp \in Results /\ Len(s) \in Nat
    BY DEF StackOK, RequestOK
  <1>3. PICK t, k : t = stack' /\ k = index'
    OBVIOUS
  <1>4. CASE Preflight(l) /\ s = <<>>
    <2>1. t = <<>> /\ Len(t) = 0
      BY <1>3, <1>4 DEF Enter
    <2>2. \A n \in 1..(Len(t) - 1) : FALSE
      BY <2>1
    <2> QED BY <1>3, <2>1, <2>2, ChainNext
  <1>5. CASE Preflight(l) /\ s # <<>>
    <2>1. /\ Len(t) = Len(s) /\ t # <<>>
          /\ \A n \in 1..Len(s) : t[n].lv = s[n].lv /\ t[n].at = s[n].at /\ t[n].calls = s[n].calls
      <3>1. PICK v \in Results : v = rsp
        BY <1>2
      <3>2. t = [s EXCEPT ![Len(s)].got = v] /\ s # <<>>
        BY <1>3, <1>5, <3>1 DEF Enter
      <3>3. /\ Len(t) = Len(s) /\ t \in Seq(Frame)
            /\ \A n \in 1..Len(s) : t[n].lv = s[n].lv /\ t[n].at = s[n].at /\ t[n].calls = s[n].calls
        BY <3>2, GotStack
      <3> QED BY <1>2, <3>2, <3>3
    <2> DEFINE m == Len(s)
    <2>2. m \in Nat \ {0}
      BY <1>2, <1>5
    <2>3. t[1].lv = Below(1) /\ t[1].at = 1
      BY <1>5, <2>1, <2>2
    <2>4. t[m].calls >= 1
      BY <1>5, <2>1, <2>2
    <2>5. ASSUME NEW n \in 1..(m - 1)
          PROVE  t[n].calls >= 1 /\ (t[n].calls = 1 => Follows(t[n], t[n + 1]))
      <3>1. n \in 1..m /\ n + 1 \in 1..m
        BY <2>2
      <3>2. s[n].calls >= 1 /\ (s[n].calls = 1 => Follows(s[n], s[n + 1]))
        BY <2>5
      <3>3. Follows(t[n], t[n + 1]) <=> Follows(s[n], s[n + 1])
        BY <2>1, <3>1 DEF Follows
      <3> QED BY <2>1, <3>1, <3>2, <3>3
    <2>6. t[m].calls # 0
      BY <2>4
    <2> QED BY <1>3, <2>1, <2>3, <2>5, <2>6, ChainNext
  <1>6. CASE ~Preflight(l)
    <2> DEFINE b == Below(l)
               f == Running(b, 1)
               m == Len(s)
    <2>1. t = Append(s, f) /\ k = IndexOf(b)
      BY <1>3, <1>6 DEF Enter
    <2>2. f.lv = b /\ f.at = 1 /\ b \in 1..HandlerLevel
      BY <1>1 DEF Running
    <2>3. f \in Frame
      BY <1>1, <2>2 DEF Running, Frame
    <2> HIDE DEF f
    <2>4. Len(t) = m + 1 /\ m \in Nat /\ t[m + 1] = f /\ \A n \in 1..m : t[n] = s[n]
      BY <2>1, <2>3
    <2>5. b # HandlerLevel => k[b] = 1
      BY <1>1, <1>2, <2>1, <2>2 DEF IndexOf
    <2>6. t[1].lv = Below(1) /\ t[1].at = 1
      <3>1. CASE s = <<>>
        <4>1. m = 0 /\ l = 1
          BY <3>1
        <4> QED BY <2>2, <2>4, <4>1
      <3>2. CASE s # <<>>
        <4>1. 1 \in 1..m
          BY <3>2
        <4> QED BY <2>4, <3>2, <4>1
      <3> QED BY <3>1, <3>2
    <2>7. ASSUME NEW n \in 1..m
          PROVE  t[n].calls >= 1 /\ (t[n].calls = 1 => Follows(t[n], t[n + 1]))
      <3>1. s # <<>> /\ t[n] = s[n]
        BY <2>4
      <3>2. CASE n = m
        BY <2>2, <2>4, <3>1, <3>2
      <3>3. CASE n # m
        <4>1. n \in 1..(m - 1) /\ n + 1 \in 1..m
          BY <2>4, <3>3
        <4>2. t[n + 1] = s[n + 1]
          BY <2>4, <4>1
        <4> QED BY <3>1, <4>1, <4>2
      <3> QED BY <3>2, <3>3
    <2>8. (m + 1) - 1 = m
      BY <2>4
    <2>9. t[Len(t)].lv # HandlerLevel => k[t[Len(t)].lv] = t[Len(t)].at
      BY <2>2, <2>4, <2>5
    <2> HIDE DEF m, b
    <2>10. \A n \in 1..(Len(t) - 1) : t[n].calls >= 1 /\ (t[n].calls = 1 => Follows(t[n], t[n + 1]))
      BY <2>4, <2>7, <2>8
    <2> QED BY <1>3, <2>6, <2>9, <2>10, ChainNext
  <1> QED BY <1>4, <1>5, <1>6

LEMMA ChainStays ==
  ASSUME ChainInv, UNCHANGED <<chain, stack, index>>
  PROVE  ChainInv'
  BY SameLevels DEF ChainInv, Top

LEMMA ChainStep == ASSUME TypeInv, ChainInv, [Next]_vars PROVE ChainInv'
  <1>1. CASE Serve
    <2>1. chain' = chain /\ Enter(1, <<>>) /\ RequestOK /\ StackOK
      BY <1>1 DEF Serve, TypeInv
    <2>2. 1 \in 1..HandlerLevel
      BY ChainOf DEF TypeInv
    <2>3. PICK s \in Seq(Frame), l \in 1..HandlerLevel : s = <<>> /\ Len(s) = 0 /\ l = 1
      <3>1. <<>> \in Seq(Frame) /\ Len(<<>>) = 0
        OBVIOUS
      <3> QED BY <2>2, <3>1, Zenon
    <2>4. Enter(l, s)
      BY <2>1, <2>3
    <2>5. \A n \in 1..(Len(s) - 1) : FALSE
      BY <2>3
    <2> QED BY <2>1, <2>3, <2>4, <2>5, ChainEnter
  <1>2. CASE CallNext
    <2> DEFINE m == Len(stack)
    <2>1. chain' = chain /\ phase = "serving" /\ Top.lv # HandlerLevel /\ RequestOK /\ StackOK
      BY <1>2 DEF CallNext, TypeInv
    <2>2. PICK called : called = [stack EXCEPT ![m].calls = @ + 1]
      OBVIOUS
    <2>3. /\ m \in Nat \ {0} /\ IsMiddleware(Top) /\ Top \in Frame
          /\ called \in Seq(Frame) /\ Len(called) = m
          /\ \A n \in 1..m : called[n].lv = stack[n].lv /\ called[n].at = stack[n].at
          /\ \A n \in 1..(m - 1) : called[n] = stack[n]
          /\ called[m].calls = Top.calls + 1
      BY <2>1, <2>2, CalledStack
    <2>4. called # <<>> /\ stack # <<>> /\ stack[m] = Top /\ Top.calls \in Nat
      BY <2>1, <2>3 DEF StackOK, Top, Frame
    <2> DEFINE tl == Top.lv
    <2>5. /\ tl \in 1..Len(chain) /\ chain[tl] \in Nat /\ index[tl] \in Nat /\ Top.at \in Nat
          /\ HandlerLevel = Len(chain) + 1 /\ Len(chain) \in Nat
      BY <2>1, <2>3, ChainOf DEF IsMiddleware, StackOK
    <2>6. Top.calls = 0 => index[tl] = Top.at
      BY <2>1, <2>4 DEF ChainInv
    <2> HIDE DEF m
    <2>7. called[1].lv = Below(1) /\ called[1].at = 1
      BY <2>3, <2>4 DEF ChainInv
    <2>8. called[m].calls >= 1 /\ called[m].lv = tl /\ called[m].at = Top.at /\ (called[m].calls = 1 => Top.calls = 0)
      BY <2>3, <2>4
    <2>9. ASSUME NEW n \in 1..(m - 1)
          PROVE  called[n].calls >= 1 /\ (called[n].calls = 1 => Follows(called[n], called[n + 1]))
      <3>1. stack[n].calls >= 1 /\ (stack[n].calls = 1 => Follows(stack[n], stack[n + 1]))
        BY DEF ChainInv, m
      <3>2. called[n] = stack[n] /\ n \in 1..m /\ n + 1 \in 1..m
        BY <2>3
      <3>3. Follows(called[n], called[n + 1]) <=> Follows(stack[n], stack[n + 1])
        BY <2>3, <3>2 DEF Follows
      <3> QED BY <3>1, <3>2, <3>3
    <2>10. CASE More(tl)
      <3> DEFINE f == Running(tl, index[tl] + 1)
      <3>1. stack' = Append(called, f) /\ index' = [index EXCEPT ![tl] = @ + 1]
        BY <1>2, <2>2, <2>10 DEF CallNext, m
      <3>2. f \in Frame /\ f.lv = tl /\ f.at = index[tl] + 1
        BY <2>5 DEF Running, Frame
      <3>3. index'[tl] = index[tl] + 1
        BY <2>1, <2>5, <3>1 DEF StackOK
      <3> HIDE DEF f
      <3>4. PICK t, k : t = stack' /\ k = index'
        OBVIOUS
      <3>5. Len(t) = m + 1 /\ t[m + 1] = f /\ \A n \in 1..m : t[n] = called[n]
        BY <2>3, <3>1, <3>2, <3>4
      <3>6. t[1].lv = Below(1) /\ t[1].at = 1
        BY <2>3, <2>7, <3>5
      <3>7. t[Len(t)].lv = tl /\ k[tl] = t[Len(t)].at
        BY <3>2, <3>3, <3>4, <3>5
      <3>8. called[m].calls = 1 => Follows(called[m], f)
        BY <2>1, <2>5, <2>6, <2>8, <2>10, <3>2 DEF Follows, More
      <3>9. ASSUME NEW n \in 1..m
            PROVE  t[n].calls >= 1 /\ (t[n].calls = 1 => Follows(t[n], t[n + 1]))
        <4>1. CASE n = m
          BY <2>8, <3>5, <3>8, <4>1
        <4>2. CASE n # m
          <5>1. n \in 1..(m - 1) /\ n + 1 \in 1..m
            BY <2>3, <4>2
          <5>2. t[n] = called[n] /\ t[n + 1] = called[n + 1]
            BY <3>5, <5>1
          <5> QED BY <2>9, <5>1, <5>2
        <4> QED BY <4>1, <4>2
      <3>10. (m + 1) - 1 = m
        BY <2>3
      <3>11. \A n \in 1..(Len(t) - 1) : t[n].calls >= 1 /\ (t[n].calls = 1 => Follows(t[n], t[n + 1]))
        BY <3>5, <3>9, <3>10
      <3> QED BY <2>1, <3>4, <3>6, <3>7, <3>11, ChainNext
    <2>11. CASE ~More(tl)
      <3>1. Enter(tl + 1, called)
        BY <1>2, <2>2, <2>11 DEF CallNext, m
      <3>2. PICK l \in 1..HandlerLevel : l = tl + 1
        BY <2>5
      <3>3. called[m].calls = 1 => \A g : g.lv = Below(l) /\ g.at = 1 => Follows(called[m], g)
        BY <2>1, <2>5, <2>6, <2>8, <2>11, <3>2 DEF Follows, More
      <3>4. Enter(l, called)
        BY <3>1, <3>2
      <3>5. \A n \in 1..(Len(called) - 1) :
              called[n].calls >= 1 /\ (called[n].calls = 1 => Follows(called[n], called[n + 1]))
        BY <2>3, <2>9
      <3> HIDE DEF tl
      <3> QED BY <2>1, <2>3, <2>4, <2>7, <2>8, <3>3, <3>4, <3>5, ChainEnter
    <2> QED BY <2>10, <2>11
  <1>3. ASSUME NEW v \in Results, Return(v) PROVE ChainInv'
    <2> DEFINE m == Len(stack)
    <2>1. PICK t, k : t = stack' /\ k = index'
      OBVIOUS
    <2>2. /\ t \in Seq(Frame) /\ Len(t) = m - 1 /\ m \in Nat \ {0}
          /\ \A n \in 1..(m - 1) : t[n].lv = stack[n].lv /\ t[n].at = stack[n].at /\ t[n].calls = stack[n].calls
          /\ chain' = chain
      BY <1>3, <2>1, ReturnStack
    <2>3. /\ stack[1].lv = Below(1) /\ stack[1].at = 1
          /\ \A n \in 1..(m - 1) : stack[n].calls >= 1 /\ (stack[n].calls = 1 => Follows(stack[n], stack[n + 1]))
      BY <1>3 DEF ChainInv, Return, TypeInv, StackOK
    <2> HIDE DEF m
    <2>4. t # <<>> => /\ t[1].lv = Below(1) /\ t[1].at = 1
                      /\ t[Len(t)].calls # 0
      <3> SUFFICES ASSUME t # <<>> PROVE t[1].lv = Below(1) /\ t[1].at = 1 /\ t[Len(t)].calls # 0
        OBVIOUS
      <3>1. Len(t) \in 1..(m - 1) /\ 1 \in 1..(m - 1)
        BY <2>2
      <3>2. t[Len(t)].calls = stack[Len(t)].calls /\ stack[Len(t)].calls >= 1
        BY <2>2, <2>3, <3>1
      <3> QED BY <2>2, <2>3, <3>1, <3>2
    <2>5. ASSUME NEW n \in 1..(Len(t) - 1)
          PROVE  t[n].calls >= 1 /\ (t[n].calls = 1 => Follows(t[n], t[n + 1]))
      <3>1. n \in 1..(m - 1) /\ n + 1 \in 1..(m - 1)
        BY <2>2
      <3>2. Follows(t[n], t[n + 1]) <=> Follows(stack[n], stack[n + 1])
        BY <2>2, <3>1 DEF Follows
      <3>3. t[n].calls = stack[n].calls
        BY <2>2, <3>1
      <3> QED BY <2>3, <3>1, <3>2, <3>3
    <2> QED BY <2>1, <2>2, <2>4, <2>5, ChainNext
  <1>4. CASE NoRoute \/ UseResponse \/ Answer \/ UNCHANGED vars
    BY <1>4, ChainStays DEF NoRoute, UseResponse, Answer, vars
  <1> QED BY <1>1, <1>2, <1>3, <1>4 DEF Next

\* Whoever has called its next once is followed by the function behind it, in the order
\* of Use, also below a middleware that called its own next twice, for any levels and
\* any number of middlewares (router.go:25-44, 80-103).
THEOREM EveryMiddlewareRuns == Spec => []NoMiddlewareSkipped
  <1>1. Init => ChainInv
    <2> SUFFICES ASSUME Init PROVE ChainInv
      OBVIOUS
    <2>1. stack = <<>> /\ \A n \in 1..(Len(stack) - 1) : FALSE
      BY DEF Init
    <2> QED BY <2>1 DEF ChainInv
  <1>2. ChainInv => NoMiddlewareSkipped
    BY DEF ChainInv, NoMiddlewareSkipped
  <1>3. TypeInv /\ ChainInv /\ [Next]_vars => ChainInv'
    BY ChainStep
  <1> QED BY <1>1, <1>2, <1>3, Typed, PTL DEF Spec

-----------------------------------------------------------------------------
(* The answer.                                                             *)

\* Until the engine answers, what was sent or written left a status in the Context,
\* and a status that was not sent is an informational one.
AnswerInv ==
  /\ phase # "done" => (sent # 0 => status # 0) /\ "engine" \notin author
  /\ "application" \in author => status # 0
  /\ status # 0 /\ sent = 0 /\ ~hijacked => Informational(status)
  /\ OneAnswer

LEMMA Finals == \A s \in {200, 204} : ~Informational(s)
  BY DEF Informational

LEMMA AnswerInit == Init => AnswerInv
  <1> SUFFICES ASSUME Init PROVE AnswerInv
    OBVIOUS
  <1>1. status = 0 /\ sent = 0 /\ phase = "new" /\ author = {}
    BY DEF Init
  <1>2. {} # {"application", "engine"} /\ {} # {"engine"} /\ \A a : a \notin {}
    BY Zenon
  <1> QED BY <1>1, <1>2 DEF AnswerInv, OneAnswer

\* What the application and UseCors do with the response.
LEMMA AnswerBegun ==
  ASSUME ResponseOK, AnswerInv, phase # "done", phase' # "done",
         \/ UNCHANGED response
         \/ \E s \in Nat \ {0} : WriteHeader(s)
         \/ Write("application") \/ SSEvent \/ Flush \/ Hijack
  PROVE  AnswerInv'
  <1>1. /\ sent # 0 => status # 0
        /\ "engine" \notin author
        /\ "application" \in author => status # 0
        /\ status # 0 /\ sent = 0 /\ ~hijacked => Informational(status)
    BY DEF AnswerInv
  <1>2. /\ sent' # 0 => status' # 0
        /\ "application" \in author' => status' # 0
        /\ status' # 0 /\ sent' = 0 /\ ~hijacked' => Informational(status')
    <2>1. CASE UNCHANGED response
      BY <1>1, <2>1 DEF response
    <2>2. ASSUME NEW s \in Nat \ {0}, WriteHeader(s)
          PROVE  /\ status' # 0
                 /\ sent' = 0 /\ ~hijacked' => Informational(status')
      BY <2>2 DEF WriteHeader, Send
    <2>3. CASE Write("application") \/ SSEvent \/ Flush
      <3>1. CASE status' = Begun /\ sent' = Send(200) /\ UNCHANGED hijacked
        <4>1. status' # 0
          BY <3>1 DEF Begun
        <4>2. sent' = 0 => hijacked'
          BY <3>1, Finals DEF Send
        <4> QED BY <4>1, <4>2
      <3>2. CASE UNCHANGED <<status, sent, hijacked, author>>
        BY <1>1, <3>2
      <3> QED BY <2>3, <3>1, <3>2 DEF Write, SSEvent, Flush
    <2>4. CASE Hijack
      BY <1>1, <2>4 DEF Hijack
    <2> QED BY <2>1, <2>2, <2>3, <2>4
  <1>3. "engine" \notin author'
    <2>1. author' = author \/ author' = author \cup {"application"}
      BY DEF response, WriteHeader, Write, SSEvent, Flush, Hijack
    <2>2. "engine" # "application"
      OBVIOUS
    <2> QED BY <1>1, <2>1, <2>2
  <1>4. author' # {"application", "engine"} /\ author' # {"engine"}
    BY <1>3, Zenon
  <1> QED BY <1>2, <1>3, <1>4 DEF AnswerInv, OneAnswer, Informational

LEMMA AnswerEnter ==
  ASSUME ResponseOK, AnswerInv, phase # "done", NEW l, NEW s, Enter(l, s)
  PROVE  AnswerInv'
  <1>1. phase' # "done"
    BY DEF Enter
  <1>2. UNCHANGED response \/ \E c \in Nat \ {0} : WriteHeader(c)
    <2>1. UNCHANGED response \/ WriteHeader(204)
      BY DEF Enter
    <2> QED BY <2>1
  <1> QED BY <1>1, <1>2, AnswerBegun

LEMMA AnswerStep == ASSUME TypeInv, AnswerInv, [Next]_vars PROVE AnswerInv'
  <1>1. ResponseOK
    BY DEF TypeInv
  <1>2. CASE Serve
    BY <1>1, <1>2, AnswerEnter DEF Serve
  <1>3. CASE CallNext
    <2>1. phase = "serving"
      BY <1>3 DEF CallNext
    <2>2. CASE More(Top.lv)
      BY <1>1, <1>3, <2>1, <2>2, AnswerBegun DEF CallNext
    <2>3. CASE ~More(Top.lv)
      BY <1>1, <1>3, <2>1, <2>3, AnswerEnter DEF CallNext
    <2> QED BY <2>2, <2>3
  <1>4. ASSUME NEW v \in Results, Return(v) PROVE AnswerInv'
    <2>1. phase = "serving" /\ phase' # "done" /\ UNCHANGED response
      BY <1>4 DEF Return
    <2> QED BY <1>1, <2>1, AnswerBegun
  <1>5. CASE UseResponse
    <2>1. /\ phase = "serving" /\ phase' = phase
          /\ (\E s \in Codes : WriteHeader(s)) \/ Write("application") \/ SSEvent \/ Flush \/ Hijack
      BY <1>5 DEF UseResponse
    <2>2. (\E s \in Codes : WriteHeader(s)) => \E s \in Nat \ {0} : WriteHeader(s)
      BY EngineAssumption
    <2> QED BY <1>1, <2>1, <2>2, AnswerBegun
  <1>6. CASE NoRoute
    <2>1. /\ phase = "new" /\ phase' = "done" /\ sent' # 0
          /\ UNCHANGED <<status, hijacked, type, author>>
      BY <1>6 DEF NoRoute
    <2>2. "engine" \notin author'
      BY <2>1 DEF AnswerInv
    <2>3. author' # {"application", "engine"} /\ author' # {"engine"}
      BY <2>2, Zenon
    <2> QED BY <2>1, <2>3 DEF AnswerInv, OneAnswer
  <1>7. CASE Answer
    <2>1. phase = "answer" /\ phase' = "done"
      BY <1>7 DEF Answer
    <2>2. CASE status = 0
      <3>1. /\ sent = 0 /\ author = {} /\ Respond(rsp) /\ rsp \in Results
        BY <1>7, <2>1, <2>2 DEF Answer, AnswerInv, TypeInv, RequestOK, ResponseOK
      <3>2. CodesOf(rsp) \subseteq Nat \ {0}
        BY <3>1, EngineAssumption DEF CodesOf, Results
      <3>3. status' # 0 /\ hijacked' = hijacked /\ (sent' = 0 => hijacked')
        <4>1. status' \in Nat \ {0} /\ hijacked' = hijacked
          BY <3>1, <3>2 DEF Respond
        <4>2. PICK s : s = IF Informational(status') THEN 200 ELSE status'
          OBVIOUS
        <4>3. ~Informational(s) /\ s # 0
          BY <4>1, <4>2, Finals
        <4>4. sent' = Send(s)
          BY <3>1, <4>2 DEF Respond
        <4> QED BY <3>1, <4>1, <4>3, <4>4 DEF Send
      <3>4. author' = {} \/ (author' = {"engine"} /\ type' = "json")
        BY <3>1 DEF Respond, SetType
      <3>5. /\ author' # {"application", "engine"}
            /\ author' = {"engine"} => type' = "json"
            /\ "application" \notin author'
        <4>1. "application" \notin {"engine"} /\ "application" \in {"application", "engine"}
          OBVIOUS
        <4>2. \A a : a \notin {}
          OBVIOUS
        <4> QED BY <3>4, <4>1, <4>2
      <3> QED BY <2>1, <3>3, <3>5 DEF AnswerInv, OneAnswer
    <2>3. CASE status # 0
      <3>1. UNCHANGED <<status, sent, hijacked, type, author>>
        BY <1>7, <2>3 DEF Answer, response
      <3> QED BY <2>1, <2>3, <3>1 DEF AnswerInv, OneAnswer, Informational
    <2> QED BY <2>2, <2>3
  <1>8. CASE UNCHANGED vars
    BY <1>8 DEF AnswerInv, OneAnswer, Informational, vars, response
  <1> QED BY <1>2, <1>3, <1>4, <1>5, <1>6, <1>7, <1>8 DEF Next

LEMMA Answered == Spec => []AnswerInv
  BY Typed, AnswerInit, AnswerStep, PTL DEF Spec

\* The Context says Written once a status went out, whichever of the ways to use the
\* response sent it: the engine never adds an answer to one of the application
\* (context.go:107-136, sse.go:36-88, engine.go:152, 164).
THEOREM WrittenOnceSent == Spec => []SentIsWritten
  <1>1. AnswerInv => SentIsWritten
    BY DEF AnswerInv, SentIsWritten
  <1> QED BY <1>1, Answered, PTL

\* Every request is answered once, by the application or by golt, whatever the
\* application writes, flushes, hijacks and returns (context.go:107-136,
\* handler.go:20-51).
THEOREM AnsweredOnce == Spec => []OneAnswer
  <1>1. AnswerInv => OneAnswer
    BY DEF AnswerInv
  <1> QED BY <1>1, Answered, PTL

-----------------------------------------------------------------------------
(* What a cache may keep.                                                  *)

\* The headers are what the levels that were passed make of no headers.
HeaderInv ==
  /\ phase = "new" => passed = <<>>
  /\ headers = applyAll(passed, request.origin, NoHeaders)

LEMMA HeaderEnter ==
  ASSUME RequestOK, CorsOK, HeaderInv, UNCHANGED request, NEW l \in 1..HandlerLevel, NEW s, Enter(l, s),
         s # <<>> => phase # "new"
  PROVE  HeaderInv'
  <1>1. phase' # "new"
    BY DEF Enter
  <1>2. PICK cs \in Seq(Configs) :
          cs = IF Preflight(l) THEN <<chain[l]>> ELSE SubSeq(chain, l, Below(l) - 1)
    BY CorsOnTheWay, Zenon
  <1>3. CASE UNCHANGED cors
    BY <1>1, <1>3 DEF HeaderInv, cors
  <1>4. CASE headers' = applyAll(cs, request.origin, headers) /\ passed' = passed \o cs
    <2>1. passed \in Seq(Configs)
      BY DEF CorsOK
    <2>2. applyAll(passed \o cs, request.origin, NoHeaders)
            = applyAll(cs, request.origin, applyAll(passed, request.origin, NoHeaders))
      BY <2>1, AllOfBoth
    <2>3. headers' = applyAll(passed', request.origin, NoHeaders)
      BY <1>4, <2>2 DEF HeaderInv
    <2> QED BY <1>1, <2>3 DEF HeaderInv
  <1>5. Enter(l, s) => UseCors(l)
    BY DEF Enter
  <1> QED BY <1>2, <1>3, <1>4, <1>5 DEF UseCors

LEMMA HeaderStep == ASSUME TypeInv, HeaderInv, [Next]_vars PROVE HeaderInv'
  <1>0. RequestOK /\ CorsOK /\ StackOK
    BY DEF TypeInv
  <1>1. CASE Serve
    <2>1. PICK l \in 1..HandlerLevel : l = 1
      BY <1>0, ChainOf
    <2>2. Enter(l, <<>>) /\ UNCHANGED request /\ phase = "new"
      BY <1>1, <2>1 DEF Serve
    <2> QED BY <1>0, <2>2, HeaderEnter
  <1>2. CASE CallNext
    <2>1. phase = "serving" /\ Top.lv # HandlerLevel /\ UNCHANGED request
      BY <1>2 DEF CallNext
    <2>2. CASE More(Top.lv)
      BY <1>2, <2>1, <2>2 DEF CallNext, HeaderInv, cors
    <2>3. CASE ~More(Top.lv)
      <3>1. PICK l \in 1..HandlerLevel : l = Top.lv + 1
        BY <1>0, <2>1, TopOf, ChainOf DEF IsMiddleware, IsHandler
      <3>2. PICK s : s = [stack EXCEPT ![Len(stack)].calls = @ + 1]
        OBVIOUS
      <3>3. Enter(l, s)
        BY <1>2, <2>3, <3>1, <3>2 DEF CallNext
      <3> QED BY <1>0, <2>1, <3>3, HeaderEnter
    <2> QED BY <2>2, <2>3
  <1>3. CASE NoRoute
    <2>1. phase = "new" /\ phase' = "done" /\ UNCHANGED <<chain, request>>
      BY <1>3 DEF NoRoute
    <2>2. CASE UNCHANGED cors
      BY <2>1, <2>2 DEF HeaderInv, cors
    <2>3. ASSUME NEW l \in CorsLevels, headers' = apply(chain[l], request.origin, headers),
                 passed' = <<chain[l]>>
          PROVE  HeaderInv'
      <3>1. headers = NoHeaders
        BY <2>1, AllOfNone DEF HeaderInv
      <3>2. chain[l] \in Configs
        BY DEF CorsLevels
      <3>3. applyAll(<<chain[l]>>, request.origin, NoHeaders) = apply(chain[l], request.origin, NoHeaders)
        BY <3>2, AllOfOne
      <3> QED BY <2>1, <2>3, <3>1, <3>3 DEF HeaderInv
    <2> QED BY <1>3, <2>2, <2>3 DEF NoRoute
  <1>4. ASSUME NEW v \in Results, Return(v) PROVE HeaderInv'
    BY <1>4 DEF Return, HeaderInv, cors
  <1>5. CASE UseResponse
    BY <1>5 DEF UseResponse, HeaderInv, cors
  <1>6. CASE Answer
    BY <1>6 DEF Answer, HeaderInv, cors
  <1>7. CASE UNCHANGED vars
    BY <1>7 DEF HeaderInv, vars, cors
  <1> QED BY <1>1, <1>2, <1>3, <1>4, <1>5, <1>6, <1>7 DEF Next

\* A response without Vary grants every origin what a request of its own would be
\* granted, past any levels of UseCors and with any of their configurations, refusals
\* and answers to OPTIONS included (cors.go:34-60, engine.go:57-77).
THEOREM CachesAreTold == Spec => []VaryTellsOrigins
  <1>1. Init => HeaderInv
    BY AllOfNone DEF Init, HeaderInv
  <1>2. TypeInv /\ HeaderInv => VaryTellsOrigins
    <2> SUFFICES ASSUME TypeInv, HeaderInv PROVE VaryTellsOrigins
      OBVIOUS
    <2>1. /\ passed \in Seq(Configs) /\ request.origin \in Origins \cup {Same}
          /\ headers = applyAll(passed, request.origin, NoHeaders)
      BY DEF TypeInv, CorsOK, RequestOK, Request, HeaderInv
    <2>2. NoHeaders \in Headers
      BY DEF NoHeaders, Headers
    <2>3. PICK cs \in Seq(Configs), r \in Origins \cup {Same}, h \in Headers :
            cs = passed /\ r = request.origin /\ h = NoHeaders
      BY <2>1, <2>2
    <2>4. ~applyAll(cs, r, h).vary => \A o \in Origins : applyAll(cs, o, h) = applyAll(cs, r, h)
      BY AllTell
    <2> QED BY <2>1, <2>3, <2>4 DEF VaryTellsOrigins
  <1>3. TypeInv /\ HeaderInv /\ [Next]_vars => HeaderInv'
    BY HeaderStep
  <1> QED BY <1>1, <1>2, <1>3, Typed, PTL DEF Spec

-----------------------------------------------------------------------------
(* Results.                                                                *)

\* Whoever called the innermost function is running below it, and gets what it
\* returned: directly in its own level, and through ctx.rsp, which the first function
\* of a level leaves it in, from the level below.
LEMMA ReturnedToCaller ==
  ASSUME TypeInv, NEW v \in Results, Return(v), request.route = "handler"
  PROVE  /\ stack' # <<>> => stack'[Len(stack')].got = ret'
         /\ stack' = <<>> => rsp' = ret'
  <1>1. /\ stack' # <<>> => stack'[Len(stack')].got = IF EntersLevel(Len(stack)) THEN Kept(v) ELSE v
        /\ stack' = <<>> <=> Len(stack) = 1
        /\ ret' = v /\ rsp' = Kept(v)
    BY ReturnStack
  <1>2. EntersLevel(Len(stack)) => Kept(v) = v
    BY DEF Kept, Keeps
  <1>3. stack' = <<>> => EntersLevel(Len(stack))
    BY <1>1 DEF EntersLevel
  <1> QED BY <1>1, <1>2, <1>3

\* Nothing but the return of a function makes the stack shorter.
LEMMA OnlyReturnShrinks ==
  ASSUME TypeInv, [Next]_vars, ~ \E v \in Results : Return(v)
  PROVE  ~ Len(stack') < Len(stack)
  <1>1. Len(stack) \in Nat
    BY DEF TypeInv, StackOK
  <1>2. ASSUME NEW l, NEW s \in Seq(Frame), Len(s) = Len(stack), Enter(l, s)
        PROVE  ~ Len(stack') < Len(stack)
    <2>1. CASE Preflight(l)
      <3>1. CASE s = <<>>
        BY <1>1, <1>2, <2>1, <3>1 DEF Enter
      <3>2. CASE s # <<>>
        <4>1. PICK v \in Results : v = rsp
          BY DEF TypeInv, RequestOK
        <4>2. PICK t : t = [s EXCEPT ![Len(s)].got = v]
          OBVIOUS
        <4>3. Len(t) = Len(s)
          BY <3>2, <4>2, GotStack
        <4>4. stack' = t
          BY <1>2, <2>1, <3>2, <4>1, <4>2 DEF Enter
        <4> QED BY <1>1, <1>2, <4>3, <4>4
      <3> QED BY <3>1, <3>2
    <2>2. CASE ~Preflight(l)
      <3>1. PICK f : stack' = Append(s, f)
        BY <1>2, <2>2 DEF Enter
      <3>2. Len(Append(s, f)) = Len(s) + 1
        OBVIOUS
      <3> QED BY <1>1, <1>2, <3>1, <3>2
    <2> QED BY <2>1, <2>2
  <1>3. CASE Serve
    <2>1. PICK s \in Seq(Frame) : s = <<>> /\ Len(s) = 0
      <3>1. <<>> \in Seq(Frame) /\ Len(<<>>) = 0
        OBVIOUS
      <3> QED BY <3>1, Zenon
    <2>2. phase = "new" /\ Enter(1, s)
      BY <1>3, <2>1 DEF Serve
    <2>3. Len(stack) = 0
      BY <2>2 DEF TypeInv, StackOK
    <2> QED BY <1>2, <2>1, <2>2, <2>3
  <1>4. CASE CallNext
    <2>1. phase = "serving" /\ Top.lv # HandlerLevel
      BY <1>4 DEF CallNext
    <2>2. PICK s : s = [stack EXCEPT ![Len(stack)].calls = @ + 1]
      OBVIOUS
    <2>3. s \in Seq(Frame) /\ Len(s) = Len(stack)
      BY <2>1, <2>2, CalledStack
    <2>4. (\E l : Enter(l, s)) \/ \E f : stack' = Append(s, f)
      BY <1>4, <2>2 DEF CallNext
    <2>5. ASSUME NEW f, stack' = Append(s, f) PROVE ~ Len(stack') < Len(stack)
      <3>1. Len(Append(s, f)) = Len(s) + 1
        BY <2>3
      <3> QED BY <1>1, <2>3, <2>5, <3>1
    <2> QED BY <1>2, <2>3, <2>4, <2>5
  <1>5. CASE NoRoute \/ UseResponse \/ Answer \/ UNCHANGED vars
    BY <1>1, <1>5 DEF NoRoute, UseResponse, Answer, vars
  <1> QED BY <1>3, <1>4, <1>5 DEF Next

\* A middleware gets from next what the function it called returned, over any number of
\* levels, and the result of the outermost is what the engine answers with
\* (README.md:105-113, router.go:40-44, 136-141).
THEOREM ResultsAreHandedUp == Spec => ResultReachesCaller
  <1> DEFINE Reaches ==
        request.route = "handler" =>
          /\ Len(stack') < Len(stack) /\ stack' # <<>> => stack'[Len(stack')].got = ret'
          /\ Len(stack') < Len(stack) /\ stack' = <<>> => rsp' = ret'
  <1>1. TypeInv /\ [Next]_vars => [Reaches]_vars
    <2> SUFFICES ASSUME TypeInv, [Next]_vars PROVE Reaches
      OBVIOUS
    <2>1. CASE \E v \in Results : Return(v)
      BY <2>1, ReturnedToCaller
    <2>2. CASE ~ \E v \in Results : Return(v)
      BY <2>2, OnlyReturnShrinks
    <2> QED BY <2>1, <2>2
  <1> QED BY <1>1, Typed, PTL DEF Spec, ResultReachesCaller
=================================================================================
