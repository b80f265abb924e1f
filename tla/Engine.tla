--------------------------------- MODULE Engine ---------------------------------
(***************************************************************************)
(* srvhttp/engine.go, router.go, handler.go and the response half of       *)
(* context.go: one request, from ServeHTTP to the answer of the engine.    *)
(*                                                                         *)
(* chain lists the calls of Use and UseCors that apply to the route, the   *)
(* root's first: the number of middlewares of one Use, or the              *)
(* configuration of one UseCors.  mux turns each into a level whose next   *)
(* is the level below, and the handler is the last.  stack holds the       *)
(* functions of the application that are running: each was called by the   *)
(* one below it, through its next.  They call next, write, and return what *)
(* they like; what golt does in between is part of the step that sets it   *)
(* off.                                                                    *)
(*                                                                         *)
(* mux and net/http are external.  sent is the status the ResponseWriter   *)
(* sent, which differs from the status the Context remembers.  author,    *)
(* passed and ret are history variables.                                   *)
(***************************************************************************)
EXTENDS Cors

CONSTANTS
  Chains,     \* the calls of Use and UseCors a route can be behind
  Codes,      \* statuses an application sends, or gives to a unierr
  MaxCalls,   \* bound: calls of next in one run of a middleware
  MaxWrites   \* bound: uses of the response by the application

ASSUME EngineAssumption ==
  /\ \A c \in Chains : c \in Seq((Nat \ {0}) \cup Configs)
  /\ \A c \in Configs : c \notin Nat
  /\ Codes \subseteq Nat \ {0}
  /\ MaxCalls \in Nat
  /\ MaxWrites \in Nat

VARIABLES
  chain,      \* the levels above the handler of this request
  request,    \* how mux routes it, whether its method is OPTIONS, and its Origin
  phase,      \* "new", "serving", "answer" (middlewareOne after its next), "done"
  stack,      \* the running middlewares and handler, the innermost last
  index,      \* per level: index of its chainHandler
  rsp,        \* ctx.rsp and ctx.err
  status,     \* ctx.status
  sent,       \* external: the final status sent to the client, 0 if none
  hijacked,   \* external: the application took the connection
  type,       \* the Content-Type that golt gave the response
  headers,    \* what UseCors put into the header of the response
  writes,     \* uses of the response, for MaxWrites
  author,     \* history: who wrote to the body
  passed,     \* history: the configurations that headers come from
  ret         \* history: what the function that returned last returned

response == <<status, sent, hijacked, type, author>>
cors == <<headers, passed>>
vars == <<chain, request, phase, stack, index, rsp, response, cors, writes, ret>>

Results == {"nil", "data", "error"}
Request == [route : {"handler", "static", "method", "none"}, options : BOOLEAN,
            origin : Origins \cup {Same}]
HandlerLevel == Len(chain) + 1
Frame == [lv : Nat, at : Nat, got : Results \cup {"none"}, calls : Nat]

TypeOK ==
  /\ chain \in Chains
  /\ request \in Request
  /\ phase \in {"new", "serving", "answer", "done"}
  /\ stack \in Seq(Frame)
  /\ stack # <<>> <=> phase = "serving"
  /\ \A n \in 1..Len(stack) :
       \/ stack[n].lv = HandlerLevel /\ n = Len(stack) /\ stack[n].at = 1
       \/ stack[n].lv \in 1..Len(chain) /\ stack[n].at \in 1..chain[stack[n].lv]
  /\ index \in [1..Len(chain) -> Nat]
  /\ rsp \in Results
  /\ status \in Nat
  /\ sent \in Nat
  /\ hijacked \in BOOLEAN
  /\ writes \in 0..MaxWrites
  /\ author \in SUBSET {"application", "engine"}
  /\ ret \in Results
  /\ type \in {"none", "stream", "json"}
  /\ headers \in Headers
  /\ passed \in Seq(Configs)

Init ==
  /\ chain \in Chains
  /\ request \in Request
  /\ phase = "new"
  /\ stack = <<>>
  /\ index = [l \in 1..Len(chain) |-> 0]
  /\ rsp = "nil"
  /\ status = 0
  /\ sent = 0
  /\ hijacked = FALSE
  /\ writes = 0
  /\ author = {}
  /\ ret = "nil"
  /\ type = "none"
  /\ headers = NoHeaders
  /\ passed = <<>>

-----------------------------------------------------------------------------
(* The response.  net/http sends the first status that is not informational, *)
(* 200 if a body or a flush comes first, and nothing once hijacked.          *)

Informational(s) == s \in 100..199 \ {101}
Send(s) == IF sent # 0 \/ hijacked \/ Informational(s) THEN sent ELSE s

WriteHeader(s) ==
  /\ status' = s
  /\ sent' = Send(s)
  /\ UNCHANGED <<hijacked, type, author>>

\* Write and Flush send 200 if the Context has no status yet.
Begun == IF status = 0 THEN 200 ELSE status

Write(who) ==
  /\ status' = Begun
  /\ sent' = Send(200)
  /\ author' = IF hijacked THEN author ELSE author \cup {who}
  /\ UNCHANGED <<hijacked, type>>

FlushKeepsStatus ==
  /\ sent' = Send(200)
  /\ UNCHANGED <<status, hijacked, type, author>>

Flush ==
  /\ status' = Begun
  /\ sent' = Send(200)
  /\ UNCHANGED <<hijacked, type, author>>

Hijack ==
  /\ ~hijacked
  /\ hijacked' = TRUE
  /\ UNCHANGED <<status, sent, type, author>>

\* A header that is set when a status went out is not sent any more.
SetType(t) == type' = IF sent # 0 \/ hijacked THEN type ELSE t

\* An event is written and flushed; data that does not encode leaves the header.
SSEvent ==
  \/ /\ status' = Begun
     /\ sent' = Send(200)
     /\ author' = IF hijacked THEN author ELSE author \cup {"application"}
     /\ SetType("stream")
     /\ UNCHANGED hijacked
  \/ SetType("stream") /\ UNCHANGED <<status, sent, hijacked, author>>

\* defResponseFunc: an error's status and body, no content for nil, or data.  An
\* error has the status its unierr was given, 400 if it is none or was given none.
CodesOf(r) == CASE r = "nil" -> {204} [] r = "data" -> {200} [] r = "error" -> Codes \cup {400}

\* After an informational status, the body that follows it sends 200.
Respond(r) ==
  /\ status' \in CodesOf(r)
  /\ sent' = Send(IF Informational(status') THEN 200 ELSE status')
  /\ author' = IF r = "nil" \/ hijacked THEN author ELSE author \cup {"engine"}
  /\ IF r = "nil" THEN UNCHANGED type ELSE SetType("json")
  /\ UNCHANGED hijacked

-----------------------------------------------------------------------------
(* Levels.  A level is entered by the ServeHTTP that stands for it, which  *)
(* makes a new chainHandler, its index 0.                                  *)

\* The first level from l on that runs functions of the application.
Below(l) == CHOOSE m \in l..HandlerLevel :
  /\ m = HandlerLevel \/ chain[m] \notin Configs
  /\ \A n \in l..(m - 1) : chain[n] \in Configs

Preflight(l) == request.options /\ Below(l) # l

\* The index of a level outlives the ServeHTTP it was declared in.
IndexOfKeeps(l) ==
  IF l = HandlerLevel THEN index ELSE [index EXCEPT ![l] = IF @ = 0 THEN 1 ELSE @]

Running(l, i) == [lv |-> l, at |-> i, got |-> "none", calls |-> 0]

IndexOf(l) == IF l = HandlerLevel THEN index ELSE [index EXCEPT ![l] = 1]

\* The levels of UseCors on the way into l; what they set is too late once a
\* status went out.
UseCors(l) ==
  LET cs == IF Preflight(l) THEN <<chain[l]>> ELSE SubSeq(chain, l, Below(l) - 1) IN
  IF sent # 0 \/ hijacked THEN UNCHANGED cors
  ELSE /\ headers' = applyAll(cs, request.origin, headers)
       /\ passed' = passed \o cs

\* Enter level l from the functions of below: UseCors answers OPTIONS itself,
\* and whoever called next gets ctx.rsp as it is.
Enter(l, below) ==
  /\ UseCors(l)
  /\ IF Preflight(l)
     THEN /\ WriteHeader(204)
          /\ stack' = IF below = <<>> THEN <<>> ELSE [below EXCEPT ![Len(below)].got = rsp]
          /\ phase' = IF below = <<>> THEN "answer" ELSE phase
          /\ UNCHANGED index
     ELSE /\ stack' = Append(below, Running(Below(l), 1))
          /\ phase' = "serving"
          /\ index' = IndexOf(Below(l))
          /\ UNCHANGED response

-----------------------------------------------------------------------------
(* ServeHTTP.                                                              *)

Serve ==
  /\ phase = "new"
  /\ request.route \in {"handler", "static"}
  /\ Enter(1, <<>>)
  /\ UNCHANGED <<chain, request, rsp, writes, ret>>

\* mux found no route, or none for the method: no middleware runs and nothing
\* is written but a status; the last UseCors answers OPTIONS in place of 405.
CorsLevels == {l \in 1..Len(chain) : chain[l] \in Configs}

NoRoute ==
  /\ phase = "new"
  /\ request.route \in {"method", "none"}
  /\ phase' = "done"
  /\ \/ /\ request.route = "none" \/ ~request.options \/ CorsLevels = {}
        /\ sent' = IF request.route = "none" THEN 404 ELSE 405
        /\ UNCHANGED cors
     \/ /\ request.route = "method" /\ request.options
        /\ \E l \in CorsLevels :
             /\ \A m \in CorsLevels : m <= l
             /\ headers' = apply(chain[l], request.origin, headers)
             /\ passed' = <<chain[l]>>
        /\ sent' = 204
  /\ UNCHANGED <<chain, request, stack, index, rsp, status, hijacked, type, writes, author, ret>>

\* middlewareOne, after its next.
AnswerAnyway ==
  /\ phase = "answer"
  /\ phase' = "done"
  /\ Respond(rsp)
  /\ UNCHANGED <<chain, request, stack, index, rsp, cors, writes, ret>>

Answer ==
  /\ phase = "answer"
  /\ phase' = "done"
  /\ IF status = 0 THEN Respond(rsp) ELSE UNCHANGED response
  /\ UNCHANGED <<chain, request, stack, index, rsp, cors, writes, ret>>

-----------------------------------------------------------------------------
(* What the innermost function does.                                       *)

Top == stack[Len(stack)]

MoreSkipsLast(l) == index[l] + 1 < chain[l]

MorePastLast(l) == index[l] <= chain[l]

More(l) == index[l] < chain[l]

\* chainHandler: the next middleware of the level, or the level below.  The
\* index only grows, so a second call goes on where the first one stopped.
CallNext ==
  LET called == [stack EXCEPT ![Len(stack)].calls = @ + 1] IN
  /\ phase = "serving"
  /\ Top.lv # HandlerLevel
  /\ Top.calls < MaxCalls
  /\ IF More(Top.lv)
     THEN /\ index' = [index EXCEPT ![Top.lv] = @ + 1]
          /\ stack' = Append(called, Running(Top.lv, index[Top.lv] + 1))
          /\ UNCHANGED <<phase, response, cors>>
     ELSE Enter(Top.lv + 1, called)
  /\ UNCHANGED <<chain, request, rsp, writes, ret>>

\* The first function of a level was called by its ServeHTTP, not by another
\* of the level.
EntersLevel(n) == n = 1 \/ stack[n - 1].lv # stack[n].lv

\* A result reaches ctx.rsp when a handler returns (wrapHandler) and when the
\* first middleware of a Use does; a static route sets nothing.
KeptByHandlerOnly(v) ==
  IF Top.lv = HandlerLevel /\ request.route = "handler" THEN v ELSE rsp

Keeps == IF Top.lv = HandlerLevel THEN request.route = "handler" ELSE EntersLevel(Len(stack))

Kept(v) == IF Keeps THEN v ELSE rsp

Return(v) ==
  LET n == Len(stack)
      kept == Kept(v)
  IN
  /\ phase = "serving"
  /\ rsp' = kept
  /\ ret' = v
  /\ phase' = IF n = 1 THEN "answer" ELSE phase
  /\ stack' = IF n = 1 THEN <<>>
              ELSE [SubSeq(stack, 1, n - 1) EXCEPT ![n - 1].got = IF EntersLevel(n) THEN kept ELSE v]
  /\ UNCHANGED <<chain, request, index, response, cors, writes>>

UseResponse ==
  /\ phase = "serving"
  /\ writes < MaxWrites
  /\ writes' = writes + 1
  /\ (\E s \in Codes : WriteHeader(s)) \/ Write("application") \/ SSEvent \/ Flush \/ Hijack
  /\ UNCHANGED <<chain, request, phase, stack, index, rsp, cors, ret>>

-----------------------------------------------------------------------------
Next ==
  \/ Serve
  \/ NoRoute
  \/ CallNext
  \/ \E v \in Results : Return(v)
  \/ UseResponse
  \/ Answer

Spec == Init /\ [][Next]_vars

-----------------------------------------------------------------------------
(* Properties.                                                             *)

\* The function that follows the one of frame f when each is run once.
Follows(f, g) ==
  IF f.lv # HandlerLevel /\ f.at < chain[f.lv]
  THEN g.lv = f.lv /\ g.at = f.at + 1
  ELSE g.lv = Below(f.lv + 1) /\ g.at = 1

\* Whoever has called its next once is followed by the function behind it, in the
\* order of Use, also when a middleware above retries: it enters the levels below
\* anew and they start over (router.go:25-44).  A function that has called next a
\* second time is left out: it finds the index of its level where the first call
\* left it, and skips what of its own level already ran.
NoMiddlewareSkipped ==
  /\ stack # <<>> => stack[1].lv = Below(1) /\ stack[1].at = 1
  /\ \A n \in 1..(Len(stack) - 1) : stack[n].calls = 1 => Follows(stack[n], stack[n + 1])

\* A middleware gets from next what the function it called returned, over any
\* number of levels that pass results through the Context, and the engine's
\* answer is the result of the outermost (README.md:105-113, router.go:40-44).
ResultReachesCaller ==
  [][request.route = "handler" =>
       /\ Len(stack') < Len(stack) /\ stack' # <<>> => stack'[Len(stack')].got = ret'
       /\ Len(stack') < Len(stack) /\ stack' = <<>> => rsp' = ret']_vars

\* The Context says Written once a status went out, however that happened: the
\* engine never adds its own answer to one of the application (context.go:133,
\* engine.go:152, 164).
SentIsWritten == phase \in {"serving", "answer"} /\ sent # 0 => status # 0

\* Every request is answered, its body has one author, and golt's own is sent as
\* what it is, also after an event that could not be encoded.  What is left
\* without an answer was hijacked, or had an informational status only, which
\* Written takes for an answer (context.go:107-136, sse.go:36-88, handler.go:20-51).
OneAnswer ==
  /\ author # {"application", "engine"}
  /\ author = {"engine"} => type = "json"
  /\ phase = "done" /\ ~hijacked /\ sent = 0 => Informational(status)

\* A cache may give a response to any origin unless it says Vary.  One that does
\* not grants every other origin what a request of its own, past the same levels
\* of UseCors, would be granted, refusals included (cors.go:34-60, engine.go:57-77).
VaryTellsOrigins ==
  headers.vary \/ \A o \in Origins : Grants(headers, o) = Grants(applyAll(passed, o, NoHeaders), o)
=================================================================================
