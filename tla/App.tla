-------------------------------- MODULE App --------------------------------
(***************************************************************************)
(* The request lifecycle of an Amaro application: App.ServeHTTP with the   *)
(* lazy compilation of the middleware chain, the pool of Context objects,  *)
(* dispatch, the error handler, the Recovery middleware that New installs  *)
(* first, and the Timeout middleware a route may carry.                    *)
(*                                                                         *)
(* Each request is served by a goroutine of net/http.  A route under       *)
(* Timeout runs its handler in a second goroutine, which keeps the pointer *)
(* to the Context after the serving goroutine has given up on it.          *)
(*                                                                         *)
(* Middlewares other than Recovery and Timeout call next and nothing else  *)
(* here.  A Context field is abstracted to the request its value was taken *)
(* from, which is what tells a field of this request from a stale one.     *)
(***************************************************************************)
EXTENDS Naturals, Sequences

CONSTANTS
  Requests,       (* the requests net/http hands to the App               *)
  Contexts,       (* the Context objects the pool can ever allocate       *)
  RouteKinds,     (* outcomes of routing: "none", "plain", "timed"        *)
  Outcomes,       (* how a handler may end: "ok", "err", "httpErr", "panic" *)
  Cooperative,    (* TRUE iff handlers look at ctx.Done() before they write *)
  Recovery,       (* the middleware New puts first in the chain           *)
  Others,         (* middlewares the program may add with Use             *)
  MaxMiddlewares, (* bound on the length of App.middlewares               *)
  MaxWrites,      (* bound on the writes of one handler                   *)
  NoReq, NoCtx

ASSUME DistinctNulls == NoReq \notin Requests /\ NoCtx \notin Contexts

(* A request is in flight at most once, so a Context per request is enough *)
(* for the pool's New never to be stuck, as it never is in the code.       *)
ASSUME KindsAreKnown ==
  /\ RouteKinds \subseteq {"none", "plain", "timed"}
  /\ Outcomes \subseteq {"ok", "err", "httpErr", "panic"}
  /\ Cooperative \in BOOLEAN
  /\ MaxMiddlewares \in Nat
  /\ MaxWrites \in Nat

VARIABLES
  middlewares,  (* App.middlewares                                         *)
  handler,      (* App.handler as the list it was compiled from, << >> is nil *)
  once,         (* App.once: "new", "running", "done"                      *)
  pool,         (* Contexts that were Put and not yet taken                *)
  allocated,    (* Contexts made by the pool's New                         *)
  ctx,          (* the fields of each Context                              *)
  pc,           (* the serving goroutine of each request                   *)
  held,         (* the Context pointer of the request's goroutines         *)
  hc,           (* the handler body of each request                        *)
  writes,       (* how often the handler body has written                  *)
  result,       (* what routing and the handler chain ended in             *)
  done,         (* the channel of Timeout, of capacity 1                   *)
  expired,      (* the Done channel of the request's context is closed     *)
  resp,         (* the response of each request, as its client sees it     *)
  crashed       (* an unrecovered panic has ended the process              *)

setupVars   == <<middlewares, handler, once>>
poolVars    == <<pool, allocated>>
handlerVars == <<hc, writes, done, expired>>
vars == <<setupVars, poolVars, ctx, pc, held, handlerVars, result, resp, crashed>>

Idle == [request |-> NoReq, writer |-> NoReq, params |-> << >>, key |-> NoReq]

(* Writes to a response: the first status sticks, a body write implies 200. *)
WriteHeader(rs, q, code) ==
  [rs EXCEPT ![q] = [status |-> IF @.status = 0 THEN code ELSE @.status,
                     body |-> @.body]]
WriteBody(rs, q, who) ==
  [rs EXCEPT ![q] = [status |-> IF @.status = 0 THEN 200 ELSE @.status,
                     body |-> @.body \cup {who}]]
Reply(rs, q, code, who) == WriteBody(WriteHeader(rs, q, code), q, who)

(* Mistaken forms of the definitions below: the Once entered again, a      *)
(* setup that does not wait for another one, a Context left in the pool    *)
(* when taken, a Reset that keeps the parameters and one that keeps the    *)
(* writer, HTTPError.Code ignored, a Done channel that waits for the       *)
(* handler, and done <- without a buffer.                                  *)
ReenterableOnce == once # "running"
SetupBegun == once # "new"
TakeWithoutRemove(c) == pool' = pool
ResetKeepingParams(x, r) ==
  [request |-> r, writer |-> r, params |-> x.params, key |-> NoReq]
ResetKeepingWriter(x, r) ==
  [request |-> r, writer |-> IF x.writer = NoReq THEN r ELSE x.writer,
   params |-> << >>, key |-> NoReq]
IgnoredErrorCode(res) == 500
WaitingDone(r) == expired[r] /\ hc[r] = "gone"
UnbufferedRoom(r) == pc[r] = "select" /\ done[r] = << >>

(* The methods of Context, on the fields x of one. *)
Reset(x, r) ==
  [request |-> r, writer |-> r, params |-> << >>, key |-> NoReq]
AddParam(x, value) ==
  [request |-> x.request, writer |-> x.writer,
   params |-> Append(x.params, value), key |-> x.key]
Set(x, key) ==
  [request |-> x.request, writer |-> x.writer, params |-> x.params, key |-> key]

----------------------------------------------------------------------------
(* Start-up. *)

Use(m) ==
  /\ Len(middlewares) < MaxMiddlewares
  /\ middlewares' = Append(middlewares, m)
  /\ UNCHANGED <<handler, once, poolVars, ctx, pc, held, handlerVars, result,
                 resp, crashed>>

(* ServeHTTP reads App.handler without the Once, in a race with setup: it  *)
(* may still see nil when another goroutine has compiled the chain.        *)
Arrive(r) ==
  /\ pc[r] = "idle"
  /\ \E next \in {"setup"} \cup (IF handler = << >> THEN {} ELSE {"get"}) :
       pc' = [pc EXCEPT ![r] = next]
  /\ UNCHANGED <<setupVars, poolVars, ctx, held, handlerVars, result, resp,
                 crashed>>

OnceUnused == once = "new"

EnterSetup(r) ==
  /\ pc[r] = "setup"
  /\ OnceUnused
  /\ once' = "running"
  /\ pc' = [pc EXCEPT ![r] = "compile"]
  /\ UNCHANGED <<middlewares, handler, poolVars, ctx, held, handlerVars, result,
                 resp, crashed>>

CompileChain(r) ==
  /\ pc[r] = "compile"
  /\ handler' = middlewares
  /\ once' = "done"
  /\ pc' = [pc EXCEPT ![r] = "get"]
  /\ UNCHANGED <<middlewares, poolVars, ctx, held, handlerVars, result, resp,
                 crashed>>

(* once.Do returns to everyone else only when the first call has returned. *)
SetupOver == once = "done"

AwaitSetup(r) ==
  /\ pc[r] = "setup"
  /\ SetupOver
  /\ pc' = [pc EXCEPT ![r] = "get"]
  /\ UNCHANGED <<setupVars, poolVars, ctx, held, handlerVars, result, resp,
                 crashed>>

----------------------------------------------------------------------------
(* Serving. *)

Take(c) == pool' = pool \ {c}

(* sync.Pool may hand out any Context that was Put, or make a new one even *)
(* though some are free.                                                   *)
AcquireContext(r) ==
  /\ pc[r] = "get"
  /\ \E c \in pool \cup (Contexts \ allocated) :
       /\ Take(c)
       /\ allocated' = allocated \cup {c}
       /\ held' = [held EXCEPT ![r] = c]
       /\ ctx' = [ctx EXCEPT ![c] = Reset(@, r)]
  /\ pc' = [pc EXCEPT ![r] = "dispatch"]
  /\ UNCHANGED <<setupVars, handlerVars, result, resp, crashed>>

(* dispatch when the router finds nothing: the error handler answers 404   *)
(* and the chain returns nil.                                              *)
DispatchMiss(r) ==
  /\ pc[r] = "dispatch"
  /\ "none" \in RouteKinds
  /\ result' = [result EXCEPT ![r] = "notFound"]
  /\ resp' = Reply(resp, ctx[held[r]].writer, 404, <<r, "framework">>)
  /\ pc' = [pc EXCEPT ![r] = "put"]
  /\ UNCHANGED <<setupVars, poolVars, ctx, held, handlerVars, crashed>>

(* dispatch when the router finds a route: Find has appended the path      *)
(* parameter.  Under Timeout the handler starts in a goroutine of its own. *)
DispatchHit(r) ==
  /\ pc[r] = "dispatch"
  /\ \E kind \in RouteKinds \ {"none"} :
       pc' = [pc EXCEPT ![r] = IF kind = "timed" THEN "select" ELSE "handler"]
  /\ ctx' = [ctx EXCEPT ![held[r]] = AddParam(@, r)]
  /\ hc' = [hc EXCEPT ![r] = "running"]
  /\ UNCHANGED <<setupVars, poolVars, held, writes, done, expired, result, resp,
                 crashed>>

----------------------------------------------------------------------------
(* The handler body, on the serving goroutine (pc = "handler") or on the   *)
(* goroutine of Timeout.                                                   *)

OwnGoroutine(r) == pc[r] # "handler"

(* A cooperative handler looks at c.Request.Context() before it goes on,   *)
(* and returns an error when that context is done.                         *)
HandlerCheck(r) ==
  /\ hc[r] = "running"
  /\ writes[r] < MaxWrites
  /\ Cooperative => ~expired[ctx[held[r]].request]
  /\ hc' = [hc EXCEPT ![r] = "writing"]
  /\ UNCHANGED <<setupVars, poolVars, ctx, pc, held, writes, done, expired,
                 result, resp, crashed>>

(* c.Set(key, ...) followed by a write to c.Writer. *)
HandlerWrite(r) ==
  /\ hc[r] = "writing"
  /\ ctx' = [ctx EXCEPT ![held[r]] = Set(@, r)]
  /\ resp' = WriteBody(resp, ctx[held[r]].writer, <<r, "handler">>)
  /\ writes' = [writes EXCEPT ![r] = @ + 1]
  /\ hc' = [hc EXCEPT ![r] = "running"]
  /\ UNCHANGED <<setupVars, poolVars, pc, held, done, expired, result, crashed>>

(* The handler returns to the serving goroutine. *)
HandlerReturn(r, out) ==
  /\ pc[r] = "handler"
  /\ hc[r] = "running"
  /\ out # "panic"
  /\ hc' = [hc EXCEPT ![r] = "gone"]
  /\ result' = [result EXCEPT ![r] = out]
  /\ pc' = [pc EXCEPT ![r] = IF out = "ok" THEN "put" ELSE "error"]
  /\ UNCHANGED <<setupVars, poolVars, ctx, held, writes, done, expired, resp,
                 crashed>>

(* The deferred function of Recovery answers and the chain returns nil. *)
HandlerPanic(r) ==
  /\ "panic" \in Outcomes
  /\ pc[r] = "handler"
  /\ hc[r] = "running"
  /\ hc' = [hc EXCEPT ![r] = "gone"]
  /\ result' = [result EXCEPT ![r] = "panic"]
  /\ resp' = Reply(resp, ctx[held[r]].writer, 500, <<r, "framework">>)
  /\ pc' = [pc EXCEPT ![r] = "put"]
  /\ UNCHANGED <<setupVars, poolVars, ctx, held, writes, done, expired, crashed>>

(* done <- next(c): the handler has returned on the goroutine of Timeout   *)
(* and its result waits for room in the channel.                           *)
TimedReturn(r, out) ==
  /\ OwnGoroutine(r)
  /\ hc[r] = "running"
  /\ out # "panic"
  /\ hc' = [hc EXCEPT ![r] = out]
  /\ UNCHANGED <<setupVars, poolVars, ctx, pc, held, writes, done, expired,
                 result, resp, crashed>>

RoomInDone(r) == Len(done[r]) < 1

TimedSend(r) ==
  /\ hc[r] \in Outcomes
  /\ RoomInDone(r)
  /\ done' = [done EXCEPT ![r] = Append(@, hc[r])]
  /\ hc' = [hc EXCEPT ![r] = "gone"]
  /\ UNCHANGED <<setupVars, poolVars, ctx, pc, held, writes, expired, result,
                 resp, crashed>>

(* No deferred recover runs on the goroutine of Timeout. *)
TimedPanic(r) ==
  /\ "panic" \in Outcomes
  /\ OwnGoroutine(r)
  /\ hc[r] = "running"
  /\ crashed' = TRUE
  /\ UNCHANGED <<setupVars, poolVars, ctx, pc, held, handlerVars, result, resp>>

----------------------------------------------------------------------------
(* The select of Timeout; the deferred cancel closes the Done channel too. *)

TimerFires(r) ==
  /\ pc[r] = "select"
  /\ ~expired[r]
  /\ expired' = [expired EXCEPT ![r] = TRUE]
  /\ UNCHANGED <<setupVars, poolVars, ctx, pc, held, hc, writes, done, result,
                 resp, crashed>>

SelectDone(r) ==
  /\ pc[r] = "select"
  /\ done[r] # << >>
  /\ done' = [done EXCEPT ![r] = Tail(@)]
  /\ result' = [result EXCEPT ![r] = Head(done[r])]
  /\ expired' = [expired EXCEPT ![r] = TRUE]
  /\ pc' = [pc EXCEPT ![r] = IF Head(done[r]) = "ok" THEN "put" ELSE "error"]
  /\ UNCHANGED <<setupVars, poolVars, ctx, held, hc, writes, resp, crashed>>

DoneClosed(r) == expired[r]

SelectTimeout(r) ==
  /\ pc[r] = "select"
  /\ DoneClosed(r)
  /\ result' = [result EXCEPT ![r] = "timeout"]
  /\ resp' = WriteHeader(resp, ctx[held[r]].writer, 503)
  /\ pc' = [pc EXCEPT ![r] = "error"]
  /\ UNCHANGED <<setupVars, poolVars, ctx, held, handlerVars, crashed>>

----------------------------------------------------------------------------
(* The end of ServeHTTP. *)

ErrorCode(res) == IF res = "httpErr" THEN 400 ELSE 500

HandleError(r) ==
  /\ pc[r] = "error"
  /\ resp' = Reply(resp, ctx[held[r]].writer, ErrorCode(result[r]),
                   <<r, "framework">>)
  /\ pc' = [pc EXCEPT ![r] = "put"]
  /\ UNCHANGED <<setupVars, poolVars, ctx, held, handlerVars, result, crashed>>

Put(r) == pool' = pool \cup {held[r]}

(* The deferred Put; net/http completes an untouched response with 200. *)
PutContext(r) ==
  /\ pc[r] = "put"
  /\ Put(r)
  /\ resp' = WriteHeader(resp, r, 200)
  /\ pc' = [pc EXCEPT ![r] = "done"]
  /\ UNCHANGED <<setupVars, allocated, ctx, held, handlerVars, result, crashed>>

----------------------------------------------------------------------------
Init ==
  /\ middlewares = <<Recovery>>
  /\ handler = << >>
  /\ once = "new"
  /\ pool = {}
  /\ allocated = {}
  /\ ctx = [c \in Contexts |-> Idle]
  /\ pc = [r \in Requests |-> "idle"]
  /\ held = [r \in Requests |-> NoCtx]
  /\ hc = [r \in Requests |-> "off"]
  /\ writes = [r \in Requests |-> 0]
  /\ result = [r \in Requests |-> "none"]
  /\ done = [r \in Requests |-> << >>]
  /\ expired = [r \in Requests |-> FALSE]
  /\ resp = [r \in Requests |-> [status |-> 0, body |-> {}]]
  /\ crashed = FALSE

(* The steps of the serving goroutine, its Once and its select. *)
Serve(r) ==
  \/ EnterSetup(r)
  \/ CompileChain(r)
  \/ AwaitSetup(r)
  \/ AcquireContext(r)
  \/ DispatchMiss(r)
  \/ DispatchHit(r)
  \/ SelectDone(r)
  \/ SelectTimeout(r)
  \/ HandleError(r)
  \/ PutContext(r)

(* The steps of the handler's own code. *)
Handle(r) ==
  \/ HandlerCheck(r)
  \/ HandlerWrite(r)
  \/ \E out \in Outcomes : HandlerReturn(r, out) \/ TimedReturn(r, out)
  \/ HandlerPanic(r)
  \/ TimedPanic(r)

Step(r) == Arrive(r) \/ Serve(r) \/ Handle(r) \/ TimedSend(r) \/ TimerFires(r)

Next ==
  /\ ~crashed
  /\ \/ \E m \in Others : Use(m)
     \/ \E r \in Requests : Step(r)

Spec == Init /\ [][Next]_vars

(* The Go scheduler runs the serving goroutines, the runtime its timers,   *)
(* and a goroutine blocked on a send goes on once there is room.  Nothing  *)
(* makes a handler's own code return, or a request arrive.                 *)
FairSpec ==
  /\ Spec
  /\ \A r \in Requests :
       /\ WF_vars(~crashed /\ Serve(r))
       /\ WF_vars(~crashed /\ TimerFires(r))
       /\ WF_vars(~crashed /\ TimedSend(r))

----------------------------------------------------------------------------
(* Properties. *)

Fields == [request : Requests \cup {NoReq}, writer : Requests \cup {NoReq},
           params : Seq(Requests), key : Requests \cup {NoReq}]
Parts == Requests \X {"handler", "framework"}
Responses == [status : Nat, body : SUBSET Parts]

(* Every variable keeps its shape. *)
TypeOK ==
  /\ middlewares \in Seq({Recovery} \cup Others)
  /\ handler \in Seq({Recovery} \cup Others)
  /\ once \in {"new", "running", "done"}
  /\ pool \subseteq Contexts
  /\ allocated \subseteq Contexts
  /\ ctx \in [Contexts -> Fields]
  /\ pc \in [Requests -> {"idle", "setup", "compile", "get", "dispatch",
                          "handler", "select", "error", "put", "done"}]
  /\ held \in [Requests -> Contexts \cup {NoCtx}]
  /\ hc \in [Requests -> {"off", "running", "writing", "gone"} \cup Outcomes]
  /\ writes \in [Requests -> 0..MaxWrites]
  /\ result \in [Requests -> {"none", "notFound", "timeout", "panic"} \cup Outcomes]
  /\ done \in [Requests -> Seq(Outcomes)]
  /\ expired \in [Requests -> BOOLEAN]
  /\ resp \in [Requests -> Responses]
  /\ crashed \in BOOLEAN

(* The request is between the Get and the Put of ServeHTTP. *)
InFlight(r) == pc[r] \in {"dispatch", "handler", "select", "error", "put"}

(* The pool never shares a Context: the one a request is served with is in *)
(* use by no other request in flight and is not free for the next Get.     *)
ContextExclusive ==
  /\ \A r \in Requests : InFlight(r) => held[r] \in allocated \ pool
  /\ \A r, q \in Requests :
       InFlight(r) /\ InFlight(q) /\ r # q => held[r] # held[q]

HandlerActive(r) == hc[r] \in {"running", "writing"}

(* The requests that Timeout has answered in place of their handler. *)
TimedOut == {q \in Requests : result[q] = "timeout"}

(* While the handler of a request runs that Timeout has not given up on,   *)
(* its Context is that of its own request: the request and the writer it   *)
(* was called with, its own path parameter and no other.  No key in it is  *)
(* that of another request, but for handlers that outlive their Timeout.   *)
ContextIsolation ==
  \A r \in Requests \ TimedOut : HandlerActive(r) =>
    /\ ctx[held[r]].request = r
    /\ ctx[held[r]].writer = r
    /\ ctx[held[r]].params = <<r>>
    /\ ctx[held[r]].key \in {NoReq, r} \cup TimedOut

(* What a client reads was written on behalf of its own request, or by a   *)
(* handler that has outlived its Timeout.                                  *)
ResponseIsolation ==
  \A q \in Requests : \A part \in resp[q].body :
    part[1] = q \/ (part[1] \in TimedOut /\ part[2] = "handler")

(* Timeout's documentation says that a handler that honours its context    *)
(* stops at the deadline: a client then only reads what was written for it. *)
ResponseNeverShared ==
  \A q \in Requests : \A part \in resp[q].body : part[1] = q

ExpectedStatus(res) ==
  CASE res = "ok" -> 200
    [] res = "notFound" -> 404
    [] res = "httpErr" -> 400
    [] res = "timeout" -> 503
    [] OTHER -> 500

(* Whatever interleaves, a client whose handler wrote nothing gets the     *)
(* status that the outcome of its own handler calls for, and a handler     *)
(* that has begun a 200 response keeps it; only a handler that outlives    *)
(* its Timeout can turn a status into that 200.                            *)
StatusMatchesOutcome ==
  \A r \in Requests : pc[r] = "done" =>
    \/ /\ resp[r].status = ExpectedStatus(result[r])
       /\ r \in TimedOut \/ writes[r] = 0
    \/ /\ resp[r].status = 200
       /\ \E q \in TimedOut \cup {r} : writes[q] > 0

(* A request that goes on to serve finds App.handler compiled, with the    *)
(* Recovery of New outermost.                                              *)
ChainReady ==
  \A r \in Requests : pc[r] = "get" \/ InFlight(r) =>
    handler # << >> /\ handler[1] = Recovery

(* However many first requests race, App.handler is compiled once, the     *)
(* chain that requests run never changes under them, and none of them is   *)
(* served before it is there.                                              *)
ChainCompiledOnce ==
  [][(handler # << >> => UNCHANGED handler) /\ ChainReady']_<<handler, pc>>

(* A client of a route under Timeout is answered even if the handler hangs. *)
TimeoutAnswers ==
  \A r \in Requests : pc[r] = "select" ~> (pc[r] = "done" \/ crashed)

(* A handler that outlives its Timeout can deliver its result to nobody    *)
(* and still ends: its goroutine does not leak.                            *)
TimedGoroutineEnds ==
  \A r \in Requests : hc[r] \in Outcomes ~> (hc[r] = "gone" \/ crashed)
============================================================================
