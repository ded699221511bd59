------------------------------ MODULE Pipeline ------------------------------
(***************************************************************************)
(* The middlewares that stand between the client and the handler, in any   *)
(* order under Recovery: those with a writer of their own (Logger,         *)
(* Compress, CachePage), CORS, which adds to the same headers, guards that *)
(* refuse a request (JWT answers itself, KeyAuth, BasicAuth, RBAC and      *)
(* SessionAuth return an HTTPError), and a handler that may stream.        *)
(*                                                                         *)
(* Requests are for one URL and are served one after the other; what       *)
(* carries over is the cached page.  c.Writer is the sequence of wrappers  *)
(* around the ResponseWriter of net/http, the outermost last.  A piece of  *)
(* a body tells which request it was written for and whether it went       *)
(* through gzip; the trailer is what gzip.Writer.Close writes.             *)
(***************************************************************************)
EXTENDS Naturals, SequencesExt

CONSTANTS
  Stacks,       (* the orders in which the program may Use the middlewares, *)
                (* each at most once                                       *)
  Policies,     (* how CORS may be configured: "any", "credentials", "listed" *)
  Requests,     (* [preflight, gzip, known: BOOLEAN, origin: a string]     *)
  Listed,       (* the AllowOrigins of the policy "listed"                 *)
  Statuses,     (* what a handler may pass to WriteHeader, as the final    *)
                (* status of a response                                    *)
  MaxRequests,  (* bound on the requests                                   *)
  MaxCalls,     (* bound on the calls of one handler on its writer         *)
  NoPage

ASSUME StacksAreOrders ==
  \A s \in Stacks :
    /\ s \in Seq({"cors", "logger", "compress", "cache", "jwt", "key"})
    /\ \A i, j \in DOMAIN s : s[i] = s[j] => i = j
ASSUME PoliciesAreKnown == Policies \subseteq {"any", "credentials", "listed"}
ASSUME BoundsAreNumbers ==
  MaxRequests \in Nat /\ MaxCalls \in Nat /\ Statuses \subseteq Nat
ASSUME StatusesAreFinal == \A code \in Statuses : code >= 200

VARIABLES
  stack,    (* the middlewares in use, first to last                       *)
  policy,   (* the configuration of CORS                                   *)
  count,    (* the requests so far                                         *)
  req,      (* the request being served                                    *)
  pc,
  depth,    (* the middleware that is entered, or that next returns to     *)
  writer,   (* c.Writer                                                    *)
  original, (* the writer that Compress has wrapped                        *)
  gz,       (* its gzip.Writer: "off", "open", "closed"                    *)
  hdr,      (* c.Writer.Header(): the values of three of its fields        *)
  out,      (* the response sent so far, and what the wrappers recorded    *)
  calls,    (* how often the handler has used its writer                   *)
  late,     (* history: it has set another status than the one it began with *)
  outcome,  (* how the chain ended: see Outcomes and the way in            *)
  line,     (* the status Logger has printed, 0 if none                    *)
  page,     (* the CachedResponse in the store, and which response it is of *)
  last,     (* history: the response last finished                         *)
  miss      (* history: the response that the page was made of             *)

chain == <<stack, policy, req>>
wrap == <<writer, original, gz>>
told == <<calls, late, outcome, line>>
past == <<count, page, last, miss>>
vars == <<chain, pc, depth, wrap, hdr, out, told, past>>

NoHeader == [vary |-> << >>, encoding |-> << >>, allow |-> << >>]
Fresh == [status |-> 0, header |-> NoHeader, body |-> << >>, flushed |-> 0,
          logged |-> 0, recorded |-> 0, copy |-> << >>]

(***************************************************************************)
(* The ResponseWriters.  The first WriteHeader, or a Write before any,     *)
(* sends the headers.  Every wrapper sees a status on its way down; what   *)
(* is written to Compress reaches the writers below it compressed, and     *)
(* reaches nothing once its gzip.Writer is closed.                         *)
(***************************************************************************)

Commit(o, h, code) ==
  IF o.status = 0 THEN [o EXCEPT !.status = code, !.header = h] ELSE o

(* A mistaken form of the next definition: no wrapper notes the status.    *)
UnseenHeader(o, w, h, code) == Commit(o, h, code)

WriteHeader(o, w, h, code) ==
  [Commit(o, h, code) EXCEPT
     !.logged = IF Contains(w, "log") THEN code ELSE @,
     !.recorded = IF Contains(w, "rec") THEN code ELSE @]

(* The pieces of a body as they come out of a set of wrappers. *)
Through(wrappers, pieces) ==
  IF "shut" \in wrappers THEN << >>
  ELSE [i \in DOMAIN pieces |->
          IF "gz" \in wrappers THEN [by |-> pieces[i].by, coding |-> "gzip"]
                               ELSE pieces[i]]

Around(w, wrapper) ==
  UNION {{w[j] : j \in i + 1..Len(w)} : i \in {j \in DOMAIN w : w[j] = wrapper}}

(* A response with one of these has no body: net/http drops it. *)
Bodiless == {204, 304}

Write(o, w, h, pieces) ==
  LET c == IF Contains(w, "shut") THEN o ELSE Commit(o, h, 200)
  IN  [c EXCEPT
         !.body = IF c.status \in Bodiless THEN @ ELSE @ \o Through(ToSet(w), pieces),
         !.copy = IF Contains(w, "rec") THEN @ \o Through(Around(w, "rec"), pieces)
                                        ELSE @]

(* A mistaken form of the next definition: a wrapper that keeps Flush.     *)
UnpassedFlush(o, w, h) ==
  IF w = << >> THEN [Commit(o, h, 200) EXCEPT !.flushed = Len(o.body)] ELSE o

(* Flush goes down to the client through Logger and Compress, which first  *)
(* hands on what it holds; the recorder of CachePage has no Flush.         *)
Flush(o, w, h) ==
  IF ~Contains(w, "rec") THEN [Commit(o, h, 200) EXCEPT !.flushed = Len(o.body)]
  ELSE IF "gz" \in Around(w, "rec") THEN Commit(o, h, 200) ELSE o

(* The framework's own answers are by 0. *)
Plain(n) == <<[by |-> n, coding |-> "plain"]>>
Trailer == [by |-> 0, coding |-> "trailer"]

(* Mistaken forms of the definitions below: the body before its status, a  *)
(* stream that is never ended, a page cached after an error or a refusal,  *)
(* an origin answered "*" although credentials are allowed.                *)
BodyFirst(o, w, h, code) ==
  WriteHeader(Write(o, w, h, Plain(0)), w, h, code)
NoTrailer(o) == o
CacheableOnError == out.recorded < 400
CacheableRefusal == outcome \in {"ok", "refused"}
StarOrigin(p, origin) == IF p = "listed" /\ origin \notin Listed THEN "" ELSE "*"

Reply(o, w, h, code) == Write(WriteHeader(o, w, h, code), w, h, Plain(0))

(* gz.Close, deferred by Compress: the end of the stream goes to the       *)
(* writer that Compress has wrapped.                                       *)
CloseGzip(o) ==
  [Commit(o, hdr, 200) EXCEPT
     !.body = IF o.status \in Bodiless THEN @ ELSE Append(@, Trailer),
     !.copy = IF Contains(original, "rec")
                THEN Append(@, Trailer) ELSE @]

----------------------------------------------------------------------------
(* The way in. *)

NoResponse == [outcome |-> "none"]
NoRequest == [origin |-> ""]

(* What belongs to one request. *)
Local(r) ==
  /\ req' = r
  /\ writer' = << >> /\ original' = << >> /\ gz' = "off"
  /\ hdr' = NoHeader /\ out' = Fresh
  /\ calls' = 0 /\ late' = FALSE /\ outcome' = "none" /\ line' = 0

Request(r) ==
  /\ pc = "idle"
  /\ count < MaxRequests
  /\ count' = count + 1
  /\ pc' = "enter" /\ depth' = 1
  /\ Local(r)
  /\ last' = NoResponse
  /\ UNCHANGED <<stack, policy, page, miss>>

Entering(mw) == pc = "enter" /\ depth <= Len(stack) /\ stack[depth] = mw

Deeper == depth' = depth + 1 /\ UNCHANGED <<chain, pc, told, past>>

(* A middleware that returns without calling the next one. *)
Ended(res) ==
  /\ outcome' = res
  /\ pc' = "leave" /\ depth' = depth - 1
  /\ UNCHANGED <<chain, wrap, calls, late, line, past>>

(* The value of Access-Control-Allow-Origin, "" for none. *)
AllowOrigin(p, origin) ==
  CASE p = "any" -> "*"
    [] p = "credentials" -> origin
    [] p = "listed" -> IF origin \in Listed THEN origin ELSE ""

(* Vary is added to, Access-Control-Allow-Origin is set. *)
CORSHeaders ==
  LET allow == AllowOrigin(policy, req.origin)
  IN  [hdr EXCEPT !.vary = Append(@, "Origin"),
                  !.allow = IF allow = "" THEN @ ELSE <<allow>>]

EnterCORS ==
  /\ Entering("cors")
  /\ ~req.preflight
  /\ hdr' = CORSHeaders
  /\ Deeper
  /\ UNCHANGED <<wrap, out>>

(* CORS answers an OPTIONS request itself, whatever its origin, with a     *)
(* String(204, "").  gzip writes its header even for an empty Write, which *)
(* net/http refuses after a 204, and String returns that error.            *)
Preflight ==
  /\ Entering("cors")
  /\ req.preflight
  /\ hdr' = CORSHeaders
  /\ out' = WriteHeader(out, writer, hdr', 204)
  /\ Ended(IF Contains(writer, "gz") THEN "err" ELSE "preflight")

GuardAccepts ==
  /\ Entering("jwt") \/ Entering("key")
  /\ req.known
  /\ Deeper
  /\ UNCHANGED <<wrap, hdr, out>>

(* The default ErrorHandler of JWT writes a 401 and returns nil. *)
JWTRefuses ==
  /\ Entering("jwt")
  /\ ~req.known
  /\ out' = Reply(out, writer, hdr, 401)
  /\ Ended("refused")
  /\ UNCHANGED hdr

(* The other guards return an HTTPError with status 401. *)
KeyRefuses ==
  /\ Entering("key")
  /\ ~req.known
  /\ Ended("denied")
  /\ UNCHANGED <<hdr, out>>

EnterLogger ==
  /\ Entering("logger")
  /\ writer' = Append(writer, "log")
  /\ out' = [out EXCEPT !.logged = 200]
  /\ Deeper
  /\ UNCHANGED <<original, gz, hdr>>

(* Vary is set, whatever CORS has added to it. *)
EnterCompress ==
  /\ Entering("compress")
  /\ req.gzip
  /\ hdr' = [hdr EXCEPT !.vary = <<"Accept-Encoding">>, !.encoding = <<"gzip">>]
  /\ gz' = "open"
  /\ original' = writer
  /\ writer' = Append(writer, "gz")
  /\ Deeper
  /\ UNCHANGED out

SkipCompress ==
  /\ Entering("compress")
  /\ ~req.gzip
  /\ Deeper
  /\ UNCHANGED <<wrap, hdr, out>>

(* Only a GET is looked up or stored. *)
CacheBypass ==
  /\ Entering("cache")
  /\ req.preflight
  /\ Deeper
  /\ UNCHANGED <<wrap, hdr, out>>

CacheMiss ==
  /\ Entering("cache")
  /\ ~req.preflight /\ page = NoPage
  /\ writer' = Append(writer, "rec")
  /\ out' = [out EXCEPT !.recorded = 200]
  /\ Deeper
  /\ UNCHANGED <<original, gz, hdr>>

(* The cached headers are added to those that are there, the cached body   *)
(* is written to the writer of the moment.                                 *)
CacheHit ==
  /\ Entering("cache")
  /\ ~req.preflight /\ page # NoPage
  /\ hdr' = [f \in DOMAIN hdr |-> hdr[f] \o page.header[f]]
  /\ out' = Write(WriteHeader(out, writer, hdr', page.status), writer, hdr', page.body)
  /\ Ended("cached")

----------------------------------------------------------------------------
(* The handler, or dispatch with its 404. *)

Handling == pc = "enter" /\ depth > Len(stack)

Calling ==
  /\ calls < MaxCalls
  /\ calls' = calls + 1
  /\ UNCHANGED <<chain, pc, depth, wrap, hdr, outcome, line, past>>

HandlerStatus(code) ==
  /\ Handling /\ Calling
  /\ out' = WriteHeader(out, writer, hdr, code)
  /\ late' = (late \/ out.status \notin {0, code})

HandlerWrite ==
  /\ Handling /\ Calling
  /\ out' = Write(out, writer, hdr, Plain(count))
  /\ UNCHANGED late

HandlerEnd(res) ==
  /\ Handling
  /\ outcome' = res
  /\ pc' = IF res = "panic" THEN "recover" ELSE "leave"
  /\ depth' = Len(stack)
  /\ UNCHANGED <<chain, wrap, hdr, out, calls, late, line, past>>

(* Stream, StreamText or StreamSSE, by a handler that does nothing else.   *)
(* They want a Flush of the outermost writer, and fail without one.        *)
CanFlush == writer # << >> => Last(writer) # "rec"

StreamBegin ==
  /\ Handling
  /\ calls = 0 /\ CanFlush
  /\ pc' = "stream"
  /\ UNCHANGED <<chain, depth, wrap, hdr, out, told, past>>

StreamRefused == ~CanFlush /\ HandlerEnd("err")

(* StreamContext.Write flushes what was written before, and then writes.   *)
StreamWrite ==
  /\ pc = "stream" /\ Calling
  /\ out' = Write(Flush(out, writer, hdr), writer, hdr, Plain(count))
  /\ UNCHANGED late

StreamEnd(res) ==
  /\ pc = "stream"
  /\ outcome' = res
  /\ pc' = IF res = "panic" THEN "recover" ELSE "leave"
  /\ depth' = Len(stack)
  /\ UNCHANGED <<chain, wrap, hdr, out, calls, late, line, past>>

----------------------------------------------------------------------------
(* The way out. *)

Leaving(mws) ==
  /\ pc = "leave" /\ depth > 0 /\ stack[depth] \in mws
  /\ depth' = depth - 1
  /\ UNCHANGED <<chain, pc, original, hdr, calls, late, outcome, count, last, miss>>

LeavePlain == Leaving({"cors", "jwt", "key"}) /\ UNCHANGED <<writer, gz, out, line, page>>

LeaveLogger ==
  /\ Leaving({"logger"})
  /\ line' = out.logged
  /\ UNCHANGED <<writer, gz, out, page>>

LeaveCompress ==
  /\ Leaving({"compress"})
  /\ \/ /\ gz = "open"
        /\ writer' = original
        /\ out' = CloseGzip(out)
        /\ gz' = "closed"
     \/ gz = "off" /\ UNCHANGED <<writer, gz, out>>
  /\ UNCHANGED <<line, page>>

Cacheable == outcome \in {"ok", "refused"} /\ out.recorded < 400

LeaveCache ==
  /\ Leaving({"cache"})
  /\ page' = IF ~req.preflight /\ Cacheable
               THEN [status |-> out.recorded, header |-> hdr, body |-> out.copy,
                     of |-> count]
               ELSE page
  /\ UNCHANGED <<writer, gz, out, line>>

Answered(o) ==
  /\ out' = o
  /\ pc' = "end"
  /\ UNCHANGED <<chain, depth, original, hdr, told, past>>

(* The chain is back in ServeHTTP. *)
Return ==
  /\ pc = "leave" /\ depth = 0 /\ outcome \notin {"err", "denied"}
  /\ Answered(out)
  /\ UNCHANGED <<writer, gz>>

(* An HTTPError is answered with its code, any other error with 500. *)
HandleError ==
  /\ pc = "leave" /\ depth = 0 /\ outcome \in {"err", "denied"}
  /\ Answered(Reply(out, writer, hdr, IF outcome = "denied" THEN 401 ELSE 500))
  /\ UNCHANGED <<writer, gz>>

(* A panic runs the deferred functions only: gz.Close, which leaves        *)
(* c.Writer as it is, and then that of Recovery.                           *)
Recover ==
  /\ pc = "recover"
  /\ writer' = [i \in DOMAIN writer |-> IF writer[i] = "gz" THEN "shut" ELSE writer[i]]
  /\ gz' = IF gz = "open" THEN "closed" ELSE gz
  /\ Answered(Reply(IF gz = "open" THEN CloseGzip(out) ELSE out,
                    writer', hdr, 500))

(* net/http completes the response. *)
Finish ==
  /\ pc = "end"
  /\ pc' = "idle" /\ depth' = 0
  /\ Local(NoRequest)
  /\ LET o == Commit(out, hdr, 200)
     IN  last' = [status |-> o.status, header |-> o.header, body |-> o.body,
                  req |-> req, zipped |-> gz # "off", calls |-> calls,
                  late |-> late, outcome |-> outcome, line |-> line]
  /\ miss' = IF page # NoPage /\ page.of = count THEN last' ELSE miss
  /\ UNCHANGED <<stack, policy, count, page>>

(* The entry runs out, or the program deletes it, between two requests. *)
Expire ==
  /\ pc = "idle"
  /\ page # NoPage
  /\ page' = NoPage /\ miss' = NoResponse /\ last' = NoResponse
  /\ UNCHANGED <<chain, pc, depth, wrap, hdr, out, told, count>>

----------------------------------------------------------------------------
Init ==
  /\ stack \in Stacks
  /\ policy \in Policies
  /\ Contains(stack, "cors") \/ policy = CHOOSE p \in Policies : TRUE
  /\ count = 0
  /\ req = NoRequest
  /\ pc = "idle" /\ depth = 0
  /\ writer = << >> /\ original = << >> /\ gz = "off"
  /\ hdr = NoHeader /\ out = Fresh
  /\ calls = 0 /\ late = FALSE /\ outcome = "none" /\ line = 0
  /\ page = NoPage
  /\ last = NoResponse /\ miss = NoResponse

WayIn == EnterCORS \/ Preflight \/ GuardAccepts \/ JWTRefuses \/ KeyRefuses
           \/ EnterLogger \/ EnterCompress \/ SkipCompress
           \/ CacheBypass \/ CacheMiss \/ CacheHit
Outcomes == {"ok", "err", "panic"}

Handler == (\E code \in Statuses : HandlerStatus(code)) \/ HandlerWrite
             \/ \E res \in Outcomes : HandlerEnd(res)
Stream == StreamBegin \/ StreamRefused \/ StreamWrite
            \/ \E res \in {"ok", "panic"} : StreamEnd(res)
WayOut == LeavePlain \/ LeaveLogger \/ LeaveCompress \/ LeaveCache
            \/ Return \/ HandleError \/ Recover \/ Finish

Next == (\E r \in Requests : Request(r)) \/ WayIn \/ Handler \/ Stream
          \/ WayOut \/ Expire

Spec == Init /\ [][Next]_vars

----------------------------------------------------------------------------
(* Properties. *)

Finished == pc = "idle" /\ last # NoResponse
Uses(mw) == Contains(stack, mw)
Guards == {"jwt", "key"}
Before(mw) == UNION {{stack[j] : j \in 1..i - 1} : i \in {i \in DOMAIN stack : stack[i] = mw}}

(* A client whose handler used its writer for nothing is told how the      *)
(* request ended, whatever middlewares there are around the handler: what  *)
(* a guard refuses is a 401, a preflight a 204.  Compress at work breaks   *)
(* this for errors and panics: its deferred Close answers 200 first.       *)
OutcomeTold ==
  Finished /\ last.calls = 0 /\ last.outcome # "cached"
    /\ ~(last.zipped /\ last.outcome \in {"err", "denied", "panic"}) =>
      CASE last.outcome = "ok" -> last.status = 200
        [] last.outcome \in {"err", "panic"} -> last.status = 500
        [] last.outcome \in {"refused", "denied"} -> last.status = 401
        [] last.outcome = "preflight" -> last.status = 204

(* What CORS has set, for an origin, when CachePage is entered inside it. *)
OwnValues(origin) ==
  IF "cors" \in Before("cache")
    THEN LET allow == AllowOrigin(policy, origin)
         IN  [vary |-> <<"Origin">>, encoding |-> << >>,
              allow |-> IF allow = "" THEN << >> ELSE <<allow>>]
    ELSE NoHeader

(* Without Compress, what CachePage replays is what the client of the miss *)
(* was sent: its status, its body, and each of its headers.  A CORS around *)
(* CachePage has then said its own first, so that Vary has two values, and *)
(* Access-Control-Allow-Origin one for this request's origin and one for   *)
(* that of the miss; a CORS inside has not, and only the latter is there.  *)
(* Only a handler that sets a second status gets that one cached, and may  *)
(* lose a body by it, or get one, if one of the two allows none.           *)
HitRepeatsMiss ==
  Finished /\ last.outcome = "cached" /\ ~Uses("compress") =>
    /\ last.status = miss.status \/ miss.late
    /\ \/ last.body = miss.body
       \/ miss.late /\ {last.status, miss.status} \cap Bodiless # {}
    /\ last.header =
         [f \in DOMAIN NoHeader |-> OwnValues(last.req.origin)[f] \o miss.header[f]]

(* Logger prints the status that the client was sent, unless the error     *)
(* handler decides it later or the handler sets a second one.              *)
LoggedAsSent ==
  Finished /\ last.line # 0 /\ last.outcome \notin {"err", "denied"} /\ ~last.late =>
    last.line = last.status

GzipStream(body) ==
  /\ body # << >>
  /\ \A i \in DOMAIN body :
       body[i].coding = IF i = Len(body) THEN "trailer" ELSE "gzip"

(* The client can read what it gets: the body is as Content-Encoding says, *)
(* one whole gzip stream, streamed or not, or none, and the client has     *)
(* asked for it, unless its status allows no body.  This takes a handler   *)
(* that succeeds under Compress, and Compress without CachePage.           *)
Decodable ==
  Finished /\ (last.zipped => last.outcome \in {"ok", "refused"})
    /\ ~(Uses("compress") /\ Uses("cache")) =>
      \/ last.header.encoding = << >>
           /\ \A i \in DOMAIN last.body : last.body[i].coding = "plain"
      \/ last.header.encoding = <<"gzip">> /\ last.req.gzip
           /\ IF last.status \in Bodiless THEN last.body = << >> ELSE GzipStream(last.body)

(* The handler runs only for requests that every guard accepts, and for no *)
(* preflight that CORS answers; a cached page is served only to those that *)
(* the guards before CachePage accept; and the page is always an answer of *)
(* the handler, to a request that every guard accepted, never a refusal.   *)
GuardsHold ==
  LET Guarded == \E g \in Guards : Uses(g)
  IN  /\ Handling \/ pc = "stream" =>
           (Guarded => req.known) /\ (Uses("cors") => ~req.preflight)
      /\ last.outcome = "cached" /\ Before("cache") \cap Guards # {} => last.req.known
      /\ pc = "idle" /\ page # NoPage =>
           miss.outcome = "ok" /\ (Guarded => miss.req.known)

(* Every answer but a cached one says what the policy of CORS says of the  *)
(* origin of its request, on the paths of errors, panics, refusals and     *)
(* preflights too, once CORS is reached; and Vary names Origin, unless     *)
(* Compress at work inside CORS has overwritten it.                        *)
OriginTold ==
  Finished /\ Uses("cors") /\ last.outcome # "cached"
    /\ (Before("cors") \cap Guards # {} => last.req.known) =>
      LET o == last.req.origin
      IN  /\ last.header.allow =
               IF policy = "any" THEN <<"*">>
               ELSE IF o = "" \/ (policy = "listed" /\ o \notin Listed) THEN << >>
               ELSE <<o>>
          /\ \/ Contains(last.header.vary, "Origin")
             \/ last.zipped /\ "compress" \notin Before("cors")

(* During a stream everything but the last write has reached the client,   *)
(* through Logger and Compress in any order, unless CachePage records it.  *)
StreamKeepsUp ==
  pc = "stream" /\ ~Contains(writer, "rec") => out.flushed + 1 >= Len(out.body)
=============================================================================
