--------------------------- MODULE PipelineProofs ---------------------------
(***************************************************************************)
(* The properties of Pipeline, proved for every set of orders in which the *)
(* middlewares may be used, any requests and any number of them, any       *)
(* policies, listed origins and statuses, and handlers of any length.      *)
(*                                                                         *)
(* The argument follows one request in and out.  Entered(i) says that the  *)
(* i-th middleware has been entered and not left, and Passed, Zipping,     *)
(* Wrapping, Origins and Varied say what the ones that are entered have    *)
(* done: a guard has accepted the request, CORS has set its header, a      *)
(* wrapper is in c.Writer exactly if it takes notes, Compress is open.     *)
(* Proper says what the response is before and after its headers are sent; *)
(* no step undoes that (Sends).  With these, Told, Noted, Logged, Recorded *)
(* and Coded carry the outcome, the notes of Logger and CachePage, and the *)
(* codings of the body to the end of the request, where Finish keeps them  *)
(* in last.  Making says what the page of this request is made of,         *)
(* PageOfMiss what it is of once the request is over, Replayed what a hit  *)
(* makes of it.                                                            *)
(*                                                                         *)
(* A step is first put in one of a few kinds (Deepen, Refuse, Call, ...);  *)
(* what WriteHeader, Write, Flush and the answers made of both do to a     *)
(* response is stated once (Headed, Written, Flushed, Replied, Closed).    *)
(***************************************************************************)
EXTENDS Pipeline, TLAPS

----------------------------------------------------------------------------
(* What the variables hold. *)
Middlewares == {"cors", "logger", "compress", "cache", "jwt", "key"}
Wrappers == {"log", "gz", "shut", "rec"}
Texts == {"Origin", "Accept-Encoding", "gzip", "*"} \cup {r.origin : r \in Requests}
Headers == [vary : Seq(Texts), encoding : Seq(Texts), allow : Seq(Texts)]
Pieces == [by : Nat, coding : {"plain", "gzip", "trailer"}]
Outs == [status : Nat, header : Headers, body : Seq(Pieces), flushed : Nat,
         logged : Nat, recorded : Nat, copy : Seq(Pieces)]
Pages == [status : Nat, header : Headers, body : Seq(Pieces), of : Nat]
Ends == {"ok", "err", "panic", "refused", "denied", "preflight", "cached"}
Responses == [status : Nat, header : Headers, body : Seq(Pieces), req : Requests,
              zipped : BOOLEAN, calls : Nat, late : BOOLEAN, outcome : Ends, line : Nat]

TypeOK ==
  /\ stack \in Seq(Middlewares) /\ \A i, j \in 1..Len(stack) : stack[i] = stack[j] => i = j
  /\ policy \in {"any", "credentials", "listed"}
  /\ count \in Nat /\ calls \in Nat /\ late \in BOOLEAN /\ line \in Nat
  /\ pc \in {"idle", "enter", "stream", "leave", "recover", "end"}
  /\ depth \in 0..Len(stack) + 1
  /\ writer \in Seq(Wrappers) /\ original \in Seq(Wrappers)
  /\ gz \in {"off", "open", "closed"}
  /\ hdr \in Headers /\ out \in Outs
  /\ outcome \in Ends \cup {"none"}
  /\ page \in Pages \cup {NoPage}
  /\ last \in Responses \cup {NoResponse}
  /\ miss \in Responses \cup {NoResponse}
  /\ pc # "idle" => req \in Requests

----------------------------------------------------------------------------
(* Where the request is. *)
Inside == pc \in {"enter", "stream"}
Serving == pc \in {"enter", "stream", "leave"}
Entered(i) == (Inside /\ i < depth) \/ (pc = "leave" /\ i <= depth)
Arriving == pc = "enter" /\ depth <= Len(stack)

Places ==
  /\ pc = "enter" => depth # 0
  /\ pc = "stream" => depth > Len(stack)
  /\ pc = "leave" => depth <= Len(stack)
  /\ pc = "recover" => outcome = "panic"
  /\ Inside => outcome = "none" /\ line = 0
  /\ pc = "recover" \/ (pc = "end" /\ outcome = "panic") => line = 0
  /\ pc \in {"leave", "end"} => outcome \in Ends
  /\ pc = "leave" => outcome # "panic"
  /\ Arriving => calls = 0
  /\ Inside /\ calls = 0 => ~late /\ out.status = 0

(* What the middlewares on the way have done. *)
Passed ==
  /\ \A i \in 1..Len(stack) : Entered(i) =>
       /\ stack[i] \in Guards => req.known
       /\ stack[i] = "cors" /\ Inside => ~req.preflight
       /\ stack[i] = "cache" /\ ~req.preflight => out.recorded # 0
  /\ page # NoPage => page.status # 0

Zipping ==
  /\ gz = "open" /\ Serving => \E i \in 1..Len(stack) : Entered(i) /\ stack[i] = "compress"
  /\ gz # "off" => req.gzip /\ Uses("compress") /\ pc # "idle"
                   /\ ~Contains(original, "gz") /\ ~Contains(original, "shut")
  /\ Inside => gz # "closed"
  /\ pc = "end" => gz # "open"
  /\ Inside /\ gz = "open" => Contains(writer, "gz")
  /\ pc # "end" => ~Contains(writer, "shut")
  /\ gz = "off" \/ (gz = "closed" /\ pc = "leave") => ~Contains(writer, "gz") /\ ~Contains(writer, "shut")

Wrapping ==
  Inside => /\ out.logged # 0 <=> Contains(writer, "log")
            /\ out.recorded # 0 <=> Contains(writer, "rec")

(* The response so far. *)
Proper(o, h) ==
  /\ o.status = 0 => o.body = << >> /\ o.copy = << >>
  /\ o.status \in Bodiless => o.body = << >>
  /\ o.status # 0 => o.header = h
Sent == Proper(out, hdr)
Final(o) == IF o.status = 0 THEN 200 ELSE o.status
Erred == outcome \in {"err", "denied", "panic"}

Tells(status) ==
  CASE outcome = "ok" -> status = 200
    [] outcome \in {"err", "panic"} -> status = 500
    [] outcome \in {"refused", "denied"} -> status = 401
    [] outcome = "preflight" -> status = 204

Told ==
  /\ pc \in {"leave", "recover"} /\ calls = 0 /\ Erred /\ gz = "off" => out.status = 0
  /\ pc = "leave" /\ calls = 0 /\ ~Erred /\ outcome # "cached" => Tells(Final(out))
  /\ pc = "end" /\ calls = 0 /\ outcome # "cached" /\ ~(gz # "off" /\ Erred) => Tells(Final(out))
  /\ pc \in {"leave", "end"} /\ outcome \in {"refused", "cached", "preflight"} => calls = 0 /\ ~late

(* What the wrappers have noted. *)
Noted ==
  Serving /\ ~late /\ ~Erred =>
    /\ out.logged # 0 => out.logged = Final(out)
    /\ out.recorded # 0 => out.recorded = Final(out)

Logged ==
  pc \in {"leave", "end"} /\ line # 0 /\ ~late /\ ~Erred => line = Final(out)

----------------------------------------------------------------------------
(* The page. *)
Made == page # NoPage /\ page.of = count

Mirrored(o) == o.body = IF o.status \in Bodiless THEN << >> ELSE o.copy
Recorded == Serving /\ out.recorded # 0 /\ ~Uses("compress") => Mirrored(out)

Guarded == \E g \in Guards : Uses(g)

(* The header on the way in, where Compress does not change it. *)
CORSValues ==
  [vary |-> <<"Origin">>, encoding |-> << >>,
   allow |-> IF AllowOrigin(policy, req.origin) = "" THEN << >>
             ELSE <<AllowOrigin(policy, req.origin)>>]
Varied ==
  Inside /\ ~Uses("compress") =>
    hdr = IF \E i \in 1..Len(stack) : i < depth /\ stack[i] = "cors" THEN CORSValues ELSE NoHeader

(* An answer of the handler. *)
Succeeded == pc \in {"leave", "end"} /\ outcome = "ok" /\ Guarded => req.known

Making ==
  pc # "idle" /\ Made =>
    /\ pc \in {"leave", "end"} /\ outcome = "ok"
    /\ page.status = Final(out) \/ late
    /\ page.header = hdr
    /\ ~Uses("compress") =>
         out.body = IF out.status \in Bodiless THEN << >> ELSE page.body

PageKept == page # NoPage => page.of <= count

PageOfMiss ==
  page # NoPage /\ (pc = "idle" \/ page.of # count) =>
    /\ miss.outcome = "ok" /\ (Guarded => miss.req.known)
    /\ page.status = miss.status \/ miss.late
    /\ page.header = miss.header
    /\ ~Uses("compress") =>
         miss.body = IF miss.status \in Bodiless THEN << >> ELSE page.body

Replayed ==
  pc \in {"leave", "end"} /\ outcome = "cached" =>
    /\ page # NoPage /\ page.of # count
    /\ Before("cache") \cap Guards # {} => req.known
    /\ out.status = page.status
    /\ ~Uses("compress") =>
         /\ out.body = IF page.status \in Bodiless THEN << >> ELSE page.body
         /\ hdr = [f \in DOMAIN NoHeader |-> OwnValues(req.origin)[f] \o page.header[f]]

(* The response last finished. *)
Kept ==
  last # NoResponse =>
    /\ pc = "idle"
    /\ last.outcome = "cached" /\ Before("cache") \cap Guards # {} => last.req.known

----------------------------------------------------------------------------
(* CORS and Compress. *)
Allowed ==
  IF policy = "any" THEN <<"*">>
  ELSE IF req.origin = "" \/ (policy = "listed" /\ req.origin \notin Listed) THEN << >>
  ELSE <<req.origin>>
OriginSet ==
  /\ hdr.allow = Allowed
  /\ Contains(hdr.vary, "Origin") \/ (gz # "off" /\ "compress" \notin Before("cors"))

Origins ==
  /\ Inside => \A i \in 1..Len(stack) : stack[i] = "cors" =>
       IF i < depth THEN OriginSet ELSE hdr.allow = << >>
  /\ pc \in {"leave", "recover", "end"} /\ Uses("cors") /\ outcome # "cached"
       /\ (Before("cors") \cap Guards # {} => req.known) => OriginSet

Of(coding, pieces) == \A i \in DOMAIN pieces : pieces[i].coding = coding
Whole(o) == IF o.status \in Bodiless THEN o.body = << >> ELSE GzipStream(o.body)

Alone == ~(Uses("compress") /\ Uses("cache"))
HeaderCoded == pc # "idle" => hdr.encoding = IF gz = "off" THEN << >> ELSE <<"gzip">>
BodyCoded ==
  /\ gz = "off" => Of("plain", out.body) /\ Of("plain", out.copy)
  /\ gz = "open" /\ Serving => Of("gzip", out.body)
  /\ gz = "closed" /\ (pc = "leave" \/ (pc = "end" /\ outcome \in {"ok", "refused"})) =>
       out.status # 0 /\ Whole(out)
PageCoded ==
  page # NoPage /\ ~Uses("compress") => page.header.encoding = << >> /\ Of("plain", page.body)
Coded == Alone => HeaderCoded /\ BodyCoded /\ PageCoded

----------------------------------------------------------------------------
(* Lists. *)

LEMMA AppendIs ==
  ASSUME NEW S, NEW s \in Seq(S), NEW e \in S
  PROVE  /\ Append(s, e) \in Seq(S) /\ Append(s, e) # << >>
         /\ Len(Append(s, e)) = Len(s) + 1
         /\ \A x : Contains(Append(s, e), x) <=> Contains(s, x) \/ x = e
         /\ ToSet(Append(s, e)) = ToSet(s) \cup {e}
<1>1. /\ Append(s, e) \in Seq(S) /\ Len(s) \in Nat /\ Len(Append(s, e)) = Len(s) + 1
      /\ \A i \in 1..Len(s) : Append(s, e)[i] = s[i]
      /\ Append(s, e)[Len(s) + 1] = e
  OBVIOUS
<1>2. ASSUME NEW x PROVE Contains(Append(s, e), x) <=> Contains(s, x) \/ x = e
  BY <1>1 DEF Contains
<1>3. ToSet(Append(s, e)) = ToSet(s) \cup {e}
  BY <1>1, <1>2 DEF ToSet, Contains
<1>4. Append(s, e) # << >>
  <2>1. Len(s) + 1 # 0 /\ Len(<< >>) = 0
    BY <1>1
  <2>2. QED
    BY <1>1, <2>1
<1>5. QED
  BY <1>1, <1>2, <1>3, <1>4

LEMMA ConcatIs ==
  ASSUME NEW S, NEW s \in Seq(S), NEW t \in Seq(S)
  PROVE  /\ s \o t \in Seq(S)
         /\ Len(s \o t) = Len(s) + Len(t)
         /\ \A i \in 1..Len(s) : (s \o t)[i] = s[i]
         /\ \A i \in 1..Len(t) : (s \o t)[Len(s) + i] = t[i]
         /\ \A i \in 1..Len(s \o t) :
              \/ i \in 1..Len(s) /\ (s \o t)[i] = s[i]
              \/ \E j \in 1..Len(t) : (s \o t)[i] = t[j]
         /\ ToSet(s \o t) = ToSet(s) \cup ToSet(t)
         /\ s = << >> => s \o t = t
         /\ t = << >> => s \o t = s
<1>1. /\ s \o t \in Seq(S) /\ Len(s) \in Nat /\ Len(t) \in Nat
      /\ Len(s \o t) = Len(s) + Len(t)
      /\ \A i \in 1..Len(s) : (s \o t)[i] = s[i]
      /\ \A i \in 1..Len(t) : (s \o t)[Len(s) + i] = t[i]
  OBVIOUS
<1>2. ASSUME NEW i \in 1..Len(s \o t)
      PROVE  \/ i \in 1..Len(s) /\ (s \o t)[i] = s[i]
             \/ \E j \in 1..Len(t) : (s \o t)[i] = t[j]
  <2>1. CASE i <= Len(s)
    BY <1>1, <2>1
  <2>2. CASE ~(i <= Len(s))
    <3>1. i - Len(s) \in 1..Len(t) /\ i = Len(s) + (i - Len(s))
      BY <1>1, <2>2
    <3>2. QED
      BY <1>1, <3>1
  <2>3. QED
    BY <2>1, <2>2
<1>3. ToSet(s \o t) = ToSet(s) \cup ToSet(t)
  <2>1. \A i \in 1..Len(s) : i \in 1..Len(s \o t)
    BY <1>1
  <2>2. \A i \in 1..Len(t) : Len(s) + i \in 1..Len(s \o t)
    BY <1>1
  <2>3. DOMAIN s = 1..Len(s) /\ DOMAIN t = 1..Len(t) /\ DOMAIN (s \o t) = 1..Len(s \o t)
    BY <1>1
  <2>4. ToSet(s) \cup ToSet(t) \subseteq ToSet(s \o t)
    BY <1>1, <2>1, <2>2, <2>3 DEF ToSet
  <2>5. ToSet(s \o t) \subseteq ToSet(s) \cup ToSet(t)
    BY <1>2, <2>3 DEF ToSet
  <2>6. QED
    BY <2>4, <2>5
<1>4. s = << >> => s \o t = t
  OBVIOUS
<1>5. t = << >> => s \o t = s
  OBVIOUS
<1>6. QED
  BY <1>1, <1>2, <1>3, <1>4, <1>5

LEMMA SetsAre ==
  ASSUME NEW S, NEW s \in Seq(S), NEW x
  PROVE  /\ x \in ToSet(s) <=> Contains(s, x)
         /\ Contains(s, x) => x \in S
BY DEF ToSet, Contains

LEMMA OneIs ==
  ASSUME NEW S, NEW e \in S
  PROVE  /\ <<e>> \in Seq(S) /\ Len(<<e>>) = 1
         /\ \A x : Contains(<<e>>, x) <=> x = e
         /\ ToSet(<<e>>) = {e}
BY DEF Contains, ToSet

LEMMA NoneIs ==
  /\ \A S : << >> \in Seq(S)
  /\ Len(<< >>) = 0 /\ ToSet(<< >>) = {} /\ \A x : ~Contains(<< >>, x)
BY DEF Contains, ToSet

----------------------------------------------------------------------------
(* The writers. *)

LEMMA CommitIs ==
  ASSUME NEW o \in Outs, NEW h \in Headers, NEW code \in Nat
  PROVE  /\ Commit(o, h, code) \in Outs
         /\ Commit(o, h, code).status = IF o.status = 0 THEN code ELSE o.status
         /\ Commit(o, h, code).header = IF o.status = 0 THEN h ELSE o.header
         /\ Commit(o, h, code).body = o.body
         /\ Commit(o, h, code).flushed = o.flushed
         /\ Commit(o, h, code).logged = o.logged
         /\ Commit(o, h, code).recorded = o.recorded
         /\ Commit(o, h, code).copy = o.copy
BY DEF Commit, Outs

(* What a WriteHeader makes of o. *)
Headed(x, o, w, h, code) ==
  /\ x \in Outs
  /\ x.status = IF o.status = 0 THEN code ELSE o.status
  /\ x.header = IF o.status = 0 THEN h ELSE o.header
  /\ x.body = o.body /\ x.copy = o.copy /\ x.flushed = o.flushed
  /\ x.logged = IF Contains(w, "log") THEN code ELSE o.logged
  /\ x.recorded = IF Contains(w, "rec") THEN code ELSE o.recorded

LEMMA WriteHeaderIs ==
  ASSUME NEW o \in Outs, NEW w, NEW h \in Headers, NEW code \in Nat
  PROVE  Headed(WriteHeader(o, w, h, code), o, w, h, code)
<1>. DEFINE c == Commit(o, h, code)
<1>1. /\ c \in Outs /\ c.status = IF o.status = 0 THEN code ELSE o.status
      /\ c.header = IF o.status = 0 THEN h ELSE o.header
      /\ c.body = o.body /\ c.flushed = o.flushed /\ c.logged = o.logged
      /\ c.recorded = o.recorded /\ c.copy = o.copy
  BY CommitIs
<1>2. WriteHeader(o, w, h, code) =
        [c EXCEPT !.logged = IF Contains(w, "log") THEN code ELSE @,
                  !.recorded = IF Contains(w, "rec") THEN code ELSE @]
  BY DEF WriteHeader
<1>. HIDE DEF c
<1>3. QED
  BY <1>1, <1>2 DEF Outs, Headed

LEMMA ThroughIs ==
  ASSUME NEW wrappers, NEW pieces \in Seq(Pieces)
  PROVE  /\ Through(wrappers, pieces) \in Seq(Pieces)
         /\ Len(Through(wrappers, pieces)) <= Len(pieces)
         /\ "gz" \notin wrappers /\ "shut" \notin wrappers => Through(wrappers, pieces) = pieces
         /\ "gz" \in wrappers => \A i \in 1..Len(Through(wrappers, pieces)) :
                                   Through(wrappers, pieces)[i].coding = "gzip"
<1>. DEFINE zip == [i \in DOMAIN pieces |->
                      IF "gz" \in wrappers THEN [by |-> pieces[i].by, coding |-> "gzip"]
                                           ELSE pieces[i]]
<1>1. DOMAIN pieces = 1..Len(pieces) /\ Len(pieces) \in Nat /\ \A i \in 1..Len(pieces) : pieces[i] \in Pieces
  OBVIOUS
<1>2. \A i \in 1..Len(pieces) : zip[i] \in Pieces
  BY <1>1 DEF Pieces
<1>3. zip \in Seq(Pieces) /\ Len(zip) = Len(pieces)
  BY <1>1, <1>2
<1>4. "gz" \notin wrappers => zip = pieces
  BY <1>1
<1>5. "gz" \in wrappers => \A i \in 1..Len(pieces) : zip[i].coding = "gzip"
  BY <1>1
<1>6. CASE "shut" \in wrappers
  <2>1. Through(wrappers, pieces) = << >>
    BY <1>6 DEF Through
  <2>2. QED
    BY <1>1, <1>6, <2>1
<1>7. CASE "shut" \notin wrappers
  <2>1. Through(wrappers, pieces) = zip
    BY <1>7 DEF Through
  <2>. HIDE DEF zip
  <2>2. QED
    BY <1>1, <1>3, <1>4, <1>5, <2>1
<1>8. QED
  BY <1>6, <1>7

(* What a Write makes of o. *)
Written(x, o, w, h, pieces) ==
  /\ x \in Outs
  /\ x.status = IF o.status = 0 /\ ~Contains(w, "shut") THEN 200 ELSE o.status
  /\ x.header = IF o.status = 0 /\ ~Contains(w, "shut") THEN h ELSE o.header
  /\ x.body = IF x.status \in Bodiless THEN o.body ELSE o.body \o Through(ToSet(w), pieces)
  /\ x.flushed = o.flushed /\ x.logged = o.logged /\ x.recorded = o.recorded
  /\ x.copy = IF Contains(w, "rec") THEN o.copy \o Through(Around(w, "rec"), pieces)
                                    ELSE o.copy

LEMMA WriteIs ==
  ASSUME NEW o \in Outs, NEW w, NEW h \in Headers, NEW pieces \in Seq(Pieces)
  PROVE  Written(Write(o, w, h, pieces), o, w, h, pieces)
<1>1. PICK c : c = IF Contains(w, "shut") THEN o ELSE Commit(o, h, 200)
  OBVIOUS
<1>2. /\ c \in Outs
      /\ c.status = IF o.status = 0 /\ ~Contains(w, "shut") THEN 200 ELSE o.status
      /\ c.header = IF o.status = 0 /\ ~Contains(w, "shut") THEN h ELSE o.header
      /\ c.body = o.body /\ c.flushed = o.flushed /\ c.logged = o.logged
      /\ c.recorded = o.recorded /\ c.copy = o.copy
  BY <1>1, CommitIs
<1>3. PICK sent : sent = Through(ToSet(w), pieces)
  OBVIOUS
<1>4. PICK kept : kept = Through(Around(w, "rec"), pieces)
  OBVIOUS
<1>5. sent \in Seq(Pieces) /\ kept \in Seq(Pieces)
  BY <1>3, <1>4, ThroughIs
<1>6. PICK x : x = Write(o, w, h, pieces)
  OBVIOUS
<1>7. x = [c EXCEPT !.body = IF c.status \in Bodiless THEN @ ELSE @ \o sent,
                    !.copy = IF Contains(w, "rec") THEN @ \o kept ELSE @]
  BY <1>1, <1>3, <1>4, <1>6 DEF Write
<1>8. c.body \o sent \in Seq(Pieces) /\ c.copy \o kept \in Seq(Pieces)
  BY <1>2, <1>5, ConcatIs DEF Outs
<1>9. /\ x \in Outs /\ x.status = c.status /\ x.header = c.header
      /\ x.body = IF c.status \in Bodiless THEN c.body ELSE c.body \o sent
      /\ x.flushed = c.flushed /\ x.logged = c.logged /\ x.recorded = c.recorded
      /\ x.copy = IF Contains(w, "rec") THEN c.copy \o kept ELSE c.copy
  BY <1>2, <1>7, <1>8 DEF Outs
<1>10. QED
  BY <1>2, <1>3, <1>4, <1>6, <1>9 DEF Written

LEMMA PlainIs ==
  ASSUME NEW n \in Nat
  PROVE  /\ Plain(n) \in Seq(Pieces) /\ Len(Plain(n)) = 1
         /\ Of("plain", Plain(n))
BY DEF Plain, Pieces, Of

LEMMA TrailerIs == Trailer \in Pieces /\ Trailer.coding = "trailer"
BY DEF Trailer, Pieces

(* What a Flush makes of o. *)
Flushed(x, o, w, h) ==
  /\ x \in Outs
  /\ \/ x.status = o.status /\ x.header = o.header
     \/ o.status = 0 /\ x.status = 200 /\ x.header = h
  /\ x.body = o.body /\ x.logged = o.logged /\ x.recorded = o.recorded /\ x.copy = o.copy
  /\ ~Contains(w, "rec") => x.flushed = Len(o.body)

LEMMA FlushIs ==
  ASSUME NEW o \in Outs, NEW w, NEW h \in Headers
  PROVE  Flushed(Flush(o, w, h), o, w, h)
<1>1. PICK c : c = Commit(o, h, 200)
  OBVIOUS
<1>2. /\ c \in Outs /\ c.status = IF o.status = 0 THEN 200 ELSE o.status
      /\ c.header = IF o.status = 0 THEN h ELSE o.header
      /\ c.body = o.body /\ c.logged = o.logged
      /\ c.recorded = o.recorded /\ c.copy = o.copy
  BY <1>1, CommitIs
<1>3. Len(o.body) \in Nat
  BY DEF Outs
<1>4. PICK f : f = [c EXCEPT !.flushed = Len(o.body)]
  OBVIOUS
<1>5. /\ f \in Outs /\ f.status = c.status /\ f.header = c.header
      /\ f.body = c.body /\ f.logged = c.logged /\ f.recorded = c.recorded /\ f.copy = c.copy
      /\ f.flushed = Len(o.body)
  BY <1>2, <1>3, <1>4 DEF Outs
<1>6. PICK x : x = Flush(o, w, h)
  OBVIOUS
<1>7. x = IF ~Contains(w, "rec") THEN f
          ELSE IF "gz" \in Around(w, "rec") THEN c ELSE o
  BY <1>1, <1>4, <1>6 DEF Flush
<1>8. QED
  BY <1>2, <1>5, <1>6, <1>7 DEF Flushed

(* What a Reply makes of o. *)
Replied(x, o, w, h, code) ==
  /\ x \in Outs
  /\ x.status = IF o.status = 0 THEN code ELSE o.status
  /\ x.header = IF o.status = 0 THEN h ELSE o.header
  /\ x.body = IF x.status \in Bodiless THEN o.body ELSE o.body \o Through(ToSet(w), Plain(0))
  /\ x.logged = IF Contains(w, "log") THEN code ELSE o.logged
  /\ x.recorded = IF Contains(w, "rec") THEN code ELSE o.recorded
  /\ x.copy = IF Contains(w, "rec") THEN o.copy \o Through(Around(w, "rec"), Plain(0))
                                    ELSE o.copy

LEMMA ReplyIs ==
  ASSUME NEW o \in Outs, NEW w, NEW h \in Headers, NEW code \in Nat, code # 0
  PROVE  Replied(Reply(o, w, h, code), o, w, h, code)
<1>1. PICK c : c = WriteHeader(o, w, h, code)
  OBVIOUS
<1>2. /\ c \in Outs /\ c.status = IF o.status = 0 THEN code ELSE o.status
      /\ c.header = IF o.status = 0 THEN h ELSE o.header
      /\ c.body = o.body /\ c.copy = o.copy
      /\ c.logged = IF Contains(w, "log") THEN code ELSE o.logged
      /\ c.recorded = IF Contains(w, "rec") THEN code ELSE o.recorded
  <2>1. Headed(c, o, w, h, code)
    BY <1>1, WriteHeaderIs
  <2>2. QED
    BY <2>1 DEF Headed
<1>3. c.status # 0 /\ c \in Outs
  BY <1>2
<1>4. Plain(0) \in Seq(Pieces)
  BY PlainIs
<1>5. PICK x : x = Write(c, w, h, Plain(0))
  OBVIOUS
<1>6. Written(x, c, w, h, Plain(0))
  BY <1>3, <1>4, <1>5, WriteIs
<1>7. Reply(o, w, h, code) = x
  BY <1>1, <1>5 DEF Reply
<1>8. QED
  BY <1>2, <1>3, <1>6, <1>7 DEF Written, Replied

(* What CloseGzip makes of o. *)
Closed(x, o) ==
  /\ x \in Outs
  /\ x.status = Final(o)
  /\ x.header = IF o.status = 0 THEN hdr ELSE o.header
  /\ x.body = IF o.status \in Bodiless THEN o.body ELSE Append(o.body, Trailer)
  /\ x.logged = o.logged /\ x.recorded = o.recorded

LEMMA CloseGzipIs ==
  ASSUME NEW o \in Outs, hdr \in Headers
  PROVE  Closed(CloseGzip(o), o)
<1>1. PICK c : c = Commit(o, hdr, 200)
  OBVIOUS
<1>2. /\ c \in Outs /\ c.status = IF o.status = 0 THEN 200 ELSE o.status
      /\ c.header = IF o.status = 0 THEN hdr ELSE o.header
      /\ c.body = o.body /\ c.logged = o.logged
      /\ c.recorded = o.recorded /\ c.copy = o.copy
  BY <1>1, CommitIs
<1>3. Append(o.body, Trailer) \in Seq(Pieces) /\ Append(o.copy, Trailer) \in Seq(Pieces)
  BY TrailerIs, AppendIs DEF Outs
<1>4. PICK x : x = CloseGzip(o)
  OBVIOUS
<1>5. x = [c EXCEPT !.body = IF o.status \in Bodiless THEN @ ELSE Append(@, Trailer),
                    !.copy = IF Contains(original, "rec") THEN Append(@, Trailer) ELSE @]
  BY <1>1, <1>4 DEF CloseGzip
<1>6. /\ x \in Outs /\ x.status = c.status /\ x.header = c.header
      /\ x.body = IF o.status \in Bodiless THEN c.body ELSE Append(c.body, Trailer)
      /\ x.logged = c.logged /\ x.recorded = c.recorded
  BY <1>2, <1>3, <1>5 DEF Outs
<1>7. QED
  BY <1>2, <1>4, <1>6 DEF Final, Closed

----------------------------------------------------------------------------
(* The headers. *)

LEMMA CORSHeadersAre ==
  ASSUME TypeOK, req \in Requests
  PROVE  /\ CORSHeaders \in Headers
         /\ CORSHeaders.vary = Append(hdr.vary, "Origin")
         /\ CORSHeaders.encoding = hdr.encoding
         /\ CORSHeaders.allow = IF AllowOrigin(policy, req.origin) = "" THEN hdr.allow
                                ELSE <<AllowOrigin(policy, req.origin)>>
<1>1. AllowOrigin(policy, req.origin) \in Texts \cup {""}
  <2>1. req.origin \in Texts /\ "*" \in Texts
    BY DEF Texts
  <2>2. policy \in {"any", "credentials", "listed"}
    BY DEF TypeOK
  <2>3. QED
    BY <2>1, <2>2 DEF AllowOrigin
<1>2. PICK a \in Texts \cup {""} : a = AllowOrigin(policy, req.origin)
  BY <1>1
<1>3. hdr \in Headers /\ hdr.vary \in Seq(Texts) /\ hdr.allow \in Seq(Texts) /\ (a # "" => <<a>> \in Seq(Texts))
  <2>1. a # "" => <<a>> \in Seq(Texts)
    BY <1>2, OneIs
  <2>2. QED
    BY <2>1 DEF TypeOK, Headers
<1>4. Append(hdr.vary, "Origin") \in Seq(Texts)
  <2>1. "Origin" \in Texts
    BY DEF Texts
  <2>2. QED
    BY <1>3, <2>1, AppendIs
<1>5. CORSHeaders = [hdr EXCEPT !.vary = Append(@, "Origin"), !.allow = IF a = "" THEN @ ELSE <<a>>]
  BY <1>2 DEF CORSHeaders
<1>6. PICK v : v = Append(hdr.vary, "Origin")
  OBVIOUS
<1>7. PICK w : w = IF a = "" THEN hdr.allow ELSE <<a>>
  OBVIOUS
<1>8. v \in Seq(Texts) /\ w \in Seq(Texts) /\ CORSHeaders = [hdr EXCEPT !.vary = v, !.allow = w]
  BY <1>3, <1>4, <1>5, <1>6, <1>7
<1>9. /\ CORSHeaders \in Headers /\ CORSHeaders.vary = v
      /\ CORSHeaders.encoding = hdr.encoding /\ CORSHeaders.allow = w
  BY <1>3, <1>8 DEF Headers
<1>10. QED
  BY <1>2, <1>6, <1>7, <1>9

(* The headers of a page added to those that are there. *)
Joined(h, k) == [f \in DOMAIN h |-> h[f] \o k[f]]

LEMMA JoinedAre ==
  ASSUME NEW h \in Headers, NEW k \in Headers
  PROVE  /\ Joined(h, k) \in Headers
         /\ Joined(h, k).vary = h.vary \o k.vary
         /\ Joined(h, k).encoding = h.encoding \o k.encoding
         /\ Joined(h, k).allow = h.allow \o k.allow
<1>1. DOMAIN h = {"vary", "encoding", "allow"}
  BY DEF Headers
<1>2. /\ h.vary \in Seq(Texts) /\ h.encoding \in Seq(Texts) /\ h.allow \in Seq(Texts)
      /\ k.vary \in Seq(Texts) /\ k.encoding \in Seq(Texts) /\ k.allow \in Seq(Texts)
  BY DEF Headers
<1>3. PICK a, b, c : a = h.vary \o k.vary /\ b = h.encoding \o k.encoding /\ c = h.allow \o k.allow
  OBVIOUS
<1>4. a \in Seq(Texts) /\ b \in Seq(Texts) /\ c \in Seq(Texts)
  BY <1>2, <1>3, ConcatIs
<1>5. Joined(h, k) = [f \in {"vary", "encoding", "allow"} |-> h[f] \o k[f]]
  BY <1>1 DEF Joined
<1>6. Joined(h, k).vary = a /\ Joined(h, k).encoding = b /\ Joined(h, k).allow = c
  BY <1>3, <1>5
<1>7. Joined(h, k) \in Headers
  BY <1>4, <1>5, <1>6 DEF Headers
<1>8. QED
  BY <1>3, <1>6, <1>7

LEMMA NoHeaderIs == NoHeader \in Headers
BY DEF NoHeader, Headers

LEMMA FreshIs ==
  /\ Fresh \in Outs /\ Fresh.status = 0 /\ Fresh.header = NoHeader /\ Fresh.body = << >>
  /\ Fresh.logged = 0 /\ Fresh.recorded = 0 /\ Fresh.copy = << >> /\ Fresh.flushed = 0
BY NoHeaderIs DEF Fresh, Outs, NoHeader

LEMMA NoResponseIs == NoResponse \notin Responses /\ NoResponse.outcome = "none"
BY DEF NoResponse, Responses, Ends

----------------------------------------------------------------------------
(* What the steps make of the response. *)

LEMMA Typed ==
  ASSUME TypeOK
  PROVE  /\ out \in Outs /\ hdr \in Headers /\ count \in Nat
         /\ pc # "idle" => req \in Requests
         /\ page # NoPage => page.status \in Nat /\ page.header \in Headers
                             /\ page.body \in Seq(Pieces) /\ page.of \in Nat
BY DEF TypeOK, Pages

LEMMA PreflightSends ==
  ASSUME TypeOK, Preflight
  PROVE  hdr' \in Headers /\ hdr' = CORSHeaders /\ Headed(out', out, writer, hdr', 204)
<1>1. pc = "enter" /\ hdr' = CORSHeaders /\ out' = WriteHeader(out, writer, hdr', 204)
  BY DEF Preflight, Entering
<1>2. CORSHeaders \in Headers
  BY <1>1, CORSHeadersAre, Typed
<1>3. QED
  BY <1>1, <1>2, Typed, WriteHeaderIs

LEMMA JWTSends ==
  ASSUME TypeOK, JWTRefuses
  PROVE  Replied(out', out, writer, hdr, 401)
BY Typed, ReplyIs DEF JWTRefuses

LEMMA HitSends ==
  ASSUME TypeOK, CacheHit
  PROVE  /\ page # NoPage /\ page.body \in Seq(Pieces) /\ page.header \in Headers
         /\ hdr' \in Headers
         /\ hdr'.vary = hdr.vary \o page.header.vary
         /\ hdr'.encoding = hdr.encoding \o page.header.encoding
         /\ \E o : /\ Headed(o, out, writer, hdr', page.status)
                   /\ Written(out', o, writer, hdr', page.body)
<1>1. /\ page # NoPage
      /\ hdr' = Joined(hdr, page.header)
      /\ out' = Write(WriteHeader(out, writer, hdr', page.status), writer, hdr', page.body)
  BY DEF CacheHit, Joined
<1>2. /\ out \in Outs /\ hdr \in Headers
      /\ page.status \in Nat /\ page.header \in Headers /\ page.body \in Seq(Pieces)
  BY <1>1, Typed
<1>3. /\ hdr' \in Headers
      /\ hdr'.vary = hdr.vary \o page.header.vary
      /\ hdr'.encoding = hdr.encoding \o page.header.encoding
  BY <1>1, <1>2, JoinedAre
<1>4. PICK o : o = WriteHeader(out, writer, hdr', page.status)
  OBVIOUS
<1>5. Headed(o, out, writer, hdr', page.status)
  BY <1>2, <1>3, <1>4, WriteHeaderIs
<1>6. o \in Outs
  BY <1>5 DEF Headed
<1>7. Written(out', o, writer, hdr', page.body)
  BY <1>1, <1>2, <1>3, <1>4, <1>6, WriteIs
<1>8. QED
  BY <1>1, <1>2, <1>3, <1>5, <1>7

LEMMA LoggerNotes ==
  ASSUME TypeOK, EnterLogger
  PROVE  /\ out' \in Outs /\ out'.logged = 200
         /\ out'.status = out.status /\ out'.header = out.header /\ out'.body = out.body
         /\ out'.flushed = out.flushed /\ out'.recorded = out.recorded /\ out'.copy = out.copy
<1>1. out \in Outs /\ out' = [out EXCEPT !.logged = 200]
  BY Typed DEF EnterLogger
<1>2. QED
  BY <1>1 DEF Outs

LEMMA MissNotes ==
  ASSUME TypeOK, CacheMiss
  PROVE  /\ out' \in Outs /\ out'.recorded = 200
         /\ out'.status = out.status /\ out'.header = out.header /\ out'.body = out.body
         /\ out'.flushed = out.flushed /\ out'.logged = out.logged /\ out'.copy = out.copy
<1>1. out \in Outs /\ out' = [out EXCEPT !.recorded = 200]
  BY Typed DEF CacheMiss
<1>2. QED
  BY <1>1 DEF Outs

LEMMA StatusSends ==
  ASSUME TypeOK, NEW code \in Statuses, HandlerStatus(code)
  PROVE  code \in Nat /\ code >= 200 /\ code # 0 /\ Headed(out', out, writer, hdr, code)
<1>1. code \in Nat /\ code >= 200
  BY BoundsAreNumbers, StatusesAreFinal
<1>2. out' = WriteHeader(out, writer, hdr, code)
  BY DEF HandlerStatus
<1>3. Headed(out', out, writer, hdr, code)
  BY <1>1, <1>2, Typed, WriteHeaderIs
<1>4. QED
  BY <1>1, <1>3

LEMMA WriteSends ==
  ASSUME TypeOK, HandlerWrite
  PROVE  Written(out', out, writer, hdr, Plain(count))
BY Typed, PlainIs, WriteIs DEF HandlerWrite

LEMMA StreamSends ==
  ASSUME TypeOK, StreamWrite
  PROVE  \E o : Flushed(o, out, writer, hdr) /\ Written(out', o, writer, hdr, Plain(count))
<1>1. PICK o : o = Flush(out, writer, hdr)
  OBVIOUS
<1>2. out' = Write(o, writer, hdr, Plain(count))
  BY <1>1 DEF StreamWrite
<1>3. Flushed(o, out, writer, hdr)
  BY <1>1, Typed, FlushIs
<1>4. o \in Outs
  BY <1>3 DEF Flushed
<1>5. Written(out', o, writer, hdr, Plain(count))
  BY <1>2, <1>4, Typed, PlainIs, WriteIs
<1>6. QED
  BY <1>3, <1>5

LEMMA CompressCloses ==
  ASSUME TypeOK, LeaveCompress
  PROVE  \/ gz = "open" /\ writer' = original /\ gz' = "closed" /\ Closed(out', out)
         \/ gz = "off" /\ UNCHANGED <<writer, gz, out>>
BY Typed, CloseGzipIs DEF LeaveCompress

(* The status that the error handler gives an error. *)
ErrorCode == IF outcome = "denied" THEN 401 ELSE 500

LEMMA ErrorSends ==
  ASSUME TypeOK, HandleError
  PROVE  Replied(out', out, writer, hdr, ErrorCode)
<1>1. ErrorCode \in Nat /\ ErrorCode # 0
  BY DEF ErrorCode
<1>2. out' = Reply(out, writer, hdr, ErrorCode)
  BY DEF HandleError, Answered, ErrorCode
<1>3. QED
  BY <1>1, <1>2, Typed, ReplyIs

LEMMA RecoverSends ==
  ASSUME TypeOK, Recover
  PROVE  \E o : /\ IF gz = "open" THEN Closed(o, out) ELSE o = out
                /\ Replied(out', o, writer', hdr, 500)
<1>1. PICK o : o = IF gz = "open" THEN CloseGzip(out) ELSE out
  OBVIOUS
<1>2. IF gz = "open" THEN Closed(o, out) ELSE o = out
  BY <1>1, Typed, CloseGzipIs
<1>3. o \in Outs
  BY <1>2, Typed DEF Closed
<1>4. out' = Reply(o, writer', hdr, 500)
  BY <1>1 DEF Recover, Answered
<1>5. Replied(out', o, writer', hdr, 500)
  BY <1>3, <1>4, Typed, ReplyIs
<1>6. QED
  BY <1>2, <1>5

LEMMA FinishKeeps ==
  ASSUME TypeOK, Finish
  PROVE  /\ last' = [status |-> last'.status, header |-> last'.header, body |-> out.body,
                     req |-> req, zipped |-> gz # "off", calls |-> calls,
                     late |-> late, outcome |-> outcome, line |-> line]
         /\ last'.status = Final(out)
         /\ last'.header = IF out.status = 0 THEN hdr ELSE out.header
         /\ last'.status \in Nat /\ last'.header \in Headers
<1>1. PICK o : o = Commit(out, hdr, 200)
  OBVIOUS
<1>2. /\ o \in Outs /\ o.status = Final(out) /\ o.body = out.body
      /\ o.header = IF out.status = 0 THEN hdr ELSE out.header
  <2>1. /\ o \in Outs /\ o.status = (IF out.status = 0 THEN 200 ELSE out.status) /\ o.body = out.body
        /\ o.header = IF out.status = 0 THEN hdr ELSE out.header
    BY <1>1, Typed, CommitIs
  <2>2. QED
    BY <2>1 DEF Final
<1>3. last' = [status |-> o.status, header |-> o.header, body |-> o.body,
               req |-> req, zipped |-> gz # "off", calls |-> calls,
               late |-> late, outcome |-> outcome, line |-> line]
  BY <1>1 DEF Finish
<1>4. last'.status = o.status /\ last'.header = o.header
  BY <1>3
<1>5. o.status \in Nat /\ o.header \in Headers
  BY <1>2 DEF Outs
<1>6. QED
  BY <1>2, <1>3, <1>4, <1>5

----------------------------------------------------------------------------
(* The kinds of steps. *)

Deepen == EnterCORS \/ GuardAccepts \/ EnterLogger \/ EnterCompress \/ SkipCompress
            \/ CacheBypass \/ CacheMiss
Refuse == Preflight \/ JWTRefuses \/ KeyRefuses \/ CacheHit
Call == (\E code \in Statuses : HandlerStatus(code)) \/ HandlerWrite \/ StreamWrite
Stop == StreamRefused \/ (\E res \in Outcomes : HandlerEnd(res))
          \/ (\E res \in {"ok", "panic"} : StreamEnd(res))
LeaveOne == LeavePlain \/ LeaveLogger \/ LeaveCompress \/ LeaveCache
Answer == Return \/ HandleError \/ Recover

LEMMA Steps ==
  ASSUME [Next]_vars
  PROVE  \/ \E r \in Requests : Request(r)
         \/ Deepen \/ Refuse \/ Call \/ StreamBegin \/ Stop \/ LeaveOne \/ Answer
         \/ Finish \/ Expire \/ UNCHANGED vars
BY DEF Next, WayIn, Handler, Stream, WayOut, Deepen, Refuse, Call, Stop, LeaveOne, Answer

Rest == UNCHANGED <<stack, policy, count, last, miss>>

LEMMA RequestIs ==
  ASSUME NEW r \in Requests, Request(r)
  PROVE  /\ pc = "idle" /\ pc' = "enter" /\ depth' = 1 /\ req' = r /\ count' = count + 1
         /\ writer' = << >> /\ original' = << >> /\ gz' = "off" /\ hdr' = NoHeader /\ out' = Fresh
         /\ calls' = 0 /\ late' = FALSE /\ outcome' = "none" /\ line' = 0
         /\ last' = NoResponse /\ UNCHANGED <<stack, policy, page, miss>>
BY DEF Request, Local

LEMMA DeepenIs ==
  ASSUME Deepen
  PROVE  /\ pc = "enter" /\ depth <= Len(stack) /\ pc' = "enter" /\ depth' = depth + 1
         /\ Rest /\ UNCHANGED <<req, calls, late, outcome, line, page>>
BY DEF Deepen, EnterCORS, GuardAccepts, EnterLogger, EnterCompress, SkipCompress, CacheBypass, CacheMiss,
       Entering, Deeper, Rest, chain, told, past

LEMMA RefuseIs ==
  ASSUME Refuse
  PROVE  /\ pc = "enter" /\ depth <= Len(stack) /\ pc' = "leave" /\ depth' = depth - 1
         /\ Rest /\ UNCHANGED <<req, writer, original, gz, calls, late, line, page>>
         /\ outcome' \in {"err", "preflight", "refused", "denied", "cached"}
BY DEF Refuse, Preflight, JWTRefuses, KeyRefuses, CacheHit, Entering, Ended, Rest, chain, wrap, past

LEMMA CallIs ==
  ASSUME Call, Places
  PROVE  /\ Inside /\ depth > Len(stack) /\ calls' = calls + 1
         /\ Rest /\ UNCHANGED <<req, pc, depth, writer, original, gz, hdr, outcome, line, page>>
BY DEF Call, HandlerStatus, HandlerWrite, StreamWrite, Calling, Handling, Inside, Places,
       Rest, chain, wrap, past

LEMMA StreamBeginIs ==
  ASSUME StreamBegin
  PROVE  /\ pc = "enter" /\ depth > Len(stack) /\ pc' = "stream" /\ calls = 0
         /\ Rest /\ UNCHANGED <<req, depth, writer, original, gz, hdr, out, calls, late, outcome, line, page>>
BY DEF StreamBegin, Handling, Rest, chain, wrap, told, past

LEMMA StopIs ==
  ASSUME Stop, Places
  PROVE  /\ Inside /\ depth > Len(stack) /\ depth' = Len(stack)
         /\ \/ outcome' = "panic" /\ pc' = "recover"
            \/ outcome' \in {"ok", "err"} /\ pc' = "leave"
         /\ Rest /\ UNCHANGED <<req, writer, original, gz, hdr, out, calls, late, line, page>>
<1>1. ASSUME NEW res \in Outcomes, HandlerEnd(res) \/ StreamEnd(res)
      PROVE  /\ Inside /\ depth > Len(stack) /\ depth' = Len(stack)
             /\ outcome' = res /\ pc' = IF res = "panic" THEN "recover" ELSE "leave"
             /\ Rest /\ UNCHANGED <<req, writer, original, gz, hdr, out, calls, late, line, page>>
  BY <1>1 DEF HandlerEnd, StreamEnd, Handling, Inside, Places, Rest, chain, wrap, past
<1>2. \E res \in Outcomes : HandlerEnd(res) \/ StreamEnd(res)
  BY DEF Stop, StreamRefused, Outcomes
<1>3. QED
  BY <1>1, <1>2 DEF Outcomes

LEMMA LeaveIs ==
  ASSUME LeaveOne
  PROVE  /\ pc = "leave" /\ depth > 0 /\ pc' = "leave" /\ depth' = depth - 1
         /\ Rest /\ UNCHANGED <<req, original, hdr, calls, late, outcome>>
BY DEF LeaveOne, LeavePlain, LeaveLogger, LeaveCompress, LeaveCache, Leaving, Rest, chain

LEMMA AnswerIs ==
  ASSUME Answer
  PROVE  /\ \/ pc = "leave" /\ depth = 0 /\ UNCHANGED <<writer, gz>>
            \/ pc = "recover" /\ gz' = IF gz = "open" THEN "closed" ELSE gz
         /\ pc' = "end"
         /\ Rest /\ UNCHANGED <<req, depth, original, hdr, calls, late, outcome, line, page>>
BY DEF Answer, Return, HandleError, Recover, Answered, Rest, chain, told, past

LEMMA FinishIs ==
  ASSUME Finish
  PROVE  /\ pc = "end" /\ pc' = "idle" /\ depth' = 0 /\ req' = NoRequest
         /\ writer' = << >> /\ original' = << >> /\ gz' = "off" /\ hdr' = NoHeader /\ out' = Fresh
         /\ calls' = 0 /\ late' = FALSE /\ outcome' = "none" /\ line' = 0
         /\ miss' = IF Made THEN last' ELSE miss
         /\ UNCHANGED <<stack, policy, count, page>>
BY DEF Finish, Local, Made

LEMMA ExpireIs ==
  ASSUME Expire
  PROVE  /\ pc = "idle" /\ page' = NoPage /\ miss' = NoResponse /\ last' = NoResponse
         /\ UNCHANGED <<stack, policy, req, pc, depth, writer, original, gz, hdr, out,
                        calls, late, outcome, line, count>>
BY DEF Expire, chain, wrap, told

(* What changes the response on each kind of step. *)
LEMMA DeepenOut ==
  ASSUME TypeOK, Deepen
  PROVE  /\ out' \in Outs
         /\ out'.status = out.status /\ out'.header = out.header /\ out'.body = out.body
         /\ out'.flushed = out.flushed /\ out'.copy = out.copy
<1>1. UNCHANGED out \/ EnterLogger \/ CacheMiss
  BY DEF Deepen, EnterCORS, GuardAccepts, EnterCompress, SkipCompress, CacheBypass
<1>2. QED
  BY <1>1, Typed, LoggerNotes, MissNotes

----------------------------------------------------------------------------
(* Types. *)

LEMMA TypeInit == Init => TypeOK
<1>1. SUFFICES ASSUME Init PROVE TypeOK
  OBVIOUS
<1>2. stack \in Seq(Middlewares) /\ \A i, j \in 1..Len(stack) : stack[i] = stack[j] => i = j
  BY <1>1, StacksAreOrders DEF Init, Middlewares
<1>3. policy \in {"any", "credentials", "listed"}
  BY <1>1, PoliciesAreKnown DEF Init
<1>4. Len(stack) \in Nat
  BY <1>2
<1>5. << >> \in Seq(Wrappers)
  BY NoneIs
<1>6. Fresh \in Outs /\ NoHeader \in Headers /\ 0 \in Nat /\ 0 \in 0..Len(stack) + 1
  BY <1>4, NoHeaderIs, FreshIs
<1>7. QED
  BY <1>1, <1>2, <1>3, <1>5, <1>6 DEF Init, TypeOK

LEMMA TypeNext == TypeOK /\ Places /\ [Next]_vars => TypeOK'
<1>1. SUFFICES ASSUME TypeOK, Places, [Next]_vars PROVE TypeOK'
  OBVIOUS
<1>2. Len(stack) \in Nat /\ depth \in 0..Len(stack) + 1
  BY <1>1 DEF TypeOK
<1>3. << >> \in Seq(Wrappers) /\ \A x \in Wrappers : Append(writer, x) \in Seq(Wrappers)
  BY <1>1, NoneIs, AppendIs DEF TypeOK
<1>4. ASSUME NEW r \in Requests, Request(r) PROVE TypeOK'
  <2>1. /\ count + 1 \in Nat /\ 0 \in Nat /\ 1 \in 0..Len(stack) + 1
        /\ Fresh \in Outs /\ NoHeader \in Headers
    BY <1>1, <1>2, NoHeaderIs, FreshIs DEF TypeOK
  <2>2. QED
    BY <1>1, <1>3, <1>4, <2>1, RequestIs DEF TypeOK
<1>5. CASE Deepen
  <2>1. depth' \in 0..Len(stack) + 1
    BY <1>2, <1>5, DeepenIs
  <2>2. hdr' \in Headers
    <3>1. CASE EnterCORS
      BY <1>1, <3>1, CORSHeadersAre, Typed DEF EnterCORS, Entering
    <3>2. CASE EnterCompress
      <4>1. <<"Accept-Encoding">> \in Seq(Texts) /\ <<"gzip">> \in Seq(Texts)
        <5>1. "Accept-Encoding" \in Texts /\ "gzip" \in Texts
          BY DEF Texts
        <5>2. QED
          BY <5>1, OneIs
      <4>2. QED
        BY <1>1, <3>2, <4>1 DEF EnterCompress, TypeOK, Headers
    <3>3. CASE ~EnterCORS /\ ~EnterCompress
      BY <1>1, <1>5, <3>3
      DEF Deepen, GuardAccepts, EnterLogger, SkipCompress, CacheBypass, CacheMiss, TypeOK
    <3>4. QED
      BY <3>1, <3>2, <3>3
  <2>3. /\ writer' \in Seq(Wrappers) /\ original' \in Seq(Wrappers)
        /\ gz' \in {"off", "open", "closed"}
    BY <1>1, <1>3, <1>5
    DEF Deepen, EnterCORS, GuardAccepts, EnterLogger, EnterCompress, SkipCompress, CacheBypass,
        CacheMiss, TypeOK, wrap, Wrappers
  <2>4. out' \in Outs
    BY <1>1, <1>5, DeepenOut
  <2>5. QED
    BY <1>1, <1>5, DeepenIs, <2>1, <2>2, <2>3, <2>4 DEF TypeOK, Rest
<1>6. CASE Refuse
  <2>1. depth' \in 0..Len(stack) + 1
    BY <1>1, <1>2, <1>6, RefuseIs DEF Places
  <2>2. hdr' \in Headers /\ out' \in Outs
    <3>1. CASE Preflight
      BY <1>1, <3>1, PreflightSends DEF Headed
    <3>2. CASE JWTRefuses
      BY <1>1, <3>2, JWTSends, Typed DEF Replied, JWTRefuses
    <3>3. CASE KeyRefuses
      BY <1>1, <3>3, Typed DEF KeyRefuses
    <3>4. CASE CacheHit
      BY <1>1, <3>4, HitSends DEF Written
    <3>5. QED
      BY <1>6, <3>1, <3>2, <3>3, <3>4 DEF Refuse
  <2>3. QED
    BY <1>1, <1>6, RefuseIs, <2>1, <2>2 DEF TypeOK, Rest, Ends
<1>7. CASE Call
  <2>1. out' \in Outs /\ late' \in BOOLEAN
    <3>1. ASSUME NEW code \in Statuses, HandlerStatus(code) PROVE out' \in Outs /\ late' \in BOOLEAN
      BY <1>1, <3>1, StatusSends DEF Headed, HandlerStatus
    <3>2. CASE HandlerWrite
      BY <1>1, <3>2, WriteSends DEF Written, HandlerWrite, TypeOK
    <3>3. CASE StreamWrite
      BY <1>1, <3>3, StreamSends DEF Written, StreamWrite, TypeOK
    <3>4. QED
      BY <1>7, <3>1, <3>2, <3>3 DEF Call
  <2>2. calls' \in Nat
    BY <1>1, <1>7, CallIs DEF TypeOK
  <2>3. QED
    BY <1>1, <1>7, CallIs, <2>1, <2>2 DEF TypeOK, Rest
<1>8. CASE StreamBegin
  BY <1>1, <1>8, StreamBeginIs DEF TypeOK, Rest
<1>9. CASE Stop
  <2>1. depth' \in 0..Len(stack) + 1
    BY <1>1, <1>2, <1>9, StopIs
  <2>2. /\ pc' \in {"idle", "enter", "stream", "leave", "recover", "end"}
        /\ outcome' \in Ends \cup {"none"} /\ pc # "idle"
    BY <1>1, <1>9, StopIs DEF Ends, Inside
  <2>3. QED
    BY <1>1, <1>9, <2>1, <2>2, StopIs DEF TypeOK, Rest
<1>10. CASE LeaveOne
  <2>1. depth' \in 0..Len(stack) + 1
    BY <1>2, <1>10, LeaveIs
  <2>2. out' \in Outs /\ writer' \in Seq(Wrappers) /\ gz' \in {"off", "open", "closed"}
    <3>1. CASE LeaveCompress
      BY <1>1, <3>1, CompressCloses DEF Closed, TypeOK
    <3>2. CASE ~LeaveCompress
      BY <1>1, <1>10, <3>2 DEF LeaveOne, LeavePlain, LeaveLogger, LeaveCache, TypeOK
    <3>3. QED
      BY <3>1, <3>2
  <2>3. line' \in Nat
    BY <1>1, <1>10 DEF LeaveOne, LeavePlain, LeaveLogger, LeaveCompress, LeaveCache, TypeOK, Outs
  <2>4. page' \in Pages \cup {NoPage}
    <3>1. CASE LeaveCache
      BY <1>1, <3>1 DEF LeaveCache, TypeOK, Outs, Pages
    <3>2. CASE ~LeaveCache
      BY <1>1, <1>10, <3>2 DEF LeaveOne, LeavePlain, LeaveLogger, LeaveCompress, TypeOK
    <3>3. QED
      BY <3>1, <3>2
  <2>5. QED
    BY <1>1, <1>10, LeaveIs, <2>1, <2>2, <2>3, <2>4 DEF TypeOK, Rest
<1>11. CASE Answer
  <2>1. out' \in Outs
    <3>1. CASE Return
      BY <1>1, <3>1 DEF Return, Answered, TypeOK
    <3>2. CASE HandleError
      BY <1>1, <3>2, ErrorSends DEF Replied
    <3>3. CASE Recover
      BY <1>1, <3>3, RecoverSends DEF Replied
    <3>4. QED
      BY <1>11, <3>1, <3>2, <3>3 DEF Answer
  <2>2. writer' \in Seq(Wrappers)
    <3>1. CASE Recover
      <4>1. writer' = [i \in 1..Len(writer) |-> IF writer[i] = "gz" THEN "shut" ELSE writer[i]]
        BY <1>1, <3>1 DEF Recover, TypeOK
      <4>2. Len(writer) \in Nat /\ \A i \in 1..Len(writer) : writer[i] \in Wrappers
        BY <1>1 DEF TypeOK
      <4>3. QED
        BY <4>1, <4>2 DEF Wrappers
    <3>2. CASE ~Recover
      BY <1>1, <1>11, <3>2 DEF Answer, Return, HandleError, TypeOK
    <3>3. QED
      BY <3>1, <3>2
  <2>3. QED
    BY <1>1, <1>11, AnswerIs, <2>1, <2>2 DEF TypeOK, Rest
<1>12. CASE Finish
  <2>1. last' \in Responses
    <3>1. req \in Requests /\ outcome \in Ends /\ out.body \in Seq(Pieces)
      BY <1>1, <1>12, FinishIs DEF TypeOK, Places, Outs
    <3>2. calls \in Nat /\ late \in BOOLEAN /\ line \in Nat
      BY <1>1 DEF TypeOK
    <3>3. PICK s \in Nat, h \in Headers :
            last' = [status |-> s, header |-> h, body |-> out.body,
                     req |-> req, zipped |-> gz # "off", calls |-> calls,
                     late |-> late, outcome |-> outcome, line |-> line]
      BY <1>1, <1>12, FinishKeeps
    <3>4. QED
      BY <3>1, <3>2, <3>3 DEF Responses
  <2>2. QED
    BY <1>1, <1>2, <1>3, <1>12, <2>1, FinishIs, NoHeaderIs, FreshIs DEF TypeOK
<1>13. CASE Expire
  BY <1>1, <1>13, ExpireIs DEF TypeOK
<1>14. CASE UNCHANGED vars
  BY <1>1, <1>14 DEF TypeOK, vars, chain, wrap, told, past
<1>15. QED
  BY <1>1, <1>4, <1>5, <1>6, <1>7, <1>8, <1>9, <1>10, <1>11, <1>12, <1>13, <1>14, Steps

----------------------------------------------------------------------------
(* Where the request is, and what was done on its way. *)

LEMMA PlacesNext == TypeOK /\ Places /\ [Next]_vars => Places'
<1>1. SUFFICES ASSUME TypeOK, Places, [Next]_vars PROVE Places'
  OBVIOUS
<1>2. Len(stack) \in Nat /\ depth \in Nat /\ calls \in Nat /\ depth <= Len(stack) + 1
  BY <1>1 DEF TypeOK
<1>3. ASSUME NEW r \in Requests, Request(r) PROVE Places'
  <2>1. /\ pc' = "enter" /\ depth' = 1 /\ out' = Fresh /\ calls' = 0 /\ late' = FALSE
        /\ outcome' = "none" /\ line' = 0
    BY <1>3, RequestIs
  <2>2. QED
    BY <2>1, FreshIs DEF Places, Inside, Arriving
<1>4. CASE Deepen
  <2>1. /\ Arriving /\ Inside /\ Inside' /\ pc' = "enter" /\ depth' = depth + 1 /\ out'.status = out.status
        /\ UNCHANGED <<calls, late, outcome, line>>
    BY <1>1, <1>4, DeepenIs, DeepenOut DEF Arriving, Inside
  <2>2. depth' # 0 /\ calls' = 0
    BY <1>1, <1>2, <2>1 DEF Places
  <2>3. QED
    BY <1>1, <2>1, <2>2 DEF Places
<1>5. CASE Refuse
  BY <1>1, <1>2, <1>5, RefuseIs DEF Places, Inside, Arriving, Rest, Ends
<1>6. CASE Call
  <2>1. calls' # 0
    BY <1>1, <1>2, <1>6, CallIs
  <2>2. QED
    BY <1>1, <1>2, <1>6, <2>1, CallIs DEF Places, Inside, Arriving, Rest
<1>7. CASE StreamBegin
  BY <1>1, <1>7, StreamBeginIs DEF Places, Inside, Arriving, Rest
<1>8. CASE Stop
  BY <1>1, <1>2, <1>8, StopIs DEF Places, Inside, Arriving, Rest, Ends
<1>9. CASE LeaveOne
  BY <1>1, <1>2, <1>9, LeaveIs DEF Places, Inside, Arriving, Rest
<1>10. CASE Answer
  BY <1>1, <1>10, AnswerIs DEF Places, Inside, Arriving, Rest, Ends
<1>11. CASE Finish
  BY <1>11, FinishIs DEF Places, Inside, Arriving
<1>12. CASE Expire
  BY <1>1, <1>12, ExpireIs DEF Places, Inside, Arriving
<1>13. CASE UNCHANGED vars
  BY <1>1, <1>13 DEF Places, Inside, Arriving, vars, chain, wrap, told, past
<1>14. QED
  BY <1>1, <1>3, <1>4, <1>5, <1>6, <1>7, <1>8, <1>9, <1>10, <1>11, <1>12, <1>13, Steps

LEMMA PassedNext == TypeOK /\ Places /\ Passed /\ [Next]_vars => Passed'
<1>1. SUFFICES ASSUME TypeOK, Places, Passed, [Next]_vars PROVE Passed'
  OBVIOUS
<1>. DEFINE OnWay(i) == /\ stack[i] \in Guards => req.known
                        /\ stack[i] = "cors" /\ Inside => ~req.preflight
                        /\ stack[i] = "cache" /\ ~req.preflight => out.recorded # 0
<1>2. Len(stack) \in Nat /\ depth \in Nat
  BY <1>1 DEF TypeOK
<1>3. ASSUME UNCHANGED <<stack, req>>, UNCHANGED page, out.recorded # 0 => out'.recorded # 0,
             \A i \in 1..Len(stack) : Entered(i)' => Entered(i) /\ (Inside' => Inside)
      PROVE  Passed'
  BY <1>1, <1>3 DEF Passed
<1>4. ASSUME NEW r \in Requests, Request(r) PROVE Passed'
  <2>1. pc' = "enter" /\ depth' = 1 /\ UNCHANGED <<stack, page>>
    BY <1>4, RequestIs
  <2>2. \A i \in 1..Len(stack) : ~Entered(i)'
    BY <1>2, <2>1 DEF Entered, Inside
  <2>3. QED
    BY <1>1, <2>1, <2>2 DEF Passed
<1>5. CASE Deepen
  <2>1. /\ stack' = stack /\ req' = req /\ page' = page /\ pc = "enter" /\ depth' = depth + 1
        /\ \A i \in 1..Len(stack) : Entered(i)' => i <= depth /\ (i < depth => Entered(i))
        /\ Inside
    BY <1>2, <1>5, DeepenIs DEF Rest, Entered, Inside
  <2>2. out.recorded # 0 => out'.recorded # 0
    BY <1>1, <1>5, LoggerNotes, MissNotes
    DEF Deepen, EnterCORS, GuardAccepts, EnterCompress, SkipCompress, CacheBypass
  <2>3. /\ stack[depth] \in Guards => req.known
        /\ stack[depth] = "cors" => ~req.preflight
        /\ stack[depth] = "cache" /\ ~req.preflight => out'.recorded # 0
    BY <1>1, <1>5, MissNotes
    DEF Deepen, EnterCORS, GuardAccepts, EnterLogger, EnterCompress, SkipCompress, CacheBypass, CacheMiss,
        Entering, Guards
  <2>4. ASSUME NEW i \in 1..Len(stack), Entered(i)' PROVE OnWay(i)'
    <3>1. CASE i < depth
      BY <1>1, <2>1, <2>2, <2>4, <3>1 DEF Passed
    <3>2. CASE i = depth
      BY <2>1, <2>3, <3>2
    <3>3. QED
      BY <1>2, <2>1, <2>4, <3>1, <3>2
  <2>5. QED
    BY <1>1, <2>1, <2>4 DEF Passed
<1>6. CASE Refuse
  <2>1. /\ UNCHANGED <<stack, req>> /\ UNCHANGED page
        /\ \A i \in 1..Len(stack) : Entered(i)' => Entered(i) /\ (Inside' => Inside)
    BY <1>2, <1>6, RefuseIs DEF Rest, Entered, Inside
  <2>2. out.recorded # 0 => out'.recorded # 0
    <3>1. CASE Preflight
      BY <1>1, <3>1, PreflightSends DEF Headed
    <3>2. CASE JWTRefuses
      BY <1>1, <3>2, JWTSends DEF Replied
    <3>3. CASE KeyRefuses
      BY <3>3 DEF KeyRefuses
    <3>4. CASE CacheHit
      <4>1. PICK o : /\ Headed(o, out, writer, hdr', page.status)
                     /\ Written(out', o, writer, hdr', page.body)
        BY <1>1, <3>4, HitSends
      <4>2. out'.recorded = IF Contains(writer, "rec") THEN page.status ELSE out.recorded
        BY <4>1 DEF Headed, Written
      <4>3. QED
        BY <1>1, <3>4, <4>2 DEF Passed, CacheHit
    <3>5. QED
      BY <1>6, <3>1, <3>2, <3>3, <3>4 DEF Refuse
  <2>3. QED
    BY <1>3, <2>1, <2>2
<1>7. CASE Call
  <2>1. out.recorded # 0 => out'.recorded # 0
    <3>1. ASSUME NEW code \in Statuses, HandlerStatus(code) PROVE out.recorded # 0 => out'.recorded # 0
      BY <1>1, <3>1, StatusSends DEF Headed
    <3>2. CASE HandlerWrite
      BY <1>1, <3>2, WriteSends DEF Written
    <3>3. CASE StreamWrite
      BY <1>1, <3>3, StreamSends DEF Written, Flushed
    <3>4. QED
      BY <1>7, <3>1, <3>2, <3>3 DEF Call
  <2>2. QED
    BY <1>1, <1>3, <1>7, <2>1, CallIs DEF Rest, Entered, Inside
<1>8. CASE StreamBegin
  BY <1>3, <1>8, StreamBeginIs DEF Rest, Entered, Inside
<1>9. CASE Stop
  BY <1>1, <1>2, <1>3, <1>9, StopIs DEF Rest, Entered, Inside
<1>10. CASE LeaveOne
  <2>1. out'.recorded = out.recorded
    <3>1. CASE LeaveCompress
      BY <1>1, <3>1, CompressCloses DEF Closed
    <3>2. CASE ~LeaveCompress
      BY <1>10, <3>2 DEF LeaveOne, LeavePlain, LeaveLogger, LeaveCache
    <3>3. QED
      BY <3>1, <3>2
  <2>2. /\ stack' = stack /\ req' = req /\ Entered(depth) /\ depth \in 1..Len(stack)
        /\ \A i \in 1..Len(stack) : Entered(i)' => Entered(i) /\ (Inside' => Inside)
    BY <1>1, <1>2, <1>10, LeaveIs DEF Rest, Entered, Inside, Places
  <2>3. page' # NoPage => page'.status # 0
    <3>1. CASE LeaveCache
      <4>1. stack[depth] = "cache"
        BY <3>1 DEF LeaveCache, Leaving
      <4>2. ~req.preflight => out.recorded # 0
        BY <1>1, <2>2, <4>1 DEF Passed
      <4>3. QED
        BY <1>1, <3>1, <4>2 DEF LeaveCache, Passed
    <3>2. CASE ~LeaveCache
      BY <1>1, <1>10, <3>2 DEF LeaveOne, LeavePlain, LeaveLogger, LeaveCompress, Passed
    <3>3. QED
      BY <3>1, <3>2
  <2>4. QED
    BY <1>1, <2>1, <2>2, <2>3 DEF Passed
<1>11. CASE Answer
  BY <1>1, <1>2, <1>11, AnswerIs DEF Passed, Entered, Inside
<1>12. CASE Finish
  BY <1>1, <1>2, <1>12, FinishIs DEF Passed, Entered, Inside
<1>13. CASE Expire
  BY <1>1, <1>2, <1>13, ExpireIs DEF Passed, Entered, Inside
<1>14. CASE UNCHANGED vars
  BY <1>1, <1>14 DEF Passed, Entered, Inside, vars, chain, wrap, told, past
<1>15. QED
  BY <1>1, <1>4, <1>5, <1>6, <1>7, <1>8, <1>9, <1>10, <1>11, <1>12, <1>13, <1>14, Steps

----------------------------------------------------------------------------
(* The wrappers. *)

LEMMA ZippingNext == TypeOK /\ Places /\ Zipping /\ [Next]_vars => Zipping'
<1>1. SUFFICES ASSUME TypeOK, Places, Zipping, [Next]_vars PROVE Zipping'
  OBVIOUS
<1>. DEFINE InCompress == \E i \in 1..Len(stack) : Entered(i) /\ stack[i] = "compress"
            Bare(w) == ~Contains(w, "gz") /\ ~Contains(w, "shut")
<1>2. /\ Len(stack) \in Nat /\ depth \in Nat /\ writer \in Seq(Wrappers)
      /\ \A i, j \in 1..Len(stack) : stack[i] = stack[j] => i = j
  BY <1>1 DEF TypeOK
<1>3. ASSUME UNCHANGED <<stack, req, original, gz>>, Serving, Serving', pc' = pc \/ ~Inside',
             Contains(writer', "gz") <=> Contains(writer, "gz"),
             Contains(writer', "shut") <=> Contains(writer, "shut"),
             gz = "open" => InCompress',
             pc' = "leave" => Inside \/ pc = "leave"
      PROVE  Zipping'
  <2>1. Inside' => Inside
    BY <1>3 DEF Inside
  <2>2. Uses("compress")' <=> Uses("compress")
    BY <1>3 DEF Uses
  <2>3. gz = "closed" /\ pc' = "leave" => pc = "leave"
    BY <1>1, <1>3 DEF Zipping
  <2>4. QED
    BY <1>1, <1>3, <2>1, <2>2, <2>3 DEF Zipping, Serving, Inside
<1>4. ASSUME NEW r \in Requests, Request(r) PROVE Zipping'
  <2>1. pc' = "enter" /\ gz' = "off" /\ writer' = << >>
    BY <1>4, RequestIs
  <2>2. QED
    BY <2>1, NoneIs DEF Zipping
<1>5. CASE Deepen
  <2>1. /\ pc = "enter" /\ pc' = "enter" /\ Inside /\ Inside' /\ Serving /\ Serving'
        /\ stack' = stack /\ req' = req /\ depth' = depth + 1
    BY <1>5, DeepenIs DEF Rest, Inside, Serving
  <2>6. depth \in 1..Len(stack)
    BY <1>1, <1>2, <1>5, DeepenIs DEF Places
  <2>7. \A i \in 1..Len(stack) : Entered(i)' <=> i < depth'
    BY <2>1 DEF Entered, Inside
  <2>2. InCompress => InCompress'
    BY <1>2, <2>1 DEF Entered
  <2>3. CASE EnterCompress
    <3>1. stack[depth] = "compress" /\ req.gzip /\ gz' = "open" /\ original' = writer
          /\ writer' = Append(writer, "gz")
      BY <2>3 DEF EnterCompress, Entering
    <3>2. ~InCompress
      BY <1>2, <2>1, <2>6, <3>1 DEF Entered
    <3>3. gz = "off" /\ Bare(writer)
      BY <1>1, <1>2, <2>1, <3>2 DEF Zipping, TypeOK
    <3>4. /\ \A x : Contains(writer', x) <=> Contains(writer, x) \/ x = "gz"
      BY <1>2, <3>1, AppendIs DEF Wrappers
    <3>5. InCompress' /\ Uses("compress")'
      <4>1. depth < depth' /\ stack'[depth] = "compress" /\ depth \in 1..Len(stack')
        BY <1>2, <2>1, <2>6, <3>1
      <4>2. Uses("compress")'
        BY <4>1 DEF Uses, Contains
      <4>3. QED
        BY <2>1, <4>1, <4>2 DEF Entered
    <3>6. QED
      BY <2>1, <3>1, <3>3, <3>4, <3>5 DEF Zipping
  <2>4. CASE ~EnterCompress
    <3>1. UNCHANGED <<original, gz>>
      BY <1>5, <2>4 DEF Deepen, EnterCORS, GuardAccepts, EnterLogger, SkipCompress, CacheBypass, CacheMiss, wrap
    <3>2. \/ writer' = writer \/ writer' = Append(writer, "log") \/ writer' = Append(writer, "rec")
      BY <1>5, <2>4 DEF Deepen, EnterCORS, GuardAccepts, EnterLogger, SkipCompress, CacheBypass, CacheMiss, wrap
    <3>3. /\ Contains(writer', "gz") <=> Contains(writer, "gz")
          /\ Contains(writer', "shut") <=> Contains(writer, "shut")
      <4>1. \A x \in Wrappers : \A y : Contains(Append(writer, x), y) <=> Contains(writer, y) \/ y = x
        BY <1>2, AppendIs
      <4>2. QED
        BY <3>2, <4>1 DEF Wrappers
    <3>4. gz = "open" => InCompress
      BY <1>1, <2>1 DEF Zipping
    <3>5. QED
      BY <1>3, <2>1, <2>2, <3>1, <3>3, <3>4
  <2>5. QED
    BY <2>3, <2>4
<1>6. CASE Refuse
  <2>1. /\ pc' = "leave" /\ Inside /\ ~Inside' /\ Serving /\ Serving'
        /\ UNCHANGED <<stack, req, writer, original, gz>>
        /\ \A i \in 1..Len(stack) : Entered(i) => Entered(i)'
    BY <1>2, <1>6, RefuseIs DEF Rest, Inside, Serving, Entered
  <2>2. QED
    BY <1>1, <1>3, <2>1 DEF Zipping
<1>7. CASE Call
  <2>1. /\ UNCHANGED <<stack, req, writer, original, gz, pc, depth>> /\ Serving
    BY <1>1, <1>7, CallIs DEF Rest, Inside, Serving
  <2>2. QED
    BY <1>1, <1>3, <2>1 DEF Zipping, Serving, Entered, Inside
<1>8. CASE StreamBegin
  <2>1. /\ UNCHANGED <<stack, req, writer, original, gz, depth>> /\ Inside /\ Inside' /\ Serving /\ Serving'
        /\ pc' = "stream" /\ pc = "enter"
        /\ \A i \in 1..Len(stack) : Entered(i) => Entered(i)'
    BY <1>8, StreamBeginIs DEF Rest, Inside, Serving, Entered
  <2>2. QED
    BY <1>1, <2>1 DEF Zipping, Uses
<1>9. CASE Stop
  <2>1. /\ UNCHANGED <<stack, req, writer, original, gz>> /\ Inside /\ ~Inside' /\ Serving
        /\ pc' = "recover" \/ pc' = "leave"
        /\ \A i \in 1..Len(stack) : Serving' => Entered(i)'
    BY <1>1, <1>2, <1>9, StopIs DEF Rest, Inside, Serving, Entered
  <2>2. QED
    BY <1>1, <2>1 DEF Zipping, Uses, Serving
<1>10. CASE LeaveOne
  <2>1. /\ pc = "leave" /\ pc' = "leave" /\ ~Inside /\ ~Inside' /\ Serving /\ Serving'
        /\ UNCHANGED <<stack, req, original>> /\ depth' = depth - 1 /\ depth \in 1..Len(stack)
    BY <1>1, <1>2, <1>10, LeaveIs DEF Rest, Inside, Serving, Places
  <2>2. CASE LeaveCompress /\ gz = "open"
    <3>1. writer' = original /\ gz' = "closed"
      BY <2>2 DEF LeaveCompress
    <3>2. QED
      BY <1>1, <2>1, <2>2, <3>1 DEF Zipping, Uses
  <2>3. CASE ~LeaveCompress \/ gz # "open"
    <3>1. UNCHANGED <<writer, gz>>
      BY <1>10, <2>3 DEF LeaveOne, LeavePlain, LeaveLogger, LeaveCompress, LeaveCache
    <3>2. gz = "open" => stack[depth] # "compress"
      BY <1>10, <2>3 DEF LeaveOne, LeavePlain, LeaveLogger, LeaveCache, Leaving
    <3>3. gz = "open" => InCompress'
      BY <1>1, <1>2, <2>1, <3>2 DEF Zipping, Entered, Inside
    <3>4. QED
      BY <1>3, <2>1, <3>1, <3>3
  <2>4. QED
    BY <2>2, <2>3
<1>11. CASE Answer
  <2>1. pc' = "end" /\ ~Inside' /\ ~Serving' /\ UNCHANGED <<stack, req, original>> /\ pc # "idle"
    BY <1>11, AnswerIs DEF Rest, Inside, Serving
  <2>2. gz' # "open" /\ (gz' # "off" <=> gz # "off")
    <3>1. CASE pc = "leave" /\ depth = 0
      <4>1. ~InCompress
        BY <1>2, <3>1 DEF Entered, Inside
      <4>2. gz # "open"
        BY <1>1, <3>1, <4>1 DEF Zipping, Serving
      <4>3. QED
        BY <1>11, <3>1, <4>2, AnswerIs
    <3>2. CASE pc = "recover"
      BY <1>11, <3>2, AnswerIs
    <3>3. QED
      BY <1>11, <3>1, <3>2, AnswerIs
  <2>3. gz' = "off" => Bare(writer')
    <3>1. CASE Recover
      <4>1. writer' = [i \in 1..Len(writer) |-> IF writer[i] = "gz" THEN "shut" ELSE writer[i]]
        BY <1>2, <3>1 DEF Recover
      <4>2. Len(writer) \in Nat
        BY <1>2
      <4>3. Bare(writer) => writer' = writer
        BY <1>2, <4>1, <4>2 DEF Contains
      <4>4. QED
        BY <1>1, <2>2, <4>3 DEF Zipping, TypeOK
    <3>2. CASE ~Recover
      BY <1>1, <1>11, <2>2, <3>2 DEF Answer, Return, HandleError, Zipping, TypeOK
    <3>3. QED
      BY <3>1, <3>2
  <2>4. QED
    BY <1>1, <2>1, <2>2, <2>3 DEF Zipping, Uses
<1>12. CASE Finish
  <2>1. pc' = "idle" /\ gz' = "off" /\ writer' = << >>
    BY <1>12, FinishIs
  <2>2. QED
    BY <2>1, NoneIs DEF Zipping, Inside, Serving
<1>13. CASE Expire
  BY <1>1, <1>13, ExpireIs DEF Zipping, Inside, Serving, Entered, Uses
<1>14. CASE UNCHANGED vars
  BY <1>1, <1>14 DEF Zipping, Inside, Serving, Entered, Uses, vars, chain, wrap, told, past
<1>15. QED
  BY <1>1, <1>4, <1>5, <1>6, <1>7, <1>8, <1>9, <1>10, <1>11, <1>12, <1>13, <1>14, Steps

LEMMA WrappingNext == TypeOK /\ Places /\ Wrapping /\ [Next]_vars => Wrapping'
<1>1. SUFFICES ASSUME TypeOK, Places, Wrapping, [Next]_vars PROVE Wrapping'
  OBVIOUS
<1>2. writer \in Seq(Wrappers)
  BY <1>1 DEF TypeOK
<1>3. ASSUME NEW r \in Requests, Request(r) PROVE Wrapping'
  <2>1. out' = Fresh /\ writer' = << >>
    BY <1>3, RequestIs
  <2>2. QED
    BY <2>1, FreshIs, NoneIs DEF Wrapping
<1>4. CASE Deepen
  <2>1. Inside
    BY <1>4, DeepenIs DEF Inside
  <2>2. \A x \in Wrappers : \A y : Contains(Append(writer, x), y) <=> Contains(writer, y) \/ y = x
    BY <1>2, AppendIs
  <2>3. CASE EnterLogger
    BY <1>1, <2>1, <2>2, <2>3, LoggerNotes DEF EnterLogger, Wrapping, Wrappers
  <2>4. CASE CacheMiss
    BY <1>1, <2>1, <2>2, <2>4, MissNotes DEF CacheMiss, Wrapping, Wrappers
  <2>5. CASE ~EnterLogger /\ ~CacheMiss
    <3>1. out' = out /\ (writer' = writer \/ writer' = Append(writer, "gz"))
      BY <1>4, <2>5 DEF Deepen, EnterCORS, GuardAccepts, EnterCompress, SkipCompress, CacheBypass, wrap
    <3>2. QED
      BY <1>1, <2>1, <2>2, <3>1 DEF Wrapping, Wrappers
  <2>6. QED
    BY <2>3, <2>4, <2>5
<1>5. CASE Call
  <2>1. Inside /\ writer' = writer
    BY <1>1, <1>5, CallIs
  <2>2. /\ out'.logged # 0 <=> out.logged # 0 \/ Contains(writer, "log")
        /\ out'.recorded # 0 <=> out.recorded # 0 \/ Contains(writer, "rec")
    <3>1. ASSUME NEW code \in Statuses, HandlerStatus(code)
          PROVE  /\ out'.logged # 0 <=> out.logged # 0 \/ Contains(writer, "log")
                 /\ out'.recorded # 0 <=> out.recorded # 0 \/ Contains(writer, "rec")
      BY <1>1, <3>1, StatusSends DEF Headed
    <3>2. CASE HandlerWrite
      BY <1>1, <2>1, <3>2, WriteSends DEF Written, Wrapping
    <3>3. CASE StreamWrite
      BY <1>1, <2>1, <3>3, StreamSends DEF Written, Flushed, Wrapping
    <3>4. QED
      BY <1>5, <3>1, <3>2, <3>3 DEF Call
  <2>3. QED
    BY <1>1, <2>1, <2>2 DEF Wrapping
<1>6. CASE StreamBegin
  BY <1>1, <1>6, StreamBeginIs DEF Wrapping, Inside
<1>7. CASE Refuse \/ Stop \/ LeaveOne \/ Answer \/ Finish
  BY <1>1, <1>7, RefuseIs, StopIs, LeaveIs, AnswerIs, FinishIs DEF Wrapping, Inside
<1>8. CASE Expire \/ UNCHANGED vars
  BY <1>1, <1>8, ExpireIs DEF Wrapping, Inside, vars, chain, wrap, told, past
<1>9. QED
  BY <1>1, <1>3, <1>4, <1>5, <1>6, <1>7, <1>8, Steps

----------------------------------------------------------------------------
(* What has been sent. *)

LEMMA HeadedIsProper ==
  ASSUME NEW o, NEW x, NEW w, NEW h, NEW code, code # 0, Proper(o, h), Headed(x, o, w, h, code)
  PROVE  Proper(x, h) /\ x.status # 0 /\ (o.status # 0 => x.status = o.status)
BY DEF Proper, Headed

LEMMA WrittenIsProper ==
  ASSUME NEW o, NEW x, NEW w, NEW h, NEW pieces,
         ~Contains(w, "shut") \/ o.status # 0, Proper(o, h), Written(x, o, w, h, pieces)
  PROVE  Proper(x, h) /\ x.status # 0 /\ (o.status # 0 => x.status = o.status)
BY DEF Proper, Written, Bodiless

LEMMA FlushedIsProper ==
  ASSUME NEW o, NEW x, NEW w, NEW h, Proper(o, h), Flushed(x, o, w, h)
  PROVE  Proper(x, h) /\ (o.status # 0 => x.status = o.status)
BY DEF Proper, Flushed, Bodiless

LEMMA RepliedIsProper ==
  ASSUME NEW o, NEW x, NEW w, NEW h, NEW code \in Nat, code # 0, code \notin Bodiless,
         Proper(o, h), Replied(x, o, w, h, code)
  PROVE  Proper(x, h) /\ x.status # 0 /\ (o.status # 0 => x.status = o.status)
BY DEF Proper, Replied

LEMMA ClosedIsProper ==
  ASSUME NEW o \in Outs, NEW x, Proper(o, hdr), Closed(x, o)
  PROVE  Proper(x, hdr) /\ x.status # 0 /\ x.status = Final(o)
BY DEF Proper, Closed, Final, Bodiless

(* What no step of a request undoes. *)
Sends == (out.status # 0 => out'.status = out.status) /\ Proper(out', hdr')

LEMMA RefuseIsProper ==
  ASSUME TypeOK, Places, Passed, Zipping, Sent, Refuse
  PROVE  /\ Sends /\ out.status = 0 /\ calls = 0 /\ ~late
         /\ ~KeyRefuses => out'.status # 0
<1>1. pc = "enter" /\ depth <= Len(stack)
  BY RefuseIs
<1>2. out.status = 0 /\ calls = 0 /\ ~late /\ Proper(out, hdr) /\ Proper(out, hdr') /\ out \in Outs
  BY <1>1, Typed DEF Places, Arriving, Inside, Sent, Proper, Bodiless
<1>3. CASE Preflight
  <2>1. Headed(out', out, writer, hdr', 204)
    BY <1>3, PreflightSends
  <2>2. Proper(out', hdr') /\ out'.status # 0
    BY <1>2, <2>1, HeadedIsProper
  <2>3. QED
    BY <1>2, <2>2 DEF Sends
<1>4. CASE JWTRefuses
  <2>1. Replied(out', out, writer, hdr, 401) /\ hdr' = hdr
    BY <1>4, JWTSends DEF JWTRefuses
  <2>2. Proper(out', hdr') /\ out'.status # 0
    BY <1>2, <2>1, RepliedIsProper DEF Bodiless
  <2>3. QED
    BY <1>2, <2>2 DEF Sends
<1>5. CASE KeyRefuses
  BY <1>2, <1>5 DEF KeyRefuses, Sends
<1>6. CASE CacheHit
  <2>1. PICK o : /\ Headed(o, out, writer, hdr', page.status)
                 /\ Written(out', o, writer, hdr', page.body)
    BY <1>6, HitSends
  <2>2. page.status # 0
    BY <1>6 DEF Passed, CacheHit
  <2>3. Proper(o, hdr') /\ o.status # 0
    BY <1>2, <2>1, <2>2, HeadedIsProper
  <2>4. Proper(out', hdr') /\ out'.status # 0
    BY <2>1, <2>3, WrittenIsProper
  <2>5. QED
    BY <1>2, <2>4 DEF Sends
<1>7. QED
  BY <1>3, <1>4, <1>5, <1>6 DEF Refuse

LEMMA CallIsProper ==
  ASSUME TypeOK, Places, Zipping, Sent, Call
  PROVE  Sends /\ out'.status # 0
<1>1. Inside /\ hdr' = hdr
  BY CallIs
<1>2. ~Contains(writer, "shut")
  BY <1>1 DEF Zipping, Inside
<1>3. ASSUME NEW code \in Statuses, HandlerStatus(code) PROVE Sends /\ out'.status # 0
  BY <1>1, <1>3, StatusSends, HeadedIsProper DEF Sent, Sends
<1>4. CASE HandlerWrite
  <2>1. Written(out', out, writer, hdr, Plain(count))
    BY <1>4, WriteSends
  <2>2. QED
    BY <1>1, <1>2, <2>1, WrittenIsProper DEF Sent, Sends
<1>5. CASE StreamWrite
  <2>1. PICK o : Flushed(o, out, writer, hdr) /\ Written(out', o, writer, hdr, Plain(count))
    BY <1>5, StreamSends
  <2>2. Proper(o, hdr) /\ (out.status # 0 => o.status = out.status)
    BY <2>1, FlushedIsProper DEF Sent
  <2>3. QED
    BY <1>1, <1>2, <2>1, <2>2, WrittenIsProper DEF Sent, Sends
<1>6. QED
  BY <1>3, <1>4, <1>5 DEF Call

LEMMA LeaveIsProper ==
  ASSUME TypeOK, Sent, LeaveOne
  PROVE  Sends /\ (out'.status = out.status \/ out'.status = Final(out)) /\ Final(out') = Final(out)
         /\ out'.logged = out.logged /\ out'.recorded = out.recorded
<1>1. hdr' = hdr /\ out \in Outs
  BY LeaveIs, Typed
<1>2. CASE LeaveCompress /\ Closed(out', out)
  <2>1. Proper(out', hdr) /\ out'.status # 0 /\ out'.status = Final(out)
    BY <1>1, <1>2, ClosedIsProper DEF Sent
  <2>2. QED
    BY <1>1, <1>2, <2>1 DEF Sends, Closed, Final
<1>3. CASE ~(LeaveCompress /\ Closed(out', out))
  <2>1. out' = out
    BY <1>3, CompressCloses DEF LeaveOne, LeavePlain, LeaveLogger, LeaveCache
  <2>2. QED
    BY <1>1, <2>1 DEF Sends, Sent
<1>4. QED
  BY <1>2, <1>3

LEMMA AnswerIsProper ==
  ASSUME TypeOK, Sent, Answer
  PROVE  Sends
<1>1. hdr' = hdr /\ out \in Outs
  BY AnswerIs, Typed
<1>2. CASE Return
  BY <1>1, <1>2 DEF Return, Answered, Sends, Sent
<1>3. CASE HandleError
  <2>1. Replied(out', out, writer, hdr, ErrorCode)
    BY <1>3, ErrorSends
  <2>2. ErrorCode \in Nat /\ ErrorCode # 0 /\ ErrorCode \notin Bodiless
    BY DEF ErrorCode, Bodiless
  <2>3. QED
    BY <1>1, <2>1, <2>2, RepliedIsProper DEF Sends, Sent
<1>4. CASE Recover
  <2>1. PICK o : /\ IF gz = "open" THEN Closed(o, out) ELSE o = out
                 /\ Replied(out', o, writer', hdr, 500)
    BY <1>4, RecoverSends
  <2>2. Proper(o, hdr) /\ (out.status # 0 => o.status = out.status)
    BY <1>1, <2>1, ClosedIsProper DEF Sent, Final
  <2>3. QED
    BY <1>1, <2>1, <2>2, RepliedIsProper DEF Sends, Bodiless
<1>5. QED
  BY <1>2, <1>3, <1>4 DEF Answer

LEMMA SentNext == TypeOK /\ Places /\ Passed /\ Zipping /\ Sent /\ [Next]_vars => Sent'
<1>1. SUFFICES ASSUME TypeOK, Places, Passed, Zipping, Sent, [Next]_vars PROVE Sent'
  OBVIOUS
<1>2. ASSUME NEW r \in Requests, Request(r) PROVE Sent'
  <2>1. out' = Fresh
    BY <1>2, RequestIs
  <2>2. QED
    BY <2>1, FreshIs DEF Sent, Proper, Bodiless
<1>3. CASE Deepen
  <2>1. out'.status = out.status /\ out'.body = out.body /\ out'.copy = out.copy
    BY <1>1, <1>3, DeepenOut
  <2>2. out.status = 0
    BY <1>1, <1>3, DeepenIs DEF Places, Arriving, Inside
  <2>3. QED
    BY <1>1, <2>1, <2>2 DEF Sent, Proper, Bodiless
<1>4. CASE Refuse
  BY <1>1, <1>4, RefuseIsProper DEF Sends, Sent
<1>5. CASE Call
  BY <1>1, <1>5, CallIsProper DEF Sends, Sent
<1>6. CASE StreamBegin \/ Stop
  BY <1>1, <1>6, StreamBeginIs, StopIs DEF Sent
<1>7. CASE LeaveOne
  BY <1>1, <1>7, LeaveIsProper DEF Sends, Sent
<1>8. CASE Answer
  BY <1>1, <1>8, AnswerIsProper DEF Sends, Sent
<1>9. CASE Finish
  <2>1. out' = Fresh
    BY <1>9, FinishIs
  <2>2. QED
    BY <2>1, FreshIs DEF Sent, Proper, Bodiless
<1>10. CASE Expire \/ UNCHANGED vars
  BY <1>1, <1>10, ExpireIs DEF Sent, vars
<1>11. QED
  BY <1>1, <1>2, <1>3, <1>4, <1>5, <1>6, <1>7, <1>8, <1>9, <1>10, Steps

----------------------------------------------------------------------------
(* What the client is told, and what the wrappers note. *)

LEMMA ToldNext ==
  TypeOK /\ Places /\ Passed /\ Zipping /\ Sent /\ Told /\ [Next]_vars => Told'
<1>1. SUFFICES ASSUME TypeOK, Places, Passed, Zipping, Sent, Told, [Next]_vars PROVE Told'
  OBVIOUS
<1>2. out \in Outs /\ gz \in {"off", "open", "closed"}
  BY <1>1, Typed DEF TypeOK
<1>3. CASE Deepen \/ Call \/ StreamBegin \/ Finish \/ Expire \/ \E r \in Requests : Request(r)
  <2>1. pc' \in {"idle", "enter", "stream"}
    BY <1>1, <1>3, DeepenIs, CallIs, StreamBeginIs, FinishIs, ExpireIs, RequestIs DEF Inside
  <2>2. QED
    BY <2>1 DEF Told
<1>4. CASE Refuse
  <2>1. /\ pc' = "leave" /\ out.status = 0 /\ calls' = 0 /\ ~late' /\ gz' = gz /\ ~Contains(writer, "shut")
    BY <1>1, <1>4, RefuseIs, RefuseIsProper DEF Zipping
  <2>2. CASE Preflight
    <3>1. out'.status = 204 /\ outcome' = (IF Contains(writer, "gz") THEN "err" ELSE "preflight")
      BY <1>1, <2>1, <2>2, PreflightSends DEF Headed, Preflight, Ended
    <3>2. gz = "off" => ~Contains(writer, "gz")
      BY <1>1 DEF Zipping
    <3>3. QED
      BY <2>1, <3>1, <3>2 DEF Told, Tells, Final, Erred
  <2>3. CASE JWTRefuses
    <3>1. out'.status = 401 /\ outcome' = "refused"
      BY <1>1, <2>1, <2>3, JWTSends DEF Replied, JWTRefuses, Ended
    <3>2. QED
      BY <2>1, <3>1 DEF Told, Tells, Final, Erred
  <2>4. CASE KeyRefuses
    <3>1. out' = out /\ outcome' = "denied"
      BY <2>4 DEF KeyRefuses, Ended
    <3>2. QED
      BY <2>1, <3>1 DEF Told, Tells, Final, Erred
  <2>5. CASE CacheHit
    <3>1. outcome' = "cached"
      BY <2>5 DEF CacheHit, Ended
    <3>2. QED
      BY <2>1, <3>1 DEF Told, Tells, Final, Erred
  <2>6. QED
    BY <1>4, <2>2, <2>3, <2>4, <2>5 DEF Refuse
<1>5. CASE Stop
  <2>1. /\ pc' \in {"leave", "recover"} /\ outcome' \in {"ok", "err", "panic"} /\ (outcome' = "panic" => pc' = "recover")
        /\ out' = out /\ calls' = calls /\ (calls = 0 => out.status = 0)
    BY <1>1, <1>5, StopIs DEF Places
  <2>2. QED
    BY <2>1 DEF Told, Tells, Final, Erred
<1>6. CASE LeaveOne
  <2>1. /\ pc = "leave" /\ pc' = "leave" /\ UNCHANGED <<calls, late, outcome>> /\ Final(out') = Final(out)
    BY <1>1, <1>6, LeaveIs, LeaveIsProper
  <2>2. gz' = "off" => gz = "off" /\ out' = out
    BY <1>1, <1>6, CompressCloses DEF LeaveOne, LeavePlain, LeaveLogger, LeaveCache
  <2>3. QED
    BY <1>1, <2>1, <2>2 DEF Told, Tells, Erred
<1>7. CASE Answer
  <2>1. pc' = "end" /\ UNCHANGED <<calls, late, outcome>> /\ (gz' = "off" <=> gz = "off")
    BY <1>2, <1>7, AnswerIs
  <2>2. CASE Return
    <3>1. pc = "leave" /\ out' = out /\ outcome \notin {"err", "denied", "panic"}
      BY <1>1, <2>2 DEF Return, Answered, Places
    <3>2. QED
      BY <1>1, <2>1, <3>1 DEF Told, Tells, Erred
  <2>3. CASE HandleError
    <3>1. pc = "leave" /\ outcome \in {"err", "denied"} /\ out'.status = IF out.status = 0 THEN ErrorCode ELSE out.status
      BY <1>1, <2>3, ErrorSends DEF HandleError, Replied
    <3>2. gz = "off" /\ calls = 0 => out.status = 0
      BY <1>1, <3>1 DEF Told, Erred
    <3>3. gz = "off" /\ calls = 0 => Final(out)' = ErrorCode
      BY <3>1, <3>2 DEF Final, ErrorCode
    <3>4. gz = "off" /\ calls = 0 => Tells(Final(out))'
      BY <2>1, <3>1, <3>3 DEF Tells, ErrorCode
    <3>5. QED
      BY <2>1, <3>1, <3>4 DEF Told, Erred
  <2>4. CASE Recover
    <3>1. pc = "recover" /\ outcome = "panic" /\ (gz = "off" => out'.status = IF out.status = 0 THEN 500 ELSE out.status)
      BY <1>1, <2>4, RecoverSends DEF Recover, Replied, Places
    <3>2. QED
      BY <1>1, <2>1, <3>1 DEF Told, Tells, Erred, Final
  <2>5. QED
    BY <1>7, <2>2, <2>3, <2>4 DEF Answer
<1>8. CASE UNCHANGED vars
  BY <1>1, <1>8 DEF Told, Tells, Erred, Final, vars, wrap, told
<1>9. QED
  BY <1>1, <1>3, <1>4, <1>5, <1>6, <1>7, <1>8, Steps

LEMMA NotedNext ==
  TypeOK /\ Places /\ Passed /\ Zipping /\ Wrapping /\ Sent /\ Noted /\ [Next]_vars => Noted'
<1>1. SUFFICES ASSUME TypeOK, Places, Passed, Zipping, Wrapping, Sent, Noted, [Next]_vars PROVE Noted'
  OBVIOUS
<1>2. out \in Outs
  BY <1>1, Typed
<1>3. ASSUME NEW r \in Requests, Request(r) PROVE Noted'
  <2>1. out' = Fresh
    BY <1>3, RequestIs
  <2>2. QED
    BY <2>1, FreshIs DEF Noted
<1>4. CASE Deepen
  <2>1. /\ Serving /\ out.status = 0 /\ out'.status = 0 /\ UNCHANGED <<late, outcome>>
    BY <1>1, <1>4, DeepenIs, DeepenOut DEF Places, Arriving, Inside, Serving
  <2>2. /\ out'.logged = out.logged \/ out'.logged = 200
        /\ out'.recorded = out.recorded \/ out'.recorded = 200
    BY <1>1, <1>4, LoggerNotes, MissNotes
    DEF Deepen, EnterCORS, GuardAccepts, EnterCompress, SkipCompress, CacheBypass
  <2>3. QED
    BY <1>1, <2>1, <2>2 DEF Noted, Final, Erred
<1>5. CASE Refuse
  <2>1. /\ Inside /\ out.status = 0
    BY <1>1, <1>5, RefuseIs, RefuseIsProper DEF Inside
  <2>2. /\ Contains(writer, "log") \/ out.logged = 0
        /\ Contains(writer, "rec") \/ out.recorded = 0
    BY <1>1, <2>1 DEF Wrapping
  <2>3. CASE Preflight
    BY <1>1, <2>1, <2>2, <2>3, PreflightSends DEF Headed, Noted, Final
  <2>4. CASE JWTRefuses
    BY <1>1, <2>1, <2>2, <2>4, JWTSends DEF Replied, Noted, Final
  <2>5. CASE KeyRefuses
    BY <2>5 DEF KeyRefuses, Ended, Noted, Erred
  <2>6. CASE CacheHit
    <3>1. PICK o : /\ Headed(o, out, writer, hdr', page.status)
                   /\ Written(out', o, writer, hdr', page.body)
      BY <1>1, <2>6, HitSends
    <3>2. page.status # 0
      BY <1>1, <2>6 DEF Passed, CacheHit
    <3>3. /\ o.status = page.status
          /\ o.logged = IF Contains(writer, "log") THEN page.status ELSE out.logged
          /\ o.recorded = IF Contains(writer, "rec") THEN page.status ELSE out.recorded
      BY <2>1, <3>1 DEF Headed
    <3>4. out'.status = page.status /\ out'.logged = o.logged /\ out'.recorded = o.recorded
      BY <3>1, <3>2, <3>3 DEF Written
    <3>5. QED
      BY <2>2, <3>2, <3>3, <3>4 DEF Noted, Final
  <2>7. QED
    BY <1>5, <2>3, <2>4, <2>5, <2>6 DEF Refuse
<1>6. CASE Call
  <2>1. /\ Inside /\ Serving /\ ~Erred /\ ~Contains(writer, "shut")
    BY <1>1, <1>6, CallIs DEF Inside, Serving, Zipping, Places, Erred
  <2>2. /\ Contains(writer, "log") \/ out.logged = 0
        /\ Contains(writer, "rec") \/ out.recorded = 0
    BY <1>1, <2>1 DEF Wrapping
  <2>3. ASSUME NEW code \in Statuses, HandlerStatus(code) PROVE Noted'
    <3>1. Headed(out', out, writer, hdr, code) /\ code # 0 /\ late' = (late \/ out.status \notin {0, code})
      BY <1>1, <2>3, StatusSends DEF HandlerStatus
    <3>2. late \in BOOLEAN
      BY <1>1 DEF TypeOK
    <3>3. ~late' => out'.status = code
      BY <3>1, <3>2 DEF Headed
    <3>4. QED
      BY <2>2, <3>1, <3>3 DEF Noted, Final, Headed
  <2>4. CASE HandlerWrite
    <3>1. Written(out', out, writer, hdr, Plain(count)) /\ late' = late
      BY <1>1, <2>4, WriteSends DEF HandlerWrite
    <3>2. QED
      BY <1>1, <2>1, <3>1 DEF Written, Noted, Final
  <2>5. CASE StreamWrite
    <3>1. PICK o : Flushed(o, out, writer, hdr) /\ Written(out', o, writer, hdr, Plain(count))
      BY <1>1, <2>5, StreamSends
    <3>2. late' = late
      BY <2>5 DEF StreamWrite
    <3>3. Final(o) = Final(out) /\ o.logged = out.logged /\ o.recorded = out.recorded
      BY <3>1 DEF Flushed, Final
    <3>4. Final(out') = Final(o) /\ out'.logged = o.logged /\ out'.recorded = o.recorded
      BY <2>1, <3>1 DEF Written, Final
    <3>5. QED
      BY <1>1, <2>1, <3>2, <3>3, <3>4 DEF Noted
  <2>6. QED
    BY <1>6, <2>3, <2>4, <2>5 DEF Call
<1>7. CASE StreamBegin \/ Stop
  BY <1>1, <1>7, StreamBeginIs, StopIs DEF Noted, Final, Erred, Serving, Inside, Places
<1>8. CASE LeaveOne
  <2>1. /\ pc = "leave" /\ UNCHANGED <<late, outcome>> /\ Final(out') = Final(out)
        /\ out'.logged = out.logged /\ out'.recorded = out.recorded
    BY <1>1, <1>8, LeaveIs, LeaveIsProper
  <2>2. QED
    BY <1>1, <2>1 DEF Noted, Serving, Erred
<1>9. CASE Answer \/ Finish \/ Expire
  <2>1. ~Serving'
    BY <1>9, AnswerIs, FinishIs, ExpireIs DEF Serving
  <2>2. QED
    BY <2>1 DEF Noted
<1>10. CASE UNCHANGED vars
  BY <1>1, <1>10 DEF Noted, Final, Erred, Serving, vars, told
<1>11. QED
  BY <1>1, <1>3, <1>4, <1>5, <1>6, <1>7, <1>8, <1>9, <1>10, Steps

LEMMA LoggedNext ==
  TypeOK /\ Places /\ Sent /\ Noted /\ Logged /\ [Next]_vars => Logged'
<1>1. SUFFICES ASSUME TypeOK, Places, Sent, Noted, Logged, [Next]_vars PROVE Logged'
  OBVIOUS
<1>2. CASE Deepen \/ Call \/ StreamBegin \/ Finish \/ Expire \/ \E r \in Requests : Request(r)
  <2>1. pc' \in {"idle", "enter", "stream"}
    BY <1>1, <1>2, DeepenIs, CallIs, StreamBeginIs, FinishIs, ExpireIs, RequestIs DEF Inside
  <2>2. QED
    BY <2>1 DEF Logged
<1>3. CASE Refuse \/ Stop
  <2>1. line' = 0
    BY <1>1, <1>3, RefuseIs, StopIs DEF Places, Inside
  <2>2. QED
    BY <2>1 DEF Logged
<1>4. CASE LeaveOne
  <2>1. /\ pc = "leave" /\ UNCHANGED <<late, outcome>> /\ Final(out') = Final(out)
        /\ line' = line \/ line' = out.logged
    BY <1>1, <1>4, LeaveIs, LeaveIsProper DEF LeaveOne, LeavePlain, LeaveLogger, LeaveCompress, LeaveCache
  <2>2. QED
    BY <1>1, <2>1 DEF Logged, Noted, Serving, Erred
<1>5. CASE Answer
  <2>1. CASE Return
    BY <1>1, <2>1 DEF Return, Answered, told, Logged, Erred
  <2>2. CASE ~Return
    <3>1. Erred /\ outcome' = outcome
      BY <1>1, <1>5, <2>2 DEF Answer, HandleError, Recover, Answered, told, Erred, Places
    <3>2. QED
      BY <3>1 DEF Logged, Erred
  <2>3. QED
    BY <2>1, <2>2
<1>6. CASE UNCHANGED vars
  BY <1>1, <1>6 DEF Logged, Final, Erred, vars, told
<1>7. QED
  BY <1>1, <1>2, <1>3, <1>4, <1>5, <1>6, Steps

----------------------------------------------------------------------------
(* CORS on every path. *)

LEMMA BeforeIs ==
  ASSUME TypeOK, NEW i \in 1..Len(stack), NEW mw, stack[i] = mw
  PROVE  \A x : x \in Before(mw) <=> \E j \in 1..Len(stack) : j < i /\ stack[j] = x
<1>1. Len(stack) \in Nat /\ DOMAIN stack = 1..Len(stack)
      /\ \A k, j \in 1..Len(stack) : stack[k] = stack[j] => k = j
  BY DEF TypeOK
<1>2. {k \in DOMAIN stack : stack[k] = mw} = {i}
  BY <1>1
<1>3. Before(mw) = {stack[j] : j \in 1..i - 1}
  BY <1>2 DEF Before
<1>4. QED
  BY <1>1, <1>3

LEMMA AllowedIs ==
  ASSUME TypeOK
  PROVE  Allowed = IF AllowOrigin(policy, req.origin) = "" THEN << >>
                   ELSE <<AllowOrigin(policy, req.origin)>>
<1>1. policy \in {"any", "credentials", "listed"}
  BY DEF TypeOK
<1>2. CASE policy = "any"
  BY <1>2 DEF Allowed, AllowOrigin
<1>3. CASE policy = "credentials"
  BY <1>3 DEF Allowed, AllowOrigin
<1>4. CASE policy = "listed"
  BY <1>4 DEF Allowed, AllowOrigin
<1>5. QED
  BY <1>1, <1>2, <1>3, <1>4

(* CORS sets what the policy allows, on a header that has no answer yet. *)
LEMMA CORSSets ==
  ASSUME TypeOK, Places, Origins, EnterCORS \/ Preflight
  PROVE  OriginSet'
<1>1. /\ pc = "enter" /\ depth <= Len(stack) /\ stack[depth] = "cors"
      /\ hdr' = CORSHeaders /\ UNCHANGED <<policy, req>>
  BY DEF EnterCORS, Preflight, Entering, Deeper, Ended, chain
<1>2. req \in Requests /\ hdr \in Headers
  BY <1>1, Typed
<1>3. hdr.allow = << >>
  <2>1. depth \in 1..Len(stack) /\ ~(depth < depth)
    BY <1>1 DEF TypeOK, Places
  <2>2. QED
    BY <1>1, <2>1 DEF Origins, Inside
<1>4. /\ hdr'.vary = Append(hdr.vary, "Origin")
      /\ hdr'.allow = IF AllowOrigin(policy, req.origin) = "" THEN << >>
                      ELSE <<AllowOrigin(policy, req.origin)>>
  BY <1>1, <1>2, <1>3, CORSHeadersAre
<1>5. Contains(hdr'.vary, "Origin")
  <2>1. "Origin" \in Texts /\ hdr.vary \in Seq(Texts)
    BY <1>2 DEF Texts, Headers
  <2>2. \A x : Contains(Append(hdr.vary, "Origin"), x) <=> Contains(hdr.vary, x) \/ x = "Origin"
    BY <2>1, AppendIs
  <2>3. QED
    BY <1>4, <2>2
<1>6. hdr'.allow = Allowed /\ Allowed' = Allowed
  BY <1>1, <1>4, AllowedIs DEF Allowed
<1>7. QED
  BY <1>5, <1>6 DEF OriginSet

LEMMA OriginsNext == TypeOK /\ Places /\ Zipping /\ Origins /\ [Next]_vars => Origins'
<1>1. SUFFICES ASSUME TypeOK, Places, Zipping, Origins, [Next]_vars PROVE Origins'
  OBVIOUS
<1>. DEFINE Reached == Before("cors") \cap Guards # {} => req.known
<1>2. /\ Len(stack) \in Nat /\ depth \in Nat
      /\ \A i, j \in 1..Len(stack) : stack[i] = stack[j] => i = j
  BY <1>1 DEF TypeOK
<1>3. Uses("cors") => \E i \in 1..Len(stack) : stack[i] = "cors"
  BY DEF Uses, Contains
<1>4. ASSUME UNCHANGED <<stack, policy, req, hdr>>, gz' = "off" <=> gz = "off"
      PROVE  OriginSet' <=> OriginSet
  <2>1. Allowed' = Allowed
    BY <1>4 DEF Allowed
  <2>2. Before("cors")' = Before("cors")
    BY <1>4 DEF Before
  <2>3. QED
    BY <1>4, <2>1, <2>2 DEF OriginSet
<1>5. ASSUME NEW r \in Requests, Request(r) PROVE Origins'
  <2>1. pc' = "enter" /\ depth' = 1 /\ hdr' = NoHeader /\ stack' = stack
    BY <1>5, RequestIs
  <2>2. QED
    BY <1>2, <2>1 DEF Origins, Inside, NoHeader
<1>6. CASE Deepen
  <2>1. /\ Inside /\ Inside' /\ pc' = "enter" /\ depth' = depth + 1
        /\ UNCHANGED <<stack, policy, req>>
    BY <1>6, DeepenIs DEF Inside, Rest
  <2>2. depth \in 1..Len(stack)
    BY <1>1, <1>2, <1>6, DeepenIs DEF Places
  <2>3. CASE EnterCORS
    <3>1. OriginSet' /\ stack[depth] = "cors"
      BY <1>1, <2>3, CORSSets DEF EnterCORS, Entering
    <3>2. \A i \in 1..Len(stack) : stack[i] = "cors" => i < depth'
      BY <1>2, <2>1, <2>2, <3>1
    <3>3. QED
      BY <2>1, <3>1, <3>2 DEF Origins
  <2>4. CASE EnterCompress
    <3>1. /\ stack[depth] = "compress" /\ gz' # "off" /\ hdr'.allow = hdr.allow
      BY <1>1, <2>4, Typed DEF EnterCompress, Entering, Headers
    <3>2. ASSUME NEW i \in 1..Len(stack), stack[i] = "cors"
          PROVE  IF i < depth' THEN OriginSet' ELSE hdr'.allow = << >>
      <4>1. CASE i < depth
        <5>1. OriginSet
          BY <1>1, <2>1, <3>2, <4>1 DEF Origins
        <5>2. "compress" \notin Before("cors")
          <6>1. \A x : x \in Before("cors") <=> \E j \in 1..Len(stack) : j < i /\ stack[j] = x
            BY <1>1, <3>2, BeforeIs
          <6>2. \A j \in 1..Len(stack) : stack[j] = "compress" => j = depth
            BY <1>2, <2>2, <3>1
          <6>3. QED
            BY <1>2, <4>1, <6>1, <6>2
        <5>3. Allowed' = Allowed /\ Before("cors")' = Before("cors")
          BY <2>1 DEF Allowed, Before
        <5>4. OriginSet'
          BY <3>1, <5>1, <5>2, <5>3 DEF OriginSet
        <5>5. QED
          BY <1>2, <2>1, <4>1, <5>4
      <4>2. CASE ~(i < depth)
        <5>1. i # depth /\ ~(i < depth + 1)
          BY <1>2, <3>1, <3>2, <4>2
        <5>2. QED
          BY <1>1, <2>1, <3>1, <3>2, <4>2, <5>1 DEF Origins
      <4>3. QED
        BY <4>1, <4>2
    <3>3. QED
      BY <2>1, <3>2 DEF Origins
  <2>5. CASE ~EnterCORS /\ ~EnterCompress
    <3>1. UNCHANGED <<hdr, gz>> /\ stack[depth] # "cors"
      BY <1>6, <2>5
      DEF Deepen, GuardAccepts, EnterLogger, SkipCompress, CacheBypass, CacheMiss, Entering, wrap
    <3>2. OriginSet' <=> OriginSet
      BY <1>4, <2>1, <3>1
    <3>3. \A i \in 1..Len(stack) : stack[i] = "cors" => (i < depth' <=> i < depth)
      BY <1>2, <2>1, <2>2, <3>1
    <3>4. QED
      BY <1>1, <2>1, <3>1, <3>2, <3>3 DEF Origins
  <2>6. QED
    BY <2>3, <2>4, <2>5
<1>7. CASE Refuse
  <2>1. /\ Inside /\ ~Inside' /\ pc' = "leave" /\ UNCHANGED <<stack, policy, req, gz>>
    BY <1>7, RefuseIs DEF Inside, Rest
  <2>2. depth \in 1..Len(stack)
    BY <1>1, <1>2, <1>7, RefuseIs DEF Places
  <2>3. CASE Preflight
    BY <1>1, <2>1, <2>3, CORSSets DEF Origins
  <2>4. CASE JWTRefuses \/ KeyRefuses
    <3>1. hdr' = hdr /\ stack[depth] \in Guards /\ ~req.known
      BY <2>4 DEF JWTRefuses, KeyRefuses, Entering, Guards
    <3>2. ASSUME Uses("cors"), Reached PROVE OriginSet
      <4>1. PICK i \in 1..Len(stack) : stack[i] = "cors"
        BY <1>3, <3>2
      <4>2. ~(depth < i)
        BY <1>1, <2>2, <3>1, <3>2, <4>1, BeforeIs
      <4>3. i # depth
        BY <3>1, <4>1 DEF Guards
      <4>4. i < depth
        BY <1>2, <4>2, <4>3
      <4>5. QED
        BY <1>1, <2>1, <4>1, <4>4 DEF Origins
    <3>3. OriginSet' <=> OriginSet
      BY <1>4, <2>1, <3>1
    <3>4. QED
      BY <2>1, <3>2, <3>3 DEF Origins, Uses, Before
  <2>5. CASE CacheHit
    <3>1. outcome' = "cached"
      BY <2>5 DEF CacheHit, Ended
    <3>2. QED
      BY <2>1, <3>1 DEF Origins
  <2>6. QED
    BY <1>7, <2>3, <2>4, <2>5 DEF Refuse
<1>8. CASE Call \/ StreamBegin
  <2>1. /\ Inside /\ Inside' /\ pc' \in {"enter", "stream"} /\ UNCHANGED <<stack, policy, req, depth, hdr, gz>>
    BY <1>1, <1>8, CallIs, StreamBeginIs DEF Inside, Rest
  <2>2. OriginSet' <=> OriginSet
    BY <1>4, <2>1
  <2>3. QED
    BY <1>1, <2>1, <2>2 DEF Origins, Inside
<1>9. CASE Stop
  <2>1. /\ Inside /\ depth > Len(stack) /\ ~Inside' /\ UNCHANGED <<stack, policy, req, hdr, gz>>
    BY <1>1, <1>9, StopIs DEF Inside, Rest
  <2>2. OriginSet' <=> OriginSet
    BY <1>4, <2>1
  <2>3. Uses("cors") => OriginSet
    BY <1>1, <1>2, <1>3, <2>1 DEF Origins
  <2>4. QED
    BY <2>1, <2>2, <2>3 DEF Origins, Uses
<1>10. CASE LeaveOne \/ Answer
  <2>1. /\ pc \in {"leave", "recover"} /\ pc' \in {"leave", "end"}
        /\ UNCHANGED <<stack, policy, req, hdr, outcome>>
    BY <1>10, LeaveIs, AnswerIs DEF Rest
  <2>2. gz' = "off" <=> gz = "off"
    BY <1>1, <1>10, AnswerIs, CompressCloses DEF LeaveOne, LeavePlain, LeaveLogger, LeaveCache
  <2>3. OriginSet' <=> OriginSet
    BY <1>4, <2>1, <2>2
  <2>4. QED
    BY <1>1, <2>1, <2>3 DEF Origins, Inside, Uses, Before
<1>11. CASE Finish \/ Expire
  <2>1. pc' = "idle"
    BY <1>11, FinishIs, ExpireIs
  <2>2. QED
    BY <2>1 DEF Origins, Inside
<1>12. CASE UNCHANGED vars
  <2>1. UNCHANGED <<stack, policy, req, hdr, gz, pc, depth, outcome>>
    BY <1>12 DEF vars, chain, wrap, told
  <2>2. OriginSet' <=> OriginSet
    BY <1>4, <2>1
  <2>3. QED
    BY <1>1, <2>1, <2>2 DEF Origins, Inside, Uses, Before
<1>13. QED
  BY <1>1, <1>5, <1>6, <1>7, <1>8, <1>9, <1>10, <1>11, <1>12, Steps

----------------------------------------------------------------------------
(* What goes through no gzip. *)

LEMMA BareIs ==
  ASSUME NEW w \in Seq(Wrappers), ~Contains(w, "gz"), ~Contains(w, "shut"),
         NEW pieces \in Seq(Pieces)
  PROVE  /\ Through(ToSet(w), pieces) = pieces
         /\ \A x : Through(Around(w, x), pieces) = pieces
<1>1. DOMAIN w = 1..Len(w) /\ Len(w) \in Nat
  OBVIOUS
<1>2. "gz" \notin ToSet(w) /\ "shut" \notin ToSet(w)
  BY SetsAre
<1>3. ASSUME NEW x PROVE "gz" \notin Around(w, x) /\ "shut" \notin Around(w, x)
  <2>1. \A i \in 1..Len(w) : w[i] # "gz" /\ w[i] # "shut"
    BY <1>1 DEF Contains
  <2>2. \A i \in DOMAIN w : \A j \in i + 1..Len(w) : j \in 1..Len(w)
    BY <1>1
  <2>3. QED
    BY <2>1, <2>2 DEF Around
<1>4. QED
  BY <1>2, <1>3, ThroughIs

LEMMA NoGzip ==
  ASSUME TypeOK, Zipping, ~Uses("compress") \/ gz = "off"
  PROVE  gz = "off" /\ ~Contains(writer, "gz") /\ ~Contains(writer, "shut")
BY DEF Zipping

LEMMA HeadedMirrors ==
  ASSUME NEW o, NEW x, NEW w, NEW h, NEW code, Proper(o, h), Mirrored(o), Headed(x, o, w, h, code)
  PROVE  Mirrored(x)
BY DEF Proper, Mirrored, Headed, Bodiless

LEMMA WrittenMirrors ==
  ASSUME NEW o, NEW x, NEW w \in Seq(Wrappers), NEW h, NEW pieces \in Seq(Pieces),
         ~Contains(w, "gz"), ~Contains(w, "shut"), Contains(w, "rec"),
         Proper(o, h), Mirrored(o), Written(x, o, w, h, pieces)
  PROVE  Mirrored(x)
<1>1. Through(ToSet(w), pieces) = pieces /\ Through(Around(w, "rec"), pieces) = pieces
  BY BareIs
<1>2. /\ x.status = IF o.status = 0 THEN 200 ELSE o.status
      /\ x.body = IF x.status \in Bodiless THEN o.body ELSE o.body \o pieces
      /\ x.copy = o.copy \o pieces
  BY <1>1 DEF Written
<1>3. QED
  BY <1>2 DEF Proper, Mirrored, Bodiless

LEMMA RepliedMirrors ==
  ASSUME NEW o, NEW x, NEW w \in Seq(Wrappers), NEW h, NEW code, code \notin Bodiless,
         ~Contains(w, "gz"), ~Contains(w, "shut"), Contains(w, "rec"),
         Proper(o, h), Mirrored(o), Replied(x, o, w, h, code)
  PROVE  Mirrored(x)
<1>1. Plain(0) \in Seq(Pieces)
  BY PlainIs
<1>2. Through(ToSet(w), Plain(0)) = Plain(0) /\ Through(Around(w, "rec"), Plain(0)) = Plain(0)
  BY <1>1, BareIs
<1>3. /\ x.status = IF o.status = 0 THEN code ELSE o.status
      /\ x.body = IF x.status \in Bodiless THEN o.body ELSE o.body \o Plain(0)
      /\ x.copy = o.copy \o Plain(0)
  BY <1>2 DEF Replied
<1>4. QED
  BY <1>3 DEF Proper, Mirrored, Bodiless

LEMMA RecordedNext ==
  TypeOK /\ Places /\ Passed /\ Zipping /\ Wrapping /\ Sent /\ Recorded /\ [Next]_vars => Recorded'
<1>1. SUFFICES ASSUME TypeOK, Places, Passed, Zipping, Wrapping, Sent, Recorded, [Next]_vars,
                      ~Uses("compress")
               PROVE  Serving' /\ out'.recorded # 0 => Mirrored(out')
  BY Steps, RequestIs, DeepenIs, RefuseIs, CallIs, StreamBeginIs, StopIs, LeaveIs, AnswerIs, FinishIs, ExpireIs
  DEF Recorded, Uses, Rest, vars, chain
<1>2. /\ out \in Outs /\ hdr \in Headers /\ count \in Nat /\ Proper(out, hdr) /\ writer \in Seq(Wrappers)
      /\ gz = "off" /\ ~Contains(writer, "gz") /\ ~Contains(writer, "shut")
  BY <1>1, Typed, NoGzip DEF Sent, TypeOK
<1>3. out.status = 0 => Mirrored(out)
  BY <1>2 DEF Proper, Mirrored, Bodiless
<1>4. ASSUME NEW r \in Requests, Request(r) PROVE out'.recorded = 0
  BY <1>4, RequestIs, FreshIs
<1>5. CASE Deepen
  <2>1. out.status = 0 /\ out'.status = 0 /\ out'.body = out.body /\ out'.copy = out.copy
    BY <1>1, <1>5, DeepenIs, DeepenOut DEF Places, Arriving, Inside
  <2>2. QED
    BY <1>3, <2>1 DEF Mirrored, Bodiless
<1>6. CASE Refuse
  <2>1. Inside /\ out.status = 0 /\ Mirrored(out)
    BY <1>1, <1>3, <1>6, RefuseIs, RefuseIsProper DEF Inside
  <2>2. Proper(out, hdr')
    BY <1>2, <2>1 DEF Proper, Bodiless
  <2>3. out.recorded # 0 => Contains(writer, "rec")
    BY <1>1, <2>1 DEF Wrapping
  <2>4. CASE Preflight
    BY <1>1, <2>1, <2>2, <2>4, PreflightSends, HeadedMirrors
  <2>5. CASE JWTRefuses
    <3>1. Replied(out', out, writer, hdr, 401) /\ 401 \notin Bodiless
      BY <1>1, <2>5, JWTSends DEF Bodiless
    <3>2. out'.recorded # 0 => Contains(writer, "rec")
      BY <2>3, <3>1 DEF Replied
    <3>3. QED
      BY <1>2, <2>1, <3>1, <3>2, RepliedMirrors
  <2>6. CASE KeyRefuses
    BY <2>1, <2>6 DEF KeyRefuses
  <2>7. CASE CacheHit
    <3>1. PICK o : /\ Headed(o, out, writer, hdr', page.status)
                   /\ Written(out', o, writer, hdr', page.body)
      BY <1>1, <2>7, HitSends
    <3>2. page.status # 0 /\ page.body \in Seq(Pieces)
      BY <1>1, <2>7, HitSends DEF Passed
    <3>3. Mirrored(o) /\ Proper(o, hdr')
      BY <2>1, <2>2, <3>1, <3>2, HeadedMirrors, HeadedIsProper
    <3>4. out'.recorded # 0 => Contains(writer, "rec")
      BY <2>3, <3>1 DEF Headed, Written
    <3>5. QED
      BY <1>2, <3>1, <3>2, <3>3, <3>4, WrittenMirrors
  <2>8. QED
    BY <1>6, <2>4, <2>5, <2>6, <2>7 DEF Refuse
<1>7. CASE Call
  <2>1. Inside /\ Serving
    BY <1>1, <1>7, CallIs DEF Inside, Serving
  <2>2. ASSUME Contains(writer, "rec") PROVE Mirrored(out')
    <3>1. Mirrored(out)
      BY <1>1, <2>1, <2>2 DEF Wrapping, Recorded
    <3>2. ASSUME NEW code \in Statuses, HandlerStatus(code) PROVE Mirrored(out')
      BY <1>1, <1>2, <3>1, <3>2, StatusSends, HeadedMirrors
    <3>3. CASE HandlerWrite
      <4>1. Written(out', out, writer, hdr, Plain(count)) /\ Plain(count) \in Seq(Pieces)
        BY <1>1, <1>2, <3>3, WriteSends, PlainIs
      <4>2. QED
        BY <1>2, <2>2, <3>1, <4>1, WrittenMirrors
    <3>4. CASE StreamWrite
      <4>1. PICK o : Flushed(o, out, writer, hdr) /\ Written(out', o, writer, hdr, Plain(count))
        BY <1>1, <3>4, StreamSends
      <4>2. Plain(count) \in Seq(Pieces)
        BY <1>2, PlainIs
      <4>3. Proper(o, hdr)
        BY <1>2, <4>1, FlushedIsProper
      <4>4. Mirrored(o)
        BY <1>2, <3>1, <4>1 DEF Flushed, Mirrored, Proper, Bodiless
      <4>5. QED
        BY <1>2, <2>2, <4>1, <4>2, <4>3, <4>4, WrittenMirrors
    <3>5. QED
      BY <1>7, <3>2, <3>3, <3>4 DEF Call
  <2>3. out'.recorded # 0 => Contains(writer, "rec")
    <3>1. writer' = writer /\ Inside'
      BY <1>1, <1>7, CallIs DEF Inside
    <3>2. Wrapping'
      BY <1>1, WrappingNext
    <3>3. QED
      BY <3>1, <3>2 DEF Wrapping
  <2>4. QED
    BY <2>2, <2>3
<1>8. CASE StreamBegin \/ Stop
  BY <1>1, <1>8, StreamBeginIs, StopIs DEF Recorded, Serving, Inside
<1>9. CASE LeaveOne
  <2>1. pc = "leave" /\ out' = out
    BY <1>1, <1>2, <1>9, LeaveIs, CompressCloses DEF LeaveOne, LeavePlain, LeaveLogger, LeaveCache
  <2>2. QED
    BY <1>1, <2>1 DEF Recorded, Serving
<1>10. CASE Answer \/ Finish \/ Expire
  BY <1>10, AnswerIs, FinishIs, ExpireIs DEF Serving
<1>11. CASE UNCHANGED vars
  BY <1>1, <1>11 DEF Recorded, Serving, vars
<1>12. QED
  BY <1>1, <1>4, <1>5, <1>6, <1>7, <1>8, <1>9, <1>10, <1>11, Steps

----------------------------------------------------------------------------
(* What is plain, and what is compressed. *)

LEMMA OfConcat ==
  ASSUME NEW c, NEW s \in Seq(Pieces), NEW t \in Seq(Pieces), Of(c, s), Of(c, t)
  PROVE  Of(c, s \o t)
<1>1. DOMAIN s = 1..Len(s) /\ DOMAIN t = 1..Len(t) /\ s \o t \in Seq(Pieces)
  BY ConcatIs
<1>2. \A i \in 1..Len(s \o t) :
        \/ i \in 1..Len(s) /\ (s \o t)[i] = s[i]
        \/ \E j \in 1..Len(t) : (s \o t)[i] = t[j]
  BY ConcatIs
<1>3. DOMAIN (s \o t) = 1..Len(s \o t)
  BY <1>1
<1>4. QED
  BY <1>1, <1>2, <1>3 DEF Of

LEMMA OfNone == \A c : Of(c, << >>)
BY DEF Of

LEMMA ZippedIs ==
  ASSUME NEW w \in Seq(Wrappers), Contains(w, "gz"), NEW pieces \in Seq(Pieces)
  PROVE  Through(ToSet(w), pieces) \in Seq(Pieces) /\ Of("gzip", Through(ToSet(w), pieces))
<1>1. "gz" \in ToSet(w)
  BY SetsAre
<1>2. PICK t : t = Through(ToSet(w), pieces)
  OBVIOUS
<1>3. t \in Seq(Pieces) /\ \A i \in 1..Len(t) : t[i].coding = "gzip"
  BY <1>1, <1>2, ThroughIs
<1>4. DOMAIN t = 1..Len(t)
  BY <1>3
<1>5. QED
  BY <1>2, <1>3, <1>4 DEF Of

LEMMA StreamIs ==
  ASSUME NEW s \in Seq(Pieces), Of("gzip", s)
  PROVE  GzipStream(Append(s, Trailer))
<1>1. PICK t : t = Append(s, Trailer)
  OBVIOUS
<1>2. /\ Len(s) \in Nat /\ DOMAIN s = 1..Len(s) /\ t \in Seq(Pieces) /\ Len(t) = Len(s) + 1 /\ t # << >>
  BY <1>1, TrailerIs, AppendIs
<1>3. t[Len(t)] = Trailer /\ \A i \in 1..Len(s) : t[i] = s[i]
  BY <1>1, <1>2
<1>4. DOMAIN t = 1..Len(t)
  BY <1>2
<1>5. \A i \in 1..Len(t) : i = Len(t) \/ i \in 1..Len(s)
  BY <1>2
<1>6. \A i \in DOMAIN t : t[i].coding = IF i = Len(t) THEN "trailer" ELSE "gzip"
  <2>1. ASSUME NEW i \in DOMAIN t, i = Len(t) PROVE t[i].coding = "trailer"
    BY <1>3, <2>1, TrailerIs
  <2>2. ASSUME NEW i \in DOMAIN t, i # Len(t) PROVE t[i].coding = "gzip"
    <3>1. i \in 1..Len(s)
      BY <1>4, <1>5, <2>2
    <3>2. QED
      BY <1>2, <1>3, <3>1 DEF Of
  <2>3. QED
    BY <2>1, <2>2
<1>7. QED
  BY <1>1, <1>2, <1>6 DEF GzipStream

(* What a bare writer adds stays plain. *)
LEMMA WrittenPlain ==
  ASSUME NEW o \in Outs, NEW x, NEW w \in Seq(Wrappers), NEW h, NEW pieces \in Seq(Pieces),
         ~Contains(w, "gz"), ~Contains(w, "shut"), Of("plain", pieces),
         Of("plain", o.body), Of("plain", o.copy), Written(x, o, w, h, pieces)
  PROVE  Of("plain", x.body) /\ Of("plain", x.copy)
<1>1. Through(ToSet(w), pieces) = pieces /\ Through(Around(w, "rec"), pieces) = pieces
  BY BareIs
<1>2. /\ x.body = o.body \/ x.body = o.body \o pieces
      /\ x.copy = o.copy \/ x.copy = o.copy \o pieces
  BY <1>1 DEF Written
<1>3. o.body \in Seq(Pieces) /\ o.copy \in Seq(Pieces)
  BY DEF Outs
<1>4. Of("plain", o.body \o pieces) /\ Of("plain", o.copy \o pieces)
  BY <1>3, OfConcat
<1>5. QED
  BY <1>2, <1>4

LEMMA RepliedPlain ==
  ASSUME NEW o \in Outs, NEW x, NEW w \in Seq(Wrappers), NEW h, NEW code,
         ~Contains(w, "gz"), ~Contains(w, "shut"),
         Of("plain", o.body), Of("plain", o.copy), Replied(x, o, w, h, code)
  PROVE  Of("plain", x.body) /\ Of("plain", x.copy)
<1>0. Plain(0) \in Seq(Pieces) /\ Of("plain", Plain(0))
  BY PlainIs
<1>1. Through(ToSet(w), Plain(0)) = Plain(0) /\ Through(Around(w, "rec"), Plain(0)) = Plain(0)
  BY <1>0, BareIs
<1>2. /\ x.body = o.body \/ x.body = o.body \o Plain(0)
      /\ x.copy = o.copy \/ x.copy = o.copy \o Plain(0)
  BY <1>1 DEF Replied
<1>3. o.body \in Seq(Pieces) /\ o.copy \in Seq(Pieces)
  BY DEF Outs
<1>4. Of("plain", o.body \o Plain(0)) /\ Of("plain", o.copy \o Plain(0))
  BY <1>0, <1>3, OfConcat
<1>5. QED
  BY <1>2, <1>4

(* What goes through gzip is compressed. *)
LEMMA WrittenZipped ==
  ASSUME NEW o \in Outs, NEW x, NEW w \in Seq(Wrappers), NEW h, NEW pieces \in Seq(Pieces),
         Contains(w, "gz"), Of("gzip", o.body),
         x.body = o.body \/ x.body = o.body \o Through(ToSet(w), pieces)
  PROVE  Of("gzip", x.body)
<1>1. Through(ToSet(w), pieces) \in Seq(Pieces) /\ Of("gzip", Through(ToSet(w), pieces))
  BY ZippedIs
<1>2. o.body \in Seq(Pieces)
  BY DEF Outs
<1>3. QED
  BY <1>1, <1>2, OfConcat

LEMMA HeaderCodedNext ==
  ASSUME TypeOK, Places, Zipping, Alone, HeaderCoded, PageCoded, [Next]_vars
  PROVE  HeaderCoded'
<1>1. hdr \in Headers
  BY Typed
<1>2. ASSUME NEW r \in Requests, Request(r) PROVE HeaderCoded'
  <2>1. hdr' = NoHeader /\ gz' = "off"
    BY <1>2, RequestIs
  <2>2. NoHeader.encoding = << >>
    BY DEF NoHeader
  <2>3. QED
    BY <2>1, <2>2 DEF HeaderCoded
<1>3. CASE Deepen
  <2>1. pc = "enter"
    BY <1>3, DeepenIs
  <2>2. CASE EnterCORS
    <3>1. hdr'.encoding = hdr.encoding /\ gz' = gz
      BY <2>1, <2>2, Typed, CORSHeadersAre DEF EnterCORS, wrap
    <3>2. QED
      BY <2>1, <3>1 DEF HeaderCoded
  <2>3. CASE EnterCompress
    BY <1>1, <2>3 DEF EnterCompress, Headers, HeaderCoded
  <2>4. CASE ~EnterCORS /\ ~EnterCompress
    <3>1. hdr' = hdr /\ gz' = gz
      BY <1>3, <2>4 DEF Deepen, GuardAccepts, EnterLogger, SkipCompress, CacheBypass, CacheMiss, wrap
    <3>2. QED
      BY <2>1, <3>1 DEF HeaderCoded
  <2>5. QED
    BY <2>2, <2>3, <2>4
<1>4. CASE Refuse
  <2>1. pc = "enter" /\ gz' = gz
    BY <1>4, RefuseIs
  <2>2. CASE Preflight
    <3>1. hdr'.encoding = hdr.encoding
      BY <2>1, <2>2, Typed, CORSHeadersAre DEF Preflight
    <3>2. QED
      BY <2>1, <3>1 DEF HeaderCoded
  <2>3. CASE JWTRefuses \/ KeyRefuses
    BY <2>1, <2>3 DEF JWTRefuses, KeyRefuses, HeaderCoded
  <2>4. CASE CacheHit
    <3>1. Uses("cache")
      <4>1. stack[depth] = "cache" /\ depth \in 1..Len(stack)
        BY <2>4 DEF CacheHit, Entering, TypeOK, Places
      <4>2. QED
        BY <4>1 DEF Uses, Contains
    <3>2. ~Uses("compress") /\ gz = "off"
      BY <3>1, NoGzip DEF Alone
    <3>3. page # NoPage /\ hdr'.encoding = hdr.encoding \o page.header.encoding
      BY <2>4, HitSends
    <3>4. hdr.encoding = << >> /\ page.header.encoding = << >>
      BY <2>1, <3>2, <3>3 DEF HeaderCoded, PageCoded
    <3>5. hdr'.encoding = << >>
      BY <3>3, <3>4
    <3>6. QED
      BY <2>1, <3>2, <3>5 DEF HeaderCoded
  <2>5. QED
    BY <1>4, <2>2, <2>3, <2>4 DEF Refuse
<1>5. CASE Call \/ StreamBegin \/ Stop
  BY <1>5, CallIs, StreamBeginIs, StopIs DEF HeaderCoded, Inside
<1>6. CASE LeaveOne \/ Answer
  <2>1. pc # "idle" /\ hdr' = hdr
    BY <1>6, LeaveIs, AnswerIs
  <2>2. gz' = "off" <=> gz = "off"
    BY <1>6, AnswerIs, CompressCloses DEF LeaveOne, LeavePlain, LeaveLogger, LeaveCache
  <2>3. QED
    BY <2>1, <2>2 DEF HeaderCoded
<1>7. CASE Finish \/ Expire
  BY <1>7, FinishIs, ExpireIs DEF HeaderCoded
<1>8. CASE UNCHANGED vars
  BY <1>8 DEF HeaderCoded, vars, wrap
<1>9. QED
  BY <1>2, <1>3, <1>4, <1>5, <1>6, <1>7, <1>8, Steps

LEMMA BodyCodedNext ==
  ASSUME TypeOK, Places, Passed, Zipping, Sent, Alone, BodyCoded, PageCoded, [Next]_vars
  PROVE  BodyCoded'
<1>1. /\ out \in Outs /\ count \in Nat /\ writer \in Seq(Wrappers) /\ gz \in {"off", "open", "closed"}
      /\ out.body \in Seq(Pieces)
  BY Typed DEF TypeOK, Outs
<1>2. gz = "off" => ~Contains(writer, "gz") /\ ~Contains(writer, "shut")
  BY DEF Zipping
<1>3. ASSUME out'.body = << >>, out'.copy = << >> PROVE Of("plain", out'.body) /\ Of("plain", out'.copy) /\ Of("gzip", out'.body)
  BY <1>3, OfNone
<1>4. ASSUME (\E r \in Requests : Request(r)) \/ Finish PROVE BodyCoded'
  BY <1>3, <1>4, RequestIs, FinishIs, FreshIs DEF BodyCoded
<1>5. CASE Deepen
  <2>1. Proper(out, hdr) /\ out.status = 0 /\ out'.body = out.body /\ out'.copy = out.copy /\ pc' = "enter" /\ pc = "enter"
    BY <1>5, DeepenIs, DeepenOut DEF Places, Arriving, Inside, Sent
  <2>2. out'.body = << >> /\ out'.copy = << >>
    BY <2>1 DEF Proper
  <2>3. QED
    BY <1>3, <2>1, <2>2 DEF BodyCoded
<1>6. CASE Refuse
  <2>1. /\ Inside /\ Serving /\ out.status = 0 /\ gz' = gz /\ pc' = "leave" /\ gz # "closed"
        /\ (gz = "open" => Contains(writer, "gz") /\ Of("gzip", out.body))
    BY <1>6, RefuseIs, RefuseIsProper DEF Inside, Serving, Zipping, BodyCoded
  <2>2. CASE Preflight \/ KeyRefuses
    <3>1. out'.body = out.body /\ out'.copy = out.copy
      BY <2>2, PreflightSends DEF Headed, KeyRefuses
    <3>2. QED
      BY <1>1, <2>1, <3>1 DEF BodyCoded
  <2>3. CASE JWTRefuses
    <3>1. Replied(out', out, writer, hdr, 401)
      BY <2>3, JWTSends
    <3>2. gz = "off" => Of("plain", out'.body) /\ Of("plain", out'.copy)
      BY <1>1, <1>2, <3>1, RepliedPlain DEF BodyCoded
    <3>3. gz = "open" => Of("gzip", out'.body)
      <4>1. out'.body = out.body \/ out'.body = out.body \o Through(ToSet(writer), Plain(0))
        BY <3>1 DEF Replied
      <4>2. Plain(0) \in Seq(Pieces)
        BY PlainIs
      <4>3. QED
        BY <1>1, <2>1, <4>1, <4>2, WrittenZipped
    <3>4. QED
      BY <1>1, <2>1, <3>2, <3>3 DEF BodyCoded
  <2>4. CASE CacheHit
    <3>1. Uses("cache")
      <4>1. stack[depth] = "cache" /\ depth \in 1..Len(stack)
        BY <2>4 DEF CacheHit, Entering, TypeOK, Places
      <4>2. QED
        BY <4>1 DEF Uses, Contains
    <3>2. ~Uses("compress") /\ gz = "off"
      BY <3>1, NoGzip DEF Alone
    <3>3. PICK o : /\ Headed(o, out, writer, hdr', page.status)
                   /\ Written(out', o, writer, hdr', page.body)
      BY <2>4, HitSends
    <3>4. /\ o \in Outs /\ o.body = out.body /\ o.copy = out.copy
          /\ page # NoPage /\ page.body \in Seq(Pieces)
      BY <2>4, <3>3, HitSends DEF Headed
    <3>5. Of("plain", page.body) /\ Of("plain", o.body) /\ Of("plain", o.copy)
      BY <3>2, <3>4 DEF PageCoded, BodyCoded
    <3>6. Of("plain", out'.body) /\ Of("plain", out'.copy)
      BY <1>1, <1>2, <3>2, <3>3, <3>4, <3>5, WrittenPlain
    <3>7. QED
      BY <2>1, <3>2, <3>6 DEF BodyCoded
  <2>5. QED
    BY <1>6, <2>2, <2>3, <2>4 DEF Refuse
<1>7. CASE Call
  <2>1. /\ Inside /\ Serving /\ gz' = gz /\ pc' = pc /\ gz # "closed"
        /\ (gz = "open" => Contains(writer, "gz") /\ Of("gzip", out.body))
        /\ (gz = "off" => Of("plain", out.body) /\ Of("plain", out.copy))
    BY <1>7, CallIs DEF Inside, Serving, Zipping, BodyCoded
  <2>2. ASSUME NEW o \in Outs, o.body = out.body, o.copy = out.copy,
               Written(out', o, writer, hdr, Plain(count))
        PROVE  BodyCoded'
    <3>1. Plain(count) \in Seq(Pieces) /\ Of("plain", Plain(count))
      BY <1>1, PlainIs
    <3>2. gz = "off" => Of("plain", out'.body) /\ Of("plain", out'.copy)
      BY <1>1, <1>2, <2>1, <2>2, <3>1, WrittenPlain
    <3>3. gz = "open" => Of("gzip", out'.body)
      <4>1. out'.body = o.body \/ out'.body = o.body \o Through(ToSet(writer), Plain(count))
        BY <2>2 DEF Written
      <4>2. QED
        BY <1>1, <2>1, <2>2, <3>1, <4>1, WrittenZipped
    <3>4. QED
      BY <1>1, <2>1, <3>2, <3>3 DEF BodyCoded
  <2>3. ASSUME NEW code \in Statuses, HandlerStatus(code) PROVE BodyCoded'
    <3>1. out'.body = out.body /\ out'.copy = out.copy
      BY <2>3, StatusSends DEF Headed
    <3>2. QED
      BY <1>1, <2>1, <3>1 DEF BodyCoded
  <2>4. CASE HandlerWrite
    BY <1>1, <2>2, <2>4, WriteSends
  <2>5. CASE StreamWrite
    <3>1. PICK o : Flushed(o, out, writer, hdr) /\ Written(out', o, writer, hdr, Plain(count))
      BY <2>5, StreamSends
    <3>2. o \in Outs /\ o.body = out.body /\ o.copy = out.copy
      BY <3>1 DEF Flushed
    <3>3. QED
      BY <2>2, <3>1, <3>2
  <2>6. QED
    BY <1>7, <2>3, <2>4, <2>5 DEF Call
<1>8. CASE StreamBegin \/ Stop
  <2>1. /\ Serving /\ UNCHANGED <<out, gz>> /\ gz # "closed"
    BY <1>8, StreamBeginIs, StopIs DEF Inside, Serving, Zipping
  <2>2. QED
    BY <2>1 DEF BodyCoded
<1>9. CASE LeaveOne
  <2>1. pc = "leave" /\ pc' = "leave" /\ Serving
    BY <1>9, LeaveIs DEF Serving
  <2>2. CASE UNCHANGED <<out, gz>>
    BY <2>1, <2>2 DEF BodyCoded, Whole
  <2>3. CASE gz = "open" /\ gz' = "closed" /\ Closed(out', out)
    <3>1. /\ out'.status = Final(out)
          /\ out'.body = IF out.status \in Bodiless THEN out.body ELSE Append(out.body, Trailer)
      BY <2>3 DEF Closed
    <3>2. out'.status # 0 /\ (out'.status \in Bodiless <=> out.status \in Bodiless)
      BY <3>1 DEF Final, Bodiless
    <3>3. Of("gzip", out.body)
      BY <2>1, <2>3 DEF BodyCoded
    <3>4. GzipStream(Append(out.body, Trailer))
      BY <1>1, <3>3, StreamIs
    <3>5. Whole(out')
      BY <3>1, <3>2, <3>4 DEF Whole, Sent, Proper
    <3>6. QED
      BY <2>3, <3>2, <3>5 DEF BodyCoded, Whole
  <2>4. QED
    BY <1>9, <2>2, <2>3, CompressCloses DEF LeaveOne, LeavePlain, LeaveLogger, LeaveCache
<1>10. CASE Answer
  <2>1. pc' = "end" /\ outcome' = outcome /\ gz' # "open" /\ (gz' = "off" <=> gz = "off")
    <3>1. Zipping' /\ gz' \in {"off", "open", "closed"}
      BY ZippingNext, TypeNext DEF TypeOK
    <3>2. QED
      BY <1>1, <1>10, <3>1, AnswerIs DEF Zipping
  <2>2. CASE Return
    <3>1. pc = "leave" /\ out' = out /\ gz' = gz
      BY <2>2 DEF Return, Answered
    <3>2. QED
      BY <2>1, <3>1 DEF BodyCoded, Whole
  <2>3. CASE HandleError
    <3>1. outcome' \in {"err", "denied"} /\ Replied(out', out, writer, hdr, ErrorCode)
      BY <2>1, <2>3, ErrorSends DEF HandleError
    <3>2. gz = "off" => Of("plain", out'.body) /\ Of("plain", out'.copy)
      BY <1>1, <1>2, <3>1, RepliedPlain DEF BodyCoded
    <3>3. QED
      BY <2>1, <3>1, <3>2 DEF BodyCoded
  <2>4. CASE Recover
    <3>1. outcome' = "panic"
      BY <2>1, <2>4 DEF Recover, Places
    <3>2. gz = "off" => Replied(out', out, writer', hdr, 500)
      BY <2>4, RecoverSends
    <3>3. writer' \in Seq(Wrappers) /\ (gz = "off" => ~Contains(writer', "gz") /\ ~Contains(writer', "shut"))
      BY <2>1, ZippingNext, TypeNext DEF Zipping, TypeOK
    <3>4. gz = "off" => Of("plain", out'.body) /\ Of("plain", out'.copy)
      BY <1>1, <3>2, <3>3, RepliedPlain DEF BodyCoded
    <3>5. QED
      BY <2>1, <3>1, <3>4 DEF BodyCoded
  <2>5. QED
    BY <1>10, <2>2, <2>3, <2>4 DEF Answer
<1>11. CASE Expire \/ UNCHANGED vars
  BY <1>11, ExpireIs DEF BodyCoded, Whole, Serving, vars, wrap, told
<1>12. QED
  BY <1>4, <1>5, <1>6, <1>7, <1>8, <1>9, <1>10, <1>11, Steps

LEMMA PageCodedNext ==
  ASSUME TypeOK, Places, Zipping, Alone, HeaderCoded, BodyCoded, PageCoded, [Next]_vars
  PROVE  PageCoded'
<1>1. Uses("compress")' <=> Uses("compress")
  BY Steps, RequestIs, DeepenIs, RefuseIs, CallIs, StreamBeginIs, StopIs, LeaveIs, AnswerIs, FinishIs, ExpireIs
  DEF Uses, Rest, vars, chain
<1>2. CASE LeaveCache /\ page' # page
  <2>1. /\ pc = "leave"
        /\ page' = [status |-> out.recorded, header |-> hdr, body |-> out.copy, of |-> count]
    BY <1>2 DEF LeaveCache, Leaving
  <2>2. page'.header = hdr /\ page'.body = out.copy
    BY <2>1
  <2>3. ~Uses("compress") => gz = "off"
    BY NoGzip
  <2>4. QED
    BY <1>1, <2>1, <2>2, <2>3 DEF PageCoded, HeaderCoded, BodyCoded
<1>3. CASE page' = page \/ page' = NoPage
  BY <1>1, <1>3 DEF PageCoded
<1>4. QED
  BY <1>2, <1>3, Steps, RequestIs, DeepenIs, RefuseIs, CallIs, StreamBeginIs, StopIs, AnswerIs, FinishIs, ExpireIs
  DEF LeaveOne, LeavePlain, LeaveLogger, LeaveCompress, vars, past

LEMMA CodedNext ==
  TypeOK /\ Places /\ Passed /\ Zipping /\ Sent /\ Coded /\ [Next]_vars => Coded'
<1>1. SUFFICES ASSUME TypeOK, Places, Passed, Zipping, Sent, Coded, [Next]_vars, Alone'
               PROVE  HeaderCoded' /\ BodyCoded' /\ PageCoded'
  BY DEF Coded
<1>2. Alone
  BY <1>1, Steps, RequestIs, DeepenIs, RefuseIs, CallIs, StreamBeginIs, StopIs, LeaveIs, AnswerIs, FinishIs, ExpireIs
  DEF Alone, Uses, Rest, vars, chain
<1>3. QED
  BY <1>1, <1>2, HeaderCodedNext, BodyCodedNext, PageCodedNext DEF Coded

----------------------------------------------------------------------------
(* The cached page. *)

LEMMA SameStack == Places /\ [Next]_vars => stack' = stack /\ policy' = policy
BY Steps, RequestIs, DeepenIs, RefuseIs, CallIs, StreamBeginIs, StopIs, LeaveIs, AnswerIs, FinishIs, ExpireIs
DEF Rest, vars, chain

LEMMA VariedNext == TypeOK /\ Places /\ Varied /\ [Next]_vars => Varied'
<1>1. SUFFICES ASSUME TypeOK, Places, Varied, [Next]_vars, Inside', ~Uses("compress"), stack' = stack
               PROVE  Varied'
  BY SameStack DEF Varied, Uses
<1>2. /\ Len(stack) \in Nat /\ depth \in Nat /\ hdr \in Headers
      /\ \A i, j \in 1..Len(stack) : stack[i] = stack[j] => i = j
  BY <1>1 DEF TypeOK
<1>. DEFINE Behind(d) == \E i \in 1..Len(stack) : i < d /\ stack[i] = "cors"
<1>3. ASSUME NEW r \in Requests, Request(r) PROVE Varied'
  <2>1. hdr' = NoHeader /\ depth' = 1
    BY <1>3, RequestIs
  <2>2. ~Behind(1)
    BY <1>2
  <2>3. QED
    BY <1>1, <2>1, <2>2 DEF Varied
<1>4. ASSUME Inside, UNCHANGED <<policy, req, hdr>>, Behind(depth') <=> Behind(depth)
      PROVE  Varied'
  BY <1>1, <1>4 DEF Varied, CORSValues
<1>5. CASE Deepen
  <2>1. /\ pc = "enter" /\ Inside /\ depth' = depth + 1 /\ depth \in 1..Len(stack)
        /\ UNCHANGED <<policy, req>>
    BY <1>1, <1>2, <1>5, DeepenIs DEF Places, Inside, Rest
  <2>2. CASE EnterCORS
    <3>1. stack[depth] = "cors" /\ hdr' = CORSHeaders
      BY <2>2 DEF EnterCORS, Entering
    <3>2. ~Behind(depth) /\ Behind(depth')
      BY <1>2, <2>1, <3>1
    <3>3. hdr = NoHeader
      BY <1>1, <2>1, <3>2 DEF Varied
    <3>4. hdr' = CORSValues
      <4>1. PICK a : a = IF AllowOrigin(policy, req.origin) = "" THEN << >>
                         ELSE <<AllowOrigin(policy, req.origin)>>
        OBVIOUS
      <4>2. hdr' = [hdr EXCEPT !.vary = Append(@, "Origin"), !.allow = a]
        BY <3>1, <3>3, <4>1 DEF CORSHeaders, NoHeader
      <4>3. PICK v : v = Append(hdr.vary, "Origin")
        OBVIOUS
      <4>4. v = <<"Origin">>
        <5>1. hdr.vary = << >>
          BY <3>3 DEF NoHeader
        <5>2. QED
          BY <4>3, <5>1
      <4>5. hdr' = [vary |-> v, encoding |-> << >>, allow |-> a]
        BY <3>3, <4>2, <4>3 DEF NoHeader
      <4>6. QED
        BY <4>1, <4>4, <4>5 DEF CORSValues
    <3>5. CORSValues' = CORSValues
      BY <2>1 DEF CORSValues
    <3>6. QED
      BY <1>1, <3>2, <3>4, <3>5 DEF Varied
  <2>3. CASE EnterCompress
    <3>1. Uses("compress")
      BY <2>1, <2>3 DEF EnterCompress, Entering, Uses, Contains
    <3>2. QED
      BY <1>1, <3>1
  <2>4. CASE ~EnterCORS /\ ~EnterCompress
    <3>1. hdr' = hdr /\ stack[depth] # "cors"
      BY <1>5, <2>4
      DEF Deepen, GuardAccepts, EnterLogger, SkipCompress, CacheBypass, CacheMiss, Entering
    <3>2. Behind(depth') <=> Behind(depth)
      BY <1>2, <2>1, <3>1
    <3>3. QED
      BY <1>4, <2>1, <3>1, <3>2
  <2>5. QED
    BY <2>2, <2>3, <2>4
<1>6. CASE Call \/ StreamBegin
  <2>1. Inside /\ UNCHANGED <<policy, req, hdr, depth>>
    BY <1>1, <1>6, CallIs, StreamBeginIs DEF Inside, Rest
  <2>2. QED
    BY <1>4, <2>1
<1>7. CASE UNCHANGED vars
  <2>1. Inside /\ UNCHANGED <<policy, req, hdr, depth>>
    BY <1>1, <1>7 DEF Inside, vars, chain
  <2>2. QED
    BY <1>4, <2>1
<1>8. CASE Refuse \/ Stop \/ LeaveOne \/ Answer \/ Finish \/ Expire
  BY <1>1, <1>8, RefuseIs, StopIs, LeaveIs, AnswerIs, FinishIs, ExpireIs DEF Inside
<1>9. QED
  BY <1>1, <1>3, <1>5, <1>6, <1>7, <1>8, Steps

LEMMA SucceededNext == TypeOK /\ Places /\ Passed /\ Succeeded /\ [Next]_vars => Succeeded'
<1>1. SUFFICES ASSUME TypeOK, Places, Passed, Succeeded, [Next]_vars, stack' = stack,
                      pc' \in {"leave", "end"}, outcome' = "ok", Guarded
               PROVE  req'.known
  BY SameStack DEF Succeeded, Guarded, Uses
<1>2. CASE Stop
  <2>1. Inside /\ depth > Len(stack) /\ req' = req
    BY <1>1, <1>2, StopIs
  <2>2. PICK i \in 1..Len(stack) : stack[i] \in Guards
    BY <1>1 DEF Guarded, Uses, Contains
  <2>3. Entered(i)
    <3>1. Len(stack) \in Nat /\ depth \in Nat
      BY <1>1 DEF TypeOK
    <3>2. QED
      BY <2>1, <2>2, <3>1 DEF Entered
  <2>4. QED
    BY <1>1, <2>1, <2>2, <2>3 DEF Passed
<1>3. CASE LeaveOne \/ Answer
  <2>1. pc \in {"leave", "end"} /\ outcome = "ok" /\ req' = req
    BY <1>1, <1>3, LeaveIs, AnswerIs DEF Places
  <2>2. QED
    BY <1>1, <2>1 DEF Succeeded
<1>4. CASE Expire \/ UNCHANGED vars
  BY <1>1, <1>4, ExpireIs DEF Succeeded, vars, chain, told
<1>5. QED
  BY <1>1, <1>2, <1>3, <1>4, Steps, RequestIs, DeepenIs, RefuseIs, CallIs, StreamBeginIs, FinishIs DEF Inside

LEMMA PageStored ==
  ASSUME TypeOK, Places, Passed, Told, Noted, LeaveCache, page' # page
  PROVE  /\ pc = "leave" /\ outcome = "ok" /\ out' = out /\ hdr' = hdr
         /\ out.recorded # 0 /\ (out.recorded = Final(out) \/ late)
         /\ page' # NoPage => /\ page'.status = out.recorded /\ page'.header = hdr
                              /\ page'.body = out.copy /\ page'.of = count
<1>1. /\ pc = "leave" /\ depth > 0 /\ stack[depth] = "cache" /\ out' = out /\ hdr' = hdr
      /\ ~req.preflight /\ outcome \in {"ok", "refused"} /\ out.recorded < 400
      /\ page' = [status |-> out.recorded, header |-> hdr, body |-> out.copy, of |-> count]
  BY DEF LeaveCache, Leaving, Cacheable
<1>2. out.recorded # 0
  <2>1. Len(stack) \in Nat /\ depth \in Nat
    BY DEF TypeOK
  <2>2. depth \in 1..Len(stack) /\ Entered(depth)
    BY <1>1, <2>1 DEF Places, Entered, Inside
  <2>3. QED
    BY <1>1, <2>2 DEF Passed
<1>3. out.recorded = Final(out) \/ late
  BY <1>1, <1>2 DEF Noted, Serving, Erred
<1>4. outcome = "ok"
  <2>1. ASSUME outcome = "refused" PROVE FALSE
    <3>1. calls = 0 /\ ~late
      BY <1>1, <2>1 DEF Told
    <3>2. Tells(Final(out))
      BY <1>1, <2>1, <3>1 DEF Told, Erred
    <3>3. Final(out) = 401
      BY <2>1, <3>2 DEF Tells
    <3>4. QED
      BY <1>1, <1>3, <3>1, <3>3
  <2>2. QED
    BY <1>1, <2>1
<1>5. QED
  BY <1>1, <1>2, <1>3, <1>4

LEMMA PageSteps ==
  ASSUME Places, [Next]_vars
  PROVE  /\ page' = page \/ page' = NoPage \/ LeaveCache
         /\ count' = count \/ (\E r \in Requests : Request(r))
BY Steps, RequestIs, DeepenIs, RefuseIs, CallIs, StreamBeginIs, StopIs, LeaveIs, AnswerIs, FinishIs, ExpireIs
DEF Rest, LeaveOne, LeavePlain, LeaveLogger, LeaveCompress, vars, past

LEMMA PageKeptNext ==
  TypeOK /\ Places /\ Passed /\ Told /\ Noted /\ PageKept /\ [Next]_vars => PageKept'
<1>1. SUFFICES ASSUME TypeOK, Places, Passed, Told, Noted, PageKept, [Next]_vars PROVE PageKept'
  OBVIOUS
<1>2. count \in Nat /\ (page # NoPage => page.of \in Nat) /\ (count' = count \/ count' = count + 1)
  BY <1>1, Typed, PageSteps, RequestIs
<1>3. CASE page' = page \/ page' = NoPage
  BY <1>1, <1>2, <1>3 DEF PageKept
<1>4. CASE LeaveCache /\ page' # page
  <2>1. count' = count /\ (page' # NoPage => page'.of = count)
    BY <1>1, <1>4, PageStored DEF LeaveCache, Leaving
  <2>2. QED
    BY <1>2, <2>1 DEF PageKept
<1>5. QED
  BY <1>1, <1>3, <1>4, PageSteps

LEMMA MakingNext ==
  TypeOK /\ Places /\ Passed /\ Zipping /\ Sent /\ Told /\ Noted /\ Recorded /\ PageKept /\ Making /\ [Next]_vars
    => Making'
<1>1. SUFFICES ASSUME TypeOK, Places, Passed, Zipping, Sent, Told, Noted, Recorded, PageKept, Making, [Next]_vars,
                      stack' = stack, pc' # "idle", Made'
               PROVE  Making'
  BY SameStack DEF Making
<1>2. \A mw : Uses(mw)' <=> Uses(mw)
  BY <1>1 DEF Uses
<1>3. count \in Nat /\ (page # NoPage => page.of \in Nat)
  BY <1>1, Typed
<1>4. ASSUME NEW r \in Requests, Request(r) PROVE FALSE
  <2>1. page' = page /\ count' = count + 1
    BY <1>4, RequestIs
  <2>2. page # NoPage /\ page.of = count + 1
    BY <1>1, <2>1 DEF Made
  <2>3. page.of <= count
    BY <1>1, <2>2 DEF PageKept
  <2>4. QED
    BY <1>3, <2>2, <2>3
<1>5. CASE Deepen \/ Refuse \/ Call \/ StreamBegin \/ Stop
  <2>1. Inside /\ UNCHANGED <<page, count>>
    BY <1>1, <1>5, DeepenIs, RefuseIs, CallIs, StreamBeginIs, StopIs DEF Inside, Rest
  <2>2. Made
    BY <1>1, <2>1 DEF Made
  <2>3. QED
    BY <1>1, <2>1, <2>2 DEF Making, Inside
<1>6. CASE LeaveCache /\ page' # page
  <2>1. /\ pc = "leave" /\ outcome = "ok" /\ out' = out /\ hdr' = hdr
        /\ out.recorded # 0 /\ (out.recorded = Final(out) \/ late)
        /\ page'.status = out.recorded /\ page'.header = hdr /\ page'.body = out.copy
    BY <1>1, <1>6, PageStored DEF Made
  <2>2. pc' = "leave" /\ outcome' = outcome /\ late' = late
    BY <1>6, LeaveIs DEF LeaveOne
  <2>3. ~Uses("compress") => out.body = IF out.status \in Bodiless THEN << >> ELSE out.copy
    BY <1>1, <2>1 DEF Recorded, Serving, Mirrored
  <2>4. QED
    BY <1>2, <2>1, <2>2, <2>3 DEF Making
<1>7. CASE LeaveOne /\ page' = page
  <2>1. /\ pc = "leave" /\ pc' = "leave" /\ UNCHANGED <<hdr, outcome, late, count>> /\ Final(out') = Final(out)
    BY <1>1, <1>7, LeaveIs, LeaveIsProper DEF Rest
  <2>2. Made
    BY <1>1, <1>7, <2>1 DEF Made
  <2>3. ~Uses("compress") => out' = out
    BY <1>1, <1>7, NoGzip, CompressCloses DEF LeaveOne, LeavePlain, LeaveLogger, LeaveCache
  <2>4. QED
    BY <1>1, <1>2, <1>7, <2>1, <2>2, <2>3 DEF Making
<1>8. CASE Answer
  <2>1. Made /\ pc # "idle" /\ page' = page
    BY <1>1, <1>8, AnswerIs DEF Made, Rest
  <2>2. outcome = "ok" /\ pc = "leave"
    BY <1>1, <1>8, <2>1, AnswerIs DEF Making
  <2>3. Return
    BY <1>8, <2>2 DEF Answer, HandleError, Recover
  <2>4. UNCHANGED <<hdr, outcome, late, out>> /\ pc' = "end"
    BY <2>3 DEF Return, Answered, told
  <2>5. QED
    BY <1>1, <1>2, <2>1, <2>2, <2>4 DEF Making
<1>9. CASE Finish \/ Expire
  BY <1>1, <1>9, FinishIs, ExpireIs
<1>10. CASE UNCHANGED vars
  BY <1>1, <1>2, <1>10 DEF Making, Made, vars, told, past
<1>11. QED
  BY <1>1, <1>4, <1>5, <1>6, <1>7, <1>8, <1>9, <1>10, Steps DEF LeaveOne, LeavePlain, LeaveLogger, LeaveCompress

LEMMA PageOfMissNext ==
  TypeOK /\ Places /\ Sent /\ Passed /\ Told /\ Noted /\ Succeeded /\ Making /\ PageOfMiss /\ [Next]_vars => PageOfMiss'
<1>1. SUFFICES ASSUME TypeOK, Places, Sent, Passed, Told, Noted, Succeeded, Making, PageOfMiss, [Next]_vars,
                      stack' = stack, page' # NoPage, pc' = "idle" \/ page'.of # count'
               PROVE  PageOfMiss'
  BY SameStack DEF PageOfMiss
<1>2. (\A mw : Uses(mw)' <=> Uses(mw)) /\ (Guarded' <=> Guarded)
  BY <1>1 DEF Uses, Guarded
<1>3. ASSUME page' = page, miss' = miss, pc = "idle" \/ page.of # count PROVE PageOfMiss'
  BY <1>1, <1>2, <1>3 DEF PageOfMiss
<1>4. ASSUME NEW r \in Requests, Request(r) PROVE PageOfMiss'
  BY <1>3, <1>4, RequestIs
<1>5. CASE LeaveCache /\ page' # page
  <2>1. page'.of = count /\ count' = count /\ pc' = "leave"
    BY <1>1, <1>5, PageStored, LeaveIs DEF LeaveOne, Rest
  <2>2. QED
    BY <1>1, <2>1
<1>6. CASE Finish
  <2>1. pc = "end" /\ page' = page /\ miss' = (IF Made THEN last' ELSE miss)
    BY <1>6, FinishIs
  <2>2. CASE ~Made
    BY <1>1, <1>3, <2>1, <2>2 DEF Made
  <2>3. CASE Made
    <3>1. /\ outcome = "ok" /\ (page.status = Final(out) \/ late) /\ page.header = hdr
          /\ ~Uses("compress") => out.body = IF out.status \in Bodiless THEN << >> ELSE page.body
      BY <1>1, <2>1, <2>3 DEF Making
    <3>2. Guarded => req.known
      BY <1>1, <2>1, <3>1 DEF Succeeded
    <3>3. /\ last' = [status |-> last'.status, header |-> last'.header, body |-> out.body,
                      req |-> req, zipped |-> gz # "off", calls |-> calls,
                      late |-> late, outcome |-> outcome, line |-> line]
          /\ last'.status = Final(out)
          /\ last'.header = IF out.status = 0 THEN hdr ELSE out.header
      BY <1>1, <1>6, FinishKeeps
    <3>4. /\ last'.body = out.body /\ last'.req = req /\ last'.late = late /\ last'.outcome = outcome
      BY <3>3
    <3>5. last'.header = hdr
      BY <1>1, <3>3 DEF Sent, Proper
    <3>6. last'.status \in Bodiless <=> out.status \in Bodiless
      BY <3>3 DEF Final, Bodiless
    <3>7. QED
      BY <1>2, <2>1, <2>3, <3>1, <3>2, <3>3, <3>4, <3>5, <3>6 DEF PageOfMiss
  <2>4. QED
    BY <2>2, <2>3
<1>7. CASE Deepen \/ Refuse \/ Call \/ StreamBegin \/ Stop \/ Answer
  <2>1. UNCHANGED <<page, count, miss>> /\ pc' # "idle"
    BY <1>1, <1>7, DeepenIs, RefuseIs, CallIs, StreamBeginIs, StopIs, AnswerIs DEF Inside, Rest
  <2>2. QED
    BY <1>1, <1>3, <2>1
<1>8. CASE LeaveOne /\ page' = page
  BY <1>1, <1>3, <1>8, LeaveIs DEF Rest
<1>9. CASE Expire
  BY <1>1, <1>9, ExpireIs
<1>10. CASE UNCHANGED vars
  BY <1>1, <1>3, <1>10 DEF vars, past
<1>11. QED
  BY <1>1, <1>4, <1>5, <1>6, <1>7, <1>8, <1>9, <1>10, Steps DEF LeaveOne, LeavePlain, LeaveLogger, LeaveCompress

LEMMA ReplayedNext ==
  TypeOK /\ Places /\ Passed /\ Zipping /\ Sent /\ Varied /\ PageKept /\ Making /\ Replayed /\ [Next]_vars
    => Replayed'
<1>1. SUFFICES ASSUME TypeOK, Places, Passed, Zipping, Sent, Varied, PageKept, Making, Replayed, [Next]_vars,
                      stack' = stack, pc' \in {"leave", "end"}, outcome' = "cached"
               PROVE  Replayed'
  BY SameStack DEF Replayed
<1>2. /\ (\A mw : Uses(mw)' <=> Uses(mw)) /\ Before("cache")' = Before("cache") /\ policy' = policy
      /\ \A o : OwnValues(o)' = OwnValues(o)
  <2>1. (\A mw : Uses(mw)' <=> Uses(mw)) /\ Before("cache")' = Before("cache") /\ policy' = policy
    BY <1>1, SameStack DEF Uses, Before
  <2>2. QED
    BY <2>1 DEF OwnValues
<1>3. CASE CacheHit
  <2>1. /\ Inside /\ pc = "enter" /\ depth \in 1..Len(stack) /\ stack[depth] = "cache" /\ ~req.preflight
        /\ page # NoPage /\ UNCHANGED <<page, count, req, writer>> /\ outcome # "cached" /\ calls = 0
    BY <1>1, <1>3 DEF CacheHit, Entering, Ended, chain, wrap, past, Inside, Places, TypeOK, Arriving
  <2>2. page.of # count
    BY <1>1, <2>1 DEF Making, Made
  <2>3. Before("cache") \cap Guards # {} => req.known
    <3>1. ASSUME NEW g \in Guards, g \in Before("cache") PROVE req.known
      <4>1. \A x : x \in Before("cache") <=> \E j \in 1..Len(stack) : j < depth /\ stack[j] = x
        BY <1>1, <2>1, BeforeIs
      <4>2. PICK j \in 1..Len(stack) : j < depth /\ stack[j] = g
        BY <3>1, <4>1
      <4>3. Entered(j)
        BY <2>1, <4>2 DEF Entered
      <4>4. QED
        BY <1>1, <3>1, <4>2, <4>3 DEF Passed
    <3>2. QED
      BY <3>1
  <2>4. PICK o : /\ Headed(o, out, writer, hdr', page.status)
                 /\ Written(out', o, writer, hdr', page.body)
    BY <1>1, <1>3, HitSends
  <2>5. /\ page.status # 0 /\ page.body \in Seq(Pieces) /\ page.header \in Headers
        /\ hdr \in Headers /\ hdr'.vary = hdr.vary \o page.header.vary
        /\ out.status = 0 /\ out.body = << >>
    BY <1>1, <1>3, <2>1, HitSends, Typed DEF Passed, Places, Sent, Proper
  <2>6. o.status = page.status /\ o.body = << >> /\ o \in Outs
    BY <2>4, <2>5 DEF Headed
  <2>7. out'.status = page.status
    BY <2>4, <2>5, <2>6 DEF Written
  <2>8. ASSUME ~Uses("compress")
        PROVE  out'.body = IF page.status \in Bodiless THEN << >> ELSE page.body
    <3>1. writer \in Seq(Wrappers) /\ ~Contains(writer, "gz") /\ ~Contains(writer, "shut")
      BY <1>1, <2>8, NoGzip DEF TypeOK
    <3>2. Through(ToSet(writer), page.body) = page.body
      BY <2>5, <3>1, BareIs
    <3>3. out'.body = IF out'.status \in Bodiless THEN o.body ELSE o.body \o page.body
      BY <2>4, <3>2 DEF Written
    <3>4. << >> \o page.body = page.body
      BY <2>5
    <3>5. QED
      BY <2>6, <2>7, <3>3, <3>4
  <2>9. ASSUME ~Uses("compress")
        PROVE  hdr' = [f \in DOMAIN NoHeader |-> OwnValues(req.origin)[f] \o page.header[f]]
    <3>1. "cors" \in Before("cache") <=> \E j \in 1..Len(stack) : j < depth /\ stack[j] = "cors"
      BY <1>1, <2>1, BeforeIs
    <3>2. hdr = OwnValues(req.origin)
      BY <1>1, <2>1, <2>9, <3>1 DEF Varied, OwnValues, CORSValues
    <3>3. DOMAIN hdr = DOMAIN NoHeader
      BY <2>5 DEF Headers, NoHeader
    <3>4. hdr' = [f \in DOMAIN hdr |-> hdr[f] \o page.header[f]]
      BY <1>3 DEF CacheHit
    <3>5. QED
      BY <3>2, <3>3, <3>4
  <2>10. QED
    BY <1>2, <2>1, <2>2, <2>3, <2>7, <2>8, <2>9 DEF Replayed
<1>4. CASE LeaveOne
  <2>1. pc = "leave" /\ UNCHANGED <<req, hdr, outcome, count>>
    BY <1>4, LeaveIs DEF Rest
  <2>2. page' = page
    BY <1>1, <1>4, <2>1 DEF LeaveOne, LeavePlain, LeaveLogger, LeaveCompress, LeaveCache, Cacheable
  <2>3. page # NoPage /\ out.status = page.status /\ page.status # 0
    BY <1>1, <2>1 DEF Replayed, Passed
  <2>4. out'.status = out.status
    BY <1>1, <1>4, <2>3, LeaveIsProper DEF Sends
  <2>5. ~Uses("compress") => out' = out
    BY <1>1, <1>4, NoGzip, CompressCloses DEF LeaveOne, LeavePlain, LeaveLogger, LeaveCache
  <2>6. QED
    BY <1>1, <1>2, <2>1, <2>2, <2>4, <2>5 DEF Replayed
<1>5. CASE Answer
  <2>1. Return
    BY <1>1, <1>5 DEF Answer, HandleError, Recover, Answered, told, Places
  <2>2. pc = "leave" /\ UNCHANGED <<req, hdr, outcome, count, page, out>>
    BY <2>1 DEF Return, Answered, chain, told, past
  <2>3. QED
    BY <1>1, <1>2, <2>2 DEF Replayed
<1>6. CASE Expire
  BY <1>1, <1>6, ExpireIs
<1>7. CASE UNCHANGED vars
  BY <1>1, <1>2, <1>7 DEF Replayed, vars, chain, told, past
<1>8. CASE Refuse /\ ~CacheHit
  BY <1>1, <1>8 DEF Refuse, Preflight, JWTRefuses, KeyRefuses, Ended
<1>9. QED
  BY <1>1, <1>3, <1>4, <1>5, <1>6, <1>7, <1>8, Steps, RequestIs, DeepenIs, CallIs, StreamBeginIs, StopIs, FinishIs
  DEF Inside

----------------------------------------------------------------------------
(* The response last finished. *)

LEMMA Idle ==
  ASSUME Places, [Next]_vars, pc' = "idle"
  PROVE  Finish \/ Expire \/ UNCHANGED vars
BY Steps, RequestIs, DeepenIs, RefuseIs, CallIs, StreamBeginIs, StopIs, LeaveIs, AnswerIs DEF Inside

LEMMA LastIs ==
  ASSUME TypeOK, Sent, Finish
  PROVE  /\ pc = "end" /\ last'.status = Final(out) /\ last'.header = hdr /\ last'.body = out.body
         /\ last'.req = req /\ last'.zipped = (gz # "off") /\ last'.calls = calls
         /\ last'.late = late /\ last'.outcome = outcome /\ last'.line = line
<1>1. /\ last' = [status |-> last'.status, header |-> last'.header, body |-> out.body,
                  req |-> req, zipped |-> gz # "off", calls |-> calls,
                  late |-> late, outcome |-> outcome, line |-> line]
      /\ last'.status = Final(out)
      /\ last'.header = IF out.status = 0 THEN hdr ELSE out.header
  BY FinishKeeps
<1>2. /\ last'.body = out.body
      /\ last'.req = req /\ last'.zipped = (gz # "off") /\ last'.calls = calls
      /\ last'.late = late /\ last'.outcome = outcome /\ last'.line = line
  BY <1>1
<1>3. last'.header = hdr
  BY <1>1 DEF Sent, Proper
<1>4. QED
  BY <1>1, <1>2, <1>3, FinishIs

LEMMA KeptNext ==
  TypeOK /\ Places /\ Sent /\ Replayed /\ Kept /\ [Next]_vars => Kept'
<1>1. SUFFICES ASSUME TypeOK, Places, Sent, Replayed, Kept, [Next]_vars, stack' = stack, last' # NoResponse
               PROVE  Kept'
  BY SameStack DEF Kept
<1>2. Before("cache")' = Before("cache")
  BY <1>1 DEF Before
<1>3. CASE Finish
  <2>1. /\ pc = "end" /\ pc' = "idle" /\ last'.outcome = outcome /\ last'.req = req
    BY <1>1, <1>3, LastIs, FinishIs
  <2>2. QED
    BY <1>1, <1>2, <2>1 DEF Kept, Replayed
<1>4. CASE UNCHANGED vars
  BY <1>1, <1>2, <1>4 DEF Kept, vars, past
<1>5. CASE Expire \/ \E r \in Requests : Request(r)
  BY <1>1, <1>5, ExpireIs, RequestIs
<1>6. CASE Deepen \/ Refuse \/ Call \/ StreamBegin \/ Stop \/ LeaveOne \/ Answer
  BY <1>1, <1>6, DeepenIs, RefuseIs, CallIs, StreamBeginIs, StopIs, LeaveIs, AnswerIs DEF Kept, Inside, Rest
<1>7. QED
  BY <1>1, <1>3, <1>4, <1>5, <1>6, Steps

----------------------------------------------------------------------------
(* The invariant. *)
Inv ==
  /\ TypeOK /\ Places /\ Passed /\ Zipping /\ Wrapping
  /\ Sent /\ Told /\ Noted /\ Logged /\ Origins /\ Coded
  /\ Recorded /\ Varied /\ Succeeded /\ Making /\ PageKept /\ PageOfMiss /\ Replayed /\ Kept

LEMMA InvInit == Init => Inv
<1>1. SUFFICES ASSUME Init PROVE Inv
  OBVIOUS
<1>2. /\ pc = "idle" /\ depth = 0 /\ writer = << >> /\ original = << >> /\ gz = "off"
      /\ hdr = NoHeader /\ out = Fresh /\ calls = 0 /\ late = FALSE /\ outcome = "none" /\ line = 0
      /\ page = NoPage /\ last = NoResponse /\ miss = NoResponse
  BY <1>1 DEF Init
<1>3. \A i \in 1..Len(stack) : ~Entered(i)
  BY <1>2 DEF Entered, Inside
<1>4. TypeOK
  BY <1>1, TypeInit
<1>5. Places /\ Passed
  BY <1>2, <1>3 DEF Places, Passed, Inside, Arriving
<1>6. Zipping /\ Wrapping
  BY <1>2, NoneIs DEF Zipping, Wrapping, Inside, Serving
<1>7. Sent
  BY <1>2, FreshIs DEF Sent, Proper, Bodiless
<1>8. Told /\ Noted /\ Logged
  BY <1>2 DEF Told, Noted, Logged, Serving
<1>9. Origins
  BY <1>2 DEF Origins, Inside
<1>10. Coded
  BY <1>2, FreshIs, OfNone DEF Coded, HeaderCoded, BodyCoded, PageCoded
<1>11. Varied
  BY <1>2 DEF Varied, Inside
<1>12. Recorded /\ Succeeded /\ Making /\ PageKept /\ PageOfMiss /\ Replayed /\ Kept
  BY <1>2 DEF Recorded, Serving, Succeeded, Making, PageKept, PageOfMiss, Replayed, Kept
<1>13. QED
  BY <1>4, <1>5, <1>6, <1>7, <1>8, <1>9, <1>10, <1>11, <1>12 DEF Inv

LEMMA InvNext == Inv /\ [Next]_vars => Inv'
BY TypeNext, PlacesNext, PassedNext, ZippingNext, WrappingNext, SentNext, ToldNext, NotedNext, LoggedNext,
   OriginsNext, CodedNext, RecordedNext, VariedNext, SucceededNext, MakingNext, PageKeptNext,
   PageOfMissNext, ReplayedNext, KeptNext DEF Inv

(* The inductive invariant: where the request is, what the middlewares that
   are entered have done to it, and what the page is made of. *)
THEOREM AlwaysInv == Spec => []Inv
BY InvInit, InvNext, PTL DEF Spec

(* What Finish establishes of the last response holds while it is the last. *)
LEMMA OutcomeToldNext == Inv /\ OutcomeTold /\ [Next]_vars => OutcomeTold'
<1>1. SUFFICES ASSUME Inv, OutcomeTold, [Next]_vars, pc' = "idle", last' # NoResponse PROVE OutcomeTold'
  BY DEF OutcomeTold, Finished
<1>2. CASE Finish
  <2>1. /\ pc = "end" /\ last'.status = Final(out) /\ last'.zipped = (gz # "off") /\ last'.calls = calls
        /\ last'.outcome = outcome
    BY <1>1, <1>2, LastIs DEF Inv
  <2>2. calls = 0 /\ outcome # "cached" /\ ~(gz # "off" /\ outcome \in {"err", "denied", "panic"}) => Tells(Final(out))
    BY <1>1, <2>1 DEF Inv, Told, Erred
  <2>3. QED
    BY <2>1, <2>2 DEF OutcomeTold, Tells
<1>3. CASE UNCHANGED vars
  BY <1>1, <1>3 DEF OutcomeTold, Finished, vars, past
<1>4. QED
  BY <1>1, <1>2, <1>3, Idle, ExpireIs DEF Inv

LEMMA HitRepeatsMissNext == Inv /\ HitRepeatsMiss /\ [Next]_vars => HitRepeatsMiss'
<1>1. SUFFICES ASSUME Inv, HitRepeatsMiss, [Next]_vars, pc' = "idle", last' # NoResponse,
                      last'.outcome = "cached", ~Uses("compress")', stack' = stack
               PROVE  HitRepeatsMiss'
  BY SameStack DEF HitRepeatsMiss, Finished, Inv
<1>2. CASE Finish
  <2>1. /\ pc = "end" /\ last'.status = Final(out) /\ last'.body = out.body /\ last'.header = hdr
        /\ last'.req = req /\ outcome = "cached"
    BY <1>1, <1>2, LastIs DEF Inv
  <2>2. /\ page # NoPage /\ page.of # count /\ out.status = page.status /\ page.status # 0
        /\ out.body = IF page.status \in Bodiless THEN << >> ELSE page.body
        /\ hdr = [f \in DOMAIN NoHeader |-> OwnValues(req.origin)[f] \o page.header[f]]
    BY <1>1, <2>1 DEF Inv, Replayed, Passed, Uses
  <2>3. /\ page.status = miss.status \/ miss.late
        /\ page.header = miss.header
        /\ miss.body = IF miss.status \in Bodiless THEN << >> ELSE page.body
    BY <1>1, <2>2 DEF Inv, PageOfMiss, Uses
  <2>4. miss' = miss
    BY <1>2, <2>2, FinishIs DEF Made
  <2>5. last'.status = page.status
    BY <2>1, <2>2 DEF Final
  <2>6. \/ last'.body = miss'.body
        \/ miss'.late /\ {last'.status, miss'.status} \cap Bodiless # {}
    BY <2>1, <2>2, <2>3, <2>4, <2>5
  <2>7. Before("cache")' = Before("cache") /\ policy' = policy /\ last'.req.origin = req.origin
    BY <1>1, <2>1, SameStack DEF Before, Inv
  <2>8. last'.header = [f \in DOMAIN NoHeader |-> OwnValues(last.req.origin)'[f] \o miss'.header[f]]
    BY <2>1, <2>2, <2>3, <2>4, <2>7 DEF OwnValues
  <2>9. QED
    BY <2>1, <2>2, <2>3, <2>4, <2>5, <2>6, <2>8 DEF HitRepeatsMiss
<1>3. CASE UNCHANGED vars
  <2>1. /\ UNCHANGED <<stack, policy, pc, last, miss>>
        /\ last.status = miss.status \/ miss.late
        /\ \/ last.body = miss.body
           \/ miss.late /\ {last.status, miss.status} \cap Bodiless # {}
        /\ last.header =
             [f \in DOMAIN NoHeader |-> OwnValues(last.req.origin)[f] \o miss.header[f]]
    BY <1>1, <1>3 DEF HitRepeatsMiss, Finished, Uses, vars, chain, past
  <2>2. Before("cache")' = Before("cache")
    BY <2>1 DEF Before
  <2>3. last'.header = [f \in DOMAIN NoHeader |-> OwnValues(last.req.origin)'[f] \o miss'.header[f]]
    BY <2>1, <2>2 DEF OwnValues
  <2>4. QED
    BY <2>1, <2>3 DEF HitRepeatsMiss
<1>4. QED
  BY <1>1, <1>2, <1>3, Idle, ExpireIs DEF Inv

LEMMA LoggedAsSentNext == Inv /\ LoggedAsSent /\ [Next]_vars => LoggedAsSent'
<1>1. SUFFICES ASSUME Inv, LoggedAsSent, [Next]_vars, pc' = "idle", last' # NoResponse PROVE LoggedAsSent'
  BY DEF LoggedAsSent, Finished
<1>2. CASE Finish
  <2>1. /\ pc = "end" /\ last'.status = Final(out) /\ last'.line = line /\ last'.late = late
        /\ last'.outcome = outcome
    BY <1>1, <1>2, LastIs DEF Inv
  <2>2. QED
    BY <1>1, <2>1 DEF LoggedAsSent, Inv, Logged, Places, Erred
<1>3. CASE UNCHANGED vars
  BY <1>1, <1>3 DEF LoggedAsSent, Finished, vars, past
<1>4. QED
  BY <1>1, <1>2, <1>3, Idle, ExpireIs DEF Inv

LEMMA DecodableNext == Inv /\ Decodable /\ [Next]_vars => Decodable'
<1>1. SUFFICES ASSUME Inv, Decodable, [Next]_vars, pc' = "idle", last' # NoResponse, Alone,
                      last'.zipped => last'.outcome \in {"ok", "refused"}
               PROVE  Decodable'
  BY SameStack DEF Decodable, Finished, Inv, Alone, Uses
<1>2. CASE Finish
  <2>1. /\ pc = "end" /\ last'.status = Final(out) /\ last'.body = out.body /\ last'.header = hdr
        /\ last'.req = req /\ last'.zipped = (gz # "off") /\ last'.outcome = outcome
    BY <1>1, <1>2, LastIs DEF Inv
  <2>2. HeaderCoded /\ BodyCoded /\ Zipping /\ gz \in {"off", "open", "closed"}
    BY <1>1 DEF Inv, Coded, TypeOK
  <2>3. CASE gz = "off"
    <3>1. last'.header.encoding = << >> /\ Of("plain", last'.body)
      BY <2>1, <2>2, <2>3 DEF HeaderCoded, BodyCoded
    <3>2. QED
      BY <3>1 DEF Decodable, Of
  <2>4. CASE gz # "off"
    <3>1. gz = "closed" /\ req.gzip
      BY <2>1, <2>2, <2>4 DEF Zipping
    <3>2. out.status # 0 /\ Whole(out)
      BY <1>1, <2>1, <2>2, <3>1 DEF BodyCoded
    <3>3. last'.status = out.status
      BY <2>1, <3>2 DEF Final
    <3>4. IF last'.status \in Bodiless THEN last'.body = << >> ELSE GzipStream(last'.body)
      BY <2>1, <3>2, <3>3 DEF Whole
    <3>5. last'.header.encoding = <<"gzip">> /\ last'.req.gzip
      BY <2>1, <2>2, <2>4, <3>1 DEF HeaderCoded
    <3>6. QED
      BY <3>4, <3>5 DEF Decodable
  <2>5. QED
    BY <2>3, <2>4
<1>3. CASE UNCHANGED vars
  BY <1>1, <1>3 DEF Decodable, Finished, Uses, vars, chain, past
<1>4. QED
  BY <1>1, <1>2, <1>3, Idle, ExpireIs DEF Inv

LEMMA OriginToldNext == Inv /\ OriginTold /\ [Next]_vars => OriginTold'
<1>1. SUFFICES ASSUME Inv, OriginTold, [Next]_vars, pc' = "idle", last' # NoResponse,
                      UNCHANGED <<stack, policy>>
               PROVE  OriginTold'
  BY SameStack DEF OriginTold, Finished, Inv
<1>2. CASE Finish
  <2>1. /\ pc = "end" /\ last'.header = hdr /\ last'.req = req /\ last'.zipped = (gz # "off")
        /\ last'.outcome = outcome
    BY <1>1, <1>2, LastIs DEF Inv
  <2>2. (\A mw : Uses(mw)' <=> Uses(mw)) /\ Before("cors")' = Before("cors")
    BY <1>1 DEF Uses, Before
  <2>3. Uses("cors") /\ outcome # "cached" /\ (Before("cors") \cap Guards # {} => req.known) => OriginSet
    BY <1>1, <2>1 DEF Inv, Origins
  <2>4. QED
    BY <1>1, <2>1, <2>2, <2>3 DEF OriginTold, OriginSet, Allowed
<1>3. CASE UNCHANGED vars
  <2>1. last' = last /\ pc' = pc
    BY <1>3 DEF vars, past
  <2>2. Uses("cors")' <=> Uses("cors")
    BY <1>1 DEF Uses
  <2>3. Before("cors")' = Before("cors")
    BY <1>1 DEF Before
  <2>4. QED
    BY <1>1, <2>1, <2>2, <2>3 DEF OriginTold, Finished
<1>4. QED
  BY <1>1, <1>2, <1>3, Idle, ExpireIs DEF Inv

LEMMA GuardsHoldIs == Inv => GuardsHold
<1>1. SUFFICES ASSUME Inv PROVE GuardsHold
  OBVIOUS
<1>2. ASSUME Handling \/ pc = "stream"
      PROVE  (Guarded => req.known) /\ (Uses("cors") => ~req.preflight)
  <2>1. Inside /\ depth > Len(stack) /\ Len(stack) \in Nat /\ depth \in Nat
    BY <1>1, <1>2 DEF Inv, TypeOK, Places, Handling, Inside
  <2>2. \A i \in 1..Len(stack) : Entered(i)
    BY <2>1 DEF Entered
  <2>3. \A i \in 1..Len(stack) : (stack[i] \in Guards => req.known) /\ (stack[i] = "cors" => ~req.preflight)
    BY <1>1, <2>1, <2>2 DEF Inv, Passed
  <2>4. QED
    BY <2>3 DEF Guarded, Uses, Contains
<1>3. last.outcome = "cached" /\ Before("cache") \cap Guards # {} => last.req.known
  <2>1. last = NoResponse => last.outcome # "cached"
    BY NoResponseIs
  <2>2. QED
    BY <1>1, <2>1 DEF Inv, Kept
<1>4. pc = "idle" /\ page # NoPage => miss.outcome = "ok" /\ (Guarded => miss.req.known)
  BY <1>1 DEF Inv, PageOfMiss
<1>5. QED
  BY <1>2, <1>3, <1>4 DEF GuardsHold, Guarded

LEMMA StreamKeepsUpNext == Inv /\ StreamKeepsUp /\ [Next]_vars => StreamKeepsUp'
<1>1. SUFFICES ASSUME Inv, StreamKeepsUp, [Next]_vars, pc' = "stream", ~Contains(writer, "rec")', TypeOK'
               PROVE  out'.flushed + 1 >= Len(out'.body)
  BY TypeNext DEF StreamKeepsUp, Inv
<1>2. out \in Outs /\ count \in Nat /\ Places /\ Sent /\ TypeOK
  BY <1>1, Typed DEF Inv
<1>3. CASE StreamBegin
  <2>1. calls = 0 /\ out' = out /\ Inside
    BY <1>3, StreamBeginIs DEF Inside
  <2>2. out.body = << >> /\ out.flushed \in Nat
    BY <1>2, <2>1 DEF Places, Sent, Proper, Outs
  <2>3. QED
    BY <2>1, <2>2
<1>4. CASE Call
  <2>1. pc = "stream" /\ writer' = writer
    BY <1>1, <1>2, <1>4, CallIs
  <2>2. StreamWrite
    BY <1>4, <2>1 DEF Call, HandlerStatus, HandlerWrite, Handling
  <2>3. PICK o : Flushed(o, out, writer, hdr) /\ Written(out', o, writer, hdr, Plain(count))
    BY <1>2, <2>2, StreamSends
  <2>4. /\ o.flushed = Len(out.body) /\ o.body = out.body /\ o \in Outs
    BY <1>1, <2>1, <2>3 DEF Flushed
  <2>5. PICK t : t = Through(ToSet(writer), Plain(count))
    OBVIOUS
  <2>6. t \in Seq(Pieces) /\ Len(t) <= 1
    BY <1>2, <2>5, PlainIs, ThroughIs
  <2>7. out'.flushed = Len(out.body) /\ (out'.body = out.body \/ out'.body = out.body \o t)
    BY <2>3, <2>4, <2>5 DEF Written
  <2>8. out.body \in Seq(Pieces) /\ Len(out.body) \in Nat /\ Len(t) \in Nat
    BY <1>2, <2>6 DEF Outs
  <2>9. Len(out.body \o t) = Len(out.body) + Len(t)
    BY <2>6, <2>8, ConcatIs
  <2>10. QED
    BY <2>6, <2>7, <2>8, <2>9
<1>5. CASE UNCHANGED vars
  BY <1>1, <1>5 DEF StreamKeepsUp, vars, wrap
<1>6. QED
  BY <1>1, <1>2, <1>3, <1>4, <1>5, Steps, RequestIs, DeepenIs, RefuseIs, StopIs, LeaveIs, AnswerIs, FinishIs, ExpireIs

LEMMA InitHolds ==
  Init => OutcomeTold /\ HitRepeatsMiss /\ LoggedAsSent /\ Decodable /\ OriginTold /\ StreamKeepsUp
BY DEF Init, OutcomeTold, HitRepeatsMiss, LoggedAsSent, Decodable, OriginTold, StreamKeepsUp, Finished

(* Whatever middlewares there are around a handler that leaves its writer
   alone, the client is told by the status how the request ended: an error or
   a panic is a 500, a refusal a 401, a preflight a 204. *)
THEOREM AlwaysOutcomeTold == Spec => []OutcomeTold
BY AlwaysInv, InitHolds, OutcomeToldNext, PTL DEF Spec

(* What CachePage replays is the response that its page was recorded from. *)
THEOREM AlwaysHitRepeatsMiss == Spec => []HitRepeatsMiss
BY AlwaysInv, InitHolds, HitRepeatsMissNext, PTL DEF Spec

(* The status that Logger prints is the one that the client was sent. *)
THEOREM AlwaysLoggedAsSent == Spec => []LoggedAsSent
BY AlwaysInv, InitHolds, LoggedAsSentNext, PTL DEF Spec

(* A body is as Content-Encoding says it is: plain, or one whole gzip stream
   for a client that has asked for one. *)
THEOREM AlwaysDecodable == Spec => []Decodable
BY AlwaysInv, InitHolds, DecodableNext, PTL DEF Spec

(* No request passes a guard that refuses it: neither the handler nor the
   cached page answers one, and the page is never made of a refusal. *)
THEOREM AlwaysGuardsHold == Spec => []GuardsHold
BY AlwaysInv, GuardsHoldIs, PTL

(* Every answer says of the origin what the policy of CORS says, on the paths
   of errors, panics, refusals and preflights too. *)
THEOREM AlwaysOriginTold == Spec => []OriginTold
BY AlwaysInv, InitHolds, OriginToldNext, PTL DEF Spec

(* While a handler streams, everything but its last write has been flushed. *)
THEOREM AlwaysStreamKeepsUp == Spec => []StreamKeepsUp
BY AlwaysInv, InitHolds, StreamKeepsUpNext, PTL DEF Spec
=============================================================================
