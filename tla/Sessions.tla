------------------------------ MODULE Sessions ------------------------------
(***************************************************************************)
(* addons/sessions: the middleware Start around a handler, with a Manager  *)
(* that keeps the Data of each session in a cache, and SessionAuth between *)
(* Start and the handlers of some routes.                                  *)
(*                                                                         *)
(* Data is abstracted to the set of requests whose changes it carries.  It *)
(* is a struct, so that the cache and each Session hold values of their    *)
(* own, or a map, as sessions.New has it, which all of them share.  Every  *)
(* call of the cache is one step.  A client is a browser: it sends the     *)
(* cookie it has, and takes the one of every response whose headers reach  *)
(* it.  That may be long before the handler returns and Start saves: when  *)
(* the handler flushes, when it writes more than net/http buffers, or when *)
(* a Timeout around Start answers.                                         *)
(***************************************************************************)
EXTENDS Naturals, FiniteSets

CONSTANTS
  Clients,
  Requests,  (* each is sent by some client, once                          *)
  Ids,       (* the IDs that NewSession may draw                           *)
  Types,     (* what T may be: "struct", "map" or both                     *)
  NoId, NoData, NoMap

(* Data: the changes in it, and the request that made the map, if any. *)
Data == [changes : SUBSET Requests, map : Requests \cup {NoMap}]
Empty == [changes |-> {}, map |-> NoMap]

ASSUME SessionConstants == NoId \notin Ids /\ NoMap \notin Requests /\ NoData \notin Data

VARIABLES
  type,     (* what T is                                                   *)
  cache,    (* the Data of each ID, NoData if the cache has no entry       *)
  drawn,    (* the IDs that NewSession has drawn                           *)
  pc,       (* the goroutine of each request                               *)
  client,   (* who sent it                                                 *)
  cookie,   (* the ID its cookie carries                                   *)
  session,  (* its Session: ID and Data                                    *)
  deleted,  (* history: the IDs that handlers have deleted                 *)
  saved,    (* history: the requests whose change has been saved           *)
  jar,      (* the cookie each client holds                                *)
  heard,    (* the requests whose response, or its beginning, has arrived  *)
  hasty,    (* history: the clients that had two requests in flight, for   *)
            (* they did not wait for an answer, or it came before the Save *)
  gone      (* history: the IDs that ran out, were deleted, were lost with *)
            (* the process, or were handed out by a request that panicked  *)
            (* before it saved them                                        *)

vars == <<type, cache, drawn, pc, client, cookie, session, deleted, saved, jar, heard, hasty, gone>>

InFlight(c) == {r \in Requests : client[r] = c /\ pc[r] \in {"get", "guard", "next"}}

(* Start has a session for the request, and has not yet saved it. *)
Inside(r) == pc[r] \in {"guard", "next"}

Goto(r, place) == pc' = [pc EXCEPT ![r] = place]

(* Mistaken forms of the definitions below: random bytes that are never    *)
(* read, a Save of sessions the cache knew only, a Save of the latest      *)
(* change only, a SessionAuth that is content with any session.            *)
ZeroIds == {CHOOSE id \in Ids : TRUE}
SaveIfKnown(r) ==
  /\ cache' = IF session[r].id = cookie[r]
               THEN [cache EXCEPT ![session[r].id] = session[r].data] ELSE cache
  /\ saved' = saved \cup session[r].data.changes
SaveChange(r) ==
  /\ cache' = [cache EXCEPT ![session[r].id] = [changes |-> {r}, map |-> NoMap]]
  /\ saved' = saved \cup {r}
AnySession(r) == session[r].id # NoId

----------------------------------------------------------------------------
Send(r, c) ==
  /\ pc[r] = "new"
  /\ client' = [client EXCEPT ![r] = c]
  /\ cookie' = [cookie EXCEPT ![r] = jar[c]]
  /\ hasty' = IF InFlight(c) = {} THEN hasty ELSE hasty \cup {c}
  /\ Goto(r, "get")
  /\ UNCHANGED <<type, cache, drawn, session, deleted, saved, jar, heard, gone>>

Known(id) == id # NoId /\ cache[id] # NoData

(* Behind Start comes the handler, or SessionAuth around it. *)
Inward(r) == Goto(r, "next") \/ Goto(r, "guard")

Start(r, id, data) ==
  /\ session' = [session EXCEPT ![r] = [id |-> id, data |-> data]]
  /\ Inward(r)
  /\ UNCHANGED <<type, cache, client, cookie, deleted, saved, jar, heard, gone, hasty>>

(* Manager.Get with an ID that the cache knows. *)
GetKnown(r) ==
  /\ pc[r] = "get"
  /\ Known(cookie[r])
  /\ Start(r, cookie[r], cache[cookie[r]])
  /\ UNCHANGED drawn

(* 32 random bytes are an ID that nobody has. *)
NewIds == Ids \ drawn

(* Manager.Get with no ID, or with one that the cache does not know. *)
GetNew(r) ==
  /\ pc[r] = "get"
  /\ ~Known(cookie[r])
  /\ \E id \in NewIds : Start(r, id, Empty) /\ drawn' = drawn \cup {id}

Save(r) ==
  /\ cache' = [cache EXCEPT ![session[r].id] = session[r].data]
  /\ saved' = saved \cup session[r].data.changes

(* The handler returns, with or without an error: Start saves. *)
Leave(r) ==
  /\ Save(r)
  /\ Goto(r, "done")
  /\ UNCHANGED <<type, drawn, client, cookie, session, deleted, jar, heard, gone, hasty>>

(* SessionAuth: its Validator takes whoever has changed the session, as a  *)
(* login does.                                                             *)
Valid(r) == session[r].data.changes # {}

GuardPass(r) ==
  /\ pc[r] = "guard"
  /\ Valid(r)
  /\ Goto(r, "next")
  /\ UNCHANGED <<type, cache, drawn, client, cookie, session, deleted, saved, jar, heard, gone, hasty>>

GuardRefuse(r) == pc[r] = "guard" /\ ~Valid(r) /\ Leave(r)

----------------------------------------------------------------------------
(* What the handler does with sessions.Get(c) and the Manager. *)

SameMap(d, e) == d # NoData /\ d.map # NoMap /\ d.map = e.map

(* What Session.Set, or an assignment to a field, makes of the data. *)
Changed(d, r) ==
  [changes |-> d.changes \cup {r},
   map |-> IF type = "map" /\ d.map = NoMap THEN r ELSE d.map]

(* Whoever has the same map has the change. *)
Change(r) ==
  /\ pc[r] = "next"
  /\ LET new == Changed(session[r].data, r)
     IN  /\ session' = [q \in Requests |->
                          IF q = r \/ SameMap(session[q].data, new)
                            THEN [id |-> session[q].id, data |-> new] ELSE session[q]]
         /\ cache' = [id \in Ids |-> IF SameMap(cache[id], new) THEN new ELSE cache[id]]
  /\ UNCHANGED <<type, drawn, pc, client, cookie, deleted, saved, jar, heard, gone, hasty>>

SaveEarly(r) ==
  /\ pc[r] = "next"
  /\ Save(r)
  /\ UNCHANGED <<type, drawn, pc, client, cookie, session, deleted, jar, heard, gone, hasty>>

Delete(r) ==
  /\ pc[r] = "next"
  /\ cache' = [cache EXCEPT ![session[r].id] = NoData]
  /\ deleted' = deleted \cup {session[r].id}
  /\ gone' = gone \cup {session[r].id}
  /\ UNCHANGED <<type, drawn, pc, client, cookie, session, saved, jar, heard, hasty>>

Return(r) == pc[r] = "next" /\ Leave(r)

(* The handler panics: Start does not come to save. *)
Panic(r) ==
  /\ pc[r] = "next"
  /\ gone' = IF cache[session[r].id] = NoData THEN gone \cup {session[r].id} ELSE gone
  /\ Goto(r, "done")
  /\ UNCHANGED <<type, cache, drawn, client, cookie, session, deleted, saved, jar, heard, hasty>>

(* Two handlers use a map at once, without a lock: one may come after the  *)
(* other, or the runtime of Go ends the process, and the next one starts   *)
(* with an empty cache.                                                    *)
Race(r, q) ==
  /\ r # q /\ pc[r] = "next" /\ pc[q] \in {"guard", "next"}
  /\ SameMap(session[r].data, session[q].data)
  /\ cache' = [id \in Ids |-> NoData]
  /\ gone' = drawn
  /\ pc' = [p \in Requests |-> IF pc[p] \in {"new", "done"} THEN pc[p] ELSE "dead"]
  /\ UNCHANGED <<type, drawn, client, cookie, session, deleted, saved, jar, heard, hasty>>

(* Set-Cookie is among the headers before the handler is called; the       *)
(* client may see it at any time from then on, or never.                   *)
Hear(r) ==
  /\ session[r].id # NoId /\ r \notin heard
  /\ heard' = heard \cup {r}
  /\ jar' = [jar EXCEPT ![client[r]] = session[r].id]
  /\ UNCHANGED <<type, cache, drawn, pc, client, cookie, session, deleted, saved, gone, hasty>>

(* An entry outlives its TTL. *)
Expire(id) ==
  /\ cache[id] # NoData
  /\ cache' = [cache EXCEPT ![id] = NoData]
  /\ gone' = gone \cup {id}
  /\ UNCHANGED <<type, drawn, pc, client, cookie, session, deleted, saved, jar, heard, hasty>>

----------------------------------------------------------------------------
Init ==
  /\ type \in Types
  /\ cache = [id \in Ids |-> NoData]
  /\ drawn = {}
  /\ pc = [r \in Requests |-> "new"]
  /\ client \in {[r \in Requests |-> c] : c \in Clients}
  /\ cookie = [r \in Requests |-> NoId]
  /\ session = [r \in Requests |-> [id |-> NoId, data |-> Empty]]
  /\ deleted = {}
  /\ saved = {}
  /\ jar = [c \in Clients |-> NoId]
  /\ heard = {}
  /\ hasty = {}
  /\ gone = {}

Serve(r) == GetKnown(r) \/ GetNew(r) \/ GuardPass(r) \/ GuardRefuse(r) \/ Change(r)
              \/ SaveEarly(r) \/ Delete(r) \/ Return(r) \/ Panic(r) \/ Hear(r)

Next ==
  \/ \E r \in Requests : Serve(r) \/ \E c \in Clients : Send(r, c)
  \/ \E r, q \in Requests : Race(r, q)
  \/ \E id \in Ids : Expire(id)

Spec == Init /\ [][Next]_vars

----------------------------------------------------------------------------
(* Properties. *)

(* Every variable keeps its shape, and every session has an ID of its own. *)
TypeOK ==
  /\ type \in Types
  /\ cache \in [Ids -> {NoData} \cup Data]
  /\ drawn \subseteq Ids
  /\ pc \in [Requests -> {"new", "get", "guard", "next", "done", "dead"}]
  /\ client \in [Requests -> Clients]
  /\ cookie \in [Requests -> Ids \cup {NoId}]
  /\ session \in [Requests -> [id : Ids \cup {NoId}, data : Data]]
  /\ deleted \subseteq gone
  /\ saved \subseteq Requests
  /\ jar \in [Clients -> Ids \cup {NoId}]
  /\ heard \subseteq Requests
  /\ hasty \subseteq Clients
  /\ gone \subseteq drawn

(* Sessions are separate: what a handler finds in its session was put      *)
(* there by requests of the same client, and so a change reaches through a *)
(* shared map nobody but that client.                                      *)
SessionsSeparate ==
  \A r \in Requests :
    /\ \A q \in session[r].data.changes : client[q] = client[r]
    /\ \A q \in Requests : SameMap(session[r].data, session[q].data)
                             => client[q] = client[r]

(* A client finds its session again, unless the entry ran out or was       *)
(* deleted, a panic kept it from being saved, the process went down, or    *)
(* the client has the cookie before the request that it is from is over.   *)
JarFindsSession ==
  \A c \in Clients :
    jar[c] # NoId /\ jar[c] \notin gone =>
      \/ cache[jar[c]] # NoData
      \/ \E r \in Requests : client[r] = c /\ session[r].id = jar[c] /\ Inside(r)

(* A Save never takes away a change that an earlier Save has made, unless  *)
(* the client whose change it was has had requests that overlap.           *)
NoChangeLost ==
  [][\A id \in Ids : cache[id] # NoData /\ cache'[id] # NoData
       => \A q \in cache[id].changes \ cache'[id].changes : client[q] \in hasty]_cache

(* SessionAuth knows its clients: it lets in nobody but a client whose own *)
(* request has changed the session, saved it and so logged it in, and      *)
(* refuses such a client only when the session is gone, its requests       *)
(* overlap, or it shows another session, having missed a response.         *)
LoggedIn(r) == {q \in saved : client[q] = client[r]}

GuardKnowsClient ==
  [][\A r \in Requests : pc[r] = "guard" =>
       /\ pc'[r] = "next" => LoggedIn(r) # {}
       /\ pc'[r] = "done" =>
            \A q \in LoggedIn(r) :
              \/ session[q].id # cookie[r]
              \/ cookie[r] \in gone
              \/ client[r] \in hasty]_pc

(* A session that a handler has deleted stays deleted, once the requests   *)
(* that have it are over.                                                  *)
DeletedStaysDeleted ==
  \A id \in deleted :
    (\A r \in Requests : session[r].id = id => ~Inside(r)) => cache[id] = NoData
=============================================================================
