--------------------------- MODULE SessionsProofs ---------------------------
(***************************************************************************)
(* The sessions of different clients are separate, a client finds its      *)
(* session again, no Save takes a change away from a client whose requests *)
(* do not overlap, and SessionAuth lets in whom it knows, for any number   *)
(* of clients, requests and IDs.                                           *)
(*                                                                         *)
(* The argument: every ID has an owner, the client it was drawn for; only  *)
(* the owner's jar, cookies and Sessions ever carry it, and the cache      *)
(* keeps only the owner's changes under it, and a map that one of the      *)
(* owner's requests has made.  An ID that a client shows is in the cache,  *)
(* gone, or about to be saved by a request that is inside; data carries    *)
(* changes of its own ID only, and all that have a map have the data of    *)
(* its maker; and a client whose requests do not overlap has one in        *)
(* flight, whose data has all that the cache has.                          *)
(***************************************************************************)
EXTENDS Sessions, TLAPS

(* An ID in use anywhere has been drawn. *)
DrawnFirst ==
  /\ \A r \in Requests : /\ Inside(r) => session[r].id # NoId
                         /\ session[r].id # NoId => session[r].id \in drawn
                         /\ cookie[r] # NoId => cookie[r] \in drawn
  /\ \A c \in Clients : jar[c] # NoId => jar[c] \in drawn
  /\ \A id \in Ids : cache[id] # NoData => id \in drawn

TypeInv == TypeOK /\ DrawnFirst

LEMMA TypeInit == Init => TypeInv
BY SessionConstants DEF Init, TypeInv, TypeOK, DrawnFirst, Inside, Data, Empty

(* Manager.Get gives a request an ID that has been drawn, and its data. *)
LEMMA TypeStart ==
  ASSUME TypeInv, NEW r \in Requests, pc[r] = "get",
         NEW id \in Ids, NEW data \in Data, Start(r, id, data),
         id \in drawn', drawn' \subseteq Ids, drawn \subseteq drawn'
  PROVE  TypeInv'
<1>. USE SessionConstants DEF TypeInv, TypeOK, DrawnFirst, Inside
<1>1. session' \in [Requests -> [id : Ids \cup {NoId}, data : Data]]
  BY DEF Start
<1>2. session'[r].id = id /\ \A q \in Requests : q # r => session'[q] = session[q]
  BY DEF Start
<1>3. /\ pc' \in [Requests -> {"new", "get", "guard", "next", "done", "dead"}]
      /\ \A q \in Requests : q # r => pc'[q] = pc[q]
  BY DEF Start, Inward, Goto
<1>4. UNCHANGED <<type, cache, client, cookie, deleted, saved, jar, heard, gone, hasty>>
  BY DEF Start
<1>5. QED
  BY <1>1, <1>2, <1>3, <1>4

(* What a change makes of the data, and whom it reaches. *)
LEMMA ChangeReaches ==
  ASSUME TypeOK, NEW r \in Requests, Change(r)
  PROVE  \E new \in Data :
           /\ new.changes = session[r].data.changes \cup {r}
           /\ new.map \in {session[r].data.map, r}
           /\ session' \in [Requests -> [id : Ids \cup {NoId}, data : Data]]
           /\ cache' \in [Ids -> {NoData} \cup Data]
           /\ \A q \in Requests : session'[q].id = session[q].id
           /\ \A q \in Requests :
                \/ session'[q] = session[q]
                \/ session'[q].data = new /\ (q = r \/ SameMap(session[q].data, new))
           /\ \A id \in Ids :
                \/ cache'[id] = cache[id]
                \/ cache'[id] = new /\ SameMap(cache[id], new)
<1>. DEFINE new == Changed(session[r].data, r)
<1>1. session[r].data \in Data
  BY DEF TypeOK
<1>2. /\ new \in Data
      /\ new.changes = session[r].data.changes \cup {r}
      /\ new.map \in {session[r].data.map, r}
  BY <1>1 DEF Changed, Data
<1>3. /\ session' = [q \in Requests |->
                       IF q = r \/ SameMap(session[q].data, new)
                         THEN [id |-> session[q].id, data |-> new] ELSE session[q]]
      /\ cache' = [id \in Ids |-> IF SameMap(cache[id], new) THEN new ELSE cache[id]]
  BY DEF Change
<1>. HIDE DEF new
<1>4. \A q \in Requests : [id |-> session[q].id, data |-> new]
                              \in [id : Ids \cup {NoId}, data : Data]
  BY <1>2 DEF TypeOK
<1>5. session' \in [Requests -> [id : Ids \cup {NoId}, data : Data]]
  BY <1>3, <1>4 DEF TypeOK
<1>6. cache' \in [Ids -> {NoData} \cup Data]
  BY <1>2, <1>3 DEF TypeOK
<1>7. \A q \in Requests :
        /\ session'[q].id = session[q].id
        /\ \/ session'[q] = session[q]
           \/ session'[q].data = new /\ (q = r \/ SameMap(session[q].data, new))
  BY <1>3
<1>8. QED
  BY <1>2, <1>3, <1>5, <1>6, <1>7

LEMMA TypeNext == TypeInv /\ [Next]_vars => TypeInv'
<1>. SUFFICES ASSUME TypeInv, [Next]_vars PROVE TypeInv'
  OBVIOUS
<1>. USE SessionConstants DEF TypeInv, TypeOK, DrawnFirst, Inside, Goto
<1>1. ASSUME NEW r \in Requests, NEW c \in Clients, Send(r, c) PROVE TypeInv'
  BY <1>1 DEF Send
<1>2. ASSUME NEW r \in Requests, GetKnown(r) PROVE TypeInv'
  <2>1. /\ pc[r] = "get" /\ cookie[r] \in drawn /\ cookie[r] \in Ids
        /\ cache[cookie[r]] \in Data
        /\ Start(r, cookie[r], cache[cookie[r]]) /\ drawn' = drawn
    BY <1>2 DEF GetKnown, Known
  <2>2. QED
    BY <2>1, TypeStart
<1>3. ASSUME NEW r \in Requests, GetNew(r) PROVE TypeInv'
  <2>1. PICK id \in NewIds : Start(r, id, Empty) /\ drawn' = drawn \cup {id}
    BY <1>3 DEF GetNew
  <2>2. id \in Ids /\ Empty \in Data
    BY DEF NewIds, Empty, Data
  <2>3. pc[r] = "get"
    BY <1>3 DEF GetNew
  <2>4. QED
    BY <2>1, <2>2, <2>3, TypeStart
<1>4. ASSUME NEW r \in Requests, Change(r) PROVE TypeInv'
  <2>1. /\ session' \in [Requests -> [id : Ids \cup {NoId}, data : Data]]
        /\ cache' \in [Ids -> {NoData} \cup Data]
        /\ \A q \in Requests : session'[q].id = session[q].id
        /\ \A id \in Ids : cache'[id] # NoData => cache[id] # NoData
    BY <1>4, ChangeReaches DEF SameMap
  <2>2. UNCHANGED <<type, drawn, pc, client, cookie, deleted, saved, jar, heard, gone, hasty>>
    BY <1>4 DEF Change
  <2>3. QED
    BY <2>1, <2>2
<1>5. ASSUME NEW r \in Requests, Save(r), session[r].id # NoId
      PROVE  /\ cache' \in [Ids -> {NoData} \cup Data] /\ saved' \subseteq Requests
             /\ \A id \in Ids : cache'[id] # NoData => cache[id] # NoData \/ id = session[r].id
  BY <1>5 DEF Save, Data
<1>6. ASSUME NEW r \in Requests, SaveEarly(r) PROVE TypeInv'
  BY <1>5, <1>6 DEF SaveEarly
<1>7. ASSUME NEW r \in Requests, Delete(r) PROVE TypeInv'
  BY <1>7 DEF Delete
<1>8. ASSUME NEW r \in Requests, GuardRefuse(r) \/ Return(r) PROVE TypeInv'
  BY <1>5, <1>8 DEF GuardRefuse, Return, Leave
<1>9. ASSUME NEW r \in Requests, Panic(r) PROVE TypeInv'
  BY <1>9 DEF Panic
<1>10. ASSUME NEW r \in Requests, Hear(r) PROVE TypeInv'
  BY <1>10 DEF Hear
<1>11. ASSUME NEW r \in Requests, GuardPass(r) PROVE TypeInv'
  BY <1>11 DEF GuardPass
<1>12. ASSUME NEW r \in Requests, NEW q \in Requests, Race(r, q) PROVE TypeInv'
  BY <1>12 DEF Race
<1>13. ASSUME NEW id \in Ids, Expire(id) PROVE TypeInv'
  BY <1>13 DEF Expire
<1>14. CASE UNCHANGED vars
  BY <1>14 DEF vars
<1>15. QED
  BY <1>1, <1>2, <1>3, <1>4, <1>6, <1>7, <1>8, <1>9, <1>10, <1>11, <1>12, <1>13,
     <1>14 DEF Next, Serve

(* Every variable keeps its shape, for every constant                      *)
(* (addons/sessions).                                                      *)
THEOREM SessionsTypeCorrect == Spec => []TypeOK
BY TypeInit, TypeNext, PTL DEF Spec, TypeInv

----------------------------------------------------------------------------
(* Ownership. *)

Started(r) == pc[r] # "new"
Sent(q, c) == q \in Requests /\ Started(q) /\ client[q] = c

(* The data is a client's: its changes, and its map. *)
DataOf(d, c) == (\A q \in d.changes : Sent(q, c)) /\ (d.map = NoMap \/ Sent(d.map, c))

IdsOwned(owner) ==
  \A r \in Requests :
    /\ Started(r) /\ session[r].id # NoId => owner[session[r].id] = client[r]
    /\ Started(r) /\ cookie[r] # NoId => owner[cookie[r]] = client[r]

DataOwned ==
  \A r \in Requests :
    /\ ~Started(r) => session[r] = [id |-> NoId, data |-> Empty]
    /\ DataOf(session[r].data, client[r])

JarsOwned(owner) == \A c \in Clients : jar[c] # NoId => owner[jar[c]] = c

CacheOwned(owner) ==
  \A id \in Ids : cache[id] # NoData => DataOf(cache[id], owner[id])

Owned(owner) ==
  IdsOwned(owner) /\ DataOwned /\ JarsOwned(owner) /\ CacheOwned(owner)

OwnedIds == \E owner \in [Ids -> Clients] : Owned(owner)

LEMMA OwnedInit == Init => OwnedIds
<1>. SUFFICES ASSUME Init PROVE OwnedIds
  OBVIOUS
<1>1. PICK c \in Clients : client = [r \in Requests |-> c]
  BY DEF Init
<1>2. Owned([id \in Ids |-> c])
  BY DEF Init, Owned, IdsOwned, DataOwned, JarsOwned, CacheOwned, Started, DataOf, Empty
<1>3. QED
  BY <1>2 DEF OwnedIds

(* What a step may do without taking an ID or data from its owner. *)
Starting(owner) ==
  \A r \in Requests :
    /\ Started(r) => Started(r)' /\ client'[r] = client[r] /\ cookie'[r] = cookie[r]
    /\ ~Started(r) => /\ session'[r] = session[r]
                      /\ Started(r)' /\ cookie'[r] # NoId => owner[cookie'[r]] = client'[r]

Sessioning(owner) ==
  \A r \in Requests : Started(r) =>
    /\ session'[r].id = session[r].id \/ owner[session'[r].id] = client[r]
    /\ session'[r].data = session[r].data \/ DataOf(session'[r].data, client[r])

Caching(owner) ==
  \A id \in Ids :
    cache'[id] = cache[id] \/ cache'[id] = NoData \/ DataOf(cache'[id], owner[id])

Answering(owner) == \A c \in Clients : jar'[c] = jar[c] \/ owner[jar'[c]] = c

LEMMA OwnersKept ==
  ASSUME TypeInv, TypeInv', NEW owner \in [Ids -> Clients], Owned(owner),
         Starting(owner), Sessioning(owner), Caching(owner), Answering(owner)
  PROVE  Owned(owner)'
<1>1. \A q, c : Sent(q, c) => q \in Requests /\ Started(q)' /\ client'[q] = c
  BY DEF Sent, Starting
<1>3. IdsOwned(owner)'
  BY DEF Owned, IdsOwned, Starting, Sessioning, DataOwned
<1>4. DataOwned'
  <2>. SUFFICES ASSUME NEW r \in Requests
                PROVE  /\ ~Started(r)' => session'[r] = [id |-> NoId, data |-> Empty]
                       /\ \A q \in session'[r].data.changes :
                            q \in Requests /\ Started(q)' /\ client'[q] = client'[r]
                       /\ \/ session'[r].data.map = NoMap
                          \/ /\ session'[r].data.map \in Requests
                             /\ Started(session[r].data.map)'
                             /\ client'[session'[r].data.map] = client'[r]
    BY DEF DataOwned, DataOf, Sent, Started
  <2>1. CASE ~Started(r)
    <3>1. session'[r] = [id |-> NoId, data |-> [changes |-> {}, map |-> NoMap]]
      BY <2>1 DEF Owned, DataOwned, Starting, Empty
    <3>2. QED
      BY <3>1 DEF Empty
  <2>2. CASE Started(r)
    <3>1. DataOf(session'[r].data, client[r]) /\ client'[r] = client[r] /\ Started(r)'
      BY <2>2 DEF Owned, DataOwned, Starting, Sessioning
    <3>2. QED
      BY <1>1, <3>1 DEF DataOf
  <2>3. QED
    BY <2>1, <2>2
<1>5. CacheOwned(owner)'
  <2>. SUFFICES ASSUME NEW id \in Ids, cache'[id] # NoData
                PROVE  DataOf(cache[id], owner[id])'
    BY DEF CacheOwned
  <2>1. DataOf(cache'[id], owner[id])
    BY DEF Owned, CacheOwned, Caching
  <2>2. QED
    BY <1>1, <2>1 DEF DataOf, Sent
<1>6. JarsOwned(owner)'
  BY DEF Owned, JarsOwned, Answering
<1>7. QED
  BY <1>3, <1>4, <1>5, <1>6 DEF Owned

(* Every step of a request but the drawing of an ID keeps the owners. *)
Keeps(owner) ==
  Starting(owner) /\ Sessioning(owner) /\ Caching(owner) /\ Answering(owner)

LEMMA StartKeeps ==
  ASSUME TypeInv, NEW owner \in [Ids -> Clients], Owned(owner),
         NEW r \in Requests, pc[r] = "get", NEW id \in Ids, owner[id] = client[r],
         NEW data \in Data, DataOf(data, client[r]), Start(r, id, data)
  PROVE  Keeps(owner)
<1>1. /\ session'[r].id = id /\ session'[r].data = data
      /\ \A q \in Requests : q # r => session'[q] = session[q]
      /\ \A q \in Requests : pc'[q] = "new" <=> pc[q] = "new"
      /\ UNCHANGED <<cache, client, cookie, jar>>
  BY DEF Start, Inward, Goto, TypeInv, TypeOK
<1>2. QED
  BY <1>1 DEF Keeps, Starting, Sessioning, Caching, Answering, Started

LEMMA ChangeKeeps ==
  ASSUME TypeInv, NEW owner \in [Ids -> Clients], Owned(owner),
         NEW r \in Requests, Change(r)
  PROVE  Keeps(owner)
<1>1. PICK new \in Data :
        /\ new.changes = session[r].data.changes \cup {r}
        /\ new.map \in {session[r].data.map, r}
        /\ \A q \in Requests :
             \/ session'[q] = session[q]
             \/ session'[q].data = new /\ (q = r \/ SameMap(session[q].data, new))
        /\ \A q \in Requests : session'[q].id = session[q].id
        /\ \A id \in Ids :
             \/ cache'[id] = cache[id]
             \/ cache'[id] = new /\ SameMap(cache[id], new)
  BY ChangeReaches DEF TypeInv
<1>2. /\ pc[r] = "next" /\ UNCHANGED <<pc, client, cookie, jar>>
  BY DEF Change
<1>3. DataOf(new, client[r])
  <2>1. Sent(r, client[r]) /\ DataOf(session[r].data, client[r])
    BY <1>2 DEF Sent, Started, Owned, DataOwned
  <2>2. QED
    BY <1>1, <2>1 DEF DataOf
<1>4. \A d \in Data, c \in Clients :
        SameMap(d, new) /\ DataOf(d, c) => c = client[r]
  BY <1>3 DEF SameMap, DataOf, Sent
<1>5. ASSUME NEW q \in Requests, SameMap(session[q].data, new), Started(q)
      PROVE  client[q] = client[r]
  BY <1>4, <1>5 DEF Owned, DataOwned, TypeInv, TypeOK
<1>6. ASSUME NEW q \in Requests, ~Started(q)
      PROVE  session'[q] = session[q]
  <2>1. session[q].data = Empty /\ q # r
    BY <1>2, <1>6 DEF Owned, DataOwned, Started
  <2>2. ~SameMap(session[q].data, new)
    BY <2>1 DEF SameMap, Empty
  <2>3. QED
    BY <1>1, <2>1, <2>2
<1>7. Sessioning(owner)
  BY <1>1, <1>3, <1>5 DEF Sessioning
<1>8. Caching(owner)
  <2>1. ASSUME NEW id \in Ids, SameMap(cache[id], new) PROVE owner[id] = client[r]
    <3>1. cache[id] \in Data /\ DataOf(cache[id], owner[id]) /\ owner[id] \in Clients
      BY <2>1 DEF SameMap, Owned, CacheOwned, TypeInv, TypeOK
    <3>2. QED
      BY <1>4, <2>1, <3>1
  <2>2. QED
    BY <1>1, <1>3, <2>1 DEF Caching
<1>9. Starting(owner) /\ Answering(owner)
  BY <1>2, <1>6 DEF Starting, Answering, Started
<1>10. QED
  BY <1>7, <1>8, <1>9 DEF Keeps

LEMMA SaveKeeps ==
  ASSUME TypeInv, NEW owner \in [Ids -> Clients], Owned(owner),
         NEW r \in Requests, Inside(r), Save(r)
  PROVE  Caching(owner)
<1>1. /\ session[r].id \in Ids /\ owner[session[r].id] = client[r]
      /\ DataOf(session[r].data, client[r])
  BY DEF TypeInv, TypeOK, DrawnFirst, Inside, Owned, IdsOwned, DataOwned, Started
<1>2. \A id \in Ids :
        cache'[id] = cache[id] \/ (id = session[r].id /\ cache'[id] = session[r].data)
  BY DEF Save, TypeInv, TypeOK
<1>3. QED
  BY <1>1, <1>2 DEF Caching

LEMMA StepKeeps ==
  ASSUME TypeInv, NEW owner \in [Ids -> Clients], Owned(owner),
         NEW r \in Requests,
         \/ \E c \in Clients : Send(r, c)
         \/ GetKnown(r) \/ GuardPass(r) \/ GuardRefuse(r) \/ Change(r) \/ SaveEarly(r)
         \/ Delete(r) \/ Return(r) \/ Panic(r) \/ Hear(r)
  PROVE  Keeps(owner)
<1>. USE DEF Starting, Sessioning, Answering, Started, Goto
<1>1. ASSUME NEW c \in Clients, Send(r, c) PROVE Keeps(owner)
  <2>1. /\ client'[r] = c /\ cookie'[r] = jar[c] /\ pc[r] = "new"
        /\ UNCHANGED <<cache, session, jar>>
        /\ \A q \in Requests : q # r =>
             client'[q] = client[q] /\ cookie'[q] = cookie[q] /\ pc'[q] = pc[q]
    BY <1>1 DEF Send, TypeInv, TypeOK
  <2>2. QED
    BY <2>1 DEF Owned, JarsOwned, Keeps, Caching
<1>2. CASE GetKnown(r)
  <2>1. /\ pc[r] = "get" /\ cookie[r] \in Ids /\ cookie[r] # NoId
        /\ cache[cookie[r]] # NoData /\ cache[cookie[r]] \in Data
        /\ Start(r, cookie[r], cache[cookie[r]])
    BY <1>2 DEF GetKnown, Known, TypeInv, TypeOK
  <2>2. owner[cookie[r]] = client[r] /\ DataOf(cache[cookie[r]], client[r])
    BY <2>1 DEF Owned, IdsOwned, CacheOwned
  <2>3. QED
    BY <2>1, <2>2, StartKeeps
<1>3. CASE Change(r)
  BY <1>3, ChangeKeeps
<1>4. CASE SaveEarly(r) \/ GuardRefuse(r) \/ Return(r)
  <2>1. /\ Inside(r) /\ Save(r)
        /\ UNCHANGED <<client, cookie, session, jar>>
        /\ \A q \in Requests : pc'[q] = "new" <=> pc[q] = "new"
    BY <1>4 DEF SaveEarly, GuardRefuse, Return, Leave, Inside, TypeInv, TypeOK
  <2>2. QED
    BY <2>1, SaveKeeps DEF Keeps
<1>5. CASE Delete(r)
  <2>1. /\ \A id \in Ids : cache'[id] = cache[id] \/ cache'[id] = NoData
        /\ UNCHANGED <<pc, client, cookie, session, jar>>
    BY <1>5 DEF Delete, TypeInv, TypeOK
  <2>2. QED
    BY <2>1 DEF Keeps, Caching
<1>6. CASE GuardPass(r) \/ Panic(r)
  <2>1. /\ \A q \in Requests : pc'[q] = "new" <=> pc[q] = "new"
        /\ UNCHANGED <<cache, client, cookie, session, jar>>
    BY <1>6 DEF GuardPass, Panic, TypeInv, TypeOK
  <2>2. QED
    BY <2>1 DEF Keeps, Caching
<1>7. CASE Hear(r)
  <2>1. /\ session[r].id # NoId
        /\ UNCHANGED <<cache, pc, client, cookie, session>>
        /\ \A c \in Clients :
             jar'[c] = jar[c] \/ (c = client[r] /\ jar'[c] = session[r].id)
    BY <1>7 DEF Hear, TypeInv, TypeOK
  <2>2. Started(r)
    BY <2>1 DEF Owned, DataOwned
  <2>3. QED
    BY <2>1, <2>2 DEF Owned, IdsOwned, Keeps, Caching
<1>8. QED
  BY <1>1, <1>2, <1>3, <1>4, <1>5, <1>6, <1>7

LEMMA NewOwner ==
  ASSUME TypeInv, TypeInv', NEW owner \in [Ids -> Clients], Owned(owner),
         NEW r \in Requests, GetNew(r)
  PROVE  OwnedIds'
<1>1. PICK id \in NewIds : Start(r, id, Empty)
  BY DEF GetNew
<1>2. id \in Ids /\ id \notin drawn /\ pc[r] = "get"
  BY DEF NewIds, GetNew
<1>3. PICK mine \in [Ids -> Clients] :
        mine[id] = client[r] /\ \A x \in Ids : x # id => mine[x] = owner[x]
  <2>1. [owner EXCEPT ![id] = client[r]] \in [Ids -> Clients]
    BY DEF TypeInv, TypeOK
  <2>2. QED
    BY <1>2, <2>1
<1>4. /\ \A q \in Requests : session[q].id # id /\ cookie[q] # id
      /\ \A c \in Clients : jar[c] # id
      /\ cache[id] = NoData
  BY <1>2, SessionConstants DEF TypeInv, DrawnFirst
<1>5. Owned(mine)
  <2>1. IdsOwned(mine)
    BY <1>3, <1>4 DEF Owned, IdsOwned, TypeInv, TypeOK
  <2>2. JarsOwned(mine)
    BY <1>3, <1>4 DEF Owned, JarsOwned, TypeInv, TypeOK
  <2>3. CacheOwned(mine)
    <3>1. \A x \in Ids : cache[x] # NoData => mine[x] = owner[x] /\ DataOf(cache[x], owner[x])
      BY <1>3, <1>4 DEF Owned, CacheOwned
    <3>2. QED
      BY <3>1 DEF CacheOwned
  <2>4. QED
    BY <2>1, <2>2, <2>3 DEF Owned
<1>6. Empty \in Data /\ DataOf(Empty, client[r])
  BY DEF Empty, Data, DataOf
<1>7. Keeps(mine)
  BY <1>1, <1>2, <1>3, <1>5, <1>6, StartKeeps
<1>8. Owned(mine)'
  BY <1>3, <1>5, <1>7, OwnersKept DEF Keeps
<1>9. QED
  BY <1>3, <1>8 DEF OwnedIds

LEMMA OwnedNext == TypeInv /\ TypeInv' /\ OwnedIds /\ [Next]_vars => OwnedIds'
<1>. SUFFICES ASSUME TypeInv, TypeInv', OwnedIds, [Next]_vars PROVE OwnedIds'
  OBVIOUS
<1>1. PICK owner \in [Ids -> Clients] : Owned(owner)
  BY DEF OwnedIds
<1>2. ASSUME NEW r \in Requests, GetNew(r) PROVE OwnedIds'
  BY <1>1, <1>2, NewOwner
<1>3. SUFFICES ASSUME ~\E r \in Requests : GetNew(r) PROVE Keeps(owner)
  BY <1>1, <1>2, OwnersKept DEF Keeps, OwnedIds
<1>4. ASSUME NEW r \in Requests, Serve(r) \/ \E c \in Clients : Send(r, c)
      PROVE  Keeps(owner)
  BY <1>1, <1>3, <1>4, StepKeeps DEF Serve
<1>5. ASSUME NEW r \in Requests, NEW q \in Requests, Race(r, q) PROVE Keeps(owner)
  <2>1. /\ \A x \in Ids : cache'[x] = NoData
        /\ \A p \in Requests : pc'[p] = "new" <=> pc[p] = "new"
        /\ UNCHANGED <<client, cookie, session, jar>>
    BY <1>5 DEF Race
  <2>2. QED
    BY <2>1 DEF Keeps, Starting, Sessioning, Caching, Answering, Started
<1>6. ASSUME NEW id \in Ids, Expire(id) PROVE Keeps(owner)
  <2>1. /\ \A x \in Ids : cache'[x] = cache[x] \/ cache'[x] = NoData
        /\ UNCHANGED <<pc, client, cookie, session, jar>>
    BY <1>6 DEF Expire, TypeInv, TypeOK
  <2>2. QED
    BY <2>1 DEF Keeps, Starting, Sessioning, Caching, Answering, Started
<1>7. CASE UNCHANGED vars
  BY <1>7 DEF vars, Keeps, Starting, Sessioning, Caching, Answering, Started
<1>8. QED
  BY <1>4, <1>5, <1>6, <1>7 DEF Next

(* Whatever requests overlap, whatever is deleted, lost or runs out, a     *)
(* handler finds in its session only what requests of the same client have *)
(* put there, and shares its map with no other client (sessions.Start,     *)
(* Manager.Get, Save and NewSession, Session.Set).                         *)
THEOREM SessionsAreSeparate == Spec => []SessionsSeparate
<1>1. TypeInv /\ OwnedIds => SessionsSeparate
  <2>. SUFFICES ASSUME DataOwned PROVE SessionsSeparate
    BY DEF OwnedIds, Owned
  <2>1. \A r \in Requests, q \in Requests :
          SameMap(session[r].data, session[q].data) => client[q] = client[r]
    BY DEF SameMap, DataOwned, DataOf, Sent
  <2>2. QED
    BY <2>1 DEF SessionsSeparate, DataOwned, DataOf, Sent
<1>2. QED
  BY <1>1, TypeInit, TypeNext, OwnedInit, OwnedNext, PTL DEF Spec

----------------------------------------------------------------------------
(* What a session keeps. *)


(* An entry goes only to those that are gone. *)
Dropping ==
  /\ gone \subseteq gone'
  /\ \A id \in Ids : cache[id] # NoData => cache'[id] # NoData \/ id \in gone'

LEMMA SaveStores ==
  ASSUME TypeInv, NEW r \in Requests, Inside(r), Save(r)
  PROVE  /\ session[r].id \in Ids /\ cache'[session[r].id] = session[r].data
         /\ session[r].data # NoData
         /\ \A id \in Ids : id # session[r].id => cache'[id] = cache[id]
<1>1. session[r].id \in Ids /\ session[r].data \in Data
  BY DEF TypeInv, TypeOK, DrawnFirst
<1>2. QED
  BY <1>1, SessionConstants DEF Save, TypeInv, TypeOK

(* The steps by which a request saves its session. *)
Saves(r) == SaveEarly(r) \/ GuardRefuse(r) \/ Return(r)

LEMMA SavesAre ==
  ASSUME TypeInv, NEW r \in Requests, Saves(r)
  PROVE  /\ Inside(r) /\ Save(r)
         /\ saved' = saved \cup session[r].data.changes
         /\ UNCHANGED <<type, drawn, client, cookie, session, jar, gone, hasty>>
         /\ pc'[r] \in {"next", "done"}
         /\ \A q \in Requests : q # r => pc'[q] = pc[q]
BY DEF Saves, SaveEarly, GuardRefuse, Return, Leave, Save, Inside, Goto, TypeInv, TypeOK

LEMMA EntriesDrop == TypeInv /\ [Next]_vars => Dropping
<1>. SUFFICES ASSUME TypeInv, [Next]_vars PROVE Dropping
  OBVIOUS
<1>1. ASSUME NEW r \in Requests, Saves(r) PROVE Dropping
  BY <1>1, SavesAre, SaveStores DEF Dropping
<1>2. ASSUME NEW r \in Requests, Change(r) PROVE Dropping
  <2>1. \A id \in Ids : cache'[id] = cache[id] \/ cache'[id] \in Data
    BY <1>2, ChangeReaches DEF TypeInv
  <2>2. UNCHANGED gone
    BY <1>2 DEF Change
  <2>3. QED
    BY <2>1, <2>2, SessionConstants DEF Dropping
<1>3. ASSUME NEW r \in Requests, Delete(r) PROVE Dropping
  BY <1>3 DEF Dropping, Delete, TypeInv, TypeOK
<1>4. ASSUME NEW r \in Requests, NEW q \in Requests, Race(r, q) PROVE Dropping
  BY <1>4 DEF Dropping, Race, TypeInv, TypeOK, DrawnFirst
<1>5. ASSUME NEW id \in Ids, Expire(id) PROVE Dropping
  BY <1>5 DEF Dropping, Expire, TypeInv, TypeOK
<1>6. ASSUME NEW r \in Requests,
             \/ \E c \in Clients : Send(r, c)
             \/ GetKnown(r) \/ GetNew(r) \/ GuardPass(r) \/ Panic(r) \/ Hear(r)
      PROVE  UNCHANGED cache /\ gone \subseteq gone'
  BY <1>6 DEF Send, GetKnown, GetNew, Start, GuardPass, Panic, Hear
<1>7. CASE UNCHANGED vars
  BY <1>7 DEF Dropping, vars
<1>8. QED
  BY <1>1, <1>2, <1>3, <1>4, <1>5, <1>6, <1>7 DEF Next, Serve, Saves, Dropping

(* Data carries changes of its own ID, and a map is the data of its maker. *)

Stored(d, id) ==
  /\ \A q \in d.changes : session[q].id = id
  /\ d.map # NoMap => d.map \in d.changes /\ d = session[d.map].data

Kept ==
  /\ \A r \in Requests : pc[r] \in {"new", "get"} => session[r].id = NoId
  /\ \A r \in Requests : session[r].id = NoId => session[r].data = Empty
  /\ \A r \in Requests : Stored(session[r].data, session[r].id)
  /\ \A id \in Ids : cache[id] # NoData => Stored(cache[id], id)
  /\ \A q \in saved : session[q].id # NoId

LEMMA KeptInit == Init => Kept
<1>. SUFFICES ASSUME Init PROVE Kept
  OBVIOUS
<1>1. \A r \in Requests : session[r].id = NoId /\ session[r].data = Empty
  BY DEF Init
<1>2. Empty.changes = {} /\ Empty.map = NoMap
  BY DEF Empty
<1>3. saved = {} /\ \A id \in Ids : cache[id] = NoData
  BY DEF Init
<1>4. QED
  BY <1>1, <1>2, <1>3 DEF Kept, Stored

(* A change reaches the holders of the data it is made to, and no others.  *)
LEMMA ChangeGrows ==
  ASSUME TypeInv, Kept, NEW r \in Requests, Change(r)
  PROVE  \E new \in Data :
           /\ new.changes = session[r].data.changes \cup {r}
           /\ session[r].data.map \in {NoMap, new.map}
           /\ session'[r].data = new
           /\ \A q \in Requests : session'[q].id = session[q].id
           /\ new.map # NoMap => new.map \in new.changes /\ session'[new.map].data = new
           /\ \A q \in Requests :
                \/ /\ session'[q] = session[q]
                   /\ session[q].data.map = NoMap \/ session[q].data.map # new.map
                \/ /\ session'[q].data = new /\ session[q].data = session[r].data
                   /\ session[q].id = session[r].id
                   /\ q = r \/ session[q].data.map # NoMap
           /\ \A id \in Ids : cache[id] # NoData =>
                \/ /\ cache'[id] = cache[id]
                   /\ cache[id].map = NoMap \/ cache[id].map # new.map
                \/ /\ cache'[id] = new /\ cache[id] = session[r].data
                   /\ new.map # NoMap /\ cache[id].map = new.map
                   /\ id = session[r].id
           /\ \A id \in Ids : cache[id] = NoData => cache'[id] = NoData
<1>. DEFINE new == Changed(session[r].data, r)
<1>1. session[r].data \in Data /\ pc[r] = "next"
  BY DEF TypeInv, TypeOK, Change
<1>2. /\ new \in Data
      /\ new.changes = session[r].data.changes \cup {r}
      /\ \/ new.map = session[r].data.map
         \/ session[r].data.map = NoMap /\ new.map = r
  BY <1>1 DEF Changed, Data
<1>3. /\ session' = [q \in Requests |->
                       IF q = r \/ SameMap(session[q].data, new)
                         THEN [id |-> session[q].id, data |-> new] ELSE session[q]]
      /\ cache' = [id \in Ids |-> IF SameMap(cache[id], new) THEN new ELSE cache[id]]
  BY DEF Change
<1>. HIDE DEF new
<1>4. \A d \in Data, id \in Ids \cup {NoId} :
        SameMap(d, new) /\ Stored(d, id) => d = session[r].data /\ id = session[r].id
  <2>. SUFFICES ASSUME NEW d \in Data, NEW id \in Ids \cup {NoId}, SameMap(d, new), Stored(d, id)
                PROVE  d = session[r].data
    BY DEF SameMap, Stored, Kept
  <2>1. d.map # NoMap /\ d.map = new.map /\ d = session[d.map].data
    BY DEF SameMap, Stored
  <2>2. CASE new.map = session[r].data.map
    BY <2>1, <2>2 DEF Kept, Stored
  <2>3. CASE session[r].data.map = NoMap /\ new.map = r
    BY <2>1, <2>3
  <2>4. QED
    BY <1>2, <2>2, <2>3
<1>5. /\ session'[r].data = new
      /\ \A q \in Requests :
           /\ session'[q].id = session[q].id
           /\ \/ session'[q] = session[q] /\ ~SameMap(session[q].data, new)
              \/ session'[q].data = new /\ (q = r \/ SameMap(session[q].data, new))
  BY <1>3
<1>6. \A q \in Requests : session[q].data \in Data /\ session[q].id \in Ids \cup {NoId}
                          /\ Stored(session[q].data, session[q].id)
  BY DEF Kept, TypeInv, TypeOK
<1>7. \A q \in Requests :
        \/ /\ session'[q] = session[q]
           /\ session[q].data.map = NoMap \/ session[q].data.map # new.map
        \/ /\ session'[q].data = new /\ session[q].data = session[r].data
           /\ session[q].id = session[r].id
           /\ q = r \/ session[q].data.map # NoMap
  BY <1>4, <1>5, <1>6, SessionConstants DEF SameMap
<1>8. \A id \in Ids : cache[id] # NoData =>
        \/ /\ cache'[id] = cache[id]
           /\ cache[id].map = NoMap \/ cache[id].map # new.map
        \/ /\ cache'[id] = new /\ cache[id] = session[r].data
           /\ new.map # NoMap /\ cache[id].map = new.map
           /\ id = session[r].id
  <2>. SUFFICES ASSUME NEW id \in Ids, cache[id] # NoData, SameMap(cache[id], new)
                PROVE  cache[id] = session[r].data /\ id = session[r].id
    BY <1>3 DEF SameMap
  <2>1. cache[id] \in Data /\ Stored(cache[id], id)
    BY DEF Kept, TypeInv, TypeOK
  <2>2. QED
    BY <1>4, <2>1
<1>9. new.map # NoMap => new.map \in new.changes /\ session'[new.map].data = new
  <2>1. CASE new.map = session[r].data.map /\ new.map # NoMap
    <3>1. /\ new.map \in session[r].data.changes
          /\ session[r].data = session[new.map].data
      BY <1>6, <2>1 DEF Stored
    <3>2. new.map \in Requests /\ SameMap(session[new.map].data, new)
      BY <1>2, <1>6, <2>1, <3>1, SessionConstants DEF SameMap, Data
    <3>3. QED
      BY <1>2, <1>3, <3>1, <3>2
  <2>2. CASE new.map = r
    BY <1>2, <1>5, <2>2
  <2>3. QED
    BY <1>2, <2>1, <2>2
<1>10. \A id \in Ids : cache[id] = NoData => cache'[id] = NoData
  BY <1>3 DEF SameMap
<1>11. QED
  BY <1>2, <1>5, <1>7, <1>8, <1>9, <1>10

LEMMA KeptNext == TypeInv /\ OwnedIds /\ Kept /\ [Next]_vars => Kept'
<1>. SUFFICES ASSUME TypeInv, OwnedIds, Kept, [Next]_vars PROVE Kept'
  OBVIOUS
<1>0. /\ \A r \in Requests : session[r].data \in Data
      /\ \A id \in Ids : cache[id] # NoData => cache[id] \in Data
      /\ saved \subseteq Requests
  BY DEF TypeInv, TypeOK
<1>1. ASSUME NEW r \in Requests, Change(r) PROVE Kept'
  <2>1. PICK new \in Data :
           /\ new.changes = session[r].data.changes \cup {r}
           /\ session[r].data.map \in {NoMap, new.map}
           /\ session'[r].data = new
           /\ \A q \in Requests : session'[q].id = session[q].id
           /\ new.map # NoMap => new.map \in new.changes /\ session'[new.map].data = new
           /\ \A q \in Requests :
                \/ /\ session'[q] = session[q]
                   /\ session[q].data.map = NoMap \/ session[q].data.map # new.map
                \/ /\ session'[q].data = new /\ session[q].data = session[r].data
                   /\ session[q].id = session[r].id
                   /\ q = r \/ session[q].data.map # NoMap
           /\ \A id \in Ids : cache[id] # NoData =>
                \/ /\ cache'[id] = cache[id]
                   /\ cache[id].map = NoMap \/ cache[id].map # new.map
                \/ /\ cache'[id] = new /\ cache[id] = session[r].data
                   /\ new.map # NoMap /\ cache[id].map = new.map
                   /\ id = session[r].id
           /\ \A id \in Ids : cache[id] = NoData => cache'[id] = NoData
    BY <1>1, ChangeGrows
  <2>2. pc[r] = "next" /\ UNCHANGED <<pc, saved>>
    BY <1>1 DEF Change
  <2>. DEFINE StoredThen(d, id) ==
                /\ \A q \in d.changes : session'[q].id = id
                /\ d.map # NoMap => d.map \in d.changes /\ d = session'[d.map].data
  <2>3. \A d \in Data, id \in Ids \cup {NoId} :
          Stored(d, id) /\ (d.map = NoMap \/ d.map # new.map) => StoredThen(d, id)
    <3>. SUFFICES ASSUME NEW d \in Data, NEW id \in Ids \cup {NoId}, Stored(d, id),
                         d.map = NoMap \/ d.map # new.map
                  PROVE  StoredThen(d, id)
      OBVIOUS
    <3>1. d.changes \subseteq Requests
      BY DEF Data
    <3>2. \A q \in d.changes : session'[q].id = id
      BY <2>1, <3>1 DEF Stored
    <3>3. ASSUME d.map # NoMap PROVE d.map \in d.changes /\ d = session'[d.map].data
      <4>1. d.map \in d.changes /\ d = session[d.map].data /\ d.map # new.map
        BY <3>3 DEF Stored
      <4>2. d.map \in Requests
        BY <3>1, <4>1
      <4>3. d # session[r].data
        BY <2>1, <3>3, <4>1
      <4>4. session'[d.map].data = session[d.map].data
        BY <2>1, <4>1, <4>2, <4>3
      <4>5. QED
        BY <4>1, <4>4
    <3>4. QED
      BY <3>2, <3>3
  <2>4. StoredThen(new, session[r].id)
    <3>1. \A q \in session[r].data.changes : session[q].id = session[r].id
      BY DEF Kept, Stored
    <3>2. QED
      BY <1>0, <2>1, <3>1 DEF Data
  <2>. HIDE DEF StoredThen
  <2>5. \A q \in Requests : StoredThen(session'[q].data, session'[q].id)
    <3>. SUFFICES ASSUME NEW q \in Requests PROVE StoredThen(session'[q].data, session'[q].id)
      OBVIOUS
    <3>1. Stored(session[q].data, session[q].id) /\ session[q].id \in Ids \cup {NoId}
      BY DEF Kept, TypeInv, TypeOK
    <3>2. QED
      BY <1>0, <2>1, <2>3, <2>4, <3>1
  <2>6. \A id \in Ids : cache'[id] # NoData => StoredThen(cache'[id], id)
    <3>. SUFFICES ASSUME NEW id \in Ids, cache'[id] # NoData PROVE StoredThen(cache'[id], id)
      OBVIOUS
    <3>1. cache[id] # NoData /\ cache[id] \in Data /\ Stored(cache[id], id)
      BY <1>0, <2>1 DEF Kept
    <3>2. QED
      BY <2>1, <2>3, <2>4, <3>1
  <2>7. \A q \in Requests : session'[q].id = NoId => session'[q].data = Empty
    <3>1. session[r].id # NoId
      BY <2>2 DEF TypeInv, DrawnFirst, Inside
    <3>2. QED
      BY <2>1, <3>1 DEF Kept
  <2>8. QED
    BY <1>0, <2>1, <2>2, <2>5, <2>6, <2>7 DEF Kept, Stored, StoredThen
<1>2. ASSUME NEW r \in Requests, NEW id \in Ids, NEW data \in Data, pc[r] = "get",
             Start(r, id, data), Stored(data, id), data.changes = {} \/ cache[id] = data
      PROVE  Kept'
  <2>1. /\ session'[r].id = id /\ session'[r].data = data
        /\ \A q \in Requests : q # r => session'[q] = session[q]
        /\ \A q \in Requests : pc'[q] \in {"new", "get"} => pc[q] \in {"new", "get"} /\ q # r
        /\ UNCHANGED <<cache, saved>>
    BY <1>2 DEF Start, Inward, Goto, TypeInv, TypeOK
  <2>2. session[r].id = NoId /\ session[r].data = Empty
    BY <1>2 DEF Kept
  <2>3. \A d \in Data, x \in Ids : Stored(d, x) => r \notin d.changes
    BY <2>2, SessionConstants DEF Stored
  <2>. DEFINE StoredThen(d, x) ==
                /\ \A q \in d.changes : session'[q].id = x
                /\ d.map # NoMap => d.map \in d.changes /\ d = session'[d.map].data
  <2>4. \A d \in Data, x \in Ids \cup {NoId} : Stored(d, x) /\ r \notin d.changes => StoredThen(d, x)
    <3>. SUFFICES ASSUME NEW d \in Data, NEW x \in Ids \cup {NoId}, Stored(d, x), r \notin d.changes
                  PROVE  StoredThen(d, x)
      OBVIOUS
    <3>1. d.changes \subseteq Requests
      BY DEF Data
    <3>2. QED
      BY <2>1, <3>1 DEF Stored
  <2>5. \A q \in Requests : q # r => r \notin session[q].data.changes
    <3>. SUFFICES ASSUME NEW q \in Requests, q # r, r \in session[q].data.changes PROVE FALSE
      OBVIOUS
    <3>1. session[q].id = session[r].id
      BY DEF Kept, Stored
    <3>2. session[q].data = Empty
      BY <2>2, <3>1 DEF Kept
    <3>3. QED
      BY <3>2 DEF Empty
  <2>. HIDE DEF StoredThen
  <2>6. \A x \in Ids : cache[x] # NoData => StoredThen(cache[x], x)
    BY <1>0, <2>3, <2>4 DEF Kept
  <2>7. StoredThen(data, id)
    BY <1>2, <2>3, <2>4
  <2>8. \A q \in Requests : StoredThen(session'[q].data, session'[q].id)
    <3>. SUFFICES ASSUME NEW q \in Requests, q # r
                  PROVE  StoredThen(session[q].data, session[q].id)
      BY <2>1, <2>7
    <3>1. /\ session[q].data \in Data /\ session[q].id \in Ids \cup {NoId}
          /\ Stored(session[q].data, session[q].id) /\ r \notin session[q].data.changes
      BY <1>0, <2>5 DEF Kept, TypeInv, TypeOK
    <3>2. QED
      BY <2>4, <3>1
  <2>9. \A q \in saved : q # r
    BY <2>2 DEF Kept
  <2>10. \A q \in Requests : session'[q].id = NoId => session'[q].data = Empty
    BY <1>2, <2>1, SessionConstants DEF Kept
  <2>11. QED
    BY <1>0, <2>1, <2>6, <2>8, <2>9, <2>10 DEF Kept, Stored, StoredThen
<1>3. ASSUME NEW r \in Requests, GetKnown(r) PROVE Kept'
  <2>1. /\ pc[r] = "get" /\ cookie[r] \in Ids /\ cache[cookie[r]] # NoData
        /\ Start(r, cookie[r], cache[cookie[r]])
    BY <1>3 DEF GetKnown, Known, TypeInv, TypeOK
  <2>2. Stored(cache[cookie[r]], cookie[r]) /\ cache[cookie[r]] \in Data
    BY <1>0, <2>1 DEF Kept
  <2>3. QED
    BY <1>2, <2>1, <2>2
<1>4. ASSUME NEW r \in Requests, GetNew(r) PROVE Kept'
  <2>1. PICK id \in Ids : Start(r, id, Empty)
    BY <1>4 DEF GetNew, NewIds
  <2>2. Empty \in Data /\ Stored(Empty, id) /\ Empty.changes = {}
    BY DEF Empty, Data, Stored
  <2>3. pc[r] = "get"
    BY <1>4 DEF GetNew
  <2>4. QED
    BY <1>2, <2>1, <2>2, <2>3
<1>5. ASSUME NEW r \in Requests, Saves(r) PROVE Kept'
  <2>1. /\ Inside(r) /\ Save(r)
        /\ saved' = saved \cup session[r].data.changes /\ UNCHANGED session
        /\ \A q \in Requests : pc'[q] \in {"new", "get"} => pc[q] \in {"new", "get"}
    BY <1>5, SavesAre DEF Inside
  <2>2. /\ session[r].id # NoId /\ cache'[session[r].id] = session[r].data
        /\ \A id \in Ids : id # session[r].id => cache'[id] = cache[id]
    BY <2>1, SaveStores DEF TypeInv, DrawnFirst
  <2>3. \A id \in Ids : cache'[id] # NoData => Stored(cache'[id], id)
    BY <2>2 DEF Kept
  <2>4. \A q \in saved' : session[q].id # NoId
    BY <2>1, <2>2 DEF Kept, Stored
  <2>5. QED
    BY <2>1, <2>3, <2>4 DEF Kept, Stored
<1>6. ASSUME UNCHANGED <<session, saved>>,
             \A q \in Requests : pc'[q] \in {"new", "get"} => pc[q] \in {"new", "get"},
             \A id \in Ids : cache'[id] = cache[id] \/ cache'[id] = NoData
      PROVE  Kept'
  BY <1>6 DEF Kept, Stored
<1>7. ASSUME NEW r \in Requests,
             \/ \E c \in Clients : Send(r, c)
             \/ GuardPass(r) \/ Delete(r) \/ Panic(r) \/ Hear(r)
      PROVE  Kept'
  <2>1. /\ UNCHANGED <<session, saved>>
        /\ \A id \in Ids : cache'[id] = cache[id] \/ cache'[id] = NoData
    BY <1>7 DEF Send, GuardPass, Delete, Panic, Hear, TypeInv, TypeOK
  <2>2. \A q \in Requests : pc'[q] \in {"new", "get"} => pc[q] \in {"new", "get"}
    BY <1>7 DEF Send, GuardPass, Delete, Panic, Hear, Goto, TypeInv, TypeOK
  <2>3. QED
    BY <1>6, <2>1, <2>2
<1>8. ASSUME NEW r \in Requests, NEW q \in Requests, Race(r, q) PROVE Kept'
  BY <1>6, <1>8 DEF Race
<1>9. ASSUME NEW id \in Ids, Expire(id) PROVE Kept'
  <2>1. /\ UNCHANGED <<session, saved, pc>>
        /\ \A x \in Ids : cache'[x] = cache[x] \/ cache'[x] = NoData
    BY <1>9 DEF Expire, TypeInv, TypeOK
  <2>2. QED
    BY <1>6, <2>1
<1>10. CASE UNCHANGED vars
  BY <1>6, <1>10 DEF vars
<1>11. QED
  BY <1>1, <1>3, <1>4, <1>5, <1>7, <1>8, <1>9, <1>10 DEF Next, Serve, Saves

----------------------------------------------------------------------------
(* What jars, cookies and sessions name can be found, is gone, or is about *)
(* to be saved.                                                            *)
Findable(id) ==
  \/ id = NoId \/ id \in gone \/ cache[id] # NoData
  \/ \E r \in Requests : Inside(r) /\ session[r].id = id

Findables ==
  /\ \A c \in Clients : Findable(jar[c])
  /\ \A r \in Requests : Findable(cookie[r]) /\ Findable(session[r].id)

LEMMA FindablesInit == Init => Findables
BY DEF Init, Findables, Findable

(* A request that is inside stays there with its session, or leaves it     *)
(* saved or gone.                                                          *)
Departing ==
  \A r \in Requests :
    /\ session[r].id # NoId => session'[r].id = session[r].id
    /\ Inside(r) => Inside(r)' \/ session[r].id \in gone' \/ cache'[session[r].id] # NoData
    /\ session'[r].id = session[r].id \/ Inside(r)'

LEMMA SessionsDepart == TypeInv /\ Kept /\ [Next]_vars => Departing
<1>. SUFFICES ASSUME TypeInv, Kept, [Next]_vars PROVE Departing
  OBVIOUS
<1>1. ASSUME NEW r \in Requests, Saves(r) PROVE Departing
  <2>1. /\ UNCHANGED session /\ cache'[session[r].id] # NoData
        /\ \A q \in Requests : q # r => pc'[q] = pc[q]
    BY <1>1, SavesAre, SaveStores
  <2>2. QED
    BY <2>1 DEF Departing, Inside
<1>2. ASSUME NEW r \in Requests, Change(r) PROVE Departing
  <2>1. UNCHANGED pc /\ \A q \in Requests : session'[q].id = session[q].id
    BY <1>2, ChangeReaches DEF Change, TypeInv
  <2>2. QED
    BY <2>1 DEF Departing, Inside
<1>3. ASSUME NEW r \in Requests, GetKnown(r) \/ GetNew(r) PROVE Departing
  <2>1. PICK id, data : pc[r] = "get" /\ Start(r, id, data)
    BY <1>3 DEF GetKnown, GetNew
  <2>2. /\ Inside(r)' /\ session[r].id = NoId /\ ~Inside(r)
        /\ \A q \in Requests : q # r => pc'[q] = pc[q] /\ session'[q] = session[q]
    BY <2>1 DEF Start, Inward, Goto, Inside, Kept, TypeInv, TypeOK
  <2>3. QED
    BY <2>2 DEF Departing, Inside
<1>4. ASSUME NEW r \in Requests, Panic(r) PROVE Departing
  <2>1. /\ UNCHANGED <<session, cache>> /\ \A q \in Requests : q # r => pc'[q] = pc[q]
        /\ session[r].id \in gone' \/ cache[session[r].id] # NoData
    BY <1>4 DEF Panic, Goto, TypeInv, TypeOK
  <2>2. QED
    BY <2>1 DEF Departing, Inside
<1>5. ASSUME NEW r \in Requests, GuardPass(r) \/ \E c \in Clients : Send(r, c) PROVE Departing
  <2>1. /\ UNCHANGED session /\ (Inside(r) => Inside(r)')
        /\ \A q \in Requests : q # r => pc'[q] = pc[q]
    BY <1>5 DEF GuardPass, Send, Goto, Inside, TypeInv, TypeOK
  <2>2. QED
    BY <2>1 DEF Departing, Inside
<1>6. ASSUME NEW r \in Requests, NEW q \in Requests, Race(r, q) PROVE Departing
  <2>1. UNCHANGED session /\ gone' = drawn
    BY <1>6 DEF Race
  <2>2. \A p \in Requests : Inside(p) => session[p].id \in drawn
    BY DEF TypeInv, DrawnFirst
  <2>3. QED
    BY <2>1, <2>2 DEF Departing
<1>7. ASSUME NEW r \in Requests, Delete(r) \/ Hear(r) PROVE Departing
  BY <1>7 DEF Delete, Hear, Departing, Inside
<1>8. ASSUME NEW id \in Ids, Expire(id) PROVE Departing
  BY <1>8 DEF Expire, Departing, Inside
<1>9. CASE UNCHANGED vars
  BY <1>9 DEF vars, Departing, Inside
<1>10. QED
  BY <1>1, <1>2, <1>3, <1>4, <1>5, <1>6, <1>7, <1>8, <1>9 DEF Next, Serve, Saves

LEMMA FindablesNext == TypeInv /\ Kept /\ Findables /\ [Next]_vars => Findables'
<1>. SUFFICES ASSUME TypeInv, Kept, Findables, [Next]_vars PROVE Findables'
  OBVIOUS
<1>1. Dropping /\ Departing
  BY EntriesDrop, SessionsDepart
<1>2. \A r \in Requests : Inside(r) => session[r].id # NoId
  BY DEF TypeInv, DrawnFirst
<1>3. ASSUME NEW id \in Ids \cup {NoId}, Findable(id) PROVE Findable(id)'
  <2>1. CASE \E r \in Requests : Inside(r) /\ session[r].id = id
    BY <1>1, <1>2, <2>1 DEF Departing, Findable
  <2>2. CASE id = NoId \/ id \in gone
    BY <1>1, <2>2 DEF Dropping, Findable
  <2>3. CASE id \in Ids /\ cache[id] # NoData
    BY <1>1, <2>3 DEF Dropping, Findable
  <2>4. QED
    BY <1>3, <2>1, <2>2, <2>3 DEF Findable
<1>4. /\ \A c \in Clients : jar[c] \in Ids \cup {NoId}
      /\ \A r \in Requests : cookie[r] \in Ids \cup {NoId} /\ session[r].id \in Ids \cup {NoId}
  BY DEF TypeInv, TypeOK
<1>. DEFINE Jars == \A c \in Clients : \/ jar'[c] = jar[c]
                                       \/ \E r \in Requests : jar'[c] = session[r].id
            Cookies == \A r \in Requests : \/ cookie'[r] = cookie[r]
                                           \/ \E c \in Clients : cookie'[r] = jar[c]
<1>5. Jars
  <2>1. ASSUME NEW r \in Requests, Hear(r) PROVE Jars
    BY <2>1 DEF Hear, TypeInv, TypeOK
  <2>2. CASE UNCHANGED jar
    BY <2>2
  <2>3. QED
    BY <2>1, <2>2 DEF Next, Serve, Send, GetKnown, GetNew, Start, GuardPass, GuardRefuse, Leave,
       Change, SaveEarly, Delete, Return, Panic, Race, Expire, vars
<1>6. Cookies
  <2>1. ASSUME NEW r \in Requests, NEW c \in Clients, Send(r, c) PROVE Cookies
    BY <2>1 DEF Send, TypeInv, TypeOK
  <2>2. CASE UNCHANGED cookie
    BY <2>2
  <2>3. QED
    BY <2>1, <2>2 DEF Next, Serve, Hear, GetKnown, GetNew, Start, GuardPass, GuardRefuse, Leave,
       Change, SaveEarly, Delete, Return, Panic, Race, Expire, vars
<1>. HIDE DEF Jars, Cookies
<1>7. \A id \in Ids \cup {NoId} : Findable(id) => Findable(id)'
  BY <1>3
<1>8. ASSUME NEW c \in Clients PROVE Findable(jar[c])'
  <2>1. PICK id \in Ids \cup {NoId} : id = jar'[c] /\ Findable(id)
    BY <1>4, <1>5 DEF Jars, Findables
  <2>2. Findable(id)'
    BY <1>7, <2>1
  <2>3. QED
    BY <2>1, <2>2 DEF Findable
<1>9. ASSUME NEW r \in Requests PROVE Findable(cookie[r])'
  <2>1. PICK id \in Ids \cup {NoId} : id = cookie'[r] /\ Findable(id)
    BY <1>4, <1>6 DEF Cookies, Findables
  <2>2. Findable(id)'
    BY <1>7, <2>1
  <2>3. QED
    BY <2>1, <2>2 DEF Findable
<1>10. ASSUME NEW r \in Requests PROVE Findable(session[r].id)'
  <2>1. CASE Inside(r)'
    BY <2>1 DEF Findable
  <2>2. CASE session'[r].id = session[r].id
    <3>1. PICK id \in Ids \cup {NoId} : id = session[r].id /\ Findable(id)
      BY <1>4 DEF Findables
    <3>2. Findable(id)'
      BY <1>7, <3>1
    <3>3. QED
      BY <2>2, <3>1, <3>2 DEF Findable
  <2>3. QED
    BY <1>1, <2>1, <2>2 DEF Departing
<1>11. QED
  BY <1>8, <1>9, <1>10 DEF Findables

(* A client finds its session again, unless the entry is gone or the       *)
(* request it is from is not over (sessions.Start, Manager.Get and Save):  *)
(* whatever else is in flight, however early or late the response arrives  *)
(* or the handlers end.                                                    *)
THEOREM ClientsFindTheirSessions == Spec => []JarFindsSession
<1>1. TypeInv /\ OwnedIds /\ Findables => JarFindsSession
  <2>. SUFFICES ASSUME TypeInv, OwnedIds, Findables, NEW c \in Clients, jar[c] # NoId,
                       jar[c] \notin gone, cache[jar[c]] = NoData
                PROVE  \E r \in Requests : client[r] = c /\ session[r].id = jar[c] /\ Inside(r)
    BY DEF JarFindsSession
  <2>1. PICK r \in Requests : Inside(r) /\ session[r].id = jar[c]
    BY DEF Findables, Findable
  <2>2. client[r] = c
    BY <2>1 DEF OwnedIds, Owned, IdsOwned, JarsOwned, Started, Inside
  <2>3. QED
    BY <2>1, <2>2
<1>2. QED
  BY <1>1, TypeInit, TypeNext, OwnedInit, OwnedNext, KeptInit, KeptNext, FindablesInit, FindablesNext, PTL
  DEF Spec

----------------------------------------------------------------------------
(* A client that is not hasty has one request in flight.                   *)

Busy(r) == pc[r] \in {"get", "guard", "next"}

Serial ==
  \A p, q \in Requests :
    p # q /\ client[p] = client[q] /\ Busy(p) /\ Busy(q) => client[p] \in hasty

LEMMA SerialInit == Init => Serial
BY DEF Init, Serial, Busy

(* What every step does to requests in flight. *)
Flying ==
  /\ hasty \subseteq hasty'
  /\ \A q \in Requests : /\ pc[q] # "new" => client'[q] = client[q] /\ cookie'[q] = cookie[q]

LEMMA StepsFly ==
  ASSUME TypeInv, [Next]_vars,
         ~\E r \in Requests, c \in Clients : Send(r, c)
  PROVE  Flying /\ UNCHANGED <<client, hasty, cookie>> /\ \A q \in Requests : Busy(q)' => Busy(q)
<1>. DEFINE Idle == \A q \in Requests : Busy(q)' => Busy(q)
<1>1. UNCHANGED <<client, hasty, cookie>>
  BY DEF Next, Serve, Hear, GetKnown, GetNew, Start, GuardPass, GuardRefuse, Leave,
     Change, SaveEarly, Delete, Return, Panic, Race, Expire, vars
<1>2. ASSUME NEW r \in Requests, Saves(r) PROVE Idle
  BY <1>2, SavesAre DEF Inside, Busy
<1>3. ASSUME NEW r \in Requests,
             GetKnown(r) \/ GetNew(r) \/ GuardPass(r) \/ Panic(r) PROVE Idle
  <2>1. Busy(r) /\ \A q \in Requests : q # r => pc'[q] = pc[q]
    BY <1>3 DEF Busy, GetKnown, GetNew, Start, Inward, GuardPass, Panic, Goto,
       TypeInv, TypeOK
  <2>2. QED
    BY <2>1 DEF Busy
<1>4. ASSUME NEW r \in Requests, Change(r) \/ Delete(r) \/ Hear(r) PROVE Idle
  BY <1>4 DEF Change, Delete, Hear, Busy
<1>5. ASSUME NEW r \in Requests, NEW q \in Requests, Race(r, q) PROVE Idle
  BY <1>5 DEF Race, Busy
<1>6. ASSUME NEW id \in Ids, Expire(id) PROVE Idle
  <2>1. UNCHANGED pc
    BY <1>6 DEF Expire
  <2>2. QED
    BY <2>1 DEF Busy
<1>7. ASSUME UNCHANGED vars PROVE Idle
  <2>1. UNCHANGED pc
    BY <1>7 DEF vars
  <2>2. QED
    BY <2>1 DEF Busy
<1>. HIDE DEF Idle
<1>8. Idle
  <2>1. ASSUME NEW r \in Requests, Serve(r) PROVE Idle
    BY <1>2, <1>3, <1>4, <2>1 DEF Serve, Saves
  <2>2. QED
    BY <1>5, <1>6, <1>7, <2>1 DEF Next
<1>9. QED
  BY <1>1, <1>8 DEF Flying, Busy, Idle

LEMMA SendFlies ==
  ASSUME TypeInv, Serial, NEW r \in Requests, NEW c \in Clients, Send(r, c)
  PROVE  Flying /\ Serial'
<1>1. /\ pc[r] = "new" /\ client'[r] = c
      /\ hasty' = IF InFlight(c) = {} THEN hasty ELSE hasty \cup {c}
      /\ \A q \in Requests : q # r =>
           pc'[q] = pc[q] /\ client'[q] = client[q] /\ cookie'[q] = cookie[q]
  BY DEF Send, Goto, TypeInv, TypeOK
<1>2. \A q \in Requests : Busy(q) /\ client[q] = c => c \in hasty'
  BY <1>1 DEF InFlight, Busy
<1>3. Flying
  BY <1>1 DEF Flying, Busy
<1>4. Serial'
  BY <1>1, <1>2 DEF Serial, Busy
<1>5. QED
  BY <1>3, <1>4

LEMMA SerialNext == TypeInv /\ Serial /\ [Next]_vars => Serial'
<1>. SUFFICES ASSUME TypeInv, Serial, [Next]_vars PROVE Serial'
  OBVIOUS
<1>1. CASE \E r \in Requests, c \in Clients : Send(r, c)
  BY <1>1, SendFlies
<1>2. CASE ~\E r \in Requests, c \in Clients : Send(r, c)
  BY <1>2, StepsFly DEF Serial, Busy
<1>3. QED
  BY <1>1, <1>2

(* Requests with the same ID are of one client, and of a client that is    *)
(* not hasty one at most is between Get and the Save of Start.             *)
LEMMA OneInside ==
  ASSUME TypeInv, OwnedIds, Serial
  PROVE  /\ \A p, q \in Requests :
              pc[p] # "new" /\ pc[q] # "new" /\ session[p].id = session[q].id /\ session[p].id # NoId
                => client[p] = client[q]
         /\ \A p, q \in Requests :
              Inside(p) /\ Inside(q) /\ session[p].id = session[q].id /\ client[p] \notin hasty
                => p = q
<1>1. PICK owner \in [Ids -> Clients] : IdsOwned(owner)
  BY DEF OwnedIds, Owned
<1>2. \A p, q \in Requests :
        pc[p] # "new" /\ pc[q] # "new" /\ session[p].id = session[q].id /\ session[p].id # NoId
          => client[p] = client[q]
  BY <1>1 DEF IdsOwned, Started
<1>3. \A p \in Requests : Inside(p) => Busy(p) /\ pc[p] # "new" /\ session[p].id # NoId
  BY DEF Inside, Busy, TypeInv, DrawnFirst
<1>4. QED
  BY <1>2, <1>3 DEF Serial

----------------------------------------------------------------------------
(* What the requests and the cache remember.                               *)

(* A request inside has all the changes that the cache has for its ID. *)
Current ==
  \A p \in Requests :
    Inside(p) /\ client[p] \notin hasty /\ cache[session[p].id] # NoData
      => cache[session[p].id].changes \subseteq session[p].data.changes

(* A saved change stays in its entry, with others perhaps. *)
Remembered ==
  \A q \in saved : client[q] \notin hasty /\ session[q].id \notin gone
    => cache[session[q].id] # NoData /\ cache[session[q].id].changes # {}

(* SessionAuth looks at the session of the cookie, if there still is one,  *)
(* or if it is not yet saved, by a request that overlaps.                  *)
Shown ==
  \A r \in Requests : pc[r] = "guard" =>
    session[r].id = cookie[r] \/ cookie[r] = NoId \/ cookie[r] \in gone
      \/ client[r] \in hasty

(* What has changes has one that was saved. *)
Logged ==
  /\ \A id \in Ids : cache[id] # NoData /\ cache[id].changes # {}
       => \E q \in cache[id].changes : q \in saved
  /\ \A r \in Requests : pc[r] = "guard" /\ session[r].data.changes # {}
       => \E q \in session[r].data.changes : q \in saved

Memory == Current /\ Remembered /\ Shown /\ Logged

Inv == /\ TypeInv /\ OwnedIds
       /\ Findables /\ Kept /\ Serial /\ Memory

(* The steps that leave sessions as they are and store nothing. *)
Quiet ==
  /\ UNCHANGED <<session, saved>>
  /\ gone \subseteq gone'
  /\ \A id \in Ids : cache'[id] = cache[id] \/ (cache'[id] = NoData /\ id \in gone')
  /\ \A q \in Requests : /\ Inside(q)' => Inside(q)
                         /\ pc'[q] = "guard" => pc[q] = "guard"

LEMMA QuietSteps ==
  ASSUME TypeInv, [Next]_vars,
         ~\E r \in Requests : Saves(r) \/ Change(r) \/ GetKnown(r) \/ GetNew(r)
  PROVE  Quiet
<1>1. ASSUME NEW r \in Requests,
             \/ \E c \in Clients : Send(r, c)
             \/ GuardPass(r) \/ Panic(r)
      PROVE  Quiet
  <2>1. /\ UNCHANGED <<session, saved, cache>> /\ gone \subseteq gone'
        /\ pc'[r] \in {"next", "get", "done"}
        /\ pc'[r] = "next" => pc[r] = "guard"
        /\ \A q \in Requests : q # r => pc'[q] = pc[q]
    BY <1>1 DEF Send, GuardPass, Panic, Goto, TypeInv, TypeOK
  <2>2. QED
    BY <2>1 DEF Quiet, Inside
<1>2. ASSUME NEW r \in Requests, Delete(r) \/ Hear(r) PROVE Quiet
  BY <1>2 DEF Delete, Hear, Quiet, Inside, TypeInv, TypeOK
<1>3. ASSUME NEW r \in Requests, NEW q \in Requests, Race(r, q) PROVE Quiet
  BY <1>3 DEF Race, Quiet, Inside, TypeInv, TypeOK, DrawnFirst
<1>4. ASSUME NEW id \in Ids, Expire(id) PROVE Quiet
  BY <1>4 DEF Expire, Quiet, Inside, TypeInv, TypeOK
<1>5. CASE UNCHANGED vars
  BY <1>5 DEF vars, Quiet, Inside
<1>6. QED
  BY <1>1, <1>2, <1>3, <1>4, <1>5 DEF Next, Serve, Saves

LEMMA MemoryInit == Init => Memory
BY DEF Init, Memory, Current, Remembered, Shown, Logged, Inside

LEMMA QuietKeeps ==
  ASSUME Inv, Flying, Quiet
  PROVE  Memory'
<1>1. \A q \in saved : q \in Requests /\ pc[q] # "new" /\ session[q].id \in Ids
  BY DEF Inv, Kept, TypeInv, TypeOK
<1>2. Current'
  <2>. SUFFICES ASSUME NEW p \in Requests, Inside(p)', client'[p] \notin hasty',
                       cache'[session'[p].id] # NoData
                PROVE  cache'[session'[p].id].changes \subseteq session'[p].data.changes
    BY DEF Current
  <2>1. Inside(p) /\ client[p] \notin hasty /\ session'[p] = session[p] /\ session[p].id \in Ids
    BY DEF Quiet, Flying, Inside, Inv, TypeInv, TypeOK, DrawnFirst
  <2>2. cache'[session[p].id] = cache[session[p].id]
    BY <2>1 DEF Quiet
  <2>3. QED
    BY <2>1, <2>2 DEF Inv, Memory, Current
<1>3. Remembered'
  <2>. SUFFICES ASSUME NEW q \in saved, client'[q] \notin hasty', session[q].id \notin gone'
                PROVE  cache'[session[q].id] # NoData /\ cache'[session[q].id].changes # {}
    BY DEF Remembered, Quiet
  <2>1. client[q] \notin hasty /\ session[q].id \notin gone
    BY <1>1 DEF Flying, Quiet
  <2>2. cache'[session[q].id] = cache[session[q].id]
    BY <1>1 DEF Quiet
  <2>3. QED
    BY <2>1, <2>2 DEF Inv, Memory, Remembered
<1>4. Shown'
  BY DEF Shown, Inv, Memory, Quiet, Flying
<1>5. Logged'
  BY DEF Logged, Inv, Memory, Quiet
<1>6. QED
  BY <1>2, <1>3, <1>4, <1>5 DEF Memory

LEMMA SavesKeep ==
  ASSUME Inv, NEW r \in Requests, Saves(r)
  PROVE  Memory'
<1>1. /\ Save(r) /\ Inside(r)
      /\ saved' = saved \cup session[r].data.changes
      /\ UNCHANGED <<client, cookie, session, gone, hasty>>
      /\ \A q \in Requests : /\ Inside(q)' => Inside(q)
                             /\ pc'[q] = "guard" => pc[q] = "guard"
  BY SavesAre DEF Inv, Inside
<1>2. /\ session[r].id \in Ids /\ cache'[session[r].id] = session[r].data
      /\ session[r].data # NoData
      /\ \A id \in Ids : id # session[r].id => cache'[id] = cache[id]
  BY <1>1, SaveStores DEF Inv
<1>3. Current'
  <2>. SUFFICES ASSUME NEW p \in Requests, Inside(p), client[p] \notin hasty,
                       cache'[session[p].id] # NoData
                PROVE  cache'[session[p].id].changes \subseteq session[p].data.changes
    BY <1>1 DEF Current
  <2>1. CASE session[p].id = session[r].id
    BY <1>1, <1>2, <2>1, OneInside DEF Inv
  <2>2. CASE session[p].id # session[r].id
    <3>1. session[p].id \in Ids
      BY DEF Inside, Inv, TypeInv, TypeOK, DrawnFirst
    <3>2. QED
      BY <1>2, <2>2, <3>1 DEF Inv, Memory, Current
  <2>3. QED
    BY <2>1, <2>2
<1>4. Remembered'
  <2>. SUFFICES ASSUME NEW q \in saved', client[q] \notin hasty, session[q].id \notin gone
                PROVE  cache'[session[q].id] # NoData /\ cache'[session[q].id].changes # {}
    BY <1>1 DEF Remembered
  <2>1. CASE q \in session[r].data.changes
    <3>1. session[q].id = session[r].id
      BY <2>1 DEF Inv, Kept, Stored
    <3>2. QED
      BY <1>2, <2>1, <3>1
  <2>2. CASE q \in saved
    <3>1. /\ q \in Requests /\ pc[q] # "new" /\ session[q].id \in Ids /\ session[q].id # NoId
          /\ cache[session[q].id] # NoData /\ cache[session[q].id].changes # {}
      BY <2>2 DEF Inv, Kept, TypeInv, TypeOK, Memory, Remembered
    <3>2. CASE session[q].id = session[r].id
      <4>1. pc[r] # "new" /\ client[r] = client[q]
        BY <1>1, <3>1, <3>2, OneInside DEF Inv, Inside
      <4>2. cache[session[r].id].changes \subseteq session[r].data.changes
        BY <1>1, <3>1, <3>2, <4>1 DEF Inv, Memory, Current
      <4>3. QED
        BY <1>2, <3>1, <3>2, <4>2
    <3>3. CASE session[q].id # session[r].id
      BY <1>2, <3>1, <3>3
    <3>4. QED
      BY <3>2, <3>3
  <2>3. QED
    BY <1>1, <2>1, <2>2
<1>5. Shown'
  BY <1>1 DEF Shown, Inv, Memory
<1>6. Logged'
  BY <1>1, <1>2 DEF Logged, Inv, Memory
<1>7. QED
  BY <1>3, <1>4, <1>5, <1>6 DEF Memory

LEMMA ChangeKeepsMemory ==
  ASSUME Inv, NEW r \in Requests, Change(r)
  PROVE  Memory'
<1>1. PICK new \in Data :
           /\ new.changes = session[r].data.changes \cup {r}
           /\ session'[r].data = new
           /\ \A q \in Requests : session'[q].id = session[q].id
           /\ new.map # NoMap => new.map \in new.changes /\ session'[new.map].data = new
           /\ \A q \in Requests :
                \/ session'[q] = session[q]
                \/ /\ session'[q].data = new /\ session[q].data = session[r].data
                   /\ q = r \/ session[q].data.map # NoMap
           /\ \A id \in Ids : cache[id] # NoData =>
                \/ cache'[id] = cache[id]
                \/ /\ cache'[id] = new /\ cache[id] = session[r].data
                   /\ new.map # NoMap /\ cache[id].map = new.map
                   /\ id = session[r].id
           /\ \A id \in Ids : cache[id] = NoData => cache'[id] = NoData
  BY ChangeGrows DEF Inv
<1>2. pc[r] = "next" /\ UNCHANGED <<pc, client, cookie, saved, gone, hasty>>
  BY DEF Change
<1>3. \A q \in Requests : session[q].data.changes \subseteq session'[q].data.changes
  BY <1>1
<1>4. \A id \in Ids : cache[id] # NoData => cache[id].changes \subseteq cache'[id].changes
  BY <1>1
<1>5. \A id \in Ids : cache[id] # NoData => cache'[id] # NoData
  BY <1>1, SessionConstants
<1>6. Current'
  <2>. SUFFICES ASSUME NEW p \in Requests, Inside(p), client[p] \notin hasty,
                       cache'[session[p].id] # NoData
                PROVE  cache'[session[p].id].changes \subseteq session'[p].data.changes
    BY <1>1, <1>2 DEF Current, Inside
  <2>1. session[p].id \in Ids /\ cache[session[p].id] # NoData
    BY <1>1 DEF Inside, Inv, TypeInv, TypeOK, DrawnFirst
  <2>2. cache[session[p].id].changes \subseteq session[p].data.changes
    BY <2>1 DEF Inv, Memory, Current
  <2>3. CASE cache'[session[p].id] = cache[session[p].id]
    BY <1>3, <2>2, <2>3
  <2>4. CASE cache'[session[p].id] = new /\ session[p].id = session[r].id
    <3>1. p = r
      BY <1>2, <2>4, OneInside DEF Inside, Inv
    <3>2. QED
      BY <1>1, <2>4, <3>1
  <2>5. QED
    BY <1>1, <2>1, <2>3, <2>4
<1>7. Remembered'
  <2>. SUFFICES ASSUME NEW q \in saved, client[q] \notin hasty, session[q].id \notin gone
                PROVE  cache'[session[q].id] # NoData /\ cache'[session[q].id].changes # {}
    BY <1>1, <1>2 DEF Remembered, Inv, TypeInv, TypeOK
  <2>1. session[q].id \in Ids
    BY DEF Inv, Kept, TypeInv, TypeOK
  <2>2. QED
    BY <1>4, <1>5, <2>1 DEF Inv, Memory, Remembered
<1>8. Shown'
  BY <1>1, <1>2 DEF Shown, Inv, Memory
<1>9. Logged'
  <2>1. ASSUME NEW id \in Ids, cache'[id] # NoData, cache'[id].changes # {}
        PROVE  \E q \in cache'[id].changes : q \in saved
    <3>1. cache[id] # NoData /\ cache[id].changes # {}
      BY <1>1, <2>1 DEF Inv, Kept, Stored
    <3>2. QED
      BY <1>4, <3>1 DEF Inv, Memory, Logged
  <2>2. ASSUME NEW q \in Requests, pc[q] = "guard", session'[q].data.changes # {}
        PROVE  \E p \in session'[q].data.changes : p \in saved
    <3>1. session[q].data.changes # {}
      BY <1>1, <1>2, <2>2 DEF Inv, Kept, Stored
    <3>2. QED
      BY <1>3, <2>2, <3>1 DEF Inv, Memory, Logged
  <2>3. QED
    BY <1>2, <2>1, <2>2 DEF Logged
<1>10. QED
  BY <1>6, <1>7, <1>8, <1>9 DEF Memory

LEMMA StartKeepsMemory ==
  ASSUME Inv, NEW r \in Requests, pc[r] = "get",
         NEW id \in Ids, NEW data \in Data, Start(r, id, data),
         \/ id = cookie[r] /\ cache[id] = data
         \/ cookie[r] = NoId \/ cookie[r] \in gone \/ client[r] \in hasty,
         cache[id] = data \/ (cache[id] = NoData /\ data.changes = {})
  PROVE  Memory'
<1>1. /\ session'[r].id = id /\ session'[r].data = data
      /\ \A q \in Requests : q # r => session'[q] = session[q] /\ pc'[q] = pc[q]
      /\ UNCHANGED <<cache, client, cookie, saved, gone, hasty>>
  BY DEF Start, Inward, Goto, Inv, TypeInv, TypeOK
<1>2. \A q \in saved : q # r
  BY DEF Inv, Kept
<1>3. Current'
  BY <1>1 DEF Current, Inv, Memory, Inside
<1>4. Remembered'
  BY <1>1, <1>2 DEF Remembered, Inv, Memory, TypeInv, TypeOK
<1>5. Shown'
  BY <1>1 DEF Shown, Inv, Memory
<1>6. Logged'
  <2>1. data.changes # {} => \E q \in data.changes : q \in saved
    BY SessionConstants DEF Inv, Memory, Logged
  <2>2. QED
    BY <1>1, <2>1 DEF Logged, Inv, Memory
<1>7. QED
  BY <1>3, <1>4, <1>5, <1>6 DEF Memory

LEMMA MemoryNext == Inv /\ [Next]_vars => Memory'
<1>. SUFFICES ASSUME Inv, [Next]_vars PROVE Memory'
  OBVIOUS
<1>1. ASSUME NEW r \in Requests, Saves(r) PROVE Memory'
  BY <1>1, SavesKeep
<1>2. ASSUME NEW r \in Requests, Change(r) PROVE Memory'
  BY <1>2, ChangeKeepsMemory
<1>3. ASSUME NEW r \in Requests, GetKnown(r) PROVE Memory'
  <2>1. /\ pc[r] = "get" /\ cookie[r] \in Ids /\ cache[cookie[r]] \in Data
        /\ Start(r, cookie[r], cache[cookie[r]])
    BY <1>3 DEF GetKnown, Known, Inv, TypeInv, TypeOK
  <2>2. QED
    BY <2>1, StartKeepsMemory
<1>4. ASSUME NEW r \in Requests, GetNew(r) PROVE Memory'
  <2>1. PICK id \in Ids : id \notin drawn /\ Start(r, id, Empty)
    BY <1>4 DEF GetNew, NewIds
  <2>2. pc[r] = "get" /\ (cookie[r] = NoId \/ cookie[r] \in gone \/ client[r] \in hasty)
    <3>1. pc[r] = "get" /\ ~Known(cookie[r]) /\ Findable(cookie[r])
      BY <1>4 DEF GetNew, Inv, Findables
    <3>2. ASSUME NEW p \in Requests, Inside(p), session[p].id = cookie[r], cookie[r] # NoId
          PROVE  client[r] \in hasty
      <4>1. client[p] = client[r]
        BY <3>1, <3>2 DEF Inv, OwnedIds, Owned, IdsOwned, Started, Inside
      <4>2. p # r /\ Busy(p) /\ Busy(r)
        BY <3>1, <3>2 DEF Inside, Busy
      <4>3. QED
        BY <4>1, <4>2 DEF Inv, Serial
    <3>3. QED
      BY <3>1, <3>2 DEF Known, Findable
  <2>3. cache[id] = NoData
    BY <2>1 DEF Inv, TypeInv, DrawnFirst
  <2>4. Empty \in Data /\ Empty.changes = {}
    BY DEF Empty, Data
  <2>5. QED
    BY <2>1, <2>2, <2>3, <2>4, StartKeepsMemory
<1>5. CASE ~\E r \in Requests : Saves(r) \/ Change(r) \/ GetKnown(r) \/ GetNew(r)
  <2>1. TypeInv /\ Serial
    BY DEF Inv
  <2>2. Quiet
    BY <1>5, <2>1, QuietSteps
  <2>3. Flying
    BY <2>1, StepsFly, SendFlies
  <2>4. QED
    BY <2>2, <2>3, QuietKeeps
<1>6. QED
  BY <1>1, <1>2, <1>3, <1>4, <1>5

LEMMA InvInit == Init => Inv
BY TypeInit, OwnedInit, FindablesInit, KeptInit, SerialInit, MemoryInit DEF Inv

LEMMA InvNext == Inv /\ [Next]_vars => Inv'
<1>. SUFFICES ASSUME Inv, [Next]_vars PROVE Inv'
  OBVIOUS
<1>1. TypeInv'
  BY TypeNext DEF Inv
<1>2. OwnedIds' /\ Findables' /\ Kept' /\ Serial'
  BY <1>1, OwnedNext, FindablesNext, KeptNext, SerialNext DEF Inv
<1>3. Memory'
  BY MemoryNext
<1>4. QED
  BY <1>1, <1>2, <1>3 DEF Inv

----------------------------------------------------------------------------
(* What a Save takes away is its client's, who has had requests overlap. *)
LEMMA NoStepLoses ==
  ASSUME Inv, [Next]_vars, NEW id \in Ids, cache[id] # NoData, cache'[id] # NoData,
         NEW q \in cache[id].changes \ cache'[id].changes
  PROVE  client[q] \in hasty
<1>1. ASSUME NEW r \in Requests, Saves(r), id = session[r].id PROVE client[q] \in hasty
  <2>1. /\ Inside(r) /\ pc[r] # "new" /\ Save(r) /\ session[r].id # NoId
        /\ cache'[id] = session[r].data
    BY <1>1, SavesAre, SaveStores DEF Inside, Inv, TypeInv, DrawnFirst
  <2>2. client[r] \in hasty
    BY <1>1, <2>1 DEF Inv, Memory, Current
  <2>3. q \in Requests /\ session[q].id = id /\ pc[q] # "new"
    BY <1>1, <2>1 DEF Inv, Kept, Stored, TypeInv, TypeOK, Data
  <2>4. client[q] = client[r]
    BY <1>1, <2>1, <2>3, OneInside DEF Inv
  <2>5. QED
    BY <2>2, <2>4
<1>2. ASSUME NEW r \in Requests, Saves(r), id # session[r].id PROVE FALSE
  BY <1>2, SavesAre, SaveStores DEF Inv
<1>3. ASSUME NEW r \in Requests, Change(r) PROVE FALSE
  <2>1. PICK new \in Data :
          /\ new.changes = session[r].data.changes \cup {r}
          /\ cache'[id] = cache[id] \/ (cache'[id] = new /\ cache[id] = session[r].data)
    BY <1>3, ChangeGrows DEF Inv
  <2>2. QED
    BY <2>1
<1>4. ASSUME NEW r \in Requests, GetKnown(r) \/ GetNew(r) PROVE FALSE
  BY <1>4 DEF GetKnown, GetNew, Start
<1>5. CASE ~\E r \in Requests : Saves(r) \/ Change(r) \/ GetKnown(r) \/ GetNew(r)
  BY <1>5, QuietSteps DEF Quiet, Inv
<1>6. QED
  BY <1>1, <1>2, <1>3, <1>4, <1>5

(* Whatever is deleted, panics or runs out, a Save takes away no change of *)
(* a client whose requests do not overlap (sessions.Start, Manager.Save):  *)
(* the last writer wins only against requests of the same client.          *)
THEOREM ChangesAreKept == Spec => NoChangeLost
<1>. DEFINE Loses == \A id \in Ids : cache[id] # NoData /\ cache'[id] # NoData
                      => \A q \in cache[id].changes \ cache'[id].changes : client[q] \in hasty
<1>1. Inv /\ [Next]_vars => [Loses]_cache
  BY NoStepLoses
<1>2. QED
  BY <1>1, InvInit, InvNext, PTL DEF Spec, NoChangeLost

(* A step out of SessionAuth is right: with one request inside, the data   *)
(* the Validator looks at is what the entry of the cookie has.             *)
LEMMA GuardIsRight ==
  ASSUME Inv, [Next]_vars, NEW r \in Requests, pc[r] = "guard"
  PROVE  /\ pc'[r] = "next" => LoggedIn(r) # {}
         /\ pc'[r] = "done" =>
              \A q \in LoggedIn(r) :
                session[q].id # cookie[r] \/ cookie[r] \in gone \/ client[r] \in hasty
<1>1. \/ GuardPass(r) \/ GuardRefuse(r)
      \/ pc'[r] \in {"guard", "dead"}
  <2>1. ASSUME NEW p \in Requests, p # r, Serve(p) \/ \E c \in Clients : Send(p, c)
        PROVE  pc'[r] = pc[r]
    <3>1. pc' = pc \/ \E place : pc' = [pc EXCEPT ![p] = place]
      BY <2>1 DEF Serve, Send, GetKnown, GetNew, Start, Inward, GuardPass, GuardRefuse, Leave,
         Change, SaveEarly, Delete, Return, Panic, Hear, Goto
    <3>2. QED
      BY <2>1, <3>1 DEF Inv, TypeInv, TypeOK
  <2>2. ASSUME Serve(r) \/ \E c \in Clients : Send(r, c)
        PROVE  GuardPass(r) \/ GuardRefuse(r) \/ pc'[r] = "guard"
    BY <2>2 DEF Serve, Send, GetKnown, GetNew, Change, SaveEarly, Delete, Return, Panic, Hear
  <2>3. ASSUME NEW p \in Requests, NEW q \in Requests, Race(p, q) PROVE pc'[r] = "dead"
    BY <2>3 DEF Race
  <2>4. ASSUME NEW id \in Ids, Expire(id) PROVE pc'[r] = "guard"
    BY <2>4 DEF Expire
  <2>5. QED
    BY <2>1, <2>2, <2>3, <2>4 DEF Next, vars
<1>2. ASSUME GuardPass(r) PROVE LoggedIn(r) # {} /\ pc'[r] = "next"
  <2>1. PICK q \in session[r].data.changes : q \in saved
    BY <1>2 DEF GuardPass, Valid, Inv, Memory, Logged
  <2>2. client[q] = client[r]
    BY <2>1 DEF Inv, OwnedIds, Owned, DataOwned, DataOf, Sent
  <2>3. QED
    BY <1>2, <2>1, <2>2 DEF LoggedIn, GuardPass, Goto, Inv, TypeInv, TypeOK
<1>3. ASSUME GuardRefuse(r), NEW q \in LoggedIn(r), session[q].id = cookie[r],
             cookie[r] \notin gone, client[r] \notin hasty
      PROVE  FALSE
  <2>1. /\ q \in saved /\ client[q] = client[r] /\ session[q].id # NoId
        /\ session[r].data.changes = {}
    BY <1>3 DEF LoggedIn, GuardRefuse, Valid, Inv, Kept
  <2>2. session[r].id = cookie[r]
    BY <1>3, <2>1 DEF Inv, Memory, Shown
  <2>3. cache[session[r].id] # NoData /\ cache[session[r].id].changes # {}
    BY <1>3, <2>1, <2>2 DEF Inv, Memory, Remembered
  <2>4. cache[session[r].id].changes \subseteq session[r].data.changes
    BY <1>3, <2>3 DEF Inv, Memory, Current, Inside
  <2>5. QED
    BY <2>1, <2>3, <2>4
<1>4. GuardRefuse(r) => pc'[r] = "done"
  BY DEF GuardRefuse, Leave, Goto, Inv, TypeInv, TypeOK
<1>5. QED
  BY <1>1, <1>2, <1>3, <1>4

(* SessionAuth lets in only a client that has logged in, and refuses one   *)
(* that has, without overlapping requests, only when the session is gone or    *)
(* another one is shown (middlewares.SessionAuthWithConfig, under          *)
(* sessions.Start).                                                        *)
THEOREM GuardKnowsItsClients == Spec => GuardKnowsClient
<1>. DEFINE Right == \A r \in Requests : pc[r] = "guard" =>
              /\ pc'[r] = "next" => LoggedIn(r) # {}
              /\ pc'[r] = "done" =>
                   \A q \in LoggedIn(r) :
                     \/ session[q].id # cookie[r]
                     \/ cookie[r] \in gone
                     \/ client[r] \in hasty
<1>1. Inv /\ [Next]_vars => [Right]_pc
  BY GuardIsRight
<1>2. QED
  BY <1>1, InvInit, InvNext, PTL DEF Spec, GuardKnowsClient
=============================================================================
