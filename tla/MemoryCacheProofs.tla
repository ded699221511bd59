------------------------- MODULE MemoryCacheProofs -------------------------
(***************************************************************************)
(* Proofs about MemoryCache, for any number of goroutines and keys and any *)
(* number of calls: its types, and that an entry without a TTL only goes   *)
(* when it is deleted or flushed.                                          *)
(***************************************************************************)
EXTENDS MemoryCache, TLAPS

Maps == [Keys -> Items \cup {NoItem}]

(* TypeOK with what makes it inductive: a goroutine in the middle of a     *)
(* call has a key and an item, and the janitor never calls Set or Flush.   *)
TypeInv ==
  /\ TypeOK
  /\ \A p \in Procs : pc[p] \in {"loaded", "expired", "storing"} =>
       key[p] \in Keys /\ it[p] \in Items

(* An empty cache is well typed. *)
LEMMA TypeInvInit == Init => TypeInv
BY DEF Init, TypeInv, TypeOK

(* Loading an item, in Get or in the sweep, keeps the types. *)
LEMMA LoadTypes ==
  ASSUME TypeInv, NEW p \in Procs, NEW k \in Keys,
         NEW item \in Items \cup {NoItem}, Load(p, k, item), unswept' \subseteq Keys
  PROVE  TypeInv'
<1>1. CASE item = NoItem /\ Goto(p, "idle") /\ UNCHANGED it
  BY <1>1 DEF Load, Goto, TypeInv, TypeOK
<1>2. CASE item # NoItem /\ Goto(p, "loaded") /\ it' = [it EXCEPT ![p] = item]
  BY <1>2 DEF Load, Goto, TypeInv, TypeOK
<1> QED BY <1>1, <1>2 DEF Load

(* Every step of a client, of the sweep and of the clock keeps the types. *)
LEMMA TypeInvNext == TypeInv /\ [Next]_vars => TypeInv'
<1> SUFFICES ASSUME TypeInv, [Next]_vars PROVE TypeInv'
  OBVIOUS
<1> USE DEF TypeInv, TypeOK, Procs, Goto
<1>1. CASE Tick
  BY <1>1 DEF Tick
<1>2. ASSUME NEW p \in Clients, NEW k \in Keys, Get(p, k) PROVE TypeInv'
  BY <1>2, LoadTypes DEF Get
<1>3. ASSUME NEW p \in Procs, CheckLive(p) \/ CheckExpired(p) PROVE TypeInv'
  BY <1>3 DEF CheckLive, CheckExpired
<1>4. ASSUME NEW p \in Procs, DeleteExpired(p) PROVE TypeInv'
  BY <1>4 DEF DeleteExpired, Remove
<1>5. CASE Sweep
  BY <1>5 DEF Sweep, StartSweep
<1>6. ASSUME NEW k \in Keys, SweepKey(k) PROVE TypeInv'
  <2> DEFINE item == IF old = NoItem THEN items[k] ELSE old[k]
  <2>1. item \in Items \cup {NoItem}
    OBVIOUS
  <2>2. Load(Janitor, k, item) /\ unswept' \subseteq Keys
    BY <1>6 DEF SweepKey
  <2> HIDE DEF item
  <2> QED BY <2>1, <2>2, LoadTypes
<1>7. ASSUME NEW p \in Clients, NEW k \in Keys, NEW v \in Values, NEW ttl \in TTLs,
             Set(p, k, v, ttl)
      PROVE  TypeInv'
  <2>1. [value |-> v, expiration |-> IF ttl > 0 THEN now + ttl ELSE 0] \in Items
    BY CacheConstants DEF Items
  <2> QED BY <1>7, <2>1 DEF Set
<1>8. ASSUME NEW p \in Clients, Store(p) PROVE TypeInv'
  BY <1>8 DEF Store, StoreItem
<1>9. ASSUME NEW p \in Clients, NEW k \in Keys, Delete(p, k) PROVE TypeInv'
  BY <1>9 DEF Delete, Remove
<1>10. ASSUME NEW p \in Clients, Flush(p) \/ Flushed(p) PROVE TypeInv'
  BY <1>10 DEF Flush, Flushed
<1>11. ASSUME NEW p \in Procs, Panic(p) PROVE TypeInv'
  BY <1>11 DEF Panic
<1>12. CASE UNCHANGED vars
  BY <1>12 DEF vars
<1> QED
  BY <1>1, <1>2, <1>3, <1>4, <1>5, <1>6, <1>7, <1>8, <1>9, <1>10, <1>11, <1>12
     DEF Next, Client, CleanupLoop, Finish

(* The cache is well typed in every reachable state. *)
THEOREM CacheTypeCorrect == Spec => []TypeOK
<1>1. TypeInv => TypeOK
  BY DEF TypeInv
<1> QED BY <1>1, TypeInvInit, TypeInvNext, PTL DEF Spec

----------------------------------------------------------------------------
(* Wherever an item of a key without TTLs is, in the map, in the map that a *)
(* sweep still ranges over or in the hands of a goroutine, its expiration  *)
(* is zero; so no goroutine ever finds it expired.                         *)
ZeroInv ==
  /\ \A k \in Keys \ timed :
       /\ items[k] # NoItem => items[k].expiration = 0
       /\ old # NoItem /\ old[k] # NoItem => old[k].expiration = 0
  /\ \A p \in Procs :
       /\ pc[p] \in {"loaded", "storing"} /\ key[p] \notin timed => it[p].expiration = 0
       /\ pc[p] = "expired" => key[p] \in timed

(* Every step keeps zero expirations zero. *)
LEMMA ZeroNext == TypeInv /\ ZeroInv /\ [Next]_vars => ZeroInv'
<1> SUFFICES ASSUME TypeInv, ZeroInv, [Next]_vars PROVE ZeroInv'
  OBVIOUS
<1> USE DEF TypeInv, TypeOK, ZeroInv, Procs, Goto
<1>1. CASE Tick
  BY <1>1 DEF Tick
<1>2. ASSUME NEW p \in Procs, NEW k \in Keys, NEW item \in Items \cup {NoItem},
             k \notin timed /\ item # NoItem => item.expiration = 0,
             Load(p, k, item)
      PROVE  ZeroInv'
  <2>1. CASE item = NoItem /\ Goto(p, "idle") /\ UNCHANGED it
    BY <1>2, <2>1 DEF Load
  <2>2. CASE item # NoItem /\ Goto(p, "loaded") /\ it' = [it EXCEPT ![p] = item]
    BY <1>2, <2>2 DEF Load
  <2> QED BY <1>2, <2>1, <2>2 DEF Load
<1>3. ASSUME NEW p \in Clients, NEW k \in Keys, Get(p, k) PROVE ZeroInv'
  BY <1>3, <1>2 DEF Get
<1>4. ASSUME NEW p \in Procs, CheckLive(p) PROVE ZeroInv'
  BY <1>4 DEF CheckLive
<1>5. ASSUME NEW p \in Procs, CheckExpired(p) PROVE ZeroInv'
  <2>1. key[p] \in timed
    BY <1>5 DEF CheckExpired, isExpired
  <2> QED BY <1>5, <2>1 DEF CheckExpired
<1>6. ASSUME NEW p \in Procs, DeleteExpired(p) PROVE ZeroInv'
  BY <1>6 DEF DeleteExpired, Remove
<1>7. CASE Sweep
  BY <1>7 DEF Sweep, StartSweep
<1>8. ASSUME NEW k \in Keys, SweepKey(k) PROVE ZeroInv'
  <2> DEFINE item == IF old = NoItem THEN items[k] ELSE old[k]
  <2>1. item \in Items \cup {NoItem}
    OBVIOUS
  <2>2. k \notin timed /\ item # NoItem => item.expiration = 0
    OBVIOUS
  <2>3. Load(Janitor, k, item)
    BY <1>8 DEF SweepKey
  <2> HIDE DEF item
  <2> QED BY <2>1, <2>2, <2>3, <1>2
<1>9. ASSUME NEW p \in Clients, NEW k \in Keys, NEW v \in Values, NEW ttl \in TTLs,
             Set(p, k, v, ttl)
      PROVE  ZeroInv'
  <2> DEFINE new == [value |-> v, expiration |-> IF ttl > 0 THEN now + ttl ELSE 0]
  <2>1. timed \subseteq timed' /\ (k \notin timed' => new.expiration = 0)
    BY <1>9, CacheConstants DEF Set
  <2>2. /\ it' = [it EXCEPT ![p] = new]
        /\ key' = [key EXCEPT ![p] = k]
        /\ pc' = [pc EXCEPT ![p] = "storing"]
        /\ UNCHANGED <<items, old>>
    BY <1>9 DEF Set
  <2> HIDE DEF new
  <2> QED BY <2>1, <2>2
<1>10. ASSUME NEW p \in Clients, Store(p) PROVE ZeroInv'
  BY <1>10 DEF Store, StoreItem
<1>11. ASSUME NEW p \in Clients, NEW k \in Keys, Delete(p, k) PROVE ZeroInv'
  BY <1>11 DEF Delete, Remove
<1>12. ASSUME NEW p \in Clients, Flush(p) PROVE ZeroInv'
  BY <1>12 DEF Flush
<1>13. ASSUME NEW p \in Clients, Flushed(p) PROVE ZeroInv'
  BY <1>13 DEF Flushed
<1>14. ASSUME NEW p \in Procs, Panic(p) PROVE ZeroInv'
  BY <1>14 DEF Panic
<1>15. CASE UNCHANGED vars
  BY <1>15 DEF vars
<1> QED
  BY <1>1, <1>3, <1>4, <1>5, <1>6, <1>7, <1>8, <1>9, <1>10, <1>11, <1>12, <1>13,
     <1>14, <1>15 DEF Next, Client, CleanupLoop, Finish

(* What may empty the entry of a key without TTLs. *)
Stays ==
  \A k \in Keys \ timed :
    Emptied(k) => \E p \in Clients : Delete(p, k) \/ Flushed(p)

(* No other step than Delete and Flushed empties such an entry. *)
LEMMA StaysNext == TypeInv /\ ZeroInv /\ [Next]_vars => [Stays]_items
<1> SUFFICES ASSUME TypeInv, ZeroInv, [Next]_vars, items' # items,
                    NEW k \in Keys \ timed, Emptied(k)
             PROVE  \E p \in Clients : Delete(p, k) \/ Flushed(p)
  BY DEF Stays
<1>1. ASSUME NEW p \in Procs, DeleteExpired(p) PROVE FALSE
  BY <1>1 DEF DeleteExpired, Remove, Emptied, ZeroInv, TypeInv, TypeOK
<1>2. ASSUME NEW p \in Clients, Store(p) PROVE FALSE
  BY <1>2, CacheConstants DEF Store, StoreItem, Emptied, TypeInv, TypeOK, Procs, Items
<1>3. ASSUME NEW p \in Clients, NEW j \in Keys, Delete(p, j)
      PROVE  \E q \in Clients : Delete(q, k) \/ Flushed(q)
  <2>1. j = k
    BY <1>3 DEF Delete, Remove, Emptied, TypeInv, TypeOK
  <2> QED BY <1>3, <2>1
<1>4. ASSUME NEW p \in Procs, CheckLive(p) \/ CheckExpired(p) \/ Panic(p) PROVE FALSE
  BY <1>4 DEF CheckLive, CheckExpired, Panic
<1>5. ASSUME NEW p \in Clients, NEW j \in Keys, Get(p, j) PROVE FALSE
  BY <1>5 DEF Get, Load
<1>6. ASSUME NEW p \in Clients, NEW j \in Keys, NEW v \in Values, NEW ttl \in TTLs,
             Set(p, j, v, ttl)
      PROVE  FALSE
  BY <1>6 DEF Set
<1>7. ASSUME NEW j \in Keys, SweepKey(j) PROVE FALSE
  BY <1>7 DEF SweepKey, Load
<1>8. CASE Tick \/ Sweep
  BY <1>8 DEF Tick, Sweep
<1>9. ASSUME NEW p \in Clients, Flush(p) PROVE FALSE
  BY <1>9 DEF Flush
<1>10. CASE UNCHANGED vars
  BY <1>10 DEF vars
<1> QED
  BY <1>1, <1>2, <1>3, <1>4, <1>5, <1>6, <1>7, <1>8, <1>9, <1>10
     DEF Next, Client, CleanupLoop, Finish, Procs

(* An entry of a key that is only ever Set without a TTL is never evicted, *)
(* however Gets, sweeps, Sets and Flushes interleave.                      *)
THEOREM NoTTLNeverEvicted == Spec => PermanentEntriesStay
<1>1. Init => ZeroInv
  BY DEF Init, ZeroInv
<1>2. TypeInv /\ ZeroInv /\ [Next]_vars => [\A k \in Keys \ timed :
        Emptied(k) => \E p \in Clients : Delete(p, k) \/ Flushed(p)]_items
  BY StaysNext DEF Stays
<1> QED
  BY <1>1, <1>2, TypeInvInit, TypeInvNext, ZeroNext, PTL DEF Spec, PermanentEntriesStay
=============================================================================
