---------------------------- MODULE MemoryCache ----------------------------
(***************************************************************************)
(* addons/cache.MemoryCache: a sync.Map of values with expiry times, used  *)
(* by any number of goroutines and swept by cleanupLoop.                   *)
(*                                                                         *)
(* Every call of the sync.Map is one step.  Between the steps of a Get or  *)
(* of a sweep (load, expiry check, delete) anything may happen.  Flush     *)
(* overwrites the sync.Map itself without synchronisation: while it does,  *)
(* another goroutine inside the map may still use the old one, or panic on *)
(* a field that Flush has already zeroed.                                  *)
(***************************************************************************)
EXTENDS Naturals

CONSTANTS
  Clients,   (* goroutines that call the cache                             *)
  Janitor,   (* the goroutine of cleanupLoop                               *)
  Keys,
  Values,
  TTLs,      (* lifetimes given to Set; 0 means for ever                   *)
  MaxTime,   (* bound on the clock                                         *)
  MaxSets,   (* bound on the calls of Set                                  *)
  Flushes,   (* TRUE iff Flush is called                                   *)
  NoItem, NoKey

ASSUME CacheConstants ==
  /\ Janitor \notin Clients
  /\ TTLs \subseteq Nat
  /\ MaxTime \in Nat /\ MaxSets \in Nat
  /\ Flushes \in BOOLEAN
  /\ NoKey \notin Keys
  /\ NoItem \notin [value : Values, expiration : Nat]

VARIABLES
  items,    (* MemoryCache.items, NoItem where the map has no entry        *)
  now,      (* time.Now(); it starts at 1, far from the zero expiration    *)
  pc,       (* what each goroutine is about to do                          *)
  key,      (* the key each goroutine works on                             *)
  it,       (* the item each goroutine has loaded or is about to store     *)
  unswept,  (* the keys that the sweep in progress has not reached         *)
  old,      (* the map that sweep ranges over, if a Flush has replaced it  *)
  timed,    (* history: the keys that were ever Set with a TTL             *)
  sets

vars == <<items, now, pc, key, it, unswept, old, timed, sets>>

Procs == Clients \cup {Janitor}
Items == [value : Values, expiration : Nat]

Running == pc[Janitor] # "panicked"
Goto(p, place) == pc' = [pc EXCEPT ![p] = place]

(* Mistaken forms of the definitions below: the zero expiration forgotten, *)
(* a sweep of nothing.                                                     *)
ZeroExpires(item) == now > item.expiration
SweepNone == unswept' = {}

isExpired(item) == item.expiration # 0 /\ now > item.expiration

Tick ==
  /\ now < MaxTime
  /\ now' = now + 1
  /\ UNCHANGED <<items, pc, key, it, unswept, old, timed, sets>>

----------------------------------------------------------------------------
(* Get, and the visit of one key by the sweep. *)

Load(p, k, item) ==
  /\ key' = [key EXCEPT ![p] = k]
  /\ \/ item = NoItem /\ Goto(p, "idle") /\ UNCHANGED it
     \/ item # NoItem /\ Goto(p, "loaded") /\ it' = [it EXCEPT ![p] = item]
  /\ UNCHANGED <<items, now, old, timed, sets>>

Get(p, k) ==
  /\ p \in Clients /\ pc[p] = "idle"
  /\ Load(p, k, items[k])
  /\ UNCHANGED unswept

(* Get returns the value; the sweep goes on to the next key. *)
CheckLive(p) ==
  /\ pc[p] = "loaded"
  /\ ~isExpired(it[p])
  /\ Goto(p, "idle")
  /\ UNCHANGED <<items, now, key, it, unswept, old, timed, sets>>

CheckExpired(p) ==
  /\ pc[p] = "loaded"
  /\ isExpired(it[p])
  /\ Goto(p, "expired")
  /\ UNCHANGED <<items, now, key, it, unswept, old, timed, sets>>

Remove(k) == items' = [items EXCEPT ![k] = NoItem]

DeleteExpired(p) ==
  /\ pc[p] = "expired"
  /\ Remove(key[p])
  /\ Goto(p, "idle")
  /\ UNCHANGED <<now, key, it, unswept, old, timed, sets>>

StartSweep == unswept' = Keys

(* The ticker of cleanupLoop. *)
Sweep ==
  /\ pc[Janitor] = "idle" /\ unswept = {}
  /\ StartSweep
  /\ old' = NoItem
  /\ UNCHANGED <<items, now, pc, key, it, timed, sets>>

SweepKey(k) ==
  /\ pc[Janitor] = "idle" /\ k \in unswept
  /\ unswept' = unswept \ {k}
  /\ Load(Janitor, k, IF old = NoItem THEN items[k] ELSE old[k])

----------------------------------------------------------------------------
(* Set, Delete and Flush. *)

(* The expiration is computed before the item is stored. *)
Set(p, k, v, ttl) ==
  /\ pc[p] = "idle"
  /\ sets < MaxSets
  /\ sets' = sets + 1
  /\ key' = [key EXCEPT ![p] = k]
  /\ it' = [it EXCEPT ![p] =
              [value |-> v, expiration |-> IF ttl > 0 THEN now + ttl ELSE 0]]
  /\ timed' = IF ttl > 0 THEN timed \cup {k} ELSE timed
  /\ Goto(p, "storing")
  /\ UNCHANGED <<items, now, unswept, old>>

StoreItem(p) == items' = [items EXCEPT ![key[p]] = it[p]]

Store(p) ==
  /\ pc[p] = "storing"
  /\ StoreItem(p)
  /\ Goto(p, "idle")
  /\ UNCHANGED <<now, key, it, unswept, old, timed, sets>>

Delete(p, k) ==
  /\ pc[p] = "idle"
  /\ Remove(k)
  /\ UNCHANGED <<now, pc, key, it, unswept, old, timed, sets>>

Flush(p) ==
  /\ Flushes
  /\ pc[p] = "idle"
  /\ Goto(p, "flushing")
  /\ UNCHANGED <<items, now, key, it, unswept, old, timed, sets>>

Flushed(p) ==
  /\ pc[p] = "flushing"
  /\ items' = [k \in Keys |-> NoItem]
  /\ old' = IF unswept # {} /\ old = NoItem THEN items ELSE old
  /\ Goto(p, "idle")
  /\ UNCHANGED <<now, key, it, unswept, timed, sets>>

InMap(p) ==
  \/ pc[p] \in {"storing", "expired"}
  \/ pc[p] = "idle" /\ (p = Janitor => unswept # {})

(* A call of the map that finds it half overwritten. *)
Panic(p) ==
  /\ InMap(p)
  /\ \E q \in Clients \ {p} : pc[q] = "flushing"
  /\ Goto(p, "panicked")
  /\ UNCHANGED <<items, now, key, it, unswept, old, timed, sets>>

----------------------------------------------------------------------------
Init ==
  /\ items = [k \in Keys |-> NoItem]
  /\ now = 1
  /\ pc = [p \in Procs |-> "idle"]
  /\ key = [p \in Procs |-> NoKey]
  /\ it = [p \in Procs |-> NoItem]
  /\ unswept = {}
  /\ old = NoItem
  /\ timed = {}
  /\ sets = 0

Finish(p) == CheckLive(p) \/ CheckExpired(p) \/ DeleteExpired(p)

Client(p) ==
  \/ \E k \in Keys : Get(p, k) \/ Delete(p, k)
  \/ \E k \in Keys, v \in Values, ttl \in TTLs : Set(p, k, v, ttl)
  \/ Finish(p) \/ Store(p) \/ Flush(p) \/ Flushed(p)

CleanupLoop == Sweep \/ (\E k \in Keys : SweepKey(k)) \/ Finish(Janitor)

(* An unrecovered panic of cleanupLoop is the end of the process. *)
Next ==
  /\ Running
  /\ \/ Tick
     \/ \E p \in Clients : Client(p)
     \/ CleanupLoop
     \/ \E p \in Procs : Panic(p)

Spec == Init /\ [][Next]_vars

(* The ticker goes on ticking, Range visits every key, and no goroutine is *)
(* kept from its next step.                                                *)
FairSpec ==
  /\ Spec
  /\ WF_vars(Running /\ Sweep)
  /\ \A k \in Keys : WF_vars(Running /\ SweepKey(k))
  /\ WF_vars(Running /\ Finish(Janitor))

----------------------------------------------------------------------------
(* Properties. *)

(* Every variable keeps its shape. *)
TypeOK ==
  /\ items \in [Keys -> Items \cup {NoItem}]
  /\ now \in Nat
  /\ pc \in [Procs -> {"idle", "loaded", "expired", "storing", "flushing", "panicked"}]
  /\ key \in [Procs -> Keys \cup {NoKey}]
  /\ it \in [Procs -> Items \cup {NoItem}]
  /\ unswept \subseteq Keys
  /\ old \in [Keys -> Items \cup {NoItem}] \cup {NoItem}
  /\ timed \subseteq Keys
  /\ sets \in Nat

Emptied(k) == items[k] # NoItem /\ items'[k] = NoItem

(* An entry of a key that is only ever Set without a TTL stays until it is *)
(* deleted or flushed: neither Get nor the sweep takes it away.            *)
PermanentEntriesStay ==
  [][\A k \in Keys \ timed :
       Emptied(k) => \E p \in Clients : Delete(p, k) \/ Flushed(p)]_items

(* An expired entry that nobody asks for does not stay in memory for ever. *)
ExpiredEventuallyGone ==
  \A k \in Keys, item \in [value : Values, expiration : 1..MaxTime] :
    (items[k] = item /\ isExpired(item)) ~> (items[k] # item \/ ~Running)
============================================================================
