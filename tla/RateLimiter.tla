---------------------------- MODULE RateLimiter ----------------------------
(***************************************************************************)
(* middlewares.RateLimiter: a token bucket for each remote address, in a   *)
(* map guarded by one mutex, each bucket guarded by its own; a cleanup     *)
(* goroutine forgets the buckets of addresses not seen for IdleLimit.      *)
(*                                                                         *)
(* A request looks its bucket up under the first mutex, releases it, and   *)
(* only then takes a token under the second: in between the cleanup may    *)
(* forget the bucket it holds.  Each critical section is one action.       *)
(*                                                                         *)
(* The float64 count of tokens is a number of units, Token to one token.   *)
(***************************************************************************)
EXTENDS Naturals, FiniteSets

CONSTANTS
  Requests,   (* the goroutines that serve requests                        *)
  IPs, Ports, (* a RemoteAddr of net/http is an IP and a port              *)
  Buckets,    (* the rateLimiter objects that can be live at a time        *)
  Rate,       (* requestsPerSecond, in units per unit of time              *)
  Burst,      (* burst, in tokens                                          *)
  Token,      (* units in a token                                          *)
  IdleLimit,  (* 3 minutes                                                 *)
  MaxStall,   (* bound on the time from the lookup of a bucket to Allow    *)
  MaxTime,    (* bound on the clock                                        *)
  NoBucket

ASSUME LimiterConstants ==
  /\ Rate \in Nat /\ Burst \in Nat /\ Token \in Nat \ {0}
  /\ IdleLimit \in Nat /\ MaxStall \in Nat /\ MaxTime \in Nat
  /\ NoBucket \notin Buckets

VARIABLES
  now,
  clients,  (* the bucket of each address, NoBucket if the map has no entry *)
  bucket,   (* the contents of each rateLimiter and its client's lastSeen  *)
  held,     (* the bucket each request has looked up                       *)
  addr,     (* the address each request came from                          *)
  since,    (* when that was, 0 once it is let go of                       *)
  answer,   (* whether the latest request of each address was let through  *)
  passed    (* history: the requests of each address that were let through *)

vars == <<now, clients, bucket, held, addr, since, answer, passed>>

Addresses == IPs \X Ports
Full == Burst * Token

(* Mistaken forms of the definitions below: a refill without its cap, and  *)
(* a lookup that leaves lastSeen alone.                                    *)
RefilledWithoutCap(b) == b.tokens + (now - b.lastCheck) * Rate
SeenOnce(b) == b

Refilled(b) ==
  LET tokens == b.tokens + (now - b.lastCheck) * Rate
  IN  IF tokens > Full THEN Full ELSE tokens

(* The time between a lookup and its Allow is what the scheduler and the   *)
(* mutex of the bucket make it; MaxStall bounds it.                        *)
Tick ==
  /\ now < MaxTime
  /\ \A r \in Requests : held[r] # NoBucket => now - since[r] < MaxStall
  /\ now' = now + 1
  /\ UNCHANGED <<clients, bucket, held, addr, since, answer, passed>>

Unused(b) == (\A a \in Addresses : clients[a] # b) /\ (\A r \in Requests : held[r] # b)

LookedUp(r, a, b) ==
  /\ held' = [held EXCEPT ![r] = b]
  /\ addr' = [addr EXCEPT ![r] = a]
  /\ since' = [since EXCEPT ![r] = now]
  /\ UNCHANGED <<now, answer, passed>>

Seen(b) == [tokens |-> b.tokens, lastCheck |-> b.lastCheck, lastSeen |-> now]

LookupKnown(r, a) ==
  /\ held[r] = NoBucket
  /\ clients[a] # NoBucket
  /\ bucket' = [bucket EXCEPT ![clients[a]] = Seen(@)]
  /\ LookedUp(r, a, clients[a])
  /\ UNCHANGED clients

NewBucket == [tokens |-> Full, lastCheck |-> now, lastSeen |-> now]

LookupNew(r, a) ==
  /\ held[r] = NoBucket
  /\ clients[a] = NoBucket
  /\ \E b \in Buckets :
       /\ Unused(b)
       /\ clients' = [clients EXCEPT ![a] = b]
       /\ bucket' = [bucket EXCEPT ![b] = NewBucket]
       /\ LookedUp(r, a, b)

(* rateLimiter.Allow, then next or the answer 429. *)
Left(r, tokens) ==
  /\ bucket' = [bucket EXCEPT ![held[r]] =
                  [tokens |-> tokens, lastCheck |-> now, lastSeen |-> @.lastSeen]]
  /\ held' = [held EXCEPT ![r] = NoBucket]
  /\ since' = [since EXCEPT ![r] = 0]
  /\ UNCHANGED <<now, clients, addr>>

AllowPass(r) ==
  /\ held[r] # NoBucket
  /\ Refilled(bucket[held[r]]) >= Token
  /\ Left(r, Refilled(bucket[held[r]]) - Token)
  /\ answer' = [answer EXCEPT ![addr[r]] = "passed"]
  /\ passed' = [passed EXCEPT ![addr[r]] = @ + 1]

AllowLimit(r) ==
  /\ held[r] # NoBucket
  /\ Refilled(bucket[held[r]]) < Token
  /\ Left(r, Refilled(bucket[held[r]]))
  /\ answer' = [answer EXCEPT ![addr[r]] = "limited"]
  /\ UNCHANGED passed

Idle(a) == clients[a] # NoBucket /\ now - bucket[clients[a]].lastSeen > IdleLimit

(* A mistaken form of the next definition: forget when all are idle.       *)
CleanupWhenAllIdle ==
  /\ \A a \in Addresses : clients[a] # NoBucket => Idle(a)
  /\ clients' = [a \in Addresses |-> NoBucket]
  /\ UNCHANGED <<now, bucket, held, addr, since, answer, passed>>

Cleanup ==
  /\ \E a \in Addresses : Idle(a)
  /\ clients' = [a \in Addresses |-> IF Idle(a) THEN NoBucket ELSE clients[a]]
  /\ UNCHANGED <<now, bucket, held, addr, since, answer, passed>>

----------------------------------------------------------------------------
Init ==
  /\ now = 0
  /\ clients = [a \in Addresses |-> NoBucket]
  /\ bucket = [b \in Buckets |-> [tokens |-> 0, lastCheck |-> 0, lastSeen |-> 0]]
  /\ held = [r \in Requests |-> NoBucket]
  /\ addr \in {[r \in Requests |-> a] : a \in Addresses}
  /\ since = [r \in Requests |-> 0]
  /\ answer = [a \in Addresses |-> "none"]
  /\ passed = [a \in Addresses |-> 0]

Next ==
  \/ Tick
  \/ \E r \in Requests, a \in Addresses : LookupKnown(r, a) \/ LookupNew(r, a)
  \/ \E r \in Requests : AllowPass(r) \/ AllowLimit(r)
  \/ Cleanup

Spec == Init /\ [][Next]_vars

(* The cleanup goroutine wakes up again and again. *)
FairSpec == Spec /\ WF_vars(Cleanup)

----------------------------------------------------------------------------
(* Properties. *)

(* Every variable keeps its shape, and no bucket holds more than burst. *)
TypeOK ==
  /\ now \in Nat
  /\ clients \in [Addresses -> Buckets \cup {NoBucket}]
  /\ bucket \in [Buckets -> [tokens : 0..Full, lastCheck : 0..now, lastSeen : 0..now]]
  /\ held \in [Requests -> Buckets \cup {NoBucket}]
  /\ addr \in [Requests -> Addresses]
  /\ since \in [Requests -> 0..now]
  /\ answer \in [Addresses -> {"none", "passed", "limited"}]
  /\ passed \in [Addresses -> Nat]

(* What an address has left: a forgotten bucket is a full one. *)
Level(a) == IF clients[a] = NoBucket THEN Full ELSE Refilled(bucket[clients[a]])

Table == INSTANCE TokenBucket WITH
  Keys <- Addresses, level <- [a \in Addresses |-> Level(a)]

(* The map, its two mutexes and its cleanup are one token bucket for each  *)
(* address: in particular the cleanup forgets full buckets only, and no    *)
(* request takes its token from a bucket that is no longer its address's.  *)
ImplementsTokenBucket == Table!Spec

(* Over the whole run an address gets through burst requests and then as   *)
(* many as rate allows.                                                    *)
RateHeld ==
  \A a \in Addresses : passed[a] * Token <= Full + now * Rate

(* The map does not keep the bucket of an address that never comes back. *)
IdleForgotten == \A a \in Addresses : Idle(a) ~> ~Idle(a)
============================================================================
