------------------------- MODULE RateLimiterProofs -------------------------
(***************************************************************************)
(* RateLimiter implements a token bucket for each address, for every       *)
(* number of requests and addresses, every burst and every rate that       *)
(* refills a bucket before the cleanup can forget it.                      *)
(***************************************************************************)
EXTENDS RateLimiter, TLAPS

(* The lookup is not so late that the bucket is forgotten under it, and a  *)
(* bucket is full by the time it can be forgotten: its last Allow came at  *)
(* most MaxStall after it was last seen.                                   *)
RefilledInTime ==
  /\ MaxStall <= IdleLimit
  /\ (IdleLimit + 1 - MaxStall) * Rate >= Full

(* A bucket belongs to one address. *)
Owned ==
  \A a, b \in Addresses : clients[a] # NoBucket /\ clients[a] = clients[b] => a = b

(* A request holds the bucket that the map has for its address, and looked *)
(* it up no longer than MaxStall ago and no later than it was last seen.   *)
Fresh ==
  \A r \in Requests : held[r] # NoBucket =>
    /\ clients[addr[r]] = held[r]
    /\ since[r] <= bucket[held[r]].lastSeen
    /\ now - since[r] <= MaxStall

(* The latest Allow of a bucket came at most MaxStall after the latest     *)
(* lookup.                                                                 *)
Lagging ==
  \A a \in Addresses : clients[a] # NoBucket =>
    bucket[clients[a]].lastCheck <= bucket[clients[a]].lastSeen + MaxStall

Inv == TypeOK /\ Owned /\ Fresh /\ Lagging

(* What an address has got through and what it has left never exceed what  *)
(* the rate has granted.                                                   *)
Granted ==
  \A a \in Addresses : passed[a] * Token + Level(a) <= Full + now * Rate

----------------------------------------------------------------------------
(* Arithmetic. *)

LEMMA FullNat == Full \in Nat /\ Rate \in Nat /\ Token \in Nat /\ Token > 0
BY LimiterConstants DEF Full

LEMMA Distribute == \A n, m \in Nat : (n + 1) * m = n * m + m
OBVIOUS

LEMMA Monotone == \A n, m, x \in Nat : n <= m => n * x <= m * x
<1>1. SUFFICES ASSUME NEW n \in Nat, NEW m \in Nat, NEW x \in Nat, n <= m
               PROVE  n * x <= m * x
  OBVIOUS
<1>2. (m - n) \in Nat /\ m = n + (m - n)
  BY <1>1
<1>3. (n + (m - n)) * x = n * x + (m - n) * x
  BY <1>2
<1>4. (m - n) * x \in Nat
  BY <1>2
<1>5. m * x = n * x + (m - n) * x
  BY <1>2, <1>3
<1>6. QED
  BY <1>4, <1>5

----------------------------------------------------------------------------
(* Buckets. *)

Contents == [tokens : 0..Full, lastCheck : 0..now, lastSeen : 0..now]

LEMMA RefilledType ==
  ASSUME now \in Nat, NEW b \in Contents
  PROVE  Refilled(b) \in 0..Full
<1>1. Full \in Nat /\ Rate \in Nat
  BY FullNat
<1>2. b.tokens \in Nat /\ b.tokens <= Full /\ b.lastCheck \in Nat /\ b.lastCheck <= now
  BY <1>1 DEF Contents
<1>3. now - b.lastCheck \in Nat
  BY <1>2
<1>4. (now - b.lastCheck) * Rate \in Nat
  BY <1>1, <1>3
<1>5. QED
  BY <1>1, <1>2, <1>4 DEF Refilled

LEMMA JustChecked ==
  ASSUME now \in Nat, NEW b \in Contents, b.lastCheck = now
  PROVE  Refilled(b) = b.tokens
<1>1. (now - b.lastCheck) * Rate = 0
  BY FullNat
<1>2. QED
  BY <1>1, FullNat DEF Refilled, Contents

LEMMA TypeInit == Init => TypeOK
<1>1. Full \in Nat
  BY FullNat
<1>2. QED
  BY <1>1 DEF Init, TypeOK, Addresses

LEMMA TypeNext == TypeOK /\ [Next]_vars => TypeOK'
<1>. SUFFICES ASSUME TypeOK, [Next]_vars PROVE TypeOK'
  OBVIOUS
<1>. USE FullNat
<1>. bucket \in [Buckets -> Contents] /\ now \in Nat
  BY DEF TypeOK, Contents
<1>1. CASE Tick
  <2>1. now' = now + 1 /\ now' \in Nat
    BY <1>1 DEF Tick
  <2>2. bucket' \in [Buckets -> [tokens : 0..Full, lastCheck : 0..now', lastSeen : 0..now']]
    <3>1. ASSUME NEW b \in Buckets
          PROVE bucket[b] \in [tokens : 0..Full, lastCheck : 0..now', lastSeen : 0..now']
      BY <2>1 DEF Contents
    <3>2. bucket' = bucket
      BY <1>1 DEF Tick
    <3>3. QED
      BY <3>1, <3>2 DEF TypeOK
  <2>3. since' \in [Requests -> 0..now']
    BY <1>1, <2>1 DEF Tick, TypeOK
  <2>4. QED
    BY <1>1, <2>1, <2>2, <2>3 DEF Tick, TypeOK
<1>2. ASSUME NEW r \in Requests, NEW a \in Addresses, LookupKnown(r, a)
      PROVE  TypeOK'
  <2>1. clients[a] \in Buckets
    BY <1>2 DEF LookupKnown, TypeOK
  <2>2. Seen(bucket[clients[a]]) \in Contents
    BY <2>1 DEF Seen, Contents
  <2>3. bucket' \in [Buckets -> Contents]
    BY <1>2, <2>1, <2>2 DEF LookupKnown
  <2>4. QED
    BY <1>2, <2>1, <2>3 DEF LookupKnown, LookedUp, TypeOK, Contents
<1>3. ASSUME NEW r \in Requests, NEW a \in Addresses, LookupNew(r, a)
      PROVE  TypeOK'
  <2>1. PICK b \in Buckets :
          /\ clients' = [clients EXCEPT ![a] = b]
          /\ bucket' = [bucket EXCEPT ![b] = NewBucket]
          /\ LookedUp(r, a, b)
    BY <1>3 DEF LookupNew
  <2>2. NewBucket \in Contents
    BY DEF NewBucket, Contents
  <2>3. bucket' \in [Buckets -> Contents]
    BY <2>1, <2>2
  <2>4. QED
    BY <2>1, <2>3 DEF LookedUp, TypeOK, Contents
<1>4. ASSUME NEW r \in Requests, AllowPass(r)
      PROVE  TypeOK'
  <2>1. held[r] \in Buckets
    BY <1>4 DEF AllowPass, TypeOK
  <2>2. Refilled(bucket[held[r]]) \in 0..Full
    BY <2>1, RefilledType
  <2>3. Refilled(bucket[held[r]]) - Token \in 0..Full
    BY <1>4, <2>2 DEF AllowPass
  <2>4. bucket' \in [Buckets -> Contents]
    BY <1>4, <2>1, <2>3 DEF AllowPass, Left, Contents
  <2>5. QED
    BY <1>4, <2>4 DEF AllowPass, Left, TypeOK, Contents
<1>5. ASSUME NEW r \in Requests, AllowLimit(r)
      PROVE  TypeOK'
  <2>1. held[r] \in Buckets
    BY <1>5 DEF AllowLimit, TypeOK
  <2>2. Refilled(bucket[held[r]]) \in 0..Full
    BY <2>1, RefilledType
  <2>3. bucket' \in [Buckets -> Contents]
    BY <1>5, <2>1, <2>2 DEF AllowLimit, Left, Contents
  <2>4. QED
    BY <1>5, <2>3 DEF AllowLimit, Left, TypeOK, Contents
<1>6. CASE Cleanup
  BY <1>6 DEF Cleanup, TypeOK
<1>7. CASE UNCHANGED vars
  BY <1>7 DEF vars, TypeOK
<1>8. QED
  BY <1>1, <1>2, <1>3, <1>4, <1>5, <1>6, <1>7 DEF Next

(* Every variable keeps its shape, and no bucket ever holds more than      *)
(* burst, for every constant (middlewares/limiter.go).                     *)
THEOREM LimiterTypeCorrect == Spec => []TypeOK
BY TypeInit, TypeNext, PTL DEF Spec

----------------------------------------------------------------------------
(* Who holds which bucket. *)

LEMMA InvInit == Init => Inv
BY TypeInit DEF Init, Inv, Owned, Fresh, Lagging, Addresses

(* Both outcomes of Allow stamp the bucket and let go of it. *)
LEMMA LeftInv ==
  ASSUME Inv, TypeOK', NEW r \in Requests, NEW tokens \in 0..Full,
         held[r] # NoBucket, Left(r, tokens)
  PROVE  Owned' /\ Fresh' /\ Lagging'
<1>. USE LimiterConstants, FullNat
<1>1. held[r] \in Buckets /\ addr[r] \in Addresses /\ now \in Nat
  BY DEF Inv, TypeOK
<1>2. /\ bucket'[held[r]].lastCheck = now
      /\ bucket'[held[r]].lastSeen = bucket[held[r]].lastSeen
      /\ \A b \in Buckets : b # held[r] => bucket'[b] = bucket[b]
  BY <1>1 DEF Left, Inv, TypeOK
<1>3. \A b \in Buckets : bucket'[b].lastSeen = bucket[b].lastSeen
  BY <1>2
<1>4. UNCHANGED <<now, clients, addr>>
  BY DEF Left
<1>5. \A q \in Requests : q # r => held'[q] = held[q] /\ since'[q] = since[q]
  BY DEF Left, Inv, TypeOK
<1>6. held'[r] = NoBucket
  BY DEF Left, Inv, TypeOK
<1>7. Owned'
  BY <1>4 DEF Inv, Owned
<1>8. Fresh'
  <2>. SUFFICES ASSUME NEW q \in Requests, held'[q] # NoBucket
                PROVE  /\ clients[addr[q]] = held[q]
                       /\ since[q] <= bucket[held[q]].lastSeen
                       /\ now - since[q] <= MaxStall
                       /\ held[q] \in Buckets
                       /\ q # r
    BY <1>3, <1>4, <1>5 DEF Fresh
  <2>. QED
    BY <1>5, <1>6 DEF Inv, Fresh, TypeOK
<1>9. Lagging'
  <2>. SUFFICES ASSUME NEW a \in Addresses, clients[a] # NoBucket
                PROVE  bucket'[clients[a]].lastCheck
                         <= bucket'[clients[a]].lastSeen + MaxStall
    BY <1>4 DEF Lagging
  <2>1. clients[a] \in Buckets
    BY DEF Inv, TypeOK
  <2>2. CASE clients[a] = held[r]
    <3>1. /\ since[r] <= bucket[held[r]].lastSeen
          /\ now - since[r] <= MaxStall
      BY DEF Inv, Fresh
    <3>2. since[r] \in Nat /\ bucket[held[r]].lastSeen \in Nat
      BY <1>1 DEF Inv, TypeOK
    <3>3. now <= bucket[held[r]].lastSeen + MaxStall
      BY <1>1, <3>1, <3>2
    <3>4. QED
      BY <1>2, <2>2, <3>3
  <2>3. CASE clients[a] # held[r]
    BY <1>2, <2>1, <2>3 DEF Inv, Lagging
  <2>4. QED
    BY <2>2, <2>3
<1>10. QED
  BY <1>7, <1>8, <1>9

LEMMA InvNext == MaxStall <= IdleLimit /\ Inv /\ [Next]_vars => Inv'
<1>. SUFFICES ASSUME MaxStall <= IdleLimit, Inv, [Next]_vars PROVE Inv'
  OBVIOUS
<1>. USE LimiterConstants, FullNat
<1>0. TypeOK /\ TypeOK'
  BY TypeNext DEF Inv
<1>1. CASE Tick
  <2>1. now' = now + 1 /\ UNCHANGED <<clients, bucket, held, addr, since>>
    BY <1>1 DEF Tick
  <2>2. Fresh'
    <3>. SUFFICES ASSUME NEW r \in Requests, held[r] # NoBucket
                  PROVE  /\ clients[addr[r]] = held[r]
                         /\ since[r] <= bucket[held[r]].lastSeen
                         /\ now' - since[r] <= MaxStall
      BY <2>1 DEF Fresh
    <3>1. since[r] \in Nat /\ now \in Nat
      BY <1>0 DEF TypeOK
    <3>2. now - since[r] < MaxStall
      BY <1>1 DEF Tick
    <3>3. now' - since[r] <= MaxStall
      BY <2>1, <3>1, <3>2
    <3>4. QED
      BY <3>3 DEF Inv, Fresh
  <2>3. QED
    BY <1>0, <2>1, <2>2 DEF Inv, Owned, Lagging
<1>2. ASSUME NEW r \in Requests, NEW a \in Addresses, LookupKnown(r, a)
      PROVE  Inv'
  <2>1. clients[a] \in Buckets /\ held[r] = NoBucket
    BY <1>0, <1>2 DEF LookupKnown, TypeOK
  <2>2. /\ bucket'[clients[a]].lastSeen = now
        /\ bucket'[clients[a]].lastCheck = bucket[clients[a]].lastCheck
        /\ \A b \in Buckets : b # clients[a] => bucket'[b] = bucket[b]
    BY <1>0, <1>2, <2>1 DEF LookupKnown, Seen, TypeOK
  <2>3. /\ UNCHANGED <<now, clients>>
        /\ held'[r] = clients[a] /\ addr'[r] = a /\ since'[r] = now
        /\ \A q \in Requests : q # r =>
             held'[q] = held[q] /\ addr'[q] = addr[q] /\ since'[q] = since[q]
    BY <1>0, <1>2 DEF LookupKnown, LookedUp, TypeOK
  <2>4. \A b \in Buckets : /\ bucket[b].lastSeen \in Nat /\ bucket[b].lastSeen <= now
                           /\ bucket[b].lastCheck \in Nat /\ bucket[b].lastCheck <= now
    BY <1>0 DEF TypeOK
  <2>5. now \in Nat
    BY <1>0 DEF TypeOK
  <2>6. \A b \in Buckets : bucket[b].lastSeen <= bucket'[b].lastSeen
    BY <2>1, <2>2, <2>4, <2>5
  <2>7. Fresh'
    <3>. SUFFICES ASSUME NEW q \in Requests, held'[q] # NoBucket
                  PROVE  /\ clients[addr'[q]] = held'[q]
                         /\ since'[q] <= bucket'[held'[q]].lastSeen
                         /\ now - since'[q] <= MaxStall
      BY <2>3 DEF Fresh
    <3>1. CASE q = r
      BY <2>2, <2>3, <2>5, <3>1
    <3>2. CASE q # r
      <4>1. held[q] \in Buckets /\ since[q] \in Nat
        BY <1>0, <2>3, <3>2 DEF TypeOK
      <4>2. /\ clients[addr[q]] = held[q]
            /\ since[q] <= bucket[held[q]].lastSeen
            /\ now - since[q] <= MaxStall
        BY <2>3, <3>2 DEF Inv, Fresh
      <4>3. bucket'[held[q]].lastSeen \in Nat
        BY <1>0, <4>1 DEF TypeOK
      <4>4. since[q] <= bucket'[held[q]].lastSeen
        BY <2>4, <2>6, <4>1, <4>2, <4>3
      <4>5. QED
        BY <2>3, <3>2, <4>2, <4>4
    <3>3. QED
      BY <3>1, <3>2
  <2>8. Lagging'
    <3>. SUFFICES ASSUME NEW x \in Addresses, clients[x] # NoBucket
                  PROVE  bucket'[clients[x]].lastCheck
                           <= bucket'[clients[x]].lastSeen + MaxStall
      BY <2>3 DEF Lagging
    <3>1. clients[x] \in Buckets
      BY <1>0 DEF TypeOK
    <3>2. CASE clients[x] = clients[a]
      BY <2>1, <2>2, <2>4, <2>5, <3>2
    <3>3. CASE clients[x] # clients[a]
      BY <2>2, <3>1, <3>3 DEF Inv, Lagging
    <3>4. QED
      BY <3>2, <3>3
  <2>9. Owned'
    BY <2>3 DEF Inv, Owned
  <2>10. QED
    BY <1>0, <2>7, <2>8, <2>9 DEF Inv
<1>3. ASSUME NEW r \in Requests, NEW a \in Addresses, LookupNew(r, a)
      PROVE  Inv'
  <2>1. PICK b \in Buckets :
          /\ Unused(b)
          /\ clients' = [clients EXCEPT ![a] = b]
          /\ bucket' = [bucket EXCEPT ![b] = NewBucket]
          /\ LookedUp(r, a, b)
    BY <1>3 DEF LookupNew
  <2>2. /\ clients'[a] = b
        /\ \A x \in Addresses : x # a => clients'[x] = clients[x]
        /\ \A x \in Addresses : clients[x] # b
        /\ \A q \in Requests : held[q] # b
    BY <1>0, <2>1 DEF Unused, TypeOK
  <2>3. /\ bucket'[b] = NewBucket
        /\ \A c \in Buckets : c # b => bucket'[c] = bucket[c]
    BY <1>0, <2>1 DEF TypeOK
  <2>4. /\ now' = now /\ now \in Nat
        /\ held'[r] = b /\ addr'[r] = a /\ since'[r] = now
        /\ \A q \in Requests : q # r =>
             held'[q] = held[q] /\ addr'[q] = addr[q] /\ since'[q] = since[q]
    BY <1>0, <2>1 DEF LookedUp, TypeOK
  <2>5. Owned'
    BY <2>2 DEF Inv, Owned
  <2>6. Fresh'
    <3>. SUFFICES ASSUME NEW q \in Requests, held'[q] # NoBucket
                  PROVE  /\ clients'[addr'[q]] = held'[q]
                         /\ since'[q] <= bucket'[held'[q]].lastSeen
                         /\ now - since'[q] <= MaxStall
      BY <2>4 DEF Fresh
    <3>1. CASE q = r
      BY <2>2, <2>3, <2>4, <3>1 DEF NewBucket
    <3>2. CASE q # r
      <4>1. held[q] \in Buckets /\ addr[q] \in Addresses
        BY <1>0, <2>4, <3>2 DEF TypeOK
      <4>2. /\ clients[addr[q]] = held[q]
            /\ since[q] <= bucket[held[q]].lastSeen
            /\ now - since[q] <= MaxStall
        BY <2>4, <3>2 DEF Inv, Fresh
      <4>3. addr[q] # a
        BY <1>3, <2>4, <3>2, <4>2 DEF LookupNew
      <4>4. QED
        BY <2>2, <2>3, <2>4, <3>2, <4>1, <4>2, <4>3
    <3>3. QED
      BY <3>1, <3>2
  <2>7. Lagging'
    <3>. SUFFICES ASSUME NEW x \in Addresses, clients'[x] # NoBucket
                  PROVE  bucket'[clients'[x]].lastCheck
                           <= bucket'[clients'[x]].lastSeen + MaxStall
      BY DEF Lagging
    <3>1. CASE x = a
      BY <2>2, <2>3, <2>4, <3>1 DEF NewBucket
    <3>2. CASE x # a
      <4>1. clients[x] \in Buckets /\ clients'[x] = clients[x] /\ clients[x] # b
        BY <1>0, <2>2, <3>2 DEF TypeOK
      <4>2. QED
        BY <2>3, <4>1 DEF Inv, Lagging
    <3>3. QED
      BY <3>1, <3>2
  <2>8. QED
    BY <1>0, <2>5, <2>6, <2>7 DEF Inv
<1>4. ASSUME NEW r \in Requests, AllowPass(r) \/ AllowLimit(r)
      PROVE  Inv'
  <2>1. held[r] \in Buckets
    BY <1>0, <1>4 DEF AllowPass, AllowLimit, TypeOK
  <2>2. bucket[held[r]] \in Contents /\ now \in Nat
    BY <1>0, <2>1 DEF TypeOK, Contents
  <2>3. Refilled(bucket[held[r]]) \in 0..Full
    BY <2>2, RefilledType
  <2>4. CASE AllowPass(r)
    <3>1. Refilled(bucket[held[r]]) - Token \in 0..Full
      BY <2>3, <2>4 DEF AllowPass
    <3>2. Left(r, Refilled(bucket[held[r]]) - Token) /\ held[r] # NoBucket
      BY <2>4 DEF AllowPass
    <3>3. QED
      BY <1>0, <3>1, <3>2, LeftInv DEF Inv
  <2>5. CASE AllowLimit(r)
    <3>1. Left(r, Refilled(bucket[held[r]])) /\ held[r] # NoBucket
      BY <2>5 DEF AllowLimit
    <3>2. QED
      BY <1>0, <2>3, <3>1, LeftInv DEF Inv
  <2>6. QED
    BY <1>4, <2>4, <2>5
<1>5. CASE Cleanup
  <2>1. /\ \A a \in Addresses : clients'[a] = IF Idle(a) THEN NoBucket ELSE clients[a]
        /\ UNCHANGED <<now, bucket, held, addr, since>>
    BY <1>5 DEF Cleanup
  <2>2. Owned'
    BY <2>1 DEF Inv, Owned
  <2>3. Lagging'
    BY <2>1 DEF Inv, Lagging
  <2>4. Fresh'
    <3>. SUFFICES ASSUME NEW r \in Requests, held[r] # NoBucket
                  PROVE  /\ clients'[addr[r]] = held[r]
                         /\ since[r] <= bucket[held[r]].lastSeen
                         /\ now - since[r] <= MaxStall
      BY <2>1 DEF Fresh
    <3>1. /\ clients[addr[r]] = held[r]
          /\ since[r] <= bucket[held[r]].lastSeen
          /\ now - since[r] <= MaxStall
      BY DEF Inv, Fresh
    <3>2. /\ held[r] \in Buckets /\ addr[r] \in Addresses
          /\ since[r] \in Nat /\ now \in Nat
      BY <1>0 DEF TypeOK
    <3>3. bucket[held[r]].lastSeen \in Nat
      BY <1>0, <3>2 DEF TypeOK
    <3>4. ~Idle(addr[r])
      BY <3>1, <3>2, <3>3 DEF Idle
    <3>5. QED
      BY <2>1, <3>1, <3>2, <3>4
  <2>5. QED
    BY <1>0, <2>2, <2>3, <2>4 DEF Inv
<1>6. CASE UNCHANGED vars
  BY <1>0, <1>6 DEF vars, Inv, Owned, Fresh, Lagging
<1>7. QED
  BY <1>1, <1>2, <1>3, <1>4, <1>5, <1>6 DEF Next

----------------------------------------------------------------------------
(* The refinement. *)

(* A bucket that the cleanup may forget has refilled. *)
LEMMA IdleIsFull ==
  ASSUME Inv, RefilledInTime, NEW a \in Addresses, Idle(a)
  PROVE  Refilled(bucket[clients[a]]) = Full
<1>. DEFINE b == bucket[clients[a]]
<1>. USE LimiterConstants, FullNat
<1>1. /\ b.tokens \in Nat
      /\ b.lastCheck \in Nat /\ b.lastSeen \in Nat /\ now \in Nat
      /\ b.lastCheck <= now
      /\ b.lastCheck <= b.lastSeen + MaxStall
      /\ now - b.lastSeen > IdleLimit
  BY DEF Inv, TypeOK, Lagging, Idle
<1>. HIDE DEF b
<1>2. /\ now - b.lastCheck \in Nat
      /\ IdleLimit + 1 - MaxStall \in Nat
      /\ IdleLimit + 1 - MaxStall <= now - b.lastCheck
  BY <1>1 DEF RefilledInTime
<1>3. (IdleLimit + 1 - MaxStall) * Rate <= (now - b.lastCheck) * Rate
  BY <1>2, Monotone
<1>4. Full <= (now - b.lastCheck) * Rate
  <2>1. (now - b.lastCheck) * Rate \in Nat /\ (IdleLimit + 1 - MaxStall) * Rate \in Nat
    BY <1>2
  <2>2. QED
    BY <1>3, <2>1 DEF RefilledInTime
<1>5. Refilled(b) = Full
  <2>1. (now - b.lastCheck) * Rate \in Nat
    BY <1>2
  <2>2. QED
    BY <1>1, <1>4, <2>1 DEF Refilled
<1>6. QED
  BY <1>5 DEF b

(* What each action of the limiter does to the levels of the buckets. *)

LEMMA LevelTick ==
  ASSUME Inv, Tick
  PROVE  \A a \in Addresses : Level(a)' = Table!AtMost(Level(a) + Rate)
<1>. SUFFICES ASSUME NEW a \in Addresses
              PROVE  Level(a)' = Table!AtMost(Level(a) + Rate)
  OBVIOUS
<1>. USE FullNat
<1>1. now' = now + 1 /\ clients' = clients /\ bucket' = bucket /\ now \in Nat
  BY DEF Tick, Inv, TypeOK
<1>2. CASE clients[a] = NoBucket
  BY <1>1, <1>2 DEF Level, Table!AtMost
<1>3. CASE clients[a] # NoBucket
  <2>. DEFINE b == bucket[clients[a]]
  <2>1. b.tokens \in Nat /\ b.lastCheck \in Nat /\ b.lastCheck <= now
    BY <1>3 DEF Inv, TypeOK
  <2>. HIDE DEF b
  <2>2. now - b.lastCheck \in Nat /\ now' - b.lastCheck = (now - b.lastCheck) + 1
    BY <1>1, <2>1
  <2>3. (now' - b.lastCheck) * Rate = (now - b.lastCheck) * Rate + Rate
    BY <2>2, Distribute
  <2>4. (now - b.lastCheck) * Rate \in Nat
    BY <2>2
  <2>5. (IF b.tokens + (now' - b.lastCheck) * Rate > Full THEN Full
         ELSE b.tokens + (now' - b.lastCheck) * Rate)
        = Table!AtMost(Refilled(b) + Rate)
    BY <2>1, <2>3, <2>4 DEF Refilled, Table!AtMost
  <2>6. QED
    BY <1>1, <1>3, <2>5 DEF Level, Refilled, b
<1>4. QED
  BY <1>2, <1>3

LEMMA LevelLookupKnown ==
  ASSUME Inv, NEW r \in Requests, NEW x \in Addresses, LookupKnown(r, x)
  PROVE  \A a \in Addresses : Level(a)' = Level(a)
<1>1. clients[x] \in Buckets /\ clients' = clients /\ now' = now
  BY DEF LookupKnown, LookedUp, Inv, TypeOK
<1>2. \A b \in Buckets : /\ bucket'[b].tokens = bucket[b].tokens
                         /\ bucket'[b].lastCheck = bucket[b].lastCheck
  BY <1>1 DEF LookupKnown, Seen, Inv, TypeOK
<1>3. QED
  BY <1>1, <1>2 DEF Level, Refilled, Inv, TypeOK

LEMMA LevelLookupNew ==
  ASSUME Inv, NEW r \in Requests, NEW x \in Addresses, LookupNew(r, x)
  PROVE  \A a \in Addresses : Level(a)' = Level(a)
<1>. SUFFICES ASSUME NEW a \in Addresses PROVE Level(a)' = Level(a)
  OBVIOUS
<1>. USE FullNat
<1>1. PICK b \in Buckets :
        /\ Unused(b)
        /\ clients' = [clients EXCEPT ![x] = b]
        /\ bucket' = [bucket EXCEPT ![b] = NewBucket]
        /\ LookedUp(r, x, b)
  BY DEF LookupNew
<1>2. now' = now /\ now \in Nat
  BY <1>1 DEF LookedUp, Inv, TypeOK
<1>3. CASE a = x
  <2>1. clients'[a] = b /\ bucket'[b] = NewBucket /\ b # NoBucket
    BY <1>1, <1>3, LimiterConstants DEF Inv, TypeOK
  <2>2. NewBucket \in Contents /\ NewBucket.lastCheck = now /\ NewBucket.tokens = Full
    BY <1>2 DEF NewBucket, Contents
  <2>3. Refilled(NewBucket) = Full
    BY <1>2, <2>2, JustChecked
  <2>4. Level(a)' = Full
    BY <1>2, <2>1, <2>3 DEF Level, Refilled, NewBucket
  <2>5. Level(a) = Full
    BY <1>3 DEF LookupNew, Level
  <2>6. QED
    BY <2>4, <2>5
<1>4. CASE a # x
  <2>1. clients'[a] = clients[a] /\ clients[a] # b
    BY <1>1, <1>4 DEF Unused, Inv, TypeOK
  <2>2. clients[a] # NoBucket => bucket'[clients[a]] = bucket[clients[a]]
    BY <1>1, <2>1 DEF Inv, TypeOK
  <2>3. QED
    BY <1>2, <2>1, <2>2 DEF Level, Refilled
<1>5. QED
  BY <1>3, <1>4

LEMMA LevelLeft ==
  ASSUME Inv, NEW r \in Requests, NEW tokens \in 0..Full,
         held[r] # NoBucket, Left(r, tokens)
  PROVE  \A a \in Addresses :
           /\ a = addr[r] => Level(a) = Refilled(bucket[held[r]]) /\ Level(a)' = tokens
           /\ a # addr[r] => Level(a)' = Level(a)
<1>. USE FullNat
<1>1. /\ held[r] \in Buckets /\ addr[r] \in Addresses /\ now \in Nat
      /\ clients[addr[r]] = held[r] /\ clients' = clients /\ now' = now
  BY DEF Left, Inv, TypeOK, Fresh
<1>2. /\ bucket'[held[r]] = [tokens |-> tokens, lastCheck |-> now,
                            lastSeen |-> bucket[held[r]].lastSeen]
      /\ \A b \in Buckets : b # held[r] => bucket'[b] = bucket[b]
  BY <1>1 DEF Left, Inv, TypeOK
<1>3. bucket'[held[r]] \in Contents /\ bucket'[held[r]].lastCheck = now
  BY <1>1, <1>2 DEF Contents, Inv, TypeOK
<1>4. Refilled(bucket'[held[r]]) = tokens
  BY <1>1, <1>2, <1>3, JustChecked
<1>5. ASSUME NEW a \in Addresses, a = addr[r]
      PROVE  Level(a) = Refilled(bucket[held[r]]) /\ Level(a)' = tokens
  BY <1>1, <1>4, <1>5 DEF Level, Refilled
<1>6. ASSUME NEW a \in Addresses, a # addr[r]
      PROVE  Level(a)' = Level(a)
  <2>1. clients[a] # NoBucket => clients[a] \in Buckets /\ clients[a] # held[r]
    BY <1>1, <1>6 DEF Inv, Owned, TypeOK
  <2>2. QED
    BY <1>1, <1>2, <2>1 DEF Level, Refilled
<1>7. QED
  BY <1>5, <1>6

LEMMA LevelCleanup ==
  ASSUME Inv, RefilledInTime, Cleanup
  PROVE  \A a \in Addresses : Level(a)' = Level(a)
<1>. SUFFICES ASSUME NEW a \in Addresses PROVE Level(a)' = Level(a)
  OBVIOUS
<1>1. /\ clients'[a] = IF Idle(a) THEN NoBucket ELSE clients[a]
      /\ bucket' = bucket /\ now' = now
  BY DEF Cleanup
<1>2. CASE Idle(a)
  <2>1. Level(a) = Full
    BY <1>2, IdleIsFull DEF Level, Idle
  <2>2. Level(a)' = Full
    BY <1>1, <1>2 DEF Level
  <2>3. QED
    BY <2>1, <2>2
<1>3. CASE ~Idle(a)
  BY <1>1, <1>3 DEF Level, Refilled
<1>4. QED
  BY <1>2, <1>3

LEMMA LevelInit ==
  ASSUME Init
  PROVE  \A a \in Addresses : Level(a) = Full
BY DEF Init, Level

LEMMA AllowLevels ==
  ASSUME Inv, NEW r \in Requests, AllowPass(r) \/ AllowLimit(r)
  PROVE  /\ Refilled(bucket[held[r]]) \in 0..Full
         /\ AllowPass(r) => Refilled(bucket[held[r]]) - Token \in 0..Full
<1>1. bucket[held[r]] \in Contents /\ now \in Nat
  BY DEF AllowPass, AllowLimit, Inv, TypeOK, Contents
<1>2. Refilled(bucket[held[r]]) \in 0..Full
  BY <1>1, RefilledType
<1>3. AllowPass(r) => Refilled(bucket[held[r]]) - Token \in 0..Full
  BY <1>2, FullNat DEF AllowPass
<1>4. QED
  BY <1>2, <1>3

(* Every step of the limiter is a step of the token buckets or none. *)
LEMMA StepRefines ==
  ASSUME Inv, RefilledInTime, [Next]_vars
  PROVE  [Table!Next]_Table!bucketVars
<1>. USE DEF Table!Next, Table!bucketVars
<1>. DEFINE level == [a \in Addresses |-> Level(a)]
<1>0. (\A a \in Addresses : Level(a)' = Level(a)) => level' = level
  OBVIOUS
<1>1. CASE Tick
  <2>1. answer' = answer
    BY <1>1 DEF Tick
  <2>2. level' = [a \in Addresses |-> Table!AtMost(level[a] + Rate)]
    BY <1>1, LevelTick
  <2>3. Table!Elapse
    BY <2>1, <2>2 DEF Table!Elapse
  <2>4. QED
    BY <2>3
<1>2. ASSUME NEW r \in Requests, NEW a \in Addresses,
             LookupKnown(r, a) \/ LookupNew(r, a)
      PROVE  [Table!Next]_Table!bucketVars
  <2>1. answer' = answer
    BY <1>2 DEF LookupKnown, LookupNew, LookedUp
  <2>2. level' = level
    BY <1>0, <1>2, LevelLookupKnown, LevelLookupNew
  <2>3. QED
    BY <2>1, <2>2
<1>3. ASSUME NEW r \in Requests, AllowPass(r)
      PROVE  [Table!Next]_Table!bucketVars
  <2>. DEFINE x == addr[r]
              t == Refilled(bucket[held[r]])
  <2>1. x \in Addresses
    BY DEF Inv, TypeOK
  <2>2. t \in 0..Full /\ t - Token \in 0..Full /\ t >= Token
    BY <1>3, AllowLevels DEF AllowPass
  <2>3. /\ Level(x) = t
        /\ \A a \in Addresses : Level(a)' = IF a = x THEN t - Token ELSE Level(a)
    <3>1. Left(r, t - Token) /\ held[r] # NoBucket
      BY <1>3 DEF AllowPass
    <3>2. \A a \in Addresses :
            /\ a = addr[r] => Level(a) = t /\ Level(a)' = t - Token
            /\ a # addr[r] => Level(a)' = Level(a)
      BY <2>2, <3>1, LevelLeft
    <3>3. QED
      BY <2>1, <3>2
  <2>4. level' = [level EXCEPT ![x] = @ - Token]
    BY <2>1, <2>3
  <2>5. Table!Answered(x, "passed")
    BY <1>3 DEF AllowPass, Table!Answered
  <2>6. Table!Admit(x)
    BY <2>1, <2>2, <2>3, <2>4, <2>5 DEF Table!Admit
  <2>7. QED
    BY <2>1, <2>6
<1>4. ASSUME NEW r \in Requests, AllowLimit(r)
      PROVE  [Table!Next]_Table!bucketVars
  <2>. DEFINE x == addr[r]
              t == Refilled(bucket[held[r]])
  <2>1. x \in Addresses
    BY DEF Inv, TypeOK
  <2>2. t \in 0..Full /\ t < Token
    BY <1>4, AllowLevels DEF AllowLimit
  <2>3. Level(x) = t /\ \A a \in Addresses : Level(a)' = Level(a)
    <3>1. Left(r, t) /\ held[r] # NoBucket
      BY <1>4 DEF AllowLimit
    <3>2. \A a \in Addresses :
            /\ a = addr[r] => Level(a) = t /\ Level(a)' = t
            /\ a # addr[r] => Level(a)' = Level(a)
      BY <2>2, <3>1, LevelLeft
    <3>3. QED
      BY <2>1, <3>2
  <2>4. level' = level
    BY <1>0, <2>3
  <2>5. Table!Answered(x, "limited")
    BY <1>4 DEF AllowLimit, Table!Answered
  <2>6. Table!Refuse(x)
    BY <2>1, <2>2, <2>3, <2>4, <2>5 DEF Table!Refuse
  <2>7. QED
    BY <2>1, <2>6
<1>5. CASE Cleanup
  <2>1. answer' = answer
    BY <1>5 DEF Cleanup
  <2>2. level' = level
    BY <1>0, <1>5, LevelCleanup
  <2>3. QED
    BY <2>1, <2>2
<1>6. CASE UNCHANGED vars
  BY <1>6 DEF vars, Level, Refilled
<1>7. QED
  BY <1>1, <1>2, <1>3, <1>4, <1>5, <1>6 DEF Next

(* With a rate that refills a bucket before the cleanup can forget it, the *)
(* map of buckets, its two mutexes and its cleanup are one token bucket    *)
(* for each address (middlewares/limiter.go, Allow and RateLimiter).       *)
THEOREM LimiterIsTokenBucket ==
  ASSUME RefilledInTime PROVE Spec => ImplementsTokenBucket
<1>1. Init => Table!Init
  BY LevelInit DEF Table!Init, Init
<1>2. MaxStall <= IdleLimit
  BY DEF RefilledInTime
<1>3. Inv /\ [Next]_vars => Inv'
  BY <1>2, InvNext
<1>4. Inv /\ [Next]_vars => [Table!Next]_Table!bucketVars
  BY StepRefines
<1>5. QED
  BY <1>1, <1>3, <1>4, InvInit, PTL DEF Spec, Table!Spec, ImplementsTokenBucket

----------------------------------------------------------------------------
(* The bound on what an address gets through. *)

LEMMA LevelType ==
  ASSUME TypeOK PROVE \A a \in Addresses : Level(a) \in 0..Full
<1>. SUFFICES ASSUME NEW a \in Addresses PROVE Level(a) \in 0..Full
  OBVIOUS
<1>1. CASE clients[a] = NoBucket
  BY <1>1, FullNat DEF Level
<1>2. CASE clients[a] # NoBucket
  <2>1. bucket[clients[a]] \in Contents /\ now \in Nat
    BY <1>2 DEF TypeOK, Contents
  <2>2. QED
    BY <1>2, <2>1, RefilledType DEF Level
<1>3. QED
  BY <1>1, <1>2

LEMMA GrantedInit == Init => Granted
<1>. SUFFICES ASSUME Init, NEW a \in Addresses
              PROVE  passed[a] * Token + Level(a) <= Full + now * Rate
  BY DEF Granted
<1>1. passed[a] = 0 /\ now = 0 /\ Level(a) = Full
  BY LevelInit DEF Init
<1>2. QED
  BY <1>1, FullNat

LEMMA GrantedNext == RefilledInTime /\ Inv /\ Granted /\ [Next]_vars => Granted'
<1>. SUFFICES ASSUME RefilledInTime, Inv, Granted, [Next]_vars,
                     NEW a \in Addresses
              PROVE  passed'[a] * Token + Level(a)' <= Full + now' * Rate
  BY DEF Granted
<1>. USE FullNat
<1>0. /\ passed[a] \in Nat /\ now \in Nat /\ Level(a) \in 0..Full
      /\ passed[a] * Token \in Nat /\ now * Rate \in Nat
      /\ passed[a] * Token + Level(a) <= Full + now * Rate
  <2>1. passed[a] \in Nat /\ now \in Nat
    BY DEF Inv, TypeOK
  <2>2. Level(a) \in 0..Full
    BY LevelType DEF Inv
  <2>3. QED
    BY <2>1, <2>2 DEF Granted
<1>1. CASE Tick
  <2>1. passed' = passed /\ now' = now + 1
    BY <1>1 DEF Tick
  <2>2. now' * Rate = now * Rate + Rate
    BY <1>0, <2>1, Distribute
  <2>3. Level(a)' \in Nat /\ Level(a)' <= Level(a) + Rate
    BY <1>0, <1>1, LevelTick DEF Table!AtMost
  <2>4. QED
    BY <1>0, <2>1, <2>2, <2>3
<1>2. CASE \E r \in Requests, x \in Addresses : LookupKnown(r, x) \/ LookupNew(r, x)
  <2>1. passed' = passed /\ now' = now
    BY <1>2 DEF LookupKnown, LookupNew, LookedUp
  <2>2. Level(a)' = Level(a)
    BY <1>2, LevelLookupKnown, LevelLookupNew
  <2>3. QED
    BY <1>0, <2>1, <2>2
<1>3. ASSUME NEW r \in Requests, AllowPass(r)
      PROVE  passed'[a] * Token + Level(a)' <= Full + now' * Rate
  <2>. DEFINE t == Refilled(bucket[held[r]])
  <2>1. t \in 0..Full /\ t - Token \in 0..Full
    BY <1>3, AllowLevels
  <2>2. Left(r, t - Token) /\ held[r] # NoBucket
    BY <1>3 DEF AllowPass
  <2>3. now' = now
    BY <2>2 DEF Left
  <2>4. /\ a = addr[r] => Level(a) = t /\ Level(a)' = t - Token
        /\ a # addr[r] => Level(a)' = Level(a)
    BY <2>1, <2>2, LevelLeft
  <2>. HIDE DEF t
  <2>5. CASE a = addr[r]
    <3>1. passed'[a] = passed[a] + 1
      BY <1>3, <2>5 DEF AllowPass, Inv, TypeOK
    <3>2. passed'[a] * Token = passed[a] * Token + Token
      BY <1>0, <3>1, Distribute
    <3>3. QED
      BY <1>0, <2>1, <2>3, <2>4, <2>5, <3>2
  <2>6. CASE a # addr[r]
    <3>1. passed'[a] = passed[a]
      BY <1>3, <2>6 DEF AllowPass, Inv, TypeOK
    <3>2. QED
      BY <1>0, <2>3, <2>4, <2>6, <3>1
  <2>7. QED
    BY <2>5, <2>6
<1>4. ASSUME NEW r \in Requests, AllowLimit(r)
      PROVE  passed'[a] * Token + Level(a)' <= Full + now' * Rate
  <2>. DEFINE t == Refilled(bucket[held[r]])
  <2>1. t \in 0..Full
    BY <1>4, AllowLevels
  <2>2. Left(r, t) /\ held[r] # NoBucket /\ passed' = passed
    BY <1>4 DEF AllowLimit
  <2>3. Level(a)' = Level(a)
    BY <2>1, <2>2, LevelLeft
  <2>4. now' = now
    BY <2>2 DEF Left
  <2>5. QED
    BY <1>0, <2>2, <2>3, <2>4
<1>5. CASE Cleanup
  <2>1. passed' = passed /\ now' = now
    BY <1>5 DEF Cleanup
  <2>2. Level(a)' = Level(a)
    BY <1>5, LevelCleanup
  <2>3. QED
    BY <1>0, <2>1, <2>2
<1>6. CASE UNCHANGED vars
  <2>1. passed' = passed /\ now' = now /\ Level(a)' = Level(a)
    BY <1>6 DEF vars, Level, Refilled
  <2>2. QED
    BY <1>0, <2>1
<1>7. QED
  BY <1>1, <1>2, <1>3, <1>4, <1>5, <1>6 DEF Next

LEMMA GrantedHolds == Inv /\ Granted => RateHeld
<1>. SUFFICES ASSUME Inv, Granted, NEW a \in Addresses
              PROVE  passed[a] * Token <= Full + now * Rate
  BY DEF RateHeld
<1>1. passed[a] * Token \in Nat /\ now * Rate \in Nat /\ Level(a) \in 0..Full
  BY FullNat, LevelType DEF Inv, TypeOK
<1>2. passed[a] * Token + Level(a) <= Full + now * Rate
  BY DEF Granted
<1>3. QED
  BY <1>1, <1>2, FullNat

(* Under the same condition no address ever gets more requests through     *)
(* than its burst and what the rate has granted since the start.           *)
THEOREM RateIsHeld ==
  ASSUME RefilledInTime PROVE Spec => []RateHeld
<1>1. MaxStall <= IdleLimit
  BY DEF RefilledInTime
<1>2. Inv /\ [Next]_vars => Inv'
  BY <1>1, InvNext
<1>3. Inv /\ Granted /\ [Next]_vars => Granted'
  BY GrantedNext
<1>4. QED
  BY <1>2, <1>3, InvInit, GrantedInit, GrantedHolds, PTL DEF Spec
=============================================================================
