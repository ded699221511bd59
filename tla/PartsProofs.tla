---------------------------- MODULE PartsProofs ----------------------------
(***************************************************************************)
(* Proofs about three parts that share no state with the others: what Bind *)
(* makes of a request, for any struct, any widths and any strings; what    *)
(* StaticHandler serves, for any tree of files and any changes to it; and  *)
(* what Run returns, for any set of requests and any number of signals.    *)
(***************************************************************************)
EXTENDS Binding, StaticFiles, Server, WellFoundedInduction, TLAPS

----------------------------------------------------------------------------
(* Binding *)

(* A set of numbers that has an element has a least one.                   *)
LEMMA LeastNumber ==
  ASSUME NEW T \in SUBSET Nat, T # {}
  PROVE  \E k \in T : \A j \in T : k <= j
<1>1. PICK R : R = OpToRel(<, Nat)
  OBVIOUS
<1>2. IsWellFoundedOn(R, Nat)
  BY <1>1, NatLessThanWellFounded
<1>3. PICK k \in T : \A j \in T : <<j, k>> \notin R
  BY <1>2, WFMin
<1>4. \A i, j \in Nat : i < j => <<i, j>> \in R
  BY <1>1 DEF OpToRel
<1>5. ASSUME NEW j \in T PROVE k <= j
  <2>1. j \in Nat /\ k \in Nat
    OBVIOUS
  <2>2. ~(j < k)
    BY <1>3, <1>4, <2>1
  <2>3. QED
    BY <2>1, <2>2
<1>6. QED
  BY <1>5

(* A set that holds 0, and with a number the next one up to m, holds every *)
(* number up to m: the induction that the lemmas below use.                *)
LEMMA UpTo ==
  ASSUME NEW m \in Nat, NEW S, 0 \in S, \A n \in 1..m : n - 1 \in S => n \in S
  PROVE  \A n \in 0..m : n \in S
<1>. DEFINE T == {n \in 0..m : n \notin S}
<1>1. SUFFICES ASSUME T # {} PROVE FALSE
  OBVIOUS
<1>2. T \in SUBSET Nat
  OBVIOUS
<1>. HIDE DEF T
<1>3. PICK k \in T : \A j \in T : k <= j
  BY <1>1, <1>2, LeastNumber
<1>4. k \in 0..m /\ k \notin S
  BY <1>3 DEF T
<1>5. k \in 1..m /\ k - 1 \in 0..m
  BY <1>4
<1>6. k - 1 \notin S
  BY <1>4, <1>5
<1>7. k - 1 \in T
  BY <1>5, <1>6 DEF T
<1>8. k <= k - 1
  BY <1>3, <1>7
<1>9. QED
  BY <1>4, <1>8

(* What a field holds when it is no pointer, and when it may be one.       *)
Base(f) ==
  CASE f.kind = "string" -> Texts
    [] f.kind \in {"int", "uint"} -> Int
    [] f.kind = "bool" -> BOOLEAN
    [] f.kind = "ints" -> Seq(Int)
Contents(f) == IF f.ptr THEN {<< >>} \cup {<<y>> : y \in Base(f)} ELSE Base(f)

(* The remainder by the size of a type.                                    *)
LEMMA Remainder ==
  ASSUME NEW n \in Int, NEW size \in Nat \ {0}
  PROVE  /\ n % size \in Uints(size)
         /\ n \in Uints(size) => n % size = n
         /\ n < 0 /\ -size <= n => n % size = n + size
<1>1. n % size \in Uints(size)
  BY DEF Uints
<1>2. ASSUME n \in Uints(size) PROVE n % size = n
  BY <1>2 DEF Uints
<1>3. ASSUME n < 0, -size <= n PROVE n % size = n + size
  BY <1>3
<1>4. QED
  BY <1>1, <1>2, <1>3

(* What fits the type survives SetInt and SetUint.                         *)
LEMMA Fitting ==
  ASSUME NEW n \in Int, NEW size \in Nat \ {0}
  PROVE  /\ Truncated(n, size) \in Int
         /\ n \in Ints(size) => Truncated(n, size) = n
<1>1. size \div 2 \in Nat /\ 2 * (size \div 2) <= size
  OBVIOUS
<1>2. PICK half \in Nat : half = size \div 2 /\ 2 * half <= size
  BY <1>1
<1>3. PICK low : low = n % size
  OBVIOUS
<1>4. /\ low \in 0 .. size - 1
      /\ n \in 0 .. size - 1 => low = n
      /\ n < 0 /\ -size <= n => low = n + size
  BY <1>3, Remainder DEF Uints
<1>5. Truncated(n, size) = IF low \in -half .. half - 1 THEN low ELSE low - size
  BY <1>2, <1>3 DEF Truncated, Ints
<1>6. Ints(size) = -half .. half - 1
  BY <1>2 DEF Ints
<1>7. QED
  BY <1>2, <1>4, <1>5, <1>6

(* What setField stores is of the type of the field, and what was meant.   *)
Meaning(f, y, inputs) == Denotes(f, IF f.ptr THEN <<y>> ELSE y, inputs)

(* A slice takes the number of every string.                               *)
LEMMA StoredItems ==
  ASSUME NEW f \in Fields, f.kind = "ints", NEW inputs \in Seq(Texts), inputs # << >>
  PROVE  /\ Stored(f, inputs) \in Base(f)
         /\ AllParse(f, inputs) => Meaning(f, Stored(f, inputs), inputs)
<1>1. f.size \in Nat \ {0}
  BY DEF Fields
<1>2. \A i \in 1..Len(inputs) : inputs[i].num \in Int /\ inputs[i].isNum \in BOOLEAN
  <2>1. ASSUME NEW i \in 1..Len(inputs) PROVE inputs[i] \in Texts
    OBVIOUS
  <2>2. \A s \in Texts : s.num \in Int /\ s.isNum \in BOOLEAN
    BY DEF Texts
  <2>3. QED
    BY <2>1, <2>2
<1>3. PICK items : items = Items(f, inputs)
  OBVIOUS
<1>4. items = [i \in 1..Len(inputs) |-> Truncated(inputs[i].num, f.size)]
  BY <1>3 DEF Items
<1>5. ASSUME NEW i \in 1..Len(inputs)
      PROVE  items[i] \in Int /\ (inputs[i].num \in Ints(f.size) => items[i] = inputs[i].num)
  <2>1. PICK n \in Int : n = inputs[i].num
    BY <1>2
  <2>2. items[i] = Truncated(n, f.size)
    BY <1>4, <2>1
  <2>3. Truncated(n, f.size) \in Int /\ (n \in Ints(f.size) => Truncated(n, f.size) = n)
    BY <1>1, Fitting
  <2>4. QED
    BY <2>1, <2>2, <2>3
<1>6. items \in Seq(Int) /\ Len(items) = Len(inputs)
  BY <1>4, <1>5
<1>8. Stored(f, inputs) = items
  BY <1>3 DEF Stored
<1>9. AllParse(f, inputs) => \A i \in DOMAIN inputs : inputs[i].isNum
  BY DEF AllParse, Parses
<1>10. (IF f.ptr THEN (IF f.ptr THEN <<items>> ELSE items)[1]
        ELSE IF f.ptr THEN <<items>> ELSE items) = items
  OBVIOUS
<1>11. AllParse(f, inputs) => Meaning(f, items, inputs)
  <2>1. DOMAIN inputs = 1..Len(inputs)
    OBVIOUS
  <2>2. SUFFICES ASSUME AllParse(f, inputs) PROVE Meaning(f, items, inputs)
    OBVIOUS
  <2>3. \A i \in DOMAIN inputs :
          inputs[i].isNum /\ (inputs[i].num \in Ints(f.size) => items[i] = inputs[i].num)
    BY <1>5, <1>9, <2>1, <2>2
  <2>4. QED
    BY <1>6, <1>10, <2>3 DEF Meaning, Denotes
<1>12. QED
  BY <1>6, <1>8, <1>11 DEF Base

(* Every other kind takes the first string.                                *)
LEMMA StoredOne ==
  ASSUME NEW f \in Fields, f.kind # "ints", NEW inputs \in Seq(Texts), inputs # << >>
  PROVE  /\ Stored(f, inputs) \in Base(f)
         /\ AllParse(f, inputs) => Meaning(f, Stored(f, inputs), inputs)
<1>1. f.size \in Nat \ {0}
  BY DEF Fields
<1>2. PICK s : s = inputs[1]
  OBVIOUS
<1>3. s \in Texts
  BY <1>2
<1>4. s.num \in Int /\ s.isNum \in BOOLEAN
  BY <1>3 DEF Texts
<1>5. PICK y : y = Stored(f, inputs)
  OBVIOUS
<1>6. AllParse(f, inputs) => Parses(f, s)
  BY <1>2 DEF AllParse
<1>7. (IF f.ptr THEN (IF f.ptr THEN <<y>> ELSE y)[1]
       ELSE IF f.ptr THEN <<y>> ELSE y) = y
  OBVIOUS
<1>8. CASE f.kind = "string"
  <2>1. y = s
    BY <1>2, <1>5, <1>8 DEF Stored
  <2>2. QED
    BY <1>2, <1>3, <1>5, <1>7, <1>8, <2>1 DEF Base, Meaning, Denotes
<1>9. CASE f.kind = "int"
  <2>1. y = Truncated(s.num, f.size)
    BY <1>2, <1>5, <1>9 DEF Stored
  <2>2. y \in Int /\ (s.num \in Ints(f.size) => y = s.num)
    BY <1>1, <1>4, <2>1, Fitting
  <2>3. AllParse(f, inputs) => s.isNum
    BY <1>6, <1>9 DEF Parses
  <2>4. QED
    BY <1>2, <1>5, <1>7, <1>9, <2>2, <2>3 DEF Base, Meaning, Denotes
<1>10. CASE f.kind = "uint"
  <2>1. y = s.num % f.size
    BY <1>2, <1>5, <1>10 DEF Stored
  <2>2. y \in Int /\ (s.num \in Uints(f.size) => y = s.num)
    <3>1. /\ s.num % f.size \in Uints(f.size)
          /\ s.num \in Uints(f.size) => s.num % f.size = s.num
      BY <1>1, <1>4, Remainder
    <3>2. Uints(f.size) \subseteq Int
      BY <1>1 DEF Uints
    <3>3. QED
      BY <2>1, <3>1, <3>2
  <2>3. AllParse(f, inputs) => s.isNum
    BY <1>6, <1>10 DEF Parses
  <2>4. QED
    BY <1>2, <1>5, <1>7, <1>10, <2>2, <2>3 DEF Base, Meaning, Denotes
<1>11. CASE f.kind = "bool"
  <2>1. y = (s = Blank \/ s.num = 1)
    BY <1>2, <1>5, <1>11 DEF Stored
  <2>2. Blank.isNum = FALSE
    BY DEF Blank
  <2>3. AllParse(f, inputs) => s = Blank \/ (s.isNum /\ s.num \in {0, 1})
    BY <1>6, <1>11 DEF Parses
  <2>4. AllParse(f, inputs) => (y <=> ~(s.isNum /\ s.num = 0))
    <3>1. CASE s = Blank
      BY <2>1, <2>2, <3>1
    <3>2. CASE s # Blank /\ s.isNum /\ s.num = 0
      <4>1. s.num # 1
        BY <3>2
      <4>2. ~y
        BY <2>1, <3>2, <4>1
      <4>3. QED
        BY <3>2, <4>2
    <3>3. CASE s # Blank /\ s.isNum /\ s.num = 1
      <4>1. s.num # 0
        BY <3>3
      <4>2. y
        BY <2>1, <3>3
      <4>3. QED
        BY <4>1, <4>2
    <3>4. QED
      BY <2>3, <3>1, <3>2, <3>3
  <2>5. QED
    BY <1>2, <1>5, <1>7, <1>11, <2>1, <2>4 DEF Base, Meaning, Denotes
<1>12. f.kind \in {"string", "int", "uint", "bool"}
  BY DEF Fields
<1>13. QED
  BY <1>8, <1>9, <1>10, <1>11, <1>12

----------------------------------------------------------------------------
(* What setField makes of a field, when its strings parse and when one     *)
(* does not.                                                               *)
LEMMA ZeroIs ==
  ASSUME NEW f \in Fields
  PROVE  Zero(f) \in Base(f)
<1>1. f.kind \in {"string", "int", "uint", "bool", "ints"}
  BY DEF Fields
<1>2. Blank \in Texts
  BY DEF Blank, Texts
<1>3. CASE f.kind = "string"
  BY <1>2, <1>3 DEF Zero, Base
<1>4. CASE f.kind = "int" \/ f.kind = "uint"
  <2>1. Zero(f) = 0
    BY <1>4 DEF Zero
  <2>2. Base(f) = Int
    BY <1>4 DEF Base
  <2>3. QED
    BY <2>1, <2>2
<1>5. CASE f.kind = "bool"
  BY <1>5 DEF Zero, Base
<1>6. CASE f.kind = "ints"
  <2>1. << >> \in Seq(Int)
    OBVIOUS
  <2>2. QED
    BY <1>6, <2>1 DEF Zero, Base
<1>7. QED
  BY <1>1, <1>3, <1>4, <1>5, <1>6

(* A field then holds what was meant, or its pointer at most is allocated. *)
LEMMA SetFieldDoes ==
  ASSUME NEW f \in Fields, NEW old \in Contents(f), NEW inputs \in Seq(Texts), inputs # << >>
  PROVE  /\ SetField(f, old, inputs) \in Contents(f)
         /\ AllParse(f, inputs) => Denotes(f, SetField(f, old, inputs), inputs)
         /\ ~AllParse(f, inputs) =>
              SetField(f, old, inputs) = IF f.ptr THEN Held(f, old) ELSE old
<1>1. PICK y : y = Stored(f, inputs)
  OBVIOUS
<1>2. y \in Base(f) /\ (AllParse(f, inputs) => Meaning(f, y, inputs))
  BY <1>1, StoredItems, StoredOne
<1>3. CASE AllParse(f, inputs)
  <2>1. SetField(f, old, inputs) = IF f.ptr THEN <<y>> ELSE y
    BY <1>1, <1>3 DEF SetField
  <2>2. (IF f.ptr THEN <<y>> ELSE y) \in Contents(f)
    BY <1>2 DEF Contents
  <2>3. QED
    BY <1>2, <1>3, <2>1, <2>2 DEF Meaning
<1>4. CASE ~AllParse(f, inputs)
  <2>1. SetField(f, old, inputs) = Held(f, old)
    BY <1>4 DEF SetField
  <2>2. Held(f, old) \in Contents(f)
    BY ZeroIs DEF Held, Contents
  <2>3. Held(f, old) = IF f.ptr THEN Held(f, old) ELSE old
    BY DEF Held
  <2>4. QED
    BY <1>4, <2>1, <2>2, <2>3
<1>5. QED
  BY <1>3, <1>4

----------------------------------------------------------------------------
(* The loop of bindData, by induction over the fields.                     *)

FieldByField(bound, data, tag, m) ==
  [n \in 0..m |-> IF n = 0 THEN [ok |-> TRUE, v |-> v]
                  ELSE BindField(bound[n - 1], n, data, tag)]

(* Bound is well defined: each field is bound after the one before it.     *)
LEMMA BoundIs ==
  ASSUME Len(fields) \in Nat, NEW data, NEW tag
  PROVE  Bound(data, tag) = FieldByField(Bound(data, tag), data, tag, Len(fields))
<1>. DEFINE L == Len(fields)
            S == {n \in 0..L : \E f : f = FieldByField(f, data, tag, n)}
<1>1. 0 \in S
  <2>. DEFINE f == [n \in 0..0 |-> [ok |-> TRUE, v |-> v]]
  <2>1. f = FieldByField(f, data, tag, 0)
    BY DEF FieldByField
  <2>2. QED
    BY <2>1
<1>2. ASSUME NEW n \in 1..L, n - 1 \in S PROVE n \in S
  <2>1. PICK f : f = FieldByField(f, data, tag, n - 1)
    BY <1>2
  <2>. DEFINE First == [ok |-> TRUE, v |-> v]
              g == [i \in 0..n |-> IF i = n THEN BindField(f[n - 1], n, data, tag) ELSE f[i]]
  <2>2. ASSUME NEW i \in 0..n
        PROVE  g[i] = IF i = 0 THEN First ELSE BindField(g[i - 1], i, data, tag)
    <3>1. CASE i = n
      <4>1. n - 1 \in 0..n /\ n - 1 # n /\ i # 0
        BY <3>1
      <4>2. g[n - 1] = f[n - 1]
        BY <4>1
      <4>3. QED
        BY <3>1, <4>1, <4>2
    <3>2. CASE i # n
      <4>1. i \in 0..(n - 1)
        BY <3>2
      <4>2. f[i] = IF i = 0 THEN First ELSE BindField(f[i - 1], i, data, tag)
        BY <2>1, <4>1 DEF FieldByField
      <4>3. g[i] = f[i]
        BY <3>2
      <4>4. i # 0 => i - 1 \in 0..n /\ i - 1 # n
        BY <4>1
      <4>5. i # 0 => g[i - 1] = f[i - 1]
        BY <4>4
      <4>6. QED
        BY <4>2, <4>3, <4>5
    <3>3. QED
      BY <3>1, <3>2
  <2>3. g = FieldByField(g, data, tag, n)
    BY <2>2 DEF FieldByField
  <2>4. QED
    BY <2>3
<1>3. L \in S
  <2>. HIDE DEF S
  <2>1. \A n \in 0..L : n \in S
    BY <1>1, <1>2, UpTo
  <2>2. QED
    BY <2>1
<1>4. PICK f : f = FieldByField(f, data, tag, L)
  BY <1>3
<1>5. Bound(data, tag) = CHOOSE g : g = FieldByField(g, data, tag, L)
  BY DEF Bound, FieldByField
<1>6. QED
  BY <1>4, <1>5

(* Every field holds a value of its type.                                 *)
Holds(w) ==
  /\ DOMAIN w = 1..Len(fields)
  /\ \A i \in 1..Len(fields) : w[i] \in Contents(fields[i])

(* The data has strings for field i.                                       *)
Takes(i, data, tag) == tag \in fields[i].tags /\ data[fields[i].key] # << >>

(* Field i holds what the data says for it.                                *)
Settled(w, i, data, tag) ==
  IF Takes(i, data, tag) THEN Denotes(fields[i], w[i], data[fields[i].key])
  ELSE w[i] = v[i]

(* The loop has stopped at field k.                                        *)
StoppedAt(w, k, data, tag) ==
  /\ Takes(k, data, tag) /\ ~AllParse(fields[k], data[fields[k].key])
  /\ w[k] = IF fields[k].ptr THEN Held(fields[k], v[k]) ELSE v[k]
  /\ \A i \in (k + 1)..Len(fields) : w[i] = v[i]
  /\ \A i \in 1..(k - 1) : Settled(w, i, data, tag)

(* What the loop has come to after n fields.                               *)
Progress(acc, n, data, tag) ==
  /\ Holds(acc.v)
  /\ \A i \in (n + 1)..Len(fields) : acc.v[i] = v[i]
  /\ acc.ok => \A i \in 1..n : Settled(acc.v, i, data, tag)
  /\ ~acc.ok => \E k \in 1..n : StoppedAt(acc.v, k, data, tag)

(* One more field.                                                         *)
LEMMA NextField ==
  ASSUME fields \in Seq(Fields), NEW data \in Data, NEW tag, NEW n \in 1..Len(fields),
         NEW acc, Progress(acc, n - 1, data, tag)
  PROVE  Progress(BindField(acc, n, data, tag), n, data, tag)
<1>1. PICK f : f = fields[n]
  OBVIOUS
<1>2. f \in Fields /\ f.key \in Keys
  <2>1. f \in Fields
    BY <1>1
  <2>2. QED
    BY <2>1 DEF Fields
<1>3. PICK inputs : inputs = data[f.key]
  OBVIOUS
<1>4. inputs \in Seq(Texts)
  BY <1>2, <1>3 DEF Data
<1>5. PICK next : next = BindField(acc, n, data, tag)
  OBVIOUS
<1>6. /\ \A i \in (n + 1)..Len(fields) : i \in n..Len(fields) /\ i # n
      /\ \A i \in n..Len(fields) : acc.v[i] = v[i]
      /\ \A i \in 1..n : i = n \/ i \in 1..(n - 1)
      /\ \A i \in 1..(n - 1) : i \in 1..n /\ i # n
      /\ n \in n..Len(fields)
      /\ (n - 1) + 1 = n
  BY DEF Progress
<1>7. CASE ~acc.ok
  <2>1. next = acc
    BY <1>5, <1>7 DEF BindField, Stops
  <2>2. QED
    BY <1>5, <1>6, <1>7, <2>1 DEF Progress
<1>8. CASE acc.ok /\ ~Takes(n, data, tag)
  <2>1. next = acc
    BY <1>5, <1>8 DEF BindField, Takes
  <2>2. Settled(acc.v, n, data, tag)
    BY <1>6, <1>8 DEF Settled
  <2>3. QED
    BY <1>5, <1>6, <1>8, <2>1, <2>2 DEF Progress
<1>9. CASE acc.ok /\ Takes(n, data, tag)
  <2>1. inputs # << >> /\ tag \in f.tags
    BY <1>1, <1>3, <1>9 DEF Takes
  <2>2. PICK x : x = SetField(f, acc.v[n], inputs)
    OBVIOUS
  <2>3. /\ next.v = [acc.v EXCEPT ![n] = x]
        /\ next.ok <=> AllParse(f, inputs)
    <3>1. ~(Stops(acc) \/ tag \notin f.tags \/ inputs = << >>)
      BY <1>9, <2>1 DEF Stops
    <3>2. BindField(acc, n, data, tag) =
            [ok |-> acc.ok /\ AllParse(f, inputs), v |-> [acc.v EXCEPT ![n] = x]]
      BY <1>1, <1>3, <2>2, <3>1, Zenon DEF BindField
    <3>3. next.ok = (acc.ok /\ AllParse(f, inputs))
      BY <1>5, <3>2
    <3>4. next.v = [acc.v EXCEPT ![n] = x]
      BY <1>5, <3>2
    <3>5. next.ok <=> AllParse(f, inputs)
      BY <1>9, <3>3, Zenon
    <3>6. QED
      BY <3>4, <3>5
  <2>4. PICK w : w = [acc.v EXCEPT ![n] = x]
    OBVIOUS
  <2>5. acc.v[n] = v[n] /\ acc.v[n] \in Contents(f)
    BY <1>1, <1>6 DEF Progress, Holds
  <2>6. /\ x \in Contents(f)
        /\ AllParse(f, inputs) => Denotes(f, x, inputs)
        /\ ~AllParse(f, inputs) => x = IF f.ptr THEN Held(f, acc.v[n]) ELSE acc.v[n]
    BY <1>2, <1>4, <2>1, <2>2, <2>5, SetFieldDoes
  <2>7. DOMAIN acc.v = 1..Len(fields)
    BY DEF Progress, Holds
  <2>8. /\ DOMAIN w = 1..Len(fields) /\ w[n] = x
        /\ \A i \in 1..Len(fields) : i # n => w[i] = acc.v[i]
    BY <2>4, <2>7
  <2>9. Holds(w)
    BY <1>1, <2>6, <2>8 DEF Progress, Holds
  <2>10. \A i \in (n + 1)..Len(fields) : w[i] = v[i]
    <3>1. ASSUME NEW i \in (n + 1)..Len(fields) PROVE w[i] = v[i]
      <4>1. i \in n..Len(fields) /\ i \in 1..Len(fields) /\ i # n
        OBVIOUS
      <4>2. w[i] = acc.v[i]
        BY <2>8, <4>1
      <4>3. QED
        BY <1>6, <4>1, <4>2
    <3>2. QED
      BY <3>1
  <2>11. \A i \in 1..(n - 1) : Settled(w, i, data, tag)
    <3>1. ASSUME NEW i \in 1..(n - 1) PROVE Settled(w, i, data, tag)
      <4>1. i \in 1..Len(fields) /\ i # n
        OBVIOUS
      <4>2. w[i] = acc.v[i]
        BY <2>8, <4>1
      <4>3. Settled(acc.v, i, data, tag)
        BY <1>9 DEF Progress
      <4>4. QED
        BY <4>2, <4>3 DEF Settled
    <3>2. QED
      BY <3>1
  <2>12. CASE AllParse(f, inputs)
    <3>1. Settled(w, n, data, tag)
      BY <1>1, <1>3, <1>9, <2>6, <2>8, <2>12 DEF Settled
    <3>2. next.ok /\ next.v = w
      BY <2>3, <2>4, <2>12
    <3>3. \A i \in 1..n : Settled(w, i, data, tag)
      BY <1>6, <2>11, <3>1
    <3>4. QED
      BY <1>5, <2>9, <2>10, <3>2, <3>3 DEF Progress
  <2>13. CASE ~AllParse(f, inputs)
    <3>1. StoppedAt(w, n, data, tag)
      BY <1>1, <1>3, <1>9, <2>5, <2>6, <2>8, <2>10, <2>11, <2>13 DEF StoppedAt
    <3>2. ~next.ok /\ next.v = w
      BY <2>3, <2>4, <2>13
    <3>3. QED
      BY <1>5, <2>9, <2>10, <3>1, <3>2 DEF Progress
  <2>14. QED
    BY <2>12, <2>13
<1>10. QED
  BY <1>7, <1>8, <1>9 DEF Progress

(* So the loop ends at the last field or has stopped at one before.        *)
LEMMA LoopDone ==
  ASSUME fields \in Seq(Fields), NEW data \in Data, NEW tag, Holds(v)
  PROVE  Progress(BindData(data, tag), Len(fields), data, tag)
<1>. DEFINE L == Len(fields)
            S == {n \in 0..L : Progress(Bound(data, tag)[n], n, data, tag)}
<1>1. PICK bound : bound = Bound(data, tag)
  OBVIOUS
<1>2. L \in Nat /\ bound = FieldByField(bound, data, tag, L)
  BY <1>1, BoundIs
<1>3. /\ bound[0] = [ok |-> TRUE, v |-> v]
      /\ \A n \in 1..L : bound[n] = BindField(bound[n - 1], n, data, tag)
  <2>1. PICK g : g = bound
    OBVIOUS
  <2>2. bound = [n \in 0..L |-> IF n = 0 THEN [ok |-> TRUE, v |-> v]
                                ELSE BindField(g[n - 1], n, data, tag)]
    BY <1>2, <2>1 DEF FieldByField
  <2>3. bound[0] = [ok |-> TRUE, v |-> v]
    BY <1>2, <2>2
  <2>4. ASSUME NEW n \in 1..L PROVE bound[n] = BindField(g[n - 1], n, data, tag)
    <3>1. n \in 0..L /\ n # 0
      BY <1>2
    <3>2. QED
      BY <2>2, <3>1
  <2>5. QED
    BY <2>1, <2>3, <2>4
<1>4. 0 \in S
  <2>1. bound[0].ok /\ bound[0].v = v
    BY <1>3
  <2>2. Progress(bound[0], 0, data, tag)
    BY <2>1 DEF Progress
  <2>3. QED
    BY <1>1, <1>2, <2>2
<1>5. ASSUME NEW n \in 1..L, n - 1 \in S PROVE n \in S
  <2>1. Progress(bound[n - 1], n - 1, data, tag)
    BY <1>1, <1>5
  <2>2. Progress(BindField(bound[n - 1], n, data, tag), n, data, tag)
    BY <2>1, NextField
  <2>3. QED
    BY <1>1, <1>2, <1>3, <2>2
<1>6. L \in S
  <2>. HIDE DEF S
  <2>1. \A n \in 0..L : n \in S
    BY <1>2, <1>4, <1>5, UpTo
  <2>2. QED
    BY <1>2, <2>1
<1>7. QED
  BY <1>6 DEF BindData

----------------------------------------------------------------------------
(* The bounds of the tags of f are numbers of a word.                      *)
Bounded(f) ==
  \A bounds \in {f.min, f.max} : \A k \in DOMAIN bounds : bounds[k] \in Ints(Word)

(* What validateStruct asks of a field is what its rules say.              *)
LEMMA RulesAgree ==
  ASSUME NEW f \in Fields, Bounded(f), Sensible(f), NEW x \in Contents(f)
  PROVE  Passes(f, x) <=> Satisfies(f, x)
<1>1. f.kind \in {"string", "int", "uint", "bool", "ints"}
  BY DEF Fields
<1>2. /\ \A k \in DOMAIN f.min : f.min[k] \in Int /\ f.min[k] < Word
      /\ \A k \in DOMAIN f.max : f.max[k] \in Int /\ f.max[k] < Word
  <2>1. \A n \in Ints(Word) : n \in Int /\ n < Word
    BY BindingConstants DEF Ints
  <2>2. QED
    BY <2>1 DEF Bounded
<1>3. CASE f.ptr
  BY <1>3 DEF Passes, Satisfies, IsZero, CheckMin, CheckMax
<1>4. CASE ~f.ptr /\ f.kind = "string"
  <2>1. x.len \in Nat
    BY <1>4 DEF Contents, Base, Texts
  <2>2. IsZero(f, x) <=> x.len = 0
    BY <1>4 DEF IsZero, Length
  <2>3. /\ \A min : CheckMin(f, x, min) <=> x.len >= min
        /\ \A max : CheckMax(f, x, max) <=> x.len <= max
    BY <1>4 DEF CheckMin, CheckMax, Length
  <2>4. Satisfies(f, x) <=> Within(f, x.len) /\ (f.required => x.len > 0)
    BY <1>4 DEF Satisfies
  <2>5. QED
    BY <2>1, <2>2, <2>3, <2>4 DEF Passes, Within
<1>5. CASE ~f.ptr /\ f.kind = "ints"
  <2>1. x \in Seq(Int)
    BY <1>5 DEF Contents, Base
  <2>2. IsZero(f, x) <=> Len(x) = 0
    BY <1>5 DEF IsZero, Length
  <2>3. /\ \A min : CheckMin(f, x, min) <=> Len(x) >= min
        /\ \A max : CheckMax(f, x, max) <=> Len(x) <= max
    BY <1>5 DEF CheckMin, CheckMax, Length
  <2>4. Satisfies(f, x) <=> Within(f, Len(x)) /\ (f.required => x # << >>)
    BY <1>5 DEF Satisfies
  <2>5. Len(x) = 0 <=> x = << >>
    BY <2>1
  <2>6. QED
    BY <2>2, <2>3, <2>4, <2>5 DEF Passes, Within
<1>6. CASE ~f.ptr /\ f.kind = "int"
  <2>2. IsZero(f, x) <=> x = 0
    BY <1>6 DEF IsZero
  <2>3. /\ \A min : CheckMin(f, x, min) <=> x >= min
        /\ \A max : CheckMax(f, x, max) <=> x <= max
    BY <1>6 DEF CheckMin, CheckMax
  <2>4. Satisfies(f, x) <=> Within(f, x) /\ (f.required => x # 0)
    BY <1>6 DEF Satisfies
  <2>5. QED
    BY <2>2, <2>3, <2>4 DEF Passes, Within
<1>7. CASE ~f.ptr /\ f.kind = "uint"
  <2>1. \A n \in Int : 0 <= n /\ n < Word => n % Word = n
    <3>1. \A n \in Int : 0 <= n /\ n < Word => n \in Uints(Word)
      BY BindingConstants DEF Uints
    <3>2. QED
      BY <3>1, BindingConstants, Remainder
  <2>2. IsZero(f, x) <=> x = 0
    BY <1>7 DEF IsZero
  <2>3. /\ \A min : CheckMin(f, x, min) <=> x >= min % Word
        /\ \A max : CheckMax(f, x, max) <=> x <= max % Word
    BY <1>7 DEF CheckMin, CheckMax
  <2>4. Satisfies(f, x) <=> Within(f, x) /\ (f.required => x # 0)
    BY <1>7 DEF Satisfies
  <2>5. /\ \A k \in DOMAIN f.min : f.min[k] % Word = f.min[k]
        /\ \A k \in DOMAIN f.max : f.max[k] % Word = f.max[k]
    BY <1>2, <1>7, <2>1 DEF Sensible
  <2>6. QED
    BY <2>2, <2>3, <2>4, <2>5 DEF Passes, Within
<1>8. CASE ~f.ptr /\ f.kind = "bool"
  BY <1>8 DEF Passes, Satisfies, IsZero, CheckMin, CheckMax
<1>9. QED
  BY <1>1, <1>3, <1>4, <1>5, <1>6, <1>7, <1>8

(* The verdict on the values w is that of the rules.                       *)
LEMMA ValidMeans ==
  ASSUME fields \in Structs, NEW w, Holds(w)
  PROVE  /\ Valid(w) =>
              \A i \in 1..Len(fields) : Sensible(fields[i]) => Satisfies(fields[i], w[i])
         /\ ~Valid(w) =>
              \E i \in 1..Len(fields) : Sensible(fields[i]) => ~Satisfies(fields[i], w[i])
<1>1. ASSUME NEW i \in 1..Len(fields), Sensible(fields[i])
      PROVE  Passes(fields[i], w[i]) <=> Satisfies(fields[i], w[i])
  <2>1. fields \in Seq(Fields) /\ fields[i] \in Fields
    BY BindingConstants
  <2>2. Bounded(fields[i])
    BY <2>1, BindingConstants DEF Bounded
  <2>3. w[i] \in Contents(fields[i])
    BY DEF Holds
  <2>4. QED
    BY <1>1, <2>1, <2>2, <2>3, RulesAgree
<1>2. QED
  BY <1>1 DEF Valid

----------------------------------------------------------------------------
(* What a literal of JSON is worth to a field that it fits.                *)
ItemBase(f) == CASE f.kind = "string" -> Texts
                 [] f.kind = "bool" -> BOOLEAN
                 [] f.kind \in {"int", "uint", "ints"} -> Int

LEMMA FittingMeans ==
  ASSUME NEW f \in Fields, NEW s \in Scalars, Fits(f, s)
  PROVE  Worth(f, s) \in ItemBase(f) /\ Means(f, Worth(f, s), s)
<1>1. f.kind \in {"string", "int", "uint", "bool", "ints"}
  BY DEF Fields
<1>2. s.text \in Texts /\ s.text.num \in Int
  BY DEF Scalars, Texts
<1>3. CASE f.kind = "string"
  <2>1. Worth(f, s) = s.text
    BY <1>3 DEF Worth
  <2>2. s.type = "string"
    BY <1>3 DEF Fits
  <2>3. QED
    BY <1>2, <1>3, <2>1, <2>2 DEF ItemBase, Means
<1>4. CASE f.kind = "bool"
  <2>1. Worth(f, s) = (s.text.num = 1)
    BY <1>4 DEF Worth
  <2>2. s.type = "bool"
    BY <1>4 DEF Fits
  <2>3. QED
    BY <1>4, <2>1, <2>2 DEF ItemBase, Means
<1>5. CASE f.kind \in {"int", "uint", "ints"}
  <2>1. Worth(f, s) = s.text.num
    BY <1>5 DEF Worth
  <2>2. s.type = "number" /\ s.text.isNum
    BY <1>5 DEF Fits
  <2>3. QED
    BY <1>2, <1>5, <2>1, <2>2 DEF ItemBase, Means
<1>6. QED
  BY <1>1, <1>3, <1>4, <1>5

(* A list is decoded element by element.                                   *)
LEMMA ListDecoded ==
  ASSUME NEW f \in Fields, f.kind = "ints", NEW old \in Seq(Int), NEW items \in Seq(Scalars)
  PROVE  /\ DecodeList(f, old, items) \in Seq(Int)
         /\ FittingMean(f, DecodeList(f, old, items), items)
         /\ (\A j \in 1..Len(items) : items[j].type = "null" \/ Fits(f, items[j])) =>
              ItemsMean(f, DecodeList(f, old, items), items)
<1>1. PICK y : y = DecodeList(f, old, items)
  OBVIOUS
<1>2. y = [j \in 1..Len(items) |-> IF Fits(f, items[j]) THEN Worth(f, items[j])
                                   ELSE IF j <= Len(old) THEN old[j] ELSE 0]
  BY <1>1 DEF DecodeList
<1>3. ASSUME NEW j \in 1..Len(items)
      PROVE  y[j] \in Int /\ (Fits(f, items[j]) => Means(f, y[j], items[j]))
  <2>1. CASE Fits(f, items[j])
    <3>1. y[j] = Worth(f, items[j])
      BY <1>2, <2>1
    <3>2. Worth(f, items[j]) \in ItemBase(f) /\ Means(f, Worth(f, items[j]), items[j])
      BY <2>1, FittingMeans
    <3>3. QED
      BY <3>1, <3>2 DEF ItemBase
  <2>2. CASE ~Fits(f, items[j])
    <3>1. y[j] = IF j <= Len(old) THEN old[j] ELSE 0
      BY <1>2, <2>2
    <3>2. QED
      BY <2>2, <3>1
  <2>3. QED
    BY <2>1, <2>2
<1>4. y \in Seq(Int) /\ Len(y) = Len(items)
  BY <1>2, <1>3
<1>5. QED
  BY <1>1, <1>3, <1>4 DEF FittingMean, ItemsMean

(* What the decoder makes of a field that is no pointer.                   *)
LEMMA BaseDecoded ==
  ASSUME NEW f \in Fields, NEW old \in Base(f), NEW val \in JSONValues,
         val.shape # "absent", ~IsNull(val)
  PROVE  /\ DecodeBase(f, old, val) \in Base(f)
         /\ Suits(f, val) /\ val.shape = "scalar" =>
              f.kind # "ints" /\ Means(f, DecodeBase(f, old, val), val.items[1])
         /\ Suits(f, val) /\ val.shape = "list" =>
              f.kind = "ints" /\ ItemsMean(f, DecodeBase(f, old, val), val.items)
         /\ ~Suits(f, val) =>
              \/ DecodeBase(f, old, val) = old
              \/ /\ val.shape = "list" /\ f.kind = "ints"
                 /\ FittingMean(f, DecodeBase(f, old, val), val.items)
<1>1. /\ val.items \in Seq(Scalars)
      /\ \/ val.shape = "list"
         \/ val.shape = "scalar" /\ val.items # << >>
  BY DEF JSONValues, Absent
<1>2. CASE val.shape = "list" /\ f.kind = "ints"
  <2>1. DecodeBase(f, old, val) = DecodeList(f, old, val.items)
    BY <1>2 DEF DecodeBase
  <2>2. old \in Seq(Int)
    BY <1>2 DEF Base
  <2>3. /\ DecodeList(f, old, val.items) \in Seq(Int)
        /\ FittingMean(f, DecodeList(f, old, val.items), val.items)
        /\ (\A j \in 1..Len(val.items) : val.items[j].type = "null" \/ Fits(f, val.items[j])) =>
             ItemsMean(f, DecodeList(f, old, val.items), val.items)
    BY <1>1, <1>2, <2>2, ListDecoded
  <2>4. Suits(f, val) =>
          \A j \in 1..Len(val.items) : val.items[j].type = "null" \/ Fits(f, val.items[j])
    BY <1>2 DEF Suits
  <2>5. Base(f) = Seq(Int)
    BY <1>2 DEF Base
  <2>6. val.shape # "scalar"
    BY <1>2
  <2>7. QED
    BY <1>2, <2>1, <2>3, <2>4, <2>5, <2>6
<1>3. CASE val.shape = "scalar" /\ f.kind # "ints" /\ Fits(f, val.items[1])
  <2>1. DecodeBase(f, old, val) = Worth(f, val.items[1])
    BY <1>3 DEF DecodeBase
  <2>2. Suits(f, val)
    BY <1>3 DEF Suits
  <2>3. val.items[1] \in Scalars
    BY <1>1, <1>3
  <2>4. Worth(f, val.items[1]) \in ItemBase(f) /\ Means(f, Worth(f, val.items[1]), val.items[1])
    BY <1>3, <2>3, FittingMeans
  <2>5. ItemBase(f) = Base(f)
    <3>1. f.kind \in {"string", "int", "uint", "bool"}
      BY <1>3 DEF Fields
    <3>2. QED
      BY <3>1 DEF ItemBase, Base
  <2>6. val.shape # "list"
    BY <1>3
  <2>7. QED
    BY <1>3, <2>1, <2>2, <2>4, <2>5, <2>6
<1>4. CASE ~(val.shape = "list" /\ f.kind = "ints")
           /\ ~(val.shape = "scalar" /\ f.kind # "ints" /\ Fits(f, val.items[1]))
  <2>1. DecodeBase(f, old, val) = old
    BY <1>4 DEF DecodeBase
  <2>2. ~Suits(f, val)
    BY <1>4 DEF Suits
  <2>3. QED
    BY <2>1, <2>2
<1>5. QED
  BY <1>2, <1>3, <1>4

(* A field then holds what the document says, or at most part of it.       *)
LEMMA FieldDecoded ==
  ASSUME NEW f \in Fields, NEW old \in Contents(f), NEW val \in JSONValues
  PROVE  /\ DecodeField(f, old, val) \in Contents(f)
         /\ Suits(f, val) => Reads(f, DecodeField(f, old, val), old, val)
         /\ ~Suits(f, val) =>
              \/ DecodeField(f, old, val) = Held(f, old)
              \/ /\ val.shape = "list" /\ f.kind = "ints"
                 /\ FittingMean(f, IF f.ptr THEN DecodeField(f, old, val)[1]
                                           ELSE DecodeField(f, old, val), val.items)
<1>1. val.shape \in {"absent", "scalar", "list"}
  BY DEF JSONValues, Absent
<1>2. PICK x : x = DecodeField(f, old, val)
  OBVIOUS
<1>3. CASE val.shape = "absent"
  <2>1. x = old
    BY <1>2, <1>3 DEF DecodeField
  <2>2. Suits(f, val)
    BY <1>3 DEF Suits
  <2>3. Reads(f, old, old, val)
    BY <1>3 DEF Reads, IsNull
  <2>4. QED
    BY <1>2, <2>1, <2>2, <2>3
<1>4. CASE IsNull(val)
  <2>1. val.shape = "scalar"
    BY <1>4 DEF IsNull
  <2>2. x = IF f.ptr \/ f.kind = "ints" THEN << >> ELSE old
    BY <1>2, <1>4, <2>1 DEF DecodeField
  <2>3. Suits(f, val)
    BY <1>4 DEF Suits
  <2>4. Reads(f, x, old, val)
    BY <1>4, <2>1, <2>2 DEF Reads
  <2>5. x \in Contents(f)
    <3>1. << >> \in Seq(Int)
      OBVIOUS
    <3>2. QED
      BY <2>2, <3>1 DEF Contents, Base
  <2>6. QED
    BY <1>2, <2>3, <2>4, <2>5
<1>5. CASE val.shape # "absent" /\ ~IsNull(val)
  <2>1. PICK was : was = IF f.ptr THEN Held(f, old)[1] ELSE old
    OBVIOUS
  <2>2. was \in Base(f) /\ Held(f, old) = IF f.ptr THEN <<was>> ELSE old
    BY <2>1, ZeroIs DEF Held, Contents
  <2>3. PICK y : y = DecodeBase(f, was, val)
    OBVIOUS
  <2>4. x = IF f.ptr THEN <<y>> ELSE y
    BY <1>2, <1>5, <2>1, <2>3 DEF DecodeField
  <2>5. /\ y \in Base(f)
        /\ Suits(f, val) /\ val.shape = "scalar" => f.kind # "ints" /\ Means(f, y, val.items[1])
        /\ Suits(f, val) /\ val.shape = "list" => f.kind = "ints" /\ ItemsMean(f, y, val.items)
        /\ ~Suits(f, val) => \/ y = was
                             \/ val.shape = "list" /\ f.kind = "ints" /\ FittingMean(f, y, val.items)
    BY <1>5, <2>2, <2>3, BaseDecoded
  <2>6. x \in Contents(f)
    BY <2>4, <2>5 DEF Contents
  <2>7. (IF f.ptr THEN x[1] ELSE x) = y
    BY <2>4
  <2>8. ASSUME Suits(f, val) PROVE Reads(f, x, old, val)
    <3>1. CASE val.shape = "scalar"
      BY <1>5, <2>5, <2>7, <2>8, <3>1 DEF Reads
    <3>2. CASE val.shape = "list"
      BY <1>5, <2>5, <2>7, <2>8, <3>2 DEF Reads
    <3>3. QED
      BY <1>1, <1>5, <3>1, <3>2
  <2>9. ASSUME ~Suits(f, val)
        PROVE  \/ x = Held(f, old)
               \/ /\ val.shape = "list" /\ f.kind = "ints"
                  /\ FittingMean(f, IF f.ptr THEN x[1] ELSE x, val.items)
    BY <2>1, <2>2, <2>4, <2>5, <2>7, <2>9
  <2>10. QED
    BY <1>2, <2>6, <2>8, <2>9
<1>6. QED
  BY <1>3, <1>4, <1>5

(* The JSON values for the fields are what Bodies has.                     *)
LEMMA ValuesAre ==
  ASSUME fields \in Seq(Fields), body \in Documents, NEW i \in 1..Len(fields)
  PROVE  ValueFor(i) \in JSONValues
<1>1. fields[i] \in Fields
  OBVIOUS
<1>2. fields[i].key \in Keys
  BY <1>1 DEF Fields
<1>3. body.values[fields[i].key] \in JSONValues
  BY <1>2 DEF Documents
<1>4. Absent \in JSONValues
  BY DEF JSONValues
<1>5. QED
  BY <1>3, <1>4 DEF ValueFor

(* BindJSON does what it says.                                             *)
LEMMA JSONBinds ==
  ASSUME fields \in Structs, UNCHANGED request, body \in Documents, Holds(v), BindJSON
  PROVE  Holds(v)' /\ JSONAsSent' /\ VerdictIsRight'
<1>1. fields \in Seq(Fields) /\ fields' = fields /\ body' = body
  BY BindingConstants DEF request
<1>2. /\ v' = Decoded
      /\ result' = IF \E i \in 1..Len(fields) : Mistyped(i) THEN "mistyped" ELSE Verdict(Decoded)
      /\ before' = v
  BY DEF BindJSON
<1>3. ASSUME NEW i \in 1..Len(fields)
      PROVE  /\ v'[i] \in Contents(fields[i])
             /\ ~Mistyped(i) => Reads(fields[i], v'[i], v[i], ValueFor(i))
             /\ Mistyped(i) =>
                  \/ v'[i] = Held(fields[i], v[i])
                  \/ /\ ValueFor(i).shape = "list" /\ fields[i].kind = "ints"
                     /\ FittingMean(fields[i], IF fields[i].ptr THEN v'[i][1] ELSE v'[i],
                                    ValueFor(i).items)
  <2>1. PICK f \in Fields : f = fields[i]
    BY <1>1
  <2>2. PICK val \in JSONValues : val = ValueFor(i)
    BY <1>1, ValuesAre
  <2>3. v[i] \in Contents(f)
    BY <2>1 DEF Holds
  <2>4. v'[i] = DecodeField(f, v[i], val)
    BY <1>2, <2>1, <2>2 DEF Decoded
  <2>5. Mistyped(i) <=> ~Suits(f, val)
    BY <2>1, <2>2 DEF Mistyped
  <2>6. QED
    BY <2>1, <2>2, <2>3, <2>4, <2>5, FieldDecoded
<1>4. Holds(v')
  BY <1>2, <1>3 DEF Holds, Decoded
<1>5. Holds(v)'
  BY <1>1, <1>4 DEF Holds
<1>6. ASSUME NEW i PROVE ValueFor(i)' = ValueFor(i) /\ (Mistyped(i)' <=> Mistyped(i))
  BY <1>1 DEF ValueFor, Mistyped
<1>7. (\E i \in 1..Len(fields) : Mistyped(i)) => result' = "mistyped"
  BY <1>2
<1>8. JSONAsSent'
  <2>. SUFFICES ASSUME NEW i \in 1..Len(fields')
                PROVE  \/ Reads(fields[i], v'[i], v[i], ValueFor(i))
                       \/ /\ result' = "mistyped" /\ Mistyped(i)
                          /\ \/ v'[i] = Held(fields[i], v[i])
                             \/ /\ ValueFor(i).shape = "list" /\ fields[i].kind = "ints"
                                /\ FittingMean(fields[i],
                                               IF fields[i].ptr THEN v'[i][1] ELSE v'[i],
                                               ValueFor(i).items)
    BY <1>1, <1>2, <1>6 DEF JSONAsSent
  <2>1. CASE Mistyped(i)
    BY <1>1, <1>3, <1>7, <2>1
  <2>2. CASE ~Mistyped(i)
    BY <1>1, <1>3, <2>2
  <2>3. QED
    BY <2>1, <2>2
<1>9. VerdictIsRight'
  <2>1. result' \in {"ok", "invalid"} => result' = IF Valid(v') THEN "ok" ELSE "invalid"
    BY <1>2 DEF Verdict
  <2>2. QED
    BY <1>1, <1>4, <2>1, ValidMeans DEF VerdictIsRight
<1>10. QED
  BY <1>5, <1>8, <1>9

----------------------------------------------------------------------------
(* BindQuery and BindForm do what they say.                                *)
LEMMA BindsAll ==
  ASSUME fields \in Structs, fields' = fields, Holds(v),
         NEW data \in Data, NEW tag \in {"query", "form"}, Binds(data, tag), Sent' = data
  PROVE  /\ Holds(v)' /\ PairsAsSent' /\ FailureStopsThere' /\ VerdictIsRight'
         /\ by' = tag /\ result' # "malformed"
<1>1. PICK bound : bound = BindData(data, tag)
  OBVIOUS
<1>2. /\ v' = bound.v
      /\ result' = IF ~bound.ok THEN "parse" ELSE IF Valid(bound.v) THEN "ok" ELSE "invalid"
      /\ before' = v
      /\ by' = tag
  BY <1>1, Zenon DEF Binds, Verdict
<1>3. fields \in Seq(Fields)
  BY BindingConstants
<1>4. Progress(bound, Len(fields), data, tag)
  BY <1>1, <1>3, LoopDone
<1>5. Holds(v')
  BY <1>2, <1>4 DEF Progress
<1>6. Holds(v)'
  BY <1>5 DEF Holds
<1>7. /\ bound.ok => \A i \in 1..Len(fields) : Settled(v', i, data, tag)
      /\ ~bound.ok => \E k \in 1..Len(fields) : StoppedAt(v', k, data, tag)
  BY <1>2, <1>4 DEF Progress
<1>8. \A i : Given(i)' <=> Takes(i, data, tag)
  BY <1>2 DEF Given, Takes
<1>9. result' # "malformed"
  BY <1>2
<1>10. CASE bound.ok
  <2>1. result' = IF Valid(v') THEN "ok" ELSE "invalid"
    BY <1>2, <1>10
  <2>2. PairsAsSent'
    BY <1>2, <1>7, <1>8, <1>10 DEF PairsAsSent, Settled
  <2>3. FailureStopsThere'
    BY <2>1 DEF FailureStopsThere
  <2>4. VerdictIsRight'
    BY <1>5, <2>1, ValidMeans DEF VerdictIsRight
  <2>5. QED
    BY <1>2, <1>6, <1>9, <2>2, <2>3, <2>4
<1>11. CASE ~bound.ok
  <2>1. result' = "parse"
    BY <1>2, <1>11
  <2>2. PICK k \in 1..Len(fields) : StoppedAt(v', k, data, tag)
    BY <1>7, <1>11
  <2>3. FailureStopsThere'
    <3>1. /\ Takes(k, data, tag) /\ ~AllParse(fields[k], data[fields[k].key])
          /\ v'[k] = IF fields[k].ptr THEN Held(fields[k], v[k]) ELSE v[k]
          /\ \A i \in (k + 1)..Len(fields) : v'[i] = v[i]
      BY <2>2 DEF StoppedAt
    <3>2. \A i \in 1..(k - 1) :
            Takes(i, data, tag) => Denotes(fields[i], v'[i], data[fields[i].key])
      BY <2>2 DEF StoppedAt, Settled
    <3>3. QED
      BY <1>2, <1>8, <2>1, <3>1, <3>2 DEF FailureStopsThere
  <2>4. PairsAsSent' /\ VerdictIsRight'
    BY <2>1 DEF PairsAsSent, VerdictIsRight
  <2>5. QED
    BY <1>2, <1>6, <1>9, <2>3, <2>4
<1>12. QED
  BY <1>10, <1>11

----------------------------------------------------------------------------
(* Request.Form is what could be read of the request, and a Bind has       *)
(* reported what could not.                                                *)
FormInv ==
  /\ reader \in {"none", "form", "json"}
  /\ reader = "form" => body.type = "form"
  /\ form = << >> => reader # "form"
  /\ form # << >> => form = << IF reader = "form" THEN BodyFirst ELSE query.pairs >>
  /\ form # << >> /\ body.type = "form" => reader # "none"
  /\ reader = "json" /\ body.type = "form" => reported
  /\ form # << >> /\ query.bad => reported
  /\ reader = "form" /\ body.bad => reported

(* What every state of a handler that binds satisfies.                     *)
Properties ==
  /\ PairsAsSent /\ FailureStopsThere /\ PartialFormWasReported
  /\ JSONAsSent /\ VerdictIsRight
BindingInv ==
  /\ fields \in Structs
  /\ query \in [pairs : Data, bad : BOOLEAN] /\ body \in Forms \cup Documents
  /\ FormInv
  /\ Holds(v)
  /\ Properties

(* The invariant holds of a fresh struct, and each Bind keeps it.          *)
LEMMA InitBinding ==
  BindingInit => BindingInv
<1>. SUFFICES ASSUME BindingInit PROVE BindingInv
  OBVIOUS
<1>1. /\ fields \in Structs
      /\ query \in [pairs : Data, bad : BOOLEAN] /\ body \in Forms \cup Documents
  BY BindingConstants DEF BindingInit
<1>2. fields \in Seq(Fields)
  BY <1>1, BindingConstants
<1>3. Holds(v)
  <2>1. v = [i \in 1..Len(fields) |-> IF fields[i].ptr THEN << >> ELSE Zero(fields[i])]
    BY DEF BindingInit, Fresh
  <2>2. ASSUME NEW i \in 1..Len(fields) PROVE v[i] \in Contents(fields[i])
    <3>1. fields[i] \in Fields
      BY <1>2
    <3>2. v[i] = IF fields[i].ptr THEN << >> ELSE Zero(fields[i])
      BY <2>1
    <3>3. QED
      BY <3>1, <3>2, ZeroIs DEF Contents
  <2>3. QED
    BY <2>1, <2>2 DEF Holds
<1>4. Properties
  BY DEF BindingInit, Properties, PairsAsSent, FailureStopsThere, PartialFormWasReported,
     JSONAsSent, VerdictIsRight
<1>5. FormInv
  BY DEF BindingInit, FormInv
<1>6. QED
  BY <1>1, <1>3, <1>4, <1>5 DEF BindingInv

(* What a form or a query has is data.                                     *)
LEMMA PairsAreData ==
  ASSUME query \in [pairs : Data, bad : BOOLEAN], body \in Forms \cup Documents
  PROVE  query.pairs \in Data /\ (body.type = "form" => BodyFirst \in Data)
<1>1. query.pairs \in Data
  OBVIOUS
<1>2. body.type = "form" => body.pairs \in Data
  BY DEF Forms, Documents
<1>3. QED
  BY <1>1, <1>2 DEF BodyFirst, Data

(* A Bind that cannot read the request.                                    *)
LEMMA MalformedKeeps ==
  ASSUME BindingInv, UNCHANGED request, NEW tag, Malformed(tag), FormInv'
  PROVE  BindingInv'
<1>1. /\ result' = "malformed" /\ reported' = TRUE /\ before' = v /\ v' = v
      /\ fields' = fields /\ query' = query /\ body' = body
  BY DEF Malformed, request
<1>2. Properties'
  BY <1>1 DEF Properties, PairsAsSent, FailureStopsThere, PartialFormWasReported, JSONAsSent,
     VerdictIsRight
<1>3. QED
  BY <1>1, <1>2 DEF BindingInv, Holds

LEMMA BindQueryKeeps ==
  ASSUME BindingInv, BindQuery
  PROVE  BindingInv'
<1>1. /\ fields' = fields /\ query' = query /\ body' = body
      /\ UNCHANGED <<reader, form, reported>> /\ Binds(query.pairs, "query")
  BY DEF BindQuery, Calling, request
<1>2. query.pairs \in Data
  BY PairsAreData DEF BindingInv
<1>3. by' = "query"
  BY <1>1 DEF Binds
<1>4. Sent' = query.pairs
  BY <1>1, <1>3 DEF Sent
<1>5. /\ Holds(v)' /\ PairsAsSent' /\ FailureStopsThere' /\ VerdictIsRight'
  BY <1>1, <1>2, <1>4, BindsAll DEF BindingInv
<1>6. PartialFormWasReported' /\ JSONAsSent'
  BY <1>3 DEF PartialFormWasReported, JSONAsSent
<1>7. FormInv'
  BY <1>1 DEF BindingInv, FormInv, BodyFirst
<1>8. QED
  BY <1>1, <1>5, <1>6, <1>7 DEF BindingInv, Properties

(* ParseForm, with an error that is reported or without one.               *)
LEMMA FormParsed ==
  ASSUME BindingInv, UNCHANGED request, ParseForm, reported => reported',
         FormFault => reported'
  PROVE  /\ FormInv' /\ form' # << >>
         /\ form'[1] = (IF reader' = "form" THEN BodyFirst ELSE query.pairs)
<1>1. query' = query /\ body' = body /\ FormInv /\ form = << >>
  BY DEF BindingInv, ParseForm, request
<1>2. BodyFirst' = BodyFirst
  BY <1>1 DEF BodyFirst
<1>3. CASE FormUnread /\ form' = <<BodyFirst>> /\ reader' = "form"
  <2>1. body.type = "form" /\ (query.bad \/ body.bad => reported')
    BY <1>3 DEF FormUnread, FormFault
  <2>2. form' # << >> /\ form'[1] = BodyFirst
    BY <1>3
  <2>3. QED
    BY <1>1, <1>2, <1>3, <2>1, <2>2 DEF FormInv
<1>4. CASE ~FormUnread /\ form' = <<query.pairs>> /\ reader' = reader
  <2>1. query.bad => reported'
    BY DEF FormFault
  <2>2. form' # << >> /\ form'[1] = query.pairs
    BY <1>4
  <2>3. reader # "form" /\ (body.type = "form" => reader # "none")
    BY <1>1, <1>4 DEF FormInv, FormUnread
  <2>4. QED
    BY <1>1, <1>2, <1>4, <2>1, <2>2, <2>3 DEF FormInv
<1>5. QED
  BY <1>3, <1>4 DEF ParseForm

LEMMA BindFormKeeps ==
  ASSUME BindingInv, BindForm
  PROVE  BindingInv'
<1>1. /\ fields' = fields /\ query' = query /\ body' = body /\ reported' = reported
      /\ UNCHANGED request /\ Binds(form'[1], "form")
  BY DEF BindForm, Calling, request
<1>2. /\ FormInv' /\ form' # << >>
      /\ form'[1] = (IF reader' = "form" THEN BodyFirst ELSE query.pairs)
  <2>1. CASE ParseForm /\ ~FormFault
    BY <1>1, <2>1, FormParsed
  <2>2. CASE form # << >> /\ UNCHANGED <<form, reader>>
    <3>1. FormInv'
      BY <1>1, <2>2 DEF BindingInv, FormInv, BodyFirst
    <3>2. form = << IF reader = "form" THEN BodyFirst ELSE query.pairs >>
      BY <2>2 DEF BindingInv, FormInv
    <3>3. QED
      BY <2>2, <3>1, <3>2
  <2>3. QED
    BY <2>1, <2>2 DEF BindForm
<1>3. PICK data : data = form'[1]
  OBVIOUS
<1>4. reader' = "form" => body.type = "form"
  BY <1>1, <1>2 DEF FormInv
<1>5. data \in Data
  BY <1>2, <1>3, <1>4, PairsAreData DEF BindingInv
<1>6. Binds(data, "form") /\ by' = "form"
  BY <1>1, <1>3 DEF Binds
<1>7. Sent' = data
  BY <1>1, <1>2, <1>3, <1>6 DEF Sent, BodyFirst
<1>8. Holds(v)' /\ PairsAsSent' /\ FailureStopsThere' /\ VerdictIsRight'
  BY <1>1, <1>5, <1>6, <1>7, BindsAll DEF BindingInv
<1>9. PartialFormWasReported'
  <2>1. SUFFICES ASSUME PartOnly' PROVE reported'
    BY DEF PartialFormWasReported
  <2>2. CASE query'.bad
    BY <1>2, <2>2 DEF FormInv
  <2>3. CASE body'.type = "form" /\ (body'.bad \/ reader' = "json")
    BY <1>2, <2>3 DEF FormInv
  <2>4. QED
    BY <2>1, <2>2, <2>3 DEF PartOnly
<1>10. JSONAsSent'
  BY <1>6 DEF JSONAsSent
<1>11. QED
  BY <1>1, <1>2, <1>8, <1>9, <1>10 DEF BindingInv, Properties

LEMMA BindFormFailsKeeps ==
  ASSUME BindingInv, BindFormFails
  PROVE  BindingInv'
<1>1. UNCHANGED request /\ ParseForm /\ Malformed("form") /\ reported'
  BY DEF BindFormFails, Calling, Malformed
<1>2. FormInv'
  BY <1>1, FormParsed
<1>3. QED
  BY <1>1, <1>2, MalformedKeeps

LEMMA BindJSONKeeps ==
  ASSUME BindingInv, BindJSON
  PROVE  BindingInv'
<1>1. /\ UNCHANGED request /\ fields' = fields /\ query' = query /\ body' = body
      /\ body.type = "json" /\ reader = "none" /\ reader' = "json"
      /\ form' = form /\ reported' = reported /\ by' = "json" /\ result' # "malformed"
  <2>1. result' # "malformed"
    BY DEF BindJSON, Verdict
  <2>2. QED
    BY <2>1 DEF BindJSON, Calling, request, JSONUnread, Drain
<1>2. body \in Documents
  BY <1>1 DEF BindingInv, Forms
<1>3. Holds(v)' /\ JSONAsSent' /\ VerdictIsRight'
  BY <1>1, <1>2, JSONBinds DEF BindingInv
<1>4. PairsAsSent' /\ PartialFormWasReported'
  BY <1>1 DEF PairsAsSent, PartialFormWasReported
<1>5. FailureStopsThere'
  <2>1. result' # "parse"
    BY DEF BindJSON, Verdict
  <2>2. QED
    BY <1>1, <2>1 DEF FailureStopsThere
<1>6. FormInv'
  BY <1>1 DEF BindingInv, FormInv, BodyFirst
<1>7. QED
  BY <1>1, <1>3, <1>4, <1>5, <1>6 DEF BindingInv, Properties

LEMMA BindJSONFailsKeeps ==
  ASSUME BindingInv, BindJSONFails
  PROVE  BindingInv'
<1>1. /\ UNCHANGED request /\ query' = query /\ body' = body /\ form' = form
      /\ Malformed("json") /\ reported' = TRUE
      /\ reader' = IF reader = "none" THEN "json" ELSE reader
  BY DEF BindJSONFails, Calling, request, Malformed, Drain
<1>2. FormInv'
  BY <1>1 DEF BindingInv, FormInv, BodyFirst
<1>3. QED
  BY <1>1, <1>2, MalformedKeeps

LEMMA NextBinding ==
  BindingInv /\ [BindingNext]_bindingVars => BindingInv'
<1>. SUFFICES ASSUME BindingInv, [BindingNext]_bindingVars PROVE BindingInv'
  OBVIOUS
<1>1. CASE UNCHANGED bindingVars
  <2>1. FormInv' /\ Holds(v)'
    BY <1>1 DEF bindingVars, BindingInv, FormInv, BodyFirst, Holds
  <2>2. PairsAsSent' /\ FailureStopsThere'
    <3>1. Sent' = Sent
      BY <1>1 DEF bindingVars, Sent, BodyFirst
    <3>2. PairsAsSent'
      BY <1>1, <3>1 DEF bindingVars, BindingInv, Properties, PairsAsSent, Given
    <3>3. FailureStopsThere'
      BY <1>1, <3>1 DEF bindingVars, BindingInv, Properties, FailureStopsThere, Given
    <3>4. QED
      BY <3>2, <3>3
  <2>3. PartialFormWasReported' /\ VerdictIsRight'
    BY <1>1 DEF bindingVars, BindingInv, Properties, PartialFormWasReported, PartOnly,
       VerdictIsRight
  <2>4. JSONAsSent'
    BY <1>1 DEF bindingVars, BindingInv, Properties, JSONAsSent, Mistyped, ValueFor
  <2>5. QED
    BY <1>1, <2>1, <2>2, <2>3, <2>4 DEF bindingVars, BindingInv, Properties
<1>2. QED
  BY <1>1, BindQueryKeeps, BindFormKeeps, BindFormFailsKeeps, BindJSONKeeps, BindJSONFailsKeeps
  DEF BindingNext

LEMMA AlwaysBinding ==
  BindingSpec => []BindingInv
<1>1. QED
  BY InitBinding, NextBinding, PTL DEF BindingSpec

(* A BindQuery or BindForm that reports no error before it validates has   *)
(* put what the well-formed pairs of the request say into the fields they  *)
(* name and left the others alone, whatever the struct, the widths of its  *)
(* fields and the strings (context.go, bindData and setField up to the end *)
(* of the loop).  A BindJSON has stored what the document says, exactly,   *)
(* and kept the fields that it says nothing of; what is of the wrong type  *)
(* is reported, and only its own field is not as the document has it       *)
(* (context.go:198).                                                       *)
THEOREM BoundIsAsSent ==
  BindingSpec => []BoundAsSent
<1>1. BindingInv => BoundAsSent
  BY DEF BindingInv, Properties, BoundAsSent
<1>2. QED
  BY AlwaysBinding, <1>1, PTL

(* A Bind that cannot read the request changes nothing, and one that       *)
(* reports a parse error has bound the fields before the one at fault and  *)
(* changed none from there on, but for the allocation of its pointer (the  *)
(* early returns of BindForm, BindJSON, bindData and setField).            *)
THEOREM ParseErrorStops ==
  BindingSpec => []FailureStopsThere
<1>1. BindingInv => FailureStopsThere
  BY DEF BindingInv, Properties
<1>2. QED
  BY AlwaysBinding, <1>1, PTL

(* A BindForm that has bound but a part of the form and the query comes    *)
(* after a Bind that has reported it: ParseForm's error, which only the    *)
(* first BindForm gets (context.go:220), or that of a BindJSON that read   *)
(* the form.                                                               *)
THEOREM PartialFormsWereReported ==
  BindingSpec => []PartialFormWasReported
<1>1. BindingInv => PartialFormWasReported
  BY DEF BindingInv, Properties
<1>2. QED
  BY AlwaysBinding, <1>1, PTL

(* What validateStruct, isZero, checkMin and checkMax accept satisfies the *)
(* rules of the tags, and what they reject breaks one; rules that ask an   *)
(* unsigned number to be compared with a negative one are excepted.        *)
THEOREM VerdictWasRight ==
  BindingSpec => []VerdictIsRight
<1>1. BindingInv => VerdictIsRight
  BY DEF BindingInv, Properties
<1>2. QED
  BY AlwaysBinding, <1>1, PTL

----------------------------------------------------------------------------
(* StaticFiles *)

(* At some moment of the request there was nothing to serve for the path.  *)
NothingThere == \E t \in views : ~Servable(t, name)

SeenAt(n) == n \in Names /\ \E t \in views : t[n] = opened

WasDirectory == \E t \in views : In(t, name) = "dir"

(* An open directory has its index, or did not have one for a while: what  *)
(* takes a directory away finds it without an index.                       *)
IndexOrNothing ==
  \/ NothingThere
  \/ IndexOf(name) \in Names /\ files[name] = "dir" /\ files[IndexOf(name)] = "file"

ViewsInv ==
  /\ config \in Configs
  /\ files \in Trees
  /\ views \subseteq Trees
  /\ pc \in {"idle", "open", "stat", "index", "indexStat", "spa", "spaStat"}
  /\ pc # "idle" => files \in views /\ answer.status = 0

OpenedInv ==
  /\ pc = "stat" => SeenAt(name) /\ opened \in {"file", "dir", "opaque"}
  /\ pc = "indexStat" => SeenAt(IndexOf(name)) /\ opened \in {"file", "opaque"}
  /\ pc = "spaStat" => SeenAt(<<Index>>) /\ opened \in {"file", "opaque"}
  /\ pc \in {"index", "indexStat"} => name \in Names /\ WasDirectory
  /\ pc = "index" \/ (pc = "stat" /\ opened = "dir") => IndexOrNothing
  /\ pc \in {"spa", "spaStat"} => config.SPA /\ (name = << >> \/ NothingThere)

AnswerInv == NotFoundIsTrue /\ ServedWasThere /\ SPAServesIndex

StaticInv == ViewsInv /\ OpenedInv /\ AnswerInv

(* What the trees of files are.                                            *)
LEMMA TreeIs ==
  ASSUME NEW t \in Trees
  PROVE  /\ t \in [Names -> Kinds \cup {"absent"}]
         /\ \A n \in Names : Len(n) > 1 /\ t[n] # "absent" => t[Front(n)] = "dir"
         /\ \A n \in Names : Last(n) = Index => t[n] # "dir"
BY DEF Trees

(* A sequence with one more element.                                       *)
LEMMA OneMore ==
  ASSUME NEW S, NEW s \in Seq(S), NEW e \in S
  PROVE  /\ Append(s, e) \in Seq(S)
         /\ Len(Append(s, e)) = Len(s) + 1
         /\ Append(s, e)[Len(s) + 1] = e
         /\ SubSeq(Append(s, e), 1, Len(s)) = s
OBVIOUS

(* The index of a directory is in that directory.                          *)
LEMMA IndexIsBelow ==
  ASSUME NEW n \in Names
  PROVE  /\ n # << >> /\ n # NoFile
         /\ Len(IndexOf(n)) > 1 /\ Front(IndexOf(n)) = n /\ Last(IndexOf(n)) = Index
         /\ Append(n, Index) = IndexOf(n)
<1>1. n \in Seq(STRING) /\ n # << >> /\ n # NoFile /\ Index \in STRING
  BY StaticConstants
<1>2. Len(n) \in Nat /\ Len(n) # 0
  BY <1>1
<1>3. /\ Append(n, Index) \in Seq(STRING)
      /\ Len(Append(n, Index)) = Len(n) + 1
      /\ Append(n, Index)[Len(n) + 1] = Index
      /\ SubSeq(Append(n, Index), 1, Len(n)) = n
  BY <1>1, OneMore
<1>4. QED
  BY <1>1, <1>2, <1>3 DEF IndexOf, Front, Last

(* Where there is an index there is its directory, and it is no directory. *)
LEMMA IndexHasDirectory ==
  ASSUME NEW t \in Trees, NEW n \in Names,
         IndexOf(n) \in Names, t[IndexOf(n)] # "absent"
  PROVE  t[n] = "dir" /\ t[IndexOf(n)] # "dir"
BY TreeIs, IndexIsBelow

(* The index of the root is no directory.                                  *)
LEMMA RootIndexIsNoDirectory ==
  ASSUME NEW t \in Trees
  PROVE  <<Index>> \in Names /\ t[<<Index>>] # "dir"
<1>1. <<Index>> \in Names /\ Last(<<Index>>) = Index
  BY StaticConstants DEF Last
<1>2. QED
  BY <1>1, TreeIs

(* What can be served for a name, said of what is at it.                   *)
LEMMA ServableIs ==
  ASSUME NEW t \in Trees, NEW n \in Names
  PROVE  Servable(t, n) <=>
           \/ t[n] \in {"file", "opaque"}
           \/ t[n] = "dir" /\ IndexOf(n) \in Names /\ t[IndexOf(n)] = "file"
<1>1. n # << >> /\ Append(n, Index) = IndexOf(n) /\ IndexOf(n) # << >>
  BY IndexIsBelow
<1>2. QED
  BY <1>1 DEF Servable, In

----------------------------------------------------------------------------
(* What a moment of the request has seen stays seen.                       *)
LEMMA SeenStays ==
  ASSUME views \subseteq views', name' = name
  PROVE  /\ NothingThere => NothingThere'
         /\ opened' = opened => \A n : SeenAt(n) => SeenAt(n)'
<1>1. \A t, n : Servable(t, n)' = Servable(t, n)
  BY DEF Servable, In
<1>2. QED
  BY <1>1 DEF NothingThere, SeenAt

LEMMA IndexOrNothingStays ==
  ASSUME UNCHANGED <<files, name, views>>, IndexOrNothing
  PROVE  IndexOrNothing'
<1>1. NothingThere => NothingThere'
  BY SeenStays
<1>2. QED
  BY <1>1 DEF IndexOrNothing, IndexOf

(* Nothing is claimed of a request that has not been answered.             *)
LEMMA Unanswered ==
  ASSUME pc' # "idle" \/ answer'.status = 0
  PROVE  AnswerInv'
BY DEF AnswerInv, NotFoundIsTrue, ServedWasThere, SPAServesIndex, Answered

----------------------------------------------------------------------------
(* Before any request there is nothing to claim.                           *)
LEMMA StaticInvInit == StaticInit => StaticInv
<1>. SUFFICES ASSUME StaticInit PROVE StaticInv
  OBVIOUS
<1>1. ViewsInv /\ OpenedInv
  BY DEF StaticInit, ViewsInv, OpenedInv
<1>2. AnswerInv
  BY DEF StaticInit, AnswerInv, NotFoundIsTrue, ServedWasThere, SPAServesIndex,
     Answered
<1>3. QED
  BY <1>1, <1>2 DEF StaticInv

(* A request begins with the files as its only view.                       *)
LEMMA RequestStep ==
  ASSUME StaticInv, NEW url, Request(url)
  PROVE  StaticInv'
<1>1. ViewsInv'
  BY DEF StaticInv, ViewsInv, Request, Goto, Answer
<1>2. pc' = "open"
  BY DEF Request, Goto
<1>3. OpenedInv'
  BY <1>2 DEF OpenedInv
<1>4. QED
  BY <1>1, <1>2, <1>3, Unanswered DEF StaticInv

(* Somebody changes the files.                                             *)
LEMMA ChangeStep ==
  ASSUME StaticInv, NEW n \in Names, NEW kind, Change(n, kind)
  PROVE  StaticInv'
<1>1. /\ files' \in Trees /\ files' = [files EXCEPT ![n] = kind]
      /\ views' = views \cup {files'} /\ views' \subseteq Trees /\ pc # "idle"
      /\ UNCHANGED <<config, pc, name, opened, answer, failed>>
  BY DEF Change, StaticInv, ViewsInv
<1>2. ViewsInv'
  BY <1>1 DEF StaticInv, ViewsInv
<1>3. NothingThere => NothingThere'
  BY <1>1, SeenStays
<1>4. \A m : SeenAt(m) => SeenAt(m)'
  BY <1>1, SeenStays
<1>5. ASSUME name \in Names, IndexOrNothing PROVE IndexOrNothing'
  <2>1. CASE NothingThere
    BY <1>3, <2>1 DEF IndexOrNothing
  <2>2. CASE ~NothingThere
    <3>1. IndexOf(name) \in Names /\ files[name] = "dir" /\ files[IndexOf(name)] = "file"
      BY <1>5, <2>2 DEF IndexOrNothing
    <3>2. IndexOf(name)' = IndexOf(name)
      BY <1>1 DEF IndexOf
    <3>3. CASE files'[IndexOf(name)] = "file"
      <4>1. files'[name] = "dir"
        <5>1. files'[IndexOf(name)] # "absent"
          BY <3>3
        <5>2. files' \in Trees
          BY <1>1
        <5>3. QED
          BY <1>5, <3>1, <5>1, <5>2, IndexHasDirectory
      <4>2. QED
        BY <1>1, <3>1, <3>2, <3>3, <4>1 DEF IndexOrNothing
    <3>4. CASE files'[IndexOf(name)] # "file"
      <4>1. n = IndexOf(name) /\ name # IndexOf(name)
        <5>1. files \in [Names -> Kinds \cup {"absent"}]
          BY TreeIs DEF StaticInv, ViewsInv
        <5>2. QED
          BY <1>1, <3>1, <3>4, <5>1
      <4>2. files'[name] = "dir"
        <5>1. files \in [Names -> Kinds \cup {"absent"}]
          BY TreeIs DEF StaticInv, ViewsInv
        <5>2. QED
          BY <1>1, <1>5, <3>1, <4>1, <5>1
      <4>3. ~Servable(files', name)
        BY <1>1, <1>5, <3>4, <4>2, ServableIs
      <4>4. NothingThere'
        BY <1>1, <4>3 DEF NothingThere, Servable, In
      <4>5. QED
        BY <4>4 DEF IndexOrNothing
    <3>5. QED
      BY <3>3, <3>4
  <2>3. QED
    BY <2>1, <2>2
<1>6. OpenedInv'
  <2>1. pc = "stat" => name \in Names
    BY DEF StaticInv, OpenedInv, SeenAt
  <2>2. IndexOf(name)' = IndexOf(name)
    BY <1>1 DEF IndexOf
  <2>3. WasDirectory => WasDirectory'
    BY <1>1 DEF WasDirectory, In
  <2>4. QED
    BY <1>1, <1>3, <1>4, <1>5, <2>1, <2>2, <2>3 DEF StaticInv, OpenedInv
<1>7. QED
  BY <1>1, <1>2, <1>6, Unanswered DEF StaticInv

----------------------------------------------------------------------------
Still == UNCHANGED <<config, files, name, views>>

(* What SPAServesIndex asks for.                                           *)
Fit ==
  /\ config.SPA /\ ~failed
  /\ \A t \in views :
       In(t, <<Index>>) = "file" /\ In(t, name) \notin {"denied", "opaque"}
  /\ name # << >> \/ config.Empty = "absent"

LEMMA StillViews ==
  ASSUME StaticInv, Still, pc # "idle",
         pc' \in {"idle", "open", "stat", "index", "indexStat", "spa", "spaStat"},
         pc' # "idle" => answer' = answer
  PROVE  ViewsInv'
BY DEF StaticInv, ViewsInv, Still

LEMMA StillSeen ==
  ASSUME Still
  PROVE  /\ NothingThere => NothingThere'
         /\ IndexOf(name)' = IndexOf(name)
         /\ IndexOrNothing => IndexOrNothing'
         /\ WasDirectory => WasDirectory'
<1>1. NothingThere => NothingThere'
  BY SeenStays DEF Still
<1>2. IndexOf(name)' = IndexOf(name)
  BY DEF IndexOf, Still
<1>3. IndexOrNothing => IndexOrNothing'
  BY IndexOrNothingStays DEF Still
<1>4. WasDirectory => WasDirectory'
  BY DEF WasDirectory, In, Still
<1>5. QED
  BY <1>1, <1>2, <1>3, <1>4

(* A request ends.                                                         *)
LEMMA Finished ==
  ASSUME StaticInv, Still, pc # "idle", pc' = "idle", AnswerInv'
  PROVE  StaticInv'
<1>1. ViewsInv'
  BY StillViews
<1>2. OpenedInv'
  BY DEF OpenedInv
<1>3. QED
  BY <1>1, <1>2 DEF StaticInv

(* ... without a file.                                                     *)
LEMMA WithoutFile ==
  ASSUME StaticInv, Still, pc # "idle", pc' = "idle", NEW status,
         answer' = [status |-> status, name |-> NoFile],
         status \in {403, 404} /\ name # << >> => NothingThere,
         ~Fit' \/ (config.Browse /\ status = 403 /\ WasDirectory)
  PROVE  StaticInv'
<1>1. answer'.name = NoFile /\ answer'.status = status
  OBVIOUS
<1>2. NotFoundIsTrue'
  <2>1. NothingThere => NothingThere'
    BY StillSeen
  <2>2. name' = name
    BY DEF Still
  <2>3. QED
    BY <1>1, <2>1, <2>2 DEF NotFoundIsTrue, NothingThere
<1>3. ServedWasThere'
  BY <1>1 DEF ServedWasThere, NoFile
<1>4. SPAServesIndex'
  <2>1. WasDirectory => WasDirectory'
    BY StillSeen
  <2>2. CASE ~Fit'
    BY <2>2 DEF SPAServesIndex, Fit
  <2>3. CASE config.Browse /\ status = 403 /\ WasDirectory
    <3>1. config'.Browse /\ answer'.status = 403
      BY <1>1, <2>3 DEF Still
    <3>2. QED
      BY <2>1, <2>3, <3>1 DEF SPAServesIndex, WasDirectory
  <2>4. QED
    BY <2>2, <2>3
<1>5. QED
  BY <1>2, <1>3, <1>4, Finished DEF AnswerInv

(* ... with one.                                                           *)
LEMMA WithFile ==
  ASSUME StaticInv, Still, pc # "idle", pc' = "idle",
         NEW n \in Names, answer' = [status |-> 200, name |-> n],
         \E t \in views : t[n] = "file",
         \/ name \in Names /\ n \in {name, IndexOf(name)}
         \/ config.SPA /\ n = <<Index>> /\ (name = << >> \/ NothingThere)
  PROVE  StaticInv'
<1>1. answer'.name = n /\ answer'.status = 200 /\ n # NoFile /\ n # << >>
  BY IndexIsBelow
<1>2. NotFoundIsTrue'
  BY <1>1 DEF NotFoundIsTrue
<1>3. ServedWasThere'
  <2>1. /\ NothingThere => NothingThere'
        /\ IndexOf(name)' = IndexOf(name)
    BY StillSeen
  <2>2. \E t \in views' : In(t, n)' = "file"
    BY <1>1 DEF Still, In
  <2>3. \/ n \in {name, Append(name, Index)}
        \/ config.SPA /\ n = <<Index>> /\ (name = << >> \/ NothingThere')
    BY <2>1, IndexIsBelow
  <2>4. QED
    BY <1>1, <2>2, <2>3 DEF ServedWasThere, NothingThere, Still
<1>4. SPAServesIndex'
  BY <1>1 DEF SPAServesIndex, NoFile
<1>5. QED
  BY <1>2, <1>3, <1>4, Finished DEF AnswerInv

(* serveContent answers with a file that can Seek.                         *)
LEMMA ServeContentStep ==
  ASSUME StaticInv, Still, pc # "idle", pc' = "idle",
         NEW n, SeenAt(n), ServeContent(opened, n), opened \in {"file", "opaque"},
         \/ n = name
         \/ config.SPA /\ n = <<Index>> /\ (name = << >> \/ NothingThere)
  PROVE  StaticInv'
<1>1. n \in Names /\ \E t \in views : t[n] = opened
  BY DEF SeenAt
<1>2. n # << >>
  BY <1>1, IndexIsBelow
<1>3. CASE opened = "file"
  <2>1. answer' = [status |-> 200, name |-> n]
    BY <1>3 DEF ServeContent, Answer
  <2>2. QED
    BY <1>1, <1>3, <2>1, WithFile
<1>4. CASE opened = "opaque"
  <2>1. answer' = [status |-> 500, name |-> NoFile]
    BY <1>4 DEF ServeContent, Answer
  <2>2. PICK t \in views : t[n] = "opaque"
    BY <1>1, <1>4
  <2>3. In(t, n) = "opaque"
    BY <1>1, <1>2, <2>2 DEF In
  <2>4. ~Fit'
    <3>1. t \in views' /\ In(t, n)' = "opaque" /\ name' = name
      BY <2>3 DEF Still, In
    <3>2. QED
      BY <3>1 DEF Fit
  <2>5. QED
    BY <2>1, <2>4, WithoutFile
<1>5. QED
  BY <1>3, <1>4

----------------------------------------------------------------------------
(* What is found at a name.                                                *)
LEMMA AtIs ==
  ASSUME StaticInv, NEW n
  PROVE  /\ Opens(At(n)) => n \in Names /\ At(n) = files[n]
                            /\ At(n) \in {"file", "dir", "opaque"}
         /\ n \in Names => At(n) = files[n]
         /\ n # << >> => In(files, n) = At(n)
<1>1. config.Empty \in {"invalid", "absent"}
  BY DEF StaticInv, ViewsInv, Configs
<1>2. n \in Names => n # << >>
  BY IndexIsBelow
<1>3. QED
  BY <1>1, <1>2 DEF At, Opens, In

(* The steps of a request, one by one.                                     *)
LEMMA OpenStep ==
  ASSUME StaticInv, Open
  PROVE  StaticInv'
<1>1. Still /\ pc = "open" /\ pc' = "stat" /\ answer' = answer /\ opened' = At(name)
  BY DEF Open, Goto, Same, Still
<1>2. ViewsInv'
  BY <1>1, StillViews
<1>3. /\ name \in Names /\ At(name) = files[name]
      /\ At(name) \in {"file", "dir", "opaque"}
  BY AtIs DEF Open
<1>4. files \in views
  BY <1>1 DEF StaticInv, ViewsInv
<1>5. SeenAt(name)'
  BY <1>1, <1>3, <1>4 DEF SeenAt, Still
<1>6. IndexOrNothing' \/ opened' # "dir"
  <2>1. CASE Servable(files, name)
    <3>1. files \in Trees
      BY DEF StaticInv, ViewsInv
    <3>2. files[name] = "dir" => IndexOrNothing
      BY <1>3, <2>1, <3>1, ServableIs DEF IndexOrNothing
    <3>3. QED
      BY <1>1, <1>3, <3>2, StillSeen
  <2>2. CASE ~Servable(files, name)
    <3>1. IndexOrNothing
      BY <1>4, <2>2 DEF IndexOrNothing, NothingThere
    <3>2. QED
      BY <1>1, <3>1, StillSeen
  <2>3. QED
    BY <2>1, <2>2
<1>7. OpenedInv'
  BY <1>1, <1>3, <1>5, <1>6 DEF OpenedInv
<1>8. QED
  BY <1>1, <1>2, <1>7, Unanswered DEF StaticInv

(* The handler goes on to the Index of the root.                           *)
LEMMA ToSPA ==
  ASSUME StaticInv, Still, pc # "idle", pc' = "spa", answer' = answer,
         config.SPA, name = << >> \/ NothingThere
  PROVE  StaticInv'
<1>1. ViewsInv'
  BY StillViews
<1>2. config'.SPA /\ (name' = << >> \/ NothingThere')
  BY StillSeen DEF Still
<1>3. OpenedInv'
  BY <1>2 DEF OpenedInv
<1>4. QED
  BY <1>1, <1>3, Unanswered DEF StaticInv

LEMMA OpenMissingStep ==
  ASSUME StaticInv, OpenMissing
  PROVE  StaticInv'
<1>1. Still /\ pc = "open" /\ At(name) = "absent"
  BY DEF OpenMissing, Missing, Same, Still
<1>2. name = << >> \/ NothingThere
  <2>1. name # << >> => In(files, name) = "absent"
    BY <1>1, AtIs
  <2>2. name # << >> => ~Servable(files, name)
    BY <2>1 DEF Servable
  <2>3. files \in views
    BY <1>1 DEF StaticInv, ViewsInv
  <2>4. QED
    BY <2>2, <2>3 DEF NothingThere
<1>3. CASE config.SPA /\ Goto("spa") /\ UNCHANGED answer
  BY <1>1, <1>2, <1>3, ToSPA DEF Goto
<1>4. CASE ~config.SPA /\ Goto("idle") /\ Answer(404, NoFile)
  <2>1. ~Fit'
    BY <1>1, <1>4 DEF Fit, Still
  <2>2. QED
    BY <1>1, <1>2, <1>4, <2>1, WithoutFile DEF Goto, Answer
<1>5. QED
  BY <1>3, <1>4 DEF OpenMissing

LEMMA OpenFailsStep ==
  ASSUME StaticInv, OpenFails
  PROVE  StaticInv'
<1>1. Still /\ pc = "open" /\ pc' = "idle" /\ answer' = [status |-> 500, name |-> NoFile]
  BY DEF OpenFails, Goto, Answer, Same, Still
<1>2. ~Opens(At(name)) /\ At(name) # "absent"
  BY DEF OpenFails, Missing
<1>3. ~Fit
  <2>1. CASE name = << >>
    BY <1>2, <2>1 DEF At, Fit
  <2>2. CASE name # << >>
    <3>1. name \in Names /\ In(files, name) = files[name] /\ At(name) = files[name]
      BY <1>2, <2>2 DEF At, In
    <3>2. files[name] \in {"file", "dir", "denied", "opaque", "absent"}
      BY <3>1, TreeIs, StaticConstants DEF StaticInv, ViewsInv
    <3>3. files \in views /\ In(files, name) = "denied"
      BY <1>1, <1>2, <3>1, <3>2 DEF StaticInv, ViewsInv, Opens
    <3>4. QED
      BY <3>3 DEF Fit
  <2>3. QED
    BY <2>1, <2>2
<1>4. ~Fit'
  <2>1. failed' = failed
    BY DEF OpenFails, Same
  <2>2. QED
    BY <1>1, <1>3, <2>1 DEF Fit, In, Still
<1>5. QED
  BY <1>1, <1>4, WithoutFile

LEMMA StatStep ==
  ASSUME StaticInv, Stat
  PROVE  StaticInv'
<1>1. Still /\ pc = "stat" /\ opened' = opened
  BY DEF Stat, Same, Still
<1>2. SeenAt(name) /\ opened \in {"file", "dir", "opaque"}
  BY <1>1 DEF StaticInv, OpenedInv
<1>3. CASE opened = "dir" /\ Goto("index") /\ UNCHANGED answer
  <2>1. ViewsInv'
    BY <1>1, <1>3, StillViews DEF Goto
  <2>2. IndexOrNothing'
    <3>1. IndexOrNothing
      BY <1>1, <1>3 DEF StaticInv, OpenedInv
    <3>2. QED
      BY <1>1, <3>1, StillSeen
  <2>3. name' \in Names
    BY <1>1, <1>2 DEF SeenAt, Still
  <2>4. pc' = "index"
    BY <1>3 DEF Goto
  <2>5. WasDirectory'
    <3>1. name # << >>
      BY <1>2, IndexIsBelow DEF SeenAt
    <3>2. WasDirectory
      BY <1>2, <1>3, <3>1 DEF SeenAt, WasDirectory, In
    <3>3. QED
      BY <1>1, <3>2, StillSeen
  <2>6. OpenedInv'
    BY <2>2, <2>3, <2>4, <2>5 DEF OpenedInv
  <2>7. QED
    BY <2>1, <2>4, <2>6, Unanswered DEF StaticInv
<1>4. CASE opened # "dir" /\ Goto("idle") /\ ServeContent(opened, name)
  BY <1>1, <1>2, <1>4, ServeContentStep DEF Goto
<1>5. QED
  BY <1>3, <1>4 DEF Stat

(* A Stat that fails: no file is owed to a request that it happened to.    *)
LEMMA FaultStep ==
  ASSUME StaticInv, Faulted, pc # "idle", Goto("idle"),
         NEW status \in {200, 500}, Answer(status, NoFile)
  PROVE  StaticInv'
<1>1. Still /\ failed'
  BY DEF Faulted, Still
<1>2. ~Fit'
  BY <1>1 DEF Fit
<1>3. QED
  BY <1>1, <1>2, WithoutFile DEF Goto, Answer

LEMMA OpenIndexStep ==
  ASSUME StaticInv, OpenIndex
  PROVE  StaticInv'
<1>1. /\ Still /\ pc = "index" /\ pc' = "indexStat" /\ answer' = answer
      /\ opened' = At(IndexOf(name))
  BY DEF OpenIndex, Goto, Same, Still
<1>2. ViewsInv'
  BY <1>1, StillViews
<1>3. name \in Names /\ WasDirectory
  BY <1>1 DEF StaticInv, OpenedInv
<1>4. /\ IndexOf(name) \in Names /\ opened' = files[IndexOf(name)]
      /\ opened' \in {"file", "dir", "opaque"}
  BY <1>1, AtIs DEF OpenIndex
<1>5. files \in views /\ files \in Trees
  BY <1>1 DEF StaticInv, ViewsInv
<1>6. opened' # "dir"
  <2>1. files[IndexOf(name)] # "absent"
    BY <1>4
  <2>2. QED
    BY <1>3, <1>4, <1>5, <2>1, IndexHasDirectory
<1>7. SeenAt(IndexOf(name))'
  <2>1. IndexOf(name)' = IndexOf(name)
    BY <1>1, StillSeen
  <2>2. QED
    BY <1>1, <1>4, <1>5, <2>1 DEF SeenAt, Still
<1>8. WasDirectory'
  BY <1>1, <1>3, StillSeen
<1>9. OpenedInv'
  BY <1>1, <1>3, <1>4, <1>6, <1>7, <1>8 DEF OpenedInv, Still
<1>10. QED
  BY <1>1, <1>2, <1>9, Unanswered DEF StaticInv

(* A directory without an index had none at some moment.                   *)
LEMMA FallbackStep ==
  ASSUME StaticInv, Still, pc # "idle", Fallback, NothingThere, WasDirectory
  PROVE  StaticInv'
<1>1. CASE config.Browse
  BY <1>1, WithoutFile DEF Fallback, Goto, Answer
<1>2. CASE ~config.Browse /\ config.SPA
  BY <1>2, ToSPA DEF Fallback, Goto
<1>3. CASE ~config.Browse /\ ~config.SPA
  <2>1. ~Fit'
    BY <1>3 DEF Fit, Still
  <2>2. QED
    BY <1>3, <2>1, WithoutFile DEF Fallback, Goto, Answer
<1>4. QED
  BY <1>1, <1>2, <1>3

LEMMA NoIndexStep ==
  ASSUME StaticInv, NoIndex
  PROVE  StaticInv'
<1>1. Still /\ pc = "index" /\ ~Opens(At(IndexOf(name)))
  BY DEF NoIndex, Same, Still
<1>2. IndexOrNothing /\ WasDirectory
  BY <1>1 DEF StaticInv, OpenedInv
<1>3. NothingThere
  <2>1. IndexOf(name) \in Names => At(IndexOf(name)) = files[IndexOf(name)]
    BY AtIs
  <2>2. QED
    BY <1>1, <1>2, <2>1 DEF IndexOrNothing, Opens
<1>4. QED
  BY <1>1, <1>2, <1>3, FallbackStep DEF NoIndex

LEMMA StatIndexStep ==
  ASSUME StaticInv, StatIndex
  PROVE  StaticInv'
<1>1. Still /\ pc = "indexStat"
  BY DEF StatIndex, Same, Still
<1>2. /\ name \in Names /\ WasDirectory /\ IndexOf(name) \in Names
      /\ \E t \in views : t[IndexOf(name)] = opened
      /\ opened \in {"file", "opaque"}
  BY <1>1 DEF StaticInv, OpenedInv, SeenAt
<1>3. CASE opened = "opaque" /\ Fallback
  <2>1. PICK t \in views : t[IndexOf(name)] = "opaque"
    BY <1>2, <1>3
  <2>2. t \in Trees
    BY DEF StaticInv, ViewsInv
  <2>3. t[IndexOf(name)] # "absent"
    BY <2>1
  <2>4. t[name] = "dir"
    BY <1>2, <2>2, <2>3, IndexHasDirectory
  <2>5. ~Servable(t, name)
    BY <1>2, <2>1, <2>2, <2>4, ServableIs
  <2>6. QED
    BY <1>1, <1>2, <1>3, <2>5, FallbackStep DEF NothingThere
<1>4. CASE opened # "opaque" /\ Goto("idle") /\ Answer(200, IndexOf(name))
  BY <1>1, <1>2, <1>4, WithFile DEF Goto, Answer
<1>5. QED
  BY <1>3, <1>4 DEF StatIndex

LEMMA OpenSPAStep ==
  ASSUME StaticInv, OpenSPA
  PROVE  StaticInv'
<1>1. /\ Still /\ pc = "spa" /\ pc' = "spaStat" /\ answer' = answer
      /\ opened' = At(<<Index>>)
  BY DEF OpenSPA, Goto, Same, Still
<1>2. ViewsInv'
  BY <1>1, StillViews
<1>3. files \in views /\ files \in Trees
  BY <1>1 DEF StaticInv, ViewsInv
<1>4. /\ <<Index>> \in Names /\ opened' = files[<<Index>>]
      /\ opened' \in {"file", "dir", "opaque"}
  BY <1>1, AtIs DEF OpenSPA
<1>5. opened' # "dir"
  BY <1>3, <1>4, RootIndexIsNoDirectory
<1>6. SeenAt(<<Index>>)'
  BY <1>1, <1>3, <1>4 DEF SeenAt, Still
<1>7. config'.SPA /\ (name' = << >> \/ NothingThere')
  BY <1>1, StillSeen DEF StaticInv, OpenedInv, Still
<1>8. OpenedInv'
  BY <1>1, <1>4, <1>5, <1>6, <1>7 DEF OpenedInv
<1>9. QED
  BY <1>1, <1>2, <1>8, Unanswered DEF StaticInv

LEMMA NoSPAStep ==
  ASSUME StaticInv, NoSPA
  PROVE  StaticInv'
<1>1. /\ Still /\ pc = "spa" /\ pc' = "idle"
      /\ answer' = [status |-> 500, name |-> NoFile]
      /\ ~Opens(At(<<Index>>))
  BY DEF NoSPA, Goto, Answer, Same, Still
<1>2. files \in views
  BY <1>1 DEF StaticInv, ViewsInv
<1>3. <<Index>> # << >>
  OBVIOUS
<1>4. In(files, <<Index>>) # "file"
  BY <1>1, <1>3, AtIs DEF Opens
<1>5. ~Fit'
  BY <1>1, <1>2, <1>4 DEF Fit, In, Still
<1>6. QED
  BY <1>1, <1>5, WithoutFile

LEMMA StatSPAStep ==
  ASSUME StaticInv, StatSPA
  PROVE  StaticInv'
<1>1. Still /\ pc = "spaStat" /\ pc' = "idle" /\ ServeContent(opened, <<Index>>)
  BY DEF StatSPA, Goto, Same, Still
<1>2. /\ SeenAt(<<Index>>) /\ opened \in {"file", "opaque"}
      /\ config.SPA /\ (name = << >> \/ NothingThere)
  BY <1>1 DEF StaticInv, OpenedInv
<1>3. QED
  BY <1>1, <1>2, ServeContentStep

----------------------------------------------------------------------------
(* Every step keeps the invariant.                                         *)
LEMMA StaticInvNext ==
  ASSUME StaticInv, [StaticNext]_staticVars
  PROVE  StaticInv'
<1>1. ASSUME NEW url, Request(url) PROVE StaticInv'
  BY <1>1, RequestStep
<1>2. ASSUME NEW n \in Names, NEW kind, Change(n, kind) PROVE StaticInv'
  BY <1>2, ChangeStep
<1>3. CASE StatFails
  BY <1>3, FaultStep DEF StatFails
<1>4. CASE StatIndexFails
  BY <1>4, FaultStep DEF StatIndexFails
<1>5. CASE StatSPAFails
  BY <1>5, FaultStep DEF StatSPAFails
<1>6. CASE UNCHANGED staticVars
  <2>1. Still /\ UNCHANGED <<pc, opened, answer, failed>>
    BY <1>6 DEF staticVars, Still
  <2>2. ViewsInv'
    BY <2>1 DEF StaticInv, ViewsInv, Still
  <2>3. OpenedInv'
    BY <2>1 DEF StaticInv, OpenedInv, SeenAt, IndexOrNothing, NothingThere,
       WasDirectory, Servable, In, IndexOf, Still
  <2>4. AnswerInv'
    <3>1. NotFoundIsTrue'
      BY <2>1 DEF StaticInv, AnswerInv, NotFoundIsTrue, Answered, Servable, In,
         Still
    <3>2. ServedWasThere'
      BY <2>1 DEF StaticInv, AnswerInv, ServedWasThere, Answered, Servable, In,
         Still
    <3>3. SPAServesIndex'
      BY <2>1 DEF StaticInv, AnswerInv, SPAServesIndex, Answered, In, Still
    <3>4. QED
      BY <3>1, <3>2, <3>3 DEF AnswerInv
  <2>5. QED
    BY <2>2, <2>3, <2>4 DEF StaticInv
<1>7. QED
  BY <1>1, <1>2, <1>3, <1>4, <1>5, <1>6, OpenStep, OpenMissingStep,
     OpenFailsStep, StatStep, OpenIndexStep, NoIndexStep, StatIndexStep, OpenSPAStep, NoSPAStep,
     StatSPAStep DEF StaticNext

LEMMA StaticInvHolds ==
  StaticSpec => []StaticInv
<1>1. StaticInv /\ [StaticNext]_staticVars => StaticInv'
  BY StaticInvNext
<1>2. QED
  BY <1>1, StaticInvInit, PTL DEF StaticSpec

(* "Not found" and "forbidden" are true: at some moment of the request the *)
(* path had nothing to serve, for any tree of files and any changes to it  *)
(* (static.go:73, static.go:107, static.go:118).                           *)
THEOREM NotFoundWasTrue ==
  StaticSpec => []NotFoundIsTrue
<1>1. StaticInv => NotFoundIsTrue
  BY DEF StaticInv, AnswerInv
<1>2. QED
  BY <1>1, StaticInvHolds, PTL

(* What is served was there during the request, for the path or, in SPA    *)
(* mode, instead of it (static.go:97, static.go:121, static.go:125).       *)
THEOREM ServedFilesWereThere ==
  StaticSpec => []ServedWasThere
<1>1. StaticInv => ServedWasThere
  BY DEF StaticInv, AnswerInv
<1>2. QED
  BY <1>1, StaticInvHolds, PTL

(* In SPA mode a path that can be read whenever it is there is answered    *)
(* with a file as long as the Index is there, or, with Browse, as a        *)
(* directory that is not listed (static.go:75, static.go:108-115).         *)
THEOREM SPAAlwaysServesIndex ==
  StaticSpec => []SPAServesIndex
<1>1. StaticInv => SPAServesIndex
  BY DEF StaticInv, AnswerInv
<1>2. QED
  BY <1>1, StaticInvHolds, PTL

----------------------------------------------------------------------------
(* Server *)

(* What the error in the channel is, and that ListenAndServe can be closed *)
(* by nobody but Run, which then is past its select.                       *)
ErrorInv ==
  /\ serving # "ended" => serverErrors = << >>
  /\ serverErrors \in {<< >>, <<listenErr>>}
  /\ listenErr = "none" <=> serving \in {"setup", "listen", "accept"}
  /\ listenErr = "closed" => closing
  /\ main = "select" => ~closing
  /\ returned = "serverError" => listenErr = "failed"

(* Connections are cut by nothing but the last step of Run, and none is    *)
(* accepted once the server is closing.                                    *)
ConnInv ==
  /\ (returned # "none") <=> (main = "returned")
  /\ main = "shutdown" => closing
  /\ \A r \in Requests : conn[r] = "cut" => returned = "notGraceful"
  /\ returned = "nil" => closing /\ \A r \in Requests : conn[r] \notin {"active", "cut"}

ServerInv == TypeOK /\ ErrorInv /\ ConnInv

(* Run starts with empty channels and no connection.                       *)
LEMMA ServerInvInit == ServerInit => ServerInv
<1> SUFFICES ASSUME ServerInit PROVE ServerInv
  OBVIOUS
<1>1. TypeOK
  <2>1. signals \in 0..MaxSignals
    BY ServerConstants DEF ServerInit
  <2>2. conn \in [Requests -> {"none", "refused", "active", "answered", "cut"}]
    BY DEF ServerInit
  <2> QED
    BY <2>1, <2>2 DEF ServerInit, TypeOK
<1>2. ErrorInv
  BY DEF ServerInit, ErrorInv
<1>3. ConnInv
  BY DEF ServerInit, ConnInv
<1> QED
  BY <1>1, <1>2, <1>3 DEF ServerInv

(* The type invariant, action by action.  That only an error is sent to    *)
(* the channel is what ErrorInv is needed for.                             *)
LEMMA ServerTypeStep == ServerInv /\ [ServerNext]_serverVars => TypeOK'
<1> SUFFICES ASSUME TypeOK, ErrorInv, [ServerNext]_serverVars PROVE TypeOK'
  BY DEF ServerInv
<1> USE DEF TypeOK
<1>1. CASE Setup
  BY <1>1 DEF Setup, runVars
<1>2. CASE Listen
  BY <1>2 DEF Listen, runVars
<1>3. CASE ListenFails
  BY <1>3 DEF ListenFails, runVars
<1>4. CASE ServeEnds
  BY <1>4 DEF ServeEnds, runVars
<1>5. CASE SendError
  <2>1. serverErrors = << >> /\ listenErr # "none"
    BY <1>5 DEF SendError, ErrorInv
  <2>2. serverErrors' = <<listenErr>>
    BY <1>5, <2>1 DEF SendError
  <2>3. listenErr \in {"closed", "failed"}
    BY <2>1
  <2> QED
    BY <1>5, <2>2, <2>3 DEF SendError, runVars
<1>6. CASE Signal
  BY <1>6, ServerConstants DEF Signal, Notified, runVars, listenVars
<1>7. CASE SelectError
  BY <1>7 DEF SelectError, Return, listenVars
<1>8. CASE SelectSignal
  BY <1>8 DEF SelectSignal, listenVars
<1>9. CASE Deadline
  BY <1>9 DEF Deadline, runVars, listenVars
<1>10. CASE ShutdownDone
  BY <1>10 DEF ShutdownDone, Return, Drained, InUse, listenVars
<1>11. CASE ShutdownFails
  BY <1>11 DEF ShutdownFails, Return, Drained, InUse, listenVars
<1>12. CASE AcceptFails
  BY <1>12 DEF AcceptFails, runVars
<1>13. ASSUME NEW r \in Requests, Connect(r) PROVE TypeOK'
  BY <1>13 DEF Connect, runVars, listenVars
<1>14. ASSUME NEW r \in Requests, HandlerReturns(r) PROVE TypeOK'
  BY <1>14 DEF HandlerReturns, InUse, runVars, listenVars
<1>15. CASE UNCHANGED serverVars
  BY <1>15 DEF serverVars
<1> QED
  BY <1>1, <1>2, <1>3, <1>4, <1>5, <1>6, <1>7, <1>8, <1>9, <1>10, <1>11, <1>12,
     <1>13, <1>14, <1>15 DEF ServerNext, Serve, Run

(* What Run takes from the channel is never ErrServerClosed.               *)
LEMMA ErrorStep == ServerInv /\ [ServerNext]_serverVars => ErrorInv'
<1> SUFFICES ASSUME TypeOK, ErrorInv, ConnInv, [ServerNext]_serverVars PROVE ErrorInv'
  BY DEF ServerInv
<1> USE DEF ErrorInv
<1>1. CASE Setup
  BY <1>1 DEF Setup, runVars
<1>2. CASE Listen
  BY <1>2 DEF Listen, runVars
<1>3. CASE ListenFails
  BY <1>3 DEF ListenFails, runVars
<1>4. CASE ServeEnds
  BY <1>4 DEF ServeEnds, runVars
<1>5. CASE SendError
  <2>1. serverErrors' = <<listenErr>>
    BY <1>5 DEF SendError
  <2> QED
    BY <1>5, <2>1 DEF SendError, runVars
<1>6. CASE Signal
  BY <1>6 DEF Signal, Notified, runVars, listenVars
<1>7. CASE SelectError
  <2>1. serverErrors = <<listenErr>> /\ ~closing
    BY <1>7 DEF SelectError
  <2>2. listenErr = "failed"
    <3>1. listenErr # "closed"
      BY <2>1
    <3>2. listenErr # "none"
      BY <1>7, <2>1 DEF SelectError
    <3> QED
      BY <3>1, <3>2 DEF TypeOK
  <2> QED
    BY <1>7, <2>2 DEF SelectError, Return, listenVars
<1>8. CASE SelectSignal
  BY <1>8 DEF SelectSignal, listenVars, ConnInv
<1>9. CASE Deadline
  BY <1>9 DEF Deadline, runVars, listenVars
<1>10. CASE ShutdownDone
  BY <1>10 DEF ShutdownDone, Return, Drained, InUse, listenVars
<1>11. CASE ShutdownFails
  BY <1>11 DEF ShutdownFails, Return, Drained, InUse, listenVars
<1>12. CASE AcceptFails
  BY <1>12 DEF AcceptFails, runVars
<1>13. ASSUME NEW r \in Requests, Connect(r) PROVE ErrorInv'
  BY <1>13 DEF Connect, runVars, listenVars
<1>14. ASSUME NEW r \in Requests, HandlerReturns(r) PROVE ErrorInv'
  BY <1>14 DEF HandlerReturns, InUse, runVars, listenVars
<1>15. CASE UNCHANGED serverVars
  BY <1>15 DEF serverVars
<1> QED
  BY <1>1, <1>2, <1>3, <1>4, <1>5, <1>6, <1>7, <1>8, <1>9, <1>10, <1>11, <1>12,
     <1>13, <1>14, <1>15 DEF ServerNext, Serve, Run

(* No connection is lost or taken on once Run has returned nil.            *)
LEMMA ConnStep == ServerInv /\ [ServerNext]_serverVars => ConnInv'
<1> SUFFICES ASSUME TypeOK, ErrorInv, ConnInv, [ServerNext]_serverVars PROVE ConnInv'
  BY DEF ServerInv
<1> USE DEF ConnInv
<1>1. CASE Setup
  BY <1>1 DEF Setup, runVars
<1>2. CASE Listen
  BY <1>2 DEF Listen, runVars
<1>3. CASE ListenFails
  BY <1>3 DEF ListenFails, runVars
<1>4. CASE ServeEnds
  BY <1>4 DEF ServeEnds, runVars
<1>5. CASE SendError
  BY <1>5 DEF SendError, RoomForError, runVars
<1>6. CASE Signal
  BY <1>6 DEF Signal, Notified, runVars, listenVars
<1>7. CASE SelectError
  BY <1>7 DEF SelectError, Return, listenVars
<1>8. CASE SelectSignal
  BY <1>8 DEF SelectSignal, listenVars
<1>9. CASE Deadline
  BY <1>9 DEF Deadline, runVars, listenVars
<1>10. CASE ShutdownDone
  BY <1>10 DEF ShutdownDone, Return, Drained, InUse, listenVars
<1>11. CASE ShutdownFails
  BY <1>11 DEF ShutdownFails, Return, Drained, InUse, listenVars
<1>12. CASE AcceptFails
  BY <1>12 DEF AcceptFails, runVars
<1>13. ASSUME NEW r \in Requests, Connect(r) PROVE ConnInv'
  BY <1>13 DEF Connect, runVars, listenVars
<1>14. ASSUME NEW r \in Requests, HandlerReturns(r) PROVE ConnInv'
  BY <1>14 DEF HandlerReturns, InUse, runVars, listenVars
<1>15. CASE UNCHANGED serverVars
  BY <1>15 DEF serverVars
<1> QED
  BY <1>1, <1>2, <1>3, <1>4, <1>5, <1>6, <1>7, <1>8, <1>9, <1>10, <1>11, <1>12,
     <1>13, <1>14, <1>15 DEF ServerNext, Serve, Run

(* The three parts of the invariant need each other.                       *)
LEMMA ServerInvNext == ServerInv /\ [ServerNext]_serverVars => ServerInv'
BY ServerTypeStep, ErrorStep, ConnStep DEF ServerInv

LEMMA ServerInvHolds == ServerSpec => []ServerInv
BY ServerInvInit, ServerInvNext, PTL DEF ServerSpec

----------------------------------------------------------------------------
(* Run, its goroutine, the channels and the connections keep their shape,  *)
(* and neither channel ever holds more than its one value.                 *)
THEOREM ServerTypeCorrect == ServerSpec => []TypeOK
<1>1. ServerInv => TypeOK
  BY DEF ServerInv
<1> QED
  BY ServerInvHolds, <1>1, PTL

(* Run returns nil only when every request it accepted has been answered,  *)
(* and none can be accepted afterwards.                                    *)
THEOREM NilMeansGraceful == ServerSpec => []NilIsGraceful
<1>1. ServerInv => NilIsGraceful
  BY DEF ServerInv, ConnInv, NilIsGraceful
<1> QED
  BY ServerInvHolds, <1>1, PTL

(* The error of ListenAndServe that Run reports is never ErrServerClosed,  *)
(* which reaches the channel only after Run has left its select.           *)
THEOREM ClosedIsNoError == ServerSpec => []ShutdownIsNoError
<1>1. ServerInv => ShutdownIsNoError
  BY DEF ServerInv, ErrorInv, ShutdownIsNoError
<1> QED
  BY ServerInvHolds, <1>1, PTL
============================================================================
