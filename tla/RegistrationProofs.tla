------------------------- MODULE RegistrationProofs -------------------------
(***************************************************************************)
(* Registration and lookup, proved: that the trie implements the table of  *)
(* routes for any sequence of calls over any paths, and that Any and Mount *)
(* leave behind what they return.                                          *)
(*                                                                         *)
(* The argument follows the walk.  Way(r, i) is the node that the first i  *)
(* segments of a route lead to.  TrieInv says that every node is on the    *)
(* way of a route or of the Add in progress, that the labels on a route's  *)
(* way are its names and that its end holds it; and that a Find is on the  *)
(* way of a route, by the exact child wherever there is one.  CallsInv     *)
(* says what the calls are made of, LoopInv counts what Any and Mount have *)
(* done.  No step may leave a node that no route needs: a refused Add has  *)
(* met a name it does not know, so it has made none (trie.go:110).         *)
(***************************************************************************)
EXTENDS Registration, FiniteSetTheorems, SequenceTheorems, WellFoundedInduction, TLAPS

----------------------------------------------------------------------------
(* Positions in a list. *)

Less == {ss \in Nat \X Nat : ss[1] < ss[2]}

LEMMA LessIsWellFounded == IsWellFoundedOn(Less, Nat)
BY NatLessThanWellFounded DEF OpToRel, Less

LEMMA Least ==
  ASSUME NEW T \in SUBSET Nat, T # {}
  PROVE  \E x \in T : \A y \in T : x <= y
<1>1. PICK x \in T : \A y \in T : ~(<<y, x>> \in Less)
  BY LessIsWellFounded, WFMin
<1>2. ASSUME NEW y \in T PROVE x <= y
  <2>1. <<y, x>> \notin Less
    BY <1>1
  <2>2. QED
    BY <2>1 DEF Less
<1>3. QED
  BY <1>1, <1>2

UpTo(places, i) == {j \in places : j <= i}

LEMMA PlacesAreFinite ==
  ASSUME NEW n \in Nat, NEW places \in SUBSET (1..n)
  PROVE  /\ IsFiniteSet(places)
         /\ Cardinality(places) \in Nat
<1>1. IsFiniteSet(1..n)
  BY FS_Interval
<1>2. QED
  BY <1>1, FS_Subset, FS_CardinalityType

LEMMA UpToIsFinite ==
  ASSUME NEW n \in Nat, NEW places \in SUBSET (1..n), NEW i
  PROVE  /\ IsFiniteSet(UpTo(places, i))
         /\ Cardinality(UpTo(places, i)) \in Nat
         /\ Cardinality(UpTo(places, i)) <= Cardinality(places)
<1>1. UpTo(places, i) \in SUBSET places /\ UpTo(places, i) \in SUBSET (1..n)
  BY DEF UpTo
<1>2. QED
  BY <1>1, PlacesAreFinite, FS_Subset

(* Different places have different numbers, so Nth finds the place. *)
LEMMA NthIs ==
  ASSUME NEW n \in Nat, NEW places \in SUBSET (1..n), NEW i \in places
  PROVE  /\ Nth(places, Cardinality(UpTo(places, i))) = i
         /\ Cardinality(UpTo(places, i)) \in 1..Cardinality(places)
<1>1. ASSUME NEW j \in places, NEW k \in places, j < k
      PROVE  Cardinality(UpTo(places, j)) # Cardinality(UpTo(places, k))
  <2>1. UpTo(places, j) \in SUBSET UpTo(places, k)
    <3>1. \A l \in places : l \in Nat
      OBVIOUS
    <3>2. \A l \in places : l <= j => l <= k
      BY <1>1, <3>1
    <3>3. QED
      BY <3>2 DEF UpTo
  <2>2. k \in UpTo(places, k) /\ k \notin UpTo(places, j)
    BY <1>1 DEF UpTo
  <2>3. IsFiniteSet(UpTo(places, k))
    BY UpToIsFinite
  <2>4. QED
    BY <2>1, <2>2, <2>3, FS_Subset
<1>2. \A j \in places : Cardinality(UpTo(places, j)) = Cardinality(UpTo(places, i)) => j = i
  <2>1. SUFFICES ASSUME NEW j \in places, j # i
                 PROVE  Cardinality(UpTo(places, j)) # Cardinality(UpTo(places, i))
    OBVIOUS
  <2>2. j < i \/ i < j
    BY <2>1
  <2>3. QED
    BY <1>1, <2>2
<1>3. Nth(places, Cardinality(UpTo(places, i))) = i
  BY <1>2 DEF Nth, UpTo
<1>4. Cardinality(UpTo(places, i)) # 0
  <2>1. i \in UpTo(places, i)
    BY DEF UpTo
  <2>2. QED
    BY <2>1, UpToIsFinite, FS_EmptySet
<1>5. /\ Cardinality(UpTo(places, i)) \in Nat
      /\ Cardinality(UpTo(places, i)) <= Cardinality(places)
  BY UpToIsFinite
<1>6. Cardinality(places) \in Nat
  BY PlacesAreFinite
<1>7. QED
  BY <1>3, <1>4, <1>5, <1>6

(* The places have the numbers from 1 on. *)
LEMMA EveryNumber ==
  \A n \in Nat : \A places \in SUBSET (1..n) : \A k \in 1..Cardinality(places) :
    \E i \in places : Cardinality(UpTo(places, i)) = k
<1>. DEFINE Good(n) == \A places \in SUBSET (1..n) : \A k \in 1..Cardinality(places) :
                         \E i \in places : Cardinality(UpTo(places, i)) = k
            T == {n \in Nat : ~Good(n)}
<1>1. SUFFICES ASSUME T # {} PROVE FALSE
  OBVIOUS
<1>2. T \in SUBSET Nat
  OBVIOUS
<1>. HIDE DEF T
<1>3. PICK n \in T : \A m \in T : n <= m
  BY <1>1, <1>2, Least
<1>4. n \in Nat /\ ~Good(n)
  BY <1>3 DEF T
<1>5. PICK places \in SUBSET (1..n) : \E j \in 1..Cardinality(places) :
        \A i \in places : Cardinality(UpTo(places, i)) # j
  BY <1>4
<1>6. PICK k \in 1..Cardinality(places) :
        \A i \in places : Cardinality(UpTo(places, i)) # k
  BY <1>5
<1>7. n # 0
  <2>1. SUFFICES ASSUME n = 0 PROVE FALSE
    OBVIOUS
  <2>2. places = {}
    BY <2>1
  <2>3. QED
    BY <2>2, <1>6, FS_EmptySet
<1>8. n - 1 \in Nat /\ n - 1 \notin T
  BY <1>3, <1>4, <1>7
<1>9. Good(n - 1)
  BY <1>8 DEF T
<1>. DEFINE below == places \ {n}
<1>10. below \in SUBSET (1..n - 1)
  BY <1>4
<1>11. \A j \in 1..Cardinality(below) : \E i \in below : Cardinality(UpTo(below, i)) = j
  BY <1>9, <1>10
<1>12. \A i \in below : UpTo(below, i) = UpTo(places, i)
  BY <1>4, <1>10 DEF UpTo
<1>13. IsFiniteSet(places) /\ Cardinality(places) \in Nat
  BY <1>4, PlacesAreFinite
<1>14. CASE n \in places
  <2>1. Cardinality(below) = Cardinality(places) - 1
    BY <1>13, <1>14, FS_RemoveElement
  <2>2. UpTo(places, n) = places
    <3>1. \A j \in places : j <= n
      BY <1>4
    <3>2. QED
      BY <3>1 DEF UpTo
  <2>3. k # Cardinality(places)
    BY <2>2, <1>6, <1>14
  <2>4. k \in 1..Cardinality(below)
    BY <2>1, <2>3, <1>6, <1>13
  <2>5. QED
    BY <2>4, <1>11, <1>12, <1>6
<1>15. CASE n \notin places
  <2>1. below = places
    BY <1>15
  <2>2. QED
    BY <2>1, <1>11, <1>12, <1>6
<1>16. QED
  BY <1>14, <1>15

LEMMA NthHas ==
  ASSUME NEW n \in Nat, NEW places \in SUBSET (1..n), NEW k \in 1..Cardinality(places)
  PROVE  /\ Nth(places, k) \in places
         /\ Cardinality(UpTo(places, Nth(places, k))) = k
<1>1. \E i \in places : Cardinality(UpTo(places, i)) = k
  BY EveryNumber
<1>2. QED
  BY <1>1 DEF Nth, UpTo

(* A place beyond the others comes last and moves none of them. *)
LEMMA NthOfOneMore ==
  ASSUME NEW n \in Nat, NEW places \in SUBSET (1..n), NEW m \in Nat, m > n
  PROVE  /\ Cardinality(places \cup {m}) = Cardinality(places) + 1
         /\ Nth(places \cup {m}, Cardinality(places) + 1) = m
         /\ \A k \in 1..Cardinality(places) : Nth(places \cup {m}, k) = Nth(places, k)
<1>. DEFINE more == places \cup {m}
<1>1. more \in SUBSET (1..m) /\ m \notin places /\ m \in more
  OBVIOUS
<1>2. Cardinality(more) = Cardinality(places) + 1
  BY <1>1, PlacesAreFinite, FS_AddElement
<1>3. \A j \in more : j <= m
  OBVIOUS
<1>4. \A i \in places : i \in more /\ UpTo(more, i) = UpTo(places, i)
  <2>1. SUFFICES ASSUME NEW i \in places PROVE i \in more /\ UpTo(more, i) = UpTo(places, i)
    OBVIOUS
  <2>2. ~(m <= i)
    OBVIOUS
  <2>3. QED
    BY <2>2 DEF UpTo
<1>. HIDE DEF more
<1>5. UpTo(more, m) = more
  BY <1>3 DEF UpTo
<1>6. Nth(more, Cardinality(places) + 1) = m
  <2>1. Nth(more, Cardinality(UpTo(more, m))) = m
    BY <1>1, NthIs
  <2>2. QED
    BY <2>1, <1>2, <1>5
<1>7. ASSUME NEW k \in 1..Cardinality(places) PROVE Nth(more, k) = Nth(places, k)
  <2>1. Nth(places, k) \in places /\ Cardinality(UpTo(places, Nth(places, k))) = k
    BY NthHas
  <2>2. UpTo(more, Nth(places, k)) = UpTo(places, Nth(places, k)) /\ Nth(places, k) \in more
    BY <2>1, <1>4
  <2>3. Nth(more, Cardinality(UpTo(more, Nth(places, k)))) = Nth(places, k)
    BY <1>1, <2>2, NthIs
  <2>4. QED
    BY <2>1, <2>2, <2>3
<1>8. QED
  BY <1>2, <1>6, <1>7 DEF more

----------------------------------------------------------------------------
(* Lists, and the walk over the segments of one. *)

LEMMA SeqIsList ==
  ASSUME NEW S, NEW list \in Seq(S)
  PROVE  IsList(list)
<1>. DEFINE R == {list[i] : i \in 1..Len(list)}
<1>1. Len(list) \in Nat /\ list \in [1..Len(list) -> S]
  BY LenProperties
<1>2. list = [i \in 1..Len(list) |-> list[i]]
  BY <1>1
<1>3. list \in [1..Len(list) -> R]
  BY <1>2
<1>. HIDE DEF R
<1>4. list \in Seq(R)
  BY <1>1, <1>3
<1>5. QED
  BY <1>4 DEF IsList, R

LEMMA ListFacts ==
  ASSUME NEW list, IsList(list)
  PROVE  /\ Len(list) \in Nat
         /\ DOMAIN list = 1..Len(list)
         /\ list = [i \in 1..Len(list) |-> list[i]]
         /\ list = << >> <=> Len(list) = 0
<1>. DEFINE R == {list[i] : i \in 1..Len(list)}
<1>1. list \in Seq(R)
  BY DEF IsList
<1>. HIDE DEF R
<1>2. Len(list) \in Nat /\ DOMAIN list = 1..Len(list) /\ list \in [1..Len(list) -> R]
  BY <1>1, LenProperties
<1>3. list = << >> <=> Len(list) = 0
  BY <1>1, EmptySeq
<1>4. QED
  BY <1>2, <1>3

LEMMA FunctionIsList ==
  ASSUME NEW n \in Nat, NEW f, f = [i \in 1..n |-> f[i]]
  PROVE  IsList(f) /\ Len(f) = n
<1>. DEFINE R == {f[i] : i \in 1..n}
<1>1. f \in [1..n -> R]
  OBVIOUS
<1>. HIDE DEF R
<1>2. f \in Seq(R) /\ Len(f) = n
  BY <1>1
<1>3. QED
  BY <1>2, SeqIsList

LEMMA SameLists ==
  ASSUME NEW p, NEW q, IsList(p), IsList(q), Len(p) = Len(q),
         \A i \in 1..Len(p) : p[i] = q[i]
  PROVE  p = q
BY ListFacts

LEMMA AppendIsList ==
  ASSUME NEW list, NEW e, IsList(list)
  PROVE  /\ IsList(Append(list, e))
         /\ Len(Append(list, e)) = Len(list) + 1
         /\ Append(list, e)[Len(list) + 1] = e
         /\ \A i \in 1..Len(list) : Append(list, e)[i] = list[i]
<1>. DEFINE R == {list[i] : i \in 1..Len(list)} \cup {e}
<1>1. list \in Seq(R)
  BY SeqMonotonic DEF IsList
<1>2. e \in R
  OBVIOUS
<1>. HIDE DEF R
<1>3. Append(list, e) \in Seq(R)
  BY <1>1, <1>2
<1>4. IsList(Append(list, e))
  BY <1>3, SeqIsList
<1>5. QED
  BY <1>1, <1>2, <1>4, AppendProperties

LEMMA SegmentsFacts ==
  ASSUME NEW p, IsList(p)
  PROVE  /\ Filled(p) \in SUBSET (1..Len(p))
         /\ IsList(Segments(p))
         /\ Len(Segments(p)) = Cardinality(Filled(p))
         /\ Len(Segments(p)) \in Nat
         /\ \A k \in 1..Len(Segments(p)) : Segments(p)[k] = p[Nth(Filled(p), k)]
<1>1. Filled(p) \in SUBSET (1..Len(p)) /\ Len(p) \in Nat
  BY ListFacts DEF Filled
<1>2. Cardinality(Filled(p)) \in Nat
  BY <1>1, PlacesAreFinite
<1>3. Segments(p) = [k \in 1..Cardinality(Filled(p)) |-> p[Nth(Filled(p), k)]]
  BY DEF Segments, Chosen
<1>4. IsList(Segments(p)) /\ Len(Segments(p)) = Cardinality(Filled(p))
  BY <1>2, <1>3, FunctionIsList
<1>5. QED
  BY <1>1, <1>2, <1>3, <1>4

(* How many of the first c elements of p are segments. *)
Count(p, c) == Cardinality(UpTo(Filled(p), c))

LEMMA CountStep ==
  ASSUME NEW p, IsList(p), NEW c \in 0..Len(p) - 1
  PROVE  Count(p, c + 1) = IF NonEmpty(p[c + 1]) THEN Count(p, c) + 1 ELSE Count(p, c)
<1>1. Len(p) \in Nat /\ Filled(p) \in SUBSET (1..Len(p)) /\ c \in Nat
  BY ListFacts, SegmentsFacts
<1>2. IsFiniteSet(UpTo(Filled(p), c)) /\ Cardinality(UpTo(Filled(p), c)) \in Nat
  BY <1>1, UpToIsFinite
<1>6. c + 1 \notin UpTo(Filled(p), c)
  BY <1>1 DEF UpTo
<1>3. CASE NonEmpty(p[c + 1])
  <2>1. c + 1 \in Filled(p)
    BY <1>1, <1>3 DEF Filled
  <2>2. \A i \in Filled(p) : i <= c + 1 <=> i <= c \/ i = c + 1
    BY <1>1
  <2>3. UpTo(Filled(p), c + 1) = UpTo(Filled(p), c) \cup {c + 1}
    BY <2>1, <2>2 DEF UpTo
  <2>4. QED
    BY <1>2, <1>3, <1>6, <2>3, FS_AddElement DEF Count
<1>4. CASE ~NonEmpty(p[c + 1])
  <2>1. c + 1 \notin Filled(p)
    BY <1>4 DEF Filled
  <2>2. \A i \in Filled(p) : i <= c + 1 <=> i <= c
    BY <1>1, <2>1
  <2>3. UpTo(Filled(p), c + 1) = UpTo(Filled(p), c)
    BY <2>2 DEF UpTo
  <2>4. QED
    BY <1>4, <2>3 DEF Count
<1>5. QED
  BY <1>3, <1>4

LEMMA CountFacts ==
  ASSUME NEW p, IsList(p), NEW c \in 0..Len(p)
  PROVE  /\ Count(p, c) \in 0..Len(Segments(p))
         /\ Count(p, 0) = 0
         /\ Count(p, Len(p)) = Len(Segments(p))
<1>1. Len(p) \in Nat /\ Filled(p) \in SUBSET (1..Len(p)) /\ Len(Segments(p)) = Cardinality(Filled(p))
  BY ListFacts, SegmentsFacts
<1>2. Count(p, c) \in 0..Len(Segments(p))
  <2>1. /\ Cardinality(UpTo(Filled(p), c)) \in Nat
        /\ Cardinality(UpTo(Filled(p), c)) <= Cardinality(Filled(p))
    BY <1>1, UpToIsFinite
  <2>2. QED
    BY <1>1, <2>1, PlacesAreFinite DEF Count
<1>3. \A i \in Filled(p) : ~(i <= 0) /\ i <= Len(p)
  BY <1>1
<1>4. UpTo(Filled(p), 0) = {} /\ UpTo(Filled(p), Len(p)) = Filled(p)
  BY <1>3 DEF UpTo
<1>5. QED
  BY <1>1, <1>2, <1>4, FS_EmptySet DEF Count

LEMMA CountOfSegment ==
  ASSUME NEW p, IsList(p), NEW c \in 1..Len(p), NonEmpty(p[c])
  PROVE  /\ Count(p, c) \in 1..Len(Segments(p))
         /\ Segments(p)[Count(p, c)] = p[c]
         /\ From(p, Count(p, c)) = SubSeq(p, c, Len(p))
<1>1. /\ Len(p) \in Nat /\ Filled(p) \in SUBSET (1..Len(p))
      /\ Len(Segments(p)) = Cardinality(Filled(p)) /\ Len(Segments(p)) \in Nat
  BY ListFacts, SegmentsFacts
<1>2. c \in Filled(p)
  BY DEF Filled
<1>3. Nth(Filled(p), Count(p, c)) = c /\ Count(p, c) \in 1..Cardinality(Filled(p))
  BY <1>1, <1>2, NthIs DEF Count
<1>4. Segments(p)[Count(p, c)] = p[c]
  BY <1>1, <1>3, SegmentsFacts
<1>5. ~(Count(p, c) > Cardinality(Filled(p)))
  BY <1>1, <1>3
<1>6. From(p, Count(p, c)) = SubSeq(p, c, Len(p))
  BY <1>3, <1>5 DEF From
<1>7. QED
  BY <1>1, <1>3, <1>4, <1>6

(* What a walk over p has left, and how many segments it has behind it. *)
Ahead(r, p) ==
  /\ Len(r) \in 0..Len(p)
  /\ r = SubSeq(p, Len(p) - Len(r) + 1, Len(p))
Behind(r, p) == Count(p, Len(p) - Len(r))

LEMMA WalkStarts ==
  ASSUME NEW p, IsList(p)
  PROVE  Ahead(p, p) /\ Behind(p, p) = 0
<1>. DEFINE R == {p[i] : i \in 1..Len(p)}
<1>1. p \in Seq(R) /\ Len(p) \in Nat
  BY ListFacts DEF IsList
<1>. HIDE DEF R
<1>2. SubSeq(p, 1, Len(p)) = p
  BY <1>1, SubSeqFull
<1>3. Len(p) - Len(p) + 1 = 1 /\ Len(p) - Len(p) = 0
  BY <1>1
<1>4. QED
  BY <1>1, <1>2, <1>3, CountFacts DEF Ahead, Behind

LEMMA WalkEnds ==
  ASSUME NEW p, IsList(p), Ahead(<< >>, p)
  PROVE  Behind(<< >>, p) = Len(Segments(p))
<1>1. Len(p) \in Nat /\ Len(p) - Len(<< >>) = Len(p)
  BY ListFacts
<1>2. QED
  BY <1>1, CountFacts DEF Behind

LEMMA WalkFacts ==
  ASSUME NEW p, NEW r, IsList(p), Ahead(r, p)
  PROVE  /\ Behind(r, p) \in 0..Len(Segments(p))
         /\ Behind(r, p) \in Nat
         /\ IsList(r)
<1>1. Len(p) - Len(r) \in 0..Len(p) /\ Len(p) \in Nat
  BY ListFacts DEF Ahead
<1>2. Behind(r, p) \in 0..Len(Segments(p)) /\ Len(Segments(p)) \in Nat
  BY <1>1, CountFacts, SegmentsFacts DEF Behind
<1>. DEFINE R == {p[i] : i \in 1..Len(p)}
<1>3. \A i \in Len(p) - Len(r) + 1..Len(p) : p[i] \in R
  BY <1>1
<1>. HIDE DEF R
<1>4. SubSeq(p, Len(p) - Len(r) + 1, Len(p)) \in Seq(R)
  BY <1>1, <1>3, SubSeqProperties
<1>5. IsList(r)
  BY <1>4, SeqIsList DEF Ahead
<1>6. QED
  BY <1>2, <1>5

LEMMA WalkSteps ==
  ASSUME NEW p, NEW r, IsList(p), Ahead(r, p), r # << >>
  PROVE  /\ Ahead(Tail(r), p)
         /\ ~NonEmpty(Head(r)) => Behind(Tail(r), p) = Behind(r, p)
         /\ NonEmpty(Head(r)) =>
              /\ Behind(Tail(r), p) = Behind(r, p) + 1
              /\ Behind(r, p) + 1 \in 1..Len(Segments(p))
              /\ Segments(p)[Behind(r, p) + 1] = Head(r)
              /\ From(p, Behind(r, p) + 1) = r
<1>. DEFINE R == {p[i] : i \in 1..Len(p)}
            c == Len(p) - Len(r)
<1>1. p \in Seq(R) /\ Len(p) \in Nat
  BY ListFacts DEF IsList
<1>. HIDE DEF R
<1>2. Len(r) # 0
  BY WalkFacts, ListFacts
<1>3. /\ c \in 0..Len(p) - 1 /\ c + 1 \in 1..Len(p) /\ r = SubSeq(p, c + 1, Len(p))
      /\ Len(r) \in Nat /\ c \in Nat
  BY <1>1, <1>2 DEF Ahead
<1>. HIDE DEF c
<1>4. Head(r) = p[c + 1] /\ Tail(r) = SubSeq(p, c + 2, Len(p))
  <2>1. c + 1 \in 1..Len(p) /\ Len(p) \in c + 1..Len(p) /\ c + 1 + 1 = c + 2
    BY <1>1, <1>3
  <2>2. Head(SubSeq(p, c + 1, Len(p))) = p[c + 1] /\ Tail(SubSeq(p, c + 1, Len(p))) = SubSeq(p, c + 1 + 1, Len(p))
    BY <1>1, <2>1, HeadTailOfSubSeq
  <2>3. QED
    BY <2>1, <2>2, <1>3
<1>5. Len(Tail(r)) = Len(p) - (c + 1)
  <2>1. \A i \in c + 2..Len(p) : p[i] \in R
    BY <1>1, <1>3, ElementOfSeq
  <2>2. Len(SubSeq(p, c + 2, Len(p))) = IF c + 2 <= Len(p) THEN Len(p) - (c + 2) + 1 ELSE 0
    BY <1>1, <1>3, <2>1, SubSeqProperties
  <2>3. QED
    BY <2>2, <1>1, <1>3, <1>4
<1>6. Len(p) - Len(Tail(r)) = c + 1
  BY <1>1, <1>3, <1>5
<1>7. Ahead(Tail(r), p)
  BY <1>1, <1>3, <1>4, <1>5, <1>6 DEF Ahead
<1>8. Behind(Tail(r), p) = Count(p, c + 1) /\ Behind(r, p) = Count(p, c)
  BY <1>6 DEF Behind, c
<1>9. Count(p, c + 1) = IF NonEmpty(Head(r)) THEN Count(p, c) + 1 ELSE Count(p, c)
  BY <1>3, <1>4, CountStep
<1>10. NonEmpty(Head(r)) =>
         /\ Count(p, c + 1) \in 1..Len(Segments(p))
         /\ Segments(p)[Count(p, c + 1)] = Head(r)
         /\ From(p, Count(p, c + 1)) = r
  BY <1>3, <1>4, CountOfSegment
<1>11. QED
  BY <1>7, <1>8, <1>9, <1>10

----------------------------------------------------------------------------
(* The nodes of a trie. *)

(* The node that the first k segments of p lead to. *)
NodeAt(m, p, k) ==
  [i \in 1..k + 1 |-> IF i = 1 THEN <<"method", m>> ELSE Edge(p[i - 1])]

LEMMA NodeIsList ==
  ASSUME NEW m, NEW p, NEW k \in Nat
  PROVE  IsList(NodeAt(m, p, k)) /\ Len(NodeAt(m, p, k)) = k + 1
<1>1. NodeAt(m, p, k) = [i \in 1..k + 1 |-> NodeAt(m, p, k)[i]] /\ k + 1 \in Nat
  BY DEF NodeAt
<1>2. QED
  BY <1>1, FunctionIsList

LEMMA NodeSteps ==
  ASSUME NEW m, NEW p, NEW k \in Nat
  PROVE  Append(NodeAt(m, p, k), Edge(p[k + 1])) = NodeAt(m, p, k + 1)
<1>. DEFINE n == NodeAt(m, p, k)
            s == Append(n, Edge(p[k + 1]))
            t == NodeAt(m, p, k + 1)
<1>1. IsList(n) /\ Len(n) = k + 1 /\ IsList(t) /\ Len(t) = k + 2
  BY NodeIsList
<1>2. /\ IsList(s) /\ Len(s) = k + 2 /\ s[k + 2] = Edge(p[k + 1])
      /\ \A i \in 1..k + 1 : s[i] = n[i]
  BY <1>1, AppendIsList
<1>3. \A i \in 1..k + 1 : n[i] = t[i]
  BY DEF NodeAt
<1>4. t[k + 2] = Edge(p[k + 1])
  BY DEF NodeAt
<1>. HIDE DEF n, s, t
<1>5. \A i \in 1..k + 2 : s[i] = t[i]
  BY <1>2, <1>3, <1>4
<1>6. s = t
  BY <1>1, <1>2, <1>5, SameLists
<1>7. QED
  BY <1>6 DEF s, t, n

LEMMA SameNode ==
  ASSUME NEW m, NEW p, NEW k \in Nat, NEW l, NEW q, NEW j \in Nat
  PROVE  NodeAt(m, p, k) = NodeAt(l, q, j) <=>
           k = j /\ m = l /\ \A i \in 1..k : Edge(p[i]) = Edge(q[i])
<1>1. ASSUME NodeAt(m, p, k) = NodeAt(l, q, j)
      PROVE  k = j /\ m = l /\ \A i \in 1..k : Edge(p[i]) = Edge(q[i])
  <2>1. k = j
    BY <1>1, NodeIsList
  <2>2. <<"method", m>> = <<"method", l>>
    <3>1. NodeAt(m, p, k)[1] = <<"method", m>> /\ NodeAt(l, q, j)[1] = <<"method", l>>
      BY DEF NodeAt
    <3>2. QED
      BY <1>1, <3>1
  <2>3. ASSUME NEW i \in 1..k PROVE Edge(p[i]) = Edge(q[i])
    <3>1. NodeAt(m, p, k)[i + 1] = Edge(p[i]) /\ NodeAt(l, q, k)[i + 1] = Edge(q[i])
      BY DEF NodeAt
    <3>2. QED
      BY <1>1, <2>1, <3>1
  <2>4. QED
    BY <2>1, <2>2, <2>3
<1>2. ASSUME k = j, m = l, \A i \in 1..k : Edge(p[i]) = Edge(q[i])
      PROVE  NodeAt(m, p, k) = NodeAt(l, q, j)
  <2>1. \A i \in 1..k + 1 : i # 1 => Edge(p[i - 1]) = Edge(q[i - 1])
    <3>1. \A i \in 1..k + 1 : i # 1 => i - 1 \in 1..k
      OBVIOUS
    <3>2. QED
      BY <3>1, <1>2
  <2>2. QED
    BY <1>2, <2>1 DEF NodeAt
<1>3. QED
  BY <1>1, <1>2

LEMMA RootIsNode ==
  ASSUME NEW m, NEW p
  PROVE  Router!Root(m) = NodeAt(m, p, 0)
<1>1. 1..0 + 1 = 1..1
  OBVIOUS
<1>2. NodeAt(m, p, 0) = [i \in 1..1 |-> <<"method", m>>]
  BY <1>1 DEF NodeAt
<1>3. QED
  BY <1>2 DEF Router!Root

(* The children are the edges of the segments that are added or followed. *)
LEMMA Children ==
  ASSUME NEW n, NEW s
  PROVE  /\ s.form = "plain" => Router!Static(n, s.text) = Append(n, Edge(s)) /\ Name(s) = ""
         /\ s.form \in {"colon", "brace"} =>
              Router!Param(n) = Append(n, Edge(s)) /\ Name(s) = s.text
         /\ s.form = "star" => Router!CatchAll(n) = Append(n, Edge(s)) /\ Name(s) = s.text
BY DEF Router!Static, Router!Param, Router!CatchAll, Router!Child, Edge, Name, Kind

LEMMA ChildOf ==
  ASSUME NEW n, NEW s
  PROVE  /\ Kind(s) = "static" => Append(n, Edge(s)) = Router!Static(n, s.text)
         /\ Kind(s) = "param" => Append(n, Edge(s)) = Router!Param(n)
         /\ Kind(s) = "catchAll" => Append(n, Edge(s)) = Router!CatchAll(n)
         /\ Kind(s) \in {"static", "param", "catchAll"}
BY DEF Router!Static, Router!Param, Router!CatchAll, Router!Child, Edge, Kind

LEMMA EdgeTells ==
  ASSUME NEW s, NEW t, Edge(s) = Edge(t)
  PROVE  Kind(s) = Kind(t) /\ Rank(s) = Rank(t) /\ (Kind(s) = "static" => s.text = t.text)
BY DEF Edge, Rank

----------------------------------------------------------------------------
(* The invariant of the router. *)

Pattern(r) == Segments(r.path)
Way(r, k) == NodeAt(r.method, Pattern(r), k)

IsRoute(r) ==
  /\ r = [method |-> r.method, path |-> r.path, handler |-> r.handler,
          middlewares |-> r.middlewares]
  /\ IsList(r.path)
  /\ r.handler \in Nat \ {0}

Labelled == DOMAIN label = nodes /\ DOMAIN route = nodes

(* A route sits where its path leads. *)
RoutesSit ==
  \A n \in nodes : route[n] # NoRoute =>
    IsRoute(route[n]) /\ n = Way(route[n], Len(Pattern(route[n])))

(* The way to it is there, with its names. *)
WaysStand ==
  \A r \in table : \A k \in 0..Len(Pattern(r)) :
    /\ Way(r, k) \in nodes
    /\ k # 0 => label[Way(r, k)] = Name(Pattern(r)[k])

OnAWay(n) == \E r \in table : \E k \in 0..Len(Pattern(r)) : n = Way(r, k)

(* What the Add in progress has made or gone through. *)
Gone == Behind(rest, call.path)
Going(k) == NodeAt(call.method, Segments(call.path), k)

(* There are no other nodes. *)
NoOtherNodes ==
  \A n \in nodes : ~OnAWay(n) => Router!Asked("add") /\ \E k \in 0..Gone : n = Going(k)

AddOnItsWay ==
  Router!Asked("add") =>
    /\ IsList(call.path) /\ call.handler \in Nat \ {0}
    /\ Ahead(rest, call.path)
    /\ at = Going(Gone)
    /\ \A k \in 0..Gone : Going(k) \in nodes /\ (k # 0 => label[Going(k)] = Name(Segments(call.path)[k]))

(* The walk of a Find keeps to the way of a route, by the exact child where *)
(* there is one, and has bound the names on it.                            *)
Target == Trimmed(call.path)
Walked == Behind(rest, Target)
Part(i) == Segments(Target)[i]

Led(r, i) ==
  \/ Edge(Pattern(r)[i]) = <<"static", Part(i).text>>
  \/ /\ Edge(Pattern(r)[i]) = <<"param", "">>
     /\ Router!Static(Way(r, i - 1), Part(i).text) \notin nodes

Bound(r, k) ==
  Chosen([i \in 1..k |-> <<Pattern(r)[i].text, <<Part(i)>> >>], Named(Pattern(r)) \cap (1..k))

Followed(r) ==
  /\ r.method = call.method
  /\ Walked <= Len(Pattern(r))
  /\ at = Way(r, Walked)
  /\ \A i \in 1..Walked : Led(r, i)
  /\ params = Bound(r, Walked)

FindOnItsWay ==
  Router!Asked("find") =>
    /\ IsList(Target) /\ Ahead(rest, Target)
    /\ \E r \in table : Followed(r)

TrieInv ==
  Labelled /\ RoutesSit /\ WaysStand /\ NoOtherNodes /\ AddOnItsWay /\ FindOnItsWay

(* The callers of the router. *)
IsPath(path) == IsList(path) /\ path # << >>
AreAdds(adds) == IsList(adds) /\ \A i \in 1..Len(adds) : IsPath(adds[i].path)

IsGroup(g) == g = [prefix |-> g.prefix, middlewares |-> g.middlewares] /\ IsPath(g.prefix)
IsCall(c) ==
  /\ c = [kind |-> c.kind, path |-> c.path, own |-> c.own, outcome |-> c.outcome]
  /\ c.own \in Owns

CallsInv ==
  /\ IsList(groups) /\ \A g \in 1..Len(groups) : IsGroup(groups[g])
  /\ AreAdds(job)
  /\ IsList(calls) /\ \A i \in 1..Len(calls) : IsCall(calls[i])
  /\ Busy => calls # << >>

Inv == TrieInv /\ CallsInv

----------------------------------------------------------------------------
(* Add keeps it. *)

LEMMA RouteIsNot ==
  ASSUME NEW r, IsRoute(r)
  PROVE  r # NoRoute
<1>1. NoRoute.handler = 0 /\ r.handler # 0
  BY DEF IsRoute, NoRoute
<1>2. QED
  BY <1>1

LEMMA TableHas ==
  ASSUME Labelled, RoutesSit
  PROVE  /\ \A r \in table : /\ r # NoRoute /\ IsRoute(r)
                             /\ Way(r, Len(Pattern(r))) \in nodes
                             /\ route[Way(r, Len(Pattern(r)))] = r
         /\ \A n \in nodes : route[n] # NoRoute => route[n] \in table
BY DEF table, Router!Routes, RoutesSit

LEMMA GrowFacts ==
  ASSUME Labelled, NEW n, NEW name, Router!Grow(n, name)
  PROVE  /\ nodes' = nodes \cup {n}
         /\ Labelled'
         /\ \A k \in nodes : label'[k] = label[k] /\ route'[k] = route[k]
         /\ n \notin nodes => label'[n] = name /\ route'[n] = NoRoute
         /\ table' = table
<1>1. /\ nodes' = nodes \cup {n}
      /\ Labelled'
      /\ \A k \in nodes : label'[k] = label[k] /\ route'[k] = route[k]
      /\ n \notin nodes => label'[n] = name /\ route'[n] = NoRoute
  BY DEF Router!Grow, Labelled
<1>2. {m \in nodes' : route'[m] # NoRoute} = {m \in nodes : route[m] # NoRoute}
  BY <1>1
<1>3. table' = table
  BY <1>1, <1>2 DEF table, Router!Routes
<1>4. QED
  BY <1>1, <1>3

LEMMA GrowKeeps ==
  ASSUME TrieInv, NEW n, NEW name, Router!Grow(n, name)
  PROVE  RoutesSit' /\ WaysStand'
<1>1. /\ nodes' = nodes \cup {n}
      /\ \A k \in nodes : label'[k] = label[k] /\ route'[k] = route[k]
      /\ n \notin nodes => route'[n] = NoRoute
      /\ table' = table
  BY GrowFacts DEF TrieInv
<1>2. RoutesSit'
  BY <1>1 DEF TrieInv, RoutesSit
<1>3. WaysStand'
  BY <1>1 DEF TrieInv, WaysStand
<1>4. QED
  BY <1>2, <1>3

LEMMA AddCalledKeeps ==
  ASSUME TrieInv, NEW m, NEW path, NEW handler \in Nat \ {0}, NEW mws, IsList(path),
         Router!AddCalled(m, path, handler, mws)
  PROVE  TrieInv' /\ table' = table
<1>1. /\ answer.kind # "pending"
      /\ Router!Grow(Router!Root(m), "")
      /\ at' = Router!Root(m) /\ rest' = path
      /\ answer'.kind = "pending"
      /\ call'.op = "add" /\ call'.method = m /\ call'.path = path /\ call'.handler = handler
  BY DEF Router!AddCalled, Router!Idle, Router!Ask, Router!Pending
<1>2. /\ nodes' = nodes \cup {Router!Root(m)} /\ Labelled' /\ table' = table
  BY <1>1, GrowFacts DEF TrieInv
<1>3. RoutesSit' /\ WaysStand'
  BY <1>1, GrowKeeps
<1>4. Ahead(path, path) /\ Behind(path, path) = 0
  BY WalkStarts
<1>5. Gone' = 0
  BY <1>1, <1>4 DEF Gone
<1>6. Going(0)' = Router!Root(m)
  BY <1>1, RootIsNode DEF Going
<1>7. AddOnItsWay'
  <2>1. \A k \in 0..Gone' : k = 0
    BY <1>5
  <2>2. at' = Going(0)' /\ Going(0)' \in nodes'
    BY <1>1, <1>2, <1>6
  <2>3. QED
    BY <1>1, <1>4, <1>5, <2>1, <2>2 DEF AddOnItsWay
<1>8. NoOtherNodes'
  <2>1. SUFFICES ASSUME NEW n \in nodes', ~OnAWay(n)'
                 PROVE  Router!Asked("add")' /\ \E k \in 0..Gone' : n = Going(k)'
    BY DEF NoOtherNodes
  <2>2. n \in nodes => OnAWay(n)
    BY <1>1 DEF TrieInv, NoOtherNodes, Router!Asked
  <2>3. n = Router!Root(m)
    BY <1>2, <2>1, <2>2 DEF OnAWay
  <2>4. Router!Asked("add")'
    BY <1>1 DEF Router!Asked
  <2>5. QED
    BY <1>5, <1>6, <2>3, <2>4
<1>9. FindOnItsWay'
  BY <1>1 DEF FindOnItsWay, Router!Asked
<1>10. QED
  BY <1>2, <1>3, <1>7, <1>8, <1>9 DEF TrieInv

(* One segment of an Add. *)
LEMMA DescendKeeps ==
  ASSUME TrieInv, Router!Asked("add"), rest # << >>, NonEmpty(Head(rest)),
         NEW child, child = Append(at, Edge(Head(rest))),
         child \in nodes => label[child] = Name(Head(rest)),
         Router!Descend(child, Name(Head(rest)))
  PROVE  TrieInv'
<1>. DEFINE p == Segments(call.path)
            name == Name(Head(rest))
<1>1. /\ Router!Grow(child, name) /\ at' = child /\ rest' = Tail(rest)
      /\ call' = call /\ answer' = answer
  BY DEF Router!Descend
<1>2. /\ nodes' = nodes \cup {child} /\ Labelled' /\ table' = table
      /\ \A k \in nodes : label'[k] = label[k]
      /\ child \notin nodes => label'[child] = name
  BY <1>1, GrowFacts DEF TrieInv
<1>3. RoutesSit' /\ WaysStand'
  BY <1>1, GrowKeeps
<1>4. /\ IsList(call.path) /\ call.handler \in Nat \ {0} /\ Ahead(rest, call.path)
      /\ at = Going(Gone)
      /\ \A k \in 0..Gone : Going(k) \in nodes /\ (k # 0 => label[Going(k)] = Name(p[k]))
  BY DEF TrieInv, AddOnItsWay
<1>5. Ahead(Tail(rest), call.path) /\ Gone' = Gone + 1 /\ p[Gone + 1] = Head(rest) /\ Gone \in Nat
  BY <1>1, <1>4, WalkSteps, WalkFacts DEF Gone
<1>6. \A k : Going(k)' = Going(k)
  BY <1>1 DEF Going
<1>7. child = Going(Gone + 1)
  <2>1. Append(NodeAt(call.method, p, Gone), Edge(p[Gone + 1])) = NodeAt(call.method, p, Gone + 1)
    BY <1>5, NodeSteps
  <2>2. QED
    BY <2>1, <1>4, <1>5 DEF Going
<1>8. label'[child] = Name(p[Gone + 1])
  BY <1>2, <1>5
<1>9. AddOnItsWay'
  <2>1. \A k \in 0..Gone' : Going(k)' \in nodes' /\ (k # 0 => label'[Going(k)'] = Name(p[k]))
    <3>1. SUFFICES ASSUME NEW k \in 0..Gone + 1
                   PROVE  Going(k) \in nodes' /\ (k # 0 => label'[Going(k)] = Name(p[k]))
      BY <1>5, <1>6
    <3>2. CASE k = Gone + 1
      BY <3>2, <1>2, <1>7, <1>8
    <3>3. CASE k # Gone + 1
      <4>1. k \in 0..Gone
        BY <3>3, <1>5
      <4>2. QED
        BY <4>1, <1>2, <1>4
    <3>4. QED
      BY <3>2, <3>3
  <2>2. at' = Going(Gone)'
    BY <1>1, <1>5, <1>7 DEF Going
  <2>3. QED
    BY <1>1, <1>4, <1>5, <2>1, <2>2 DEF AddOnItsWay
<1>10. NoOtherNodes'
  <2>1. SUFFICES ASSUME NEW n \in nodes', ~OnAWay(n)'
                 PROVE  Router!Asked("add")' /\ \E k \in 0..Gone' : n = Going(k)'
    BY DEF NoOtherNodes
  <2>2. Router!Asked("add")'
    BY <1>1 DEF Router!Asked
  <2>3. ~OnAWay(n)
    BY <1>2, <2>1 DEF OnAWay
  <2>4. CASE n \in nodes
    <3>1. PICK k \in 0..Gone : n = Going(k)
      BY <2>3, <2>4 DEF TrieInv, NoOtherNodes
    <3>2. k \in 0..Gone'
      BY <1>5
    <3>3. QED
      BY <1>6, <2>2, <3>1, <3>2
  <2>5. CASE n = child
    <3>1. Gone + 1 \in 0..Gone'
      BY <1>5
    <3>2. QED
      BY <1>6, <1>7, <2>2, <2>5, <3>1
  <2>6. QED
    BY <1>2, <2>4, <2>5
<1>11. FindOnItsWay'
  BY <1>1 DEF FindOnItsWay, Router!Asked
<1>12. QED
  BY <1>2, <1>3, <1>9, <1>10, <1>11 DEF TrieInv

(* A node that an Add comes to, and has not made, is on the way of a route. *)
LEMMA ComesTo ==
  ASSUME TrieInv, Router!Asked("add"), rest # << >>, NonEmpty(Head(rest)),
         Append(at, Edge(Head(rest))) \in nodes
  PROVE  \E r \in table :
           /\ r.method = call.method
           /\ Gone + 1 \in 1..Len(Pattern(r)) /\ Gone + 1 \in 1..Len(Segments(call.path))
           /\ Segments(call.path)[Gone + 1] = Head(rest)
           /\ \A i \in 1..Gone + 1 : Edge(Segments(call.path)[i]) = Edge(Pattern(r)[i])
           /\ label[Append(at, Edge(Head(rest)))] = Name(Pattern(r)[Gone + 1])
<1>. DEFINE p == Segments(call.path)
            child == Append(at, Edge(Head(rest)))
<1>1. IsList(call.path) /\ Ahead(rest, call.path) /\ at = Going(Gone)
  BY DEF TrieInv, AddOnItsWay
<1>2. /\ Gone \in Nat /\ Gone + 1 \in 1..Len(p) /\ p[Gone + 1] = Head(rest)
  BY <1>1, WalkSteps, WalkFacts DEF Gone
<1>3. child = Going(Gone + 1)
  <2>1. Append(NodeAt(call.method, p, Gone), Edge(p[Gone + 1])) = NodeAt(call.method, p, Gone + 1)
    BY <1>2, NodeSteps
  <2>2. QED
    BY <2>1, <1>1, <1>2 DEF Going
<1>4. \A k \in 0..Gone : child # Going(k)
  BY <1>2, <1>3, SameNode DEF Going
<1>5. OnAWay(child)
  BY <1>4 DEF TrieInv, NoOtherNodes
<1>6. PICK r \in table, k \in Nat : k \in 0..Len(Pattern(r)) /\ child = Way(r, k)
  <2>1. PICK r \in table : \E k \in 0..Len(Pattern(r)) : child = Way(r, k)
    BY <1>5 DEF OnAWay
  <2>2. QED
    BY <2>1
<1>7. k = Gone + 1 /\ r.method = call.method /\ \A i \in 1..Gone + 1 : Edge(p[i]) = Edge(Pattern(r)[i])
  <2>1. NodeAt(call.method, p, Gone + 1) = NodeAt(r.method, Pattern(r), k)
    BY <1>3, <1>6 DEF Going, Way
  <2>2. QED
    BY <2>1, <1>2, <1>6, SameNode
<1>8. label[child] = Name(Pattern(r)[Gone + 1])
  <2>1. k # 0 => label[Way(r, k)] = Name(Pattern(r)[k])
    BY <1>6 DEF TrieInv, WaysStand
  <2>2. k # 0
    BY <1>2, <1>7
  <2>3. QED
    BY <2>1, <2>2, <1>6, <1>7
<1>9. Gone + 1 \in 1..Len(Pattern(r))
  <2>1. Len(Pattern(r)) \in Nat
    BY TableHas, SegmentsFacts DEF TrieInv, IsRoute, Pattern
  <2>2. QED
    BY <2>1, <1>2, <1>6, <1>7
<1>10. QED
  BY <1>2, <1>7, <1>8, <1>9

LEMMA AddEmptyKeeps ==
  ASSUME TrieInv, Router!AddEmpty
  PROVE  TrieInv' /\ table' = table
<1>1. /\ Router!Asked("add") /\ rest # << >> /\ ~NonEmpty(Head(rest)) /\ rest' = Tail(rest)
      /\ UNCHANGED <<nodes, label, route, call, at, params, answer>>
  BY DEF Router!AddEmpty, Router!Adding, NonEmpty, Router!trieVars
<1>2. IsList(call.path) /\ Ahead(rest, call.path)
  BY <1>1 DEF TrieInv, AddOnItsWay
<1>3. Ahead(Tail(rest), call.path) /\ Gone' = Gone
  BY <1>1, <1>2, WalkSteps DEF Gone
<1>4. table' = table
  BY <1>1 DEF table, Router!Routes
<1>5. \A k : Going(k)' = Going(k)
  BY <1>1 DEF Going
<1>6. Labelled' /\ RoutesSit' /\ WaysStand'
  BY <1>1, <1>4 DEF TrieInv, Labelled, RoutesSit, WaysStand
<1>7. NoOtherNodes'
  BY <1>1, <1>3, <1>4, <1>5 DEF TrieInv, NoOtherNodes, OnAWay, Router!Asked
<1>8. AddOnItsWay'
  BY <1>1, <1>3, <1>5 DEF TrieInv, AddOnItsWay, Going
<1>9. FindOnItsWay'
  BY <1>1 DEF FindOnItsWay, Router!Asked
<1>10. QED
  BY <1>4, <1>6, <1>7, <1>8, <1>9 DEF TrieInv

LEMMA AddStaticKeeps ==
  ASSUME TrieInv, Router!AddStatic
  PROVE  TrieInv' /\ table' = table
<1>. DEFINE child == Append(at, Edge(Head(rest)))
<1>1. /\ Router!Asked("add") /\ rest # << >> /\ Head(rest).form = "plain"
      /\ Router!Descend(Router!Static(at, Head(rest).text), "")
  BY DEF Router!AddStatic, Router!Adding
<1>2. child = Router!Static(at, Head(rest).text) /\ Name(Head(rest)) = "" /\ NonEmpty(Head(rest))
  BY <1>1, Children DEF NonEmpty
<1>3. child \in nodes => label[child] = Name(Head(rest))
  <2>1. SUFFICES ASSUME child \in nodes PROVE label[child] = ""
    BY <1>2
  <2>2. PICK r \in table :
          /\ Edge(Head(rest)) = Edge(Pattern(r)[Gone + 1])
          /\ label[child] = Name(Pattern(r)[Gone + 1])
    <3>1. PICK r \in table :
            /\ Gone + 1 \in 1..Len(Pattern(r))
            /\ Segments(call.path)[Gone + 1] = Head(rest)
            /\ \A i \in 1..Gone + 1 : Edge(Segments(call.path)[i]) = Edge(Pattern(r)[i])
            /\ label[child] = Name(Pattern(r)[Gone + 1])
      BY <1>1, <1>2, <2>1, ComesTo
    <3>2. QED
      BY <3>1
  <2>3. Kind(Head(rest)) = "static"
    BY <1>1 DEF Kind
  <2>4. QED
    BY <2>2, <2>3, EdgeTells DEF Name
<1>4. Router!Descend(child, Name(Head(rest)))
  BY <1>1, <1>2
<1>. HIDE DEF child
<1>5. TrieInv'
  BY <1>1, <1>2, <1>3, <1>4, DescendKeeps DEF child
<1>6. table' = table
  BY <1>4, GrowFacts DEF Router!Descend, TrieInv
<1>7. QED
  BY <1>5, <1>6

(* The answer of an Add that finds another name. *)
Refused ==
  /\ ~Accepts(table, call.method, call.path)
  /\ answer' = [kind |-> "conflict", route |-> NoRoute, params |-> << >>]
  /\ call' = call /\ table' = table /\ globalMiddlewares' = globalMiddlewares

LEMMA NamedKeeps ==
  ASSUME TrieInv, Router!Asked("add"), rest # << >>, NonEmpty(Head(rest)),
         NEW child, child = Append(at, Edge(Head(rest))),
         Router!DescendNamed(child, Name(Head(rest)))
  PROVE  TrieInv' /\ ((table' = table /\ answer' = answer) \/ Refused)
<1>1. CASE ~Router!OtherName(child, Name(Head(rest))) /\ Router!Descend(child, Name(Head(rest)))
  <2>1. child \in nodes => label[child] = Name(Head(rest))
    BY <1>1 DEF Router!OtherName
  <2>2. TrieInv'
    BY <1>1, <2>1, DescendKeeps
  <2>3. table' = table /\ answer' = answer
    BY <1>1, GrowFacts DEF Router!Descend, TrieInv
  <2>4. QED
    BY <2>2, <2>3
<1>2. CASE /\ Router!OtherName(child, Name(Head(rest)))
           /\ answer' = [kind |-> "conflict", route |-> NoRoute, params |-> << >>]
           /\ UNCHANGED <<globalMiddlewares, nodes, label, route, call, at, rest, params>>
  <2>. DEFINE p == Segments(call.path)
  <2>1. PICK r \in table :
          /\ r.method = call.method
          /\ Gone + 1 \in 1..Len(Pattern(r)) /\ Gone + 1 \in 1..Len(p)
          /\ p[Gone + 1] = Head(rest)
          /\ \A i \in 1..Gone + 1 : Edge(p[i]) = Edge(Pattern(r)[i])
          /\ label[child] = Name(Pattern(r)[Gone + 1])
    BY <1>2, ComesTo DEF Router!OtherName
  <2>2. Name(Pattern(r)[Gone + 1]) # Name(p[Gone + 1])
    BY <1>2, <2>1 DEF Router!OtherName
  <2>3. Gone \in Nat /\ IsList(call.path)
    BY WalkFacts DEF TrieInv, AddOnItsWay, Gone
  <2>4. Len(Pattern(r)) \in Nat /\ Len(p) \in Nat
    BY <2>3, TableHas, SegmentsFacts DEF TrieInv, IsRoute, Pattern
  <2>5. ~Accepts(table, call.method, call.path)
    <3>1. SameUpTo(p, Pattern(r), Gone + 1)
      BY <2>1, <2>3, <2>4 DEF SameUpTo
    <3>2. ~Compatible(p, Pattern(r))
      BY <2>1, <2>2, <3>1 DEF Compatible
    <3>3. QED
      BY <2>1, <3>2 DEF Accepts, Rivals, Pattern
  <2>6. table' = table
    BY <1>2 DEF table, Router!Routes
  <2>7. \A n \in nodes : OnAWay(n)
    <3>1. SUFFICES ASSUME NEW n \in nodes, ~OnAWay(n) PROVE FALSE
      OBVIOUS
    <3>2. PICK k \in 0..Gone : n = Going(k)
      BY <3>1 DEF TrieInv, NoOtherNodes
    <3>3. k \in Nat /\ \A i \in 1..k : Edge(p[i]) = Edge(Pattern(r)[i])
      BY <2>1, <2>3
    <3>4. Going(k) = Way(r, k)
      BY <2>1, <3>3, SameNode DEF Going, Way
    <3>5. k \in 0..Len(Pattern(r))
      BY <2>1, <2>3, <2>4
    <3>6. QED
      BY <3>1, <3>2, <3>4, <3>5 DEF OnAWay
  <2>8. answer'.kind = "conflict"
    BY <1>2
  <2>9. Labelled' /\ RoutesSit' /\ WaysStand'
    BY <1>2, <2>6 DEF TrieInv, Labelled, RoutesSit, WaysStand
  <2>10. NoOtherNodes' /\ AddOnItsWay' /\ FindOnItsWay'
    BY <1>2, <2>6, <2>7, <2>8 DEF NoOtherNodes, OnAWay, AddOnItsWay, FindOnItsWay, Router!Asked
  <2>11. Refused
    BY <1>2, <2>5, <2>6 DEF Refused
  <2>12. QED
    BY <2>9, <2>10, <2>11 DEF TrieInv
<1>3. QED
  BY <1>1, <1>2 DEF Router!DescendNamed, Router!Return, Router!trieVars

LEMMA AddParamKeeps ==
  ASSUME TrieInv, Router!AddParam \/ Router!AddCatchAll
  PROVE  TrieInv' /\ ((table' = table /\ answer' = answer) \/ Refused)
<1>1. Router!Asked("add") /\ rest # << >>
  BY DEF Router!AddParam, Router!AddCatchAll, Router!Adding
<1>2. CASE Router!AddParam
  <2>1. Head(rest).form \in {"colon", "brace"} /\ Router!DescendNamed(Router!Param(at), Head(rest).text)
    BY <1>2 DEF Router!AddParam, Router!Adding
  <2>2. /\ NonEmpty(Head(rest)) /\ Router!Param(at) = Append(at, Edge(Head(rest)))
        /\ Name(Head(rest)) = Head(rest).text
    BY <2>1, Children DEF NonEmpty
  <2>3. QED
    BY <1>1, <2>1, <2>2, NamedKeeps
<1>3. CASE Router!AddCatchAll
  <2>1. Head(rest).form = "star" /\ Router!DescendNamed(Router!CatchAll(at), Head(rest).text)
    BY <1>3 DEF Router!AddCatchAll, Router!Adding
  <2>2. /\ NonEmpty(Head(rest)) /\ Router!CatchAll(at) = Append(at, Edge(Head(rest)))
        /\ Name(Head(rest)) = Head(rest).text
    BY <2>1, Children DEF NonEmpty
  <2>3. QED
    BY <1>1, <2>1, <2>2, NamedKeeps
<1>4. QED
  BY <1>2, <1>3

NewRoute == [method |-> call.method, path |-> call.path,
             handler |-> call.handler, middlewares |-> call.middlewares]

(* The answer of an Add that meets no other name. *)
Accepted ==
  /\ Accepts(table, call.method, call.path)
  /\ table' = Registered(table, NewRoute)
  /\ answer' = [kind |-> "added", route |-> NoRoute, params |-> << >>]
  /\ call' = call /\ globalMiddlewares' = globalMiddlewares

LEMMA AddDoneAccepts ==
  ASSUME TrieInv, Router!Asked("add"), rest = << >>
  PROVE  Accepts(table, call.method, call.path)
<1>. DEFINE p == Segments(call.path)
<1>1. /\ IsList(call.path) /\ Ahead(rest, call.path)
      /\ \A k \in 0..Gone : Going(k) \in nodes /\ (k # 0 => label[Going(k)] = Name(p[k]))
  BY DEF TrieInv, AddOnItsWay
<1>2. Gone = Len(p) /\ Len(p) \in Nat
  BY <1>1, WalkEnds, SegmentsFacts DEF Gone
<1>3. SUFFICES ASSUME NEW r \in table, r.method = call.method PROVE Compatible(p, Pattern(r))
  BY DEF Accepts, Rivals, Pattern
<1>4. SUFFICES ASSUME NEW i \in 1..Len(p), SameUpTo(p, Pattern(r), i)
               PROVE  Name(p[i]) = Name(Pattern(r)[i])
  BY DEF Compatible
<1>5. Len(Pattern(r)) \in Nat
  BY TableHas, SegmentsFacts DEF TrieInv, IsRoute, Pattern
<1>6. i \in 0..Len(Pattern(r)) /\ i \in 0..Gone /\ i # 0 /\ i \in Nat
  BY <1>2, <1>4, <1>5 DEF SameUpTo
<1>7. Going(i) = Way(r, i)
  BY <1>3, <1>4, <1>6, SameNode DEF Going, Way, SameUpTo
<1>8. label[Going(i)] = Name(p[i]) /\ label[Way(r, i)] = Name(Pattern(r)[i])
  BY <1>1, <1>6 DEF TrieInv, WaysStand
<1>9. QED
  BY <1>7, <1>8

LEMMA AddDoneKeeps ==
  ASSUME TrieInv, Router!AddDone
  PROVE  TrieInv' /\ Accepted
<1>. DEFINE p == Segments(call.path)
<1>1. /\ Router!Asked("add") /\ rest = << >>
      /\ route' = [route EXCEPT ![at] = NewRoute]
      /\ answer' = [kind |-> "added", route |-> NoRoute, params |-> << >>]
      /\ UNCHANGED <<globalMiddlewares, nodes, label, call, at, rest, params>>
  BY DEF Router!AddDone, Router!Return, NewRoute
<1>2. /\ IsList(call.path) /\ Ahead(rest, call.path) /\ at = Going(Gone)
      /\ call.handler \in Nat \ {0}
      /\ \A k \in 0..Gone : Going(k) \in nodes /\ (k # 0 => label[Going(k)] = Name(p[k]))
  BY <1>1 DEF TrieInv, AddOnItsWay
<1>3. Gone = Len(p) /\ Len(p) \in Nat
  BY <1>1, <1>2, WalkEnds, SegmentsFacts DEF Gone
<1>4. NewRoute.method = call.method /\ Pattern(NewRoute) = p /\ IsRoute(NewRoute)
  BY <1>2 DEF NewRoute, Pattern, IsRoute
<1>5. \A k : Way(NewRoute, k) = Going(k)
  BY <1>4 DEF Way, Going
<1>6. /\ NewRoute # NoRoute /\ at = Way(NewRoute, Len(Pattern(NewRoute))) /\ at \in nodes
  BY <1>2, <1>3, <1>4, <1>5, RouteIsNot
<1>7. /\ DOMAIN route' = nodes /\ route'[at] = NewRoute
      /\ \A n \in nodes : n # at => route'[n] = route[n]
  BY <1>1, <1>6 DEF TrieInv, Labelled
<1>. HIDE DEF p
<1>8. \A r \in table : /\ Len(Pattern(r)) \in Nat /\ route[Way(r, Len(Pattern(r)))] = r
                       /\ Way(r, Len(Pattern(r))) \in nodes /\ r # NoRoute
  BY TableHas, SegmentsFacts DEF TrieInv, IsRoute, Pattern
<1>9. \A r \in table : (r.method = call.method /\ SameShape(p, Pattern(r)))
                         <=> Way(r, Len(Pattern(r))) = at
  <2>1. SUFFICES ASSUME NEW r \in table
                 PROVE  (r.method = call.method /\ SameShape(p, Pattern(r)))
                         <=> Way(r, Len(Pattern(r))) = Going(Len(p))
    BY <1>2, <1>3
  <2>2. Way(r, Len(Pattern(r))) = Going(Len(p)) <=>
          /\ Len(Pattern(r)) = Len(p) /\ r.method = call.method
          /\ \A i \in 1..Len(Pattern(r)) : Edge(Pattern(r)[i]) = Edge(p[i])
    BY <1>3, <1>8, SameNode DEF Way, Going, p
  <2>3. QED
    BY <2>2, <1>3, <1>8 DEF SameShape, SameUpTo
<1>10. table' = Registered(table, NewRoute)
  <2>1. ASSUME NEW r \in table' PROVE r \in Registered(table, NewRoute)
    <3>1. PICK n \in nodes : route'[n] = r /\ r # NoRoute
      BY <1>1, <2>1 DEF table, Router!Routes
    <3>2. CASE n = at
      BY <3>1, <3>2, <1>7 DEF Registered
    <3>3. CASE n # at
      <4>1. r \in table /\ n = Way(r, Len(Pattern(r)))
        BY <3>1, <3>3, <1>7, TableHas DEF TrieInv, RoutesSit
      <4>2. ~(r.method = call.method /\ SameShape(p, Pattern(r)))
        BY <4>1, <3>3, <1>9
      <4>3. QED
        BY <4>1, <4>2, <1>4 DEF Registered, Pattern
    <3>4. QED
      BY <3>2, <3>3
  <2>2. ASSUME NEW r \in Registered(table, NewRoute) PROVE r \in table'
    <3>1. CASE r = NewRoute
      BY <3>1, <1>1, <1>6, <1>7 DEF table, Router!Routes
    <3>2. CASE r # NewRoute
      <4>1. r \in table /\ ~(r.method = call.method /\ SameShape(p, Pattern(r)))
        BY <2>2, <3>2, <1>4 DEF Registered, Pattern
      <4>2. Way(r, Len(Pattern(r))) # at
        BY <4>1, <1>9
      <4>3. route'[Way(r, Len(Pattern(r)))] = r
        BY <4>1, <4>2, <1>7, <1>8
      <4>4. QED
        BY <4>1, <4>3, <1>1, <1>8 DEF table, Router!Routes
    <3>3. QED
      BY <3>1, <3>2
  <2>3. QED
    BY <2>1, <2>2
<1>11. Labelled' /\ RoutesSit'
  BY <1>1, <1>4, <1>6, <1>7 DEF TrieInv, Labelled, RoutesSit
<1>12. WaysStand'
  <2>1. SUFFICES ASSUME NEW r \in table', NEW k \in 0..Len(Pattern(r))
                 PROVE  Way(r, k) \in nodes /\ (k # 0 => label[Way(r, k)] = Name(Pattern(r)[k]))
    BY <1>1 DEF WaysStand
  <2>2. CASE r \in table
    BY <2>1, <2>2 DEF TrieInv, WaysStand
  <2>3. CASE r = NewRoute
    BY <2>1, <2>3, <1>2, <1>3, <1>4, <1>5 DEF p
  <2>4. QED
    BY <2>1, <2>2, <2>3, <1>10 DEF Registered
<1>13. NoOtherNodes'
  <2>1. SUFFICES ASSUME NEW n \in nodes PROVE OnAWay(n)'
    BY <1>1 DEF NoOtherNodes
  <2>2. ASSUME NEW k \in 0..Len(p), n = Way(NewRoute, k) PROVE OnAWay(n)'
    BY <2>2, <1>4, <1>10 DEF OnAWay, Registered
  <2>3. CASE OnAWay(n)
    <3>1. PICK r \in table, k \in Nat : k \in 0..Len(Pattern(r)) /\ n = Way(r, k)
      <4>1. PICK r \in table : \E k \in 0..Len(Pattern(r)) : n = Way(r, k)
        BY <2>3 DEF OnAWay
      <4>2. QED
        BY <4>1
    <3>2. CASE r.method = call.method /\ SameShape(p, Pattern(r))
      <4>1. k \in 0..Len(p) /\ \A i \in 1..k : Edge(Pattern(r)[i]) = Edge(p[i])
        BY <3>1, <3>2, <1>3, <1>8 DEF SameShape, SameUpTo
      <4>2. Way(r, k) = Way(NewRoute, k)
        BY <3>1, <3>2, <4>1, <1>4, SameNode DEF Way
      <4>3. QED
        BY <3>1, <4>1, <4>2, <2>2
    <3>3. CASE ~(r.method = call.method /\ SameShape(p, Pattern(r)))
      <4>1. r \in table'
        BY <3>3, <1>4, <1>10 DEF Registered, Pattern
      <4>2. QED
        BY <4>1, <3>1 DEF OnAWay
    <3>4. QED
      BY <3>2, <3>3
  <2>4. CASE ~OnAWay(n)
    <3>1. PICK k \in 0..Gone : n = Going(k)
      BY <2>4 DEF TrieInv, NoOtherNodes
    <3>2. k \in 0..Len(p) /\ n = Way(NewRoute, k)
      BY <3>1, <1>3, <1>5
    <3>3. QED
      BY <3>2, <2>2
  <2>5. QED
    BY <2>3, <2>4
<1>14. AddOnItsWay' /\ FindOnItsWay'
  BY <1>1 DEF AddOnItsWay, FindOnItsWay, Router!Asked
<1>15. Accepted
  BY <1>1, <1>10, AddDoneAccepts DEF Accepted
<1>16. QED
  BY <1>11, <1>12, <1>13, <1>14, <1>15 DEF TrieInv

----------------------------------------------------------------------------
(* Patterns that match the same path. *)

LEMMA ExactIsNat ==
  ASSUME NEW S, NEW p \in Seq(S)
  PROVE  /\ Exact(p) \in Nat
         /\ Exact(p) <= Len(p) /\ Len(p) <= Exact(p) + 1
         /\ Exact(p) # Len(p) => Kind(p[Len(p)]) = "catchAll"
BY DEF Exact, EndsInCatchAll

LEMMA MatchedFits ==
  ASSUME NEW S, NEW r \in Seq(S), NEW parts, Matches(r, parts), NEW i \in 1..Len(r)
  PROVE  Fits(r[i], parts[i])
<1>1. /\ Exact(r) \in Nat /\ Len(r) \in Nat /\ Len(r) <= Exact(r) + 1
      /\ Exact(r) # Len(r) => Kind(r[Len(r)]) = "catchAll"
  BY ExactIsNat
<1>2. CASE i <= Exact(r)
  <2>1. i \in 1..Exact(r)
    BY <1>1, <1>2
  <2>2. QED
    BY <2>1 DEF Matches
<1>3. CASE ~(i <= Exact(r))
  <2>1. i = Len(r) /\ Exact(r) # Len(r)
    BY <1>1, <1>3
  <2>2. QED
    BY <1>1, <2>1 DEF Fits
<1>4. QED
  BY <1>2, <1>3

(* Where the edges of two matching patterns part, one leads the walk away  *)
(* from the other.                                                         *)
LEMMA PartingShadows ==
  ASSUME NEW S, NEW p \in Seq(S), NEW q \in Seq(S), NEW parts \in Seq(S),
         Matches(p, parts), Matches(q, parts),
         NEW i \in 1..Len(p), i <= Len(q),
         SameUpTo(p, q, i - 1), SameUpTo(q, p, i - 1), Edge(p[i]) # Edge(q[i])
  PROVE  Shadows(q, p, parts) \/ Shadows(p, q, parts)
<1>1. i <= Len(parts)
  <2>1. SUFFICES ASSUME i > Len(parts) PROVE FALSE
    OBVIOUS
  <2>2. Exact(p) <= Len(parts) /\ Exact(q) <= Len(parts)
    BY DEF Matches
  <2>3. Kind(p[i]) = "catchAll" /\ Kind(q[i]) = "catchAll"
    <3>1. i = Len(p) /\ i = Len(q) /\ Exact(p) # Len(p) /\ Exact(q) # Len(q)
      BY <2>1, <2>2, ExactIsNat
    <3>2. QED
      BY <3>1, ExactIsNat
  <2>4. QED
    BY <2>3 DEF Edge
<1>2. ASSUME NEW r \in Seq(S), Matches(r, parts), i \in 1..Len(r)
      PROVE  Fits(r[i], parts[i])
  BY <1>2, MatchedFits
<1>3. i \in 1..Len(p) /\ i \in 1..Len(q)
  OBVIOUS
<1>4. Fits(p[i], parts[i]) /\ Fits(q[i], parts[i])
  BY <1>2, <1>3
<1>5. Rank(p[i]) # Rank(q[i])
  <2>1. SUFFICES ASSUME Rank(p[i]) = Rank(q[i]) PROVE FALSE
    OBVIOUS
  <2>2. \A s : Kind(s) \in {"static", "param", "catchAll"}
    BY DEF Kind
  <2>3. Kind(p[i]) = Kind(q[i])
    <3>1. Kind(p[i]) \in {"static", "param", "catchAll"} /\ Kind(q[i]) \in {"static", "param", "catchAll"}
      BY <2>2
    <3>2. QED
      BY <2>1, <3>1 DEF Rank
  <2>4. Kind(p[i]) = "static" => p[i].text = q[i].text
    BY <1>4, <2>3 DEF Fits
  <2>5. QED
    BY <2>3, <2>4 DEF Edge
<1>6. Rank(p[i]) > Rank(q[i]) \/ Rank(q[i]) > Rank(p[i])
  BY <1>5 DEF Rank
<1>7. QED
  BY <1>1, <1>3, <1>4, <1>6 DEF Shadows

(* Of two matching patterns with the same edges, the longer one takes the  *)
(* empty remainder at which the shorter one ends.                          *)
LEMMA LongerIsShadowed ==
  ASSUME NEW S, NEW p \in Seq(S), NEW q \in Seq(S), NEW parts \in Seq(S),
         Matches(p, parts), Matches(q, parts),
         Len(q) < Len(p), SameUpTo(p, q, Len(q))
  PROVE  Shadows(q, p, parts)
<1>1. Len(q) <= Exact(p)
  BY ExactIsNat
<1>2. Exact(q) = Len(q)
  <2>1. SUFFICES ASSUME Exact(q) # Len(q) PROVE FALSE
    OBVIOUS
  <2>2. Kind(q[Len(q)]) = "catchAll" /\ Len(q) \in 1..Len(q)
    BY <2>1, ExactIsNat DEF Exact, EndsInCatchAll
  <2>3. Edge(p[Len(q)]) = Edge(q[Len(q)])
    BY <2>2 DEF SameUpTo
  <2>4. Kind(p[Len(q)]) = "catchAll"
    BY <2>2, <2>3 DEF Edge
  <2>5. Len(q) \in 1..Exact(p)
    BY <1>1, <2>2, ExactIsNat
  <2>6. QED
    BY <2>4, <2>5 DEF Matches
<1>3. ~EndsInCatchAll(q)
  BY <1>2 DEF Exact
<1>4. Len(parts) = Len(q)
  BY <1>2, <1>3 DEF Matches
<1>5. Len(p) = Len(parts) + 1
  BY <1>1, <1>4, ExactIsNat DEF Matches
<1>6. QED
  BY <1>4, <1>5 DEF Shadows

(* Find never has a choice: of two routes that match what is left of a     *)
(* path once it is split, and that differ in shape, one shadows the other  *)
(* (trie.go:198 to trie.go:224).                                           *)
THEOREM LookupUnambiguous ==
  ASSUME NEW S, NEW p \in Seq(S), NEW q \in Seq(S), NEW parts \in Seq(S),
         Matches(p, parts), Matches(q, parts), ~SameShape(p, q)
  PROVE  Shadows(q, p, parts) \/ Shadows(p, q, parts)
<1>. DEFINE D == {i \in 1..Len(p) : i <= Len(q) /\ Edge(p[i]) # Edge(q[i])}
<1>1. CASE D # {}
  <2>1. D \in SUBSET Nat
    OBVIOUS
  <2>2. PICK i \in D : \A j \in D : i <= j
    BY <1>1, <2>1, Least
  <2>3. SameUpTo(p, q, i - 1) /\ SameUpTo(q, p, i - 1)
    BY <2>2 DEF SameUpTo
  <2>4. QED
    BY <2>2, <2>3, PartingShadows
<1>2. CASE D = {}
  <2>1. \A i \in 1..Len(p) : i <= Len(q) => Edge(p[i]) = Edge(q[i])
    BY <1>2
  <2>2. CASE Len(q) < Len(p)
    <3>1. SameUpTo(p, q, Len(q))
      BY <2>1, <2>2 DEF SameUpTo
    <3>2. QED
      BY <2>2, <3>1, LongerIsShadowed
  <2>3. CASE Len(p) < Len(q)
    <3>1. SameUpTo(q, p, Len(p))
      BY <2>1, <2>3 DEF SameUpTo
    <3>2. QED
      BY <2>3, <3>1, LongerIsShadowed
  <2>4. CASE Len(p) = Len(q)
    BY <2>1, <2>4 DEF SameShape, SameUpTo
  <2>5. QED
    BY <2>2, <2>3, <2>4
<1>3. QED
  BY <1>1, <1>2

----------------------------------------------------------------------------
(* What is reachable from where a Find has come to. *)

LEMMA MatchFits ==
  ASSUME NEW p, NEW parts, IsList(p), Matches(p, parts), NEW i \in 1..Len(p)
  PROVE  Kind(p[i]) = "static" => p[i].text = parts[i].text
<1>1. Len(p) \in Nat
  BY ListFacts
<1>2. SUFFICES ASSUME Kind(p[i]) = "static" PROVE Fits(p[i], parts[i])
  BY DEF Fits
<1>3. i \in 1..Exact(p)
  BY <1>1, <1>2 DEF Exact, EndsInCatchAll
<1>4. QED
  BY <1>3 DEF Matches

LEMMA ReachableIs ==
  ASSUME NEW tbl, NEW m, NEW t, NEW q
  PROVE  q \in Reachable(tbl, m, t) <=>
           /\ q \in Rivals(tbl, m)
           /\ Matches(Pattern(q), Segments(t))
           /\ \A s \in Rivals(tbl, m) : ~Shadows(Pattern(s), Pattern(q), Segments(t))
<1>. DEFINE rivals == Split(Rivals(tbl, m))
            parts == Segments(t)
<1>1. \A a : a \in rivals <=> \E r \in Rivals(tbl, m) : a = <<r, Pattern(r)>>
  BY DEF Split, Pattern
<1>2. Reachable(tbl, m, t) =
        {a[1] : a \in {b \in rivals :
                   /\ Matches(b[2], parts)
                   /\ \A c \in rivals : ~Shadows(c[2], b[2], parts)}}
  BY DEF Reachable
<1>. HIDE DEF rivals, parts
<1>3. \A p : (\A c \in rivals : ~Shadows(c[2], p, parts))
               <=> \A s \in Rivals(tbl, m) : ~Shadows(Pattern(s), p, parts)
  <2>1. \A c \in rivals : \E s \in Rivals(tbl, m) : c[2] = Pattern(s)
    BY <1>1
  <2>2. \A s \in Rivals(tbl, m) : <<s, Pattern(s)>> \in rivals
    BY <1>1
  <2>3. \A s \in Rivals(tbl, m) : \E c \in rivals : c[2] = Pattern(s)
    BY <2>2
  <2>4. QED
    BY <2>1, <2>3
<1>4. ASSUME q \in Reachable(tbl, m, t)
      PROVE  /\ q \in Rivals(tbl, m) /\ Matches(Pattern(q), parts)
             /\ \A s \in Rivals(tbl, m) : ~Shadows(Pattern(s), Pattern(q), parts)
  <2>1. PICK b \in rivals : /\ q = b[1] /\ Matches(b[2], parts)
                            /\ \A c \in rivals : ~Shadows(c[2], b[2], parts)
    BY <1>2, <1>4
  <2>2. q \in Rivals(tbl, m) /\ b[2] = Pattern(q)
    BY <1>1, <2>1
  <2>3. QED
    BY <1>3, <2>1, <2>2
<1>5. ASSUME q \in Rivals(tbl, m), Matches(Pattern(q), parts),
             \A s \in Rivals(tbl, m) : ~Shadows(Pattern(s), Pattern(q), parts)
      PROVE  q \in Reachable(tbl, m, t)
  <2>. DEFINE b == <<q, Pattern(q)>>
  <2>1. b \in rivals /\ b[1] = q /\ b[2] = Pattern(q)
    BY <1>1, <1>5
  <2>. HIDE DEF b
  <2>2. Matches(b[2], parts) /\ \A c \in rivals : ~Shadows(c[2], b[2], parts)
    BY <1>3, <1>5, <2>1
  <2>3. QED
    BY <1>2, <2>1, <2>2
<1>6. QED
  BY <1>4, <1>5 DEF parts

LEMMA SameWay ==
  ASSUME NEW r, NEW q, NEW k \in Nat
  PROVE  Way(r, k) = Way(q, k) <=>
           r.method = q.method /\ \A i \in 1..k : Edge(Pattern(r)[i]) = Edge(Pattern(q)[i])
BY SameNode DEF Way

LEMMA RoutesAreOne ==
  ASSUME TrieInv, NEW r \in table, NEW q \in table, r.method = q.method,
         SameShape(Pattern(r), Pattern(q))
  PROVE  r = q
<1>1. /\ Len(Pattern(r)) \in Nat
      /\ route[Way(r, Len(Pattern(r)))] = r /\ route[Way(q, Len(Pattern(q)))] = q
  BY TableHas, SegmentsFacts DEF TrieInv, IsRoute, Pattern
<1>2. Len(Pattern(r)) = Len(Pattern(q))
  BY DEF SameShape
<1>3. Way(r, Len(Pattern(r))) = Way(q, Len(Pattern(q)))
  BY <1>1, <1>2, SameWay DEF SameShape, SameUpTo
<1>4. QED
  BY <1>1, <1>3

LEMMA PatternsAreLists ==
  ASSUME TrieInv, NEW r \in table
  PROVE  IsList(Pattern(r)) /\ Len(Pattern(r)) \in Nat
BY TableHas, SegmentsFacts DEF TrieInv, IsRoute, Pattern

LEMMA OneReachable ==
  ASSUME TrieInv, NEW m, NEW t, IsList(t),
         NEW r \in Reachable(table, m, t), NEW q \in Reachable(table, m, t)
  PROVE  r = q
<1>. DEFINE a == Pattern(r)
            b == Pattern(q)
            parts == Segments(t)
            S == {a[i] : i \in 1..Len(a)} \cup {b[i] : i \in 1..Len(b)}
                   \cup {parts[i] : i \in 1..Len(parts)}
<1>1. /\ r \in table /\ q \in table /\ r.method = m /\ q.method = m
      /\ Matches(a, parts) /\ Matches(b, parts)
      /\ ~Shadows(a, b, parts) /\ ~Shadows(b, a, parts)
  BY ReachableIs DEF Rivals
<1>2. IsList(a) /\ IsList(b) /\ IsList(parts)
  BY <1>1, PatternsAreLists, SegmentsFacts
<1>3. a \in Seq(S) /\ b \in Seq(S) /\ parts \in Seq(S)
  <2>. HIDE DEF a, b, parts
  <2>1. /\ {a[i] : i \in 1..Len(a)} \subseteq S /\ {b[i] : i \in 1..Len(b)} \subseteq S
        /\ {parts[i] : i \in 1..Len(parts)} \subseteq S
    OBVIOUS
  <2>. HIDE DEF S
  <2>2. QED
    BY <1>2, <2>1, SeqMonotonic DEF IsList
<1>. HIDE DEF a, b, parts, S
<1>4. SameShape(a, b)
  BY <1>1, <1>3, LookupUnambiguous
<1>5. QED
  BY <1>1, <1>4, RoutesAreOne DEF a, b

(* A walk that follows one route follows every other one that goes as far. *)
LEMMA ChosenSame ==
  ASSUME NEW n \in Nat, NEW places \in SUBSET (1..n), NEW f, NEW g,
         \A i \in places : f[i] = g[i]
  PROVE  Chosen(f, places) = Chosen(g, places)
BY NthHas DEF Chosen

LEMMA FollowedToo ==
  ASSUME TrieInv, IsList(Target), Ahead(rest, Target), NEW r \in table, Followed(r),
         NEW q \in table, Walked <= Len(Pattern(q)), at = Way(q, Walked)
  PROVE  Followed(q)
<1>1. Walked \in Nat /\ Len(Pattern(r)) \in Nat /\ Len(Pattern(q)) \in Nat
  BY WalkFacts, PatternsAreLists DEF Walked
<1>2. at = Way(r, Walked) /\ Walked <= Len(Pattern(r)) /\ r.method = call.method
  BY DEF Followed
<1>3. q.method = call.method /\ \A i \in 1..Walked : Edge(Pattern(r)[i]) = Edge(Pattern(q)[i])
  <2>1. Way(r, Walked) = Way(q, Walked)
    BY <1>2
  <2>2. QED
    BY <2>1, <1>1, <1>2, SameWay
<1>4. ASSUME NEW i \in 0..Walked PROVE Way(r, i) = Way(q, i)
  <2>1. i \in Nat /\ \A j \in 1..i : Edge(Pattern(r)[j]) = Edge(Pattern(q)[j])
    BY <1>1, <1>3
  <2>2. QED
    BY <2>1, <1>2, <1>3, SameWay
<1>5. \A i \in 1..Walked : Led(q, i)
  <2>1. SUFFICES ASSUME NEW i \in 1..Walked PROVE Led(q, i)
    OBVIOUS
  <2>2. Way(r, i - 1) = Way(q, i - 1)
    BY <1>1, <1>4
  <2>3. QED
    BY <2>2, <1>3 DEF Followed, Led
<1>6. ASSUME NEW i \in 1..Walked
      PROVE  /\ Kind(Pattern(r)[i]) = Kind(Pattern(q)[i])
             /\ Kind(Pattern(r)[i]) # "static" => Pattern(r)[i].text = Pattern(q)[i].text
  <2>1. Kind(Pattern(r)[i]) = Kind(Pattern(q)[i])
    BY <1>3, EdgeTells
  <2>2. /\ i \in 0..Len(Pattern(r)) /\ i \in 0..Len(Pattern(q)) /\ i # 0 /\ i \in 0..Walked
    BY <1>1, <1>2
  <2>3. Name(Pattern(r)[i]) = Name(Pattern(q)[i])
    <3>1. label[Way(r, i)] = Name(Pattern(r)[i])
      BY <2>2 DEF TrieInv, WaysStand
    <3>2. label[Way(q, i)] = Name(Pattern(q)[i])
      BY <2>2 DEF TrieInv, WaysStand
    <3>3. QED
      BY <3>1, <3>2, <2>2, <1>4
  <2>4. QED
    BY <2>1, <2>3 DEF Name
<1>7. Bound(q, Walked) = Bound(r, Walked)
  <2>. DEFINE I == Named(Pattern(r)) \cap (1..Walked)
              J == Named(Pattern(q)) \cap (1..Walked)
              f == [i \in 1..Walked |-> <<Pattern(r)[i].text, <<Part(i)>> >>]
              g == [i \in 1..Walked |-> <<Pattern(q)[i].text, <<Part(i)>> >>]
  <2>1. I = J
    BY <1>1, <1>2, <1>6 DEF Named
  <2>2. \A i \in I : f[i] = g[i]
    BY <1>6 DEF Named
  <2>3. I \in SUBSET (1..Walked)
    OBVIOUS
  <2>. HIDE DEF I, J, f, g
  <2>4. Chosen(f, I) = Chosen(g, I)
    BY <1>1, <2>2, <2>3, ChosenSame
  <2>5. QED
    BY <2>1, <2>4 DEF Bound, I, J, f, g
<1>8. QED
  BY <1>3, <1>5, <1>7 DEF Followed

LEMMA ChosenOneMore ==
  ASSUME NEW n \in Nat, NEW places \in SUBSET (1..n), NEW f, NEW g,
         \A i \in places : f[i] = g[i]
  PROVE  Chosen(g, places \cup {n + 1}) = Append(Chosen(f, places), g[n + 1])
<1>. DEFINE c == Cardinality(places)
            more == places \cup {n + 1}
            a == Chosen(f, places)
            b == Chosen(g, more)
<1>1. c \in Nat
  BY PlacesAreFinite
<1>2. /\ Cardinality(more) = c + 1 /\ Nth(more, c + 1) = n + 1
      /\ \A k \in 1..c : Nth(more, k) = Nth(places, k)
  BY NthOfOneMore
<1>3. \A k \in 1..c : Nth(places, k) \in places
  BY NthHas
<1>. HIDE DEF c, more
<1>4. a = [k \in 1..c |-> f[Nth(places, k)]] /\ b = [k \in 1..c + 1 |-> g[Nth(more, k)]]
  BY <1>2 DEF Chosen, c
<1>. HIDE DEF a, b
<1>5. IsList(a) /\ Len(a) = c /\ IsList(b) /\ Len(b) = c + 1
  BY <1>1, <1>4, FunctionIsList
<1>6. /\ IsList(Append(a, g[n + 1])) /\ Len(Append(a, g[n + 1])) = c + 1
      /\ Append(a, g[n + 1])[c + 1] = g[n + 1]
      /\ \A k \in 1..c : Append(a, g[n + 1])[k] = a[k]
  BY <1>5, AppendIsList
<1>7. b[c + 1] = g[n + 1]
  BY <1>1, <1>2, <1>4
<1>8. ASSUME NEW k \in 1..c PROVE b[k] = a[k]
  <2>1. b[k] = g[Nth(places, k)] /\ a[k] = f[Nth(places, k)]
    BY <1>1, <1>2, <1>4
  <2>2. QED
    BY <2>1, <1>3
<1>9. \A k \in 1..c + 1 : b[k] = Append(a, g[n + 1])[k]
  BY <1>1, <1>6, <1>7, <1>8
<1>10. b = Append(a, g[n + 1])
  BY <1>5, <1>6, <1>9, SameLists
<1>11. QED
  BY <1>10 DEF a, b, more

LEMMA BoundOneMore ==
  ASSUME NEW r, NEW k \in Nat, Len(Pattern(r)) \in Nat, k + 1 <= Len(Pattern(r))
  PROVE  Bound(r, k + 1) =
           IF Kind(Pattern(r)[k + 1]) = "static" THEN Bound(r, k)
           ELSE Append(Bound(r, k), <<Pattern(r)[k + 1].text, <<Part(k + 1)>> >>)
<1>. DEFINE I == Named(Pattern(r)) \cap (1..k)
            f == [i \in 1..k |-> <<Pattern(r)[i].text, <<Part(i)>> >>]
            g == [i \in 1..k + 1 |-> <<Pattern(r)[i].text, <<Part(i)>> >>]
<1>1. I \in SUBSET (1..k)
  OBVIOUS
<1>2. \A i \in I : f[i] = g[i]
  OBVIOUS
<1>3. g[k + 1] = <<Pattern(r)[k + 1].text, <<Part(k + 1)>> >>
  OBVIOUS
<1>4. Named(Pattern(r)) \cap (1..k + 1) =
        IF Kind(Pattern(r)[k + 1]) = "static" THEN I ELSE I \cup {k + 1}
  BY DEF Named
<1>5. Bound(r, k) = Chosen(f, I) /\ Bound(r, k + 1) = Chosen(g, Named(Pattern(r)) \cap (1..k + 1))
  BY DEF Bound
<1>. HIDE DEF I, f, g
<1>6. Chosen(f, I) = Chosen(g, I)
  BY <1>1, <1>2, ChosenSame
<1>7. Chosen(g, I \cup {k + 1}) = Append(Chosen(f, I), g[k + 1])
  BY <1>1, <1>2, ChosenOneMore
<1>8. QED
  BY <1>3, <1>4, <1>5, <1>6, <1>7

LEMMA ChosenNone ==
  ASSUME NEW f
  PROVE  Chosen(f, {}) = << >>
<1>1. Cardinality({}) = 0
  BY FS_EmptySet
<1>2. Chosen(f, {}) = [k \in 1..0 |-> f[Nth({}, k)]]
  BY <1>1 DEF Chosen
<1>3. QED
  BY <1>2

(* What Bindings gives for a route that the whole walk has followed. *)
LEMMA BindingsOfWalk ==
  ASSUME NEW r, IsList(Pattern(r)),
         \A i \in 1..Len(Pattern(r)) : Kind(Pattern(r)[i]) # "catchAll"
  PROVE  Bindings(Pattern(r), Target) = Bound(r, Len(Pattern(r)))
<1>. DEFINE p == Pattern(r)
<1>1. [i \in 1..Len(p) |-> <<p[i].text, Value(p, Target, i)>>]
        = [i \in 1..Len(p) |-> <<p[i].text, <<Part(i)>> >>]
  BY DEF Value, Part
<1>2. Named(p) = Named(p) \cap (1..Len(p))
  BY DEF Named
<1>3. QED
  BY <1>1, <1>2 DEF Bindings, Bound

LEMMA BindingsOfCatchAll ==
  ASSUME NEW r, IsList(Pattern(r)), NEW k \in Nat, Len(Pattern(r)) = k + 1,
         Kind(Pattern(r)[k + 1]) = "catchAll",
         \A i \in 1..k : Kind(Pattern(r)[i]) # "catchAll"
  PROVE  Bindings(Pattern(r), Target) =
           Append(Bound(r, k), <<Pattern(r)[k + 1].text, From(Target, k + 1)>>)
<1>. DEFINE p == Pattern(r)
            I == Named(p) \cap (1..k)
            f == [i \in 1..k |-> <<p[i].text, <<Part(i)>> >>]
            g == [i \in 1..Len(p) |-> <<p[i].text, Value(p, Target, i)>>]
<1>1. I \in SUBSET (1..k)
  OBVIOUS
<1>2. \A i \in I : f[i] = g[i]
  BY DEF Value, Part
<1>3. g[k + 1] = <<p[k + 1].text, From(Target, k + 1)>>
  BY DEF Value
<1>4. Named(p) = I \cup {k + 1}
  BY DEF Named
<1>5. Bindings(p, Target) = Chosen(g, Named(p)) /\ Bound(r, k) = Chosen(f, I)
  BY DEF Bindings, Bound
<1>. HIDE DEF p, I, f, g
<1>6. Chosen(g, I \cup {k + 1}) = Append(Chosen(f, I), g[k + 1])
  BY <1>1, <1>2, ChosenOneMore
<1>7. QED
  BY <1>3, <1>4, <1>5, <1>6 DEF p

----------------------------------------------------------------------------
(* Find keeps the invariant. *)

LEMMA TargetIsList ==
  ASSUME NEW path, IsList(path)
  PROVE  IsList(Trimmed(path))
<1>. DEFINE R == {path[i] : i \in 1..Len(path)}
<1>1. Len(path) \in Nat
  BY ListFacts
<1>2. \A i \in 1..Len(path) - 1 : path[i] \in R
  BY <1>1
<1>. HIDE DEF R
<1>3. SubSeq(path, 1, Len(path) - 1) \in Seq(R)
  BY <1>1, <1>2, SubSeqProperties
<1>4. IsList(SubSeq(path, 1, Len(path) - 1))
  BY <1>3, SeqIsList
<1>5. QED
  BY <1>4 DEF Trimmed

LEMMA TrimmedIs ==
  ASSUME NEW path
  PROVE  Router!Trimmed(path) = Trimmed(path) /\ Router!Table!Trimmed(path) = Trimmed(path)
BY DEF Router!Trimmed, Router!Table!Trimmed, Trimmed, NonEmpty, Router!Table!NonEmpty

LEMMA NoMethod ==
  ASSUME TrieInv, ~Router!Asked("add"), NEW m
  PROVE  /\ Router!Root(m) \in nodes <=> Rivals(table, m) # {}
         /\ Router!Root(m) \in nodes =>
              \E r \in table : r.method = m /\ Router!Root(m) = Way(r, 0)
<1>1. ASSUME Router!Root(m) \in nodes
      PROVE  \E r \in table : r.method = m /\ Router!Root(m) = Way(r, 0)
  <2>1. OnAWay(Router!Root(m))
    BY <1>1 DEF TrieInv, NoOtherNodes
  <2>2. PICK r \in table : \E k \in 0..Len(Pattern(r)) : Router!Root(m) = Way(r, k)
    BY <2>1 DEF OnAWay
  <2>3. PICK k \in 0..Len(Pattern(r)) : Router!Root(m) = Way(r, k)
    BY <2>2
  <2>4. NodeAt(m, << >>, 0) = NodeAt(r.method, Pattern(r), k) /\ k \in Nat
    BY <2>3, RootIsNode DEF Way
  <2>5. k = 0 /\ r.method = m
    BY <2>4, SameNode
  <2>6. QED
    BY <2>3, <2>5
<1>2. ASSUME NEW r \in table, r.method = m PROVE Router!Root(m) \in nodes
  <2>1. 0 \in 0..Len(Pattern(r))
    BY PatternsAreLists
  <2>2. Way(r, 0) \in nodes
    BY <2>1 DEF TrieInv, WaysStand
  <2>3. QED
    BY <2>2, <1>2, RootIsNode DEF Way
<1>3. QED
  BY <1>1, <1>2 DEF Rivals

LEMMA FindCalledKeeps ==
  ASSUME TrieInv, NEW m, NEW path, IsList(path), Router!FindCalled(m, path)
  PROVE  /\ TrieInv' /\ table' = table /\ globalMiddlewares' = globalMiddlewares
         /\ call'.op = "find" /\ call'.method = m
         /\ answer' = IF Rivals(table, m) = {}
                      THEN [kind |-> "methodNotFound", route |-> NoRoute, params |-> << >>]
                      ELSE [kind |-> "pending", route |-> NoRoute, params |-> << >>]
<1>1. /\ answer.kind # "pending"
      /\ call'.op = "find" /\ call'.method = m /\ call'.path = path
      /\ at' = Router!Root(m) /\ rest' = Trimmed(path) /\ params' = << >>
      /\ UNCHANGED <<globalMiddlewares, nodes, label, route>>
      /\ answer' = IF Router!Root(m) \in nodes
                   THEN [kind |-> "pending", route |-> NoRoute, params |-> << >>]
                   ELSE [kind |-> "methodNotFound", route |-> NoRoute, params |-> << >>]
  BY TrimmedIs DEF Router!FindCalled, Router!Idle, Router!Ask, Router!Pending, Router!Return,
                   Router!trieVars
<1>2. ~Router!Asked("add") /\ ~Router!Asked("add")'
  BY <1>1 DEF Router!Asked
<1>3. table' = table
  BY <1>1 DEF table, Router!Routes
<1>4. Labelled' /\ RoutesSit' /\ WaysStand'
  BY <1>1, <1>3 DEF TrieInv, Labelled, RoutesSit, WaysStand
<1>5. NoOtherNodes' /\ AddOnItsWay'
  BY <1>1, <1>2, <1>3 DEF TrieInv, NoOtherNodes, AddOnItsWay, OnAWay
<1>6. FindOnItsWay'
  <2>1. CASE Router!Root(m) \in nodes
    <3>1. PICK r \in table : r.method = m /\ Router!Root(m) = Way(r, 0)
      BY <1>2, <2>1, NoMethod
    <3>2. /\ IsList(Trimmed(path)) /\ Ahead(Trimmed(path), Trimmed(path))
          /\ Behind(Trimmed(path), Trimmed(path)) = 0
      BY TargetIsList, WalkStarts
    <3>3. Target' = Trimmed(path) /\ Walked' = 0
      BY <1>1, <3>2 DEF Target, Walked
    <3>4. Bound(r, Walked)' = << >>
      <4>1. Named(Pattern(r)) \cap (1..0) = {}
        OBVIOUS
      <4>2. Bound(r, Walked)' =
              Chosen([i \in 1..0 |-> <<Pattern(r)[i].text, <<Part(i)'>> >>], Named(Pattern(r)) \cap (1..0))
        BY <3>3 DEF Bound
      <4>3. QED
        BY <4>1, <4>2, ChosenNone
    <3>5. Len(Pattern(r)) \in Nat
      BY PatternsAreLists
    <3>6. Followed(r)'
      <4>1. (r.method = call.method)' /\ (at = Way(r, Walked))'
        BY <1>1, <3>1, <3>3
      <4>2. (\A i \in 1..Walked : Led(r, i))'
        BY <3>3
      <4>3. (params = Bound(r, Walked))'
        BY <1>1, <3>4
      <4>4. (Walked <= Len(Pattern(r)))'
        BY <3>3, <3>5
      <4>5. QED
        BY <4>1, <4>2, <4>3, <4>4 DEF Followed
    <3>7. QED
      BY <1>1, <1>3, <3>2, <3>3, <3>6 DEF FindOnItsWay
  <2>2. CASE Router!Root(m) \notin nodes
    BY <1>1, <2>2 DEF FindOnItsWay, Router!Asked
  <2>3. QED
    BY <2>1, <2>2
<1>7. answer' = IF Rivals(table, m) = {}
                THEN [kind |-> "methodNotFound", route |-> NoRoute, params |-> << >>]
                ELSE [kind |-> "pending", route |-> NoRoute, params |-> << >>]
  BY <1>1, <1>2, NoMethod
<1>8. QED
  BY <1>1, <1>3, <1>4, <1>5, <1>6, <1>7 DEF TrieInv

LEMMA FindFacts ==
  ASSUME TrieInv, Router!Asked("find")
  PROVE  /\ IsList(Target) /\ Ahead(rest, Target)
         /\ Walked \in Nat /\ Walked <= Len(Segments(Target))
         /\ IsList(Segments(Target)) /\ Len(Segments(Target)) \in Nat
         /\ \E r \in table : Followed(r)
         /\ ~Router!Asked("add")
         /\ \A n \in nodes : OnAWay(n)
<1>1. IsList(Target) /\ Ahead(rest, Target) /\ \E r \in table : Followed(r)
  BY DEF TrieInv, FindOnItsWay
<1>2. Walked \in Nat /\ Walked <= Len(Segments(Target)) /\ IsList(Segments(Target)) /\ Len(Segments(Target)) \in Nat
  BY <1>1, WalkFacts, SegmentsFacts DEF Walked
<1>3. ~Router!Asked("add")
  BY DEF Router!Asked
<1>4. \A n \in nodes : OnAWay(n)
  BY <1>3 DEF TrieInv, NoOtherNodes
<1>5. QED
  BY <1>1, <1>2, <1>3, <1>4

(* A child of the node the walk is at is on the way of a route that the    *)
(* walk has followed.                                                      *)
LEMMA ChildFollowed ==
  ASSUME TrieInv, Router!Asked("find"), NEW e, Append(at, e) \in nodes
  PROVE  \E s \in table :
           /\ Followed(s) /\ Walked + 1 \in 1..Len(Pattern(s))
           /\ Way(s, Walked + 1) = Append(at, e) /\ Edge(Pattern(s)[Walked + 1]) = e
           /\ label[Append(at, e)] = Name(Pattern(s)[Walked + 1])
<1>1. PICK r \in table : Followed(r)
  BY FindFacts
<1>2. IsList(Target) /\ Ahead(rest, Target) /\ Walked \in Nat /\ OnAWay(Append(at, e))
  BY FindFacts
<1>3. PICK s \in table : \E k \in 0..Len(Pattern(s)) : Append(at, e) = Way(s, k)
  BY <1>2 DEF OnAWay
<1>4. PICK k \in 0..Len(Pattern(s)) : Append(at, e) = Way(s, k)
  BY <1>3
<1>5. at = Way(r, Walked)
  BY <1>1 DEF Followed
<1>6. IsList(at) /\ Len(at) = Walked + 1
  BY <1>2, <1>5, NodeIsList DEF Way
<1>7. /\ IsList(Append(at, e)) /\ Len(Append(at, e)) = Walked + 2 /\ Append(at, e)[Walked + 2] = e
      /\ \A i \in 1..Walked + 1 : Append(at, e)[i] = at[i]
  BY <1>2, <1>6, AppendIsList
<1>8. k = Walked + 1
  <2>1. k \in Nat /\ Len(Way(s, k)) = k + 1
    BY NodeIsList DEF Way
  <2>2. QED
    BY <2>1, <1>2, <1>4, <1>7
<1>. DEFINE f == Edge(Pattern(s)[Walked + 1])
<1>9. Append(Way(s, Walked), f) = Way(s, Walked + 1)
  BY <1>2, NodeSteps DEF Way
<1>. HIDE DEF f
<1>10. /\ IsList(Way(s, Walked)) /\ Len(Way(s, Walked)) = Walked + 1
  BY <1>2, NodeIsList DEF Way
<1>11. /\ Append(Way(s, Walked), f)[Walked + 2] = f
       /\ \A i \in 1..Walked + 1 : Append(Way(s, Walked), f)[i] = Way(s, Walked)[i]
  BY <1>2, <1>10, AppendIsList
<1>12. f = e /\ at = Way(s, Walked)
  <2>1. f = e /\ \A i \in 1..Walked + 1 : at[i] = Way(s, Walked)[i]
    BY <1>4, <1>7, <1>8, <1>9, <1>11
  <2>2. QED
    BY <2>1, <1>6, <1>10, SameLists
<1>13. Len(Pattern(s)) \in Nat
  BY PatternsAreLists
<1>14. Followed(s)
  BY <1>1, <1>2, <1>4, <1>8, <1>12, <1>13, FollowedToo
<1>15. label[Append(at, e)] = Name(Pattern(s)[Walked + 1])
  <2>1. k # 0 /\ label[Way(s, k)] = Name(Pattern(s)[k])
    BY <1>2, <1>8 DEF TrieInv, WaysStand
  <2>2. QED
    BY <2>1, <1>4, <1>8
<1>16. QED
  BY <1>2, <1>4, <1>8, <1>12, <1>13, <1>14, <1>15 DEF f

LEMMA FollowKeeps ==
  ASSUME TrieInv, Router!Asked("find"), rest # << >>, NonEmpty(Head(rest)),
         NEW s \in table, Followed(s), Walked + 1 \in 1..Len(Pattern(s)),
         Led(s, Walked + 1),
         at' = Way(s, Walked + 1), params' = Bound(s, Walked + 1), rest' = Tail(rest),
         UNCHANGED <<nodes, label, route, call, answer>>
  PROVE  TrieInv' /\ table' = table
<1>1. /\ IsList(Target) /\ Ahead(rest, Target) /\ Walked \in Nat
      /\ ~Router!Asked("add") /\ ~Router!Asked("add")'
  BY FindFacts DEF Router!Asked
<1>2. Target' = Target /\ table' = table
  BY DEF Target, table, Router!Routes
<1>3. Ahead(Tail(rest), Target) /\ Walked' = Walked + 1
  BY <1>1, <1>2, WalkSteps DEF Walked
<1>4. Labelled' /\ RoutesSit' /\ WaysStand'
  BY <1>2 DEF TrieInv, Labelled, RoutesSit, WaysStand
<1>5. NoOtherNodes' /\ AddOnItsWay'
  BY <1>1, <1>2 DEF TrieInv, NoOtherNodes, AddOnItsWay, OnAWay
<1>6. Followed(s)'
  <2>1. \A i : Led(s, i)' <=> Led(s, i)
    BY <1>2 DEF Led, Part, Router!Static, Router!Child
  <2>2. Bound(s, Walked)' = Bound(s, Walked + 1)
    BY <1>2, <1>3 DEF Bound, Part
  <2>3. \A i \in 1..Walked' : Led(s, i)
    BY <1>1, <1>3 DEF Followed
  <2>4. Walked' <= Len(Pattern(s)) /\ at' = Way(s, Walked') /\ s.method = call'.method
    BY <1>1, <1>3 DEF Followed
  <2>5. QED
    BY <2>1, <2>2, <2>3, <2>4 DEF Followed
<1>7. FindOnItsWay'
  BY <1>1, <1>2, <1>3, <1>6 DEF FindOnItsWay
<1>8. QED
  BY <1>2, <1>4, <1>5, <1>7 DEF TrieInv

LEMMA FindEmptyKeeps ==
  ASSUME TrieInv, Router!FindEmpty
  PROVE  TrieInv' /\ table' = table
<1>1. /\ Router!Asked("find") /\ rest # << >> /\ ~NonEmpty(Head(rest)) /\ rest' = Tail(rest)
      /\ UNCHANGED <<nodes, label, route, call, at, params, answer>>
  BY DEF Router!FindEmpty, Router!Finding, NonEmpty, Router!trieVars
<1>2. IsList(Target) /\ Ahead(rest, Target) /\ ~Router!Asked("add") /\ ~Router!Asked("add")'
  BY <1>1, FindFacts DEF Router!Asked
<1>3. Target' = Target /\ table' = table
  BY <1>1 DEF Target, table, Router!Routes
<1>4. Ahead(Tail(rest), Target) /\ Walked' = Walked
  BY <1>1, <1>2, <1>3, WalkSteps DEF Walked
<1>5. Labelled' /\ RoutesSit' /\ WaysStand'
  BY <1>1, <1>3 DEF TrieInv, Labelled, RoutesSit, WaysStand
<1>6. NoOtherNodes' /\ AddOnItsWay'
  BY <1>1, <1>2, <1>3 DEF TrieInv, NoOtherNodes, AddOnItsWay, OnAWay
<1>7. PICK s \in table : Followed(s)
  BY <1>1, FindFacts
<1>8. Followed(s)'
  <2>1. \A i : Led(s, i)' <=> Led(s, i)
    BY <1>1, <1>3 DEF Led, Part, Router!Static, Router!Child
  <2>2. Bound(s, Walked)' = Bound(s, Walked)
    BY <1>3, <1>4 DEF Bound, Part
  <2>3. QED
    BY <2>1, <2>2, <1>1, <1>4, <1>7 DEF Followed
<1>9. FindOnItsWay'
  BY <1>1, <1>2, <1>3, <1>4, <1>8 DEF FindOnItsWay
<1>10. QED
  BY <1>3, <1>5, <1>6, <1>9 DEF TrieInv

LEMMA PlainPart ==
  ASSUME TrieInv, Router!Asked("find"), rest # << >>, NonEmpty(Head(rest))
  PROVE  /\ Part(Walked + 1) = Head(rest) /\ Walked + 1 <= Len(Segments(Target))
         /\ From(Target, Walked + 1) = rest
BY FindFacts, WalkSteps DEF Part, Walked

LEMMA FindStaticKeeps ==
  ASSUME TrieInv, Router!FindStatic
  PROVE  TrieInv' /\ table' = table /\ answer' = answer
<1>. DEFINE e == <<"static", Head(rest).text>>
<1>1. /\ Router!Asked("find") /\ rest # << >> /\ NonEmpty(Head(rest))
      /\ Append(at, e) \in nodes /\ at' = Append(at, e)
      /\ params' = params /\ rest' = Tail(rest)
      /\ UNCHANGED <<nodes, label, route, call, answer>>
  BY DEF Router!FindStatic, Router!Finding, Router!HasStatic, Router!Follow, Router!Static,
         Router!Child, NonEmpty, Router!trieVars
<1>2. PICK s \in table :
        /\ Followed(s) /\ Walked + 1 \in 1..Len(Pattern(s))
        /\ Way(s, Walked + 1) = Append(at, e) /\ Edge(Pattern(s)[Walked + 1]) = e
  BY <1>1, ChildFollowed
<1>3. Kind(Pattern(s)[Walked + 1]) = "static"
  BY <1>2 DEF Edge
<1>4. Led(s, Walked + 1)
  BY <1>1, <1>2, PlainPart DEF Led
<1>5. Bound(s, Walked + 1) = Bound(s, Walked)
  <2>1. Walked \in Nat /\ Len(Pattern(s)) \in Nat /\ Walked + 1 <= Len(Pattern(s))
    BY <1>1, <1>2, FindFacts, PatternsAreLists
  <2>2. QED
    BY <2>1, <1>3, BoundOneMore
<1>6. params' = Bound(s, Walked + 1)
  BY <1>1, <1>2, <1>5 DEF Followed
<1>. HIDE DEF e
<1>7. QED
  BY <1>1, <1>2, <1>4, <1>6, FollowKeeps

LEMMA FindParamKeeps ==
  ASSUME TrieInv, Router!FindParam
  PROVE  TrieInv' /\ table' = table /\ answer' = answer
<1>. DEFINE e == <<"param", "">>
<1>1. /\ Router!Asked("find") /\ rest # << >> /\ NonEmpty(Head(rest))
      /\ Router!Static(at, Head(rest).text) \notin nodes
      /\ Append(at, e) \in nodes /\ at' = Append(at, e)
      /\ params' = Append(params, <<label[Append(at, e)], <<Head(rest)>> >>) /\ rest' = Tail(rest)
      /\ UNCHANGED <<nodes, label, route, call, answer>>
  BY DEF Router!FindParam, Router!Finding, Router!HasStatic, Router!Follow, Router!Param,
         Router!Child, NonEmpty, Router!trieVars
<1>2. PICK s \in table :
        /\ Followed(s) /\ Walked + 1 \in 1..Len(Pattern(s))
        /\ Way(s, Walked + 1) = Append(at, e) /\ Edge(Pattern(s)[Walked + 1]) = e
        /\ label[Append(at, e)] = Name(Pattern(s)[Walked + 1])
  BY <1>1, ChildFollowed
<1>3. Kind(Pattern(s)[Walked + 1]) = "param"
  BY <1>2 DEF Edge
<1>4. at = Way(s, Walked) /\ Walked \in Nat /\ Len(Pattern(s)) \in Nat
  <2>1. Walked \in Nat
    BY <1>1, FindFacts
  <2>2. Len(Pattern(s)) \in Nat
    BY <1>2, PatternsAreLists
  <2>3. QED
    BY <2>1, <2>2, <1>2 DEF Followed
<1>5. Led(s, Walked + 1)
  <2>1. Part(Walked + 1) = Head(rest)
    BY <1>1, PlainPart
  <2>2. PICK i : i = Walked + 1
    OBVIOUS
  <2>3. Router!Static(Way(s, i - 1), Part(i).text) \notin nodes
    <3>1. i - 1 = Walked
      BY <1>4, <2>2
    <3>2. QED
      BY <3>1, <1>1, <1>4, <2>1, <2>2
  <2>4. Edge(Pattern(s)[i]) = <<"param", "">>
    BY <1>2, <2>2
  <2>5. Led(s, i)
    BY <2>3, <2>4 DEF Led
  <2>6. QED
    BY <2>2, <2>5
<1>6. Bound(s, Walked + 1) = Append(Bound(s, Walked), <<Pattern(s)[Walked + 1].text, <<Part(Walked + 1)>> >>)
  <2>1. Walked + 1 \in 1..Len(Pattern(s))
    BY <1>2
  <2>2. Walked + 1 <= Len(Pattern(s))
    BY <2>1, <1>4
  <2>3. QED
    BY <2>2, <1>3, <1>4, BoundOneMore
<1>7. params' = Bound(s, Walked + 1)
  <2>1. label[Append(at, e)] = Pattern(s)[Walked + 1].text
    BY <1>2, <1>3 DEF Name
  <2>2. QED
    BY <2>1, <1>1, <1>2, <1>6, PlainPart DEF Followed
<1>. HIDE DEF e
<1>8. QED
  BY <1>1, <1>2, <1>5, <1>7, FollowKeeps

----------------------------------------------------------------------------
(* The answers of Find. *)

LEMMA LedKind ==
  ASSUME NEW r, NEW i, Led(r, i)
  PROVE  /\ Kind(Pattern(r)[i]) \in {"static", "param"}
         /\ Kind(Pattern(r)[i]) = "static" => Pattern(r)[i].text = Part(i).text
         /\ Kind(Pattern(r)[i]) = "param" => Router!Static(Way(r, i - 1), Part(i).text) \notin nodes
BY DEF Led, Edge

(* No route takes the walk away from one that it has followed. *)
LEMMA NotBefore ==
  ASSUME TrieInv, Router!Asked("find"), NEW s \in table, Followed(s),
         NEW q \in table, q.method = call.method,
         NEW i \in 1..Walked, i <= Len(Pattern(q)),
         SameUpTo(Pattern(s), Pattern(q), i - 1),
         Fits(Pattern(q)[i], Part(i))
  PROVE  ~(Rank(Pattern(q)[i]) > Rank(Pattern(s)[i]))
<1>1. SUFFICES ASSUME Rank(Pattern(q)[i]) > Rank(Pattern(s)[i]) PROVE FALSE
  OBVIOUS
<1>2. Led(s, i) /\ s.method = call.method /\ Walked \in Nat
  BY FindFacts DEF Followed
<1>3. Kind(Pattern(s)[i]) = "param" /\ Kind(Pattern(q)[i]) = "static"
  BY <1>1, <1>2, LedKind DEF Rank
<1>4. Pattern(q)[i].text = Part(i).text
  BY <1>3 DEF Fits
<1>5. Append(Way(q, i - 1), Edge(Pattern(q)[i])) = Way(q, i)
  <2>1. i - 1 \in Nat /\ i - 1 + 1 = i
    BY <1>2
  <2>2. QED
    BY <2>1, NodeSteps DEF Way
<1>6. Way(q, i - 1) = Way(s, i - 1)
  <2>1. i - 1 \in Nat /\ \A j \in 1..i - 1 : Edge(Pattern(s)[j]) = Edge(Pattern(q)[j])
    BY <1>2 DEF SameUpTo
  <2>2. QED
    BY <2>1, <1>2, SameWay
<1>7. Way(q, i) \in nodes
  <2>1. i \in 0..Len(Pattern(q))
    BY <1>2, PatternsAreLists
  <2>2. QED
    BY <2>1 DEF TrieInv, WaysStand
<1>8. Way(q, i) = Router!Static(Way(s, i - 1), Part(i).text)
  BY <1>3, <1>4, <1>5, <1>6, ChildOf
<1>9. QED
  BY <1>2, <1>3, <1>7, <1>8, LedKind

(* A route in reach goes on from where the walk is. *)
LEMMA ReachableFollowed ==
  ASSUME TrieInv, Router!Asked("find"), NEW q \in Reachable(table, call.method, Target)
  PROVE  /\ q \in table /\ q.method = call.method
         /\ Matches(Pattern(q), Segments(Target))
         /\ \A s \in Rivals(table, call.method) : ~Shadows(Pattern(s), Pattern(q), Segments(Target))
         /\ Walked <= Len(Pattern(q)) /\ Followed(q)
<1>1. PICK r \in table : Followed(r)
  BY FindFacts
<1>. DEFINE a == Pattern(r)
            b == Pattern(q)
            parts == Segments(Target)
            D == {i \in 1..Walked : i > Len(b) \/ Edge(b[i]) # Edge(a[i])}
<1>2. /\ q \in table /\ q.method = call.method /\ Matches(b, parts)
      /\ \A s \in Rivals(table, call.method) : ~Shadows(Pattern(s), b, parts)
  BY ReachableIs DEF Rivals
<1>3. /\ r.method = call.method /\ at = Way(r, Walked) /\ Walked <= Len(a)
      /\ \A i \in 1..Walked : Led(r, i)
  BY <1>1 DEF Followed
<1>4. /\ Walked \in Nat /\ Walked <= Len(parts) /\ Len(parts) \in Nat
      /\ IsList(a) /\ IsList(b) /\ Len(a) \in Nat /\ Len(b) \in Nat
      /\ IsList(Target) /\ Ahead(rest, Target)
  BY <1>2, FindFacts, PatternsAreLists
<1>5. ~Shadows(a, b, parts)
  BY <1>2, <1>3 DEF Rivals
<1>6. D = {}
  <2>1. SUFFICES ASSUME D # {} PROVE FALSE
    OBVIOUS
  <2>2. D \in SUBSET Nat
    BY <1>4
  <2>3. PICK i \in D : \A j \in D : i <= j
    BY <2>1, <2>2, Least
  <2>4. i \in 1..Walked /\ Led(r, i)
    BY <2>3, <1>3
  <2>5. \A j \in 1..i - 1 : j <= Len(b) /\ Edge(b[j]) = Edge(a[j])
    <3>1. SUFFICES ASSUME NEW j \in 1..i - 1 PROVE j <= Len(b) /\ Edge(b[j]) = Edge(a[j])
      OBVIOUS
    <3>2. j \in 1..Walked /\ j \notin D
      BY <2>3, <2>4, <1>4
    <3>3. QED
      BY <3>2, <1>4
  <2>6. CASE i > Len(b)
    <3>1. Len(b) < Len(parts)
      BY <2>4, <2>6, <1>4
    <3>2. EndsInCatchAll(b)
      BY <3>1, <1>2, <1>4 DEF Matches, Exact
    <3>3. Len(b) # 0 /\ Kind(b[Len(b)]) = "catchAll"
      BY <3>2, <1>4, ListFacts DEF EndsInCatchAll
    <3>4. Len(b) \in 1..i - 1 /\ Len(b) \in 1..Walked
      BY <3>3, <2>4, <2>6, <1>4
    <3>5. Kind(a[Len(b)]) = "catchAll"
      BY <3>3, <3>4, <2>5, EdgeTells
    <3>6. QED
      BY <3>4, <3>5, <1>3, LedKind
  <2>7. CASE ~(i > Len(b))
    <3>1. i \in 1..Len(b) /\ i <= Len(a) /\ i <= Len(parts) /\ Edge(b[i]) # Edge(a[i])
      BY <2>3, <2>4, <2>7, <1>3, <1>4
    <3>2. SameUpTo(b, a, i - 1)
      BY <2>4, <2>5, <3>1, <1>4 DEF SameUpTo
    <3>3. Fits(a[i], parts[i])
      BY <2>4, LedKind DEF Fits, Part
    <3>4. ~(Rank(a[i]) > Rank(b[i]))
      BY <3>1, <3>2, <3>3, <1>5 DEF Shadows
    <3>5. Kind(a[i]) \in {"static", "param"} /\ Kind(b[i]) \in {"static", "param", "catchAll"}
      BY <2>4, LedKind, ChildOf
    <3>6. CASE Kind(a[i]) = "static"
      <4>1. Kind(b[i]) = "static"
        BY <3>4, <3>5, <3>6 DEF Rank
      <4>2. b[i].text = parts[i].text
        BY <3>1, <4>1, <1>2, <1>4, MatchFits
      <4>3. a[i].text = parts[i].text
        BY <2>4, <3>6, LedKind DEF Part
      <4>4. QED
        BY <3>1, <3>6, <4>1, <4>2, <4>3 DEF Edge
    <3>7. CASE Kind(a[i]) = "param"
      <4>1. Kind(b[i]) \in {"static", "param"}
        BY <3>4, <3>5, <3>7 DEF Rank
      <4>2. CASE Kind(b[i]) = "param"
        BY <3>1, <3>7, <4>2 DEF Edge
      <4>3. CASE Kind(b[i]) = "static"
        <5>1. b[i].text = parts[i].text
          BY <3>1, <4>3, <1>2, <1>4, MatchFits
        <5>2. Append(Way(q, i - 1), Edge(b[i])) = Way(q, i) /\ Way(q, i - 1) = Way(r, i - 1)
          <6>1. i - 1 \in Nat /\ i - 1 + 1 = i
            BY <2>4, <1>4
          <6>2. Append(Way(q, i - 1), Edge(b[i])) = Way(q, i)
            BY <6>1, NodeSteps DEF Way
          <6>3. Way(q, i - 1) = Way(r, i - 1)
            BY <6>1, <2>5, <1>2, <1>3, SameWay
          <6>4. QED
            BY <6>2, <6>3
        <5>3. Way(q, i) \in nodes
          <6>1. i \in 0..Len(b)
            BY <3>1, <1>4
          <6>2. QED
            BY <6>1, <1>2 DEF TrieInv, WaysStand
        <5>4. Way(q, i) = Router!Static(Way(r, i - 1), Part(i).text)
          BY <5>1, <5>2, <4>3, ChildOf DEF Part
        <5>5. QED
          BY <5>3, <5>4, <2>4, <3>7, LedKind
      <4>4. QED
        BY <4>1, <4>2, <4>3
    <3>8. QED
      BY <3>5, <3>6, <3>7
  <2>8. QED
    BY <2>6, <2>7
<1>7. \A i \in 1..Walked : i <= Len(b) /\ Edge(b[i]) = Edge(a[i])
  <2>1. SUFFICES ASSUME NEW i \in 1..Walked PROVE i <= Len(b) /\ Edge(b[i]) = Edge(a[i])
    OBVIOUS
  <2>2. ~(i > Len(b) \/ Edge(b[i]) # Edge(a[i]))
    BY <1>6
  <2>3. QED
    BY <2>2, <1>4
<1>8. Walked <= Len(b)
  BY <1>4, <1>7
<1>9. at = Way(q, Walked)
  BY <1>2, <1>3, <1>4, <1>7, SameWay
<1>10. Followed(q)
  BY <1>1, <1>2, <1>4, <1>8, <1>9, FollowedToo
<1>11. QED
  BY <1>2, <1>8, <1>10

LEMMA DoneKeeps ==
  ASSUME TrieInv, Router!Asked("find"), answer'.kind # "pending",
         UNCHANGED <<nodes, label, route, call>>
  PROVE  TrieInv' /\ table' = table
<1>1. ~Router!Asked("add")' /\ ~Router!Asked("find")' /\ ~Router!Asked("add")
  BY DEF Router!Asked
<1>2. table' = table
  BY DEF table, Router!Routes
<1>3. Labelled' /\ RoutesSit' /\ WaysStand'
  BY <1>2 DEF TrieInv, Labelled, RoutesSit, WaysStand
<1>4. NoOtherNodes' /\ AddOnItsWay' /\ FindOnItsWay'
  BY <1>1, <1>2 DEF TrieInv, NoOtherNodes, AddOnItsWay, FindOnItsWay, OnAWay
<1>5. QED
  BY <1>2, <1>3, <1>4 DEF TrieInv

LEMMA AtFacts ==
  ASSUME TrieInv, Router!Asked("find"), NEW s \in table, Followed(s)
  PROVE  /\ at = Way(s, Walked) /\ at \in nodes
         /\ s.method = call.method /\ s \in Rivals(table, call.method)
         /\ IsList(Pattern(s)) /\ Len(Pattern(s)) \in Nat /\ Walked <= Len(Pattern(s))
         /\ params = Bound(s, Walked)
         /\ \A i \in 1..Walked : /\ Led(s, i)
                                 /\ Kind(Pattern(s)[i]) # "catchAll"
                                 /\ Fits(Pattern(s)[i], Segments(Target)[i])
<1>1. /\ at = Way(s, Walked) /\ s.method = call.method /\ Walked <= Len(Pattern(s))
      /\ params = Bound(s, Walked) /\ \A i \in 1..Walked : Led(s, i)
  BY DEF Followed
<1>2. IsList(Pattern(s)) /\ Len(Pattern(s)) \in Nat /\ Walked \in Nat
  BY FindFacts, PatternsAreLists
<1>3. at \in nodes
  <2>1. Walked \in 0..Len(Pattern(s))
    BY <1>1, <1>2
  <2>2. QED
    BY <1>1, <2>1 DEF TrieInv, WaysStand
<1>4. \A i \in 1..Walked : /\ Kind(Pattern(s)[i]) # "catchAll"
                           /\ Fits(Pattern(s)[i], Segments(Target)[i])
  BY <1>1, LedKind DEF Fits, Part
<1>5. QED
  BY <1>1, <1>2, <1>3, <1>4 DEF Rivals

(* The route at the end of the path. *)
LEMMA EndFound ==
  ASSUME TrieInv, Router!Asked("find"), rest = << >>, route[at] # NoRoute
  PROVE  /\ route[at] \in Reachable(table, call.method, Target)
         /\ params = Bindings(Pattern(route[at]), Target)
<1>. DEFINE s == route[at]
            p == Pattern(s)
            parts == Segments(Target)
<1>1. PICK r \in table : Followed(r)
  BY FindFacts
<1>2. IsList(Target) /\ Ahead(rest, Target) /\ Walked \in Nat /\ Walked = Len(parts)
  BY FindFacts, WalkEnds DEF Walked
<1>3. at = Way(r, Walked) /\ at \in nodes
  BY <1>1, AtFacts
<1>4. s \in table /\ at = Way(s, Len(p)) /\ Len(p) \in Nat
  BY <1>3, TableHas, PatternsAreLists DEF TrieInv, RoutesSit
<1>5. Len(p) = Walked
  <2>1. Len(at) = Len(p) + 1 /\ Len(at) = Walked + 1
    BY <1>2, <1>3, <1>4, NodeIsList DEF Way
  <2>2. QED
    BY <2>1, <1>2, <1>4
<1>6. Followed(s)
  BY <1>1, <1>2, <1>4, <1>5, FollowedToo
<1>7. /\ s \in Rivals(table, call.method) /\ IsList(p) /\ params = Bound(s, Walked)
      /\ \A i \in 1..Walked : Kind(p[i]) # "catchAll" /\ Fits(p[i], parts[i])
  BY <1>4, <1>6, AtFacts
<1>. HIDE DEF p, parts
<1>8. ~EndsInCatchAll(p) /\ Exact(p) = Walked
  <2>1. ~EndsInCatchAll(p)
    BY <1>2, <1>5, <1>7, ListFacts DEF EndsInCatchAll
  <2>2. QED
    BY <2>1, <1>5 DEF Exact
<1>9. Matches(p, parts)
  BY <1>2, <1>7, <1>8 DEF Matches
<1>10. ASSUME NEW q \in Rivals(table, call.method) PROVE ~Shadows(Pattern(q), p, parts)
  <2>1. q \in table /\ q.method = call.method
    BY DEF Rivals
  <2>2. ~(Len(p) = Len(parts) + 1)
    BY <1>2, <1>5
  <2>3. ASSUME NEW i \in 1..Len(p), i <= Len(Pattern(q)), SameUpTo(p, Pattern(q), i - 1),
               Fits(Pattern(q)[i], parts[i])
        PROVE  ~(Rank(Pattern(q)[i]) > Rank(p[i]))
    BY <2>1, <2>3, <1>4, <1>5, <1>6, NotBefore DEF p, parts, Part
  <2>4. QED
    BY <2>2, <2>3 DEF Shadows
<1>11. s \in Reachable(table, call.method, Target)
  BY <1>7, <1>9, <1>10, ReachableIs DEF p, parts
<1>12. Bindings(p, Target) = Bound(s, Walked)
  BY <1>5, <1>7, BindingsOfWalk DEF p
<1>13. QED
  BY <1>7, <1>11, <1>12 DEF p

(* Where only a catch-all is left. *)
OnlyCatchAll ==
  \/ rest = << >> /\ route[at] = NoRoute
  \/ /\ rest # << >> /\ NonEmpty(Head(rest))
     /\ Router!Static(at, Head(rest).text) \notin nodes
     /\ Router!Param(at) \notin nodes

LEMMA RestIs ==
  ASSUME TrieInv, Router!Asked("find"), OnlyCatchAll
  PROVE  /\ From(Target, Walked + 1) = rest
         /\ rest = << >> => Walked = Len(Segments(Target))
         /\ rest # << >> => Walked < Len(Segments(Target)) /\ Part(Walked + 1) = Head(rest)
<1>1. /\ IsList(Target) /\ Ahead(rest, Target) /\ Walked \in Nat
      /\ Len(Segments(Target)) \in Nat /\ Len(Segments(Target)) = Cardinality(Filled(Target))
  BY FindFacts, SegmentsFacts
<1>2. CASE rest = << >>
  <2>1. Walked = Len(Segments(Target))
    BY <1>1, <1>2, WalkEnds DEF Walked
  <2>2. Walked + 1 > Cardinality(Filled(Target))
    BY <1>1, <2>1
  <2>3. From(Target, Walked + 1) = << >>
    BY <2>2 DEF From
  <2>4. QED
    BY <1>2, <2>1, <2>3
<1>3. CASE rest # << >>
  <2>1. NonEmpty(Head(rest))
    BY <1>3 DEF OnlyCatchAll
  <2>2. QED
    BY <1>1, <1>3, <2>1, PlainPart
<1>4. QED
  BY <1>2, <1>3

LEMMA NotBeyond ==
  ASSUME TrieInv, Router!Asked("find"), OnlyCatchAll, rest # << >>,
         NEW q \in table, Walked + 1 \in 1..Len(Pattern(q)), Way(q, Walked) = at,
         Fits(Pattern(q)[Walked + 1], Part(Walked + 1))
  PROVE  Kind(Pattern(q)[Walked + 1]) = "catchAll"
<1>1. Walked \in Nat /\ Part(Walked + 1) = Head(rest)
  BY FindFacts, RestIs
<1>2. Way(q, Walked + 1) = Append(at, Edge(Pattern(q)[Walked + 1]))
  BY <1>1, NodeSteps DEF Way
<1>3. Way(q, Walked + 1) \in nodes
  <2>1. Walked + 1 \in 0..Len(Pattern(q))
    BY <1>1
  <2>2. QED
    BY <2>1 DEF TrieInv, WaysStand
<1>4. Kind(Pattern(q)[Walked + 1]) # "param"
  BY <1>2, <1>3, ChildOf DEF OnlyCatchAll
<1>5. Kind(Pattern(q)[Walked + 1]) # "static"
  <2>1. SUFFICES ASSUME Kind(Pattern(q)[Walked + 1]) = "static" PROVE FALSE
    OBVIOUS
  <2>2. Pattern(q)[Walked + 1].text = Head(rest).text
    BY <2>1, <1>1 DEF Fits
  <2>3. QED
    BY <2>1, <2>2, <1>2, <1>3, ChildOf DEF OnlyCatchAll
<1>6. QED
  BY <1>4, <1>5, ChildOf

LEMMA CatchAllFound ==
  ASSUME TrieInv, Router!Asked("find"), OnlyCatchAll,
         Router!CatchAll(at) \in nodes, route[Router!CatchAll(at)] # NoRoute
  PROVE  /\ route[Router!CatchAll(at)] \in Reachable(table, call.method, Target)
         /\ Bindings(Pattern(route[Router!CatchAll(at)]), Target)
              = Append(params, <<label[Router!CatchAll(at)], rest>>)
<1>. DEFINE parts == Segments(Target)
<1>a. PICK e : e = <<"catchAll", "">>
  OBVIOUS
<1>b. PICK s : s = route[Append(at, e)]
  OBVIOUS
<1>c. PICK p : p = Pattern(s)
  OBVIOUS
<1>1. Router!CatchAll(at) = Append(at, e)
  BY <1>a DEF Router!CatchAll, Router!Child
<1>2. /\ IsList(Target) /\ Ahead(rest, Target) /\ Walked \in Nat /\ Walked <= Len(parts)
      /\ Len(parts) \in Nat
  BY FindFacts
<1>3. PICK r \in table :
        /\ Followed(r) /\ Walked + 1 \in 1..Len(Pattern(r))
        /\ Way(r, Walked + 1) = Append(at, e)
        /\ label[Append(at, e)] = Name(Pattern(r)[Walked + 1])
  BY <1>1, ChildFollowed
<1>4. s \in table /\ Append(at, e) = Way(s, Len(p)) /\ Len(p) \in Nat
  BY <1>1, <1>b, <1>c, TableHas, PatternsAreLists DEF TrieInv, RoutesSit
<1>5. Len(p) = Walked + 1
  <2>1. Len(Way(r, Walked + 1)) = Walked + 2 /\ Len(Way(s, Len(p))) = Len(p) + 1
    BY <1>2, <1>4, NodeIsList DEF Way
  <2>2. QED
    BY <2>1, <1>2, <1>3, <1>4
<1>6. /\ \A i \in 1..Walked + 1 : Edge(p[i]) = Edge(Pattern(r)[i])
  BY <1>2, <1>3, <1>4, <1>5, <1>c, SameWay
<1>7. at = Way(s, Walked) /\ Followed(s)
  <2>1. at = Way(r, Walked) /\ r.method = call.method
    BY <1>3 DEF Followed
  <2>2. s.method = r.method
    BY <1>2, <1>3, <1>4, <1>5, SameWay
  <2>3. \A i \in 1..Walked : Edge(p[i]) = Edge(Pattern(r)[i])
    BY <1>2, <1>6
  <2>4. Way(s, Walked) = Way(r, Walked)
    BY <1>2, <1>3, <1>4, <1>c, <2>2, <2>3, SameWay
  <2>5. Walked <= Len(p)
    BY <1>2, <1>5
  <2>6. QED
    BY <1>2, <1>3, <1>4, <1>c, <2>1, <2>2, <2>4, <2>5, FollowedToo
<1>8. /\ s \in Rivals(table, call.method) /\ IsList(p) /\ params = Bound(s, Walked)
      /\ \A i \in 1..Walked : Kind(p[i]) # "catchAll" /\ Fits(p[i], parts[i])
  BY <1>4, <1>7, <1>c, AtFacts
<1>9. Edge(p[Walked + 1]) = e /\ Kind(p[Walked + 1]) = "catchAll"
  <2>1. Append(at, Edge(p[Walked + 1])) = Append(at, e)
    BY <1>2, <1>4, <1>5, <1>7, <1>c, NodeSteps DEF Way
  <2>2. IsList(at) /\ Len(at) = Walked + 1
    BY <1>2, <1>7, NodeIsList DEF Way
  <2>3. Append(at, Edge(p[Walked + 1]))[Walked + 2] = Edge(p[Walked + 1])
        /\ Append(at, e)[Walked + 2] = e
    BY <1>2, <2>2, AppendIsList
  <2>4. Edge(p[Walked + 1]) = e
    BY <2>1, <2>3
  <2>5. QED
    <3>1. Edge(p[Walked + 1]) = <<"catchAll", "">>
      BY <2>4, <1>a
    <3>2. Kind(p[Walked + 1]) = "catchAll"
      BY <3>1 DEF Edge
    <3>3. QED
      BY <2>4, <3>2
<1>. HIDE DEF parts
<1>10. EndsInCatchAll(p) /\ Exact(p) = Walked
  <2>1. EndsInCatchAll(p)
    BY <1>2, <1>5, <1>8, <1>9, ListFacts DEF EndsInCatchAll
  <2>2. QED
    BY <2>1, <1>2, <1>5 DEF Exact
<1>11. Matches(p, parts)
  BY <1>2, <1>8, <1>10 DEF Matches
<1>12. ASSUME NEW q \in Rivals(table, call.method) PROVE ~Shadows(Pattern(q), p, parts)
  <2>1. q \in table /\ q.method = call.method
    BY DEF Rivals
  <2>2. Len(Pattern(q)) \in Nat
    BY <2>1, PatternsAreLists
  <2>3. ASSUME SameUpTo(p, Pattern(q), Walked) PROVE Way(q, Walked) = at
    BY <2>1, <2>3, <1>2, <1>4, <1>7, <1>8, <1>c, SameWay DEF SameUpTo, Rivals
  <2>4. ASSUME NEW i \in 1..Len(p), i <= Len(parts), i <= Len(Pattern(q)),
               SameUpTo(p, Pattern(q), i - 1),
               Rank(Pattern(q)[i]) > Rank(p[i]), Fits(Pattern(q)[i], parts[i])
        PROVE  FALSE
    <3>1. CASE i \in 1..Walked
      BY <2>1, <2>4, <3>1, <1>4, <1>7, <1>c, NotBefore DEF parts, Part
    <3>2. CASE i = Walked + 1
      <4>1. rest # << >>
        BY <2>4, <3>2, <1>2, RestIs DEF parts
      <4>2. Way(q, Walked) = at
        <5>1. i - 1 = Walked
          BY <3>2, <1>2
        <5>2. QED
          BY <5>1, <2>3, <2>4
      <4>3. Walked + 1 \in 1..Len(Pattern(q)) /\ Fits(Pattern(q)[Walked + 1], Part(Walked + 1))
        BY <2>2, <2>4, <3>2, <1>2 DEF parts, Part
      <4>4. Kind(Pattern(q)[Walked + 1]) = "catchAll"
        BY <2>1, <4>1, <4>2, <4>3, NotBeyond
      <4>5. QED
        BY <2>4, <3>2, <4>4, <1>9 DEF Rank
    <3>3. QED
      BY <3>1, <3>2, <1>2, <1>5
  <2>5. ASSUME Len(p) = Len(parts) + 1, Len(Pattern(q)) = Len(parts),
               SameUpTo(p, Pattern(q), Len(Pattern(q)))
        PROVE  FALSE
    <3>1. Walked = Len(parts)
      BY <2>5, <1>2, <1>5
    <3>2. rest = << >> /\ route[at] = NoRoute
      BY <3>1, <1>2, RestIs DEF OnlyCatchAll, parts
    <3>3. Way(q, Len(Pattern(q))) = at
      BY <2>3, <2>5, <3>1
    <3>4. QED
      BY <2>1, <3>2, <3>3, TableHas DEF TrieInv
  <2>6. QED
    BY <2>4, <2>5 DEF Shadows
<1>13. s \in Reachable(table, call.method, Target)
  BY <1>8, <1>11, <1>12, <1>c, ReachableIs DEF parts
<1>14. Bindings(p, Target) = Append(Bound(s, Walked), <<p[Walked + 1].text, From(Target, Walked + 1)>>)
  BY <1>2, <1>5, <1>8, <1>9, <1>c, BindingsOfCatchAll
<1>15. label[Append(at, e)] = p[Walked + 1].text
  <2>1. Way(s, Len(p)) \in nodes /\ Len(p) \in 0..Len(p) /\ Len(p) # 0
    BY <1>1, <1>2, <1>4, <1>5
  <2>2. label[Way(s, Len(p))] = Name(p[Len(p)])
    BY <2>1, <1>4, <1>c DEF TrieInv, WaysStand
  <2>3. QED
    BY <2>2, <1>4, <1>5, <1>9 DEF Name
<1>16. From(Target, Walked + 1) = rest
  BY RestIs
<1>17. QED
  BY <1>1, <1>8, <1>13, <1>14, <1>15, <1>16, <1>b, <1>c

LEMMA NothingElse ==
  ASSUME TrieInv, Router!Asked("find"), OnlyCatchAll,
         NEW q \in Reachable(table, call.method, Target)
  PROVE  Router!CatchAll(at) \in nodes /\ route[Router!CatchAll(at)] = q
<1>. DEFINE p == Pattern(q)
            parts == Segments(Target)
<1>1. /\ q \in table /\ Matches(p, parts) /\ Walked <= Len(p) /\ Followed(q)
  BY ReachableFollowed
<1>2. /\ at = Way(q, Walked) /\ IsList(p) /\ Len(p) \in Nat /\ Walked \in Nat
      /\ Len(parts) \in Nat
      /\ \A i \in 1..Walked : Kind(p[i]) # "catchAll"
  BY <1>1, AtFacts, FindFacts
<1>3. /\ rest = << >> => Walked = Len(parts)
      /\ rest # << >> => Walked < Len(parts)
  BY RestIs
<1>4. Len(p) # Walked
  <2>1. SUFFICES ASSUME Len(p) = Walked PROVE FALSE
    OBVIOUS
  <2>2. ~EndsInCatchAll(p)
    BY <2>1, <1>2, ListFacts DEF EndsInCatchAll
  <2>3. Exact(p) = Walked
    BY <2>1, <2>2 DEF Exact
  <2>4. rest = << >>
    BY <2>2, <2>3, <1>1, <1>2, <1>3 DEF Matches
  <2>5. route[at] = q /\ q # NoRoute
    BY <2>1, <1>1, <1>2, TableHas DEF TrieInv
  <2>6. QED
    BY <2>4, <2>5 DEF OnlyCatchAll
<1>5. Walked + 1 \in 1..Len(p)
  BY <1>1, <1>2, <1>4
<1>6. Kind(p[Walked + 1]) = "catchAll"
  <2>1. CASE rest = << >>
    <3>1. Len(parts) = Walked /\ Exact(p) <= Len(parts)
      BY <2>1, <1>1, <1>2, <1>3 DEF Matches, Exact
    <3>2. EndsInCatchAll(p) /\ Exact(p) = Len(p) - 1
      BY <3>1, <1>1, <1>2, <1>4 DEF Exact
    <3>3. Len(p) = Walked + 1
      BY <3>1, <3>2, <1>2, <1>5
    <3>4. QED
      BY <3>2, <3>3 DEF EndsInCatchAll
  <2>2. CASE rest # << >>
    <3>1. Fits(p[Walked + 1], Part(Walked + 1))
      BY <1>1, <1>2, <1>5, MatchFits DEF Fits, Part
    <3>2. QED
      BY <2>2, <3>1, <1>1, <1>2, <1>5, NotBeyond
  <2>3. QED
    BY <2>1, <2>2
<1>7. Len(p) = Walked + 1
  <2>1. ~(Walked + 1 \in 1..Exact(p))
    BY <1>1, <1>6 DEF Matches
  <2>2. QED
    BY <2>1, <1>2, <1>5 DEF Exact
<1>8. Way(q, Walked + 1) = Router!CatchAll(at)
  <2>1. Append(Way(q, Walked), Edge(p[Walked + 1])) = Way(q, Walked + 1)
    BY <1>2, NodeSteps DEF Way
  <2>2. QED
    BY <2>1, <1>2, <1>6, ChildOf
<1>9. QED
  BY <1>1, <1>7, <1>8, TableHas DEF TrieInv

----------------------------------------------------------------------------
(* What the table of routes is told in Router!Table means what it means    *)
(* here: its definitions are those of Routes.                              *)

LEMMA TableNth ==
  \A places, k : Router!Table!Nth(places, k) = Nth(places, k)
<1>1. \A S : Router!Table!Cardinality(S) = Cardinality(S)
  BY DEF Router!Table!Cardinality, Cardinality, Router!Table!IsFiniteSet, IsFiniteSet
<1>2. QED
  BY <1>1 DEF Router!Table!Nth, Nth

LEMMA TableChosen ==
  \A list, places : Router!Table!Chosen(list, places) = Chosen(list, places)
<1>1. \A S : Router!Table!Cardinality(S) = Cardinality(S)
  BY DEF Router!Table!Cardinality, Cardinality, Router!Table!IsFiniteSet, IsFiniteSet
<1>2. QED
  BY <1>1, TableNth DEF Router!Table!Chosen, Chosen

LEMMA TableFilled ==
  \A path : Router!Table!Filled(path) = Filled(path)
BY DEF Router!Table!Filled, Filled, Router!Table!NonEmpty, NonEmpty

LEMMA TableSegments ==
  \A path : Router!Table!Segments(path) = Segments(path)
BY TableChosen, TableFilled DEF Router!Table!Segments, Segments

LEMMA TableSegment ==
  \A s : /\ Router!Table!Kind(s) = Kind(s) /\ Router!Table!Edge(s) = Edge(s)
         /\ Router!Table!Name(s) = Name(s) /\ Router!Table!Rank(s) = Rank(s)
<1>1. \A s : Router!Table!Kind(s) = Kind(s)
  BY DEF Router!Table!Kind, Kind
<1>2. QED
  BY <1>1 DEF Router!Table!Edge, Edge, Router!Table!Name, Name, Router!Table!Rank, Rank

LEMMA TableSame ==
  /\ \A p, q, n : Router!Table!SameUpTo(p, q, n) <=> SameUpTo(p, q, n)
  /\ \A p, q : Router!Table!SameShape(p, q) <=> SameShape(p, q)
  /\ \A p, q : Router!Table!Compatible(p, q) <=> Compatible(p, q)
<1>1. \A p, q, n : Router!Table!SameUpTo(p, q, n) <=> SameUpTo(p, q, n)
  BY TableSegment DEF Router!Table!SameUpTo, SameUpTo
<1>2. \A p, q : Router!Table!SameShape(p, q) <=> SameShape(p, q)
  BY <1>1 DEF Router!Table!SameShape, SameShape
<1>3. \A p, q : Router!Table!Compatible(p, q) <=> Compatible(p, q)
  BY <1>1, TableSegment DEF Router!Table!Compatible, Compatible
<1>4. QED
  BY <1>1, <1>2, <1>3

LEMMA TableFits ==
  /\ \A s, part : Router!Table!Fits(s, part) <=> Fits(s, part)
  /\ \A p : Router!Table!EndsInCatchAll(p) <=> EndsInCatchAll(p)
  /\ \A p : Router!Table!Exact(p) = Exact(p)
<1>1. \A s, part : Router!Table!Fits(s, part) <=> Fits(s, part)
  BY TableSegment DEF Router!Table!Fits, Fits
<1>2. \A p : Router!Table!EndsInCatchAll(p) <=> EndsInCatchAll(p)
  BY TableSegment DEF Router!Table!EndsInCatchAll, EndsInCatchAll
<1>3. \A p : Router!Table!Exact(p) = Exact(p)
  BY <1>2 DEF Router!Table!Exact, Exact
<1>4. QED
  BY <1>1, <1>2, <1>3

LEMMA TableMatches ==
  /\ \A p, parts : Router!Table!Matches(p, parts) <=> Matches(p, parts)
  /\ \A q, p, parts : Router!Table!Shadows(q, p, parts) <=> Shadows(q, p, parts)
<1>1. \A p, parts : Router!Table!Matches(p, parts) <=> Matches(p, parts)
  BY TableSegment, TableFits DEF Router!Table!Matches, Matches
<1>2. \A q, p, parts : Router!Table!Shadows(q, p, parts) <=> Shadows(q, p, parts)
  BY TableSegment, TableSame, TableFits DEF Router!Table!Shadows, Shadows
<1>3. QED
  BY <1>1, <1>2

LEMMA TableRoutes ==
  /\ \A tbl, method : Router!Table!Rivals(tbl, method) = Rivals(tbl, method)
  /\ \A tbl, method, path : Router!Table!Accepts(tbl, method, path) <=> Accepts(tbl, method, path)
  /\ \A tbl, new : Router!Table!Registered(tbl, new) = Registered(tbl, new)
  /\ \A tbl : Router!Table!Split(tbl) = Split(tbl)
  /\ \A tbl, method, t : Router!Table!Reachable(tbl, method, t) = Reachable(tbl, method, t)
<1>1. \A tbl, method : Router!Table!Rivals(tbl, method) = Rivals(tbl, method)
  BY DEF Router!Table!Rivals, Rivals
<1>2. \A tbl, method, path : Router!Table!Accepts(tbl, method, path) <=> Accepts(tbl, method, path)
  BY <1>1, TableSegments, TableSame DEF Router!Table!Accepts, Accepts
<1>3. \A tbl, new : Router!Table!Registered(tbl, new) = Registered(tbl, new)
  BY TableSegments, TableSame DEF Router!Table!Registered, Registered
<1>4. \A tbl : Router!Table!Split(tbl) = Split(tbl)
  BY TableSegments DEF Router!Table!Split, Split
<1>5. \A tbl, method, t : Router!Table!Reachable(tbl, method, t) = Reachable(tbl, method, t)
  BY <1>1, <1>4, TableSegments, TableMatches DEF Router!Table!Reachable, Reachable
<1>6. QED
  BY <1>1, <1>2, <1>3, <1>4, <1>5

LEMMA TableBindings ==
  /\ \A path : Router!Table!Trimmed(path) = Trimmed(path)
  /\ \A p, t : Router!Table!Bindings(p, t) = Bindings(p, t)
<1>1. \A path : Router!Table!Trimmed(path) = Trimmed(path)
  BY DEF Router!Table!Trimmed, Trimmed, Router!Table!NonEmpty, NonEmpty
<1>2. \A S : Router!Table!Cardinality(S) = Cardinality(S)
  BY DEF Router!Table!Cardinality, Cardinality, Router!Table!IsFiniteSet, IsFiniteSet
<1>3. \A t, n : Router!Table!From(t, n) = From(t, n)
  BY <1>2, TableNth, TableFilled DEF Router!Table!From, From
<1>4. \A p, t, i : Router!Table!Value(p, t, i) = Value(p, t, i)
  BY <1>3, TableSegment, TableSegments DEF Router!Table!Value, Value
<1>5. \A p : Router!Table!Named(p) = Named(p)
  BY TableSegment DEF Router!Table!Named, Named
<1>6. \A p, t : Router!Table!Bindings(p, t) = Bindings(p, t)
  BY <1>4, <1>5, TableChosen DEF Router!Table!Bindings, Bindings
<1>7. QED
  BY <1>1, <1>6

(* What Find has answered. *)
Looked ==
  LET found == Reachable(table, call.method, Target)
  IN  \/ /\ found = {}
         /\ answer'.kind = "notFound"
      \/ \E r \in found :
           answer' = [kind |-> "found", route |-> r, params |-> Bindings(Pattern(r), Target)]

LEMMA EndLooked ==
  ASSUME TrieInv, Router!Asked("find"), rest = << >>, route[at] # NoRoute,
         Router!FoundAt(at, params)
  PROVE  TrieInv' /\ table' = table /\ Looked
<1>1. /\ answer' = [kind |-> "found", route |-> route[at], params |-> params]
      /\ UNCHANGED <<nodes, label, route, call>>
  BY DEF Router!FoundAt, Router!Return, Router!trieVars
<1>2. TrieInv' /\ table' = table
  BY <1>1, DoneKeeps
<1>3. Looked
  BY <1>1, EndFound DEF Looked
<1>4. QED
  BY <1>2, <1>3

LEMMA CatchAllLooked ==
  ASSUME TrieInv, Router!Asked("find"), OnlyCatchAll, Router!CatchAll(at) \in nodes,
         Router!FoundAt(Router!CatchAll(at), Append(params, <<label[Router!CatchAll(at)], rest>>))
  PROVE  TrieInv' /\ table' = table /\ Looked
<1>. DEFINE n == Router!CatchAll(at)
            bound == Append(params, <<label[n], rest>>)
<1>1. /\ answer' = IF route[n] # NoRoute
                   THEN [kind |-> "found", route |-> route[n], params |-> bound]
                   ELSE [kind |-> "notFound", route |-> NoRoute, params |-> bound]
      /\ UNCHANGED <<nodes, label, route, call>>
  BY DEF Router!FoundAt, Router!Return, Router!trieVars
<1>2. TrieInv' /\ table' = table
  BY <1>1, DoneKeeps
<1>3. CASE route[n] # NoRoute
  <2>1. route[n] \in Reachable(table, call.method, Target) /\ bound = Bindings(Pattern(route[n]), Target)
    BY <1>3, CatchAllFound
  <2>2. QED
    BY <1>1, <1>2, <1>3, <2>1 DEF Looked
<1>4. CASE route[n] = NoRoute
  <2>1. ASSUME NEW q \in Reachable(table, call.method, Target) PROVE FALSE
    <3>1. route[n] = q /\ q \in table
      BY NothingElse, ReachableFollowed
    <3>2. QED
      BY <1>4, <3>1, TableHas DEF TrieInv
  <2>2. QED
    BY <1>1, <1>2, <1>4, <2>1 DEF Looked
<1>5. QED
  BY <1>2, <1>3, <1>4

LEMMA MissLooked ==
  ASSUME TrieInv, Router!Asked("find"), OnlyCatchAll, Router!CatchAll(at) \notin nodes,
         Router!Miss
  PROVE  TrieInv' /\ table' = table /\ Looked
<1>1. answer'.kind = "notFound" /\ UNCHANGED <<nodes, label, route, call>>
  BY DEF Router!Miss, Router!Return, Router!trieVars
<1>2. TrieInv' /\ table' = table
  BY <1>1, DoneKeeps
<1>3. Reachable(table, call.method, Target) = {}
  BY NothingElse
<1>4. QED
  BY <1>1, <1>2, <1>3 DEF Looked

LEMMA AnswerKeeps ==
  ASSUME TrieInv, Router!FindEnd \/ Router!FindCatchAll \/ Router!FindMiss
  PROVE  /\ TrieInv' /\ table' = table /\ Looked
         /\ Router!Asked("find") /\ UNCHANGED <<globalMiddlewares, call>>
<1>1. Router!Asked("find")
  BY DEF Router!FindEnd, Router!FindCatchAll, Router!FindMiss, Router!Finding
<1>2. UNCHANGED <<globalMiddlewares, call>>
  BY DEF Router!FindEnd, Router!FindCatchAll, Router!FindMiss, Router!FoundAt, Router!Miss
<1>3. CASE Router!FindEnd
  <2>1. rest = << >>
    BY <1>3 DEF Router!FindEnd
  <2>2. CASE route[at] # NoRoute /\ Router!FoundAt(at, params)
    BY <1>1, <1>2, <2>1, <2>2, EndLooked
  <2>3. CASE /\ route[at] = NoRoute
             /\ Router!TakesEmpty(at)
             /\ Router!FoundAt(Router!CatchAll(at), Append(params, <<label[Router!CatchAll(at)], << >> >>))
    <3>1. OnlyCatchAll /\ Router!CatchAll(at) \in nodes
      BY <2>1, <2>3 DEF OnlyCatchAll, Router!TakesEmpty
    <3>2. Router!FoundAt(Router!CatchAll(at), Append(params, <<label[Router!CatchAll(at)], rest>>))
      BY <2>1, <2>3
    <3>3. QED
      BY <1>1, <1>2, <2>3, <3>1, <3>2, CatchAllLooked
  <2>4. CASE route[at] = NoRoute /\ ~Router!TakesEmpty(at) /\ Router!Miss
    <3>1. OnlyCatchAll /\ Router!CatchAll(at) \notin nodes
      BY <2>1, <2>4 DEF OnlyCatchAll, Router!TakesEmpty
    <3>2. QED
      BY <1>1, <1>2, <2>4, <3>1, MissLooked
  <2>5. QED
    BY <1>3, <2>2, <2>3, <2>4 DEF Router!FindEnd
<1>4. CASE Router!FindCatchAll
  <2>1. /\ OnlyCatchAll /\ Router!CatchAll(at) \in nodes
    BY <1>4 DEF Router!FindCatchAll, Router!Finding, OnlyCatchAll, NonEmpty, Router!HasStatic
  <2>2. Router!FoundAt(Router!CatchAll(at), Append(params, <<label[Router!CatchAll(at)], rest>>))
    BY <1>4 DEF Router!FindCatchAll, Router!Binding
  <2>3. QED
    BY <1>1, <1>2, <2>1, <2>2, CatchAllLooked
<1>5. CASE Router!FindMiss
  <2>1. Router!Param(at) \notin nodes /\ Router!CatchAll(at) \notin nodes /\ Router!Miss
    BY <1>5 DEF Router!FindMiss
  <2>2. OnlyCatchAll
    BY <1>5, <2>1 DEF Router!FindMiss, Router!Finding, OnlyCatchAll, NonEmpty, Router!HasStatic
  <2>3. QED
    BY <1>1, <1>2, <2>1, <2>2, MissLooked
<1>6. QED
  BY <1>1, <1>2, <1>3, <1>4, <1>5

----------------------------------------------------------------------------
(* The steps of the table of routes. *)

TableStep == Router!Table!Next \/ UNCHANGED Router!Table!vars

LEMMA TableLooksUp ==
  ASSUME TrieInv, Router!Asked("find"), Looked, table' = table,
         UNCHANGED <<globalMiddlewares, call>>
  PROVE  Router!Table!Lookup
<1>1. Router!Table!Trimmed(call.path) = Target
  BY TableBindings DEF Target
<1>2. \A r : Router!Table!Segments(r.path) = Pattern(r)
  BY TableSegments DEF Pattern
<1>3. Router!Table!Reachable(Router!Routes, call.method, Target) = Reachable(table, call.method, Target)
  BY TableRoutes DEF table
<1>4. \A p : Router!Table!Bindings(p, Target) = Bindings(p, Target)
  BY TableBindings
<1>5. CASE Reachable(table, call.method, Target) = {} /\ answer'.kind = "notFound"
  BY <1>1, <1>3, <1>5 DEF Router!Table!Lookup, Router!Table!Pending, Router!Table!Nothing, table, Router!Asked
<1>6. CASE \E r \in Reachable(table, call.method, Target) :
             answer' = [kind |-> "found", route |-> r, params |-> Bindings(Pattern(r), Target)]
  <2>1. PICK r \in Reachable(table, call.method, Target) :
          answer' = [kind |-> "found", route |-> r, params |-> Bindings(Pattern(r), Target)]
    BY <1>6
  <2>2. IsList(Target)
    BY FindFacts
  <2>3. (CHOOSE q \in Reachable(table, call.method, Target) : TRUE) = r
    BY <2>2, OneReachable
  <2>4. QED
    BY <1>1, <1>2, <1>3, <1>4, <2>1, <2>3
    DEF Router!Table!Lookup, Router!Table!Pending, table, Router!Asked
<1>7. QED
  BY <1>5, <1>6 DEF Looked

----------------------------------------------------------------------------
(* What the calls make of paths. *)

LEMMA ConcatIsList ==
  ASSUME NEW a, NEW b, IsList(a), IsList(b)
  PROVE  /\ IsList(a \o b)
         /\ Len(a \o b) = Len(a) + Len(b)
         /\ \A i \in 1..Len(a) + Len(b) :
              (a \o b)[i] = IF i <= Len(a) THEN a[i] ELSE b[i - Len(a)]
<1>. DEFINE R == {a[i] : i \in 1..Len(a)} \cup {b[i] : i \in 1..Len(b)}
<1>1. a \in Seq(R) /\ b \in Seq(R)
  BY SeqMonotonic DEF IsList
<1>. HIDE DEF R
<1>2. a \o b \in Seq(R)
  BY <1>1
<1>3. IsList(a \o b)
  BY <1>2, SeqIsList
<1>4. QED
  BY <1>1, <1>3, ConcatProperties

LEMMA TailIsList ==
  ASSUME NEW list, IsList(list), list # << >>
  PROVE  /\ IsList(Tail(list)) /\ Len(Tail(list)) = Len(list) - 1
         /\ \A i \in 1..Len(list) - 1 : Tail(list)[i] = list[i + 1]
<1>. DEFINE R == {list[i] : i \in 1..Len(list)}
<1>1. list \in Seq(R)
  BY DEF IsList
<1>. HIDE DEF R
<1>2. Tail(list) \in Seq(R)
  BY <1>1, HeadTailProperties
<1>3. IsList(Tail(list))
  BY <1>2, SeqIsList
<1>4. QED
  BY <1>1, <1>3, HeadTailProperties

LEMMA PrefixIsList ==
  ASSUME NEW list, IsList(list), NEW n \in 0..Len(list)
  PROVE  IsList(SubSeq(list, 1, n)) /\ Len(SubSeq(list, 1, n)) = n
<1>. DEFINE R == {list[i] : i \in 1..Len(list)}
<1>1. list \in Seq(R)
  BY DEF IsList
<1>. HIDE DEF R
<1>2. Len(list) \in Nat
  BY ListFacts
<1>3. \A i \in 1..n : list[i] \in R
  BY <1>1, <1>2, ElementOfSeq
<1>4. SubSeq(list, 1, n) \in Seq(R) /\ Len(SubSeq(list, 1, n)) = n
  BY <1>1, <1>2, <1>3, SubSeqProperties
<1>5. QED
  BY <1>4, SeqIsList

LEMMA OneIsList ==
  ASSUME NEW e
  PROVE  IsList(<<e>>) /\ Len(<<e>>) = 1 /\ <<e>>[1] = e /\ <<e>> # << >>
<1>1. <<e>> \in Seq({e})
  OBVIOUS
<1>2. IsList(<<e>>)
  BY <1>1, SeqIsList
<1>3. QED
  BY <1>2

LEMMA LongerIsPath ==
  ASSUME NEW a, NEW e, IsList(a)
  PROVE  IsPath(a \o <<e>>)
<1>1. IsList(a \o <<e>>) /\ Len(a \o <<e>>) = Len(a) + 1 /\ Len(a) \in Nat
  BY OneIsList, ConcatIsList, ListFacts
<1>2. QED
  BY <1>1 DEF IsPath

LEMMA FrontIsList ==
  ASSUME NEW path, IsPath(path)
  PROVE  IsList(Front(path))
<1>1. Len(path) - 1 \in 0..Len(path)
  BY ListFacts DEF IsPath
<1>2. QED
  BY <1>1, PrefixIsList DEF Front, IsPath

LEMMA ConcatIsPath ==
  ASSUME NEW prefix, NEW path, IsPath(prefix), IsPath(path)
  PROVE  IsPath(Concat(prefix, path))
<1>. DEFINE a == Front(prefix)
            e == Fuse(Last(prefix), Head(path))
            b == Tail(path)
<1>1. IsPath(a \o <<e>>)
  BY FrontIsList, LongerIsPath
<1>2. IsList(b) /\ Len(b) \in Nat
  BY TailIsList, ListFacts DEF IsPath
<1>3. Len(a \o <<e>>) \in Nat /\ Len(a \o <<e>>) # 0
  BY <1>1, ListFacts DEF IsPath
<1>4. IsList((a \o <<e>>) \o b) /\ Len((a \o <<e>>) \o b) = Len(a \o <<e>>) + Len(b)
  BY <1>1, <1>2, ConcatIsList DEF IsPath
<1>5. IsPath((a \o <<e>>) \o b)
  BY <1>2, <1>3, <1>4, ListFacts DEF IsPath
<1>6. QED
  BY <1>5 DEF Concat

LEMMA StripIsList ==
  ASSUME NEW path, IsPath(path)
  PROVE  IsList(Strip(path))
BY TailIsList DEF IsPath, Strip

LEMMA BelowIsPath ==
  ASSUME NEW path, IsPath(path)
  PROVE  IsPath(Below(path))
<1>1. IsPath(Front(path) \o <<Wildcard>>) /\ IsPath(path \o <<Wildcard>>)
  BY FrontIsList, LongerIsPath DEF IsPath
<1>2. QED
  BY <1>1 DEF Below

LEMMA Greatest ==
  ASSUME NEW n \in Nat, NEW T \in SUBSET (1..n), T # {}
  PROVE  \E x \in T : \A y \in T : y <= x
<1>. DEFINE D == {m \in Nat : \A y \in T : y <= m}
<1>1. n \in D /\ D \in SUBSET Nat
  OBVIOUS
<1>2. PICK m \in D : \A x \in D : m <= x
  BY <1>1, Least
<1>3. m \in Nat /\ \A y \in T : y <= m
  BY <1>2
<1>4. m \in T
  <2>1. SUFFICES ASSUME m \notin T PROVE FALSE
    OBVIOUS
  <2>2. m # 0
    <3>1. PICK y \in T : y \in 1..n
      OBVIOUS
    <3>2. QED
      BY <3>1, <1>3
  <2>3. m - 1 \in Nat /\ \A y \in T : y <= m - 1
    BY <1>3, <2>1, <2>2
  <2>4. m - 1 \in D
    BY <2>3
  <2>5. m <= m - 1
    BY <1>2, <2>4
  <2>6. QED
    BY <1>3, <2>5
<1>5. QED
  BY <1>3, <1>4

LEMMA TrimRightIsPath ==
  ASSUME NEW path, IsPath(path)
  PROVE  IsPath(TrimRight(path))
<1>. DEFINE full == {n \in 1..Len(path) : path[n].form # "empty"}
            last == CHOOSE n \in full : \A k \in full : k <= n
<1>1. CASE full = {}
  BY <1>1, OneIsList DEF TrimRight, IsPath
<1>2. CASE full # {}
  <2>1. Len(path) \in Nat /\ full \in SUBSET (1..Len(path))
    BY ListFacts DEF IsPath
  <2>2. last \in full
    <3>1. \E n \in full : \A k \in full : k <= n
      BY <1>2, <2>1, Greatest
    <3>2. QED
      BY <3>1
  <2>3. last \in 1..Len(path)
    BY <2>2
  <2>4. TrimRight(path) = SubSeq(path, 1, last)
    BY <1>2 DEF TrimRight
  <2>. HIDE DEF last, full
  <2>5. IsList(SubSeq(path, 1, last)) /\ Len(SubSeq(path, 1, last)) = last /\ last \in Nat /\ last # 0
    BY <2>1, <2>3, PrefixIsList DEF IsPath
  <2>6. QED
    BY <2>4, <2>5, ListFacts DEF IsPath
<1>3. QED
  BY <1>1, <1>2

LEMMA OneIsAdds ==
  ASSUME NEW m, NEW path, IsPath(path)
  PROVE  AreAdds(<<[method |-> m, path |-> path]>>)
BY OneIsList DEF AreAdds

LEMMA ConcatAreAdds ==
  ASSUME NEW a, NEW b, AreAdds(a), AreAdds(b)
  PROVE  AreAdds(a \o b)
<1>1. Len(a) \in Nat /\ Len(b) \in Nat
  BY ListFacts DEF AreAdds
<1>2. /\ IsList(a \o b) /\ Len(a \o b) = Len(a) + Len(b)
      /\ \A i \in 1..Len(a) + Len(b) :
           (a \o b)[i] = IF i <= Len(a) THEN a[i] ELSE b[i - Len(a)]
  BY ConcatIsList DEF AreAdds
<1>3. ASSUME NEW i \in 1..Len(a) + Len(b) PROVE IsPath((a \o b)[i].path)
  <2>1. CASE i <= Len(a)
    BY <1>1, <1>2, <2>1 DEF AreAdds
  <2>2. CASE ~(i <= Len(a))
    <3>1. i - Len(a) \in 1..Len(b) /\ (a \o b)[i] = b[i - Len(a)]
      BY <1>1, <1>2, <2>2
    <3>2. QED
      BY <3>1 DEF AreAdds
  <2>3. QED
    BY <2>1, <2>2
<1>4. QED
  BY <1>2, <1>3 DEF AreAdds

LEMMA EachAreAdds ==
  ASSUME NEW path, IsPath(path)
  PROVE  AreAdds(Each(path))
<1>1. Len(StandardMethods) \in Nat
  BY PathsAreLists, ListFacts
<1>2. \A i \in 1..Len(StandardMethods) : Each(path)[i].path = path
  BY DEF Each
<1>3. Each(path) = [i \in 1..Len(StandardMethods) |-> Each(path)[i]]
  BY DEF Each
<1>4. IsList(Each(path)) /\ Len(Each(path)) = Len(StandardMethods)
  BY <1>1, <1>3, FunctionIsList
<1>5. QED
  BY <1>2, <1>4 DEF AreAdds

LEMMA MountedAreAdds ==
  ASSUME NEW path, IsPath(path)
  PROVE  AreAdds(Mounted(path))
BY EachAreAdds, BelowIsPath, ConcatAreAdds DEF Mounted

LEMMA FilesAreAdds ==
  ASSUME NEW path, IsPath(path)
  PROVE  AreAdds(Files(path))
<1>1. IsPath(TrimRight(path)) /\ IsPath(TrimRight(path) \o <<Wildcard>>)
  BY TrimRightIsPath, LongerIsPath DEF IsPath
<1>2. IsList(Files(path)) /\ Len(Files(path)) = 4
  <2>1. \A a, b, c, d : <<a, b, c, d>> \in Seq({a, b, c, d}) /\ Len(<<a, b, c, d>>) = 4
    OBVIOUS
  <2>2. \A a, b, c, d : IsList(<<a, b, c, d>>)
    BY <2>1, SeqIsList
  <2>3. QED
    BY <2>1, <2>2 DEF Files
<1>3. \A i \in 1..4 : Files(path)[i].path \in {TrimRight(path), TrimRight(path) \o <<Wildcard>>}
  <2>1. \A i \in 1..4 : i = 1 \/ i = 2 \/ i = 3 \/ i = 4
    OBVIOUS
  <2>2. \A a, b, c, d : /\ <<a, b, c, d>>[1] = a /\ <<a, b, c, d>>[2] = b
                        /\ <<a, b, c, d>>[3] = c /\ <<a, b, c, d>>[4] = d
    OBVIOUS
  <2>3. /\ Files(path)[1].path = TrimRight(path) /\ Files(path)[2].path = TrimRight(path)
        /\ Files(path)[3].path = TrimRight(path) \o <<Wildcard>>
        /\ Files(path)[4].path = TrimRight(path) \o <<Wildcard>>
    BY <2>2 DEF Files
  <2>4. QED
    BY <2>1, <2>3
<1>4. QED
  BY <1>1, <1>2, <1>3 DEF AreAdds

LEMMA TailAreAdds ==
  ASSUME NEW adds, AreAdds(adds), adds # << >>
  PROVE  AreAdds(Tail(adds)) /\ IsPath(Head(adds).path)
<1>1. Len(adds) \in Nat /\ Len(adds) # 0
  BY ListFacts DEF AreAdds
<1>2. /\ IsList(Tail(adds)) /\ Len(Tail(adds)) = Len(adds) - 1
      /\ \A i \in 1..Len(adds) - 1 : Tail(adds)[i] = adds[i + 1]
  BY TailIsList DEF AreAdds
<1>3. \A i \in 1..Len(adds) - 1 : IsPath(adds[i + 1].path)
  BY <1>1 DEF AreAdds
<1>4. Head(adds) = adds[1] /\ 1 \in 1..Len(adds)
  BY <1>1
<1>5. QED
  BY <1>2, <1>3, <1>4 DEF AreAdds

LEMMA NoAdds == AreAdds(<< >>)
<1>1. << >> \in Seq({})
  OBVIOUS
<1>2. IsList(<< >>) /\ Len(<< >>) = 0
  BY <1>1, SeqIsList
<1>3. \A i \in 1..Len(<< >>) : FALSE
  OBVIOUS
<1>4. QED
  BY <1>2, <1>3 DEF AreAdds

----------------------------------------------------------------------------
(* The other steps of the table of routes. *)

LEMMA TableStutters ==
  ASSUME table' = table, UNCHANGED <<globalMiddlewares, call, answer>>
  PROVE  TableStep
BY DEF TableStep, Router!Table!vars, table

LEMMA TableRegisters ==
  ASSUME Router!Asked("add"), Accepted \/ Refused
  PROVE  Router!Table!Register
<1>1. CASE Accepted
  BY <1>1, TableRoutes
  DEF Accepted, NewRoute, Router!Table!Register, Router!Table!Pending, Router!Table!Nothing,
      table, Router!Asked
<1>2. CASE Refused
  BY <1>2, TableRoutes
  DEF Refused, Router!Table!Register, Router!Table!Pending, Router!Table!Nothing,
      table, Router!Asked
<1>3. QED
  BY <1>1, <1>2

(* The answer as the table has it. *)
Told ==
  IF answer.kind = "found" THEN answer
  ELSE [kind |-> answer.kind, route |-> NoRoute, params |-> << >>]

LEMMA TableAddCalled ==
  ASSUME NEW m, NEW path, NEW handler, NEW mws \in Owns,
         Router!AddCalled(m, path, handler, mws), table' = table
  PROVE  Router!Table!AddCall
<1>1. /\ answer.kind # "pending" /\ answer'.kind = "pending"
      /\ call'.op = "add" /\ call'.middlewares = globalMiddlewares \o mws
      /\ globalMiddlewares' = globalMiddlewares
  BY DEF Router!AddCalled, Router!Idle, Router!Ask, Router!Combined, Router!Pending
<1>2. \E o \in Owns : call'.middlewares = globalMiddlewares \o o
  BY <1>1
<1>3. Told # Router!Table!Pending /\ Told' = Router!Table!Pending
  BY <1>1 DEF Told, Router!Table!Pending
<1>4. QED
  BY <1>1, <1>2, <1>3 DEF Router!Table!AddCall, Told, table

LEMMA TableFindCalled ==
  ASSUME NEW m, answer.kind # "pending",
         table' = table, globalMiddlewares' = globalMiddlewares,
         call'.op = "find", call'.method = m,
         answer' = IF Rivals(table, m) = {}
                   THEN [kind |-> "methodNotFound", route |-> NoRoute, params |-> << >>]
                   ELSE [kind |-> "pending", route |-> NoRoute, params |-> << >>]
  PROVE  Router!Table!FindCall
<1>1. Router!Table!Rivals(Router!Routes, m) = Rivals(table, m)
  BY TableRoutes DEF table
<1>2. QED
  BY <1>1 DEF Router!Table!FindCall, Router!Table!Pending, Router!Table!Nothing, table

LEMMA TableUses ==
  ASSUME NEW m \in Middlewares, Router!Use(m)
  PROVE  Router!Table!Use
BY DEF Router!Use, Router!Idle, Router!trieVars, Router!Table!Use, Router!Table!Pending,
       Router!Routes

----------------------------------------------------------------------------
(* The steps of the calls. *)

LEMMA TrieUnchanged ==
  ASSUME TrieInv, UNCHANGED <<nodes, label, route, call, at, rest, params, answer>>
  PROVE  TrieInv' /\ table' = table
<1>1. table' = table
  BY DEF table, Router!Routes
<1>2. Labelled' /\ RoutesSit' /\ WaysStand'
  BY <1>1 DEF TrieInv, Labelled, RoutesSit, WaysStand
<1>3. NoOtherNodes' /\ AddOnItsWay'
  BY <1>1 DEF TrieInv, NoOtherNodes, AddOnItsWay, OnAWay, Router!Asked, Gone, Going
<1>4. FindOnItsWay'
  BY <1>1 DEF TrieInv, FindOnItsWay, Router!Asked, Followed, Walked, Target, Led, Bound,
              Part, Router!Static, Router!Child
<1>5. QED
  BY <1>1, <1>2, <1>3, <1>4 DEF TrieInv

LEMMA RouterStutters ==
  ASSUME TrieInv, UNCHANGED router
  PROVE  TrieInv' /\ table' = table /\ TableStep
<1>1. UNCHANGED <<globalMiddlewares, nodes, label, route, call, at, rest, params, answer>>
  BY DEF router
<1>2. QED
  BY <1>1, TrieUnchanged, TableStutters

Started(add, handler) ==
  /\ call'.op = "add" /\ call'.handler = handler
  /\ call'.method = add.method /\ call'.path = Strip(add.path)
  /\ answer'.kind = "pending"

LEMMA IssueKeeps ==
  ASSUME TrieInv, NEW adds, AreAdds(adds), NEW handler \in Nat \ {0}, NEW mws \in Owns,
         Issue(adds, handler, mws)
  PROVE  /\ TrieInv' /\ table' = table /\ TableStep /\ job' = adds
         /\ adds # << >> => Started(Head(adds), handler)
<1>1. CASE adds = << >>
  BY <1>1, RouterStutters DEF Issue
<1>2. CASE adds # << >>
  <2>1. Router!AddCalled(Head(adds).method, Strip(Head(adds).path), handler, mws) /\ job' = adds
    BY <1>2 DEF Issue
  <2>2. IsList(Strip(Head(adds).path))
    BY <1>2, TailAreAdds, StripIsList
  <2>3. TrieInv' /\ table' = table
    BY <2>1, <2>2, AddCalledKeeps
  <2>4. Router!Table!AddCall
    BY <2>1, <2>3, TableAddCalled
  <2>5. Started(Head(adds), handler)
    BY <2>1 DEF Started, Router!AddCalled, Router!Ask, Router!Pending
  <2>6. QED
    BY <2>1, <2>3, <2>4, <2>5 DEF TableStep, Router!Table!Next
<1>3. QED
  BY <1>1, <1>2

LEMMA CallCounted ==
  ASSUME CallsInv, NEW c, IsCall(c), calls' = Append(calls, c)
  PROVE  (IsList(calls) /\ (\A i \in 1..Len(calls) : IsCall(calls[i])) /\ calls # << >>)'
<1>1. IsList(calls) /\ Len(calls) \in Nat /\ \A i \in 1..Len(calls) : IsCall(calls[i])
  BY ListFacts DEF CallsInv
<1>2. /\ IsList(calls') /\ Len(calls') = Len(calls) + 1 /\ calls'[Len(calls) + 1] = c
      /\ \A i \in 1..Len(calls) : calls'[i] = calls[i]
  BY <1>1, AppendIsList
<1>3. calls' # << >>
  BY <1>1, <1>2, ListFacts
<1>4. ASSUME NEW i \in 1..Len(calls') PROVE IsCall(calls'[i])
  <2>1. i \in 1..Len(calls) \/ i = Len(calls) + 1
    BY <1>1, <1>2
  <2>2. QED
    BY <2>1, <1>1, <1>2
<1>5. QED
  BY <1>2, <1>3, <1>4 DEF IsCall

LEMMA BeginKeeps ==
  ASSUME Inv, NEW kind, NEW g, NEW path, NEW mws \in Owns, NEW adds, AreAdds(adds),
         Begin(kind, g, path, mws, adds)
  PROVE  Inv' /\ TableStep
<1>. DEFINE c == [kind |-> kind, path |-> path, own |-> mws, outcome |-> "ok"]
<1>1. /\ Issue(adds, Len(calls) + 1, mws) /\ calls' = Append(calls, c) /\ groups' = groups
  BY DEF Begin
<1>2. Len(calls) + 1 \in Nat \ {0}
  BY ListFacts DEF Inv, CallsInv
<1>3. TrieInv' /\ TableStep /\ job' = adds
  BY <1>1, <1>2, IssueKeeps DEF Inv
<1>4. IsCall(c)
  BY DEF IsCall
<1>. HIDE DEF c
<1>5. (IsList(calls) /\ (\A i \in 1..Len(calls) : IsCall(calls[i])) /\ calls # << >>)'
  BY <1>1, <1>4, CallCounted DEF Inv
<1>6. (IsList(groups) /\ \A i \in 1..Len(groups) : IsGroup(groups[i]))'
  BY <1>1 DEF Inv, CallsInv, IsGroup
<1>7. AreAdds(job)'
  BY <1>3
<1>8. QED
  BY <1>3, <1>5, <1>6, <1>7 DEF Inv, CallsInv

LEMMA AddDoes ==
  ASSUME TrieInv, Router!Add
  PROVE  /\ TrieInv' /\ Router!Asked("add") /\ UNCHANGED <<globalMiddlewares, call>>
         /\ (table' = table /\ answer' = answer) \/ Refused \/ Accepted
<1>1. CASE Router!AddEmpty
  <2>1. Router!Asked("add") /\ UNCHANGED <<globalMiddlewares, call, answer>>
    BY <1>1 DEF Router!AddEmpty, Router!Adding
  <2>2. QED
    BY <1>1, <2>1, AddEmptyKeeps
<1>2. CASE Router!AddStatic
  <2>1. Router!Asked("add") /\ UNCHANGED <<globalMiddlewares, call, answer>>
    BY <1>2 DEF Router!AddStatic, Router!Descend, Router!Adding
  <2>2. QED
    BY <1>2, <2>1, AddStaticKeeps
<1>3. CASE Router!AddParam \/ Router!AddCatchAll
  <2>1. Router!Asked("add") /\ UNCHANGED <<globalMiddlewares, call>>
    BY <1>3 DEF Router!AddParam, Router!AddCatchAll, Router!DescendNamed, Router!Descend, Router!Adding
  <2>2. QED
    BY <1>3, <2>1, AddParamKeeps
<1>4. CASE Router!AddDone
  <2>1. Router!Asked("add") /\ UNCHANGED <<globalMiddlewares, call>>
    BY <1>4 DEF Router!AddDone
  <2>2. QED
    BY <1>4, <2>1, AddDoneKeeps
<1>5. QED
  BY <1>1, <1>2, <1>3, <1>4 DEF Router!Add

LEMMA InRouterKeeps ==
  ASSUME Inv, InRouter
  PROVE  Inv' /\ TableStep
<1>1. CallsInv'
  BY DEF InRouter, own, Inv, CallsInv, Busy, AreAdds, IsGroup, IsCall
<1>2. /\ TrieInv' /\ Router!Asked("add") /\ UNCHANGED <<globalMiddlewares, call>>
      /\ (table' = table /\ answer' = answer) \/ Refused \/ Accepted
  BY AddDoes DEF Inv, InRouter
<1>3. CASE table' = table /\ answer' = answer
  BY <1>1, <1>2, <1>3, TableStutters DEF Inv
<1>4. CASE Refused \/ Accepted
  <2>1. Router!Table!Register
    BY <1>2, <1>4, TableRegisters
  <2>2. QED
    BY <1>1, <1>2, <2>1 DEF Inv, TableStep, Router!Table!Next
<1>5. QED
  BY <1>2, <1>3, <1>4

LEMMA LastCall ==
  ASSUME CallsInv, Busy
  PROVE  /\ Len(calls) \in Nat \ {0} /\ Len(calls) \in 1..Len(calls)
         /\ Last(calls) = calls[Len(calls)] /\ Last(calls).own \in Owns
<1>1. IsList(calls) /\ calls # << >>
  BY DEF CallsInv
<1>2. Len(calls) \in Nat /\ Len(calls) # 0
  BY <1>1, ListFacts
<1>3. Len(calls) \in 1..Len(calls)
  BY <1>2
<1>4. IsCall(calls[Len(calls)])
  BY <1>3 DEF CallsInv
<1>5. QED
  BY <1>2, <1>3, <1>4 DEF Last, IsCall

LEMMA RouterAddedKeeps ==
  ASSUME Inv, RouterAdded
  PROVE  Inv' /\ TableStep
<1>1. /\ Busy /\ Issue(Tail(job), Len(calls), Last(calls).own)
      /\ UNCHANGED <<groups, calls>>
  BY DEF RouterAdded
<1>2. Len(calls) \in Nat \ {0} /\ Last(calls).own \in Owns
  BY <1>1, LastCall DEF Inv
<1>3. AreAdds(Tail(job))
  BY <1>1, TailAreAdds DEF Inv, CallsInv, Busy
<1>4. TrieInv' /\ TableStep /\ job' = Tail(job)
  BY <1>1, <1>2, <1>3, IssueKeeps DEF Inv
<1>5. AreAdds(job)'
  BY <1>3, <1>4
<1>6. (IsList(groups) /\ \A i \in 1..Len(groups) : IsGroup(groups[i]))'
  BY <1>1 DEF Inv, CallsInv, IsGroup
<1>7. (IsList(calls) /\ (\A i \in 1..Len(calls) : IsCall(calls[i])) /\ calls # << >>)'
  BY <1>1 DEF Inv, CallsInv, IsCall
<1>8. QED
  BY <1>4, <1>5, <1>6, <1>7 DEF Inv, CallsInv

LEMMA RouterRefusedKeeps ==
  ASSUME Inv, RouterRefused
  PROVE  Inv' /\ TableStep
<1>. DEFINE n == Len(calls)
            adds == AfterRefusal(Last(calls).kind)
<1>1. /\ Busy /\ Issue(adds, n, Last(calls).own) /\ groups' = groups
      /\ calls' = IF Ignores(Last(calls).kind) THEN calls
                  ELSE [calls EXCEPT ![n].outcome = "error"]
  BY DEF RouterRefused
<1>2. n \in Nat \ {0} /\ n \in 1..n /\ Last(calls).own \in Owns
  BY <1>1, LastCall DEF Inv
<1>3. AreAdds(adds)
  BY <1>1, TailAreAdds, NoAdds DEF Inv, CallsInv, Busy, AfterRefusal
<1>4. TrieInv' /\ TableStep /\ job' = adds
  BY <1>1, <1>2, <1>3, IssueKeeps DEF Inv
<1>5. AreAdds(job)'
  BY <1>3, <1>4
<1>6. (IsList(groups) /\ \A i \in 1..Len(groups) : IsGroup(groups[i]))'
  BY <1>1 DEF Inv, CallsInv, IsGroup
<1>7. (IsList(calls) /\ (\A i \in 1..Len(calls) : IsCall(calls[i])) /\ calls # << >>)'
  <2>1. /\ IsList(calls) /\ calls # << >> /\ \A i \in 1..n : IsCall(calls[i])
    BY <1>1 DEF Inv, CallsInv
  <2>2. CASE calls' = calls
    BY <2>1, <2>2 DEF IsCall
  <2>3. CASE calls' = [calls EXCEPT ![n].outcome = "error"]
    <3>1. DOMAIN calls = 1..n /\ calls' = [i \in 1..n |-> calls'[i]]
      BY <2>1, <2>3, ListFacts
    <3>2. IsList(calls') /\ Len(calls') = n
      BY <1>2, <3>1, FunctionIsList
    <3>3. calls' # << >>
      BY <1>2, <3>2, ListFacts
    <3>4. ASSUME NEW i \in 1..n PROVE IsCall(calls'[i])
      <4>1. CASE i = n
        <5>1. calls[n] = [kind |-> calls[n].kind, path |-> calls[n].path, own |-> calls[n].own,
                          outcome |-> calls[n].outcome] /\ calls[n].own \in Owns
          BY <1>2, <2>1 DEF IsCall
        <5>2. calls'[n] = [calls[n] EXCEPT !.outcome = "error"]
          BY <1>2, <2>3, <3>1
        <5>3. calls'[n] = [kind |-> calls[n].kind, path |-> calls[n].path, own |-> calls[n].own,
                           outcome |-> "error"]
          BY <5>1, <5>2
        <5>4. QED
          BY <4>1, <5>1, <5>3 DEF IsCall
      <4>2. CASE i # n
        <5>1. calls'[i] = calls[i]
          BY <2>3, <3>1, <4>2
        <5>2. QED
          BY <2>1, <5>1
      <4>3. QED
        BY <4>1, <4>2
    <3>5. QED
      BY <3>2, <3>3, <3>4 DEF IsCall
  <2>4. QED
    BY <1>1, <2>2, <2>3
<1>8. QED
  BY <1>4, <1>5, <1>6, <1>7 DEF Inv, CallsInv

LEMMA LookupKeeps ==
  ASSUME Inv, Lookup
  PROVE  Inv' /\ table' = table /\ TableStep
<1>1. Router!Find /\ UNCHANGED own
  BY DEF Lookup
<1>2. CallsInv'
  BY <1>1 DEF own, Inv, CallsInv, Busy, AreAdds, IsGroup, IsCall
<1>3. CASE \E m \in Methods, p \in Paths : Router!FindCalled(m, p)
  <2>1. PICK m \in Methods, p \in Paths : Router!FindCalled(m, p)
    BY <1>3
  <2>2. IsList(p)
    BY PathsAreLists
  <2>3. answer.kind # "pending"
    BY <2>1 DEF Router!FindCalled, Router!Idle
  <2>4. TrieInv' /\ table' = table /\ Router!Table!FindCall
    BY <2>1, <2>2, <2>3, FindCalledKeeps, TableFindCalled DEF Inv
  <2>5. QED
    BY <1>2, <2>4 DEF Inv, TableStep, Router!Table!Next
<1>4. CASE Router!FindEmpty
  <2>1. UNCHANGED <<globalMiddlewares, call, answer>>
    BY <1>4 DEF Router!FindEmpty
  <2>2. QED
    BY <1>2, <1>4, <2>1, FindEmptyKeeps, TableStutters DEF Inv
<1>5. CASE Router!FindStatic
  <2>1. UNCHANGED <<globalMiddlewares, call, answer>>
    BY <1>5 DEF Router!FindStatic, Router!Follow
  <2>2. QED
    BY <1>2, <1>5, <2>1, FindStaticKeeps, TableStutters DEF Inv
<1>6. CASE Router!FindParam
  <2>1. UNCHANGED <<globalMiddlewares, call, answer>>
    BY <1>6 DEF Router!FindParam, Router!Follow
  <2>2. QED
    BY <1>2, <1>6, <2>1, FindParamKeeps, TableStutters DEF Inv
<1>7. CASE Router!FindEnd \/ Router!FindCatchAll \/ Router!FindMiss
  <2>1. /\ TrieInv' /\ table' = table /\ Looked
        /\ Router!Asked("find") /\ UNCHANGED <<globalMiddlewares, call>>
    BY <1>7, AnswerKeeps DEF Inv
  <2>2. Router!Table!Lookup
    BY <2>1, TableLooksUp DEF Inv
  <2>3. QED
    BY <1>2, <2>1, <2>2 DEF Inv, TableStep, Router!Table!Next
<1>8. QED
  BY <1>1, <1>3, <1>4, <1>5, <1>6, <1>7 DEF Router!Find

LEMMA ConfigureKeeps ==
  ASSUME Inv, NEW kind, Configure(kind)
  PROVE  (IsList(calls) /\ (\A i \in 1..Len(calls) : IsCall(calls[i])) /\ calls # << >>)' /\ AreAdds(job)'
<1>. DEFINE c == [kind |-> kind, path |-> << >>, own |-> << >>, outcome |-> "ok"]
<1>1. calls' = Append(calls, c) /\ job' = job
  BY DEF Configure
<1>2. IsCall(c)
  BY DEF IsCall, Owns
<1>. HIDE DEF c
<1>3. QED
  BY <1>1, <1>2, CallCounted DEF Inv, CallsInv, AreAdds

LEMMA UseRouterKeeps ==
  ASSUME Inv, NEW m \in Middlewares, UseRouter(m)
  PROVE  Inv' /\ TableStep
<1>1. /\ Configure("use") /\ groups' = groups
      /\ Router!Use(m)
  BY DEF UseRouter
<1>2. (IsList(calls) /\ (\A i \in 1..Len(calls) : IsCall(calls[i])) /\ calls # << >>)' /\ AreAdds(job)'
  BY <1>1, ConfigureKeeps
<1>3. (IsList(groups) /\ \A i \in 1..Len(groups) : IsGroup(groups[i]))'
  BY <1>1 DEF Inv, CallsInv, IsGroup
<1>4. UNCHANGED <<nodes, label, route, call, at, rest, params, answer>>
  BY <1>1 DEF Router!Use, Router!trieVars
<1>5. TrieInv'
  BY <1>4, TrieUnchanged DEF Inv
<1>6. TableStep
  BY <1>1, TableUses DEF TableStep, Router!Table!Next
<1>7. QED
  BY <1>2, <1>3, <1>5, <1>6 DEF Inv, CallsInv

LEMMA GroupKeeps ==
  ASSUME Inv, NEW g \in 1..Len(groups), NEW prefix \in GroupPrefixes, Group(g, prefix)
  PROVE  Inv' /\ TableStep
<1>. DEFINE new == [prefix |-> Concat(groups[g].prefix, prefix), middlewares |-> << >>]
<1>1. Configure("group") /\ groups' = Append(groups, new) /\ UNCHANGED router
  BY DEF Group
<1>2. (IsList(calls) /\ (\A i \in 1..Len(calls) : IsCall(calls[i])) /\ calls # << >>)' /\ AreAdds(job)'
  BY <1>1, ConfigureKeeps
<1>3. IsGroup(new)
  <2>1. IsPath(groups[g].prefix) /\ IsPath(prefix)
    BY PathsAreLists DEF Inv, CallsInv, IsGroup, IsPath
  <2>2. QED
    BY <2>1, ConcatIsPath DEF IsGroup
<1>. HIDE DEF new
<1>4. IsList(groups) /\ Len(groups) \in Nat /\ \A i \in 1..Len(groups) : IsGroup(groups[i])
  BY ListFacts DEF Inv, CallsInv
<1>5. /\ IsList(groups') /\ Len(groups') = Len(groups) + 1 /\ groups'[Len(groups) + 1] = new
      /\ \A i \in 1..Len(groups) : groups'[i] = groups[i]
  BY <1>1, <1>4, AppendIsList
<1>6. ASSUME NEW i \in 1..Len(groups') PROVE IsGroup(groups'[i])
  <2>1. i \in 1..Len(groups) \/ i = Len(groups) + 1
    BY <1>4, <1>5
  <2>2. QED
    BY <2>1, <1>3, <1>4, <1>5
<1>7. TrieInv' /\ TableStep
  BY <1>1, RouterStutters DEF Inv
<1>8. QED
  BY <1>2, <1>5, <1>6, <1>7 DEF Inv, CallsInv, IsGroup

LEMMA UseKeeps ==
  ASSUME Inv, NEW g \in 1..Len(groups), NEW m, Use(g, m)
  PROVE  Inv' /\ TableStep
<1>1. /\ Configure("groupUse") /\ UNCHANGED router
      /\ groups' = [groups EXCEPT ![g].middlewares = Append(@, m)]
  BY DEF Use
<1>2. (IsList(calls) /\ (\A i \in 1..Len(calls) : IsCall(calls[i])) /\ calls # << >>)' /\ AreAdds(job)'
  BY <1>1, ConfigureKeeps
<1>3. IsList(groups) /\ Len(groups) \in Nat /\ \A i \in 1..Len(groups) : IsGroup(groups[i])
  BY ListFacts DEF Inv, CallsInv
<1>4. DOMAIN groups = 1..Len(groups) /\ groups' = [i \in 1..Len(groups) |-> groups'[i]]
  BY <1>1, <1>3, ListFacts
<1>5. IsList(groups') /\ Len(groups') = Len(groups)
  BY <1>3, <1>4, FunctionIsList
<1>6. ASSUME NEW i \in 1..Len(groups) PROVE IsGroup(groups'[i])
  <2>1. CASE i = g
    <3>1. groups[g] = [prefix |-> groups[g].prefix, middlewares |-> groups[g].middlewares]
          /\ IsPath(groups[g].prefix)
      BY <1>3 DEF IsGroup
    <3>2. groups'[g] = [groups[g] EXCEPT !.middlewares = Append(groups[g].middlewares, m)]
      BY <1>1, <1>4
    <3>3. groups'[g] = [prefix |-> groups[g].prefix,
                        middlewares |-> Append(groups[g].middlewares, m)]
      BY <3>1, <3>2
    <3>4. QED
      BY <2>1, <3>1, <3>3 DEF IsGroup
  <2>2. CASE i # g
    <3>1. groups'[i] = groups[i]
      BY <1>1, <1>4, <2>2
    <3>2. QED
      BY <1>3, <3>1
  <2>3. QED
    BY <2>1, <2>2
<1>7. TrieInv' /\ TableStep
  BY <1>1, RouterStutters DEF Inv
<1>8. QED
  BY <1>2, <1>5, <1>6, <1>7 DEF Inv, CallsInv, IsGroup

LEMMA CallKeeps ==
  ASSUME Inv, NEW g \in 1..Len(groups), Call(g)
  PROVE  Inv' /\ TableStep
<1>1. IsPath(groups[g].prefix)
  BY DEF Inv, CallsInv, IsGroup
<1>2. << >> \in Owns /\ \A a \in Adds : a[3] \in Owns
  BY DEF Owns
<1>3. \A path \in {a[2] : a \in Adds} \cup AnyPaths \cup MountPaths : IsPath(Concat(groups[g].prefix, path))
  BY <1>1, PathsAreLists, ConcatIsPath DEF IsPath
<1>4. ASSUME NEW a \in Adds, Add(g, a[1], a[2], a[3]) PROVE Inv' /\ TableStep
  <2>. DEFINE full == Concat(groups[g].prefix, a[2])
  <2>1. Begin("add", g, full, a[3], <<[method |-> a[1], path |-> full]>>)
    BY <1>4 DEF Add
  <2>2. IsPath(full)
    BY <1>3
  <2>. HIDE DEF full
  <2>3. QED
    BY <1>2, <2>1, <2>2, OneIsAdds, BeginKeeps
<1>5. ASSUME NEW p \in AnyPaths, AnyMethod(g, p) PROVE Inv' /\ TableStep
  BY <1>2, <1>3, <1>5, EachAreAdds, BeginKeeps DEF AnyMethod
<1>6. ASSUME NEW p \in MountPaths, Mount(g, p) PROVE Inv' /\ TableStep
  BY <1>2, <1>3, <1>6, MountedAreAdds, BeginKeeps DEF Mount
<1>7. ASSUME NEW p \in MountPaths, StaticFS(g, p) PROVE Inv' /\ TableStep
  BY <1>2, <1>3, <1>7, FilesAreAdds, BeginKeeps DEF StaticFS
<1>8. QED
  BY <1>4, <1>5, <1>6, <1>7, GroupKeeps, UseKeeps DEF Call

LEMMA StepKeeps ==
  ASSUME Inv, [Next]_vars
  PROVE  Inv' /\ TableStep
<1>1. CASE InRouter
  BY <1>1, InRouterKeeps
<1>2. CASE RouterAdded
  BY <1>2, RouterAddedKeeps
<1>3. CASE RouterRefused
  BY <1>3, RouterRefusedKeeps
<1>4. CASE Lookup
  BY <1>4, LookupKeeps
<1>5. CASE \E m \in Middlewares : UseRouter(m)
  BY <1>5, UseRouterKeeps
<1>6. CASE \E g \in 1..Len(groups) : Call(g)
  BY <1>6, CallKeeps
<1>7. CASE UNCHANGED vars
  <2>1. UNCHANGED router /\ UNCHANGED <<groups, job, calls>>
    BY <1>7 DEF vars, own
  <2>2. TrieInv' /\ TableStep
    BY <2>1, RouterStutters DEF Inv
  <2>3. CallsInv'
    BY <2>1 DEF Inv, CallsInv, Busy, AreAdds, IsGroup, IsCall
  <2>4. QED
    BY <2>2, <2>3 DEF Inv
<1>8. QED
  BY <1>1, <1>2, <1>3, <1>4, <1>5, <1>6, <1>7 DEF Next

----------------------------------------------------------------------------
(* How many segments a path has. *)

LEMMA PlaceAdded ==
  ASSUME NEW list, NEW e, IsList(list)
  PROVE  Filled(list \o <<e>>) = IF NonEmpty(e) THEN Filled(list) \cup {Len(list) + 1} ELSE Filled(list)
<1>1. /\ Len(list) \in Nat /\ Len(list \o <<e>>) = Len(list) + 1
      /\ \A i \in 1..Len(list) + 1 : (list \o <<e>>)[i] = IF i <= Len(list) THEN list[i] ELSE <<e>>[i - Len(list)]
  BY OneIsList, ConcatIsList, ListFacts
<1>2. /\ \A i \in 1..Len(list) : (list \o <<e>>)[i] = list[i]
      /\ (list \o <<e>>)[Len(list) + 1] = e
  BY <1>1
<1>3. \A i : i \in 1..Len(list) + 1 <=> i \in 1..Len(list) \/ i = Len(list) + 1
  BY <1>1
<1>4. QED
  BY <1>1, <1>2, <1>3 DEF Filled

LEMMA OneMoreSegment ==
  ASSUME NEW list, NEW e, IsList(list)
  PROVE  Len(Segments(list \o <<e>>)) =
           IF NonEmpty(e) THEN Len(Segments(list)) + 1 ELSE Len(Segments(list))
<1>1. IsList(list \o <<e>>)
  BY OneIsList, ConcatIsList
<1>2. /\ Len(Segments(list)) = Cardinality(Filled(list))
      /\ Len(Segments(list \o <<e>>)) = Cardinality(Filled(list \o <<e>>))
      /\ Filled(list) \in SUBSET (1..Len(list)) /\ Len(list) \in Nat
  BY <1>1, SegmentsFacts, ListFacts
<1>3. IsFiniteSet(Filled(list)) /\ Len(list) + 1 \notin Filled(list)
  <2>1. IsFiniteSet(Filled(list))
    BY <1>2, PlacesAreFinite
  <2>2. QED
    BY <1>2, <2>1
<1>4. Cardinality(Filled(list) \cup {Len(list) + 1}) = Cardinality(Filled(list)) + 1
  BY <1>3, FS_AddElement
<1>5. QED
  BY <1>2, <1>4, PlaceAdded

LEMMA StrippedSegments ==
  ASSUME NEW path, IsPath(path)
  PROVE  Len(Segments(Strip(path))) = Len(Segments(path)) /\ Len(Segments(path)) \in Nat
<1>. DEFINE S == Filled(Tail(path))
            T == Filled(path)
            f == [i \in S |-> i + 1]
<1>1. CASE Head(path) # Empty
  BY <1>1, SegmentsFacts DEF Strip, IsPath
<1>2. CASE Head(path) = Empty
  <2>1. /\ IsList(Tail(path)) /\ Len(Tail(path)) = Len(path) - 1
        /\ \A i \in 1..Len(path) - 1 : Tail(path)[i] = path[i + 1]
        /\ IsList(path) /\ Len(path) \in Nat /\ Len(path) # 0
    BY TailIsList, ListFacts DEF IsPath
  <2>2. path[1].form = "empty"
    <3>1. Head(path) = path[1]
      BY <2>1
    <3>2. Empty.form = "empty"
      BY DEF Empty
    <3>3. QED
      BY <1>2, <3>1, <3>2
  <2>3. S = {i \in 1..Len(path) - 1 : NonEmpty(path[i + 1])}
    BY <2>1 DEF Filled
  <2>4. T = {i \in 1..Len(path) : NonEmpty(path[i])}
    BY DEF Filled
  <2>5. 1 \notin T
    BY <2>2, <2>4 DEF NonEmpty
  <2>. HIDE DEF S, T
  <2>6. \A i \in S : i \in Nat /\ i + 1 \in T
    BY <2>1, <2>3, <2>4
  <2>7. \A k \in T : k - 1 \in S /\ k = (k - 1) + 1
    <3>1. \A k \in T : k \in 1..Len(path) /\ k # 1 /\ NonEmpty(path[k])
      BY <2>4, <2>5
    <3>2. \A k \in T : k - 1 \in 1..Len(path) - 1 /\ (k - 1) + 1 = k
      BY <2>1, <3>1
    <3>3. QED
      BY <2>3, <3>1, <3>2
  <2>8. f \in [S -> T] /\ \A i, j \in S : f[i] = f[j] => i = j
    BY <2>6
  <2>9. \A k \in T : \E i \in S : f[i] = k
    BY <2>7
  <2>10. f \in Bijection(S, T)
    <3>. HIDE DEF f
    <3>1. QED
      BY <2>8, <2>9 DEF Bijection, Injection, Surjection, IsInjective
  <2>11. IsFiniteSet(S) /\ Len(Segments(Tail(path))) = Cardinality(S) /\ Len(Segments(path)) = Cardinality(T)
    BY <2>1, SegmentsFacts, PlacesAreFinite, ListFacts DEF S, T
  <2>12. Cardinality(T) = Cardinality(S)
    BY <2>10, <2>11, FS_Bijection DEF ExistsBijection
  <2>13. Len(Segments(path)) \in Nat
    BY <2>1, SegmentsFacts
  <2>14. QED
    BY <1>2, <2>11, <2>12, <2>13 DEF Strip
<1>3. QED
  BY <1>1, <1>2

LEMMA FrontAndLast ==
  ASSUME NEW path, IsPath(path)
  PROVE  IsList(Front(path)) /\ path = Front(path) \o <<Last(path)>>
<1>1. IsList(path) /\ Len(path) \in Nat /\ Len(path) # 0
  BY ListFacts DEF IsPath
<1>. DEFINE R == {path[i] : i \in 1..Len(path)}
<1>2. path \in Seq(R)
  BY <1>1 DEF IsList
<1>. HIDE DEF R
<1>3. \A i \in 1..Len(path) - 1 : path[i] \in R
  BY <1>1, <1>2, ElementOfSeq
<1>4. /\ Len(Front(path)) = Len(path) - 1
      /\ \A i \in 1..Len(path) - 1 : Front(path)[i] = path[i]
  <2>1. PICK n \in Nat : n = Len(path) - 1
    BY <1>1
  <2>2. /\ Len(SubSeq(path, 1, n)) = IF 1 <= n THEN n - 1 + 1 ELSE 0
        /\ \A i \in 1..n - 1 + 1 : SubSeq(path, 1, n)[i] = path[1 + i - 1]
    BY <1>3, <2>1, SubSeqProperties
  <2>3. Len(SubSeq(path, 1, n)) = n /\ \A i \in 1..n : SubSeq(path, 1, n)[i] = path[i]
    BY <2>2
  <2>4. QED
    BY <2>1, <2>3 DEF Front
<1>5. IsList(Front(path))
  BY FrontIsList
<1>6. /\ IsList(Front(path) \o <<Last(path)>>) /\ Len(Front(path) \o <<Last(path)>>) = Len(path)
      /\ \A i \in 1..Len(path) :
           (Front(path) \o <<Last(path)>>)[i] = IF i <= Len(path) - 1 THEN Front(path)[i] ELSE <<Last(path)>>[i - (Len(path) - 1)]
  BY <1>1, <1>4, <1>5, OneIsList, ConcatIsList
<1>7. \A i \in 1..Len(path) : (Front(path) \o <<Last(path)>>)[i] = path[i]
  BY <1>1, <1>4, <1>6 DEF Last
<1>8. QED
  BY <1>1, <1>5, <1>6, <1>7, SameLists

(* What is below a path has one segment more. *)
LEMMA BelowIsLonger ==
  ASSUME NEW path, IsPath(path)
  PROVE  /\ Len(Segments(Strip(Below(path)))) = Len(Segments(Strip(path))) + 1
         /\ Len(Segments(Strip(path))) \in Nat
<1>1. NonEmpty(Wildcard) /\ ~NonEmpty(Empty)
  BY DEF NonEmpty, Wildcard, Empty
<1>2. Len(Segments(Below(path))) = Len(Segments(path)) + 1
  <2>1. CASE Len(path) > 1 /\ Last(path) = Empty
    <3>1. Len(Segments(path)) = Len(Segments(Front(path)))
      <4>1. Len(Segments(Front(path) \o <<Last(path)>>)) = Len(Segments(Front(path)))
        BY <2>1, <1>1, FrontAndLast, OneMoreSegment
      <4>2. QED
        BY <4>1, FrontAndLast
    <3>2. Len(Segments(Front(path) \o <<Wildcard>>)) = Len(Segments(Front(path))) + 1
      BY <1>1, FrontAndLast, OneMoreSegment
    <3>3. QED
      BY <2>1, <3>1, <3>2 DEF Below
  <2>2. CASE ~(Len(path) > 1 /\ Last(path) = Empty)
    BY <2>2, <1>1, OneMoreSegment DEF Below, IsPath
  <2>3. QED
    BY <2>1, <2>2
<1>3. QED
  BY <1>2, BelowIsPath, StrippedSegments

----------------------------------------------------------------------------
(* What the loops of Any and Mount have left in the table. *)

Left(n) == {<<r.method, r.path>> : r \in OwnedBy(n)}
Counted == IF Busy /\ answer.kind = "added" THEN 1 ELSE 0

(* After k turns of the loop over adds, the last of which has answered. *)
Running(adds, k) ==
  /\ Len(job) = Len(adds) - k
  /\ \A i \in 1..Len(job) : job[i] = adds[k + i]
  /\ Left(Len(calls)) = Done(adds, k + Counted)

(* The loop has stopped at the error of turn k + 1. *)
Failed(adds, k) ==
  /\ job = << >>
  /\ k < Len(adds)
  /\ Left(Len(calls)) = Done(adds, k)
  /\ ~Accepts(table, adds[k + 1].method, Strip(adds[k + 1].path))

Loops == calls # << >> /\ Last(calls).kind \in {"any", "mount"}

Current ==
  Busy =>
    /\ call.op = "add" /\ call.handler = Len(calls)
    /\ call.method = Head(job).method /\ call.path = Strip(Head(job).path)
    /\ answer.kind = "conflict" => ~Accepts(table, call.method, call.path)

At(c, k) ==
  \/ c.outcome = "ok" /\ Running(Wanted(c), k)
  \/ c.outcome = "error" /\ Failed(Wanted(c), k)

LoopInv ==
  /\ \A r \in table : r.handler \in 1..Len(calls)
  /\ Current
  /\ Loops => /\ IsPath(Last(calls).path)
              /\ \E k \in 0..Len(Wanted(Last(calls))) : At(Last(calls), k)

LEMMA WantedAre ==
  ASSUME NEW c, IsPath(c.path)
  PROVE  /\ AreAdds(Wanted(c)) /\ Len(Wanted(c)) \in Nat
         /\ \A i \in 1..Len(Wanted(c)) : Wanted(c)[i].path \in {c.path, Below(c.path)}
<1>. DEFINE n == Len(StandardMethods)
<1>1. n \in Nat
  BY PathsAreLists, ListFacts
<1>2. ASSUME NEW path
      PROVE  /\ Len(Each(path)) = n /\ IsList(Each(path))
             /\ \A i \in 1..n : Each(path)[i].path = path
  <2>1. \A i \in 1..n : Each(path)[i].path = path
    BY DEF Each
  <2>2. Each(path) = [i \in 1..n |-> Each(path)[i]]
    BY DEF Each
  <2>. HIDE DEF n
  <2>3. QED
    BY <1>1, <2>1, <2>2, FunctionIsList
<1>. HIDE DEF n
<1>3. CASE c.kind = "any"
  BY <1>1, <1>2, <1>3, EachAreAdds DEF Wanted
<1>4. CASE c.kind # "any"
  <2>1. Wanted(c) = Each(c.path) \o Each(Below(c.path))
    BY <1>4 DEF Wanted, Mounted
  <2>2. AreAdds(Wanted(c))
    BY <1>4, MountedAreAdds DEF Wanted
  <2>3. /\ Len(Wanted(c)) = n + n
        /\ \A i \in 1..n + n :
             Wanted(c)[i] = IF i <= n THEN Each(c.path)[i] ELSE Each(Below(c.path))[i - n]
    <3>1. IsList(Each(c.path)) /\ Len(Each(c.path)) = n
      BY <1>2
    <3>2. IsList(Each(Below(c.path))) /\ Len(Each(Below(c.path))) = n
      BY <1>2
    <3>3. /\ Len(Each(c.path) \o Each(Below(c.path))) = n + n
          /\ \A i \in 1..n + n : (Each(c.path) \o Each(Below(c.path)))[i] =
               IF i <= n THEN Each(c.path)[i] ELSE Each(Below(c.path))[i - n]
      BY <3>1, <3>2, ConcatIsList
    <3>4. QED
      BY <2>1, <3>3
  <2>4. ASSUME NEW i \in 1..n + n PROVE Wanted(c)[i].path \in {c.path, Below(c.path)}
    <3>1. CASE i <= n
      <4>1. i \in 1..n /\ Wanted(c)[i] = Each(c.path)[i]
        BY <1>1, <2>3, <3>1
      <4>2. QED
        BY <1>2, <4>1
    <3>2. CASE ~(i <= n)
      <4>1. i - n \in 1..n
        BY <1>1, <3>2
      <4>2. QED
        BY <1>2, <2>3, <3>2, <4>1
    <3>3. QED
      BY <3>1, <3>2
  <2>5. QED
    BY <1>1, <2>2, <2>3, <2>4
<1>5. QED
  BY <1>3, <1>4

(* Adds of a call that have the same shape have the same path. *)
LEMMA WantedApart ==
  ASSUME NEW c, IsPath(c.path), NEW i \in 1..Len(Wanted(c)), NEW j \in 1..Len(Wanted(c)),
         SameShape(Segments(Strip(Wanted(c)[i].path)), Segments(Strip(Wanted(c)[j].path)))
  PROVE  Strip(Wanted(c)[i].path) = Strip(Wanted(c)[j].path)
<1>1. /\ Wanted(c)[i].path \in {c.path, Below(c.path)}
      /\ Wanted(c)[j].path \in {c.path, Below(c.path)}
  BY WantedAre
<1>2. Len(Segments(Strip(Wanted(c)[i].path))) = Len(Segments(Strip(Wanted(c)[j].path)))
  BY DEF SameShape
<1>3. /\ Len(Segments(Strip(Below(c.path)))) = Len(Segments(Strip(c.path))) + 1
      /\ Len(Segments(Strip(c.path))) \in Nat
  BY BelowIsLonger
<1>4. Wanted(c)[i].path = Wanted(c)[j].path
  BY <1>1, <1>2, <1>3
<1>5. QED
  BY <1>4

(* What an accepted Add adds to what its call has left. *)
LEMMA LeftAfterAdd ==
  ASSUME NEW c, IsPath(c.path), NEW n, NEW k \in Nat, k + 1 \in 1..Len(Wanted(c)),
         Left(n) = Done(Wanted(c), k), Accepted, call.handler = n,
         call.method = Wanted(c)[k + 1].method, call.path = Strip(Wanted(c)[k + 1].path)
  PROVE  Left(n)' = Done(Wanted(c), k + 1)
<1>1. PICK adds : adds = Wanted(c)
  OBVIOUS
<1>. DEFINE replaced(r) == r.method = call.method /\ SameShape(Segments(call.path), Pattern(r))
<1>2. table' = {r \in table : ~replaced(r)} \cup {NewRoute}
  BY DEF Accepted, Registered, NewRoute, Pattern
<1>3. NewRoute.method = call.method /\ NewRoute.path = call.path /\ NewRoute.handler = n
  BY DEF NewRoute
<1>4. \A i : i \in 1..k + 1 <=> i \in 1..k \/ i = k + 1
  OBVIOUS
<1>5. Len(Wanted(c)) \in Nat /\ k <= Len(Wanted(c))
  BY WantedAre
<1>6. ASSUME NEW r \in OwnedBy(n), replaced(r) PROVE r.path = call.path
  <2>1. <<r.method, r.path>> \in Done(Wanted(c), k)
    BY DEF Left
  <2>2. PICK i \in 1..k : <<r.method, r.path>> = <<adds[i].method, Strip(adds[i].path)>>
    BY <1>1, <2>1 DEF Done
  <2>3. i \in 1..Len(Wanted(c))
    BY <1>5
  <2>4. r.path = Strip(Wanted(c)[i].path)
    BY <1>1, <2>2
  <2>5. SameShape(Segments(Strip(Wanted(c)[k + 1].path)), Segments(Strip(Wanted(c)[i].path)))
    BY <1>6, <2>4 DEF Pattern
  <2>6. QED
    BY <2>3, <2>4, <2>5, WantedApart
<1>. HIDE DEF replaced
<1>7. ASSUME NEW x \in Left(n)' PROVE x \in Done(Wanted(c), k + 1)
  <2>1. PICK r \in table' : r.handler = n /\ x = <<r.method, r.path>>
    BY DEF Left, OwnedBy
  <2>2. CASE r = NewRoute
    <3>1. x = <<adds[k + 1].method, Strip(adds[k + 1].path)>>
      BY <1>1, <1>3, <2>1, <2>2
    <3>2. QED
      BY <1>1, <1>4, <3>1 DEF Done
  <2>3. CASE r # NewRoute
    <3>1. x \in Done(Wanted(c), k)
      BY <1>2, <2>1, <2>3 DEF Left, OwnedBy
    <3>2. QED
      BY <1>4, <3>1 DEF Done
  <2>4. QED
    BY <2>2, <2>3
<1>8. ASSUME NEW x \in Done(Wanted(c), k + 1) PROVE x \in Left(n)'
  <2>1. x = <<call.method, call.path>> => x \in Left(n)'
    BY <1>2, <1>3 DEF Left, OwnedBy
  <2>2. PICK i \in 1..k + 1 : x = <<adds[i].method, Strip(adds[i].path)>>
    BY <1>1 DEF Done
  <2>3. CASE i = k + 1
    BY <1>1, <2>1, <2>2, <2>3
  <2>4. CASE i \in 1..k
    <3>1. x \in Left(n)
      BY <1>1, <2>2, <2>4 DEF Done
    <3>2. PICK r \in OwnedBy(n) : x = <<r.method, r.path>>
      BY <3>1 DEF Left
    <3>3. CASE replaced(r)
      <4>1. r.path = call.path /\ r.method = call.method
        BY <1>6, <3>3 DEF replaced
      <4>2. QED
        BY <2>1, <3>2, <4>1
    <3>4. CASE ~replaced(r)
      BY <1>2, <3>2, <3>4 DEF Left, OwnedBy
    <3>5. QED
      BY <3>3, <3>4
  <2>5. QED
    BY <1>4, <2>3, <2>4
<1>9. QED
  BY <1>7, <1>8

LEMMA LastAppended ==
  ASSUME CallsInv, NEW c, calls' = Append(calls, c)
  PROVE  /\ Len(calls) \in Nat /\ Len(calls') = Len(calls) + 1
         /\ Last(calls)' = c /\ calls' # << >>
<1>1. IsList(calls) /\ Len(calls) \in Nat
  BY ListFacts DEF CallsInv
<1>2. /\ IsList(calls') /\ Len(calls') = Len(calls) + 1 /\ calls'[Len(calls) + 1] = c
  BY <1>1, AppendIsList
<1>3. calls' # << >>
  BY <1>1, <1>2, ListFacts
<1>4. QED
  BY <1>1, <1>2, <1>3 DEF Last

LEMMA LeftStays ==
  ASSUME table' = table, NEW n
  PROVE  Left(n)' = Left(n)
BY DEF Left, OwnedBy

(* The steps that leave the table and the calls alone. *)
LEMMA LoopStutters ==
  ASSUME LoopInv, table' = table, UNCHANGED <<job, calls>>,
         ~Busy \/ UNCHANGED <<call, answer>>
  PROVE  LoopInv'
<1>1. Busy' = Busy /\ Counted' = Counted
  BY DEF Busy, Counted
<1>2. Current'
  BY <1>1 DEF LoopInv, Current, Busy
<1>3. ASSUME NEW k, Loops, At(Last(calls), k) PROVE At(Last(calls), k)'
  <2>1. Left(Len(calls))' = Left(Len(calls))
    BY DEF Left, OwnedBy
  <2>2. QED
    BY <1>1, <1>3, <2>1 DEF At, Running, Failed
<1>4. Loops' = Loops
  BY DEF Loops
<1>5. QED
  BY <1>2, <1>3, <1>4 DEF LoopInv

LEMMA InRouterLoops ==
  ASSUME Inv, LoopInv, InRouter
  PROVE  LoopInv'
<1>1. Busy /\ UNCHANGED <<groups, job, calls>>
  BY DEF InRouter, own
<1>2. /\ Router!Asked("add") /\ UNCHANGED <<globalMiddlewares, call>>
      /\ (table' = table /\ answer' = answer) \/ Refused \/ Accepted
  BY AddDoes DEF Inv, InRouter
<1>3. CASE table' = table /\ answer' = answer
  BY <1>1, <1>2, <1>3, LoopStutters
<1>4. Counted = 0 /\ Busy' = Busy
  BY <1>1, <1>2 DEF Counted, Router!Asked, Busy
<1>5. CASE Refused
  <2>1. Counted' = 0 /\ table' = table /\ ~Accepts(table, call.method, call.path)
    BY <1>5 DEF Refused, Counted
  <2>2. Current'
    BY <1>1, <1>2, <2>1 DEF LoopInv, Current, Busy
  <2>3. ASSUME NEW k, Loops, At(Last(calls), k) PROVE At(Last(calls), k)'
    <3>1. Left(Len(calls))' = Left(Len(calls))
      BY <1>1, <2>1 DEF Left, OwnedBy
    <3>2. QED
      BY <1>1, <1>4, <2>1, <2>3, <3>1 DEF At, Running, Failed
  <2>4. Loops' = Loops
    BY <1>1 DEF Loops
  <2>5. QED
    BY <1>1, <2>1, <2>2, <2>3, <2>4 DEF LoopInv
<1>6. CASE Accepted
  <2>1. answer'.kind = "added" /\ Counted' = 1
    BY <1>1, <1>4, <1>6 DEF Accepted, Counted
  <2>2. Current'
    BY <1>1, <1>2, <2>1 DEF LoopInv, Current, Busy
  <2>3. \A r \in table' : r.handler \in 1..Len(calls')
    <3>1. NewRoute.handler \in 1..Len(calls)
      BY <1>1, LastCall DEF Inv, LoopInv, Current, NewRoute
    <3>2. QED
      BY <1>1, <1>6, <3>1 DEF LoopInv, Accepted, Registered
  <2>4. ASSUME Loops, NEW k \in 0..Len(Wanted(Last(calls))), At(Last(calls), k), IsPath(Last(calls).path)
        PROVE  At(Last(calls), k)'
    <3>. DEFINE c == Last(calls)
    <3>1. c.outcome = "ok" /\ Running(Wanted(c), k)
      BY <1>1, <2>4 DEF At, Failed, Busy
    <3>2. Len(job) \in Nat \ {0} /\ Head(job) = job[1]
      BY <1>1, ListFacts DEF Inv, CallsInv, AreAdds, Busy
    <3>3. Len(Wanted(c)) \in Nat
      BY <2>4, WantedAre
    <3>4. k \in Nat /\ k + 1 \in 1..Len(Wanted(c)) /\ job[1] = Wanted(c)[k + 1] /\ k + Counted = k
      <4>1. Len(job) = Len(Wanted(c)) - k /\ \A i \in 1..Len(job) : job[i] = Wanted(c)[k + i]
        BY <3>1 DEF Running
      <4>2. k \in Nat /\ 1 \in 1..Len(job)
        BY <2>4, <3>2, <3>3
      <4>3. k + 1 \in 1..Len(Wanted(c)) /\ k + Counted = k
        BY <1>4, <3>2, <3>3, <4>1, <4>2
      <4>4. QED
        BY <4>1, <4>2, <4>3
    <3>5. /\ call.handler = Len(calls) /\ call.method = Wanted(c)[k + 1].method
          /\ call.path = Strip(Wanted(c)[k + 1].path)
      BY <1>1, <3>2, <3>4 DEF LoopInv, Current
    <3>6. Left(Len(calls)) = Done(Wanted(c), k)
      BY <3>1, <3>4 DEF Running
    <3>7. PICK n : n = Len(calls)
      OBVIOUS
    <3>8. Left(n)' = Done(Wanted(c), k + 1)
      BY <1>6, <2>4, <3>4, <3>5, <3>6, <3>7, LeftAfterAdd
    <3>9. Left(Len(calls))' = Done(Wanted(c), k + 1)
      BY <1>1, <3>7, <3>8
    <3>10. Running(Wanted(c), k)'
      BY <1>1, <2>1, <3>1, <3>9 DEF Running
    <3>11. QED
      BY <1>1, <3>1, <3>10 DEF At
  <2>5. Loops' = Loops
    BY <1>1 DEF Loops
  <2>6. QED
    BY <1>1, <2>2, <2>3, <2>4, <2>5 DEF LoopInv
<1>7. QED
  BY <1>2, <1>3, <1>5, <1>6

LEMMA RouterAddedLoops ==
  ASSUME Inv, LoopInv, RouterAdded
  PROVE  LoopInv'
<1>1. /\ Busy /\ answer.kind = "added" /\ UNCHANGED <<groups, calls>>
      /\ Issue(Tail(job), Len(calls), Last(calls).own)
  BY DEF RouterAdded
<1>2. Len(calls) \in Nat \ {0} /\ Last(calls).own \in Owns
  BY <1>1, LastCall DEF Inv
<1>3. /\ AreAdds(Tail(job)) /\ IsList(job) /\ job # << >> /\ Len(job) \in Nat \ {0}
  BY <1>1, TailAreAdds, ListFacts DEF Inv, CallsInv, Busy, AreAdds
<1>4. /\ table' = table /\ job' = Tail(job)
      /\ Tail(job) # << >> => Started(Head(Tail(job)), Len(calls))
  BY <1>1, <1>2, <1>3, IssueKeeps DEF Inv
<1>5. Current'
  BY <1>1, <1>4 DEF Current, Busy, Started
<1>6. Counted' = 0 /\ Counted = 1
  BY <1>1, <1>4 DEF Counted, Busy, Started
<1>7. ASSUME Loops, NEW k \in 0..Len(Wanted(Last(calls))), At(Last(calls), k), IsPath(Last(calls).path)
      PROVE  k + 1 \in 0..Len(Wanted(Last(calls))) /\ At(Last(calls), k + 1)'
  <2>. DEFINE c == Last(calls)
  <2>1. c.outcome = "ok" /\ Running(Wanted(c), k)
    BY <1>1, <1>7 DEF At, Failed, Busy
  <2>2. Len(Wanted(c)) \in Nat /\ k \in Nat
    BY <1>7, WantedAre
  <2>3. /\ Len(Tail(job)) = Len(job) - 1
        /\ \A i \in 1..Len(job) - 1 : Tail(job)[i] = job[i + 1]
    BY <1>3, TailIsList
  <2>4. Len(job) = Len(Wanted(c)) - k /\ \A i \in 1..Len(job) : job[i] = Wanted(c)[k + i]
    BY <2>1 DEF Running
  <2>5. k + 1 \in 0..Len(Wanted(c)) /\ Len(Tail(job)) = Len(Wanted(c)) - (k + 1)
    BY <1>3, <2>2, <2>3, <2>4
  <2>6. \A i \in 1..Len(Tail(job)) : Tail(job)[i] = Wanted(c)[(k + 1) + i]
    <3>1. SUFFICES ASSUME NEW i \in 1..Len(Tail(job)) PROVE Tail(job)[i] = Wanted(c)[(k + 1) + i]
      OBVIOUS
    <3>2. i + 1 \in 1..Len(job) /\ k + (i + 1) = (k + 1) + i /\ i \in 1..Len(job) - 1
      BY <1>3, <2>2, <2>3
    <3>3. QED
      BY <2>3, <2>4, <3>2
  <2>7. Left(Len(calls))' = Left(Len(calls)) /\ Left(Len(calls)) = Done(Wanted(c), k + 1)
    BY <1>1, <1>4, <1>6, <2>1 DEF Left, OwnedBy, Running
  <2>8. Running(Wanted(c), k + 1)'
    <3>1. k + 1 + Counted' = k + 1
      BY <1>6, <2>2
    <3>2. QED
      BY <1>1, <1>4, <2>5, <2>6, <2>7, <3>1 DEF Running
  <2>9. QED
    BY <1>1, <2>1, <2>5, <2>8 DEF At
<1>8. Loops' = Loops
  BY <1>1 DEF Loops
<1>9. QED
  BY <1>1, <1>4, <1>5, <1>7, <1>8 DEF LoopInv

LEMMA RouterRefusedLoops ==
  ASSUME Inv, LoopInv, RouterRefused
  PROVE  LoopInv'
<1>. DEFINE n == Len(calls)
            c == Last(calls)
            adds == AfterRefusal(c.kind)
<1>1. /\ Busy /\ answer.kind = "conflict" /\ Issue(adds, n, c.own) /\ groups' = groups
      /\ calls' = IF Ignores(c.kind) THEN calls ELSE [calls EXCEPT ![n].outcome = "error"]
  BY DEF RouterRefused
<1>2. n \in Nat \ {0} /\ n \in 1..n /\ c = calls[n] /\ c.own \in Owns
  BY <1>1, LastCall DEF Inv
<1>3. AreAdds(adds)
  BY <1>1, TailAreAdds, NoAdds DEF Inv, CallsInv, Busy, AfterRefusal
<1>4. /\ table' = table /\ job' = adds
      /\ adds # << >> => Started(Head(adds), n)
  BY <1>1, <1>2, <1>3, IssueKeeps DEF Inv
<1>5. /\ Len(calls') = n /\ calls' # << >> /\ Last(calls)' = calls'[n]
      /\ Ignores(c.kind) => calls'[n] = c
      /\ ~Ignores(c.kind) => calls'[n] = [kind |-> c.kind, path |-> c.path, own |-> c.own, outcome |-> "error"]
  <2>1. IsList(calls) /\ calls # << >> /\ DOMAIN calls = 1..n /\ IsCall(calls[n])
    BY <1>1, <1>2, ListFacts DEF Inv, CallsInv
  <2>2. CASE Ignores(c.kind)
    BY <1>1, <1>2, <2>1, <2>2 DEF Last
  <2>3. CASE ~Ignores(c.kind)
    <3>1. calls' = [calls EXCEPT ![n].outcome = "error"]
      BY <1>1, <2>3
    <3>2. calls' = [i \in 1..n |-> calls'[i]]
      BY <2>1, <3>1
    <3>3. IsList(calls') /\ Len(calls') = n
      BY <1>2, <3>2, FunctionIsList
    <3>4. calls' # << >>
      BY <1>2, <3>3, ListFacts
    <3>5. calls[n] = [kind |-> calls[n].kind, path |-> calls[n].path, own |-> calls[n].own,
                      outcome |-> calls[n].outcome]
      BY <2>1 DEF IsCall
    <3>6. calls'[n] = [calls[n] EXCEPT !.outcome = "error"]
      BY <1>2, <2>1, <3>1
    <3>7. calls'[n] = [kind |-> calls[n].kind, path |-> calls[n].path, own |-> calls[n].own,
                       outcome |-> "error"]
      BY <3>5, <3>6
    <3>8. QED
      BY <1>2, <2>3, <3>3, <3>4, <3>7 DEF Last
  <2>4. QED
    BY <2>2, <2>3
<1>6. Current'
  BY <1>4, <1>5 DEF Current, Busy, Started
<1>7. CASE c.kind \in {"any", "mount"}
  <2>1. adds = << >> /\ ~Ignores(c.kind)
    BY <1>7 DEF AfterRefusal, Ignores
  <2>2. /\ Last(calls)'.kind = c.kind /\ Last(calls)'.path = c.path /\ Last(calls)'.outcome = "error"
    BY <1>5, <2>1
  <2>3. Loops
    BY <1>1, <1>7 DEF Loops, Inv, CallsInv
  <2>4. PICK k \in 0..Len(Wanted(c)) : At(c, k)
    BY <2>3 DEF LoopInv
  <2>5. IsPath(c.path) /\ Len(Wanted(c)) \in Nat
    BY <2>3, WantedAre DEF LoopInv
  <2>6. Running(Wanted(c), k) /\ Counted = 0
    BY <1>1, <2>4 DEF At, Failed, Busy, Counted
  <2>7. Len(job) \in Nat \ {0} /\ Head(job) = job[1]
    BY <1>1, ListFacts DEF Inv, CallsInv, AreAdds, Busy
  <2>8. Len(job) = Len(Wanted(c)) - k /\ \A i \in 1..Len(job) : job[i] = Wanted(c)[k + i]
    BY <2>6 DEF Running
  <2>9. k \in Nat /\ k < Len(Wanted(c)) /\ job[1] = Wanted(c)[k + 1] /\ k + Counted = k
    BY <2>4, <2>5, <2>6, <2>7, <2>8
  <2>10. ~Accepts(table, Wanted(c)[k + 1].method, Strip(Wanted(c)[k + 1].path))
    BY <1>1, <2>7, <2>9 DEF LoopInv, Current
  <2>11. Left(Len(calls)) = Done(Wanted(c), k)
    BY <2>6, <2>9 DEF Running
  <2>12. Left(Len(calls))' = Done(Wanted(c), k)
    BY <1>4, <1>5, <2>11 DEF Left, OwnedBy
  <2>13. Wanted(Last(calls)') = Wanted(c)
    BY <2>2 DEF Wanted
  <2>14. At(Last(calls), k)'
    BY <1>4, <2>1, <2>2, <2>9, <2>10, <2>12, <2>13 DEF At, Failed
  <2>15. QED
    BY <1>4, <1>5, <1>6, <2>2, <2>4, <2>5, <2>13, <2>14 DEF LoopInv
<1>8. CASE c.kind \notin {"any", "mount"}
  <2>1. Last(calls)'.kind = c.kind
    BY <1>5
  <2>2. ~Loops'
    BY <1>8, <2>1 DEF Loops
  <2>3. QED
    BY <1>4, <1>5, <1>6, <2>2 DEF LoopInv
<1>9. QED
  BY <1>7, <1>8

LEMMA BeginLoops ==
  ASSUME Inv, LoopInv, NEW kind, NEW g, NEW path, NEW mws \in Owns, NEW adds, AreAdds(adds),
         Begin(kind, g, path, mws, adds), IsPath(path),
         kind = "any" => adds = Each(path), kind = "mount" => adds = Mounted(path)
  PROVE  LoopInv'
<1>. DEFINE c == [kind |-> kind, path |-> path, own |-> mws, outcome |-> "ok"]
            n == Len(calls)
<1>1. /\ Issue(adds, n + 1, mws) /\ calls' = Append(calls, c) /\ groups' = groups
  BY DEF Begin
<1>2. c.kind = kind /\ c.path = path /\ c.outcome = "ok"
  OBVIOUS
<1>. HIDE DEF c
<1>3. n \in Nat /\ Len(calls') = n + 1 /\ Last(calls)' = c /\ calls' # << >>
  BY <1>1, LastAppended DEF Inv
<1>4. n + 1 \in Nat \ {0}
  BY <1>3
<1>5. /\ table' = table /\ job' = adds
      /\ adds # << >> => Started(Head(adds), n + 1)
  BY <1>1, <1>4, IssueKeeps DEF Inv
<1>6. Current'
  BY <1>3, <1>5 DEF Current, Busy, Started
<1>7. \A r \in table' : r.handler \in 1..Len(calls')
  <2>1. \A i : i \in 1..n => i \in 1..n + 1
    BY <1>3
  <2>2. QED
    BY <1>3, <1>5, <2>1 DEF LoopInv
<1>8. ASSUME kind \in {"any", "mount"} PROVE 0 \in 0..Len(Wanted(c)) /\ At(Last(calls), 0)'
  <2>1. adds = Wanted(c)
    BY <1>2, <1>8 DEF Wanted
  <2>2. Len(adds) \in Nat
    BY ListFacts DEF AreAdds
  <2>3. Counted' = 0
    BY <1>5 DEF Counted, Busy, Started
  <2>4. \A r \in table : r.handler # n + 1
    BY <1>3 DEF LoopInv
  <2>5. Left(Len(calls))' = {}
    BY <1>3, <1>5, <2>4 DEF Left, OwnedBy
  <2>6. Done(adds, 0) = {}
    BY DEF Done
  <2>7. Len(adds) = Len(adds) - 0 /\ \A i \in 1..Len(adds) : adds[i] = adds[0 + i]
    BY <2>2
  <2>8. Running(adds, 0)'
    BY <1>5, <2>3, <2>5, <2>6, <2>7 DEF Running
  <2>9. QED
    BY <1>2, <1>3, <2>1, <2>2, <2>8 DEF At
<1>9. QED
  BY <1>2, <1>3, <1>6, <1>7, <1>8 DEF LoopInv, Loops

LEMMA ConfigureLoops ==
  ASSUME Inv, LoopInv, NEW kind, kind \notin {"any", "mount"}, Configure(kind), table' = table
  PROVE  LoopInv'
<1>. DEFINE c == [kind |-> kind, path |-> << >>, own |-> << >>, outcome |-> "ok"]
            n == Len(calls)
<1>1. calls' = Append(calls, c) /\ job' = job /\ ~Busy
  BY DEF Configure
<1>2. c.kind = kind
  OBVIOUS
<1>. HIDE DEF c
<1>3. n \in Nat /\ Len(calls') = n + 1 /\ Last(calls)' = c
  BY <1>1, LastAppended DEF Inv
<1>4. \A r \in table' : r.handler \in 1..Len(calls')
  <2>1. \A i : i \in 1..n => i \in 1..n + 1
    BY <1>3
  <2>2. QED
    BY <1>3, <2>1 DEF LoopInv
<1>5. ~Busy' /\ ~Loops'
  BY <1>1, <1>2, <1>3 DEF Busy, Loops
<1>6. QED
  BY <1>4, <1>5 DEF LoopInv, Current

LEMMA CallLoops ==
  ASSUME Inv, LoopInv, NEW g \in 1..Len(groups), Call(g)
  PROVE  LoopInv'
<1>1. IsPath(groups[g].prefix)
  BY DEF Inv, CallsInv, IsGroup
<1>2. << >> \in Owns /\ \A a \in Adds : a[3] \in Owns
  BY DEF Owns
<1>3. \A path \in {a[2] : a \in Adds} \cup AnyPaths \cup MountPaths : IsPath(Concat(groups[g].prefix, path))
  BY <1>1, PathsAreLists, ConcatIsPath DEF IsPath
<1>4. ASSUME NEW a \in Adds, Add(g, a[1], a[2], a[3]) PROVE LoopInv'
  <2>. DEFINE full == Concat(groups[g].prefix, a[2])
  <2>1. Begin("add", g, full, a[3], <<[method |-> a[1], path |-> full]>>)
    BY <1>4 DEF Add
  <2>2. IsPath(full)
    BY <1>3
  <2>. HIDE DEF full
  <2>3. QED
    BY <1>2, <2>1, <2>2, OneIsAdds, BeginLoops
<1>5. ASSUME NEW p \in AnyPaths, AnyMethod(g, p) PROVE LoopInv'
  BY <1>2, <1>3, <1>5, EachAreAdds, BeginLoops DEF AnyMethod
<1>6. ASSUME NEW p \in MountPaths, Mount(g, p) PROVE LoopInv'
  BY <1>2, <1>3, <1>6, MountedAreAdds, BeginLoops DEF Mount
<1>7. ASSUME NEW p \in MountPaths, StaticFS(g, p) PROVE LoopInv'
  BY <1>2, <1>3, <1>7, FilesAreAdds, BeginLoops DEF StaticFS
<1>8. ASSUME NEW p \in GroupPrefixes, Group(g, p) PROVE LoopInv'
  <2>1. Configure("group") /\ UNCHANGED router
    BY <1>8 DEF Group
  <2>2. QED
    BY <2>1, RouterStutters, ConfigureLoops DEF Inv
<1>9. ASSUME NEW m \in Middlewares, Use(g, m) PROVE LoopInv'
  <2>1. Configure("groupUse") /\ UNCHANGED router
    BY <1>9 DEF Use
  <2>2. QED
    BY <2>1, RouterStutters, ConfigureLoops DEF Inv
<1>10. QED
  BY <1>4, <1>5, <1>6, <1>7, <1>8, <1>9 DEF Call

LEMMA StepLoops ==
  ASSUME Inv, LoopInv, [Next]_vars
  PROVE  LoopInv'
<1>1. CASE InRouter
  BY <1>1, InRouterLoops
<1>2. CASE RouterAdded
  BY <1>2, RouterAddedLoops
<1>3. CASE RouterRefused
  BY <1>3, RouterRefusedLoops
<1>4. CASE Lookup
  <2>1. table' = table /\ ~Busy /\ UNCHANGED <<job, calls>>
    BY <1>4, LookupKeeps DEF Lookup, own
  <2>2. QED
    BY <2>1, LoopStutters
<1>5. CASE \E m \in Middlewares : UseRouter(m)
  <2>1. Configure("use") /\ table' = table
    BY <1>5 DEF UseRouter, Router!Use, Router!trieVars, table, Router!Routes
  <2>2. QED
    BY <2>1, ConfigureLoops
<1>6. CASE \E g \in 1..Len(groups) : Call(g)
  BY <1>6, CallLoops
<1>7. CASE UNCHANGED vars
  <2>1. UNCHANGED <<router, job, calls>> /\ UNCHANGED <<call, answer>>
    BY <1>7 DEF vars, own, router
  <2>2. table' = table
    BY <2>1, RouterStutters DEF Inv
  <2>3. QED
    BY <2>1, <2>2, LoopStutters
<1>8. QED
  BY <1>1, <1>2, <1>3, <1>4, <1>5, <1>6, <1>7 DEF Next

LEMMA FieldsOfAdd ==
  ASSUME NEW r, NEW m, NEW p, r = [method |-> m, path |-> p]
  PROVE  r.method = m /\ r.path = p
  OBVIOUS

LEMMA LoopsReturn ==
  ASSUME Inv, LoopInv
  PROVE  RegisteredAsReturned
<1>. DEFINE c == Last(calls)
            n == Len(StandardMethods)
            paths == IF c.kind = "any" THEN {Strip(c.path)} ELSE {Strip(c.path), Strip(Below(c.path))}
<1>1. SUFFICES ASSUME calls # << >>, ~Busy, c.kind \in {"any", "mount"}
               PROVE  /\ c.outcome = "ok" => Left(Len(calls)) = Methods \X paths
                      /\ c.outcome = "error" =>
                           \E k \in 0..Len(Wanted(c)) - 1 :
                             /\ Left(Len(calls)) = Done(Wanted(c), k)
                             /\ ~Accepts(table, Wanted(c)[k + 1].method, Strip(Wanted(c)[k + 1].path))
  BY DEF RegisteredAsReturned, Left
<1>2. IsPath(c.path) /\ \E k \in 0..Len(Wanted(c)) : At(c, k)
  BY <1>1 DEF LoopInv, Loops
<1>3. PICK k \in 0..Len(Wanted(c)) : At(c, k)
  BY <1>2
<1>4. Len(Wanted(c)) \in Nat /\ n \in Nat /\ DOMAIN StandardMethods = 1..n
  BY <1>2, WantedAre, PathsAreLists, ListFacts
<1>5. job = << >> /\ Len(job) = 0 /\ Counted = 0
  BY <1>1 DEF Busy, Counted
<1>6. ASSUME c.kind = "any" PROVE Wanted(c) = Each(c.path) /\ Len(Wanted(c)) = n
  <2>1. Wanted(c) = Each(c.path)
    BY <1>6 DEF Wanted
  <2>2. Each(c.path) = [i \in 1..n |-> Each(c.path)[i]]
    BY DEF Each
  <2>. HIDE DEF n, c
  <2>3. QED
    BY <1>4, <2>1, <2>2, FunctionIsList
<1>7. ASSUME c.kind = "any", NEW l \in 0..n
      PROVE  Done(Wanted(c), l) = {StandardMethods[i] : i \in 1..l} \X {Strip(c.path)}
  <2>1. \A i \in 1..l : i \in 1..n
    BY <1>4
  <2>2. \A i \in 1..l : Wanted(c)[i] = [method |-> StandardMethods[i], path |-> c.path]
    BY <1>6, <1>7, <2>1 DEF Each
  <2>. HIDE DEF n, c
  <2>3. \A i \in 1..l : <<Wanted(c)[i].method, Strip(Wanted(c)[i].path)>> = <<StandardMethods[i], Strip(c.path)>>
    <3>1. SUFFICES ASSUME NEW i \in 1..l
                   PROVE  <<Wanted(c)[i].method, Strip(Wanted(c)[i].path)>> = <<StandardMethods[i], Strip(c.path)>>
      OBVIOUS
    <3>2. Wanted(c)[i] = [method |-> StandardMethods[i], path |-> c.path]
      BY <2>2
    <3>3. Wanted(c)[i].method = StandardMethods[i] /\ Wanted(c)[i].path = c.path
      BY <3>2, FieldsOfAdd
    <3>4. QED
      BY <3>3
  <2>4. QED
    BY <2>3 DEF Done
<1>8. ASSUME c.outcome = "error"
      PROVE  \E l \in 0..Len(Wanted(c)) - 1 :
               /\ Left(Len(calls)) = Done(Wanted(c), l)
               /\ ~Accepts(table, Wanted(c)[l + 1].method, Strip(Wanted(c)[l + 1].path))
  <2>1. Failed(Wanted(c), k)
    BY <1>3, <1>8 DEF At
  <2>2. k \in 0..Len(Wanted(c)) - 1
    BY <1>3, <1>4, <2>1 DEF Failed
  <2>3. QED
    BY <2>1, <2>2 DEF Failed
<1>9. ASSUME c.outcome = "ok" PROVE Left(Len(calls)) = Methods \X paths
  <2>1. Running(Wanted(c), k)
    BY <1>3, <1>9 DEF At
  <2>2. k = Len(Wanted(c)) /\ k + Counted = k
    BY <1>3, <1>4, <1>5, <2>1 DEF Running
  <2>3. Left(Len(calls)) = Done(Wanted(c), Len(Wanted(c)))
    BY <2>1, <2>2 DEF Running
  <2>4. Methods = {StandardMethods[i] : i \in 1..n}
    BY <1>4 DEF Methods, ToSet
  <2>5. CASE c.kind = "any"
    <3>1. n \in 0..n
      BY <1>4
    <3>2. QED
      BY <1>6, <1>7, <2>3, <2>4, <2>5, <3>1
  <2>6. CASE c.kind = "mount"
    <3>1. Wanted(c) = Each(c.path) \o Each(Below(c.path))
      BY <2>6 DEF Wanted, Mounted
    <3>2. ASSUME NEW path PROVE IsList(Each(path)) /\ Len(Each(path)) = n
      <4>1. Each(path) = [i \in 1..n |-> Each(path)[i]]
        BY DEF Each
      <4>. HIDE DEF n
      <4>2. QED
        BY <1>4, <4>1, FunctionIsList
    <3>3. /\ Len(Wanted(c)) = n + n
          /\ \A i \in 1..n + n :
               Wanted(c)[i] = IF i <= n THEN Each(c.path)[i] ELSE Each(Below(c.path))[i - n]
      <4>1. IsList(Each(c.path)) /\ Len(Each(c.path)) = n
        BY <3>2
      <4>2. IsList(Each(Below(c.path))) /\ Len(Each(Below(c.path))) = n
        BY <3>2
      <4>3. /\ Len(Each(c.path) \o Each(Below(c.path))) = n + n
            /\ \A i \in 1..n + n : (Each(c.path) \o Each(Below(c.path)))[i] =
                 IF i <= n THEN Each(c.path)[i] ELSE Each(Below(c.path))[i - n]
        BY <4>1, <4>2, ConcatIsList
      <4>4. QED
        BY <3>1, <4>3
    <3>4. \A path : \A i \in 1..n : Each(path)[i] = [method |-> StandardMethods[i], path |-> path]
      BY DEF Each
    <3>. HIDE DEF n, c
    <3>5. \A i \in 1..n : /\ i \in 1..n + n /\ n + i \in 1..n + n
                          /\ i <= n /\ ~(n + i <= n) /\ (n + i) - n = i
      BY <1>4
    <3>6. \A i \in 1..n : /\ Wanted(c)[i] = [method |-> StandardMethods[i], path |-> c.path]
                          /\ Wanted(c)[n + i] = [method |-> StandardMethods[i], path |-> Below(c.path)]
      BY <3>3, <3>4, <3>5
    <3>7. \A i \in 1..n : /\ Wanted(c)[i].method = StandardMethods[i] /\ Wanted(c)[i].path = c.path
                           /\ Wanted(c)[n + i].method = StandardMethods[i] /\ Wanted(c)[n + i].path = Below(c.path)
      <4>1. SUFFICES ASSUME NEW i \in 1..n
                     PROVE  /\ Wanted(c)[i].method = StandardMethods[i] /\ Wanted(c)[i].path = c.path
                            /\ Wanted(c)[n + i].method = StandardMethods[i] /\ Wanted(c)[n + i].path = Below(c.path)
        OBVIOUS
      <4>2. Wanted(c)[i] = [method |-> StandardMethods[i], path |-> c.path]
        BY <3>6
      <4>3. Wanted(c)[n + i] = [method |-> StandardMethods[i], path |-> Below(c.path)]
        BY <3>6
      <4>4. Wanted(c)[i].method = StandardMethods[i] /\ Wanted(c)[i].path = c.path
        BY <4>2, FieldsOfAdd
      <4>5. QED
        BY <4>3, <4>4, FieldsOfAdd
    <3>8. \A j \in 1..n + n : \E i \in 1..n : j = i \/ j = n + i
      <4>1. SUFFICES ASSUME NEW j \in 1..n + n PROVE \E i \in 1..n : j = i \/ j = n + i
        OBVIOUS
      <4>2. CASE j <= n
        <5>1. j \in 1..n
          BY <1>4, <4>2
        <5>2. QED
          BY <5>1
      <4>3. CASE ~(j <= n)
        <5>1. j - n \in 1..n /\ j = n + (j - n)
          BY <1>4, <4>3
        <5>2. QED
          BY <5>1
      <4>4. QED
        BY <4>2, <4>3
    <3>9. \A j \in 1..n + n : <<Wanted(c)[j].method, Strip(Wanted(c)[j].path)>> \in Methods \X paths
      <4>1. SUFFICES ASSUME NEW j \in 1..n + n
                     PROVE  <<Wanted(c)[j].method, Strip(Wanted(c)[j].path)>> \in Methods \X paths
        OBVIOUS
      <4>2. PICK i \in 1..n : j = i \/ j = n + i
        BY <3>8
      <4>3. Wanted(c)[j].method = StandardMethods[i] /\ Wanted(c)[j].path \in {c.path, Below(c.path)}
        BY <3>7, <4>2
      <4>4. QED
        BY <2>4, <2>6, <4>3
    <3>10. ASSUME NEW m \in Methods, NEW p \in paths PROVE <<m, p>> \in Done(Wanted(c), n + n)
      <4>1. PICK i \in 1..n : m = StandardMethods[i]
        BY <2>4
      <4>2. /\ <<m, Strip(c.path)>> = <<Wanted(c)[i].method, Strip(Wanted(c)[i].path)>>
            /\ <<m, Strip(Below(c.path))>> = <<Wanted(c)[n + i].method, Strip(Wanted(c)[n + i].path)>>
        BY <3>7, <4>1
      <4>3. p \in {Strip(c.path), Strip(Below(c.path))}
        BY <2>6
      <4>4. QED
        BY <3>5, <4>2, <4>3 DEF Done
    <3>. HIDE DEF paths
    <3>11. Done(Wanted(c), n + n) = Methods \X paths
      BY <3>9, <3>10 DEF Done
    <3>12. QED
      BY <2>3, <3>3, <3>11
  <2>7. QED
    BY <1>1, <2>5, <2>6
<1>10. QED
  BY <1>8, <1>9

----------------------------------------------------------------------------
(* The theorems. *)

LEMMA Starts ==
  ASSUME Init
  PROVE  Inv /\ Router!Table!Init
<1>1. /\ Router!Init /\ job = << >> /\ calls = << >>
      /\ groups = <<[prefix |-> <<Empty>>, middlewares |-> << >>]>>
  BY DEF Init
<1>2. nodes = {} /\ route = << >> /\ label = << >> /\ answer.kind = "none"
  BY <1>1 DEF Router!Init
<1>3. table = {}
  BY <1>2 DEF table, Router!Routes
<1>4. TrieInv
  <2>1. DOMAIN label = nodes /\ DOMAIN route = nodes
    BY <1>2
  <2>2. ~Router!Asked("add") /\ ~Router!Asked("find")
    BY <1>2 DEF Router!Asked
  <2>3. QED
    BY <1>2, <1>3, <2>1, <2>2
    DEF TrieInv, Labelled, RoutesSit, WaysStand, NoOtherNodes, AddOnItsWay, FindOnItsWay
<1>5. CallsInv
  <2>1. IsList(groups) /\ Len(groups) = 1
    BY <1>1, OneIsList
  <2>2. IsGroup(groups[1])
    BY <1>1, OneIsList DEF IsGroup, IsPath
  <2>3. IsList(calls) /\ Len(calls) = 0
    BY <1>1, NoAdds DEF AreAdds
  <2>4. AreAdds(job) /\ ~Busy
    BY <1>1, NoAdds DEF Busy
  <2>5. (\A g \in 1..Len(groups) : IsGroup(groups[g])) /\ \A i \in 1..Len(calls) : IsCall(calls[i])
    BY <2>1, <2>2, <2>3
  <2>6. QED
    BY <2>1, <2>3, <2>4, <2>5 DEF CallsInv
<1>6. Router!Table!Init
  BY <1>1, <1>3 DEF Router!Init, Router!Table!Init, Router!Table!Nothing, table
<1>7. QED
  BY <1>4, <1>5, <1>6 DEF Inv

(* The inductive invariant: where the walks of Add and Find stand in the   *)
(* trie, and that every node lies on the way of a route or of the Add in   *)
(* progress.                                                               *)
LEMMA AlwaysInv == Spec => []Inv
<1>1. Init => Inv
  BY Starts
<1>2. Inv /\ [Next]_vars => Inv'
  BY StepKeeps
<1>3. QED
  BY <1>1, <1>2, PTL DEF Spec

(* The trie implements the table of routes: every Add and Find, walked     *)
(* segment by segment, answers what the table promises at once, and a      *)
(* refused Add leaves no route behind (trie.go:64, trie.go:150).           *)
THEOREM TrieImplementsTable == Spec => ImplementsTable
<1>1. Init => Router!Table!Init
  BY Starts
<1>2. Inv /\ [Next]_vars => [Router!Table!Next]_(Router!Table!vars)
  BY StepKeeps DEF TableStep
<1>3. QED
  BY <1>1, <1>2, AlwaysInv, PTL DEF Spec, ImplementsTable, Router!Table!Spec

LEMMA InvIsCoherent ==
  ASSUME TrieInv
  PROVE  Coherent
<1>1. SUFFICES ASSUME NEW r \in table, NEW q \in table, r.method = q.method
               PROVE  /\ Compatible(Pattern(r), Pattern(q))
                      /\ SameShape(Pattern(r), Pattern(q)) => r = q
  <2>1. Router!Table!Split(Router!Routes) = {<<r, Pattern(r)>> : r \in table}
    BY TableRoutes DEF Split, table, Pattern
  <2>2. QED
    BY <2>1, TableSame DEF Coherent, Router!Table!Coherent
<1>2. IsList(Pattern(r)) /\ IsList(Pattern(q)) /\ Len(Pattern(r)) \in Nat /\ Len(Pattern(q)) \in Nat
  BY PatternsAreLists
<1>3. ASSUME NEW i \in 1..Len(Pattern(r)), SameUpTo(Pattern(r), Pattern(q), i)
      PROVE  Name(Pattern(r)[i]) = Name(Pattern(q)[i])
  <2>1. i \in Nat /\ i # 0 /\ i \in 0..Len(Pattern(r)) /\ i \in 0..Len(Pattern(q))
    BY <1>2, <1>3 DEF SameUpTo
  <2>2. Way(r, i) = Way(q, i)
    BY <1>1, <1>3, <2>1, SameWay DEF SameUpTo
  <2>3. label[Way(r, i)] = Name(Pattern(r)[i]) /\ label[Way(q, i)] = Name(Pattern(q)[i])
    BY <2>1 DEF TrieInv, WaysStand
  <2>4. QED
    BY <2>2, <2>3
<1>4. Compatible(Pattern(r), Pattern(q))
  BY <1>3 DEF Compatible
<1>5. QED
  BY <1>1, <1>4, RoutesAreOne

(* Routes that share the way to a segment agree on its name and there is   *)
(* one for each shape, in the middle of an Add and after a refused one as  *)
(* well (trie.go:110, trie.go:119).                                        *)
THEOREM AlwaysCoherent == Spec => []Coherent
<1>1. Inv => Coherent
  BY InvIsCoherent DEF Inv
<1>2. QED
  BY <1>1, AlwaysInv, PTL

(* No step takes away a route but by one of the same method and shape,     *)
(* which is there instead (trie.go:142).                                   *)
THEOREM NothingLost == Spec => Router!Table!OnlySameShapeReplaced
<1>1. ASSUME Inv, [Next]_vars, NEW r \in table \ table'
      PROVE  \E q \in table' \ table : q.method = r.method /\ SameShape(Pattern(q), Pattern(r))
  <2>1. TableStep
    BY <1>1, StepKeeps
  <2>2. Router!Table!Register
    BY <1>1, <2>1 DEF TableStep, Router!Table!Next, Router!Table!Use, Router!Table!AddCall,
                      Router!Table!FindCall, Router!Table!Lookup, Router!Table!vars, table
  <2>3. table' = Registered(table, NewRoute)
    BY <1>1, <2>2, TableRoutes DEF Router!Table!Register, NewRoute, table
  <2>4. NewRoute.method = r.method /\ SameShape(Pattern(NewRoute), Pattern(r)) /\ NewRoute \in table'
    BY <1>1, <2>3 DEF Registered, Pattern
  <2>5. NewRoute \notin table
    BY <1>1, <2>4, RoutesAreOne DEF Inv
  <2>6. QED
    BY <2>4, <2>5
<1>2. Inv /\ [Next]_vars =>
        [\A r \in Router!Routes \ Router!Routes' : \E q \in Router!Routes' \ Router!Routes :
           /\ q.method = r.method
           /\ Router!Table!SameShape(Router!Table!Segments(q.path),
                                     Router!Table!Segments(r.path))]_(Router!Routes)
  BY <1>1, TableSame, TableSegments DEF table, Pattern
<1>3. QED
  BY <1>2, AlwaysInv, PTL DEF Spec, Router!Table!OnlySameShapeReplaced

(* Any and Mount have left in the router what they have returned: all of   *)
(* their routes, or those before the one that was refused (amaro.go:83,    *)
(* amaro.go:103, group.go:67, group.go:87).                                *)
THEOREM ReturnsWhatIsRegistered == Spec => []RegisteredAsReturned
<1>1. Init => Inv /\ LoopInv
  <2>1. Init => table = {} /\ job = << >> /\ calls = << >>
    BY DEF Init, Router!Init, table, Router!Routes
  <2>2. Init => LoopInv
    BY <2>1 DEF LoopInv, Current, Loops, Busy
  <2>3. QED
    BY <2>2, Starts
<1>2. Inv /\ LoopInv /\ [Next]_vars => (Inv /\ LoopInv)'
  BY StepKeeps, StepLoops
<1>3. Inv /\ LoopInv => RegisteredAsReturned
  BY LoopsReturn
<1>4. QED
  BY <1>1, <1>2, <1>3, PTL DEF Spec
============================================================================
