------------------------- MODULE ThreadSafeQueueProofs -------------------------
(***************************************************************************)
(* What the operations of thread_safe_queue do to the content of a queue,  *)
(* for queues of any length over any set of elements.                      *)
(***************************************************************************)
EXTENDS ThreadSafeQueue, SequenceTheorems, WellFoundedInduction, TLAPS

(* A part of a queue, from place m to place n.                             *)
LEMMA PartLemma ==
  ASSUME NEW S, NEW q \in Seq(S), NEW m \in Nat \ {0}, NEW n \in Nat,
         n =< Len(q), m =< n + 1
  PROVE  /\ SubSeq(q, m, n) \in Seq(S)
         /\ Len(SubSeq(q, m, n)) = n - m + 1
         /\ \A i \in 1 .. n - m + 1 : SubSeq(q, m, n)[i] = q[m + i - 1]
<1>1. \A i \in m .. n : q[i] \in S
  BY ElementOfSeq, LenProperties
<1>2. m \in Int /\ n \in Int
  OBVIOUS
<1>3. /\ SubSeq(q, m, n) \in Seq(S)
      /\ Len(SubSeq(q, m, n)) = IF m <= n THEN n - m + 1 ELSE 0
      /\ \A i \in 1 .. n - m + 1 : SubSeq(q, m, n)[i] = q[m + i - 1]
  BY <1>1, <1>2, SubSeqProperties
<1> QED
  BY <1>3

LEMMA PushBackLemma ==
  ASSUME NEW S, NEW q \in Seq(S), NEW v \in S
  PROVE  /\ PushBack(q, v) \in Seq(S)
         /\ Len(PushBack(q, v)) = Len(q) + 1
         /\ \A i \in 1 .. Len(q) : PushBack(q, v)[i] = q[i]
         /\ PushBack(q, v)[Len(q) + 1] = v
BY AppendProperties DEF PushBack

LEMMA PopFrontLemma ==
  ASSUME NEW S, NEW q \in Seq(S), q # <<>>
  PROVE  /\ Len(q) \in Nat \ {0}
         /\ First(q) \in S
         /\ First(q) = q[1]
         /\ WithoutFirst(q) \in Seq(S)
         /\ Len(WithoutFirst(q)) = Len(q) - 1
         /\ \A i \in 1 .. Len(q) - 1 : WithoutFirst(q)[i] = q[i + 1]
BY HeadTailProperties, EmptySeq DEF First, WithoutFirst

LEMMA StealLemma ==
  ASSUME NEW S, NEW q \in Seq(S), q # <<>>
  PROVE  /\ Len(q) \in Nat \ {0}
         /\ Stolen(q) \in S
         /\ Stolen(q) = q[Len(q)]
         /\ WithoutStolen(q) \in Seq(S)
         /\ Len(WithoutStolen(q)) = Len(q) - 1
         /\ \A i \in 1 .. Len(q) - 1 : WithoutStolen(q)[i] = q[i]
<1>1. Len(q) \in Nat \ {0}
  BY EmptySeq
<1>2. Stolen(q) = q[Len(q)] /\ Stolen(q) \in S
  BY <1>1, ElementOfSeq DEF Stolen
<1> DEFINE n == Len(q) - 1
<1>3. n \in Nat /\ n =< Len(q) /\ 1 =< n + 1
  BY <1>1
<1>4. /\ SubSeq(q, 1, n) \in Seq(S)
      /\ Len(SubSeq(q, 1, n)) = n - 1 + 1
      /\ \A i \in 1 .. n - 1 + 1 : SubSeq(q, 1, n)[i] = q[1 + i - 1]
  <2> HIDE DEF n
  <2> QED
    BY <1>3, PartLemma
<1> QED
  BY <1>1, <1>2, <1>4 DEF WithoutStolen

LEMMA RotatedToBackLemma ==
  ASSUME NEW S, NEW q \in Seq(S), q # <<>>
  PROVE  /\ RotatedToBack(q) \in Seq(S)
         /\ Len(RotatedToBack(q)) = Len(q)
         /\ \A i \in 1 .. Len(q) - 1 : RotatedToBack(q)[i] = q[i + 1]
         /\ RotatedToBack(q)[Len(q)] = q[1]
<1>1. Len(q) \in Nat \ {0} /\ Head(q) = q[1] /\ Head(q) \in S
  BY HeadTailProperties, EmptySeq
<1>2. /\ Tail(q) \in Seq(S)
      /\ Len(Tail(q)) = Len(q) - 1
      /\ \A i \in 1 .. Len(q) - 1 : Tail(q)[i] = q[i + 1]
  BY HeadTailProperties
<1> QED
  BY <1>1, <1>2, AppendProperties DEF RotatedToBack

(* rotate_to_front erases the item at some place k and puts it in front.   *)
LEMMA RotatedLemma ==
  ASSUME NEW S, NEW q \in Seq(S), NEW v, Contains(q, v)
  PROVE  \E k \in 1 .. Len(q) :
           /\ q[k] = v
           /\ RotateToFront(q, v)
                = <<v>> \o (SubSeq(q, 1, k - 1) \o SubSeq(q, k + 1, Len(q)))
<1> DEFINE I == {i \in 1 .. Len(q) : q[i] = v}
<1>1. I # {} /\ I \subseteq Nat
  BY LenProperties DEF Contains
<1>2. PICK x \in I : \A y \in I : <<y, x>> \notin OpToRel(<, Nat)
  <2> HIDE DEF I
  <2> QED
    BY <1>1, NatLessThanWellFounded, WFMin
<1>3. \A y \in I : x =< y
  <2> SUFFICES ASSUME NEW y \in I, ~(x =< y)
               PROVE  FALSE
    OBVIOUS
  <2>1. x \in Nat /\ y \in Nat /\ y < x
    BY <1>1
  <2>2. <<y, x>> \in OpToRel(<, Nat)
    BY <2>1 DEF OpToRel
  <2> QED
    BY <1>2, <2>2
<1>4. Min(I) \in I
  BY <1>3 DEF Min
<1>5. Min(I) \in 1 .. Len(q) /\ q[Min(I)] = v
  BY <1>4
<1>6. RotateToFront(q, v)
        = <<v>> \o (SubSeq(q, 1, Min(I) - 1) \o SubSeq(q, Min(I) + 1, Len(q)))
  BY DEF RotateToFront, Erased
<1> QED
  BY <1>5, <1>6

(***************************************************************************)
(* rotate_to_front on a queue that holds the item: the length stays, and   *)
(* whatever was in the queue still is.                                     *)
(***************************************************************************)
LEMMA RotateToFrontLemma ==
  ASSUME NEW S, NEW q \in Seq(S), NEW v \in S, Contains(q, v)
  PROVE  /\ RotateToFront(q, v) \in Seq(S)
         /\ Len(RotateToFront(q, v)) = Len(q)
         /\ \A u \in S : Contains(q, u) => Contains(RotateToFront(q, v), u)
<1>1. Len(q) \in Nat
  BY LenProperties
<1>2. PICK k \in 1 .. Len(q) :
        /\ q[k] = v
        /\ RotateToFront(q, v)
             = <<v>> \o (SubSeq(q, 1, k - 1) \o SubSeq(q, k + 1, Len(q)))
  BY RotatedLemma
<1> DEFINE left == SubSeq(q, 1, k - 1)
           right == SubSeq(q, k + 1, Len(q))
           rest == left \o right
<1>3. /\ left \in Seq(S) /\ Len(left) = k - 1
      /\ \A i \in 1 .. k - 1 : left[i] = q[i]
  <2>1. k - 1 \in Nat /\ k - 1 =< Len(q) /\ 1 \in Nat \ {0} /\ 1 =< (k - 1) + 1
    BY <1>1
  <2>2. /\ left \in Seq(S) /\ Len(left) = (k - 1) - 1 + 1
        /\ \A i \in 1 .. (k - 1) - 1 + 1 : left[i] = q[1 + i - 1]
    BY <2>1, PartLemma
  <2> QED
    BY <2>2, <1>1
<1>4. /\ right \in Seq(S) /\ Len(right) = Len(q) - k
      /\ \A i \in 1 .. Len(q) - k : right[i] = q[k + i]
  <2>1. k + 1 \in Nat \ {0} /\ Len(q) =< Len(q) /\ k + 1 =< Len(q) + 1
    BY <1>1
  <2>2. /\ right \in Seq(S) /\ Len(right) = Len(q) - (k + 1) + 1
        /\ \A i \in 1 .. Len(q) - (k + 1) + 1 : right[i] = q[(k + 1) + i - 1]
    BY <2>1, <1>1, PartLemma
  <2> QED
    BY <2>2, <1>1
<1> HIDE DEF left, right
<1>5. /\ rest \in Seq(S)
      /\ Len(rest) = (k - 1) + (Len(q) - k)
      /\ \A i \in 1 .. (k - 1) + (Len(q) - k) :
           rest[i] = IF i <= k - 1 THEN left[i] ELSE right[i - (k - 1)]
  <2>1. /\ rest \in Seq(S)
        /\ Len(rest) = Len(left) + Len(right)
        /\ \A i \in 1 .. Len(left) + Len(right) :
             rest[i] = IF i <= Len(left) THEN left[i] ELSE right[i - Len(left)]
    BY <1>3, <1>4, ConcatProperties, Zenon
  <2> HIDE DEF rest
  <2> QED
    BY <2>1, <1>3, <1>4
<1> HIDE DEF rest
<1>6. /\ <<v>> \o rest \in Seq(S)
      /\ Len(<<v>> \o rest) = 1 + Len(rest)
      /\ \A i \in 1 .. 1 + Len(rest) :
           (<<v>> \o rest)[i] = IF i <= 1 THEN v ELSE rest[i - 1]
  <2>1. <<v>> \in Seq(S) /\ Len(<<v>>) = 1 /\ <<v>>[1] = v
    OBVIOUS
  <2>2. /\ <<v>> \o rest \in Seq(S)
        /\ Len(<<v>> \o rest) = Len(<<v>>) + Len(rest)
        /\ \A i \in 1 .. Len(<<v>>) + Len(rest) :
             (<<v>> \o rest)[i] = IF i <= Len(<<v>>) THEN <<v>>[i] ELSE rest[i - Len(<<v>>)]
    BY <2>1, <1>5, ConcatProperties
  <2>3. \A i \in 1 .. 1 + Len(rest) : i <= 1 => i = 1
    BY <1>5, <1>1
  <2> QED
    BY <2>1, <2>2, <2>3
<1>7. Len(rest) = Len(q) - 1
  BY <1>5, <1>1
<1>8. ASSUME NEW i \in 1 .. Len(q)
      PROVE  \E j \in 1 .. Len(q) : (<<v>> \o rest)[j] = q[i]
  <2>1. CASE i = k
    <3>1. 1 \in 1 .. 1 + Len(rest) /\ 1 \in 1 .. Len(q)
      BY <1>7, <1>1
    <3>2. (<<v>> \o rest)[1] = v
      BY <3>1, <1>6
    <3> QED
      BY <2>1, <3>1, <3>2, <1>2
  <2>2. CASE i < k
    <3>1. /\ i \in 1 .. (k - 1) + (Len(q) - k) /\ i <= k - 1
          /\ i \in 1 .. k - 1
      BY <2>2, <1>1
    <3>2. rest[i] = q[i]
      BY <3>1, <1>5, <1>3
    <3>3. i + 1 \in 1 .. 1 + Len(rest) /\ ~(i + 1 <= 1) /\ (i + 1) - 1 = i
          /\ i + 1 \in 1 .. Len(q)
      BY <2>2, <1>1, <1>7
    <3>4. (<<v>> \o rest)[i + 1] = rest[i]
      BY <3>3, <1>6
    <3> QED
      BY <3>2, <3>3, <3>4
  <2>3. CASE i > k
    <3>1. /\ i - 1 \in 1 .. (k - 1) + (Len(q) - k) /\ ~(i - 1 <= k - 1)
          /\ (i - 1) - (k - 1) \in 1 .. Len(q) - k
          /\ k + ((i - 1) - (k - 1)) = i
      BY <2>3, <1>1
    <3>2. rest[i - 1] = q[i]
      BY <3>1, <1>5, <1>4
    <3>3. i \in 1 .. 1 + Len(rest) /\ ~(i <= 1)
      BY <2>3, <1>1, <1>7
    <3>4. (<<v>> \o rest)[i] = rest[i - 1]
      BY <3>3, <1>6
    <3> QED
      BY <3>2, <3>4
  <2>4. i = k \/ i < k \/ i > k
    BY <1>1
  <2> QED
    BY <2>1, <2>2, <2>3, <2>4, Zenon
<1>9. Len(<<v>> \o rest) = Len(q)
  BY <1>6, <1>7, <1>1
<1>10. RotateToFront(q, v) = <<v>> \o rest
  BY <1>2 DEF rest, left, right
<1>11. ASSUME NEW u \in S, Contains(q, u)
       PROVE  Contains(<<v>> \o rest, u)
  <2>1. PICK i \in 1 .. Len(q) : q[i] = u
    BY <1>11 DEF Contains
  <2>2. PICK j \in 1 .. Len(q) : (<<v>> \o rest)[j] = q[i]
    BY <1>8
  <2> QED
    BY <2>1, <2>2, <1>9 DEF Contains
<1> QED
  BY <1>6, <1>9, <1>10, <1>11

(* Whether or not the item was there, rotate_to_front leaves a queue.      *)
LEMMA RotateToFrontType ==
  ASSUME NEW S, NEW q \in Seq(S), NEW v \in S
  PROVE  RotateToFront(q, v) \in Seq(S)
<1>1. CASE Contains(q, v)
  BY <1>1, RotateToFrontLemma
<1>2. CASE ~Contains(q, v)
  <2>1. Erased(q, v) = q
    BY <1>2 DEF Erased
  <2>2. <<v>> \in Seq(S)
    OBVIOUS
  <2> QED
    BY <2>1, <2>2, ConcatProperties DEF RotateToFront
<1> QED
  BY <1>1, <1>2

(* copy_front_and_rotate_to_back keeps whatever was in the queue.          *)
LEMMA RotatedToBackKeeps ==
  ASSUME NEW S, NEW q \in Seq(S), q # <<>>, NEW u \in S, Contains(q, u)
  PROVE  Contains(RotatedToBack(q), u)
<1>1. PICK i \in 1 .. Len(q) : q[i] = u
  BY DEF Contains
<1>2. Len(q) \in Nat \ {0}
  BY EmptySeq
<1>3. CASE i = 1
  BY <1>1, <1>2, <1>3, RotatedToBackLemma DEF Contains
<1>4. CASE i # 1
  <2>1. i - 1 \in 1 .. Len(q) - 1 /\ (i - 1) + 1 = i /\ i - 1 \in 1 .. Len(q)
    BY <1>2, <1>4
  <2>2. RotatedToBack(q)[i - 1] = u
    BY <1>1, <2>1, RotatedToBackLemma
  <2> QED
    BY <2>1, <2>2, RotatedToBackLemma DEF Contains
<1> QED
  BY <1>3, <1>4

--------------------------------------------------------------------------------
(* The same operations, by what a queue without repetitions contains.      *)

LEMMA PushBackContents ==
  ASSUME NEW S, NEW q \in Seq(S), NEW v \in S
  PROVE  /\ \A u \in S : Contains(PushBack(q, v), u) <=> Contains(q, u) \/ u = v
         /\ IsInjective(q) /\ ~Contains(q, v) => IsInjective(PushBack(q, v))
<1>1. /\ PushBack(q, v) \in Seq(S)
      /\ Len(PushBack(q, v)) = Len(q) + 1
      /\ \A i \in 1 .. Len(q) : PushBack(q, v)[i] = q[i]
      /\ PushBack(q, v)[Len(q) + 1] = v
  BY PushBackLemma
<1>2. Len(q) \in Nat /\ DOMAIN q = 1 .. Len(q) /\ DOMAIN PushBack(q, v) = 1 .. Len(q) + 1
  BY <1>1, LenProperties
<1> HIDE DEF PushBack
<1>3. \A i \in 1 .. Len(q) + 1 : i \in 1 .. Len(q) \/ i = Len(q) + 1
  BY <1>2
<1>4. Len(q) + 1 \in 1 .. Len(q) + 1 /\ 1 .. Len(q) \subseteq 1 .. Len(q) + 1
  BY <1>2
<1>5. ASSUME NEW u \in S
      PROVE  Contains(PushBack(q, v), u) <=> Contains(q, u) \/ u = v
  BY <1>1, <1>3, <1>4 DEF Contains
<1>6. ASSUME IsInjective(q), ~Contains(q, v)
      PROVE  IsInjective(PushBack(q, v))
  <2> SUFFICES ASSUME NEW i \in 1 .. Len(q) + 1, NEW j \in 1 .. Len(q) + 1,
                      PushBack(q, v)[i] = PushBack(q, v)[j]
               PROVE  i = j
    BY <1>2 DEF IsInjective
  <2>1. CASE i \in 1 .. Len(q) /\ j \in 1 .. Len(q)
    BY <2>1, <1>1, <1>2, <1>6 DEF IsInjective
  <2>2. CASE i \in 1 .. Len(q) /\ j = Len(q) + 1
    BY <2>2, <1>1, <1>6 DEF Contains
  <2>3. CASE i = Len(q) + 1 /\ j \in 1 .. Len(q)
    BY <2>3, <1>1, <1>6 DEF Contains
  <2> QED
    BY <2>1, <2>2, <2>3, <1>3
<1> QED
  BY <1>5, <1>6

LEMMA PopFrontContents ==
  ASSUME NEW S, NEW q \in Seq(S), q # <<>>, IsInjective(q)
  PROVE  /\ Contains(q, First(q))
         /\ \A u \in S : Contains(WithoutFirst(q), u) <=> Contains(q, u) /\ u # First(q)
         /\ IsInjective(WithoutFirst(q))
<1>1. /\ Len(q) \in Nat \ {0}
      /\ First(q) = q[1]
      /\ WithoutFirst(q) \in Seq(S)
      /\ Len(WithoutFirst(q)) = Len(q) - 1
      /\ \A i \in 1 .. Len(q) - 1 : WithoutFirst(q)[i] = q[i + 1]
  BY PopFrontLemma
<1>2. DOMAIN q = 1 .. Len(q) /\ DOMAIN WithoutFirst(q) = 1 .. Len(q) - 1
  BY <1>1, LenProperties
<1>3. 1 \in 1 .. Len(q)
  BY <1>1
<1>4. \A i \in 1 .. Len(q) - 1 : i + 1 \in 1 .. Len(q) /\ i + 1 # 1
  BY <1>1
<1>5. \A i \in 1 .. Len(q) : i # 1 => i - 1 \in 1 .. Len(q) - 1 /\ (i - 1) + 1 = i
  BY <1>1
<1>6. \A i, j \in 1 .. Len(q) : q[i] = q[j] => i = j
  BY <1>2 DEF IsInjective
<1>7. ASSUME NEW u \in S
      PROVE  Contains(WithoutFirst(q), u) <=> Contains(q, u) /\ u # First(q)
  <2>1. ASSUME NEW i \in 1 .. Len(q) - 1, WithoutFirst(q)[i] = u
        PROVE  Contains(q, u) /\ u # First(q)
    BY <2>1, <1>1, <1>3, <1>4, <1>6 DEF Contains
  <2>2. ASSUME NEW i \in 1 .. Len(q), q[i] = u, u # First(q)
        PROVE  Contains(WithoutFirst(q), u)
    <3>1. i - 1 \in 1 .. Len(q) - 1 /\ (i - 1) + 1 = i
      BY <2>2, <1>1, <1>5
    <3> QED
      BY <3>1, <2>2, <1>1 DEF Contains
  <2> QED
    BY <2>1, <2>2, <1>1 DEF Contains
<1>8. IsInjective(WithoutFirst(q))
  <2> SUFFICES ASSUME NEW i \in 1 .. Len(q) - 1, NEW j \in 1 .. Len(q) - 1,
                      WithoutFirst(q)[i] = WithoutFirst(q)[j]
               PROVE  i = j
    BY <1>2 DEF IsInjective
  <2>1. i + 1 = j + 1
    BY <1>1, <1>4, <1>6
  <2> QED
    BY <2>1, <1>1
<1> QED
  BY <1>1, <1>3, <1>7, <1>8 DEF Contains

LEMMA StealContents ==
  ASSUME NEW S, NEW q \in Seq(S), q # <<>>, IsInjective(q)
  PROVE  /\ Contains(q, Stolen(q))
         /\ \A u \in S : Contains(WithoutStolen(q), u) <=> Contains(q, u) /\ u # Stolen(q)
         /\ IsInjective(WithoutStolen(q))
<1>1. /\ Len(q) \in Nat \ {0}
      /\ Stolen(q) = q[Len(q)]
      /\ WithoutStolen(q) \in Seq(S)
      /\ Len(WithoutStolen(q)) = Len(q) - 1
      /\ \A i \in 1 .. Len(q) - 1 : WithoutStolen(q)[i] = q[i]
  BY StealLemma
<1>2. DOMAIN q = 1 .. Len(q) /\ DOMAIN WithoutStolen(q) = 1 .. Len(q) - 1
  BY <1>1, LenProperties
<1>3. Len(q) \in 1 .. Len(q)
  BY <1>1
<1>4. \A i \in 1 .. Len(q) - 1 : i \in 1 .. Len(q) /\ i # Len(q)
  BY <1>1
<1>5. \A i \in 1 .. Len(q) : i # Len(q) => i \in 1 .. Len(q) - 1
  BY <1>1
<1>6. \A i, j \in 1 .. Len(q) : q[i] = q[j] => i = j
  BY <1>2 DEF IsInjective
<1>7. ASSUME NEW u \in S
      PROVE  Contains(WithoutStolen(q), u) <=> Contains(q, u) /\ u # Stolen(q)
  <2>1. ASSUME NEW i \in 1 .. Len(q) - 1, WithoutStolen(q)[i] = u
        PROVE  Contains(q, u) /\ u # Stolen(q)
    BY <2>1, <1>1, <1>3, <1>4, <1>6 DEF Contains
  <2>2. ASSUME NEW i \in 1 .. Len(q), q[i] = u, u # Stolen(q)
        PROVE  Contains(WithoutStolen(q), u)
    <3>1. i \in 1 .. Len(q) - 1
      BY <2>2, <1>1, <1>5
    <3> QED
      BY <3>1, <2>2, <1>1 DEF Contains
  <2> QED
    BY <2>1, <2>2, <1>1 DEF Contains
<1>8. IsInjective(WithoutStolen(q))
  BY <1>1, <1>2, <1>4, <1>6 DEF IsInjective
<1> QED
  BY <1>1, <1>3, <1>7, <1>8 DEF Contains
================================================================================
