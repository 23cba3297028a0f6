---------------------------- MODULE RecvHttpProofs ----------------------------
(***************************************************************************)
(* Proofs about RecvHttp, for any messages in any segments and blocks of   *)
(* any size.                                                               *)
(***************************************************************************)
EXTENDS RecvHttp, SequenceTheorems, WellFoundedInduction, TLAPS

LEMMA MinLemma ==
  ASSUME NEW T, T \subseteq Nat, T # {}
  PROVE  Min(T) \in T /\ \A y \in T : Min(T) <= y
<1>1. PICK x \in T : \A y \in T : ~(<<y, x>> \in OpToRel(<, Nat))
  BY NatLessThanWellFounded, WFMin
<1>2. \A y \in T : ~(y < x)
  BY <1>1 DEF OpToRel
<1>3. \E m \in T : \A y \in T : m <= y
  BY <1>2
<1> QED
  BY <1>3 DEF Min

LEMMA CutLemma ==
  ASSUME NEW S, NEW b \in Seq(S), NEW e \in 1 .. Len(b)
  PROVE  \E p, q \in Seq(S) : /\ p = SubSeq(b, 1, e) /\ q = SubSeq(b, e + 1, Len(b))
                             /\ p \o q = b
<1> DEFINE l == Len(b)
<1>1. l \in Nat /\ e \in 1 .. l /\ \A i \in 1 .. l : b[i] \in S
  BY LenProperties
<1> HIDE DEF l
<1>2. /\ SubSeq(b, 1, e) \in Seq(S)
      /\ Len(SubSeq(b, 1, e)) = e
      /\ \A i \in 1 .. e : SubSeq(b, 1, e)[i] = b[i]
  <2>1. 1 \in Int /\ e \in Int /\ \A i \in 1 .. e : b[i] \in S
    BY <1>1
  <2>2. /\ SubSeq(b, 1, e) \in Seq(S)
        /\ Len(SubSeq(b, 1, e)) = IF 1 <= e THEN e - 1 + 1 ELSE 0
        /\ \A i \in 1 .. e - 1 + 1 : SubSeq(b, 1, e)[i] = b[1 + i - 1]
    BY <2>1, SubSeqProperties
  <2> QED
    BY <1>1, <2>2
<1>3. /\ SubSeq(b, e + 1, l) \in Seq(S)
      /\ Len(SubSeq(b, e + 1, l)) = l - e
      /\ \A i \in 1 .. l - e : SubSeq(b, e + 1, l)[i] = b[e + i]
  <2>1. e + 1 \in Int /\ l \in Int /\ \A i \in e + 1 .. l : b[i] \in S
    BY <1>1
  <2>2. /\ SubSeq(b, e + 1, l) \in Seq(S)
        /\ Len(SubSeq(b, e + 1, l)) = IF e + 1 <= l THEN l - (e + 1) + 1 ELSE 0
        /\ \A i \in 1 .. l - (e + 1) + 1 : SubSeq(b, e + 1, l)[i] = b[(e + 1) + i - 1]
    BY <2>1, SubSeqProperties
  <2> QED
    BY <1>1, <2>2
<1> DEFINE p == SubSeq(b, 1, e)
           q == SubSeq(b, e + 1, l)
<1> HIDE DEF p, q
<1>4. p \o q = b
  <2>1. /\ p \o q \in Seq(S) /\ Len(p \o q) = Len(p) + Len(q)
        /\ \A i \in 1 .. Len(p) + Len(q) :
             (p \o q)[i] = IF i <= Len(p) THEN p[i] ELSE q[i - Len(p)]
    BY <1>2, <1>3, ConcatProperties DEF p, q
  <2>2. Len(p) = e /\ Len(q) = l - e /\ (\A i \in 1 .. e : p[i] = b[i])
        /\ \A i \in 1 .. l - e : q[i] = b[e + i]
    BY <1>2, <1>3 DEF p, q
  <2>3. \A i \in 1 .. l : (p \o q)[i] = b[i]
    BY <1>1, <2>1, <2>2
  <2>4. Len(p \o q) = Len(b)
    BY <1>1, <2>1, <2>2 DEF l
  <2> QED
    BY <2>1, <2>3, <2>4, SeqEqual DEF l
<1> QED
  BY <1>2, <1>3, <1>4 DEF p, q, l

(* What is appended to head or body is appended to both together.          *)
LEMMA AppendLemma ==
  ASSUME head \in Seq(Byte), body \in Seq(Byte), NEW b \in Seq(Byte), AppendView(b)
  PROVE  /\ head' \in Seq(Byte) /\ body' \in Seq(Byte)
         /\ head' \o body' = (head \o body) \o b
<1>1. CASE body # <<>> /\ body' = body \o b /\ UNCHANGED head
  BY <1>1, ConcatProperties, ConcatAssociative
<1>2. CASE body = <<>> /\ head' = head \o b /\ UNCHANGED body
  <2>1. head' \in Seq(Byte)
    BY <1>2, ConcatProperties
  <2>2. head' \o body' = head' /\ head \o body = head
    BY <1>2, <2>1, ConcatEmptySeq
  <2> QED
    BY <1>2, <2>1, <2>2
<1>3. CASE /\ body = <<>> /\ HeaderEnds(b) # {}
           /\ LET e == Min(HeaderEnds(b))
              IN  head' = head \o SubSeq(b, 1, e) /\ body' = SubSeq(b, e + 1, Len(b))
  <2> DEFINE e == Min(HeaderEnds(b))
  <2>1. e \in 4 .. Len(b)
    <3>1. HeaderEnds(b) \subseteq Nat /\ HeaderEnds(b) \subseteq 4 .. Len(b)
      BY LenProperties DEF HeaderEnds
    <3> QED
      BY <1>3, <3>1, MinLemma
  <2>2. PICK p, q \in Seq(Byte) : /\ p = SubSeq(b, 1, e) /\ q = SubSeq(b, e + 1, Len(b))
                                    /\ p \o q = b
    <3>1. e \in 1 .. Len(b)
      BY <2>1, LenProperties
    <3> HIDE DEF e
    <3> QED
      BY <3>1, CutLemma
  <2>3. head' = head \o p /\ body' = q
    BY <1>3, <2>2
  <2>4. head \o body = head
    BY <1>3, ConcatEmptySeq
  <2>5. (head \o p) \o q = head \o (p \o q)
    BY ConcatAssociative
  <2>6. (head \o p) \o q = head \o b
    BY <2>2, <2>5
  <2> QED
    BY <2>3, <2>4, <2>6, ConcatProperties
<1> QED
  BY <1>1, <1>2, <1>3 DEF AppendView

NulFree(k) == \A j \in 1 .. k : message[j] # "nul"

(***************************************************************************)
(* What a block is taken for, if a NUL follows the buffer: no more than it *)
(* has, and of what comes before the first NUL everything in its place.    *)
(***************************************************************************)
LEMMA ViewLemma ==
  ASSUME message \in Seq(Byte), taken \in Nat, NEW n \in Nat, taken + n <= Len(message),
         NEW b \in Views(n)
  PROVE  /\ b \in Seq(Byte)
         /\ ~overread => /\ Len(b) <= n
                         /\ \A i \in 1 .. n : NulFree(taken + i) =>
                              i <= Len(b) /\ b[i] = message[taken + i]
<1> DEFINE data == SubSeq(message, taken + 1, taken + n)
           nuls == {i \in 1 .. n : data[i] = "nul"}
<1>1. /\ data \in Seq(Byte) /\ Len(data) = n
      /\ \A i \in 1 .. n : data[i] = message[taken + i]
  <2>1. \A i \in taken + 1 .. taken + n : message[i] \in Byte
    BY LenProperties
  <2>2. taken + 1 \in Int /\ taken + n \in Int
    OBVIOUS
  <2>3. /\ data \in Seq(Byte)
        /\ Len(data) = IF taken + 1 <= taken + n THEN (taken + n) - (taken + 1) + 1 ELSE 0
        /\ \A i \in 1 .. (taken + n) - (taken + 1) + 1 : data[i] = message[taken + 1 + i - 1]
    BY <2>1, <2>2, SubSeqProperties
  <2> QED
    BY <2>3
<1>2. b \in IF nuls # {} THEN {SubSeq(data, 1, Min(nuls) - 1)}
            ELSE IF n = Block /\ overread THEN {data} \cup {data \o j : j \in Junk}
            ELSE {data}
  BY DEF Views
<1> HIDE DEF data
<1>3. CASE nuls # {}
  <2> DEFINE m == Min(nuls)
  <2>1. m \in 1 .. n /\ data[m] = "nul"
    <3>1. nuls \subseteq Nat
      OBVIOUS
    <3>2. m \in nuls
      BY <1>3, <3>1, MinLemma
    <3> QED
      BY <3>2
  <2>2. b = SubSeq(data, 1, m - 1)
    BY <1>2, <1>3
  <2> HIDE DEF m, nuls
  <2>3. m - 1 \in Int /\ 1 \in Int /\ \A i \in 1 .. m - 1 : data[i] \in Byte
    BY <1>1, <2>1
  <2>4. /\ b \in Seq(Byte)
        /\ Len(b) = IF 1 <= m - 1 THEN m - 1 - 1 + 1 ELSE 0
        /\ \A i \in 1 .. m - 1 - 1 + 1 : b[i] = data[1 + i - 1]
    BY <2>2, <2>3, SubSeqProperties
  <2>5. Len(b) = m - 1 /\ \A i \in 1 .. m - 1 : b[i] = data[i]
    BY <2>1, <2>4
  <2>6. ASSUME NEW i \in 1 .. n, NulFree(taken + i)
        PROVE  i <= m - 1
    <3>1. message[taken + m] = "nul"
      BY <1>1, <2>1
    <3>2. CASE m <= i
      BY <2>1, <2>6, <3>1, <3>2 DEF NulFree
    <3> QED
      BY <2>1, <3>2
  <2>7. \A i \in 1 .. n : NulFree(taken + i) => i <= Len(b) /\ b[i] = message[taken + i]
    BY <1>1, <2>1, <2>5, <2>6
  <2> QED
    BY <2>1, <2>4, <2>5, <2>7
<1>4. CASE nuls = {}
  <2>1. b = data \/ (overread /\ \E j \in Junk : b = data \o j)
    BY <1>2, <1>4
  <2>2. \A j \in Junk : j \in Seq(Byte)
    <3> SUFFICES ASSUME NEW j \in Junk PROVE j \in Seq(Byte)
      OBVIOUS
    <3>1. j \in Seq(Byte \ {"nul"})
      BY RecvAssumption
    <3> QED
      BY <3>1
  <2>3. b \in Seq(Byte)
    BY <1>1, <2>1, <2>2, ConcatProperties
  <2>4. ~overread => b = data
    BY <2>1
  <2>5. \A i \in 1 .. n : i <= n
    OBVIOUS
  <2> QED
    BY <1>1, <2>3, <2>4, <2>5
<1> QED
  BY <1>3, <1>4

(* What has been read is what was sent, in its place, up to the first NUL. *)
InPlace ==
  /\ message \in Seq(Byte) /\ arrived \in 0 .. Len(message) /\ taken \in 0 .. arrived
  /\ head \in Seq(Byte) /\ body \in Seq(Byte)
  /\ ~overread =>
       /\ Len(head \o body) <= taken
       /\ \A i \in 1 .. taken : NulFree(i) =>
            i <= Len(head \o body) /\ (head \o body)[i] = message[i]

LEMMA InPlaceInit == Init => InPlace
<1> SUFFICES ASSUME Init PROVE InPlace
  OBVIOUS
<1>1. /\ message \in Seq(Byte) /\ head = <<>> /\ body = <<>>
      /\ arrived = 0 /\ taken = 0
  BY RecvAssumption DEF Init
<1>2. Len(message) \in Nat /\ <<>> \in Seq(Byte)
  BY <1>1, LenProperties, EmptySeq
<1>3. head \o body = <<>> /\ Len(<<>>) = 0
  BY <1>1, <1>2, ConcatEmptySeq, EmptySeq
<1> QED
  BY <1>1, <1>2, <1>3 DEF InPlace

(* One turn of the loop: n bytes are taken, and b is what they are taken   *)
(* for.                                                                    *)
Turn(n, b) ==
  /\ taken' = taken + n /\ UNCHANGED <<message, overread, arrived>>
  /\ taken \in Nat /\ taken + n <= arrived /\ arrived \in Nat
  /\ Len(message) \in Nat /\ arrived <= Len(message)
  /\ ~overread => /\ Len(b) <= n
                  /\ \A i \in 1 .. n : NulFree(taken + i) =>
                       i <= Len(b) /\ b[i] = message[taken + i]
  /\ head' \in Seq(Byte) /\ body' \in Seq(Byte)
  /\ head' \o body' = (head \o body) \o b

LEMMA ReadLemma ==
  ASSUME InPlace, RecvData
  PROVE  \E n \in Nat, b \in Seq(Byte) : Turn(n, b)
<1> DEFINE n == Min({Block, arrived - taken})
<1>1. n \in Nat /\ taken + n <= arrived
  <2>1. Block \in Nat /\ arrived - taken \in Nat
    BY RecvAssumption DEF InPlace, RecvData
  <2>2. {Block, arrived - taken} \subseteq Nat
    BY <2>1
  <2>3. n \in {Block, arrived - taken} /\ n <= arrived - taken
    BY <2>2, MinLemma
  <2> HIDE DEF n
  <2> QED
    BY <2>1, <2>3 DEF InPlace
<1>2. taken' = taken + n /\ UNCHANGED <<message, overread, arrived>>
  BY DEF RecvData, given
<1>3. PICK b \in Views(n) : AppendView(b)
  BY DEF RecvData
<1> HIDE DEF n
<1>4. /\ Len(message) \in Nat /\ taken \in Nat /\ taken + n <= Len(message)
      /\ arrived \in Nat /\ arrived <= Len(message)
  BY <1>1, LenProperties DEF InPlace
<1>5. /\ b \in Seq(Byte)
      /\ ~overread => /\ Len(b) <= n
                      /\ \A i \in 1 .. n : NulFree(taken + i) =>
                           i <= Len(b) /\ b[i] = message[taken + i]
  BY <1>1, <1>4, ViewLemma DEF InPlace
<1>6. /\ head' \in Seq(Byte) /\ body' \in Seq(Byte)
      /\ head' \o body' = (head \o body) \o b
  BY <1>3, <1>5, AppendLemma DEF InPlace
<1> QED
  BY <1>1, <1>2, <1>4, <1>5, <1>6 DEF Turn

LEMMA InPlaceRead == InPlace /\ RecvData => InPlace'
<1> SUFFICES ASSUME InPlace, RecvData PROVE InPlace'
  OBVIOUS
<1>1. PICK n \in Nat, b \in Seq(Byte) : Turn(n, b)
  BY ReadLemma
<1> USE <1>1 DEF Turn
<1> DEFINE r == head \o body
<1>2. r \in Seq(Byte) /\ Len(r) \in Nat /\ Len(b) \in Nat
  BY <1>1, ConcatProperties, LenProperties DEF InPlace
<1> HIDE DEF r
<1>3. /\ Len(r \o b) = Len(r) + Len(b)
      /\ \A i \in 1 .. Len(r) + Len(b) :
           (r \o b)[i] = IF i <= Len(r) THEN r[i] ELSE b[i - Len(r)]
  BY <1>1, <1>2, ConcatProperties
<1>4. ASSUME ~overread
      PROVE  /\ Len(r \o b) <= taken + n
             /\ \A i \in 1 .. taken + n : NulFree(i) =>
                  i <= Len(r \o b) /\ (r \o b)[i] = message[i]
  <2>1. /\ Len(r) <= taken
        /\ \A i \in 1 .. taken : NulFree(i) => i <= Len(r) /\ r[i] = message[i]
    BY <1>4 DEF InPlace, r
  <2>2. ASSUME NEW i \in 1 .. taken + n, NulFree(i)
        PROVE  i <= Len(r \o b) /\ (r \o b)[i] = message[i]
    <3>1. CASE i <= taken
      <4>1. i \in 1 .. taken /\ i <= Len(r) /\ r[i] = message[i]
        BY <1>1, <2>1, <2>2, <3>1
      <4> QED
        BY <1>2, <1>3, <4>1
    <3>2. CASE i > taken
      <4>1. Len(r) = taken
        <5>1. CASE taken = 0
          BY <1>2, <2>1, <5>1
        <5>2. CASE taken # 0
          <6>1. taken \in 1 .. taken /\ NulFree(taken)
            BY <1>1, <2>2, <3>2, <5>2 DEF NulFree
          <6> QED
            BY <1>1, <1>2, <2>1, <6>1
        <5> QED
          BY <5>1, <5>2
      <4>2. i - taken \in 1 .. n /\ taken + (i - taken) = i
        BY <1>1, <3>2
      <4>3. i - taken <= Len(b) /\ b[i - taken] = message[i]
        BY <1>1, <1>4, <2>2, <4>2
      <4> QED
        BY <1>1, <1>2, <1>3, <3>2, <4>1, <4>3
    <3> QED
      BY <1>1, <3>1, <3>2
  <2>3. Len(r \o b) <= taken + n
    BY <1>1, <1>2, <1>3, <1>4, <2>1
  <2> QED
    BY <2>2, <2>3
<1>5. taken' \in 0 .. arrived' /\ arrived' \in 0 .. Len(message')
  BY <1>1 DEF InPlace
<1>6. \A i : NulFree(i)' <=> NulFree(i)
  BY <1>1 DEF NulFree
<1>7. head' \o body' = r \o b
  BY <1>1 DEF r
<1> QED
  BY <1>1, <1>4, <1>5, <1>6, <1>7 DEF InPlace

LEMMA InPlaceStep == InPlace /\ [Next]_vars => InPlace'
<1> SUFFICES ASSUME InPlace, [Next]_vars PROVE InPlace'
  OBVIOUS
<1>1. CASE Arrive
  <2>1. Len(message) \in Nat
    BY LenProperties DEF InPlace
  <2>2. arrived' \in 0 .. Len(message) /\ taken \in 0 .. arrived'
    BY <1>1, <2>1 DEF Arrive, InPlace
  <2> QED
    BY <1>1, <2>2 DEF Arrive, InPlace, given, NulFree
<1>2. CASE HangUp \/ RecvEnd \/ Interrupt \/ UNCHANGED vars
  BY <1>2 DEF HangUp, RecvEnd, Interrupt, InPlace, given, vars, NulFree
<1> QED
  BY <1>1, <1>2, InPlaceRead DEF Next

(* The types. *)
LEMMA TypeInit == Init => TypeOK
<1> SUFFICES ASSUME Init PROVE TypeOK
  OBVIOUS
<1>1. Len(message) \in Nat /\ <<>> \in Seq(Byte)
  BY RecvAssumption, LenProperties, EmptySeq DEF Init
<1> QED
  BY <1>1 DEF Init, TypeOK

LEMMA TypeRead == TypeOK /\ InPlace /\ RecvData => TypeOK'
<1> SUFFICES ASSUME TypeOK, InPlace, RecvData PROVE TypeOK'
  OBVIOUS
<1>1. PICK n \in Nat, b \in Seq(Byte) : Turn(n, b)
  BY ReadLemma
<1>2. taken' \in 0 .. arrived' /\ arrived' \in 0 .. Len(message')
  BY <1>1 DEF Turn, InPlace
<1>3. head' \in Seq(Byte) /\ body' \in Seq(Byte)
  BY <1>1 DEF Turn
<1>4. state' \in {"done", "recv"} /\ UNCHANGED <<message, segmented, overread, peer>>
  BY DEF RecvData, given
<1> QED
  BY <1>2, <1>3, <1>4 DEF TypeOK

LEMMA TypeStep == TypeOK /\ InPlace /\ [Next]_vars => TypeOK'
<1> SUFFICES ASSUME TypeOK, InPlace, [Next]_vars PROVE TypeOK'
  OBVIOUS
<1>1. CASE Arrive
  <2>1. Len(message) \in Nat
    BY LenProperties DEF InPlace
  <2>2. arrived' \in 0 .. Len(message) /\ taken \in 0 .. arrived'
    BY <1>1, <2>1 DEF Arrive, InPlace
  <2> QED
    BY <1>1, <2>2 DEF Arrive, TypeOK, given
<1>2. CASE HangUp \/ RecvEnd \/ Interrupt \/ UNCHANGED vars
  BY <1>2 DEF HangUp, RecvEnd, Interrupt, TypeOK, given, vars
<1> QED
  BY <1>1, <1>2, TypeRead DEF Next

(* Every variable of recv_http keeps its type, whatever is sent and lies    *)
(* behind the buffer: recv never returns more than has arrived.             *)
THEOREM RecvTypeCorrect == Spec => []TypeOK
<1>1. Init => TypeOK /\ InPlace
  BY TypeInit, InPlaceInit
<1>2. TypeOK /\ InPlace /\ [Next]_vars => (TypeOK /\ InPlace)'
  BY TypeStep, InPlaceStep
<1> QED
  BY <1>1, <1>2, PTL DEF Spec

(***************************************************************************)
(* Of any message, in whatever segments and blocks, the bytes before the   *)
(* first NUL are read in their order, and no more bytes than were taken.   *)
(***************************************************************************)
THEOREM NothingIsInvented == Spec => []NothingInvented
<1>1. InPlace => NothingInvented
  <2> SUFFICES ASSUME InPlace, ~overread
               PROVE  /\ Len(head \o body) <= taken
                      /\ IsPrefix(SubSeq(message, 1, BeforeNul), head \o body)
    BY DEF NothingInvented
  <2> DEFINE r == head \o body
             T == {taken} \cup {i - 1 : i \in {j \in 1 .. Len(message) : message[j] = "nul"}}
             k == Min(T)
  <2>1. /\ Len(message) \in Nat /\ taken \in Nat /\ taken <= Len(message)
        /\ message \in Seq(Byte) /\ r \in Seq(Byte) /\ Len(r) \in Nat
    BY LenProperties, ConcatProperties DEF InPlace
  <2>2. /\ Len(r) <= taken
        /\ \A i \in 1 .. taken : NulFree(i) => i <= Len(r) /\ r[i] = message[i]
    BY DEF InPlace
  <2>3. k = BeforeNul
    BY DEF BeforeNul
  <2> HIDE DEF r
  <2>4. k \in 0 .. taken /\ \A j \in 1 .. Len(message) : message[j] = "nul" => k <= j - 1
    <3>1. T \subseteq Nat /\ T # {}
      BY <2>1
    <3>2. k \in T /\ \A y \in T : k <= y
      <4> HIDE DEF T
      <4> QED
        BY <3>1, MinLemma
    <3>3. taken \in T /\ \A j \in 1 .. Len(message) : message[j] = "nul" => j - 1 \in T
      OBVIOUS
    <3>4. k \in Nat /\ k <= taken
      <4> HIDE DEF T, k
      <4> QED
        BY <3>1, <3>2, <3>3
    <3>5. ASSUME NEW j \in 1 .. Len(message), message[j] = "nul" PROVE k <= j - 1
      <4> HIDE DEF T, k
      <4> QED
        BY <3>2, <3>3, <3>5
    <3> HIDE DEF T, k
    <3> QED
      BY <2>1, <3>4, <3>5
  <2> HIDE DEF k
  <2>5. ASSUME NEW i \in 1 .. k PROVE i <= Len(r) /\ r[i] = message[i]
    <3>1. NulFree(i)
      BY <2>1, <2>4 DEF NulFree
    <3> QED
      BY <2>1, <2>2, <2>4, <3>1
  <2>6. k <= Len(r)
    BY <2>1, <2>4, <2>5
  <2>7. /\ SubSeq(message, 1, k) \in Seq(Byte) /\ Len(SubSeq(message, 1, k)) = k
        /\ \A i \in 1 .. k : SubSeq(message, 1, k)[i] = message[i]
    <3>1. 1 \in Int /\ k \in Int /\ \A i \in 1 .. k : message[i] \in Byte
      BY <2>1, <2>4
    <3>2. /\ SubSeq(message, 1, k) \in Seq(Byte)
          /\ Len(SubSeq(message, 1, k)) = IF 1 <= k THEN k - 1 + 1 ELSE 0
          /\ \A i \in 1 .. k - 1 + 1 : SubSeq(message, 1, k)[i] = message[1 + i - 1]
      BY <3>1, SubSeqProperties
    <3> QED
      BY <2>4, <3>2
  <2>8. /\ SubSeq(r, 1, k) \in Seq(Byte) /\ Len(SubSeq(r, 1, k)) = k
        /\ \A i \in 1 .. k : SubSeq(r, 1, k)[i] = r[i]
    <3>1. 1 \in Int /\ k \in Int /\ \A i \in 1 .. k : r[i] \in Byte
      BY <2>1, <2>4, <2>6
    <3>2. /\ SubSeq(r, 1, k) \in Seq(Byte)
          /\ Len(SubSeq(r, 1, k)) = IF 1 <= k THEN k - 1 + 1 ELSE 0
          /\ \A i \in 1 .. k - 1 + 1 : SubSeq(r, 1, k)[i] = r[1 + i - 1]
      BY <3>1, SubSeqProperties
    <3> QED
      BY <2>4, <3>2
  <2>9. SubSeq(message, 1, k) = SubSeq(r, 1, k)
    BY <2>5, <2>7, <2>8, SeqEqual
  <2>10. SubSeq(SubSeq(message, 1, k), 1, k) = SubSeq(message, 1, k)
    BY <2>7, SubSeqFull
  <2>11. IsPrefix(SubSeq(message, 1, k), r)
    BY <2>6, <2>7, <2>9, <2>10 DEF IsPrefix
  <2> QED
    BY <2>2, <2>3, <2>11 DEF r
<1>2. Spec => []InPlace
  BY InPlaceInit, InPlaceStep, PTL DEF Spec
<1> QED
  BY <1>1, <1>2, PTL
--------------------------------------------------------------------------------
(* Sections of a sequence.                                                 *)
LEMMA SectionLemma ==
  ASSUME NEW S, NEW m \in Seq(S), NEW a \in Nat, NEW z \in Nat, a <= z, z <= Len(m)
  PROVE  /\ SubSeq(m, a + 1, z) \in Seq(S) /\ Len(SubSeq(m, a + 1, z)) = z - a
         /\ \A i \in 1 .. z - a : SubSeq(m, a + 1, z)[i] = m[a + i]
<1>1. a + 1 \in Int /\ z \in Int /\ \A i \in a + 1 .. z : m[i] \in S
  BY LenProperties
<1>2. /\ SubSeq(m, a + 1, z) \in Seq(S)
      /\ Len(SubSeq(m, a + 1, z)) = IF a + 1 <= z THEN z - (a + 1) + 1 ELSE 0
      /\ \A i \in 1 .. z - (a + 1) + 1 : SubSeq(m, a + 1, z)[i] = m[(a + 1) + i - 1]
  BY <1>1, SubSeqProperties
<1> QED
  BY <1>2

LEMMA JoinLemma ==
  ASSUME NEW S, NEW m \in Seq(S), NEW a \in Nat, NEW y \in Nat, NEW z \in Nat,
         a <= y, y <= z, z <= Len(m)
  PROVE  SubSeq(m, a + 1, y) \o SubSeq(m, y + 1, z) = SubSeq(m, a + 1, z)
<1> DEFINE p == SubSeq(m, a + 1, y)
           q == SubSeq(m, y + 1, z)
           r == SubSeq(m, a + 1, z)
<1>1. p \in Seq(S) /\ Len(p) = y - a /\ \A i \in 1 .. y - a : p[i] = m[a + i]
  BY SectionLemma, LenProperties
<1>2. q \in Seq(S) /\ Len(q) = z - y /\ \A i \in 1 .. z - y : q[i] = m[y + i]
  BY SectionLemma, LenProperties
<1>3. r \in Seq(S) /\ Len(r) = z - a /\ \A i \in 1 .. z - a : r[i] = m[a + i]
  BY SectionLemma, LenProperties
<1> DEFINE w == p \o q
           l == y - a
<1>4. /\ w \in Seq(S) /\ Len(w) = z - a
      /\ \A i \in 1 .. z - a : w[i] = IF i <= l THEN p[i] ELSE q[i - l]
  <2> HIDE DEF p, q
  <2>1. /\ w \in Seq(S) /\ Len(w) = Len(p) + Len(q)
        /\ \A i \in 1 .. Len(p) + Len(q) : w[i] = IF i <= Len(p) THEN p[i] ELSE q[i - Len(p)]
    BY <1>1, <1>2, ConcatProperties
  <2>2. Len(p) = l /\ Len(p) + Len(q) = z - a
    BY <1>1, <1>2
  <2> HIDE DEF w, l
  <2> QED
    BY <2>1, <2>2
<1>5. l \in Nat /\ z - a = l + (z - y) /\ a + l = y
  OBVIOUS
<1> HIDE DEF p, q, r, w, l
<1>6. ASSUME NEW i \in 1 .. z - a PROVE w[i] = m[a + i]
  <2>1. CASE i <= l
    BY <1>1, <1>4, <1>5, <2>1 DEF l
  <2>2. CASE ~(i <= l)
    <3>1. i - l \in 1 .. z - y /\ y + (i - l) = a + i
      BY <1>5, <2>2
    <3>2. w[i] = q[i - l]
      BY <1>4, <2>2
    <3>3. q[i - l] = m[y + (i - l)]
      BY <1>2, <3>1
    <3> QED
      BY <3>1, <3>2, <3>3
  <2> QED
    BY <2>1, <2>2
<1>7. w = r
  BY <1>3, <1>4, <1>6, SeqEqual
<1> QED
  BY <1>7 DEF p, q, r, w

LEMMA NestLemma ==
  ASSUME NEW S, NEW m \in Seq(S), NEW t \in Nat, NEW n \in Nat, t + n <= Len(m),
         NEW a \in Nat, NEW z \in Nat, a <= z, z <= n
  PROVE  SubSeq(SubSeq(m, t + 1, t + n), a + 1, z) = SubSeq(m, t + a + 1, t + z)
<1> DEFINE d == SubSeq(m, t + 1, t + n)
           p == SubSeq(d, a + 1, z)
           q == SubSeq(m, t + a + 1, t + z)
<1>1. d \in Seq(S) /\ Len(d) = n /\ \A i \in 1 .. n : d[i] = m[t + i]
  <2>1. t + n \in Nat /\ t <= t + n /\ t + n - t = n
    OBVIOUS
  <2>2. d \in Seq(S) /\ Len(d) = t + n - t /\ \A i \in 1 .. t + n - t : d[i] = m[t + i]
    BY <2>1, SectionLemma
  <2> QED
    BY <2>1, <2>2
<1> HIDE DEF d
<1>2. p \in Seq(S) /\ Len(p) = z - a /\ \A i \in 1 .. z - a : p[i] = d[a + i]
  BY <1>1, SectionLemma
<1>3. q \in Seq(S) /\ Len(q) = z - a /\ \A i \in 1 .. z - a : q[i] = m[t + a + i]
  <2>1. t + a \in Nat /\ t + z \in Nat /\ t + a <= t + z /\ t + z <= Len(m)
        /\ t + z - (t + a) = z - a
    BY LenProperties
  <2>2. /\ q \in Seq(S) /\ Len(q) = t + z - (t + a)
        /\ \A i \in 1 .. t + z - (t + a) : q[i] = m[t + a + i]
    BY <2>1, SectionLemma
  <2> QED
    BY <2>1, <2>2
<1> HIDE DEF p, q
<1>4. \A i \in 1 .. z - a : p[i] = q[i]
  <2> SUFFICES ASSUME NEW i \in 1 .. z - a PROVE p[i] = q[i]
    OBVIOUS
  <2>1. a + i \in 1 .. n /\ t + (a + i) = t + a + i
    OBVIOUS
  <2> QED
    BY <1>1, <1>2, <1>3, <2>1
<1>5. p = q
  BY <1>2, <1>3, <1>4, SeqEqual
<1> QED
  BY <1>5 DEF p, q, d

(* An empty line that a block shows is one of the message, and the other   *)
(* way round when it lies in the block.                                    *)
LEMMA EndsLemma ==
  ASSUME NEW m \in Seq(Byte), NEW t \in Nat, NEW n \in Nat, t + n <= Len(m), NEW i \in Nat
  PROVE  i \in HeaderEnds(SubSeq(m, t + 1, t + n)) <=>
           i \in 4 .. n /\ t + i \in HeaderEnds(m)
<1> DEFINE d == SubSeq(m, t + 1, t + n)
<1>1. Len(d) = n
  <2>1. t + n \in Nat /\ t <= t + n /\ t + n - t = n
    OBVIOUS
  <2> QED
    BY <2>1, SectionLemma
<1>2. CASE i \in 4 .. n
  <2>1. i - 4 \in Nat /\ i - 4 <= i /\ i <= n /\ i - 4 + 1 = i - 3 /\ t + (i - 4) + 1 = t + i - 3
    BY <1>2
  <2>2. SubSeq(d, i - 4 + 1, i) = SubSeq(m, t + (i - 4) + 1, t + i)
    BY <2>1, NestLemma
  <2>3. SubSeq(d, i - 3, i) = SubSeq(m, t + i - 3, t + i)
    BY <2>1, <2>2
  <2>4. t + i \in 4 .. Len(m)
    BY <1>2, LenProperties
  <2> HIDE DEF d
  <2>5. i \in HeaderEnds(d) <=> SubSeq(d, i - 3, i) = Terminator
    BY <1>1, <1>2 DEF HeaderEnds
  <2>6. t + i \in HeaderEnds(m) <=> SubSeq(m, t + i - 3, t + i) = Terminator
    BY <2>4 DEF HeaderEnds
  <2>7. i \in HeaderEnds(d) <=> i \in 4 .. n /\ t + i \in HeaderEnds(m)
    BY <1>2, <2>3, <2>5, <2>6
  <2> QED
    BY <2>7 DEF d
<1>3. CASE i \notin 4 .. n
  <2>1. i \notin HeaderEnds(d)
    <3> HIDE DEF d
    <3> QED
      BY <1>1, <1>3 DEF HeaderEnds
  <2> QED
    BY <1>3, <2>1
<1> QED
  BY <1>2, <1>3

LEMMA QuotientLemma ==
  ASSUME NEW b \in Nat \ {0}, NEW x \in Nat
  PROVE  \E q \in Nat : q = x \div b /\ q * b <= x /\ x < q * b + b
<1>1. x \div b \in Nat
  OBVIOUS
<1>2. (x \div b) * b <= x /\ x < (x \div b) * b + b
  OBVIOUS
<1> QED
  BY <1>1, <1>2

LEMMA SameBlockLemma ==
  ASSUME NEW b \in Nat \ {0}, NEW q \in Nat, NEW k \in Nat, NEW x \in Nat,
         q * b <= x, x < q * b + b, k * b <= x, x < k * b + b
  PROVE  q = k
<1>1. CASE q < k
  <2>1. PICK d \in Nat : k = q + 1 + d
    <3>1. k - q - 1 \in Nat /\ k = q + 1 + (k - q - 1)
      BY <1>1
    <3> QED
      BY <3>1
  <2>2. k * b = q * b + b + d * b /\ d * b \in Nat
    BY <2>1
  <2> QED
    BY <2>2
<1>2. CASE k < q
  <2>1. PICK d \in Nat : q = k + 1 + d
    <3>1. q - k - 1 \in Nat /\ q = k + 1 + (q - k - 1)
      BY <1>2
    <3> QED
      BY <3>1
  <2>2. q * b = k * b + b + d * b /\ d * b \in Nat
    BY <2>1
  <2> QED
    BY <2>2
<1> QED
  BY <1>1, <1>2

(* The last byte x that must share a block with the empty line.            *)
LEMMA BlockStartLemma ==
  ASSUME NEW b \in Nat \ {0}, NEW k \in Nat, NEW e \in Nat, NEW x \in Nat,
         4 <= e, e - 1 <= x, (e - 4) \div b = x \div b,
         k * b < e, e <= k * b + b
  PROVE  k * b <= e - 4 /\ x < k * b + b
<1>1. e - 4 \in Nat /\ e - 1 \in Nat
  OBVIOUS
<1>2. PICK q \in Nat : q = (e - 4) \div b /\ q * b <= e - 4 /\ e - 4 < q * b + b
  BY <1>1, QuotientLemma
<1>3. PICK r \in Nat : r = x \div b /\ r * b <= x /\ x < r * b + b
  BY QuotientLemma
<1>4. q = r
  BY <1>2, <1>3
<1>5. q * b \in Nat /\ k * b \in Nat
  OBVIOUS
<1>6. q * b <= e - 1 /\ e - 1 < q * b + b /\ k * b <= e - 1 /\ e - 1 < k * b + b
  <2> DEFINE s == q * b
             t == k * b
  <2>1. s <= e - 4 /\ s \in Nat /\ t \in Nat /\ t < e /\ e <= t + b /\ x < s + b
    BY <1>2, <1>3, <1>4, <1>5
  <2> HIDE DEF s, t
  <2>2. s <= e - 1 /\ e - 1 < s + b /\ t <= e - 1 /\ e - 1 < t + b
    BY <2>1
  <2> QED
    BY <2>2 DEF s, t
<1>7. q = k
  BY <1>1, <1>6, SameBlockLemma
<1> QED
  BY <1>2, <1>3, <1>4, <1>7
(* A block without a NUL that something zero follows is taken for itself.  *)
LEMMA WholeViewLemma ==
  ASSUME message \in Seq(Byte), taken \in Nat, NEW n \in Nat, taken + n <= Len(message),
         ~Contains(message, "nul"), overread => n # Block, NEW b \in Views(n)
  PROVE  b = SubSeq(message, taken + 1, taken + n)
<1> DEFINE data == SubSeq(message, taken + 1, taken + n)
           nuls == {i \in 1 .. n : data[i] = "nul"}
<1>1. \A i \in 1 .. n : data[i] = message[taken + i]
  <2>1. taken + n \in Nat /\ taken <= taken + n /\ taken + n - taken = n
    OBVIOUS
  <2> QED
    BY <2>1, SectionLemma
<1>2. b \in IF nuls # {} THEN {SubSeq(data, 1, Min(nuls) - 1)}
            ELSE IF n = Block /\ overread THEN {data} \cup {data \o j : j \in Junk}
            ELSE {data}
  BY DEF Views
<1> HIDE DEF data
<1>3. nuls = {}
  <2> SUFFICES ASSUME NEW i \in 1 .. n, data[i] = "nul" PROVE FALSE
    OBVIOUS
  <2>1. taken + i \in 1 .. Len(message) /\ message[taken + i] = "nul"
    BY <1>1, LenProperties
  <2> QED
    BY <2>1 DEF Contains
<1> QED
  BY <1>2, <1>3 DEF data

(***************************************************************************)
(* What recv_http has between two blocks of a message that it splits: the  *)
(* blocks before this one are full, and head and body are parted at the    *)
(* first empty line if that has come; then the body has begun, unless the  *)
(* message is over.                                                        *)
(***************************************************************************)
Parted(e) ==
  /\ arrived \in {0, Len(message)}
  /\ taken = Len(message) \/ \E k \in Nat : taken = k * Block
  /\ \/ /\ taken < e
        /\ head = SubSeq(message, 1, taken) /\ body = <<>>
     \/ /\ e < taken \/ taken = Len(message)
        /\ e <= taken
        /\ head = SubSeq(message, 1, e) /\ body = SubSeq(message, e + 1, taken)

Halved == Splits(message) => Parted(Min(HeaderEnds(message)))

LEMMA FirstEndLemma ==
  ASSUME NEW m \in Seq(Byte), HeaderEnds(m) # {}
  PROVE  /\ Min(HeaderEnds(m)) \in HeaderEnds(m) /\ Min(HeaderEnds(m)) \in 4 .. Len(m)
         /\ \A i \in HeaderEnds(m) : Min(HeaderEnds(m)) <= i
<1>1. HeaderEnds(m) \subseteq Nat /\ HeaderEnds(m) \subseteq 4 .. Len(m)
  BY LenProperties DEF HeaderEnds
<1> QED
  BY <1>1, MinLemma

LEMMA HalvedInit == Init => Halved
<1> SUFFICES ASSUME Init, Splits(message) PROVE Parted(Min(HeaderEnds(message)))
  BY DEF Halved
<1> DEFINE e == Min(HeaderEnds(message))
<1>1. message \in Seq(Byte) /\ Len(message) \in Nat
  BY RecvAssumption, LenProperties DEF Init
<1>2. e \in 4 .. Len(message)
  BY <1>1, FirstEndLemma DEF Splits
<1>3. SubSeq(message, 1, 0) = <<>>
  BY SubSeqEmpty
<1>4. 0 \in Nat /\ 0 = 0 * Block
  BY RecvAssumption
<1> HIDE DEF e
<1>5. Parted(e)
  BY <1>1, <1>2, <1>3, <1>4 DEF Init, Parted
<1> QED
  BY <1>5 DEF e

LEMMA HalvedRead == InPlace /\ Halved /\ RecvData => Halved'
<1> SUFFICES ASSUME InPlace, Halved, RecvData, Splits(message)'
             PROVE  Parted(Min(HeaderEnds(message)))'
  BY DEF Halved
<1> DEFINE n == Min({Block, arrived - taken})
<1> PICK e : e = Min(HeaderEnds(message))
  OBVIOUS
<1> PICK l : l = Len(message)
  OBVIOUS
<1>1. UNCHANGED <<message, segmented, overread, arrived>>
  BY DEF RecvData, given
<1>2. Splits(message) /\ Min(HeaderEnds(message))' = e
  BY <1>1 DEF Splits, HeaderEnds
<1>3. /\ message \in Seq(Byte) /\ l \in Nat /\ taken \in Nat /\ taken < arrived /\ arrived <= l
      /\ arrived \in Nat
  BY LenProperties DEF InPlace, RecvData
<1>4. e \in 4 .. l /\ e \in HeaderEnds(message) /\ \A i \in HeaderEnds(message) : e <= i
  BY <1>2, <1>3, FirstEndLemma DEF Splits
<1>5. Parted(e)
  BY <1>2 DEF Halved
<1>6. arrived = l
  BY <1>3, <1>5 DEF Parted
<1>7. n \in Nat /\ n > 0 /\ (n = Block \/ taken + n = l) /\ n <= Block /\ taken + n <= l
  <2>1. Block \in Nat \ {0} /\ arrived - taken \in Nat \ {0}
    BY <1>3, RecvAssumption
  <2>2. {Block, arrived - taken} \subseteq Nat
    BY <2>1
  <2>3. n \in {Block, arrived - taken} /\ n <= arrived - taken /\ n <= Block
    BY <2>2, MinLemma
  <2> HIDE DEF n
  <2> QED
    BY <1>3, <1>6, <2>1, <2>3
<1>8. taken' = taken + n /\ \E b \in Views(n) : AppendView(b)
  BY DEF RecvData
<1> HIDE DEF n
<1>9. PICK b \in Views(n) : AppendView(b)
  BY <1>8
<1>10. b = SubSeq(message, taken + 1, taken + n)
  <2>1. overread => n # Block
    BY <1>2, <1>3, <1>7, RecvAssumption DEF Splits
  <2> QED
    BY <1>2, <1>3, <1>7, <2>1, WholeViewLemma DEF Splits
<1>11. /\ b \in Seq(Byte) /\ Len(b) = n
       /\ \A i \in Nat : i \in HeaderEnds(b) <=> i \in 4 .. n /\ taken + i \in HeaderEnds(message)
  <2>1. taken + n \in Nat /\ taken <= taken + n /\ taken + n - taken = n
    BY <1>3, <1>7
  <2>2. b \in Seq(Byte) /\ Len(b) = n
    BY <1>3, <1>7, <1>10, <2>1, SectionLemma
  <2>3. ASSUME NEW i \in Nat
        PROVE  i \in HeaderEnds(b) <=> i \in 4 .. n /\ taken + i \in HeaderEnds(message)
    BY <1>3, <1>7, <1>10, EndsLemma
  <2> QED
    BY <2>2, <2>3
<1>12. taken' = l \/ \E k \in Nat : taken' = k * Block
  <2>1. CASE taken + n = l
    BY <1>8, <2>1
  <2>2. CASE n = Block /\ taken # l
    <3>1. PICK k \in Nat : taken = k * Block
      BY <1>5, <2>2 DEF Parted
    <3>2. k + 1 \in Nat /\ (k + 1) * Block = k * Block + Block
      BY RecvAssumption
    <3> QED
      BY <1>8, <2>2, <3>1, <3>2
  <2> QED
    BY <1>3, <1>6, <1>7, <2>1, <2>2
(* The body has begun: the block goes there. *)
<1>13. CASE e <= taken
  <2>1. e < taken /\ head = SubSeq(message, 1, e) /\ body = SubSeq(message, e + 1, taken)
    BY <1>3, <1>4, <1>5, <1>6, <1>13 DEF Parted
  <2>2. body # <<>>
    <3>1. Len(body) = taken - e
      BY <1>3, <1>4, <2>1, SectionLemma
    <3>2. Len(body) # 0 /\ Len(<<>>) = 0
      BY <1>3, <1>4, <2>1, <3>1
    <3> QED
      BY <3>2
  <2>3. head' = head /\ body' = body \o b
    BY <1>9, <2>2 DEF AppendView
  <2>4. body' = SubSeq(message, e + 1, taken + n)
    <3>1. /\ message \in Seq(Byte) /\ e \in Nat /\ taken \in Nat /\ taken + n \in Nat
          /\ e <= taken /\ taken <= taken + n /\ taken + n <= Len(message)
      BY <1>3, <1>4, <1>7, <2>1
    <3>2. SubSeq(message, e + 1, taken) \o SubSeq(message, taken + 1, taken + n)
            = SubSeq(message, e + 1, taken + n)
      BY <3>1, JoinLemma
    <3> QED
      BY <1>10, <2>1, <2>3, <3>2
  <2>5. e < taken' /\ e <= taken'
    BY <1>3, <1>4, <1>7, <1>8, <2>1
  <2>6. head' = SubSeq(message', 1, e) /\ body' = SubSeq(message', e + 1, taken')
    BY <1>1, <1>8, <2>1, <2>3, <2>4
  <2>7. Parted(e)'
    BY <1>1, <1>6, <1>12, <2>5, <2>6 DEF Parted
  <2> QED
    BY <1>2, <2>7
(* No empty line yet, and none in this block. *)
<1>14. CASE taken + n < e
  <2>1. head = SubSeq(message, 1, taken) /\ body = <<>>
    BY <1>3, <1>4, <1>5, <1>7, <1>14 DEF Parted
  <2>2. HeaderEnds(b) = {}
    <3> SUFFICES ASSUME NEW i \in HeaderEnds(b) PROVE FALSE
      OBVIOUS
    <3>1. i \in Nat
      BY <1>11 DEF HeaderEnds
    <3>2. i \in 4 .. n /\ taken + i \in HeaderEnds(message)
      BY <1>11, <3>1
    <3>3. e <= taken + i
      BY <1>4, <3>2
    <3> QED
      BY <1>3, <1>4, <1>7, <1>14, <3>2, <3>3
  <2>3. head' = head \o b /\ body' = <<>>
    BY <1>9, <2>1, <2>2 DEF AppendView
  <2>4. head' = SubSeq(message, 1, taken + n)
    <3>1. /\ 0 \in Nat /\ 0 <= taken /\ taken + n \in Nat
          /\ taken <= taken + n /\ taken + n <= Len(message)
      BY <1>3, <1>7
    <3>2. SubSeq(message, 0 + 1, taken) \o SubSeq(message, taken + 1, taken + n)
            = SubSeq(message, 0 + 1, taken + n)
      BY <1>3, <3>1, JoinLemma
    <3>3. 0 + 1 = 1
      OBVIOUS
    <3> QED
      BY <3>3, <1>10, <2>1, <2>3, <3>2
  <2>5. head' = SubSeq(message', 1, taken') /\ taken' < e
    BY <1>1, <1>8, <1>14, <2>4
  <2>6. Parted(e)'
    BY <1>1, <1>6, <1>12, <2>3, <2>5 DEF Parted
  <2> QED
    BY <1>2, <2>6
(* This block shows it, and the byte after it if there is one. *)
<1>15. CASE taken < e /\ e <= taken + n
  <2>1. head = SubSeq(message, 1, taken) /\ body = <<>>
    BY <1>3, <1>4, <1>5, <1>15 DEF Parted
  <2>2. taken <= e - 4 /\ (e < taken + n \/ taken + n = l)
    <3> DEFINE x == Min({e + 1, l}) - 1
    <3>1. PICK k \in Nat : taken = k * Block
      BY <1>3, <1>5, <1>6 DEF Parted
    <3>2. (e - 4) \div Block = x \div Block
      BY <1>2 DEF Splits
    <3>3. x \in Nat /\ e - 1 <= x /\ (x = e \/ x = l - 1)
      <4>1. {e + 1, l} \subseteq Nat
        BY <1>3, <1>4
      <4>2. Min({e + 1, l}) \in {e + 1, l} /\ Min({e + 1, l}) <= l /\ Min({e + 1, l}) <= e + 1
        BY <4>1, MinLemma
      <4> QED
        BY <1>3, <1>4, <4>2
    <3> HIDE DEF x
    <3>4. k * Block < e /\ e <= k * Block + Block
      BY <1>3, <1>4, <1>7, <1>15, <3>1, RecvAssumption
    <3>5. k * Block <= e - 4 /\ x < k * Block + Block
      <4>1. e \in Nat /\ 4 <= e /\ Block \in Nat \ {0}
        BY <1>3, <1>4, RecvAssumption
      <4> QED
        BY <3>2, <3>3, <3>4, <4>1, BlockStartLemma
    <3>6. taken <= e - 4 /\ x < taken + Block
      BY <3>1, <3>5
    <3>7. CASE n = Block
      BY <1>3, <1>4, <1>7, <3>3, <3>6, <3>7
    <3> QED
      BY <1>7, <1>15, <3>6, <3>7
  <2> DEFINE s == e - taken
  <2>3. s \in HeaderEnds(b) /\ s \in 4 .. n
    <3>1. s \in Nat /\ s \in 4 .. n /\ taken + s = e
      BY <1>3, <1>4, <1>7, <1>15, <2>2
    <3> QED
      BY <1>4, <1>11, <3>1
  <2>4. Min(HeaderEnds(b)) = s
    <3> DEFINE o == Min(HeaderEnds(b))
    <3>1. o \in HeaderEnds(b) /\ o \in 4 .. Len(b) /\ o <= s
      BY <1>11, <2>3, FirstEndLemma
    <3>2. o \in Nat
      BY <1>7, <1>11, <3>1
    <3> HIDE DEF o
    <3>3. taken + o \in HeaderEnds(message)
      BY <1>11, <3>1, <3>2
    <3>4. e <= taken + o
      BY <1>4, <3>3
    <3>5. o = s
      BY <1>3, <1>4, <3>1, <3>2, <3>4
    <3> QED
      BY <3>5 DEF o
  <2> HIDE DEF s
  <2>5. head' = head \o SubSeq(b, 1, s) /\ body' = SubSeq(b, s + 1, n)
    BY <1>9, <1>11, <2>1, <2>3, <2>4 DEF AppendView
  <2>6. SubSeq(b, 1, s) = SubSeq(message, taken + 1, e)
    <3>1. s \in Nat /\ 0 \in Nat /\ 0 <= s /\ s <= n /\ taken + s = e
      BY <1>3, <1>4, <1>7, <2>3 DEF s
    <3>2. SubSeq(SubSeq(message, taken + 1, taken + n), 0 + 1, s)
            = SubSeq(message, taken + 0 + 1, taken + s)
      BY <1>3, <1>7, <3>1, NestLemma
    <3>3. 0 + 1 = 1 /\ taken + 0 + 1 = taken + 1
      BY <1>3
    <3> QED
      BY <1>10, <3>1, <3>2, <3>3
  <2>7. SubSeq(b, s + 1, n) = SubSeq(message, e + 1, taken + n)
    <3>1. s \in Nat /\ s <= n /\ n <= n /\ taken + s = e
      BY <1>3, <1>4, <1>7, <2>3 DEF s
    <3>2. SubSeq(SubSeq(message, taken + 1, taken + n), s + 1, n)
            = SubSeq(message, taken + s + 1, taken + n)
      BY <1>3, <1>7, <3>1, NestLemma
    <3> QED
      BY <1>10, <3>1, <3>2
  <2>8. head' = SubSeq(message, 1, e)
    <3>1. 0 \in Nat /\ 0 <= taken /\ e \in Nat /\ taken <= e /\ e <= Len(message)
      BY <1>3, <1>4, <1>15
    <3>2. SubSeq(message, 0 + 1, taken) \o SubSeq(message, taken + 1, e) = SubSeq(message, 0 + 1, e)
      BY <1>3, <3>1, JoinLemma
    <3>3. 0 + 1 = 1
      OBVIOUS
    <3> QED
      BY <3>3, <2>1, <2>5, <2>6, <3>2
  <2>9. head' = SubSeq(message', 1, e) /\ body' = SubSeq(message', e + 1, taken')
    BY <1>1, <1>8, <2>5, <2>7, <2>8
  <2>10. e <= taken' /\ (e < taken' \/ taken' = l)
    BY <1>8, <1>15, <2>2
  <2>11. Parted(e)'
    BY <1>1, <1>6, <1>12, <2>9, <2>10 DEF Parted
  <2> QED
    BY <1>2, <2>11
<1> QED
  BY <1>3, <1>4, <1>7, <1>13, <1>14, <1>15

LEMMA HalvedStep == InPlace /\ Halved /\ [Next]_vars => Halved'
<1> SUFFICES ASSUME InPlace, Halved, [Next]_vars PROVE Halved'
  OBVIOUS
<1>1. CASE Arrive
  <2>1. UNCHANGED <<message, segmented, overread, taken, head, body>>
    BY <1>1 DEF Arrive, given
  <2>2. arrived' = Len(message) \/ segmented
    BY <1>1 DEF Arrive
  <2> QED
    BY <2>1, <2>2 DEF Halved, Splits, HeaderEnds, Parted
<1>2. CASE HangUp \/ RecvEnd \/ Interrupt \/ UNCHANGED vars
  BY <1>2 DEF HangUp, RecvEnd, Interrupt, given, vars, Halved, Splits, HeaderEnds, Parted
<1> QED
  BY <1>1, <1>2, HalvedRead DEF Next

(***************************************************************************)
(* A message that recv_http can split right it does split right, whatever  *)
(* the sizes of its head, its body and the blocks: of one that arrives at  *)
(* once, has no NUL, and has its empty line and the byte after it in one   *)
(* block, head and body are what stands before and after the empty line.   *)
(***************************************************************************)
THEOREM HeadAndBodyAreParted == Spec => []SplitExact
<1>1. InPlace /\ Halved => SplitExact
  <2> SUFFICES ASSUME InPlace, Halved, taken = Len(message), Splits(message)
               PROVE  head = HeadOf(message) /\ body = BodyOf(message)
    BY DEF SplitExact
  <2> DEFINE e == Min(HeaderEnds(message))
  <2>1. Parted(e)
    BY DEF Halved
  <2>2. e \in 4 .. Len(message) /\ Len(message) \in Nat
    BY FirstEndLemma, LenProperties DEF InPlace, Splits
  <2> HIDE DEF e
  <2>3. head = SubSeq(message, 1, e) /\ body = SubSeq(message, e + 1, Len(message))
    BY <2>1, <2>2 DEF Parted
  <2> QED
    BY <2>3 DEF e, HeadOf, BodyOf
<1>2. Init => InPlace /\ Halved
  BY InPlaceInit, HalvedInit
<1>3. InPlace /\ Halved /\ [Next]_vars => (InPlace /\ Halved)'
  BY InPlaceStep, HalvedStep
<1> QED
  BY <1>1, <1>2, <1>3, PTL DEF Spec
================================================================================
