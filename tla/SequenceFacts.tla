---------------------------- MODULE SequenceFacts ----------------------------
(***************************************************************************)
(* What the proofs of several modules need to know of sequences, of minima *)
(* and maxima, and of concatenations.                                      *)
(***************************************************************************)
EXTENDS SequencesExt, FiniteSetsExt, SequenceTheorems, WellFoundedInduction, TLAPS

\* A sequence is a function on 1 .. Len.
LEMMA SeqFacts ==
  ASSUME NEW S, NEW q \in Seq(S)
  PROVE  /\ Len(q) \in Nat /\ DOMAIN q = 1 .. Len(q)
         /\ q = <<>> <=> Len(q) = 0
         /\ \A k \in 1 .. Len(q) : q[k] \in S
  BY EmptySeq, LenProperties, ElementOfSeq

\* What Append does to a sequence.
LEMMA AppendFacts ==
  ASSUME NEW S, NEW q \in Seq(S), NEW x \in S
  PROVE  /\ Append(q, x) \in Seq(S)
         /\ Len(Append(q, x)) = Len(q) + 1
         /\ DOMAIN Append(q, x) = 1 .. Len(q) + 1
         /\ Append(q, x)[Len(q) + 1] = x
         /\ \A k \in 1 .. Len(q) : Append(q, x)[k] = q[k]
  <1>1. /\ Append(q, x) \in Seq(S) /\ Len(Append(q, x)) = Len(q) + 1
        /\ Append(q, x)[Len(q) + 1] = x
        /\ \A k \in 1 .. Len(q) : Append(q, x)[k] = q[k]
    BY AppendProperties
  <1> QED
    BY <1>1, LenProperties

\* The smaller and the larger of two numbers.
LEMMA MinMaxOfTwo ==
  ASSUME NEW m \in Int, NEW n \in Int
  PROVE  /\ Min({m, n}) = IF m <= n THEN m ELSE n
         /\ Max({m, n}) = IF m >= n THEN m ELSE n
  <1>1. Min({m, n}) \in {m, n} /\ Min({m, n}) <= m /\ Min({m, n}) <= n
    <2> DEFINE x == IF m <= n THEN m ELSE n
    <2>1. x \in {m, n} /\ \A y \in {m, n} : x <= y
      OBVIOUS
    <2>2. Min({m, n}) \in {m, n} /\ \A y \in {m, n} : Min({m, n}) <= y
      BY <2>1 DEF Min
    <2> QED
      BY <2>2
  <1>2. Max({m, n}) \in {m, n} /\ Max({m, n}) >= m /\ Max({m, n}) >= n
    <2> DEFINE x == IF m >= n THEN m ELSE n
    <2>1. x \in {m, n} /\ \A y \in {m, n} : x >= y
      OBVIOUS
    <2>2. Max({m, n}) \in {m, n} /\ \A y \in {m, n} : Max({m, n}) >= y
      BY <2>1 DEF Max
    <2> QED
      BY <2>2
  <1> QED
    BY <1>1, <1>2

\* Among finitely many places there is a last one.
LEMMA LastPlace ==
  ASSUME NEW m \in Nat, NEW T \in SUBSET (0 .. m), T # {}
  PROVE  \E i \in T : \A j \in T : j <= i
  <1> DEFINE B == {x \in 0 .. m : m - x \in T}
  <1>1. B \subseteq Nat
    OBVIOUS
  <1>2. B # {}
    <2>1. PICK i \in T : TRUE
      OBVIOUS
    <2>2. m - i \in 0 .. m /\ m - (m - i) = i
      OBVIOUS
    <2> QED
      BY <2>1, <2>2
  <1>3. PICK x \in B : \A y \in B : ~ (<<y, x>> \in OpToRel(<, Nat))
    BY <1>1, <1>2, NatLessThanWellFounded, WFMin
  <1>4. \A y \in B : ~(y < x)
    BY <1>1, <1>3 DEF OpToRel
  <1>5. ASSUME NEW j \in T PROVE j <= m - x
    <2>1. m - j \in 0 .. m /\ m - (m - j) = j
      OBVIOUS
    <2>2. m - j \in B
      BY <2>1
    <2>3. ~(m - j < x) /\ x \in 0 .. m
      BY <1>4, <2>2
    <2> HIDE DEF B
    <2> QED
      BY <2>1, <2>3
  <1>6. m - x \in T
    OBVIOUS
  <1> QED
    BY <1>5, <1>6

\* A sequence without one of its places.
LEMMA RemoveFacts ==
  ASSUME NEW S, NEW q \in Seq(S), NEW n \in 1 .. Len(q)
  PROVE  /\ RemoveAt(q, n) \in Seq(S)
         /\ Len(RemoveAt(q, n)) = Len(q) - 1
         /\ \A k \in 1 .. Len(q) - 1 : RemoveAt(q, n)[k] = IF k < n THEN q[k] ELSE q[k + 1]
  <1> DEFINE a == SubSeq(q, 1, n - 1)
             b == SubSeq(q, n + 1, Len(q))
  <1>1. Len(q) \in Nat /\ \A k \in 1 .. Len(q) : q[k] \in S
    BY SeqFacts
  <1>2. /\ a \in Seq(S) /\ Len(a) = n - 1
        /\ \A k \in 1 .. n - 1 : a[k] = q[k]
    <2>1. \A k \in 1 .. n - 1 : q[k] \in S
      BY <1>1
    <2>2. /\ a \in Seq(S)
          /\ Len(a) = IF 1 <= n - 1 THEN (n - 1) - 1 + 1 ELSE 0
          /\ \A k \in 1 .. (n - 1) - 1 + 1 : a[k] = q[1 + k - 1]
      BY <2>1, SubSeqProperties
    <2> HIDE DEF a
    <2> QED
      BY <2>2
  <1>3. /\ b \in Seq(S) /\ Len(b) = Len(q) - n
        /\ \A k \in 1 .. Len(q) - n : b[k] = q[n + k]
    <2>1. \A k \in n + 1 .. Len(q) : q[k] \in S
      BY <1>1
    <2>2. /\ b \in Seq(S)
          /\ Len(b) = IF n + 1 <= Len(q) THEN Len(q) - (n + 1) + 1 ELSE 0
          /\ \A k \in 1 .. Len(q) - (n + 1) + 1 : b[k] = q[(n + 1) + k - 1]
      BY <1>1, <2>1, SubSeqProperties
    <2> HIDE DEF b
    <2> QED
      BY <1>1, <2>2
  <1>4. RemoveAt(q, n) = a \o b
    BY DEF RemoveAt
  <1> HIDE DEF a, b
  <1>5. /\ a \o b \in Seq(S) /\ Len(a \o b) = Len(a) + Len(b)
        /\ \A i \in 1 .. Len(a) + Len(b) :
             (a \o b)[i] = IF i <= Len(a) THEN a[i] ELSE b[i - Len(a)]
    BY <1>2, <1>3, ConcatProperties
  <1>6. Len(a \o b) = Len(q) - 1
    BY <1>1, <1>2, <1>3, <1>5
  <1>7. ASSUME NEW k \in 1 .. Len(q) - 1
        PROVE  (a \o b)[k] = IF k < n THEN q[k] ELSE q[k + 1]
    <2>1. k \in 1 .. Len(a) + Len(b)
      BY <1>1, <1>2, <1>3
    <2>2. CASE k < n
      BY <1>1, <1>2, <1>5, <2>1, <2>2
    <2>3. CASE ~(k < n)
      <3>1. (a \o b)[k] = b[k - (n - 1)]
        BY <1>1, <1>2, <1>5, <2>1, <2>3
      <3>2. k - (n - 1) \in 1 .. Len(q) - n /\ n + (k - (n - 1)) = k + 1
        BY <1>1, <2>3
      <3> QED
        BY <1>3, <2>3, <3>1, <3>2
    <2> QED
      BY <2>2, <2>3
  <1> QED
    BY <1>4, <1>5, <1>6, <1>7

\* Among finitely many places there is a first one.
LEMMA FirstPlace ==
  ASSUME NEW T \in SUBSET Nat, T # {}
  PROVE  \E i \in T : \A j \in T : i <= j
  <1>1. PICK x \in T : \A y \in T : ~ (<<y, x>> \in OpToRel(<, Nat))
    BY NatLessThanWellFounded, WFMin
  <1>2. \A y \in T : ~(y < x)
    BY <1>1 DEF OpToRel
  <1> QED
    BY <1>2

\* The greatest of finitely many numbers.
LEMMA MaxOfPlaces ==
  ASSUME NEW m \in Nat, NEW T \in SUBSET (0 .. m), T # {}
  PROVE  Max(T) \in T /\ \A j \in T : j <= Max(T)
  <1>1. PICK i \in T : \A j \in T : j <= i
    BY LastPlace
  <1>2. \E i1 \in T : \A j \in T : i1 >= j
    BY <1>1
  <1>3. Max(T) \in T /\ \A j \in T : Max(T) >= j
    BY <1>2 DEF Max
  <1> QED
    BY <1>3

\* The least of some numbers.
LEMMA MinOfPlaces ==
  ASSUME NEW T \in SUBSET Nat, T # {}
  PROVE  Min(T) \in T /\ \A j \in T : Min(T) <= j
  <1>1. \E i \in T : \A j \in T : i <= j
    BY FirstPlace
  <1> QED
    BY <1>1 DEF Min

\* Adding at the end is concatenation, at the front too, and a sequence that is
\* not empty is its head and its tail.
LEMMA ConcatFacts ==
  ASSUME NEW S, NEW q \in Seq(S)
  PROVE  /\ \A x \in S : <<x>> \in Seq(S) /\ Append(q, x) = q \o <<x>>
         /\ q # <<>> => /\ q = <<Head(q)>> \o Tail(q)
                        /\ Head(q) \in S /\ Tail(q) \in Seq(S)
         /\ q \o <<>> = q /\ <<>> \o q = q
         /\ \A k \in 0 .. Len(q) :
              /\ SubSeq(q, 1, k) \in Seq(S) /\ SubSeq(q, k + 1, Len(q)) \in Seq(S)
              /\ SubSeq(q, 1, k) \o SubSeq(q, k + 1, Len(q)) = q
  <1>1. ASSUME NEW x \in S
        PROVE  <<x>> \in Seq(S) /\ Append(q, x) = q \o <<x>>
    BY AppendIsConcat, SMT
  <1>2. ASSUME q # <<>>
        PROVE  /\ q = <<Head(q)>> \o Tail(q)
               /\ Head(q) \in S /\ Tail(q) \in Seq(S)
    <2>1. Head(q) \in S /\ Tail(q) \in Seq(S)
      BY <1>2, HeadTailProperties
    <2>2. q = SubSeq(q, 1, Len(q))
      BY SubSeqFull
    <2>3. Len(q) \in Nat \ {0}
      BY <1>2, EmptySeq
    <2>4. SubSeq(q, 1, Len(q)) = <<q[1]>> \o SubSeq(q, 1 + 1, Len(q))
      <3>1. 1 \in 1 .. Len(q) /\ Len(q) \in 1 .. Len(q)
        BY <2>3
      <3> QED
        BY <3>1, SubSeqRecursiveFirst
    <2>5. Tail(q) = SubSeq(q, 2, Len(q))
      BY <1>2, TailIsSubSeq
    <2>6. Head(q) = q[1]
      BY DEF Head
    <2> QED
      BY <2>1, <2>2, <2>4, <2>5, <2>6
  <1>3. q \o <<>> = q /\ <<>> \o q = q
    BY ConcatEmptySeq
  <1>4. ASSUME NEW k \in 0 .. Len(q)
        PROVE  /\ SubSeq(q, 1, k) \in Seq(S) /\ SubSeq(q, k + 1, Len(q)) \in Seq(S)
               /\ SubSeq(q, 1, k) \o SubSeq(q, k + 1, Len(q)) = q
    <2> DEFINE a == SubSeq(q, 1, k)
               b == SubSeq(q, k + 1, Len(q))
    <2>1. Len(q) \in Nat /\ \A i \in 1 .. Len(q) : q[i] \in S
      BY SeqFacts
    <2>2. /\ a \in Seq(S) /\ Len(a) = k
          /\ \A i \in 1 .. k : a[i] = q[i]
      <3>1. \A i \in 1 .. k : q[i] \in S
        BY <2>1
      <3>2. /\ a \in Seq(S)
            /\ Len(a) = IF 1 <= k THEN k - 1 + 1 ELSE 0
            /\ \A i \in 1 .. k - 1 + 1 : a[i] = q[1 + i - 1]
        BY <3>1, SubSeqProperties
      <3> HIDE DEF a
      <3> QED
        BY <3>2
    <2>3. /\ b \in Seq(S) /\ Len(b) = Len(q) - k
          /\ \A i \in 1 .. Len(q) - k : b[i] = q[k + i]
      <3>1. \A i \in k + 1 .. Len(q) : q[i] \in S
        BY <2>1
      <3>2. /\ b \in Seq(S)
            /\ Len(b) = IF k + 1 <= Len(q) THEN Len(q) - (k + 1) + 1 ELSE 0
            /\ \A i \in 1 .. Len(q) - (k + 1) + 1 : b[i] = q[(k + 1) + i - 1]
        BY <2>1, <3>1, SubSeqProperties
      <3> HIDE DEF b
      <3> QED
        BY <2>1, <3>2
    <2> HIDE DEF a, b
    <2>4. /\ a \o b \in Seq(S) /\ Len(a \o b) = Len(a) + Len(b)
          /\ \A i \in 1 .. Len(a) + Len(b) :
               (a \o b)[i] = IF i <= Len(a) THEN a[i] ELSE b[i - Len(a)]
      BY <2>2, <2>3, ConcatProperties
    <2>5. Len(a \o b) = Len(q)
      BY <2>1, <2>2, <2>3, <2>4
    <2>6. ASSUME NEW i \in 1 .. Len(q) PROVE (a \o b)[i] = q[i]
      <3>1. CASE i <= k
        BY <2>1, <2>2, <2>3, <2>4, <3>1
      <3>2. CASE ~(i <= k)
        <4>1. i - k \in 1 .. Len(q) - k /\ k + (i - k) = i
          BY <2>1, <3>2
        <4> QED
          BY <2>1, <2>2, <2>3, <2>4, <3>2, <4>1
      <3> QED
        BY <3>1, <3>2
    <2>7. a \o b = q
      BY <2>4, <2>5, <2>6, SeqEqual
    <2> QED
      BY <2>2, <2>3, <2>7 DEF a, b
  <1> QED
    BY <1>1, <1>2, <1>3, <1>4

\* What Append adds to the elements.
LEMMA AppendToSet ==
  ASSUME NEW S, NEW q \in Seq(S), NEW x \in S
  PROVE  ToSet(Append(q, x)) = ToSet(q) \union {x}
  <1>1. /\ DOMAIN q = 1 .. Len(q) /\ DOMAIN Append(q, x) = 1 .. Len(q) + 1 /\ Len(q) \in Nat
        /\ Append(q, x)[Len(q) + 1] = x /\ \A k \in 1 .. Len(q) : Append(q, x)[k] = q[k]
    BY AppendFacts, SeqFacts
  <1>2. 1 .. Len(q) + 1 = (1 .. Len(q)) \union {Len(q) + 1}
    BY <1>1
  <1>3. \A y : y \in ToSet(Append(q, x)) <=> y \in ToSet(q) \/ y = x
    BY <1>1, <1>2 DEF ToSet
  <1> QED
    BY <1>3

\* Concatenation, by a name of its own: the provers are to treat it as an operator
\* of which only the next lemmas are known.
Joined(p, q) == p \o q

\* It is a sequence.
LEMMA JoinType ==
  ASSUME NEW S, NEW p \in Seq(S), NEW q \in Seq(S)
  PROVE  Joined(p, q) \in Seq(S)
  BY ConcatProperties DEF Joined

\* It is associative.
LEMMA JoinThree ==
  ASSUME NEW S, NEW p \in Seq(S), NEW q \in Seq(S), NEW r \in Seq(S)
  PROVE  Joined(Joined(p, q), r) = Joined(p, Joined(q, r))
  BY ConcatAssociative DEF Joined

\* The empty sequence changes nothing.
LEMMA JoinEmpty ==
  ASSUME NEW S, NEW q \in Seq(S)
  PROVE  Joined(q, <<>>) = q /\ Joined(<<>>, q) = q
  BY ConcatFacts DEF Joined

\* Append joins one element.
LEMMA JoinAppend ==
  ASSUME NEW S, NEW q \in Seq(S), NEW x \in S
  PROVE  <<x>> \in Seq(S) /\ Append(q, x) = Joined(q, <<x>>)
  <1>1. <<x>> \in Seq(S)
    OBVIOUS
  <1>2. Append(q, x) = q \o <<x>>
    BY AppendIsConcat
  <1> QED
    BY <1>1, <1>2 DEF Joined

\* A sequence is its head and its tail.
LEMMA JoinSplit ==
  ASSUME NEW S, NEW q \in Seq(S), q # <<>>
  PROVE  /\ q = Joined(<<Head(q)>>, Tail(q))
         /\ Head(q) \in S /\ <<Head(q)>> \in Seq(S) /\ Tail(q) \in Seq(S)
  <1>1. q = Joined(<<Head(q)>>, Tail(q)) /\ Head(q) \in S /\ Tail(q) \in Seq(S)
    BY ConcatFacts DEF Joined
  <1> QED
    BY <1>1, JoinAppend

\* The head and the tail of a concatenation.
LEMMA JoinedHeadTail ==
  ASSUME NEW S, NEW a \in Seq(S), a # <<>>, NEW e \in Seq(S)
  PROVE  Head(Joined(a, e)) = Head(a) /\ Tail(Joined(a, e)) = Joined(Tail(a), e)
  <1> DEFINE h == Head(a)
             t == Joined(Tail(a), e)
             u == <<h>>
             w == Joined(u, t)
  <1>1. a = Joined(u, Tail(a)) /\ h \in S /\ Tail(a) \in Seq(S) /\ u \in Seq(S)
    BY JoinSplit, Zenon
  <1>2. t \in Seq(S)
    BY <1>1, JoinType, Zenon
  <1>3. Joined(a, e) = w
    <2>1. Joined(Joined(u, Tail(a)), e) = Joined(u, Joined(Tail(a), e))
      <3> DEFINE v == Tail(a)
      <3>1. u \in Seq(S) /\ v \in Seq(S)
        BY <1>1
      <3> HIDE DEF u, v
      <3>2. Joined(Joined(u, v), e) = Joined(u, Joined(v, e))
        BY <3>1, JoinThree
      <3> QED
        BY <3>2 DEF v
    <2> QED
      BY <1>1, <2>1, Zenon
  <1>4. Len(u) = 1 /\ u[1] = h
    OBVIOUS
  <1> HIDE DEF h, t, u
  <1>5. /\ w \in Seq(S) /\ Len(w) = Len(u) + Len(t)
        /\ \A i \in 1 .. Len(u) + Len(t) : w[i] = IF i <= Len(u) THEN u[i] ELSE t[i - Len(u)]
    BY <1>1, <1>2, ConcatProperties DEF Joined
  <1>6. Len(t) \in Nat
    BY <1>2, SeqFacts
  <1> HIDE DEF w
  <1>7. /\ Len(w) = Len(t) + 1 /\ w[1] = h
        /\ \A i \in 1 .. Len(t) : w[i + 1] = t[i]
    BY <1>4, <1>5, <1>6
  <1>8. w # <<>>
    BY <1>5, <1>6, <1>7, SeqFacts
  <1>9. /\ Tail(w) \in Seq(S) /\ Len(Tail(w)) = Len(t)
        /\ \A i \in 1 .. Len(Tail(w)) : Tail(w)[i] = w[i + 1]
    BY <1>5, <1>6, <1>7, <1>8, HeadTailProperties
  <1>10. Tail(w) = t
    BY <1>2, <1>7, <1>9, SeqEqual
  <1>11. Head(w) = h
    BY <1>7 DEF Head
  <1> QED
    BY <1>3, <1>10, <1>11 DEF h, t

\* Moves within a concatenation of four queues: u is added at the end.
LEMMA MoveBehind ==
  ASSUME NEW S, NEW a \in Seq(S), NEW b \in Seq(S), NEW c \in Seq(S), NEW d \in Seq(S),
         NEW u \in Seq(S)
  PROVE  Joined(a, Joined(b, Joined(c, Joined(d, u))))
           = Joined(Joined(a, Joined(b, Joined(c, d))), u)
  <1>1. Joined(c, d) \in Seq(S)
    BY JoinType, Zenon
  <1>2. Joined(b, Joined(c, d)) \in Seq(S)
    BY <1>1, JoinType, Zenon
  <1>3. Joined(c, Joined(d, u)) = Joined(Joined(c, d), u)
    BY JoinThree
  <1>4. Joined(b, Joined(Joined(c, d), u)) = Joined(Joined(b, Joined(c, d)), u)
    BY <1>1, JoinThree
  <1>5. Joined(a, Joined(Joined(b, Joined(c, d)), u)) = Joined(Joined(a, Joined(b, Joined(c, d))), u)
    BY <1>2, JoinThree
  <1> QED
    BY <1>3, <1>4, <1>5, Zenon

\* The front h of the last queue moves into the two in the middle, of which the
\* first was empty.
LEMMA MoveIn ==
  ASSUME NEW S, NEW a \in Seq(S), NEW c \in Seq(S), NEW h \in Seq(S), NEW t \in Seq(S),
         NEW p \in Seq(S), NEW q \in Seq(S)
  PROVE  Joined(p, q) = Joined(c, h) =>
           Joined(a, Joined(p, Joined(q, t))) = Joined(a, Joined(<<>>, Joined(c, Joined(h, t))))
  <1>1. Joined(Joined(p, q), t) = Joined(p, Joined(q, t))
    BY JoinThree
  <1>2. Joined(Joined(c, h), t) = Joined(c, Joined(h, t))
    BY JoinThree
  <1>3. Joined(h, t) \in Seq(S)
    BY JoinType, Zenon
  <1>4. Joined(c, Joined(h, t)) \in Seq(S)
    BY <1>3, JoinType, Zenon
  <1>5. Joined(<<>>, Joined(c, Joined(h, t))) = Joined(c, Joined(h, t))
    BY <1>4, JoinEmpty, Zenon
  <1> QED
    BY <1>1, <1>2, <1>5, Zenon

\* The third queue is moved into the second, which was empty.
LEMMA MoveAll ==
  ASSUME NEW S, NEW a \in Seq(S), NEW c \in Seq(S), NEW d \in Seq(S)
  PROVE  Joined(a, Joined(c, Joined(<<>>, d))) = Joined(a, Joined(<<>>, Joined(c, d)))
  <1>1. Joined(c, d) \in Seq(S)
    BY JoinType, Zenon
  <1>2. Joined(<<>>, d) = d /\ Joined(<<>>, Joined(c, d)) = Joined(c, d)
    BY <1>1, JoinEmpty, Zenon
  <1> QED
    BY <1>2, Zenon

\* An item moves from the second queue to the first.
LEMMA MoveOn ==
  ASSUME NEW S, NEW a \in Seq(S), NEW b \in Seq(S), NEW e \in Seq(S), b # <<>>
  PROVE  Joined(Append(a, Head(b)), Joined(Tail(b), e)) = Joined(a, Joined(b, e))
  <1> DEFINE h == <<Head(b)>>
             t == Tail(b)
  <1>1. b = Joined(h, t) /\ Head(b) \in S /\ h \in Seq(S) /\ t \in Seq(S)
    BY JoinSplit, Zenon
  <1>2. Append(a, Head(b)) = Joined(a, h)
    BY <1>1, JoinAppend, Zenon
  <1> HIDE DEF h, t
  <1>3. Joined(t, e) \in Seq(S)
    BY <1>1, JoinType, Zenon
  <1>4. Joined(Joined(h, t), e) = Joined(h, Joined(t, e))
    BY <1>1, JoinThree
  <1>5. Joined(Joined(a, h), Joined(t, e)) = Joined(a, Joined(h, Joined(t, e)))
    BY <1>1, <1>3, JoinThree
  <1>6. Joined(Append(a, Head(b)), Joined(t, e)) = Joined(a, Joined(b, e))
    BY <1>1, <1>2, <1>4, <1>5, Zenon
  <1> QED
    BY <1>6 DEF t

-----------------------------------------------------------------------------
(* Induction, recursion and flattened sequences.                           *)

\* Induction over a set of numbers: what holds of zero and with each number of
\* the next one holds of all.
LEMMA NumbersByInduction ==
  ASSUME NEW A \in SUBSET Nat, 0 \in A, \A n \in A : n + 1 \in A
  PROVE  \A n \in Nat : n \in A
  <1> SUFFICES ASSUME NEW n \in Nat, n \notin A PROVE FALSE
    OBVIOUS
  <1> DEFINE T == Nat \ A
  <1>1. PICK i \in T : \A j \in T : i <= j
    <2>1. T \in SUBSET Nat /\ T # {}
      OBVIOUS
    <2> HIDE DEF T
    <2> QED
      BY <2>1, FirstPlace
  <1>2. i \in Nat \ {0}
    OBVIOUS
  <1>3. i - 1 \in Nat /\ (i - 1) + 1 = i /\ i - 1 < i
    BY <1>2
  <1>4. i - 1 \in A
    BY <1>1, <1>3
  <1> QED
    BY <1>3, <1>4

\* g begins with z, and step says how a value follows from the one before it.
IsRecursion(g, S, z, step) ==
  g \in [Nat -> S] /\ g[0] = z /\ \A n \in Nat : g[n + 1] = step[n][g[n]]

\* A function on the numbers can be defined by recursion.
LEMMA RecursionExists ==
  ASSUME NEW S, NEW z \in S, NEW step \in [Nat -> [S -> S]]
  PROVE  \E g : IsRecursion(g, S, z, step)
  <1> DEFINE Upto(n, g) == /\ g \in [0 .. n -> S] /\ g[0] = z
                           /\ \A i \in 0 .. n - 1 : g[i + 1] = step[i][g[i]]
             A == {n \in Nat : \E g : Upto(n, g)}
             f == [n \in Nat |-> CHOOSE g : Upto(n, g)]
             h == [n \in Nat |-> f[n][n]]
  <1>1. \A n \in Nat : n \in A
    <2>1. 0 \in A
      <3>1. Upto(0, [i \in 0 .. 0 |-> z])
        OBVIOUS
      <3> QED
        BY <3>1
    <2>2. ASSUME NEW n \in A PROVE n + 1 \in A
      <3>1. PICK g : Upto(n, g)
        BY <2>2
      <3> DEFINE e == [i \in 0 .. n + 1 |-> IF i <= n THEN g[i] ELSE step[n][g[n]]]
      <3>2. n \in Nat /\ g[n] \in S /\ step[n][g[n]] \in S
        BY <3>1
      <3>3. e \in [0 .. n + 1 -> S]
        <4>1. \A i \in 0 .. n + 1 : i <= n => i \in 0 .. n
          BY <3>2
        <4> QED
          BY <3>1, <3>2, <4>1
      <3>4. e[0] = z
        BY <3>1, <3>2
      <3>5. ASSUME NEW i \in 0 .. (n + 1) - 1 PROVE e[i + 1] = step[i][e[i]]
        <4>1. i \in 0 .. n /\ i + 1 \in 0 .. n + 1 /\ i \in 0 .. n + 1
          BY <3>2
        <4>2. e[i] = g[i]
          BY <4>1
        <4>3. CASE i = n
          BY <3>2, <4>1, <4>2, <4>3
        <4>4. CASE i < n
          <5>1. i \in 0 .. n - 1 /\ i + 1 <= n
            BY <3>2, <4>1, <4>4
          <5>2. g[i + 1] = step[i][g[i]]
            BY <3>1, <5>1
          <5>3. e[i + 1] = g[i + 1]
            BY <4>1, <5>1
          <5> QED
            BY <4>2, <5>2, <5>3
        <4> QED
          BY <3>2, <4>1, <4>3, <4>4
      <3> HIDE DEF e
      <3>6. Upto(n + 1, e)
        BY <3>3, <3>4, <3>5
      <3> QED
        BY <3>2, <3>6
    <2>3. A \in SUBSET Nat
      OBVIOUS
    <2> HIDE DEF A
    <2> QED
      BY <2>1, <2>2, <2>3, NumbersByInduction
  <1>2. \A n \in Nat : Upto(n, f[n])
    <2> HIDE DEF Upto
    <2> QED
      BY <1>1
  <1>3. ASSUME NEW n \in Nat, NEW m \in Nat, m >= n
        PROVE  f[m][n] = f[n][n]
    <2> DEFINE B == {i \in Nat : i <= n => f[m][i] = f[n][i]}
    <2> HIDE DEF f
    <2>1. 0 \in B
      BY <1>2
    <2>2. ASSUME NEW i \in B PROVE i + 1 \in B
      <3>1. SUFFICES ASSUME i + 1 <= n PROVE f[m][i + 1] = f[n][i + 1]
        OBVIOUS
      <3>2. i \in 0 .. n - 1 /\ i \in 0 .. m - 1 /\ f[m][i] = f[n][i]
        BY <1>3, <3>1
      <3> QED
        BY <1>2, <3>2
    <2>3. \A i \in Nat : i \in B
      <3>1. B \in SUBSET Nat
        OBVIOUS
      <3> HIDE DEF B
      <3> QED
        BY <2>1, <2>2, <3>1, NumbersByInduction
    <2> QED
      BY <2>3
  <1>4. h \in [Nat -> S]
    <2> HIDE DEF f
    <2> QED
      BY <1>2
  <1>5. h[0] = z
    <2> HIDE DEF f
    <2> QED
      BY <1>2
  <1>6. ASSUME NEW n \in Nat PROVE h[n + 1] = step[n][h[n]]
    <2> HIDE DEF f
    <2>1. n + 1 \in Nat /\ n \in 0 .. (n + 1) - 1 /\ n + 1 >= n
      OBVIOUS
    <2>2. f[n + 1][n + 1] = step[n][f[n + 1][n]]
      BY <1>2, <2>1
    <2>3. f[n + 1][n] = f[n][n]
      BY <1>3, <2>1
    <2> QED
      BY <2>1, <2>2, <2>3
  <1> HIDE DEF h
  <1> QED
    BY <1>4, <1>5, <1>6 DEF IsRecursion
\* A sequence is one over every set that has its elements.
LEMMA SeqOfSubset ==
  ASSUME NEW S, NEW T, NEW q \in Seq(S), \A i \in 1 .. Len(q) : q[i] \in T
  PROVE  q \in Seq(T)
  <1>1. Len(q) \in Nat /\ q \in [1 .. Len(q) -> S]
    BY LenProperties
  <1>2. q \in [1 .. Len(q) -> T]
    BY <1>1
  <1> QED
    BY <1>1, <1>2, SeqDef

\* What Head and Tail return.
LEMMA HeadTailFacts ==
  ASSUME NEW S, NEW q \in Seq(S), q # <<>>
  PROVE  /\ Head(q) = q[1] /\ Head(q) \in S /\ Len(q) \in Nat \ {0}
         /\ Tail(q) \in Seq(S) /\ Len(Tail(q)) = Len(q) - 1
         /\ \A k \in 1 .. Len(q) - 1 : Tail(q)[k] = q[k + 1]
  <1>1. /\ Head(q) \in S /\ Tail(q) \in Seq(S) /\ Len(Tail(q)) = Len(q) - 1
        /\ \A k \in 1 .. Len(Tail(q)) : Tail(q)[k] = q[k + 1]
    BY HeadTailProperties
  <1>2. Len(q) \in Nat \ {0}
    BY SeqFacts
  <1>3. Head(q) = q[1]
    BY DEF Head
  <1> QED
    BY <1>1, <1>2, <1>3

\* What SubSeq returns: a beginning, and the rest.
LEMMA SubSeqFacts ==
  ASSUME NEW S, NEW q \in Seq(S), NEW m \in 0 .. Len(q)
  PROVE  /\ SubSeq(q, 1, m) \in Seq(S) /\ Len(SubSeq(q, 1, m)) = m
         /\ \A i \in 1 .. m : SubSeq(q, 1, m)[i] = q[i]
         /\ SubSeq(q, m + 1, Len(q)) \in Seq(S) /\ Len(SubSeq(q, m + 1, Len(q))) = Len(q) - m
         /\ \A i \in 1 .. Len(q) - m : SubSeq(q, m + 1, Len(q))[i] = q[m + i]
  <1> DEFINE a == SubSeq(q, 1, m)
             b == SubSeq(q, m + 1, Len(q))
  <1>1. Len(q) \in Nat /\ \A i \in 1 .. Len(q) : q[i] \in S
    BY SeqFacts
  <1>2. a \in Seq(S) /\ Len(a) = m /\ \A i \in 1 .. m : a[i] = q[i]
    <2>1. \A i \in 1 .. m : q[i] \in S
      BY <1>1
    <2>2. /\ a \in Seq(S) /\ Len(a) = IF 1 <= m THEN m - 1 + 1 ELSE 0
          /\ \A i \in 1 .. m - 1 + 1 : a[i] = q[1 + i - 1]
      BY <2>1, SubSeqProperties
    <2> HIDE DEF a
    <2> QED
      BY <2>2
  <1>3. b \in Seq(S) /\ Len(b) = Len(q) - m /\ \A i \in 1 .. Len(q) - m : b[i] = q[m + i]
    <2>1. \A i \in m + 1 .. Len(q) : q[i] \in S
      BY <1>1
    <2>2. /\ b \in Seq(S) /\ Len(b) = IF m + 1 <= Len(q) THEN Len(q) - (m + 1) + 1 ELSE 0
          /\ \A i \in 1 .. Len(q) - (m + 1) + 1 : b[i] = q[(m + 1) + i - 1]
      BY <1>1, <2>1, SubSeqProperties
    <2> HIDE DEF b
    <2> QED
      BY <1>1, <2>2
  <1> QED
    BY <1>2, <1>3

\* FlattenSeq adds one sequence after the other to what it has.
LEMMA FlattenBySteps ==
  ASSUME NEW S, NEW q \in Seq(Seq(S))
  PROVE  \E g \in [Nat -> Seq(S)] :
           /\ g[0] = <<>> /\ g[Len(q)] = FlattenSeq(q)
           /\ \A n \in 0 .. Len(q) - 1 : g[n + 1] = g[n] \o q[n + 1]
  <1>1. /\ Len(q) \in Nat /\ DOMAIN q = 1 .. Len(q) /\ \A k \in 1 .. Len(q) : q[k] \in Seq(S)
        /\ q = <<>> <=> Len(q) = 0
    BY SeqFacts
  <1> DEFINE step == [n \in Nat |-> [s \in Seq(S) |->
                        IF n + 1 \in 1 .. Len(q) THEN s \o q[n + 1] ELSE s]]
  <1>2. step \in [Nat -> [Seq(S) -> Seq(S)]]
    <2>1. ASSUME NEW n \in Nat, NEW s \in Seq(S), n + 1 \in 1 .. Len(q)
          PROVE  s \o q[n + 1] \in Seq(S)
      BY <1>1, <2>1, ConcatProperties
    <2> QED
      BY <2>1
  <1>3. <<>> \in Seq(S)
    BY EmptySeq
  <1>4. PICK g \in [Nat -> Seq(S)] :
          g[0] = <<>> /\ \A n \in Nat : g[n + 1] = step[n][g[n]]
    <2> DEFINE z == <<>>
               T == Seq(S)
    <2>1. z \in T /\ step \in [Nat -> [T -> T]]
      BY <1>2, <1>3
    <2> HIDE DEF step, z, T
    <2>2. PICK g : IsRecursion(g, T, z, step)
      BY <2>1, RecursionExists
    <2> QED
      BY <2>2 DEF z, T, IsRecursion
  <1>5. ASSUME NEW n \in 0 .. Len(q) - 1 PROVE g[n + 1] = g[n] \o q[n + 1]
    <2> HIDE DEF step
    <2>0. n \in Nat /\ n + 1 \in 1 .. Len(q)
      BY <1>1
    <2>1. n \in Nat /\ n + 1 \in 1 .. Len(q) /\ g[n] \in Seq(S)
      BY <2>0
    <2> USE DEF step
    <2>2. step[n][g[n]] = g[n] \o q[n + 1]
      BY <2>1
    <2> HIDE DEF step
    <2> QED
      BY <1>4, <2>1, <2>2
  <1> HIDE DEF step
  <1>6. g[Len(q)] = FlattenSeq(q)
    <2>1. CASE Len(q) = 0
      BY <1>1, <1>4, <2>1 DEF FlattenSeq
    <2>2. CASE Len(q) # 0
      <3> DEFINE e == [i \in 1 .. Len(q) |-> g[i]]
      <3>1. e = [i \in 1 .. Len(q) |-> IF i = 1 THEN q[i] ELSE e[i - 1] \o q[i]]
        <4>1. ASSUME NEW i \in 1 .. Len(q)
              PROVE  g[i] = IF i = 1 THEN q[i] ELSE e[i - 1] \o q[i]
          <5>1. i - 1 \in 0 .. Len(q) - 1 /\ (i - 1) + 1 = i
            BY <1>1
          <5>2. g[i] = g[i - 1] \o q[i]
            BY <1>5, <5>1
          <5>3. CASE i = 1
            <6>1. g[i - 1] = <<>> /\ q[i] \in Seq(S)
              BY <1>1, <1>4, <5>3
            <6> QED
              BY <5>2, <5>3, <6>1, ConcatEmptySeq
          <5>4. CASE i # 1
            <6>1. i - 1 \in 1 .. Len(q)
              BY <1>1, <5>4
            <6>2. e[i - 1] = g[i - 1]
              BY <6>1
            <6> QED
              BY <5>2, <5>4, <6>2
          <5> QED
            BY <5>3, <5>4
        <4> QED
          BY <4>1
      <3> HIDE DEF e
      <3>2. PICK h : /\ h = [i \in 1 .. Len(q) |-> IF i = 1 THEN q[i] ELSE h[i - 1] \o q[i]]
                     /\ FlattenSeq(q) = h[Len(q)]
        BY <2>2, <3>1 DEF FlattenSeq
      <3> DEFINE A == {n \in Nat : n + 1 \in 1 .. Len(q) => h[n + 1] = g[n + 1]}
      <3>3. 0 \in A
        <4>1. h[1] = q[1]
          BY <1>1, <2>2, <3>2
        <4>2. g[0 + 1] = <<>> \o q[1]
          <5>1. 0 \in 0 .. Len(q) - 1
            BY <1>1, <2>2
          <5>2. g[0 + 1] = g[0] \o q[0 + 1]
            BY <1>5, <5>1
          <5> QED
            BY <1>4, <5>2
        <4>3. q[1] \in Seq(S)
          BY <1>1, <2>2
        <4> QED
          BY <4>1, <4>2, <4>3, ConcatEmptySeq
      <3>4. ASSUME NEW n \in A PROVE n + 1 \in A
        <4>1. SUFFICES ASSUME (n + 1) + 1 \in 1 .. Len(q) PROVE h[(n + 1) + 1] = g[(n + 1) + 1]
          OBVIOUS
        <4>2. /\ n + 1 \in 1 .. Len(q) /\ n + 1 \in 0 .. Len(q) - 1
              /\ (n + 1) + 1 # 1 /\ ((n + 1) + 1) - 1 = n + 1
          BY <1>1, <4>1
        <4>3. h[(n + 1) + 1] = h[n + 1] \o q[(n + 1) + 1]
          BY <3>2, <4>1, <4>2
        <4>4. h[n + 1] = g[n + 1]
          BY <4>2
        <4> QED
          BY <1>5, <4>2, <4>3, <4>4
      <3>5. \A n \in Nat : n \in A
        <4>1. A \in SUBSET Nat
          OBVIOUS
        <4> HIDE DEF A
        <4> QED
          BY <3>3, <3>4, <4>1, NumbersByInduction
      <3>6. Len(q) - 1 \in Nat /\ (Len(q) - 1) + 1 = Len(q) /\ Len(q) \in 1 .. Len(q)
        BY <1>1, <2>2
      <3>7. h[Len(q)] = g[Len(q)]
        BY <3>5, <3>6
      <3> QED
        BY <3>2, <3>7
    <2> QED
      BY <2>1, <2>2
  <1> QED
    BY <1>4, <1>5, <1>6

\* Where each of the sequences q begins, less one, when they are flattened.
IsStarts(b, q) ==
  /\ b \in [1 .. Len(q) + 1 -> Nat] /\ b[1] = 0
  /\ \A k \in 1 .. Len(q) : b[k + 1] = b[k] + Len(q[k])

Starts(q) == CHOOSE b : IsStarts(b, q)

\* There are such numbers.
LEMMA StartsExist ==
  ASSUME NEW S, NEW q \in Seq(Seq(S))
  PROVE  IsStarts(Starts(q), q)
  <1>1. /\ Len(q) \in Nat /\ \A k \in 1 .. Len(q) : q[k] \in Seq(S)
    BY SeqFacts
  <1>2. PICK g \in [Nat -> Seq(S)] :
           /\ g[0] = <<>>
           /\ \A n \in 0 .. Len(q) - 1 : g[n + 1] = g[n] \o q[n + 1]
    BY FlattenBySteps
  <1> DEFINE b == [k \in 1 .. Len(q) + 1 |-> Len(g[k - 1])]
  <1>3. b \in [1 .. Len(q) + 1 -> Nat]
    <2>1. \A k \in 1 .. Len(q) + 1 : k - 1 \in Nat
      BY <1>1
    <2>2. \A k \in 1 .. Len(q) + 1 : Len(g[k - 1]) \in Nat
      BY <1>2, <2>1, LenProperties
    <2> QED
      BY <2>2
  <1>4. b[1] = 0
    <2>1. Len(g[0]) = 0
      BY <1>2, EmptySeq
    <2> QED
      BY <1>1, <2>1
  <1>5. ASSUME NEW k \in 1 .. Len(q) PROVE b[k + 1] = b[k] + Len(q[k])
    <2>1. k - 1 \in 0 .. Len(q) - 1 /\ (k - 1) + 1 = k /\ k - 1 \in Nat
      BY <1>1
    <2>2. g[k] = g[k - 1] \o q[k] /\ g[k - 1] \in Seq(S) /\ q[k] \in Seq(S)
      BY <1>1, <1>2, <2>1
    <2>3. Len(g[k]) = Len(g[k - 1]) + Len(q[k])
      BY <2>2, ConcatProperties
    <2>4. k \in 1 .. Len(q) + 1 /\ k + 1 \in 1 .. Len(q) + 1 /\ (k + 1) - 1 = k
      BY <1>1
    <2> QED
      BY <2>3, <2>4
  <1> HIDE DEF b
  <1>6. IsStarts(b, q)
    BY <1>3, <1>4, <1>5 DEF IsStarts
  <1> QED
    BY <1>6 DEF Starts

\* A place behind x others.
LEMMA PlaceBehind ==
  ASSUME NEW x \in Nat, NEW l \in Nat, NEW j \in 1 .. l
  PROVE  x + j \in 1 .. x + l /\ ~(x + j <= x) /\ (x + j) - x = j
  OBVIOUS

\* What FlattenSeq returns: a sequence in which each of the sequences stands at
\* its start.
LEMMA Flattened ==
  ASSUME NEW S, NEW q \in Seq(Seq(S)), NEW b, IsStarts(b, q)
  PROVE  /\ FlattenSeq(q) \in Seq(S) /\ Len(FlattenSeq(q)) = b[Len(q) + 1]
         /\ \A k \in 1 .. Len(q) : \A j \in 1 .. Len(q[k]) :
              /\ b[k] + j \in 1 .. b[Len(q) + 1]
              /\ FlattenSeq(q)[b[k] + j] = q[k][j]
  <1>1. /\ Len(q) \in Nat /\ \A k \in 1 .. Len(q) : q[k] \in Seq(S) /\ Len(q[k]) \in Nat
    BY SeqFacts
  <1>2. PICK g \in [Nat -> Seq(S)] :
           /\ g[0] = <<>> /\ g[Len(q)] = FlattenSeq(q)
           /\ \A n \in 0 .. Len(q) - 1 : g[n + 1] = g[n] \o q[n + 1]
    BY FlattenBySteps
  <1>3. /\ \A k \in 1 .. Len(q) + 1 : b[k] \in Nat
        /\ b[1] = 0 /\ \A k \in 1 .. Len(q) : b[k + 1] = b[k] + Len(q[k])
    BY DEF IsStarts
  <1> DEFINE Good(n) == /\ Len(g[n]) = b[n + 1]
                        /\ \A k \in 1 .. n : \A j \in 1 .. Len(q[k]) :
                             b[k] + j \in 1 .. b[n + 1] /\ g[n][b[k] + j] = q[k][j]
             A == {n \in Nat : n <= Len(q) => Good(n)}
  <1>4. 0 \in A
    <2>1. Len(g[0]) = 0
      BY <1>2, EmptySeq
    <2> QED
      BY <1>3, <2>1
  <1>5. ASSUME NEW n \in A PROVE n + 1 \in A
    <2>1. SUFFICES ASSUME n + 1 <= Len(q) PROVE Good(n + 1)
      OBVIOUS
    <2>2. n \in 0 .. Len(q) - 1 /\ n \in Nat /\ n + 1 \in 1 .. Len(q) /\ n <= Len(q)
      BY <1>1, <2>1
    <2>3. Good(n)
      BY <2>2
    <2>4. g[n + 1] = g[n] \o q[n + 1] /\ g[n] \in Seq(S) /\ q[n + 1] \in Seq(S)
      BY <1>1, <1>2, <2>2
    <2>5. /\ Len(g[n + 1]) = Len(g[n]) + Len(q[n + 1])
          /\ \A i \in 1 .. Len(g[n]) + Len(q[n + 1]) :
               g[n + 1][i] = IF i <= Len(g[n]) THEN g[n][i] ELSE q[n + 1][i - Len(g[n])]
      BY <2>4, ConcatProperties
    <2>6. /\ b[(n + 1) + 1] = b[n + 1] + Len(q[n + 1])
          /\ b[n + 1] \in Nat /\ Len(q[n + 1]) \in Nat
      <3>1. n + 1 \in 1 .. Len(q) + 1
        BY <1>1, <2>2
      <3> HIDE DEF A, Good
      <3> QED
        BY <1>1, <1>3, <2>2, <3>1
    <2>7. Len(g[n + 1]) = b[(n + 1) + 1]
      BY <2>3, <2>5, <2>6
    <2>8. ASSUME NEW k \in 1 .. n + 1, NEW j \in 1 .. Len(q[k])
          PROVE  b[k] + j \in 1 .. b[(n + 1) + 1] /\ g[n + 1][b[k] + j] = q[k][j]
      <3> HIDE DEF A
      <3>0. /\ Len(g[n]) = b[n + 1]
            /\ \A k1 \in 1 .. n : \A j1 \in 1 .. Len(q[k1]) :
                 b[k1] + j1 \in 1 .. b[n + 1] /\ g[n][b[k1] + j1] = q[k1][j1]
        BY <2>3
      <3> HIDE DEF Good
      <3>1. CASE k = n + 1
        <4>1. j \in 1 .. Len(q[n + 1]) /\ b[k] + j = b[n + 1] + j
          BY <3>1
        <4>2. b[n + 1] + j \in 1 .. b[n + 1] + Len(q[n + 1]) /\ ~(b[n + 1] + j <= b[n + 1])
              /\ (b[n + 1] + j) - b[n + 1] = j
          BY <2>6, <4>1, PlaceBehind
        <4> QED
          BY <3>0, <2>5, <2>6, <3>1, <4>1, <4>2
      <3>2. CASE k # n + 1
        <4>1. k \in 1 .. n
          BY <2>2, <3>2
        <4>2. b[k] + j \in 1 .. b[n + 1] /\ g[n][b[k] + j] = q[k][j]
          BY <3>0, <4>1
        <4>3. b[k] + j \in 1 .. Len(g[n]) + Len(q[n + 1]) /\ b[k] + j <= Len(g[n])
          <5> DEFINE x == b[n + 1]
                     y == Len(q[n + 1])
                     p == b[k] + j
          <5>1. x \in Nat /\ y \in Nat /\ p \in 1 .. x /\ Len(g[n]) = x
            BY <3>0, <2>6, <4>2
          <5> HIDE DEF x, y, p
          <5>2. p \in 1 .. x + y /\ p <= x
            BY <5>1
          <5> QED
            BY <5>1, <5>2 DEF p, y
        <4> QED
          BY <2>5, <3>0, <2>6, <4>2, <4>3
      <3> QED
        BY <3>1, <3>2
    <2> QED
      BY <2>7, <2>8
  <1>6. \A n \in Nat : n \in A
    <2>1. A \in SUBSET Nat
      OBVIOUS
    <2> HIDE DEF A
    <2> QED
      BY <1>4, <1>5, <2>1, NumbersByInduction
  <1>7. Good(Len(q))
    <2>1. Len(q) \in A
      BY <1>1, <1>6
    <2> HIDE DEF Good
    <2> QED
      BY <1>1, <2>1
  <1> QED
    BY <1>1, <1>2, <1>7

\* The starts are in order.
LEMMA StartsOrder ==
  ASSUME NEW S, NEW q \in Seq(Seq(S)), NEW b, IsStarts(b, q),
         NEW m \in 1 .. Len(q) + 1, NEW k \in 1 .. m
  PROVE  b[k] <= b[m]
  <1>1. Len(q) \in Nat /\ \A i \in 1 .. Len(q) : Len(q[i]) \in Nat
    BY SeqFacts
  <1>2. /\ \A i \in 1 .. Len(q) + 1 : b[i] \in Nat
        /\ b[1] = 0 /\ \A i \in 1 .. Len(q) : b[i + 1] = b[i] + Len(q[i])
    BY DEF IsStarts
  <1> DEFINE A == {n \in Nat : k + n \in 1 .. Len(q) + 1 => b[k] <= b[k + n]}
  <1>3. 0 \in A
    BY <1>1, <1>2
  <1>4. ASSUME NEW n \in A PROVE n + 1 \in A
    <2>1. SUFFICES ASSUME k + (n + 1) \in 1 .. Len(q) + 1 PROVE b[k] <= b[k + (n + 1)]
      OBVIOUS
    <2>2. k + n \in 1 .. Len(q) /\ k + n \in 1 .. Len(q) + 1 /\ (k + n) + 1 = k + (n + 1)
          /\ k \in 1 .. Len(q) + 1
      BY <1>1, <2>1
    <2>3. b[k] <= b[k + n]
      BY <2>2
    <2>4. b[k + (n + 1)] = b[k + n] + Len(q[k + n])
      BY <1>2, <2>2
    <2> QED
      BY <1>1, <1>2, <2>2, <2>3, <2>4
  <1>5. \A n \in Nat : n \in A
    <2>1. A \in SUBSET Nat
      OBVIOUS
    <2> HIDE DEF A
    <2> QED
      BY <1>3, <1>4, <2>1, NumbersByInduction
  <1>6. m - k \in Nat /\ k + (m - k) = m
    BY <1>1
  <1> QED
    BY <1>5, <1>6

\* Every place belongs to one of the sequences.
LEMMA StartsCover ==
  ASSUME NEW S, NEW q \in Seq(Seq(S)), NEW b, IsStarts(b, q),
         NEW n \in 1 .. b[Len(q) + 1]
  PROVE  \E k \in 1 .. Len(q) : n - b[k] \in 1 .. Len(q[k]) /\ n = b[k] + (n - b[k])
  <1>1. Len(q) \in Nat /\ \A k \in 1 .. Len(q) : Len(q[k]) \in Nat
    BY SeqFacts
  <1>2. /\ \A k \in 1 .. Len(q) + 1 : b[k] \in Nat
        /\ b[1] = 0 /\ \A k \in 1 .. Len(q) : b[k + 1] = b[k] + Len(q[k])
    BY DEF IsStarts
  <1> DEFINE T == {k \in 1 .. Len(q) + 1 : n <= b[k]}
  <1>3. PICK m \in T : \A k \in T : m <= k
    <2>1. T \in SUBSET Nat /\ Len(q) + 1 \in T
      BY <1>1, <1>2
    <2> HIDE DEF T
    <2> QED
      BY <2>1, FirstPlace
  <1>4. m # 1 /\ m \in 1 .. Len(q) + 1 /\ n <= b[m]
    BY <1>2
  <1>5. m - 1 \in 1 .. Len(q) /\ m - 1 \in 1 .. Len(q) + 1 /\ (m - 1) + 1 = m /\ m - 1 < m
    BY <1>1, <1>4
  <1>6. ~(n <= b[m - 1])
    BY <1>3, <1>5
  <1>7. b[m] = b[m - 1] + Len(q[m - 1]) /\ b[m - 1] \in Nat
    BY <1>2, <1>5
  <1>8. n \in Nat /\ Len(q[m - 1]) \in Nat
    BY <1>1, <1>2, <1>5
  <1> HIDE DEF T
  <1>9. n - b[m - 1] \in 1 .. Len(q[m - 1]) /\ n = b[m - 1] + (n - b[m - 1])
    BY <1>4, <1>6, <1>7, <1>8
  <1> QED
    BY <1>5, <1>9

\* A sequence between two elements.
LEMMA Bracketed ==
  ASSUME NEW T, NEW x \in T, NEW m \in Seq(T), NEW z \in T
  PROVE  /\ <<x>> \o m \o <<z>> \in Seq(T)
         /\ Len(<<x>> \o m \o <<z>>) = Len(m) + 2
         /\ (<<x>> \o m \o <<z>>)[1] = x /\ (<<x>> \o m \o <<z>>)[Len(m) + 2] = z
         /\ \A i \in 1 .. Len(m) : (<<x>> \o m \o <<z>>)[i + 1] = m[i]
  <1> DEFINE a == <<x>>
             e == <<z>>
             h == a \o m
             l == Len(m)
  <1>1. /\ a \in Seq(T) /\ Len(a) = 1 /\ a[1] = x
        /\ e \in Seq(T) /\ Len(e) = 1 /\ e[1] = z
        /\ l \in Nat
    BY LenProperties
  <1> HIDE DEF a, e
  <1>2. /\ h \in Seq(T) /\ Len(h) = l + 1
        /\ \A i \in 1 .. l + 1 : h[i] = IF i <= 1 THEN a[i] ELSE m[i - 1]
    <2>1. /\ h \in Seq(T) /\ Len(h) = Len(a) + Len(m)
          /\ \A i \in 1 .. Len(a) + Len(m) : h[i] = IF i <= Len(a) THEN a[i] ELSE m[i - Len(a)]
      BY <1>1, ConcatProperties
    <2> HIDE DEF h
    <2> QED
      BY <1>1, <2>1
  <1> HIDE DEF h
  <1>3. /\ h \o e \in Seq(T) /\ Len(h \o e) = l + 2
        /\ \A i \in 1 .. l + 2 : (h \o e)[i] = IF i <= l + 1 THEN h[i] ELSE e[i - (l + 1)]
    <2>1. /\ h \o e \in Seq(T) /\ Len(h \o e) = Len(h) + Len(e)
          /\ \A i \in 1 .. Len(h) + Len(e) :
               (h \o e)[i] = IF i <= Len(h) THEN h[i] ELSE e[i - Len(h)]
      BY <1>1, <1>2, ConcatProperties
    <2>2. Len(h) + Len(e) = l + 2 /\ Len(h) = l + 1
      BY <1>1, <1>2
    <2> HIDE DEF l
    <2> QED
      BY <1>1, <2>1, <2>2
  <1>4. h \o e = <<x>> \o m \o <<z>>
    BY DEF h, a, e
  <1> HIDE DEF l
  <1>5. (h \o e)[1] = x /\ (h \o e)[l + 2] = z
    <2>1. 1 \in 1 .. l + 2 /\ l + 2 \in 1 .. l + 2 /\ 1 <= l + 1 /\ ~(l + 2 <= l + 1)
          /\ (l + 2) - (l + 1) = 1 /\ 1 \in 1 .. l + 1
      BY <1>1
    <2> QED
      BY <1>1, <1>2, <1>3, <2>1
  <1>6. ASSUME NEW i \in 1 .. l PROVE (h \o e)[i + 1] = m[i]
    <2>1. i + 1 \in 1 .. l + 2 /\ i + 1 <= l + 1 /\ ~(i + 1 <= 1)
          /\ (i + 1) - 1 = i /\ i + 1 \in 1 .. l + 1
      BY <1>1
    <2> QED
      BY <1>2, <1>3, <2>1
  <1> QED
    BY <1>3, <1>4, <1>5, <1>6 DEF l

\* What \div returns.
LEMMA DivFacts ==
  ASSUME NEW a \in Nat, NEW d \in Nat \ {0}
  PROVE  a \div d \in Nat /\ d * (a \div d) <= a /\ a < d * (a \div d) + d
  OBVIOUS

\* Products with the same positive factor are ordered like the other factors.
LEMMA ProductOrder ==
  ASSUME NEW d \in Nat \ {0}, NEW x \in Nat, NEW y \in Nat
  PROVE  /\ x <= y => d * x <= d * y
         /\ x < y => d * x + d <= d * y
         /\ d * x < d * y => x < y
         /\ d * x \in Nat /\ d * (x + 1) = d * x + d
  <1>0. d * x \in Nat /\ d * (x + 1) = d * x + d
    OBVIOUS
  <1>1. ASSUME x <= y PROVE d * x <= d * y
    <2>1. y - x \in Nat /\ d * y = d * x + d * (y - x)
      BY <1>1
    <2>2. d * (y - x) \in Nat /\ d * x \in Nat
      BY <2>1
    <2> QED
      BY <2>1, <2>2
  <1>2. ASSUME x < y PROVE d * x + d <= d * y
    <2>1. y - x - 1 \in Nat /\ d * y = d * x + d + d * (y - x - 1)
      BY <1>2
    <2>2. d * (y - x - 1) \in Nat /\ d * x \in Nat
      BY <2>1
    <2> QED
      BY <2>1, <2>2
  <1>3. ASSUME d * x < d * y PROVE x < y
    <2>1. SUFFICES ASSUME y <= x PROVE FALSE
      OBVIOUS
    <2>2. x - y \in Nat /\ d * x = d * y + d * (x - y)
      BY <2>1
    <2>3. d * (x - y) \in Nat /\ d * y \in Nat
      BY <2>2
    <2> QED
      BY <1>3, <2>2, <2>3
  <1> QED
    BY <1>0, <1>1, <1>2, <1>3

\* Only the quotient is that close.
LEMMA DivUnique ==
  ASSUME NEW a \in Nat, NEW d \in Nat \ {0}, NEW x \in Nat, d * x <= a, a < d * x + d
  PROVE  a \div d = x
  <1> DEFINE y == a \div d
  <1>1. y \in Nat /\ d * y <= a /\ a < d * y + d
    BY DivFacts
  <1> HIDE DEF y
  <1>2. ~(x < y)
    BY <1>1, ProductOrder
  <1>3. ~(y < x)
    BY <1>1, ProductOrder
  <1> QED
    BY <1>1, <1>2, <1>3 DEF y

-----------------------------------------------------------------------------
(* Recursion up to a number, parts of sequences, and beginnings.           *)

\* What a recursive function on 0 .. m is.
IsUpto(e, S, z, step, m) ==
  e \in [0 .. m -> S] /\ e = [k \in 0 .. m |-> IF k = 0 THEN z ELSE step[k][e[k - 1]]]

\* A function on 0 .. m can be defined by recursion.
LEMMA RecursionUpto ==
  ASSUME NEW S, NEW z \in S, NEW step \in [Nat -> [S -> S]], NEW m \in Nat
  PROVE  \E e : IsUpto(e, S, z, step, m)
  <1> DEFINE next == [n \in Nat |-> step[n + 1]]
  <1>1. next \in [Nat -> [S -> S]]
    <2>1. \A n \in Nat : n + 1 \in Nat
      OBVIOUS
    <2> QED
      BY <2>1
  <1>2. \A n \in Nat : next[n] = step[n + 1]
    OBVIOUS
  <1> HIDE DEF next
  <1>3. PICK g : IsRecursion(g, S, z, next)
    BY <1>1, RecursionExists
  <1>4. /\ \A n \in Nat : g[n] \in S
        /\ g[0] = z /\ \A n \in Nat : g[n + 1] = next[n][g[n]]
    BY <1>3 DEF IsRecursion
  <1> DEFINE e == [k \in 0 .. m |-> g[k]]
  <1>5. e \in [0 .. m -> S]
    BY <1>4
  <1>6. ASSUME NEW k \in 0 .. m PROVE g[k] = IF k = 0 THEN z ELSE step[k][e[k - 1]]
    <2>1. CASE k = 0
      BY <1>4, <2>1
    <2>2. CASE k # 0
      <3>1. k - 1 \in Nat /\ (k - 1) + 1 = k /\ k - 1 \in 0 .. m
        BY <2>2
      <3>2. g[k] = next[k - 1][g[k - 1]] /\ next[k - 1] = step[k]
        BY <1>2, <1>4, <3>1
      <3> QED
        BY <2>2, <3>1, <3>2
    <2> QED
      BY <2>1, <2>2
  <1>7. e = [k \in 0 .. m |-> IF k = 0 THEN z ELSE step[k][e[k - 1]]]
    BY <1>6
  <1> HIDE DEF e
  <1>8. IsUpto(e, S, z, step, m)
    BY <1>5, <1>7 DEF IsUpto
  <1> QED
    BY <1>8

\* What SubSeq returns between two places.
LEMMA SubSeqBetween ==
  ASSUME NEW S, NEW q \in Seq(S), NEW a \in Nat, NEW n \in Nat, a + n <= Len(q)
  PROVE  /\ SubSeq(q, a + 1, a + n) \in Seq(S) /\ Len(SubSeq(q, a + 1, a + n)) = n
         /\ \A i \in 1 .. n : SubSeq(q, a + 1, a + n)[i] = q[a + i]
  <1> DEFINE b == SubSeq(q, a + 1, a + n)
  <1>1. Len(q) \in Nat /\ \A i \in 1 .. Len(q) : q[i] \in S
    BY SeqFacts
  <1>2. \A i \in a + 1 .. a + n : q[i] \in S
    BY <1>1
  <1>3. /\ b \in Seq(S) /\ Len(b) = IF a + 1 <= a + n THEN (a + n) - (a + 1) + 1 ELSE 0
        /\ \A i \in 1 .. (a + n) - (a + 1) + 1 : b[i] = q[(a + 1) + i - 1]
    BY <1>1, <1>2, SubSeqProperties
  <1> HIDE DEF b
  <1>4. b \in Seq(S) /\ Len(b) = n
    BY <1>3
  <1>5. ASSUME NEW i \in 1 .. n PROVE b[i] = q[a + i]
    <2>1. i \in 1 .. (a + n) - (a + 1) + 1 /\ (a + 1) + i - 1 = a + i
      OBVIOUS
    <2> QED
      BY <1>3, <2>1
  <1> QED
    BY <1>4, <1>5 DEF b

\* What stands between two places is the beginning of what stands between the first
\* and a later one, and the rest.
LEMMA SubSeqTwice ==
  ASSUME NEW S, NEW q \in Seq(S), NEW a \in Nat, NEW n \in Nat, NEW k \in 0 .. n, a + n <= Len(q)
  PROVE  /\ SubSeq(SubSeq(q, a + 1, a + n), 1, k) = SubSeq(q, a + 1, a + k)
         /\ SubSeq(SubSeq(q, a + 1, a + n), k + 1, n) = SubSeq(q, a + k + 1, a + k + (n - k))
         /\ SubSeq(q, a + 1, a + n) = SubSeq(q, a + 1, a + k) \o SubSeq(q, a + k + 1, a + k + (n - k))
  <1> DEFINE b == SubSeq(q, a + 1, a + n)
             c == SubSeq(q, a + 1, a + k)
             d == SubSeq(q, a + k + 1, a + k + (n - k))
  <1>0. Len(q) \in Nat /\ n - k \in Nat /\ a + k \in Nat
    BY SeqFacts
  <1>1. b \in Seq(S) /\ Len(b) = n /\ \A i \in 1 .. n : b[i] = q[a + i]
    BY SubSeqBetween
  <1>2. c \in Seq(S) /\ Len(c) = k /\ \A i \in 1 .. k : c[i] = q[a + i]
    <2>1. a + k <= Len(q)
      BY <1>0
    <2> QED
      BY <2>1, SubSeqBetween
  <1>3. d \in Seq(S) /\ Len(d) = n - k /\ \A i \in 1 .. n - k : d[i] = q[(a + k) + i]
    <2>1. (a + k) + (n - k) <= Len(q)
      BY <1>0
    <2> DEFINE x == a + k  y == n - k
    <2>2. x \in Nat /\ y \in Nat /\ x + y <= Len(q)
      BY <1>0, <2>1
    <2> HIDE DEF x, y
    <2>3. /\ SubSeq(q, x + 1, x + y) \in Seq(S) /\ Len(SubSeq(q, x + 1, x + y)) = y
          /\ \A i \in 1 .. y : SubSeq(q, x + 1, x + y)[i] = q[x + i]
      BY <2>2, SubSeqBetween
    <2> QED
      BY <2>3 DEF x, y
  <1> HIDE DEF b, c, d
  <1>4. /\ SubSeq(b, 1, k) \in Seq(S) /\ Len(SubSeq(b, 1, k)) = k
        /\ \A i \in 1 .. k : SubSeq(b, 1, k)[i] = b[i]
        /\ SubSeq(b, k + 1, n) \in Seq(S) /\ Len(SubSeq(b, k + 1, n)) = n - k
        /\ \A i \in 1 .. n - k : SubSeq(b, k + 1, n)[i] = b[k + i]
    BY <1>1, SubSeqFacts
  <1>5. SubSeq(b, 1, k) = c
    <2>1. \A i \in 1 .. k : SubSeq(b, 1, k)[i] = c[i]
      BY <1>1, <1>2, <1>4
    <2> QED
      BY <1>2, <1>4, <2>1, SeqEqual
  <1>6. SubSeq(b, k + 1, n) = d
    <2>1. ASSUME NEW i \in 1 .. n - k PROVE SubSeq(b, k + 1, n)[i] = d[i]
      <3>1. k + i \in 1 .. n /\ a + (k + i) = (a + k) + i
        BY <1>0
      <3> QED
        BY <1>1, <1>3, <1>4, <3>1
    <2> QED
      BY <1>3, <1>4, <2>1, SeqEqual
  <1>7. b = c \o d
    <2>1. SubSeq(b, 1, k) \o SubSeq(b, k + 1, n) = b
      BY <1>1, ConcatFacts
    <2> QED
      BY <1>5, <1>6, <2>1
  <1> QED
    BY <1>5, <1>6, <1>7 DEF b, c, d

\* The sequences before one that is added are flattened first.
LEMMA FlattenAppend ==
  ASSUME NEW S, NEW q \in Seq(Seq(S)), NEW x \in Seq(S)
  PROVE  /\ FlattenSeq(q) \in Seq(S)
         /\ FlattenSeq(Append(q, x)) = FlattenSeq(q) \o x
  <1> DEFINE r == Append(q, x)
  <1>1. /\ r \in Seq(Seq(S)) /\ Len(r) = Len(q) + 1 /\ Len(q) \in Nat
        /\ r[Len(q) + 1] = x /\ \A k \in 1 .. Len(q) : r[k] = q[k]
    BY AppendFacts, SeqFacts
  <1> HIDE DEF r
  <1>2. PICK g \in [Nat -> Seq(S)] :
           /\ g[0] = <<>> /\ g[Len(q)] = FlattenSeq(q)
           /\ \A n \in 0 .. Len(q) - 1 : g[n + 1] = g[n] \o q[n + 1]
    BY FlattenBySteps
  <1>3. PICK h \in [Nat -> Seq(S)] :
           /\ h[0] = <<>> /\ h[Len(r)] = FlattenSeq(r)
           /\ \A n \in 0 .. Len(r) - 1 : h[n + 1] = h[n] \o r[n + 1]
    BY <1>1, FlattenBySteps
  <1> DEFINE A == {n \in Nat : n <= Len(q) => h[n] = g[n]}
  <1>4. 0 \in A
    BY <1>2, <1>3
  <1>5. ASSUME NEW n \in A PROVE n + 1 \in A
    <2>1. SUFFICES ASSUME n + 1 <= Len(q) PROVE h[n + 1] = g[n + 1]
      OBVIOUS
    <2>2. n \in 0 .. Len(q) - 1 /\ n \in 0 .. Len(r) - 1 /\ n + 1 \in 1 .. Len(q) /\ n <= Len(q)
      BY <1>1, <2>1
    <2>3. h[n] = g[n] /\ r[n + 1] = q[n + 1]
      BY <1>1, <2>2
    <2>4. h[n + 1] = h[n] \o r[n + 1] /\ g[n + 1] = g[n] \o q[n + 1]
      BY <1>2, <1>3, <2>2
    <2> QED
      BY <2>3, <2>4
  <1>6. \A n \in Nat : n \in A
    <2>1. A \in SUBSET Nat
      OBVIOUS
    <2> HIDE DEF A
    <2> QED
      BY <1>4, <1>5, <2>1, NumbersByInduction
  <1>7. h[Len(q)] = g[Len(q)]
    BY <1>1, <1>6
  <1>8. Len(q) \in 0 .. Len(r) - 1
    BY <1>1
  <1>9. h[Len(q) + 1] = h[Len(q)] \o r[Len(q) + 1]
    BY <1>3, <1>8
  <1>10. FlattenSeq(r) = FlattenSeq(q) \o x
    BY <1>1, <1>2, <1>3, <1>7, <1>9
  <1> QED
    BY <1>1, <1>2, <1>10 DEF r

\* A sequence is a beginning of another if the other goes on behind it.
LEMMA PrefixOfConcat ==
  ASSUME NEW S, NEW p \in Seq(S), NEW q \in Seq(S)
  PROVE  IsPrefix(p, p \o q)
  <1> DEFINE w == p \o q
  <1>1. Len(p) \in Nat /\ Len(q) \in Nat
    BY SeqFacts
  <1>2. /\ w \in Seq(S) /\ Len(w) = Len(p) + Len(q)
        /\ \A i \in 1 .. Len(p) + Len(q) : w[i] = IF i <= Len(p) THEN p[i] ELSE q[i - Len(p)]
    BY ConcatProperties
  <1> HIDE DEF w
  <1>3. Len(p) <= Len(w) /\ Len(p) \in 0 .. Len(w) /\ Len(p) \in 0 .. Len(p)
    BY <1>1, <1>2
  <1>4. /\ SubSeq(w, 1, Len(p)) \in Seq(S) /\ Len(SubSeq(w, 1, Len(p))) = Len(p)
        /\ \A i \in 1 .. Len(p) : SubSeq(w, 1, Len(p))[i] = w[i]
    BY <1>2, <1>3, SubSeqFacts
  <1>5. \A i \in 1 .. Len(p) : w[i] = p[i]
    BY <1>1, <1>2
  <1>6. SubSeq(w, 1, Len(p)) = p
    BY <1>4, <1>5, SeqEqual
  <1>7. SubSeq(p, 1, Len(p)) = p
    BY SubSeqFull
  <1>8. IsPrefix(p, w)
    BY <1>3, <1>6, <1>7 DEF IsPrefix
  <1> QED
    BY <1>8 DEF w

\* A sequence is a beginning of another, place by place.
LEMMA PrefixByPlaces ==
  ASSUME NEW S, NEW p \in Seq(S), NEW w \in Seq(S), Len(p) <= Len(w),
         \A i \in 1 .. Len(p) : p[i] = w[i]
  PROVE  IsPrefix(p, w)
  <1>1. Len(p) \in Nat /\ Len(w) \in Nat /\ Len(p) \in 0 .. Len(w)
    BY SeqFacts
  <1>4. /\ SubSeq(w, 1, Len(p)) \in Seq(S) /\ Len(SubSeq(w, 1, Len(p))) = Len(p)
        /\ \A i \in 1 .. Len(p) : SubSeq(w, 1, Len(p))[i] = w[i]
    BY <1>1, SubSeqFacts
  <1>6. SubSeq(w, 1, Len(p)) = p
    BY <1>4, SeqEqual
  <1>7. SubSeq(p, 1, Len(p)) = p
    BY SubSeqFull
  <1> QED
    BY <1>6, <1>7 DEF IsPrefix

\* The flattening of a beginning goes on with the next sequence.
LEMMA FlattenNext ==
  ASSUME NEW S, NEW q \in Seq(Seq(S)), NEW n \in 0 .. Len(q) - 1
  PROVE  FlattenSeq(SubSeq(q, 1, n + 1)) = FlattenSeq(SubSeq(q, 1, n)) \o q[n + 1]
  <1> DEFINE a == SubSeq(q, 1, n)
             b == SubSeq(q, 1, n + 1)
             x == q[n + 1]
  <1>1. /\ Len(q) \in Nat /\ n \in 0 .. Len(q) /\ n + 1 \in 0 .. Len(q) /\ n + 1 \in 1 .. Len(q) /\ n \in Nat
    BY SeqFacts
  <1>2. a \in Seq(Seq(S)) /\ Len(a) = n /\ \A i \in 1 .. n : a[i] = q[i]
    BY <1>1, SubSeqFacts
  <1>3. b \in Seq(Seq(S)) /\ Len(b) = n + 1 /\ \A i \in 1 .. n + 1 : b[i] = q[i]
    <2> DEFINE l == n + 1
    <2>1. l \in 0 .. Len(q)
      BY <1>1
    <2> HIDE DEF l
    <2>2. SubSeq(q, 1, l) \in Seq(Seq(S)) /\ Len(SubSeq(q, 1, l)) = l /\ \A i \in 1 .. l : SubSeq(q, 1, l)[i] = q[i]
      BY <2>1, SubSeqFacts
    <2> QED
      BY <2>2 DEF l
  <1>4. x \in Seq(S)
    BY <1>1, SeqFacts
  <1> HIDE DEF a, b, x
  <1>5. /\ Append(a, x) \in Seq(Seq(S)) /\ Len(Append(a, x)) = n + 1
        /\ Append(a, x)[n + 1] = x /\ \A k \in 1 .. n : Append(a, x)[k] = a[k]
    <2> DEFINE T == Seq(S)
    <2>1. a \in Seq(T) /\ x \in T /\ Len(a) = n
      BY <1>2, <1>4
    <2> HIDE DEF T
    <2>2. /\ Append(a, x) \in Seq(T) /\ Len(Append(a, x)) = Len(a) + 1
          /\ Append(a, x)[Len(a) + 1] = x /\ \A k \in 1 .. Len(a) : Append(a, x)[k] = a[k]
      BY <2>1, AppendFacts
    <2> QED
      BY <2>1, <2>2 DEF T
  <1>6. b = Append(a, x)
    <2>1. ASSUME NEW i \in 1 .. n + 1 PROVE b[i] = Append(a, x)[i]
      <3>1. CASE i = n + 1
        BY <1>3, <1>5, <3>1 DEF x
      <3>2. CASE i # n + 1
        <4>1. i \in 1 .. n
          BY <1>1, <3>2
        <4> QED
          BY <1>2, <1>3, <1>5, <4>1
      <3> QED
        BY <3>1, <3>2
    <2> QED
      BY <1>3, <1>5, <2>1, SeqEqual
  <1>7. FlattenSeq(Append(a, x)) = FlattenSeq(a) \o x
    BY <1>2, <1>4, FlattenAppend
  <1> QED
    BY <1>6, <1>7 DEF a, b, x

\* The flattening of a beginning, and that of the whole.
LEMMA FlattenPrefix ==
  ASSUME NEW S, NEW q \in Seq(Seq(S)), NEW m \in 0 .. Len(q)
  PROVE  \E u \in Seq(S) : FlattenSeq(q) = FlattenSeq(SubSeq(q, 1, m)) \o u
  <1>1. Len(q) \in Nat /\ \A k \in 1 .. Len(q) : q[k] \in Seq(S)
    BY SeqFacts
  <1> DEFINE F(n) == FlattenSeq(SubSeq(q, 1, n))
             Goal(n) == \E u \in Seq(S) : F(n) = F(m) \o u
             A == {n \in Nat : m + n <= Len(q) => Goal(m + n)}
  <1>2. \A n \in 0 .. Len(q) : SubSeq(q, 1, n) \in Seq(Seq(S)) /\ F(n) \in Seq(S)
    <2>1. ASSUME NEW n \in 0 .. Len(q) PROVE SubSeq(q, 1, n) \in Seq(Seq(S)) /\ F(n) \in Seq(S)
      <3>1. SubSeq(q, 1, n) \in Seq(Seq(S))
        BY SubSeqFacts
      <3>2. <<>> \in Seq(S)
        OBVIOUS
      <3> QED
        BY <3>1, <3>2, FlattenAppend
    <2> QED
      BY <2>1
  <1>3. ASSUME NEW n \in 0 .. Len(q) - 1 PROVE F(n + 1) = F(n) \o q[n + 1]
    BY FlattenNext
  <1> HIDE DEF F
  <1>4. 0 \in A
    <2>1. F(m) \in Seq(S) /\ <<>> \in Seq(S)
      BY <1>2
    <2>2. F(m) = F(m) \o <<>>
      BY <2>1, ConcatEmptySeq
    <2>3. Goal(m)
      BY <2>1, <2>2
    <2>4. m + 0 = m
      OBVIOUS
    <2> QED
      BY <2>3, <2>4
  <1>5. ASSUME NEW n \in A PROVE n + 1 \in A
    <2> HIDE DEF Goal
    <2>1. SUFFICES ASSUME m + (n + 1) <= Len(q) PROVE Goal(m + (n + 1))
      OBVIOUS
    <2> USE DEF Goal
    <2>2. /\ m + n \in 0 .. Len(q) - 1 /\ m + n <= Len(q) /\ (m + n) + 1 = m + (n + 1)
          /\ (m + n) + 1 \in 1 .. Len(q)
      BY <1>1, <2>1
    <2>3. PICK u \in Seq(S) : F(m + n) = F(m) \o u
      BY <2>2
    <2>4. F(m + (n + 1)) = F(m + n) \o q[(m + n) + 1]
      BY <1>3, <2>2
    <2> DEFINE x == q[(m + n) + 1]
    <2>5. x \in Seq(S) /\ F(m) \in Seq(S)
      BY <1>1, <1>2, <2>2
    <2> HIDE DEF x
    <2>6. (F(m) \o u) \o x = F(m) \o (u \o x) /\ u \o x \in Seq(S)
      BY <2>5, ConcatAssociative, ConcatProperties
    <2> QED
      BY <2>3, <2>4, <2>6 DEF x
  <1>6. \A n \in Nat : n \in A
    <2>1. A \in SUBSET Nat
      OBVIOUS
    <2> HIDE DEF A
    <2> QED
      BY <1>4, <1>5, <2>1, NumbersByInduction
  <1>7. Goal(Len(q))
    <2>1. Len(q) - m \in Nat /\ m + (Len(q) - m) = Len(q) /\ m + (Len(q) - m) <= Len(q)
      BY <1>1
    <2>2. Len(q) - m \in A
      BY <1>6, <2>1
    <2> HIDE DEF Goal
    <2> QED
      BY <2>1, <2>2
  <1>8. SubSeq(q, 1, Len(q)) = q
    BY SubSeqFull
  <1> QED
    BY <1>7, <1>8 DEF F
=============================================================================
