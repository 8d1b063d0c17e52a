---------------------------- MODULE StreamProofs ----------------------------
(***************************************************************************)
(* For all files, configurations, sizes of blocks and queues, and in every *)
(* interleaving of the threads: what dedup_thread is given, directly or    *)
(* from a trace, is the stream of the files, cut where their bytes say; no *)
(* segment is out of its limits, nor is a chunk, but for those that        *)
(* asymmetric extremum cuts; and the features of a segment represent it.   *)
(*                                                                         *)
(* The argument is one of a path.  A place is a file and an offset in it,  *)
(* and an item leads from one place to another: into a file, over the      *)
(* bytes of a chunk, out of the file.  What dedup_thread has been given    *)
(* leads from the front of the first file to a place d, what is in the     *)
(* queue before it from there to the next place, and so on, through the    *)
(* queues, the trace and the bytes that chunk_thread has at hand, to the   *)
(* place of read_thread.  Each thread takes the first step of one path and *)
(* adds it to another.  All algorithms but asymmetric extremum cut alike   *)
(* with chunk_max_size bytes at hand and with the whole file, so that only *)
(* one path is possible.                                                   *)
(***************************************************************************)
EXTENDS Stream, SequenceFacts, FiniteSetTheorems, TLAPS

-----------------------------------------------------------------------------
(* The chunking algorithms.                                                *)

\* The sizes are positive and in order.
LEMMA Sizes ==
  /\ MinSize \in Nat \ {0} /\ AvgSize \in Nat \ {0} /\ MaxSize \in Nat \ {0}
  /\ WindowBytes \in Nat \ {0} /\ WordBytes \in Nat \ {0} /\ AeWindow \in Nat \ {0}
  /\ ContainerRoom \in Nat \ {0}
  /\ MinSize <= AvgSize /\ AvgSize <= MaxSize /\ MinSize <= MaxSize /\ MaxSize <= ContainerRoom
  <1>1. /\ MinSize \in Nat \ {0} /\ AvgSize \in Nat \ {0} /\ MaxSize \in Nat \ {0}
        /\ WindowBytes \in Nat \ {0} /\ WordBytes \in Nat \ {0} /\ AeWindow \in Nat \ {0}
        /\ ContainerRoom \in Nat \ {0}
        /\ MinSize <= AvgSize /\ AvgSize <= MaxSize /\ MaxSize <= ContainerRoom
    BY ChunkingAssumption DEF ChunkingAssumption
  <1>2. MinSize <= MaxSize
    BY <1>1
  <1> QED
    BY <1>1, <1>2

\* The break marks depend on the bytes up to the maximum, and lie between the limits.
LEMMA MarksLocal ==
  ASSUME NEW p \in Seq(Nat), NEW q \in Seq(Nat), NEW mask, Len(p) <= Len(q),
         \A i \in 1 .. Len(p) : p[i] = q[i], Len(p) >= MaxSize
  PROVE  Marks(p, mask) = Marks(q, mask)
  <1>1. /\ MinSize \in Nat \ {0} /\ MaxSize \in Nat \ {0} /\ MinSize <= MaxSize
        /\ Len(p) \in Nat /\ Len(q) \in Nat
    BY Sizes, SeqFacts
  <1>2. Min({Len(p), MaxSize}) = MaxSize /\ Min({Len(q), MaxSize}) = MaxSize
    <2>0. Len(p) \in Int /\ Len(q) \in Int /\ MaxSize \in Int
      BY <1>1
    <2>1. /\ Min({Len(p), MaxSize}) = IF Len(p) <= MaxSize THEN Len(p) ELSE MaxSize
          /\ Min({Len(q), MaxSize}) = IF Len(q) <= MaxSize THEN Len(q) ELSE MaxSize
      BY <2>0, MinMaxOfTwo, Zenon
    <2> QED
      BY <1>1, <2>1
  <1>3. ASSUME NEW i \in MinSize .. MaxSize - 1 PROVE SubSeq(p, MinSize, i) = SubSeq(q, MinSize, i)
    <2> DEFINE a == MinSize - 1
               n == i - MinSize + 1
    <2>1. a \in Nat /\ n \in Nat /\ a + 1 = MinSize /\ a + n = i /\ a + n <= Len(p) /\ a + n <= Len(q)
      BY <1>1
    <2> HIDE DEF a, n
    <2>0. a \in Nat /\ n \in Nat /\ a + n <= Len(p) /\ a + n <= Len(q)
      BY <2>1
    <2>2. /\ SubSeq(p, a + 1, a + n) \in Seq(Nat) /\ Len(SubSeq(p, a + 1, a + n)) = n
          /\ \A j \in 1 .. n : SubSeq(p, a + 1, a + n)[j] = p[a + j]
      BY <2>0, SubSeqBetween
    <2>3. /\ SubSeq(q, a + 1, a + n) \in Seq(Nat) /\ Len(SubSeq(q, a + 1, a + n)) = n
          /\ \A j \in 1 .. n : SubSeq(q, a + 1, a + n)[j] = q[a + j]
      BY <2>0, SubSeqBetween
    <2>4. \A j \in 1 .. n : p[a + j] = q[a + j]
      BY <1>1, <2>1
    <2>5. SubSeq(p, a + 1, a + n) = SubSeq(q, a + 1, a + n)
      BY <2>2, <2>3, <2>4, SeqEqual
    <2> QED
      BY <2>1, <2>5
  <1>4. ASSUME NEW i \in MinSize .. MaxSize - 1
        PROVE  Rabin(SubSeq(p, MinSize, i)) % mask[i] = BreakMark <=> Rabin(SubSeq(q, MinSize, i)) % mask[i] = BreakMark
    BY <1>3, Zenon
  <1> DEFINE Good(x, i) == Rabin(SubSeq(x, MinSize, i)) % mask[i] = BreakMark
  <1>5. Marks(p, mask) = {i \in MinSize .. MaxSize - 1 : Good(p, i)} /\ Marks(q, mask) = {i \in MinSize .. MaxSize - 1 : Good(q, i)}
    BY <1>2, Zenon DEF Marks
  <1>6. \A i \in MinSize .. MaxSize - 1 : Good(p, i) <=> Good(q, i)
    BY <1>4, Zenon
  <1> HIDE DEF Good
  <1> QED
    BY <1>5, <1>6, Zenon

\* A mark is a size between the limits.
LEMMA MarksBetween ==
  ASSUME NEW p \in Seq(Nat), NEW mask
  PROVE  /\ AtMost(p) \in Nat /\ AtMost(p) <= Len(p) /\ AtMost(p) <= MaxSize
         /\ AtMost(p) = Len(p) \/ AtMost(p) = MaxSize
         /\ Marks(p, mask) \in SUBSET Nat
         /\ \A i \in Marks(p, mask) : MinSize <= i /\ i < AtMost(p)
  <1>1. MinSize \in Nat \ {0} /\ MaxSize \in Nat \ {0} /\ Len(p) \in Nat
    BY Sizes, SeqFacts
  <1>2. AtMost(p) = IF Len(p) <= MaxSize THEN Len(p) ELSE MaxSize
    BY <1>1, MinMaxOfTwo DEF AtMost
  <1>3. AtMost(p) \in Nat /\ AtMost(p) <= Len(p) /\ AtMost(p) <= MaxSize /\ (AtMost(p) = Len(p) \/ AtMost(p) = MaxSize)
    BY <1>1, <1>2
  <1>4. \A i \in Marks(p, mask) : i \in MinSize .. AtMost(p) - 1
    BY Zenon DEF Marks, AtMost
  <1>5. MinSize .. AtMost(p) - 1 \subseteq Nat /\ \A i \in MinSize .. AtMost(p) - 1 : MinSize <= i /\ i < AtMost(p)
    BY <1>1, <1>3
  <1> QED
    BY <1>3, <1>4, <1>5

\* The first mark, or all there is up to the maximum.
LEMMA FirstMark ==
  ASSUME NEW p \in Seq(Nat), NEW mask, Len(p) > MinSize, NEW size, size = FirstOr(Marks(p, mask), AtMost(p))
  PROVE  size \in Nat /\ size >= MinSize /\ size <= Len(p) /\ size <= MaxSize
  <1> DEFINE m == Marks(p, mask)
  <1>0. MinSize \in Nat \ {0} /\ MaxSize \in Nat \ {0} /\ Len(p) \in Nat /\ MinSize <= MaxSize
    BY Sizes, SeqFacts
  <1>1. /\ AtMost(p) \in Nat /\ AtMost(p) <= Len(p) /\ AtMost(p) <= MaxSize
        /\ AtMost(p) = Len(p) \/ AtMost(p) = MaxSize
        /\ m \in SUBSET Nat
        /\ \A i \in m : MinSize <= i /\ i < AtMost(p)
    BY MarksBetween, Zenon
  <1>2. size = IF m = {} THEN AtMost(p) ELSE Min(m)
    BY Zenon DEF FirstOr
  <1> HIDE DEF m
  <1>3. m # {} => Min(m) \in m
    BY <1>1, MinOfPlaces
  <1>4. CASE m = {}
    BY <1>0, <1>1, <1>2, <1>4
  <1>5. CASE m # {}
    <2>1. size \in m
      BY <1>2, <1>3, <1>5
    <2> QED
      BY <1>0, <1>1, <2>1
  <1> QED
    BY <1>4, <1>5

\* The sizes of the rolling fingerprint algorithms.
RabinSize(p, size) ==
  IF Len(p) <= MinSize THEN size = Len(p)
  ELSE size \in Nat /\ size >= MinSize /\ size <= Len(p) /\ size <= MaxSize

\* All three keep to the limits.
LEMMA RabinSizes ==
  ASSUME NEW p \in Seq(Nat)
  PROVE  /\ RabinSize(p, rabin_chunk_data(p)) /\ RabinSize(p, normalized_rabin_chunk_data(p))
         /\ RabinSize(p, tttd_chunk_data(p))
  <1>0. MinSize \in Nat \ {0} /\ MaxSize \in Nat \ {0} /\ Len(p) \in Nat /\ MinSize <= MaxSize
    BY Sizes, SeqFacts
  <1>1. RabinSize(p, rabin_chunk_data(p))
    <2> DEFINE mask == [i \in 1 .. MaxSize |-> AvgSize]
               size == FirstOr(Marks(p, mask), AtMost(p))
    <2>1. rabin_chunk_data(p) = IF Len(p) <= MinSize THEN Len(p) ELSE size
      BY Zenon DEF rabin_chunk_data
    <2> HIDE DEF mask
    <2>2. Len(p) > MinSize => size \in Nat /\ size >= MinSize /\ size <= Len(p) /\ size <= MaxSize
      BY FirstMark
    <2> HIDE DEF size
    <2> QED
      BY <1>0, <2>1, <2>2 DEF RabinSize
  <1>2. RabinSize(p, normalized_rabin_chunk_data(p))
    <2> DEFINE mask == [i \in 1 .. MaxSize |-> IF i < AvgSize THEN 2 * AvgSize ELSE AvgSize \div 2]
               size == FirstOr(Marks(p, mask), AtMost(p))
    <2>1. normalized_rabin_chunk_data(p) = IF Len(p) <= MinSize THEN Len(p) ELSE size
      BY Zenon DEF normalized_rabin_chunk_data
    <2> HIDE DEF mask
    <2>2. Len(p) > MinSize => size \in Nat /\ size >= MinSize /\ size <= Len(p) /\ size <= MaxSize
      BY FirstMark
    <2> HIDE DEF size
    <2> QED
      BY <1>0, <2>1, <2>2 DEF RabinSize
  <1>3. RabinSize(p, tttd_chunk_data(p))
    <2> DEFINE back == [i \in 1 .. MaxSize |-> AvgSize \div 2]
               main == [i \in 1 .. MaxSize |-> AvgSize]
               b == Marks(p, back)
               both == b \cap Marks(p, main)
               size == IF both # {} THEN Min(both) ELSE IF b # {} THEN Max(b) ELSE AtMost(p)
    <2>1. tttd_chunk_data(p) = IF Len(p) <= MinSize THEN Len(p) ELSE size
      BY Zenon DEF tttd_chunk_data
    <2> HIDE DEF back, main
    <2>2. /\ AtMost(p) \in Nat /\ AtMost(p) <= Len(p) /\ AtMost(p) <= MaxSize
          /\ AtMost(p) = Len(p) \/ AtMost(p) = MaxSize
          /\ b \in SUBSET Nat
          /\ \A i \in b : MinSize <= i /\ i < AtMost(p)
      BY MarksBetween, Zenon
    <2>3. both \in SUBSET b
      OBVIOUS
    <2> HIDE DEF b, both
    <2>4. both # {} => Min(both) \in b
      <3>1. both \in SUBSET Nat
        BY <2>2, <2>3
      <3> QED
        BY <2>3, <3>1, MinOfPlaces
    <2>5. b # {} => Max(b) \in b
      <3>1. b \in SUBSET (0 .. AtMost(p))
        BY <2>2
      <3> QED
        BY <2>2, <3>1, MaxOfPlaces
    <2>6. Len(p) > MinSize => size \in Nat /\ size >= MinSize /\ size <= Len(p) /\ size <= MaxSize
      <3>1. size \in b \/ size = AtMost(p)
        BY <2>4, <2>5
      <3> HIDE DEF size
      <3>2. CASE size = AtMost(p)
        BY <1>0, <2>2, <3>2
      <3>3. CASE size \in b
        <4>1. size \in Nat /\ MinSize <= size /\ size < AtMost(p)
          BY <2>2, <3>3
        <4> QED
          BY <1>0, <2>2, <4>1
      <3> QED
        BY <3>1, <3>2, <3>3
    <2> HIDE DEF size
    <2> QED
      BY <1>0, <2>1, <2>6 DEF RabinSize
  <1> QED
    BY <1>1, <1>2, <1>3

\* With that many bytes at hand the three algorithms see all they look at.
LEMMA RabinLocal ==
  ASSUME NEW p \in Seq(Nat), NEW q \in Seq(Nat), Len(p) <= Len(q),
         \A i \in 1 .. Len(p) : p[i] = q[i], Len(p) >= MaxSize
  PROVE  /\ rabin_chunk_data(p) = rabin_chunk_data(q)
         /\ normalized_rabin_chunk_data(p) = normalized_rabin_chunk_data(q)
         /\ tttd_chunk_data(p) = tttd_chunk_data(q)
  <1>0. /\ MinSize \in Nat \ {0} /\ MaxSize \in Nat \ {0} /\ Len(p) \in Nat /\ Len(q) \in Nat
        /\ MinSize <= MaxSize
    BY Sizes, SeqFacts
  <1>1. AtMost(p) = MaxSize /\ AtMost(q) = MaxSize
    <2>0. Len(p) \in Int /\ Len(q) \in Int /\ MaxSize \in Int
      BY <1>0
    <2>1. /\ AtMost(p) = IF Len(p) <= MaxSize THEN Len(p) ELSE MaxSize
          /\ AtMost(q) = IF Len(q) <= MaxSize THEN Len(q) ELSE MaxSize
      BY <2>0, MinMaxOfTwo, Zenon DEF AtMost
    <2> QED
      BY <1>0, <2>1
  <1>2. CASE Len(p) > MinSize
    <2>1. ~(Len(p) <= MinSize) /\ ~(Len(q) <= MinSize)
      BY <1>0, <1>2
    <2>2. rabin_chunk_data(p) = rabin_chunk_data(q)
      <3> DEFINE mask == [i \in 1 .. MaxSize |-> AvgSize]
      <3>1. /\ rabin_chunk_data(p) = FirstOr(Marks(p, mask), AtMost(p))
            /\ rabin_chunk_data(q) = FirstOr(Marks(q, mask), AtMost(q))
        BY <2>1, Zenon DEF rabin_chunk_data
      <3> HIDE DEF mask
      <3>2. Marks(p, mask) = Marks(q, mask)
        BY MarksLocal
      <3> QED
        BY <1>1, <3>1, <3>2, Zenon
    <2>3. normalized_rabin_chunk_data(p) = normalized_rabin_chunk_data(q)
      <3> DEFINE mask == [i \in 1 .. MaxSize |-> IF i < AvgSize THEN 2 * AvgSize ELSE AvgSize \div 2]
      <3>1. /\ normalized_rabin_chunk_data(p) = FirstOr(Marks(p, mask), AtMost(p))
            /\ normalized_rabin_chunk_data(q) = FirstOr(Marks(q, mask), AtMost(q))
        BY <2>1, Zenon DEF normalized_rabin_chunk_data
      <3> HIDE DEF mask
      <3>2. Marks(p, mask) = Marks(q, mask)
        BY MarksLocal
      <3> QED
        BY <1>1, <3>1, <3>2, Zenon
    <2>4. tttd_chunk_data(p) = tttd_chunk_data(q)
      <3> DEFINE back == [i \in 1 .. MaxSize |-> AvgSize \div 2]
                 main == [i \in 1 .. MaxSize |-> AvgSize]
                 Size(x) == IF Marks(x, back) \cap Marks(x, main) # {}
                              THEN Min(Marks(x, back) \cap Marks(x, main))
                            ELSE IF Marks(x, back) # {} THEN Max(Marks(x, back))
                            ELSE AtMost(x)
      <3>1. tttd_chunk_data(p) = Size(p) /\ tttd_chunk_data(q) = Size(q)
        BY <2>1, Zenon DEF tttd_chunk_data
      <3> HIDE DEF back, main
      <3>2. Marks(p, back) = Marks(q, back) /\ Marks(p, main) = Marks(q, main)
        BY MarksLocal
      <3>3. Size(p) = Size(q)
        BY <1>1, <3>2, Zenon
      <3> HIDE DEF Size
      <3> QED
        BY <3>1, <3>3, Zenon
    <2> QED
      BY <2>2, <2>3, <2>4
  <1>3. CASE Len(p) <= MinSize
    <2>1. Len(p) = MaxSize /\ MinSize = MaxSize
      BY <1>0, <1>3
    <2>2. CASE Len(q) <= MinSize
      <3>1. Len(q) = Len(p)
        BY <1>0, <2>1, <2>2
      <3>2. p = q
        BY <3>1, SeqEqual
      <3> QED
        BY <3>2
    <2>3. CASE ~(Len(q) <= MinSize)
      <3>1. \A mask : Marks(q, mask) = {}
        <4>1. SUFFICES ASSUME NEW mask, NEW i \in Marks(q, mask) PROVE FALSE
          OBVIOUS
        <4>2. Marks(q, mask) \in SUBSET Nat /\ MinSize <= i /\ i < AtMost(q)
          BY MarksBetween, Zenon
        <4>3. i \in Nat
          BY <4>2
        <4> QED
          BY <1>0, <1>1, <2>1, <4>2, <4>3
      <3>2. FirstOr({}, AtMost(q)) = MaxSize
        BY <1>1, Zenon DEF FirstOr
      <3>3. rabin_chunk_data(p) = MaxSize /\ rabin_chunk_data(q) = MaxSize
        BY <1>3, <2>1, <2>3, <3>1, <3>2, Zenon DEF rabin_chunk_data
      <3>4. normalized_rabin_chunk_data(p) = MaxSize /\ normalized_rabin_chunk_data(q) = MaxSize
        BY <1>3, <2>1, <2>3, <3>1, <3>2, Zenon DEF normalized_rabin_chunk_data
      <3>5. tttd_chunk_data(p) = MaxSize /\ tttd_chunk_data(q) = MaxSize
        <4>1. \A back, main : Marks(q, back) \cap Marks(q, main) = {}
          BY <3>1, Zenon
        <4> QED
          BY <1>1, <1>3, <2>1, <2>3, <3>1, <4>1, Zenon DEF tttd_chunk_data
      <3> QED
        BY <3>3, <3>4, <3>5
    <2> QED
      BY <2>2, <2>3
  <1> QED
    BY <1>0, <1>2, <1>3

\* Asymmetric extremum cuts among the bytes at hand.
LEMMA AeSize ==
  ASSUME NEW p \in Seq(Nat), p # <<>>
  PROVE  ae_chunk_data(p) \in 1 .. Len(p)
  <1>0. /\ Len(p) \in Nat \ {0} /\ WordBytes \in Nat \ {0} /\ AeWindow \in Nat \ {0}
        /\ MaxSize \in Nat \ {0}
    <2>1. Len(p) \in Nat /\ Len(p) # 0
      BY SeqFacts
    <2> QED
      BY <2>1, Sizes
  <1>1. CASE Len(p) <= AeWindow + WordBytes
    <2>1. ae_chunk_data(p) = Len(p)
      BY <1>1, Zenon DEF ae_chunk_data
    <2> QED
      BY <1>0, <2>1
  <1>2. CASE ~(Len(p) <= AeWindow + WordBytes)
    <2> DEFINE S == [max : Nat, cut : Nat]
               step == [k \in Nat |-> [s \in S |-> AeNext(p, s, k + 1)]]
               m == Len(p) - WordBytes
    <2>1. ASSUME NEW s \in S, NEW k \in Nat
          PROVE  AeNext(p, s, k + 1) \in S /\ (AeNext(p, s, k + 1).cut = s.cut \/ AeNext(p, s, k + 1).cut = k)
      <3>0. k + 1 \in Nat /\ (k + 1) - 1 = k /\ s.cut \in Nat
        OBVIOUS
      <3>1. AeNext(p, s, k + 1) = s \/ AeNext(p, s, k + 1) = [s EXCEPT !.max = k + 1]
             \/ AeNext(p, s, k + 1) = [s EXCEPT !.cut = k]
        BY <3>0, Zenon DEF AeNext
      <3> QED
        BY <3>0, <3>1
    <2>2. AeFirst \in S /\ step \in [Nat -> [S -> S]] /\ m \in Nat /\ m < Len(p)
      <3>1. step \in [Nat -> [S -> S]]
        <4> HIDE DEF S
        <4> QED
          BY <2>1
      <3>2. AeFirst \in S
        BY DEF AeFirst
      <3>3. m \in Nat /\ m < Len(p)
        BY <1>0, <1>2
      <3> HIDE DEF step, S, m
      <3> QED
        BY <3>1, <3>2, <3>3
    <2>3. \A k \in Nat : \A s \in S : step[k][s] = AeNext(p, s, k + 1)
      <3> HIDE DEF S
      <3> QED
        OBVIOUS
    <2> HIDE DEF step, S, m
    <2>3a. PICK e : IsUpto(e, S, AeFirst, step, m)
      BY <2>2, RecursionUpto
    <2>4. e \in [0 .. m -> S] /\ e = [k \in 0 .. m |-> IF k = 0 THEN AeFirst ELSE step[k][e[k - 1]]]
      BY <2>3a DEF IsUpto
    <2>5. e = [k \in 0 .. m |-> IF k = 0 THEN AeFirst ELSE AeNext(p, e[k - 1], k + 1)]
      <3>1. ASSUME NEW k \in 0 .. m PROVE e[k] = IF k = 0 THEN AeFirst ELSE AeNext(p, e[k - 1], k + 1)
        <4>1. CASE k = 0
          BY <2>4, <4>1
        <4>2. CASE k # 0
          <5>1. k - 1 \in 0 .. m /\ k \in Nat
            BY <2>2, <4>2
          <5>2. e[k - 1] \in S
            BY <2>4, <5>1
          <5>3. e[k] = step[k][e[k - 1]]
            BY <2>4, <4>2
          <5> QED
            BY <2>3, <4>2, <5>1, <5>2, <5>3
        <4> QED
          BY <4>1, <4>2
      <3> QED
        BY <2>4, <3>1
    <2>7. PICK f : /\ f = [k \in 0 .. m |-> IF k = 0 THEN AeFirst ELSE AeNext(p, f[k - 1], k + 1)]
                   /\ ae_chunk_data(p) = IF f[m].cut = 0 THEN Len(p) ELSE f[m].cut
      BY <1>2, <2>5 DEF ae_chunk_data, m
    <2> DEFINE A == {k \in Nat : k <= m => f[k] \in S /\ f[k].cut \in 0 .. k}
    <2>8. 0 \in A
      <3>1. f[0] = AeFirst
        BY <2>2, <2>7
      <3> QED
        BY <2>2, <3>1 DEF AeFirst, S
    <2>9. ASSUME NEW k \in A PROVE k + 1 \in A
      <3>1. SUFFICES ASSUME k + 1 <= m PROVE f[k + 1] \in S /\ f[k + 1].cut \in 0 .. k + 1
        OBVIOUS
      <3>2. k \in Nat /\ k <= m /\ k + 1 \in 0 .. m /\ k + 1 # 0 /\ (k + 1) - 1 = k /\ k + 1 \in Nat
        BY <2>2, <3>1
      <3>3. f[k] \in S /\ f[k].cut \in 0 .. k
        BY <3>2
      <3>4. f[k + 1] = AeNext(p, f[k], (k + 1) + 1)
        BY <2>7, <3>2
      <3>5. f[k + 1] \in S /\ (f[k + 1].cut = f[k].cut \/ f[k + 1].cut = k + 1)
        BY <2>1, <3>2, <3>3, <3>4
      <3> QED
        BY <3>2, <3>3, <3>5
    <2>10. \A k \in Nat : k \in A
      <3>1. A \in SUBSET Nat
        OBVIOUS
      <3> HIDE DEF A
      <3> QED
        BY <2>8, <2>9, <3>1, NumbersByInduction
    <2>11. f[m].cut \in 0 .. m
      BY <2>2, <2>10
    <2> HIDE DEF A
    <2> QED
      BY <1>0, <2>2, <2>7, <2>11
  <1> QED
    BY <1>1, <1>2

\* The least size of a chunk that is not the last of its file.
Least(alg) ==
  CASE alg = "ae" -> 1 [] alg \in {"fixed", "file"} -> chunk_max_size(alg) [] OTHER -> MinSize

\* The greatest size, and how it relates to the least.
LEMMA Limits ==
  ASSUME NEW alg \in Algorithms
  PROVE  /\ chunk_max_size(alg) \in Nat \ {0} /\ Least(alg) \in Nat \ {0}
         /\ Least(alg) <= chunk_max_size(alg)
         /\ alg = "ae" => chunk_max_size(alg) = MaxSize
  <1>0. /\ MinSize \in Nat \ {0} /\ AvgSize \in Nat \ {0} /\ MaxSize \in Nat \ {0}
        /\ ContainerRoom \in Nat \ {0} /\ MinSize <= MaxSize
    BY Sizes
  <1>1. \/ alg = "fixed" /\ chunk_max_size(alg) = AvgSize /\ Least(alg) = AvgSize
        \/ alg = "file" /\ chunk_max_size(alg) = ContainerRoom /\ Least(alg) = ContainerRoom
        \/ alg = "ae" /\ chunk_max_size(alg) = MaxSize /\ Least(alg) = 1
        \/ alg \in {"rabin", "normalized", "tttd"} /\ chunk_max_size(alg) = MaxSize /\ Least(alg) = MinSize
    BY DEF Algorithms, chunk_max_size, Least
  <1> QED
    BY <1>0, <1>1

\* A chunk has one byte at least, and no more than there are; with all of its file at
\* hand it keeps to the limits.
LEMMA ChunkSizes ==
  ASSUME NEW alg \in Algorithms, NEW p \in Seq(Nat), p # <<>>
  PROVE  /\ chunking(alg, p) \in 1 .. Len(p)
         /\ alg # "ae" => chunking(alg, p) <= chunk_max_size(alg)
         /\ chunking(alg, p) >= Least(alg) \/ chunking(alg, p) = Len(p)
  <1>0. /\ MinSize \in Nat \ {0} /\ AvgSize \in Nat \ {0} /\ MaxSize \in Nat \ {0}
        /\ ContainerRoom \in Nat \ {0} /\ MinSize <= MaxSize
        /\ Len(p) \in Nat \ {0}
    <2>1. Len(p) \in Nat /\ Len(p) # 0
      BY SeqFacts
    <2> QED
      BY <2>1, Sizes
  <1>1. /\ RabinSize(p, rabin_chunk_data(p)) /\ RabinSize(p, normalized_rabin_chunk_data(p))
        /\ RabinSize(p, tttd_chunk_data(p))
    BY RabinSizes
  <1>2. ae_chunk_data(p) \in 1 .. Len(p)
    BY AeSize
  <1>3. ASSUME NEW size \in Nat \ {0}
        PROVE  fixed_chunk_data(p, size) = IF size <= Len(p) THEN size ELSE Len(p)
    <2>1. size \in Int /\ Len(p) \in Int
      BY <1>0
    <2> QED
      BY <2>1, MinMaxOfTwo, Zenon DEF fixed_chunk_data
  <1>4. CASE alg = "fixed"
    <2>1. chunking(alg, p) = fixed_chunk_data(p, AvgSize) /\ chunk_max_size(alg) = AvgSize /\ Least(alg) = AvgSize
      BY <1>4 DEF chunking, chunk_max_size, Least
    <2> QED
      BY <1>0, <1>3, <2>1
  <1>5. CASE alg = "file"
    <2>1. chunking(alg, p) = fixed_chunk_data(p, ContainerRoom) /\ chunk_max_size(alg) = ContainerRoom /\ Least(alg) = ContainerRoom
      BY <1>5 DEF chunking, chunk_max_size, Least
    <2> QED
      BY <1>0, <1>3, <2>1
  <1>6. CASE alg = "ae"
    <2>1. chunking(alg, p) = ae_chunk_data(p) /\ Least(alg) = 1
      BY <1>6 DEF chunking, Least
    <2> QED
      BY <1>0, <1>2, <1>6, <2>1
  <1>7. CASE alg \in {"rabin", "normalized", "tttd"}
    <2>1. RabinSize(p, chunking(alg, p)) /\ chunk_max_size(alg) = MaxSize /\ Least(alg) = MinSize
      <3>1. chunk_max_size(alg) = MaxSize /\ Least(alg) = MinSize
        BY <1>7 DEF chunk_max_size, Least
      <3>2. alg = "rabin" => chunking(alg, p) = rabin_chunk_data(p)
        BY DEF chunking
      <3>3. alg = "normalized" => chunking(alg, p) = normalized_rabin_chunk_data(p)
        BY DEF chunking
      <3>4. alg = "tttd" => chunking(alg, p) = tttd_chunk_data(p)
        BY DEF chunking
      <3> QED
        BY <1>1, <1>7, <3>1, <3>2, <3>3, <3>4
    <2> QED
      BY <1>0, <2>1 DEF RabinSize
  <1> QED
    BY <1>4, <1>5, <1>6, <1>7 DEF Algorithms

\* With as many bytes at hand as the greatest size, all algorithms but asymmetric
\* extremum cut where they would with the whole rest of the file.
LEMMA ChunkingLocal ==
  ASSUME NEW alg \in Algorithms \ {"ae"}, NEW p \in Seq(Nat), NEW q \in Seq(Nat),
         Len(p) <= Len(q), \A i \in 1 .. Len(p) : p[i] = q[i],
         Len(p) >= chunk_max_size(alg)
  PROVE  chunking(alg, p) = chunking(alg, q)
  <1>0. Len(p) \in Nat /\ Len(q) \in Nat /\ AvgSize \in Nat /\ ContainerRoom \in Nat
    BY Sizes, SeqFacts
  <1>3. ASSUME NEW size \in Nat, size <= Len(p)
        PROVE  fixed_chunk_data(p, size) = fixed_chunk_data(q, size)
    <2>1. size \in Int /\ Len(p) \in Int /\ Len(q) \in Int
      BY <1>0
    <2>2. /\ fixed_chunk_data(p, size) = IF size <= Len(p) THEN size ELSE Len(p)
          /\ fixed_chunk_data(q, size) = IF size <= Len(q) THEN size ELSE Len(q)
      BY <2>1, MinMaxOfTwo, Zenon DEF fixed_chunk_data
    <2> QED
      BY <1>0, <1>3, <2>2
  <1>4. CASE alg = "fixed"
    <2>1. /\ chunking(alg, p) = fixed_chunk_data(p, AvgSize) /\ chunk_max_size(alg) = AvgSize
          /\ chunking(alg, q) = fixed_chunk_data(q, AvgSize)
      BY <1>4 DEF chunking, chunk_max_size
    <2> QED
      BY <1>0, <1>3, <2>1
  <1>5. CASE alg = "file"
    <2>1. /\ chunking(alg, p) = fixed_chunk_data(p, ContainerRoom) /\ chunk_max_size(alg) = ContainerRoom
          /\ chunking(alg, q) = fixed_chunk_data(q, ContainerRoom)
      BY <1>5 DEF chunking, chunk_max_size
    <2> QED
      BY <1>0, <1>3, <2>1
  <1>7. CASE alg \in {"rabin", "normalized", "tttd"}
    <2>1. chunk_max_size(alg) = MaxSize
      BY <1>7 DEF chunk_max_size
    <2>2. /\ rabin_chunk_data(p) = rabin_chunk_data(q)
          /\ normalized_rabin_chunk_data(p) = normalized_rabin_chunk_data(q)
          /\ tttd_chunk_data(p) = tttd_chunk_data(q)
      BY <2>1, RabinLocal
    <2>3. alg = "rabin" => chunking(alg, p) = rabin_chunk_data(p) /\ chunking(alg, q) = rabin_chunk_data(q)
      BY DEF chunking
    <2>4. alg = "normalized" => chunking(alg, p) = normalized_rabin_chunk_data(p) /\ chunking(alg, q) = normalized_rabin_chunk_data(q)
      BY DEF chunking
    <2>5. alg = "tttd" => chunking(alg, p) = tttd_chunk_data(p) /\ chunking(alg, q) = tttd_chunk_data(q)
      BY DEF chunking
    <2> QED
      BY <1>7, <2>2, <2>3, <2>4, <2>5
  <1> QED
    BY <1>4, <1>5, <1>7 DEF Algorithms

-----------------------------------------------------------------------------
(* The order of fingerprints.                                              *)

\* f and g agree in front of place k, at which f is smaller or at its end.
Differ(f, g, k) ==
  /\ k \in Nat \ {0} /\ k <= Len(f) + 1 /\ k <= Len(g)
  /\ \A l \in 1 .. k - 1 : f[l] = g[l]
  /\ k = Len(f) + 1 \/ f[k] < g[k]

\* memcmp decides at the first place that differs.
LEMMA BeforeAt ==
  ASSUME NEW f \in Seq(Nat), NEW g \in Seq(Nat)
  PROVE  Before(f, g) <=> \E k \in Nat : Differ(f, g, k)
  <1>0. Len(f) \in Nat /\ Len(g) \in Nat
    BY SeqFacts
  <1>1. Min({Len(f), Len(g)}) = IF Len(f) <= Len(g) THEN Len(f) ELSE Len(g)
    <2>1. Len(f) \in Int /\ Len(g) \in Int
      BY <1>0
    <2> QED
      BY <2>1, MinMaxOfTwo, Zenon
  <1>2. ASSUME Len(f) < Len(g), IsPrefix(f, g) PROVE Differ(f, g, Len(f) + 1)
    <2>1. SubSeq(f, 1, Len(f)) = SubSeq(g, 1, Len(f))
      BY <1>2 DEF IsPrefix
    <2>2. SubSeq(f, 1, Len(f)) = f
      BY SubSeqFull
    <2>3. Len(f) \in 0 .. Len(g)
      BY <1>0, <1>2
    <2>4. \A i \in 1 .. Len(f) : SubSeq(g, 1, Len(f))[i] = g[i]
      BY <2>3, SubSeqFacts
    <2>5. \A i \in 1 .. Len(f) : f[i] = g[i]
      BY <2>1, <2>2, <2>4
    <2>6. Len(f) + 1 \in Nat \ {0} /\ Len(f) + 1 <= Len(g) /\ (Len(f) + 1) - 1 = Len(f)
      BY <1>0, <1>2
    <2> QED
      BY <1>0, <2>5, <2>6 DEF Differ
  <1>3. ASSUME NEW k \in 1 .. Min({Len(f), Len(g)}), f[k] < g[k], \A l \in 1 .. k - 1 : f[l] = g[l]
        PROVE  Differ(f, g, k)
    <2>1. k \in Nat \ {0} /\ k <= Len(f) + 1 /\ k <= Len(g)
      BY <1>0, <1>1
    <2> QED
      BY <1>3, <2>1 DEF Differ
  <1>4. ASSUME NEW k \in Nat, Differ(f, g, k) PROVE Before(f, g)
    <2>1. /\ k \in Nat \ {0} /\ k <= Len(f) + 1 /\ k <= Len(g)
          /\ \A l \in 1 .. k - 1 : f[l] = g[l]
          /\ k = Len(f) + 1 \/ f[k] < g[k]
      BY <1>4 DEF Differ
    <2>2. CASE k = Len(f) + 1
      <3>1. Len(f) < Len(g) /\ Len(f) <= Len(g) /\ \A l \in 1 .. Len(f) : f[l] = g[l]
        BY <1>0, <2>1, <2>2
      <3>2. IsPrefix(f, g)
        BY <3>1, PrefixByPlaces
      <3> QED
        BY <3>1, <3>2 DEF Before
    <2>3. CASE k # Len(f) + 1
      <3>1. k \in 1 .. Min({Len(f), Len(g)})
        BY <1>0, <1>1, <2>1, <2>3
      <3>2. f[k] < g[k]
        BY <2>1, <2>3
      <3> QED
        BY <2>1, <3>1, <3>2 DEF Before
    <2> QED
      BY <2>2, <2>3
  <1>5. ASSUME Before(f, g) PROVE \E k \in Nat : Differ(f, g, k)
    <2>1. CASE Len(f) < Len(g) /\ IsPrefix(f, g)
      <3>1. Differ(f, g, Len(f) + 1) /\ Len(f) + 1 \in Nat
        BY <1>0, <1>2, <2>1
      <3> QED
        BY <3>1
    <2>2. CASE \E k \in 1 .. Min({Len(f), Len(g)}) : f[k] < g[k] /\ \A l \in 1 .. k - 1 : f[l] = g[l]
      <3>1. PICK k \in 1 .. Min({Len(f), Len(g)}) : f[k] < g[k] /\ \A l \in 1 .. k - 1 : f[l] = g[l]
        BY <2>2
      <3>2. Differ(f, g, k)
        BY <1>3, <3>1
      <3>3. k \in Nat
        BY <1>0, <1>1
      <3> QED
        BY <3>2, <3>3
    <2> QED
      BY <1>5, <2>1, <2>2 DEF Before
  <1> QED
    BY <1>4, <1>5

\* Nothing is before itself, what is before something is before all that comes behind
\* that, and of two different fingerprints one is before the other.
LEMMA BeforeOrder ==
  ASSUME NEW f \in Seq(Nat), NEW g \in Seq(Nat), NEW h \in Seq(Nat)
  PROVE  /\ ~Before(f, f)
         /\ Before(f, g) /\ Before(g, h) => Before(f, h)
         /\ f # g => Before(f, g) \/ Before(g, f)
  <1>0. Len(f) \in Nat /\ Len(g) \in Nat /\ Len(h) \in Nat
    BY SeqFacts
  <1>1. ~Before(f, f)
    <2>1. SUFFICES ASSUME NEW k \in Nat, Differ(f, f, k) PROVE FALSE
      BY BeforeAt
    <2>2. k \in 1 .. Len(f) /\ (k = Len(f) + 1 \/ f[k] < f[k])
      BY <1>0, <2>1 DEF Differ
    <2>3. f[k] \in Nat
      BY <2>2, SeqFacts
    <2> QED
      BY <1>0, <2>2, <2>3
  <1>2. ASSUME Before(f, g), Before(g, h) PROVE Before(f, h)
    <2>1. PICK i \in Nat : Differ(f, g, i)
      BY <1>2, BeforeAt
    <2>2. PICK j \in Nat : Differ(g, h, j)
      BY <1>2, BeforeAt
    <2>3. /\ i \in Nat \ {0} /\ i <= Len(f) + 1 /\ i <= Len(g)
          /\ \A l \in 1 .. i - 1 : f[l] = g[l]
          /\ i = Len(f) + 1 \/ f[i] < g[i]
      BY <2>1 DEF Differ
    <2>4. /\ j \in Nat \ {0} /\ j <= Len(g) + 1 /\ j <= Len(h)
          /\ \A l \in 1 .. j - 1 : g[l] = h[l]
          /\ j = Len(g) + 1 \/ g[j] < h[j]
      BY <2>2 DEF Differ
    <2>5. CASE i <= j
      <3>1. i <= Len(h) /\ \A l \in 1 .. i - 1 : l \in 1 .. j - 1
        BY <1>0, <2>3, <2>4, <2>5
      <3>2. \A l \in 1 .. i - 1 : f[l] = h[l]
        BY <2>3, <2>4, <3>1
      <3>3. i = Len(f) + 1 \/ f[i] < h[i]
        <4>1. CASE i < j
          <5>1. i \in 1 .. j - 1
            BY <2>3, <2>4, <4>1
          <5> QED
            BY <2>3, <2>4, <5>1
        <4>2. CASE i = j
          <5>1. SUFFICES ASSUME i # Len(f) + 1 PROVE f[i] < h[i]
            OBVIOUS
          <5>2. f[i] < g[i] /\ g[i] < h[i]
            BY <1>0, <2>3, <2>4, <4>2, <5>1
          <5>3. i \in 1 .. Len(f) /\ i \in 1 .. Len(g) /\ i \in 1 .. Len(h)
            <6>1. i \in Nat \ {0} /\ i <= Len(f) + 1 /\ i <= Len(g) /\ i <= Len(h) /\ i # Len(f) + 1
              BY <2>3, <3>1, <5>1
            <6> DEFINE lf == Len(f)
                       lg == Len(g)
                       lh == Len(h)
            <6>2. /\ lf \in Nat /\ lg \in Nat /\ lh \in Nat
                  /\ i \in Nat \ {0} /\ i <= lf + 1 /\ i <= lg /\ i <= lh /\ i # lf + 1
              BY <1>0, <6>1
            <6> HIDE DEF lf, lg, lh
            <6>3. i \in 1 .. lf /\ i \in 1 .. lg /\ i \in 1 .. lh
              BY <6>2
            <6> QED
              BY <6>3 DEF lf, lg, lh
          <5>4. f[i] \in Nat /\ g[i] \in Nat /\ h[i] \in Nat
            BY <5>3, SeqFacts
          <5> QED
            BY <5>2, <5>4
        <4> QED
          BY <2>3, <2>4, <2>5, <4>1, <4>2
      <3>4. Differ(f, h, i)
        BY <2>3, <3>1, <3>2, <3>3 DEF Differ
      <3> QED
        BY <3>4, BeforeAt
    <2>6. CASE j < i
      <3>1. j <= Len(f) + 1 /\ j # Len(g) + 1 /\ j \in 1 .. i - 1 /\ \A l \in 1 .. j - 1 : l \in 1 .. i - 1
        BY <1>0, <2>3, <2>4, <2>6
      <3>2. \A l \in 1 .. j - 1 : f[l] = h[l]
        BY <2>3, <2>4, <3>1
      <3>3. f[j] < h[j]
        BY <2>3, <2>4, <3>1
      <3>4. Differ(f, h, j)
        BY <2>4, <3>1, <3>2, <3>3 DEF Differ
      <3> QED
        BY <3>4, BeforeAt
    <2> QED
      BY <2>3, <2>4, <2>5, <2>6
  <1>3. ASSUME f # g PROVE Before(f, g) \/ Before(g, f)
    <2> DEFINE T == {k \in Nat \ {0} : k <= Len(f) /\ k <= Len(g) /\ f[k] # g[k]}
    <2>1. CASE T = {}
      <3>1. ASSUME NEW k \in 1 .. Len(f), k <= Len(g) PROVE f[k] = g[k]
        <4>1. k \in Nat \ {0} /\ k <= Len(f)
          BY <1>0
        <4>2. k \notin T
          BY <2>1
        <4> QED
          BY <3>1, <4>1, <4>2
      <3>2. CASE Len(f) = Len(g)
        BY <1>0, <1>3, <3>1, <3>2, SeqEqual
      <3>3. CASE Len(f) < Len(g)
        <4>1. Differ(f, g, Len(f) + 1)
          BY <1>0, <3>1, <3>3 DEF Differ
        <4> QED
          BY <1>0, <4>1, BeforeAt
      <3>4. CASE Len(g) < Len(f)
        <4>1. Differ(g, f, Len(g) + 1)
          BY <1>0, <3>1, <3>4 DEF Differ
        <4> QED
          BY <1>0, <4>1, BeforeAt
      <3> QED
        BY <1>0, <3>2, <3>3, <3>4
    <2>2. CASE T # {}
      <3>1. PICK k \in T : \A l \in T : k <= l
        <4>1. T \in SUBSET Nat
          OBVIOUS
        <4> HIDE DEF T
        <4> QED
          BY <2>2, <4>1, FirstPlace
      <3>2. k \in Nat \ {0} /\ k <= Len(f) /\ k <= Len(g) /\ f[k] # g[k]
        OBVIOUS
      <3>3. \A l \in 1 .. k - 1 : f[l] = g[l]
        <4>1. ASSUME NEW l \in 1 .. k - 1 PROVE f[l] = g[l]
          <5>1. l \in Nat \ {0} /\ l <= Len(f) /\ l <= Len(g) /\ ~(k <= l)
            BY <1>0, <3>2
          <5>2. l \notin T
            BY <3>1, <5>1
          <5> QED
            BY <5>1, <5>2
        <4> QED
          BY <4>1
      <3>4. f[k] \in Nat /\ g[k] \in Nat
        <4>1. k \in 1 .. Len(f) /\ k \in 1 .. Len(g)
          BY <1>0, <3>2
        <4> QED
          BY <4>1, SeqFacts
      <3> HIDE DEF T
      <3>5. CASE f[k] < g[k]
        <4>1. Differ(f, g, k)
          BY <1>0, <3>2, <3>3, <3>5 DEF Differ
        <4> QED
          BY <3>2, <4>1, BeforeAt
      <3>6. CASE g[k] < f[k]
        <4>1. Differ(g, f, k)
          BY <1>0, <3>2, <3>3, <3>6 DEF Differ
        <4> QED
          BY <3>2, <4>1, BeforeAt
      <3> QED
        BY <3>2, <3>4, <3>5, <3>6
    <2> QED
      BY <2>1, <2>2
  <1> QED
    BY <1>1, <1>2, <1>3

\* What the threads hand on: a start, an end, or a chunk; a mark has no fingerprint.
Items ==
  {c \in [mark : {"start", "end", "chunk"}, data : Seq(Nat), fp : Seq(Nat), size : Nat] :
     IsMark(c) => c.fp = ZeroFp}

\* Place i comes before place j: its fingerprint is smaller, or it was there first.
Sooner(normal, i, j) ==
  Before(normal[i].fp, normal[j].fp) \/ (normal[i].fp = normal[j].fp /\ i < j)

\* That is an order of the places.
LEMMA SoonerOrder ==
  ASSUME NEW normal \in Seq(Items), NEW i \in 1 .. Len(normal), NEW j \in 1 .. Len(normal),
         NEW k \in 1 .. Len(normal)
  PROVE  /\ ~Sooner(normal, i, i)
         /\ Sooner(normal, i, j) /\ Sooner(normal, j, k) => Sooner(normal, i, k)
         /\ i # j => Sooner(normal, i, j) \/ Sooner(normal, j, i)
         /\ i < j => (Sooner(normal, i, j) <=> ~Before(normal[j].fp, normal[i].fp))
  <1>1. Len(normal) \in Nat
    BY SeqFacts
  <1> DEFINE f == normal[i].fp
             g == normal[j].fp
             h == normal[k].fp
  <1>2. f \in Seq(Nat) /\ g \in Seq(Nat) /\ h \in Seq(Nat)
    <2>1. normal[i] \in Items /\ normal[j] \in Items /\ normal[k] \in Items
      BY SeqFacts
    <2> QED
      BY <2>1 DEF Items
  <1>3. /\ Sooner(normal, i, i) <=> Before(f, f) \/ (f = f /\ i < i)
        /\ Sooner(normal, i, j) <=> Before(f, g) \/ (f = g /\ i < j)
        /\ Sooner(normal, j, i) <=> Before(g, f) \/ (g = f /\ j < i)
        /\ Sooner(normal, j, k) <=> Before(g, h) \/ (g = h /\ j < k)
        /\ Sooner(normal, i, k) <=> Before(f, h) \/ (f = h /\ i < k)
    BY Zenon DEF Sooner
  <1>4. i \in Nat /\ j \in Nat /\ k \in Nat
    BY <1>1
  <1> HIDE DEF f, g, h
  <1>5. /\ ~Before(f, f) /\ ~Before(g, g)
        /\ Before(f, g) /\ Before(g, h) => Before(f, h)
        /\ f # g => Before(f, g) \/ Before(g, f)
        /\ ~(Before(f, g) /\ Before(g, f))
    <2>1. ~Before(f, f) /\ ~Before(g, g)
      BY <1>2, BeforeOrder
    <2>2. Before(f, g) /\ Before(g, h) => Before(f, h)
      BY <1>2, BeforeOrder
    <2>3. f # g => Before(f, g) \/ Before(g, f)
      BY <1>2, BeforeOrder
    <2>4. Before(f, g) /\ Before(g, f) => Before(f, f)
      BY <1>2, BeforeOrder
    <2> QED
      BY <2>1, <2>2, <2>3, <2>4
  <1>6. i < j => (Sooner(normal, i, j) <=> ~Before(g, f))
    BY <1>3, <1>4, <1>5
  <1>7. ~Sooner(normal, i, i) /\ (i # j => Sooner(normal, i, j) \/ Sooner(normal, j, i))
    BY <1>3, <1>4, <1>5
  <1>8. ASSUME Sooner(normal, i, j), Sooner(normal, j, k) PROVE Sooner(normal, i, k)
    BY <1>3, <1>4, <1>5, <1>8
  <1> QED
    BY <1>6, <1>7, <1>8 DEF f, g

\* What InsertAt returns.
LEMMA InsertFacts ==
  ASSUME NEW S, NEW q \in Seq(S), NEW n \in 1 .. Len(q) + 1, NEW x \in S
  PROVE  /\ InsertAt(q, n, x) \in Seq(S) /\ Len(InsertAt(q, n, x)) = Len(q) + 1
         /\ InsertAt(q, n, x)[n] = x
         /\ \A i \in 1 .. n - 1 : InsertAt(q, n, x)[i] = q[i]
         /\ \A i \in n + 1 .. Len(q) + 1 : InsertAt(q, n, x)[i] = q[i - 1]
  <1>0. Len(q) \in Nat /\ n - 1 \in 0 .. Len(q) /\ (n - 1) + 1 = n
    BY SeqFacts
  <1> DEFINE m == n - 1
             a == SubSeq(q, 1, m)
             b == SubSeq(q, m + 1, Len(q))
             o == <<x>>
             h == a \o o
             w == h \o b
  <1>1. /\ a \in Seq(S) /\ Len(a) = m /\ \A i \in 1 .. m : a[i] = q[i]
        /\ b \in Seq(S) /\ Len(b) = Len(q) - m /\ \A i \in 1 .. Len(q) - m : b[i] = q[m + i]
    <2>1. m \in 0 .. Len(q)
      BY <1>0
    <2> HIDE DEF m
    <2> QED
      BY <2>1, SubSeqFacts
  <1>2. o \in Seq(S) /\ Len(o) = 1 /\ o[1] = x
    OBVIOUS
  <1>3. InsertAt(q, n, x) = w
    BY <1>0 DEF InsertAt
  <1>4. m \in 0 .. Len(q) /\ n = m + 1 /\ m \in Nat
    BY <1>0
  <1> HIDE DEF a, b, o, m
  <1>5. /\ h \in Seq(S) /\ Len(h) = m + 1
        /\ \A i \in 1 .. m + 1 : h[i] = IF i <= m THEN a[i] ELSE o[i - m]
    <2>1. /\ h \in Seq(S) /\ Len(h) = Len(a) + Len(o)
          /\ \A i \in 1 .. Len(a) + Len(o) : h[i] = IF i <= Len(a) THEN a[i] ELSE o[i - Len(a)]
      BY <1>1, <1>2, ConcatProperties
    <2> HIDE DEF h
    <2> QED
      BY <1>1, <1>2, <2>1
  <1> HIDE DEF h
  <1>6. /\ w \in Seq(S) /\ Len(w) = Len(h) + Len(b)
        /\ \A i \in 1 .. Len(h) + Len(b) : w[i] = IF i <= Len(h) THEN h[i] ELSE b[i - Len(h)]
    BY <1>1, <1>5, ConcatProperties
  <1> HIDE DEF w
  <1>7. Len(h) + Len(b) = Len(q) + 1 /\ Len(h) = n
    BY <1>0, <1>1, <1>4, <1>5
  <1>8. w[n] = x
    <2>1. n \in 1 .. Len(q) + 1 /\ n <= n /\ n \in 1 .. m + 1 /\ ~(n <= m) /\ n - m = 1
      BY <1>0, <1>4
    <2> QED
      BY <1>2, <1>5, <1>6, <1>7, <2>1
  <1>9. ASSUME NEW i \in 1 .. n - 1 PROVE w[i] = q[i]
    <2>1. i \in 1 .. Len(q) + 1 /\ i <= n /\ i \in 1 .. m + 1 /\ i <= m /\ i \in 1 .. m
      BY <1>0, <1>4
    <2> QED
      BY <1>1, <1>5, <1>6, <1>7, <2>1
  <1>10. ASSUME NEW i \in n + 1 .. Len(q) + 1 PROVE w[i] = q[i - 1]
    <2>1. i \in 1 .. Len(q) + 1 /\ ~(i <= n) /\ i - n \in 1 .. Len(q) - m /\ m + (i - n) = i - 1
      BY <1>0, <1>4
    <2> QED
      BY <1>1, <1>6, <1>7, <2>1
  <1> QED
    BY <1>3, <1>6, <1>7, <1>8, <1>9, <1>10

-----------------------------------------------------------------------------
(* The smallest of the chunks.                                             *)

\* The entries after the first k chunks: the soonest of them, in order, and as many
\* as there may be.
Lowest(normal, entries, k, limit) ==
  /\ entries \in Seq(1 .. k)
  /\ Len(entries) = IF k <= limit THEN k ELSE limit
  /\ \A a, b \in 1 .. Len(entries) : a < b => Sooner(normal, entries[a], entries[b])
  /\ \A j \in 1 .. k :
       (\A a \in 1 .. Len(entries) : entries[a] # j) =>
         Len(entries) = limit /\ Sooner(normal, entries[Len(entries)], j)

\* How many entries the next chunk is inserted behind: those that are sooner.
LEMMA PlaceOfNext ==
  ASSUME NEW normal \in Seq(Items), NEW k \in 1 .. Len(normal), NEW limit \in Nat \ {0},
         NEW entries, Lowest(normal, entries, k - 1, limit),
         NEW place, place = Cardinality({i \in DOMAIN entries : ~Before(normal[k].fp, normal[entries[i]].fp)})
  PROVE  /\ place \in 0 .. Len(entries)
         /\ \A i \in 1 .. Len(entries) : i <= place <=> Sooner(normal, entries[i], k)
  <1>1. /\ entries \in Seq(1 .. k - 1) /\ Len(entries) \in Nat /\ DOMAIN entries = 1 .. Len(entries)
        /\ \A a, b \in 1 .. Len(entries) : a < b => Sooner(normal, entries[a], entries[b])
    BY SeqFacts DEF Lowest
  <1>2. /\ Len(normal) \in Nat /\ k \in Nat \ {0} /\ k <= Len(normal)
        /\ \A i \in 1 .. Len(entries) : entries[i] \in 1 .. Len(normal) /\ entries[i] < k
    <2>1. Len(normal) \in Nat /\ k \in Nat \ {0} /\ k <= Len(normal)
      BY SeqFacts
    <2>2. \A i \in 1 .. Len(entries) : entries[i] \in 1 .. k - 1
      BY <1>1, SeqFacts
    <2> QED
      BY <2>1, <2>2
  <1> DEFINE P == {i \in 1 .. Len(entries) : Sooner(normal, entries[i], k)}
  <1>3. {i \in DOMAIN entries : ~Before(normal[k].fp, normal[entries[i]].fp)} = P
    <2>1. \A i \in 1 .. Len(entries) :
            Sooner(normal, entries[i], k) <=> ~Before(normal[k].fp, normal[entries[i]].fp)
      BY <1>2, SoonerOrder
    <2> QED
      BY <1>1, <2>1
  <1>4. ASSUME NEW i \in P, NEW j \in 1 .. i PROVE j \in P
    <2>1. i \in 1 .. Len(entries) /\ j \in 1 .. Len(entries) /\ Sooner(normal, entries[i], k)
      BY <1>1
    <2>2. CASE j = i
      BY <2>2
    <2>3. CASE j # i
      <3>1. j < i
        BY <1>1, <2>1, <2>3
      <3>2. Sooner(normal, entries[j], entries[i])
        BY <1>1, <2>1, <3>1
      <3>3. Sooner(normal, entries[j], k)
        BY <1>2, <2>1, <3>2, SoonerOrder
      <3> QED
        BY <2>1, <3>3
    <2> QED
      BY <2>2, <2>3
  <1>5. \E m \in 0 .. Len(entries) : P = 1 .. m
    <2>1. P \in SUBSET (0 .. Len(entries)) /\ \A i \in P : i \in 1 .. Len(entries)
      BY <1>1
    <2> HIDE DEF P
    <2>2. CASE P = {}
      <3>1. P = 1 .. 0 /\ 0 \in 0 .. Len(entries)
        BY <1>1, <2>2
      <3> QED
        BY <3>1
    <2>3. CASE P # {}
      <3>1. PICK m \in P : \A j \in P : j <= m
        BY <1>1, <2>1, <2>3, LastPlace
      <3>2. m \in 1 .. Len(entries)
        BY <2>1
      <3>3. P \subseteq 1 .. m
        BY <1>1, <2>1, <3>1, <3>2
      <3>4. 1 .. m \subseteq P
        BY <1>4
      <3>5. P = 1 .. m
        BY <3>3, <3>4
      <3>6. m \in 0 .. Len(entries)
        BY <1>1, <3>2
      <3> QED
        BY <3>5, <3>6
    <2> QED
      BY <2>2, <2>3
  <1>6. PICK m \in 0 .. Len(entries) : P = 1 .. m
    BY <1>5
  <1>7. Cardinality(1 .. m) = m
    <2>1. 1 \in Int /\ m \in Int
      BY <1>1
    <2>2. Cardinality(1 .. m) = IF 1 > m THEN 0 ELSE m - 1 + 1
      BY <2>1, FS_Interval
    <2> QED
      BY <1>1, <2>2
  <1>8. place = m
    BY <1>3, <1>6, <1>7
  <1>9. \A i \in 1 .. Len(entries) : i \in P <=> i <= m
    <2> HIDE DEF P
    <2> QED
      BY <1>1, <1>6
  <1> QED
    BY <1>8, <1>9

\* One more chunk.
LEMMA KeptLowest ==
  ASSUME NEW normal \in Seq(Items), NEW k \in 1 .. Len(normal), NEW limit \in Nat \ {0},
         NEW entries, Lowest(normal, entries, k - 1, limit)
  PROVE  Lowest(normal, Kept(normal, entries, k, limit), k, limit)
  <1>1. /\ entries \in Seq(1 .. k - 1)
        /\ Len(entries) = IF k - 1 <= limit THEN k - 1 ELSE limit
        /\ \A a, b \in 1 .. Len(entries) : a < b => Sooner(normal, entries[a], entries[b])
        /\ \A j \in 1 .. k - 1 :
             (\A a \in 1 .. Len(entries) : entries[a] # j) =>
               Len(entries) = limit /\ Sooner(normal, entries[Len(entries)], j)
    BY DEF Lowest
  <1>2. /\ Len(normal) \in Nat /\ k \in Nat \ {0} /\ k <= Len(normal) /\ Len(entries) \in Nat
        /\ Len(entries) <= limit /\ Len(entries) <= k - 1
    <2>1. Len(normal) \in Nat /\ k \in Nat \ {0} /\ k <= Len(normal)
      BY SeqFacts
    <2> QED
      BY <1>1, <2>1
  <1>3. \A i \in 1 .. Len(entries) : entries[i] \in 1 .. Len(normal) /\ entries[i] < k /\ entries[i] \in 1 .. k
    <2>2. \A i \in 1 .. Len(entries) : entries[i] \in 1 .. k - 1
      BY <1>1, SeqFacts
    <2> QED
      BY <1>2, <2>2
  <1>4. entries \in Seq(1 .. k)
    BY <1>1, <1>3, SeqOfSubset
  <1> DEFINE full == Len(entries) >= limit /\ ~Before(normal[k].fp, normal[Last(entries)].fp)
  <1>5. CASE full
    <2>1. Kept(normal, entries, k, limit) = entries
      BY <1>5, Zenon DEF Kept
    <2>2. Len(entries) = limit /\ Len(entries) \in 1 .. Len(entries) /\ ~(k <= limit)
      BY <1>2, <1>5
    <2>3. Sooner(normal, entries[Len(entries)], k)
      <3> DEFINE e == entries[Len(entries)]
      <3>1. e \in 1 .. Len(normal) /\ e < k /\ ~Before(normal[k].fp, normal[e].fp)
        BY <1>3, <1>5, <2>2 DEF Last
      <3> HIDE DEF e
      <3>2. Sooner(normal, e, k)
        BY <1>2, <3>1, SoonerOrder
      <3> QED
        BY <3>2 DEF e
    <2>4. ASSUME NEW j \in 1 .. k, \A a \in 1 .. Len(entries) : entries[a] # j
          PROVE  Len(entries) = limit /\ Sooner(normal, entries[Len(entries)], j)
      <3>1. CASE j = k
        BY <2>2, <2>3, <3>1
      <3>2. CASE j # k
        <4>1. j \in 1 .. k - 1
          BY <1>2, <3>2
        <4> QED
          BY <1>1, <2>4, <4>1
      <3> QED
        BY <3>1, <3>2
    <2>5. Len(entries) = IF k <= limit THEN k ELSE limit
      BY <2>2
    <2> QED
      BY <1>1, <1>4, <2>1, <2>4, <2>5 DEF Lowest
  <1>6. CASE ~full
    <2> DEFINE place == Cardinality({i \in DOMAIN entries : ~Before(normal[k].fp, normal[entries[i]].fp)})
               more == InsertAt(entries, place + 1, k)
    <2>1. Kept(normal, entries, k, limit) = IF Len(more) > limit THEN Front(more) ELSE more
      BY <1>6, Zenon DEF Kept
    <2>2. /\ place \in 0 .. Len(entries)
          /\ \A i \in 1 .. Len(entries) : i <= place <=> Sooner(normal, entries[i], k)
      BY PlaceOfNext
    <2>3. /\ more \in Seq(1 .. k) /\ Len(more) = Len(entries) + 1 /\ more[place + 1] = k
          /\ \A i \in 1 .. place : more[i] = entries[i]
          /\ \A i \in place + 2 .. Len(entries) + 1 : more[i] = entries[i - 1]
      <3> DEFINE n == place + 1
      <3>1. n \in 1 .. Len(entries) + 1 /\ k \in 1 .. k /\ n - 1 = place /\ n + 1 = place + 2
        BY <1>2, <2>2
      <3> HIDE DEF n
      <3>2. /\ InsertAt(entries, n, k) \in Seq(1 .. k) /\ Len(InsertAt(entries, n, k)) = Len(entries) + 1
            /\ InsertAt(entries, n, k)[n] = k
            /\ \A i \in 1 .. n - 1 : InsertAt(entries, n, k)[i] = entries[i]
            /\ \A i \in n + 1 .. Len(entries) + 1 : InsertAt(entries, n, k)[i] = entries[i - 1]
        <4> DEFINE P == 1 .. k
        <4>1. entries \in Seq(P) /\ k \in P
          BY <1>4, <3>1
        <4> HIDE DEF P
        <4>2. /\ InsertAt(entries, n, k) \in Seq(P) /\ Len(InsertAt(entries, n, k)) = Len(entries) + 1
              /\ InsertAt(entries, n, k)[n] = k
              /\ \A i \in 1 .. n - 1 : InsertAt(entries, n, k)[i] = entries[i]
              /\ \A i \in n + 1 .. Len(entries) + 1 : InsertAt(entries, n, k)[i] = entries[i - 1]
          BY <3>1, <4>1, InsertFacts
        <4> QED
          BY <4>2 DEF P
      <3>3. more = InsertAt(entries, n, k)
        BY DEF n
      <3> HIDE DEF more
      <3>4. n = place + 1
        BY DEF n
      <3> HIDE DEF place
      <3> QED
        BY <3>1, <3>2, <3>3, <3>4
    <2> HIDE DEF place, more
    <2>4. ASSUME NEW a \in 1 .. Len(more), NEW b \in 1 .. Len(more), a < b
          PROVE  Sooner(normal, more[a], more[b])
      <3>0. a \in 1 .. Len(entries) + 1 /\ b \in 1 .. Len(entries) + 1
        BY <2>3
      <3>1. CASE b <= place
        <4>1. a \in 1 .. place /\ b \in 1 .. place /\ a \in 1 .. Len(entries) /\ b \in 1 .. Len(entries)
          BY <1>2, <2>2, <2>4, <3>0, <3>1
        <4> QED
          BY <1>1, <2>3, <2>4, <4>1
      <3>2. CASE b = place + 1
        <4>1. a \in 1 .. place /\ a <= place /\ a \in 1 .. Len(entries)
          BY <1>2, <2>2, <2>4, <3>0, <3>2
        <4>2. more[a] = entries[a] /\ more[b] = k
          BY <2>3, <3>2, <4>1
        <4> QED
          BY <2>2, <4>1, <4>2
      <3>3. CASE b > place + 1
        <4>1. /\ b \in place + 2 .. Len(entries) + 1 /\ b - 1 \in 1 .. Len(entries) /\ ~(b - 1 <= place)
          BY <1>2, <2>2, <3>0, <3>3
        <4>2. more[b] = entries[b - 1]
          BY <2>3, <4>1
        <4>3. CASE a <= place
          <5>1. a \in 1 .. place /\ a \in 1 .. Len(entries) /\ a < b - 1
            BY <1>2, <2>2, <3>0, <3>3, <4>3
          <5>2. Sooner(normal, entries[a], entries[b - 1])
            BY <1>1, <4>1, <5>1
          <5> QED
            BY <2>3, <4>2, <5>1, <5>2
        <4>4. CASE a = place + 1
          <5>1. more[a] = k
            BY <2>3, <4>4
          <5>2. ~Sooner(normal, entries[b - 1], k)
            BY <2>2, <4>1
          <5>3. entries[b - 1] \in 1 .. Len(normal) /\ entries[b - 1] # k
            BY <1>2, <1>3, <4>1
          <5>4. Sooner(normal, k, entries[b - 1])
            BY <5>2, <5>3, SoonerOrder
          <5> QED
            BY <4>2, <5>1, <5>4
        <4>5. CASE a > place + 1
          <5>1. a \in place + 2 .. Len(entries) + 1 /\ a - 1 \in 1 .. Len(entries) /\ a - 1 < b - 1
            BY <1>2, <2>2, <2>4, <3>0, <4>5
          <5>2. Sooner(normal, entries[a - 1], entries[b - 1])
            BY <1>1, <4>1, <5>1
          <5> QED
            BY <2>3, <4>2, <5>1, <5>2
        <4> QED
          BY <2>2, <3>0, <4>3, <4>4, <4>5
      <3> QED
        BY <2>2, <3>0, <3>1, <3>2, <3>3
    <2>5. ASSUME NEW j \in 1 .. k, \A a \in 1 .. Len(more) : more[a] # j
          PROVE  j \in 1 .. k - 1 /\ \A a \in 1 .. Len(entries) : entries[a] # j
      <3>1. j # k
        <4>1. place + 1 \in 1 .. Len(more)
          BY <1>2, <2>2, <2>3
        <4> QED
          BY <2>3, <2>5, <4>1
      <3>2. ASSUME NEW a \in 1 .. Len(entries) PROVE entries[a] # j
        <4>1. CASE a <= place
          <5>1. a \in 1 .. place /\ a \in 1 .. Len(more)
            BY <1>2, <2>2, <2>3, <4>1
          <5> QED
            BY <2>3, <2>5, <5>1
        <4>2. CASE a > place
          <5>1. a + 1 \in place + 2 .. Len(entries) + 1 /\ a + 1 \in 1 .. Len(more) /\ (a + 1) - 1 = a
            BY <1>2, <2>2, <2>3, <4>2
          <5> QED
            BY <2>3, <2>5, <5>1
        <4> QED
          BY <1>2, <2>2, <4>1, <4>2
      <3> QED
        BY <1>2, <3>1, <3>2
    <2>6. CASE Len(more) <= limit
      <3>1. Kept(normal, entries, k, limit) = more
        BY <1>2, <2>1, <2>3, <2>6
      <3>2. Len(entries) # limit /\ Len(more) = IF k <= limit THEN k ELSE limit
        BY <1>1, <1>2, <2>3, <2>6
      <3>3. ASSUME NEW j \in 1 .. k, \A a \in 1 .. Len(more) : more[a] # j PROVE FALSE
        BY <1>1, <2>5, <3>2, <3>3
      <3> QED
        BY <2>3, <2>4, <3>1, <3>2, <3>3 DEF Lowest
    <2>7. CASE Len(more) > limit
      <3> DEFINE front == SubSeq(more, 1, Len(entries))
      <3>0. Len(entries) = limit /\ k - 1 >= limit /\ limit \in 1 .. Len(entries)
        BY <1>1, <1>2, <2>3, <2>7
      <3>1. Kept(normal, entries, k, limit) = front
        <4>1. Len(more) - 1 = Len(entries)
          BY <1>2, <2>3
        <4> QED
          BY <2>1, <2>7, <4>1 DEF Front
      <3>2. /\ front \in Seq(1 .. k) /\ Len(front) = limit
            /\ \A i \in 1 .. limit : front[i] = more[i]
        <4>1. Len(entries) \in 0 .. Len(more)
          BY <1>2, <2>3
        <4> QED
          BY <2>3, <3>0, <4>1, SubSeqFacts
      <3> HIDE DEF front
      <3>3. place < limit /\ more[limit + 1] = entries[limit]
        <4>1. Before(normal[k].fp, normal[entries[limit]].fp)
          BY <1>2, <1>6, <3>0 DEF Last
        <4>2. entries[limit] \in 1 .. Len(normal) /\ entries[limit] < k
          BY <1>3, <3>0
        <4>3. ~Sooner(normal, entries[limit], k)
          BY <4>1, <4>2, SoonerOrder
        <4>4. ~(limit <= place)
          BY <2>2, <3>0, <4>3
        <4>5. place < limit
          BY <1>2, <2>2, <4>4
        <4>6. limit + 1 \in place + 2 .. Len(entries) + 1 /\ (limit + 1) - 1 = limit
          BY <1>2, <2>2, <3>0, <4>5
        <4> QED
          BY <2>3, <4>5, <4>6
      <3>4. \A i \in 1 .. limit : i \in 1 .. Len(more)
        BY <2>3, <3>0
      <3>5. Sooner(normal, front[limit], entries[limit])
        <4>1. limit \in 1 .. Len(more) /\ limit + 1 \in 1 .. Len(more) /\ limit < limit + 1 /\ limit \in 1 .. limit
          BY <2>3, <3>0
        <4>2. Sooner(normal, more[limit], more[limit + 1])
          BY <2>4, <4>1
        <4> QED
          BY <3>2, <3>3, <4>1, <4>2
      <3>6. ASSUME NEW j \in 1 .. k, \A a \in 1 .. Len(front) : front[a] # j
            PROVE  Len(front) = limit /\ Sooner(normal, front[Len(front)], j)
        <4>1. CASE j = entries[limit]
          BY <3>2, <3>5, <4>1
        <4>2. CASE j # entries[limit]
          <5>1. ASSUME NEW a \in 1 .. Len(more) PROVE more[a] # j
            <6>1. CASE a = limit + 1
              BY <3>3, <4>2, <6>1
            <6>2. CASE a # limit + 1
              <7>1. a \in 1 .. limit /\ a \in 1 .. Len(front)
                BY <2>3, <3>0, <3>2, <6>2
              <7> QED
                BY <3>2, <3>6, <7>1
            <6> QED
              BY <6>1, <6>2
          <5>2. j \in 1 .. k - 1 /\ \A a \in 1 .. Len(entries) : entries[a] # j
            BY <2>5, <5>1
          <5>3. Sooner(normal, entries[limit], j)
            BY <1>1, <3>0, <5>2
          <5>4. front[limit] \in 1 .. Len(normal) /\ entries[limit] \in 1 .. Len(normal) /\ j \in 1 .. Len(normal)
            <6>1. limit \in 1 .. Len(front)
              BY <3>2
            <6>2. front[limit] \in 1 .. k
              BY <3>2, <6>1, SeqFacts
            <6> QED
              BY <1>2, <1>3, <3>0, <6>2
          <5>5. Sooner(normal, front[limit], j)
            BY <3>5, <5>3, <5>4, SoonerOrder
          <5> QED
            BY <3>2, <5>5
        <4> QED
          BY <4>1, <4>2
      <3>7. ASSUME NEW a \in 1 .. Len(front), NEW b \in 1 .. Len(front), a < b
            PROVE  Sooner(normal, front[a], front[b])
        BY <2>4, <3>2, <3>4, <3>7
      <3>8. Len(front) = IF k <= limit THEN k ELSE limit
        BY <1>2, <3>0, <3>2
      <3> QED
        BY <3>1, <3>2, <3>6, <3>7, <3>8 DEF Lowest
    <2> QED
      BY <1>2, <2>3, <2>6, <2>7
  <1> QED
    BY <1>5, <1>6

-----------------------------------------------------------------------------
(* The chunks of a segment without its marks.                              *)

\* The recursive function inside NormalChunks, on the marks and chunks c.
IsNormal(h, c) ==
  /\ h \in [0 .. Len(c) -> Seq(Items)]
  /\ h[0] = <<>>
  /\ \A k \in 1 .. Len(c) : h[k] = IF IsMark(c[k]) THEN h[k - 1] ELSE Append(h[k - 1], c[k])

\* There is one, and NormalChunks is its last value.
LEMMA NormalRecursion ==
  ASSUME NEW c \in Seq(Items)
  PROVE  \E h : IsNormal(h, c) /\ NormalChunks(c) = h[Len(c)]
  <1> DEFINE m == Len(c)
             S == Seq(Items)
             step == [k \in Nat |-> [u \in S |->
                        IF k \in 1 .. m /\ ~IsMark(c[k]) THEN Append(u, c[k]) ELSE u]]
  <1>1. m \in Nat /\ \A k \in 1 .. m : c[k] \in Items
    BY SeqFacts
  <1>2. ASSUME NEW u \in S, NEW k \in Nat
        PROVE  (IF k \in 1 .. m /\ ~IsMark(c[k]) THEN Append(u, c[k]) ELSE u) \in S
    <2>1. CASE k \in 1 .. m
      <3>1. Append(u, c[k]) \in S
        BY <1>1, <2>1, AppendFacts
      <3> QED
        BY <3>1
    <2>2. CASE k \notin 1 .. m
      BY <2>2
    <2> QED
      BY <2>1, <2>2
  <1> HIDE DEF S
  <1>3. step \in [Nat -> [S -> S]]
    BY <1>2
  <1>4. \A k \in Nat : \A u \in S :
          step[k][u] = IF k \in 1 .. m /\ ~IsMark(c[k]) THEN Append(u, c[k]) ELSE u
    OBVIOUS
  <1>5. <<>> \in S
    BY DEF S
  <1> HIDE DEF step, m
  <1>6. PICK e : IsUpto(e, S, <<>>, step, m)
    BY <1>1, <1>3, <1>5, RecursionUpto
  <1>7. e \in [0 .. m -> S] /\ e = [k \in 0 .. m |-> IF k = 0 THEN <<>> ELSE step[k][e[k - 1]]]
    BY <1>6 DEF IsUpto
  <1>8. e = [k \in 0 .. m |-> IF k = 0 THEN <<>>
                              ELSE IF IsMark(c[k]) THEN e[k - 1] ELSE Append(e[k - 1], c[k])]
    <2>1. ASSUME NEW k \in 0 .. m
          PROVE  e[k] = IF k = 0 THEN <<>> ELSE IF IsMark(c[k]) THEN e[k - 1] ELSE Append(e[k - 1], c[k])
      <3>1. CASE k = 0
        BY <1>7, <3>1
      <3>2. CASE k # 0
        <4>1. k - 1 \in 0 .. m /\ k \in Nat /\ k \in 1 .. m
          BY <1>1, <3>2
        <4>2. e[k - 1] \in S
          BY <1>7, <4>1
        <4>3. e[k] = step[k][e[k - 1]]
          BY <1>7, <3>2
        <4> QED
          BY <1>4, <3>2, <4>1, <4>2, <4>3
      <3> QED
        BY <3>1, <3>2
    <2> QED
      BY <1>7, <2>1
  <1>9. PICK h : /\ h = [k \in 0 .. m |-> IF k = 0 THEN <<>>
                                          ELSE IF IsMark(c[k]) THEN h[k - 1] ELSE Append(h[k - 1], c[k])]
                 /\ NormalChunks(c) = h[m]
    BY <1>8 DEF NormalChunks, m
  <1> DEFINE A == {k \in Nat : k <= m => h[k] \in S}
  <1>10. 0 \in A
    <2>1. h[0] = <<>>
      BY <1>1, <1>9
    <2> QED
      BY <1>5, <2>1
  <1>11. ASSUME NEW k \in A PROVE k + 1 \in A
    <2>1. SUFFICES ASSUME k + 1 <= m PROVE h[k + 1] \in S
      OBVIOUS
    <2>2. k \in Nat /\ k <= m /\ k + 1 \in 1 .. m /\ k + 1 \in 0 .. m /\ k + 1 # 0 /\ (k + 1) - 1 = k
      BY <1>1, <2>1
    <2>3. h[k] \in S /\ h[k + 1] = IF IsMark(c[k + 1]) THEN h[k] ELSE Append(h[k], c[k + 1])
      BY <1>9, <2>2
    <2>4. Append(h[k], c[k + 1]) \in S
      BY <1>1, <2>2, <2>3, AppendFacts DEF S
    <2> QED
      BY <2>3, <2>4
  <1>12. \A k \in Nat : k \in A
    <2>1. A \in SUBSET Nat
      OBVIOUS
    <2> HIDE DEF A
    <2> QED
      BY <1>10, <1>11, <2>1, NumbersByInduction
  <1>13. h \in [0 .. m -> S]
    <2>1. \A k \in 0 .. m : h[k] \in S
      BY <1>1, <1>12
    <2>2. h = [k \in 0 .. m |-> h[k]]
      BY <1>9
    <2> QED
      BY <2>1, <2>2
  <1>14. h[0] = <<>> /\ \A k \in 1 .. m : h[k] = IF IsMark(c[k]) THEN h[k - 1] ELSE Append(h[k - 1], c[k])
    <2>1. 0 \in 0 .. m /\ \A k \in 1 .. m : k \in 0 .. m /\ k # 0
      BY <1>1
    <2> QED
      BY <1>9, <2>1
  <1>15. IsNormal(h, c)
    BY <1>13, <1>14 DEF IsNormal, S, m
  <1> QED
    BY <1>9, <1>15 DEF m

\* The normal chunks are the chunks that are no marks.
LEMMA NormalFacts ==
  ASSUME NEW c \in Seq(Items)
  PROVE  /\ NormalChunks(c) \in Seq(Items)
         /\ ToSet(NormalChunks(c)) = {x \in ToSet(c) : ~IsMark(x)}
  <1>1. PICK h : IsNormal(h, c) /\ NormalChunks(c) = h[Len(c)]
    BY NormalRecursion
  <1> DEFINE m == Len(c)
             In(k) == {x \in ToSet(SubSeq(c, 1, k)) : ~IsMark(x)}
             A == {k \in Nat : k <= m => ToSet(h[k]) = {c[j] : j \in {i \in 1 .. k : ~IsMark(c[i])}}}
  <1>2. /\ m \in Nat /\ \A k \in 1 .. m : c[k] \in Items
        /\ h \in [0 .. m -> Seq(Items)] /\ h[0] = <<>>
        /\ \A k \in 1 .. m : h[k] = IF IsMark(c[k]) THEN h[k - 1] ELSE Append(h[k - 1], c[k])
    BY <1>1, SeqFacts DEF IsNormal
  <1> HIDE DEF m
  <1>3. 0 \in A
    <2>1. ToSet(<<>>) = {}
      BY DEF ToSet
    <2>2. {c[j] : j \in {i \in 1 .. 0 : ~IsMark(c[i])}} = {}
      OBVIOUS
    <2> QED
      BY <1>2, <2>1, <2>2
  <1>4. ASSUME NEW k \in A PROVE k + 1 \in A
    <2>1. SUFFICES ASSUME k + 1 <= m
                   PROVE  ToSet(h[k + 1]) = {c[j] : j \in {i \in 1 .. k + 1 : ~IsMark(c[i])}}
      OBVIOUS
    <2>2. k \in Nat /\ k <= m /\ k + 1 \in 1 .. m /\ (k + 1) - 1 = k /\ k \in 0 .. m
      BY <1>2, <2>1
    <2>3. /\ ToSet(h[k]) = {c[j] : j \in {i \in 1 .. k : ~IsMark(c[i])}}
          /\ h[k] \in Seq(Items) /\ c[k + 1] \in Items
          /\ h[k + 1] = IF IsMark(c[k + 1]) THEN h[k] ELSE Append(h[k], c[k + 1])
      BY <1>2, <2>2
    <2>4. \A i \in Nat : i \in 1 .. k + 1 <=> i \in 1 .. k \/ i = k + 1
      BY <2>2
    <2>5. CASE IsMark(c[k + 1])
      <3>1. {i \in 1 .. k + 1 : ~IsMark(c[i])} = {i \in 1 .. k : ~IsMark(c[i])}
        BY <2>2, <2>4, <2>5
      <3> QED
        BY <2>3, <2>5, <3>1
    <2>6. CASE ~IsMark(c[k + 1])
      <3>1. {i \in 1 .. k + 1 : ~IsMark(c[i])} = {i \in 1 .. k : ~IsMark(c[i])} \cup {k + 1}
        BY <2>2, <2>4, <2>6
      <3>2. ToSet(Append(h[k], c[k + 1])) = ToSet(h[k]) \cup {c[k + 1]}
        BY <2>3, AppendToSet
      <3> QED
        BY <2>3, <2>6, <3>1, <3>2
    <2> QED
      BY <2>5, <2>6
  <1>5. \A k \in Nat : k \in A
    <2>1. A \in SUBSET Nat
      OBVIOUS
    <2> HIDE DEF A
    <2> QED
      BY <1>3, <1>4, <2>1, NumbersByInduction
  <1>6. ToSet(h[m]) = {c[j] : j \in {i \in 1 .. m : ~IsMark(c[i])}} /\ h[m] \in Seq(Items)
    <2>1. m \in A
      <3> HIDE DEF A
      <3> QED
        BY <1>2, <1>5
    <2>2. m <= m /\ m \in 0 .. m
      BY <1>2
    <2>3. h[m] \in Seq(Items)
      BY <1>2, <2>2
    <2> QED
      BY <2>1, <2>2, <2>3
  <1> HIDE DEF A
  <1>7. ToSet(c) = {c[i] : i \in 1 .. m}
    BY SeqFacts DEF ToSet, m
  <1>8. {c[j] : j \in {i \in 1 .. m : ~IsMark(c[i])}} = {x \in ToSet(c) : ~IsMark(x)}
    BY <1>7
  <1> QED
    BY <1>1, <1>6, <1>8 DEF m

\* NormalChunks goes on with each mark or chunk that is added.
LEMMA NormalAppend ==
  ASSUME NEW c \in Seq(Items), NEW x \in Items
  PROVE  /\ NormalChunks(<<>>) = <<>>
         /\ NormalChunks(Append(c, x)) = IF IsMark(x) THEN NormalChunks(c) ELSE Append(NormalChunks(c), x)
  <1>1. NormalChunks(<<>>) = <<>>
    <2>1. <<>> \in Seq(Items) /\ Len(<<>>) = 0
      OBVIOUS
    <2>2. PICK h : IsNormal(h, <<>>) /\ NormalChunks(<<>>) = h[Len(<<>>)]
      BY <2>1, NormalRecursion
    <2> QED
      BY <2>1, <2>2 DEF IsNormal
  <1> DEFINE d == Append(c, x)
             m == Len(c)
  <1>2. /\ m \in Nat /\ d \in Seq(Items) /\ Len(d) = m + 1 /\ d[m + 1] = x
        /\ \A k \in 1 .. m : d[k] = c[k]
    BY SeqFacts, AppendFacts
  <1>3. PICK h : IsNormal(h, c) /\ NormalChunks(c) = h[m]
    BY NormalRecursion
  <1> HIDE DEF d
  <1>4. PICK g : IsNormal(g, d) /\ NormalChunks(d) = g[Len(d)]
    BY <1>2, NormalRecursion
  <1>5. /\ h[0] = <<>>
        /\ \A k \in 1 .. m : h[k] = IF IsMark(c[k]) THEN h[k - 1] ELSE Append(h[k - 1], c[k])
    BY <1>3 DEF IsNormal
  <1>6. /\ g[0] = <<>>
        /\ \A k \in 1 .. m + 1 : g[k] = IF IsMark(d[k]) THEN g[k - 1] ELSE Append(g[k - 1], d[k])
    BY <1>2, <1>4 DEF IsNormal
  <1> HIDE DEF m
  <1> DEFINE A == {k \in Nat : k <= m => g[k] = h[k]}
  <1>7. 0 \in A
    BY <1>5, <1>6
  <1>8. ASSUME NEW k \in A PROVE k + 1 \in A
    <2>1. SUFFICES ASSUME k + 1 <= m PROVE g[k + 1] = h[k + 1]
      OBVIOUS
    <2>2. k \in Nat /\ k <= m /\ k + 1 \in 1 .. m /\ k + 1 \in 1 .. m + 1 /\ (k + 1) - 1 = k
      BY <1>2, <2>1
    <2>3. g[k] = h[k] /\ d[k + 1] = c[k + 1]
      BY <1>2, <2>2
    <2>4. h[k + 1] = IF IsMark(c[k + 1]) THEN h[k] ELSE Append(h[k], c[k + 1])
      BY <1>5, <2>2
    <2>5. g[k + 1] = IF IsMark(d[k + 1]) THEN g[k] ELSE Append(g[k], d[k + 1])
      BY <1>6, <2>2
    <2> QED
      BY <2>3, <2>4, <2>5
  <1>9. \A k \in Nat : k \in A
    <2>1. A \in SUBSET Nat
      OBVIOUS
    <2> HIDE DEF A
    <2> QED
      BY <1>7, <1>8, <2>1, NumbersByInduction
  <1>10. g[m] = h[m]
    BY <1>2, <1>9
  <1>11. m + 1 \in 1 .. m + 1 /\ (m + 1) - 1 = m
    BY <1>2
  <1>12. g[m + 1] = IF IsMark(d[m + 1]) THEN g[m] ELSE Append(g[m], d[m + 1])
    BY <1>6, <1>11
  <1> QED
    BY <1>1, <1>2, <1>3, <1>4, <1>10, <1>12 DEF d

-----------------------------------------------------------------------------
(* The features of a segment.                                              *)

\* The recursive function inside Entries.
IsEntries(h, normal, limit) ==
  h[0] = <<>> /\ \A k \in 1 .. Len(normal) : h[k] = Kept(normal, h[k - 1], k, limit)

\* The entries of a segment are its soonest chunks.
LEMMA EntriesLowest ==
  ASSUME NEW normal \in Seq(Items), NEW limit \in Nat \ {0}
  PROVE  Lowest(normal, Entries(normal, limit), Len(normal), limit)
  <1> DEFINE m == Len(normal)
             S == Seq(Nat)
             step == [k \in Nat |-> [u \in S |-> IF Kept(normal, u, k, limit) \in S
                                                 THEN Kept(normal, u, k, limit) ELSE u]]
             Low(k, u) == Lowest(normal, u, k, limit)
  <1>1. m \in Nat
    BY SeqFacts
  <1>2. ASSUME NEW k \in Nat, NEW u, Low(k, u) PROVE u \in S
    <2>1. u \in Seq(1 .. k) /\ 1 .. k \subseteq Nat
      BY <1>2 DEF Lowest
    <2>2. Len(u) \in Nat /\ \A i \in 1 .. Len(u) : u[i] \in 1 .. k
      BY <2>1, SeqFacts
    <2>3. \A i \in 1 .. Len(u) : u[i] \in Nat
      BY <2>1, <2>2
    <2> QED
      BY <2>1, <2>3, SeqOfSubset
  <1>3. ASSUME NEW k \in 1 .. m, NEW u, Low(k - 1, u) PROVE Low(k, Kept(normal, u, k, limit))
    BY <1>3, KeptLowest
  <1>4. Low(0, <<>>)
    <2>1. <<>> \in Seq(1 .. 0) /\ Len(<<>>) = 0
      OBVIOUS
    <2> QED
      BY <2>1 DEF Lowest
  <1>5. step \in [Nat -> [S -> S]] /\ <<>> \in S
    <2>1. <<>> \in S
      OBVIOUS
    <2> HIDE DEF S
    <2> QED
      BY <2>1
  <1>6. \A k \in Nat : \A u \in S :
          Kept(normal, u, k, limit) \in S => step[k][u] = Kept(normal, u, k, limit)
    <2> HIDE DEF S
    <2> QED
      OBVIOUS
  <1> HIDE DEF step, m, S, Low
  <1>7. PICK e : IsUpto(e, S, <<>>, step, m)
    BY <1>1, <1>5, RecursionUpto
  <1>8. e \in [0 .. m -> S] /\ e = [k \in 0 .. m |-> IF k = 0 THEN <<>> ELSE step[k][e[k - 1]]]
    BY <1>7 DEF IsUpto
  <1> DEFINE B == {k \in Nat : k <= m => Low(k, e[k])}
  <1>9. 0 \in B
    <2>1. e[0] = <<>>
      BY <1>1, <1>8
    <2> QED
      BY <1>4, <2>1
  <1>10. ASSUME NEW k \in Nat, k + 1 <= m, Low(k, e[k])
         PROVE  e[k + 1] = Kept(normal, e[k], k + 1, limit) /\ Low(k + 1, e[k + 1])
    <2>1. k + 1 \in 1 .. m /\ (k + 1) - 1 = k /\ k + 1 # 0 /\ k + 1 \in 0 .. m /\ k \in 0 .. m /\ k + 1 \in Nat
      BY <1>1, <1>10
    <2>2. Low(k + 1, Kept(normal, e[k], k + 1, limit))
      BY <1>3, <1>10, <2>1
    <2>3. Kept(normal, e[k], k + 1, limit) \in S /\ e[k] \in S
      BY <1>2, <1>8, <2>1, <2>2
    <2>4. e[k + 1] = step[k + 1][e[k]]
      BY <1>8, <2>1
    <2> QED
      BY <1>6, <2>1, <2>2, <2>3, <2>4
  <1>11. ASSUME NEW k \in B PROVE k + 1 \in B
    <2>1. SUFFICES ASSUME k + 1 <= m PROVE Low(k + 1, e[k + 1])
      OBVIOUS
    <2>2. k \in Nat /\ k <= m
      BY <1>1, <2>1
    <2>3. Low(k, e[k])
      BY <2>2
    <2> QED
      BY <1>10, <2>1, <2>2, <2>3
  <1>12. \A k \in Nat : k \in B
    <2>1. B \in SUBSET Nat
      OBVIOUS
    <2> HIDE DEF B
    <2> QED
      BY <1>9, <1>11, <2>1, NumbersByInduction
  <1>13. e = [k \in 0 .. m |-> IF k = 0 THEN <<>> ELSE Kept(normal, e[k - 1], k, limit)]
    <2>1. ASSUME NEW k \in 0 .. m
          PROVE  e[k] = IF k = 0 THEN <<>> ELSE Kept(normal, e[k - 1], k, limit)
      <3>1. CASE k = 0
        BY <1>8, <3>1
      <3>2. CASE k # 0
        <4>1. k - 1 \in Nat /\ (k - 1) + 1 = k /\ (k - 1) + 1 <= m /\ k - 1 <= m
          BY <1>1, <3>2
        <4>2. Low(k - 1, e[k - 1])
          BY <1>12, <4>1
        <4>3. e[(k - 1) + 1] = Kept(normal, e[k - 1], (k - 1) + 1, limit)
          BY <1>10, <4>1, <4>2
        <4> QED
          BY <3>2, <4>1, <4>3
      <3> QED
        BY <3>1, <3>2
    <2> QED
      BY <1>8, <2>1
  <1>14. PICK h : /\ h = [k \in 0 .. m |-> IF k = 0 THEN <<>> ELSE Kept(normal, h[k - 1], k, limit)]
                  /\ Entries(normal, limit) = h[m]
    BY <1>13 DEF Entries, m
  <1> DEFINE A == {k \in Nat : k <= m => Low(k, h[k])}
  <1>15. 0 \in A
    <2>1. h[0] = <<>>
      BY <1>1, <1>14
    <2> QED
      BY <1>4, <2>1
  <1>16. ASSUME NEW k \in A PROVE k + 1 \in A
    <2>1. SUFFICES ASSUME k + 1 <= m PROVE Low(k + 1, h[k + 1])
      OBVIOUS
    <2>2. k \in Nat /\ k <= m /\ k + 1 \in 1 .. m /\ k + 1 \in 0 .. m /\ k + 1 # 0 /\ (k + 1) - 1 = k
      BY <1>1, <2>1
    <2>3. Low(k, h[k])
      BY <2>2
    <2>4. h[k + 1] = Kept(normal, h[k], k + 1, limit)
      BY <1>14, <2>2
    <2> QED
      BY <1>3, <2>2, <2>3, <2>4
  <1>17. \A k \in Nat : k \in A
    <2>1. A \in SUBSET Nat
      OBVIOUS
    <2> HIDE DEF A
    <2> QED
      BY <1>15, <1>16, <2>1, NumbersByInduction
  <1>18. Low(m, h[m])
    <2>1. m \in A
      <3> HIDE DEF A
      <3> QED
        BY <1>1, <1>17
    <2> QED
      BY <1>1, <2>1
  <1> QED
    BY <1>14, <1>18 DEF Low, m

\* The chunks in front of chunk k of the order.
Below(normal, k) == {j \in 1 .. Len(normal) : Sooner(normal, j, k)}

\* The entries are the places in front of which there are fewer than the limit.
LEMMA LowestAreSmallest ==
  ASSUME NEW normal \in Seq(Items), NEW limit \in Nat \ {0}, NEW entries,
         Lowest(normal, entries, Len(normal), limit), NEW j \in 1 .. Len(normal)
  PROVE  Cardinality(Below(normal, j)) < limit <=> \E a \in 1 .. Len(entries) : entries[a] = j
  <1> DEFINE m == Len(normal)
             e == Len(entries)
  <1>1. /\ entries \in Seq(1 .. m) /\ e = IF m <= limit THEN m ELSE limit
        /\ \A a, b \in 1 .. e : a < b => Sooner(normal, entries[a], entries[b])
        /\ \A i \in 1 .. m : (\A a \in 1 .. e : entries[a] # i) =>
             e = limit /\ Sooner(normal, entries[e], i)
    BY DEF Lowest
  <1>2. m \in Nat /\ e \in Nat /\ e <= limit /\ \A a \in 1 .. e : entries[a] \in 1 .. m
    <2>1. m \in Nat
      BY SeqFacts
    <2>2. \A a \in 1 .. e : entries[a] \in 1 .. m
      BY <1>1, SeqFacts
    <2> QED
      BY <1>1, <2>1, <2>2
  <1>3. /\ \A x \in 1 .. m : ~Sooner(normal, x, x)
        /\ \A x, y, z \in 1 .. m : Sooner(normal, x, y) /\ Sooner(normal, y, z) => Sooner(normal, x, z)
    BY SoonerOrder
  <1>4. IsFiniteSet(Below(normal, j)) /\ Cardinality(Below(normal, j)) \in Nat
    <2>1. IsFiniteSet(1 .. m)
      BY <1>2, FS_Interval
    <2>2. Below(normal, j) \in SUBSET (1 .. m)
      BY DEF Below
    <2>3. IsFiniteSet(Below(normal, j))
      BY <2>1, <2>2, FS_Subset
    <2> QED
      BY <2>3, FS_CardinalityType
  <1>5. \A x : x \in Below(normal, j) <=> x \in 1 .. m /\ Sooner(normal, x, j)
    BY DEF Below
  <1> HIDE DEF m, e
  <1>6. ASSUME NEW a \in 1 .. e, entries[a] = j PROVE Cardinality(Below(normal, j)) < limit
    <2> DEFINE T == 1 .. a - 1
               f == [b \in T |-> entries[b]]
    <2>1. \A b \in T : b \in 1 .. e /\ b < a
      BY <1>2
    <2>2. ASSUME NEW b \in T PROVE entries[b] \in Below(normal, j)
      BY <1>1, <1>2, <1>5, <1>6, <2>1
    <2>3. ASSUME NEW x \in Below(normal, j) PROVE \E b \in T : entries[b] = x
      <3>1. x \in 1 .. m /\ Sooner(normal, x, j) /\ j \in 1 .. m
        BY <1>5 DEF m
      <3>2. CASE \A b \in 1 .. e : entries[b] # x
        <4>1. Sooner(normal, entries[e], x) /\ e \in 1 .. e /\ (a < e \/ a = e)
          BY <1>1, <1>2, <3>1, <3>2
        <4>2. Sooner(normal, entries[e], j)
          BY <1>2, <1>3, <3>1, <4>1
        <4>3. Sooner(normal, j, entries[e]) \/ entries[e] = j
          BY <1>1, <1>6, <4>1
        <4> QED
          BY <1>2, <1>3, <3>1, <4>1, <4>2, <4>3
      <3>3. CASE \E b \in 1 .. e : entries[b] = x
        <4>1. PICK b \in 1 .. e : entries[b] = x
          BY <3>3
        <4>2. b # a
          BY <1>3, <1>6, <3>1, <4>1
        <4>3. ~(a < b)
          <5>1. SUFFICES ASSUME a < b PROVE FALSE
            OBVIOUS
          <5>2. Sooner(normal, j, x)
            BY <1>1, <1>6, <4>1, <5>1
          <5> QED
            BY <1>3, <3>1, <5>2
        <4>4. b \in T
          BY <1>2, <4>1, <4>2, <4>3
        <4> QED
          BY <4>1, <4>4
      <3> QED
        BY <3>2, <3>3
    <2>4. IsFiniteSet(T) /\ Cardinality(T) = a - 1
      <3>1. 1 \in Int /\ a - 1 \in Int /\ a \in Nat \ {0}
        BY <1>2
      <3>2. IsFiniteSet(T) /\ Cardinality(T) = IF 1 > a - 1 THEN 0 ELSE (a - 1) - 1 + 1
        BY <3>1, FS_Interval
      <3> QED
        BY <3>1, <3>2
    <2> HIDE DEF T
    <2>5. f \in Surjection(T, Below(normal, j))
      <3>1. f \in [T -> Below(normal, j)]
        BY <2>2
      <3>2. \A x \in Below(normal, j) : \E b \in T : f[b] = x
        BY <2>3
      <3> HIDE DEF f
      <3> QED
        BY <3>1, <3>2 DEF Surjection
    <2>6. Cardinality(Below(normal, j)) <= Cardinality(T)
      BY <2>4, <2>5, FS_Surjection
    <2> QED
      BY <1>2, <1>4, <2>4, <2>6
  <1>7. ASSUME \A a \in 1 .. e : entries[a] # j PROVE limit <= Cardinality(Below(normal, j))
    <2> DEFINE T == 1 .. limit
               f == [b \in T |-> entries[b]]
    <2>1. e = limit /\ Sooner(normal, entries[e], j) /\ j \in 1 .. m
      BY <1>1, <1>7 DEF m
    <2>2. ASSUME NEW b \in T PROVE entries[b] \in Below(normal, j)
      <3>1. b \in 1 .. e /\ e \in 1 .. e /\ (b < e \/ b = e)
        BY <2>1
      <3>2. Sooner(normal, entries[b], entries[e]) \/ entries[b] = entries[e]
        BY <1>1, <3>1
      <3>3. Sooner(normal, entries[b], j)
        BY <1>2, <1>3, <2>1, <3>1, <3>2
      <3> QED
        BY <1>2, <1>5, <3>1, <3>3
    <2>3. ASSUME NEW a \in T, NEW b \in T, entries[a] = entries[b] PROVE a = b
      <3>1. a \in 1 .. e /\ b \in 1 .. e /\ a \in Nat /\ b \in Nat
        BY <2>1
      <3>2. ~(a < b) /\ ~(b < a)
        BY <1>1, <1>2, <1>3, <2>3, <3>1
      <3> QED
        BY <3>1, <3>2
    <2>4. Cardinality(T) = limit
      <3>1. 1 \in Int /\ limit \in Int
        OBVIOUS
      <3>2. Cardinality(T) = IF 1 > limit THEN 0 ELSE limit - 1 + 1
        BY <3>1, FS_Interval
      <3> QED
        BY <3>2
    <2> HIDE DEF T
    <2>5. f \in Injection(T, Below(normal, j))
      <3>1. f \in [T -> Below(normal, j)]
        BY <2>2
      <3>2. \A a, b \in T : f[a] = f[b] => a = b
        BY <2>3
      <3> HIDE DEF f
      <3> QED
        BY <3>1, <3>2 DEF Injection, IsInjective
    <2>6. Cardinality(T) <= Cardinality(Below(normal, j))
      BY <1>4, <2>5, FS_Injection
    <2> QED
      BY <2>4, <2>6
  <1>8. CASE \E a \in 1 .. e : entries[a] = j
    BY <1>6, <1>8 DEF e
  <1>9. CASE \A a \in 1 .. e : entries[a] # j
    <2>1. ~(Cardinality(Below(normal, j)) < limit)
      BY <1>4, <1>7, <1>9
    <2> QED
      BY <1>9, <2>1 DEF e
  <1> QED
    BY <1>8, <1>9

\* There is always a feature to take.
LEMMA FeatureNumber ==
  ASSUME NEW c, NEW n \in Nat \ {0}
  PROVE  feature_num(c, n) \in Nat \ {0}
  <1>1. SampleRatio \in Nat \ {0}
    BY SegmentsAssumption
  <1>2. CASE n <= SampleRatio
    <2>1. feature_num(c, n) = 1
      BY <1>2 DEF feature_num
    <2> QED
      BY <2>1
  <1>3. CASE ~(n <= SampleRatio)
    <2> DEFINE d == n \div SampleRatio
    <2>1. d \in Nat /\ SampleRatio * d <= n /\ n < SampleRatio * d + SampleRatio
      BY <1>1, DivFacts
    <2>2. d # 0
      BY <1>1, <1>3, <2>1
    <2>3. feature_num(c, n) = d + 1 \/ feature_num(c, n) = d + 0
      BY <1>3 DEF feature_num
    <2> HIDE DEF d
    <2> QED
      BY <2>1, <2>2, <2>3
  <1> QED
    BY <1>2, <1>3

\* A set of features has one, and only those that were taken or the placeholder.
LEMMA PlaceholderAmong ==
  ASSUME NEW X, NEW T, NEW x, X \subseteq T, X # {} \/ x \in T
  PROVE  OrPlaceholder(X, x) \in (SUBSET T) \ {{}}
  <1>1. CASE X = {}
    <2>1. OrPlaceholder(X, x) = {x}
      BY <1>1 DEF OrPlaceholder
    <2>2. {x} \in SUBSET T /\ {x} # {}
      BY <1>1
    <2> QED
      BY <2>1, <2>2, Zenon
  <1>2. CASE X # {}
    <2>1. OrPlaceholder(X, x) = X
      BY <1>2 DEF OrPlaceholder
    <2> QED
      BY <1>2, <2>1, Zenon
  <1> QED
    BY <1>1, <1>2

\* What the sampling promises of the segment with the marks and chunks c.
Represents(c, n) ==
  LET fps == {x.fp : x \in ToSet(NormalChunks(c))}
  IN /\ index_sampling_min(c, n) = Smallest(c, feature_num(c, n))
     /\ index_sampling_optimized_min(c, n) \in (SUBSET fps) \ {{}}
     /\ index_sampling_random(c, n) \in (SUBSET (fps \cup {ZeroFp})) \ {{}}
     /\ index_sampling_uniform(c, n) \in (SUBSET (fps \cup {ZeroFp})) \ {{}}

\* It is so for every segment with a chunk.
LEMMA SamplesRepresent ==
  ASSUME NEW c \in Seq(Items), NEW n \in Nat \ {0}, n = Len(NormalChunks(c))
  PROVE  Represents(c, n)
  <1> DEFINE normal == NormalChunks(c)
             limit == feature_num(c, n)
             entries == Entries(normal, limit)
             fps == {x.fp : x \in ToSet(normal)}
  <1>1. /\ normal \in Seq(Items) /\ ToSet(normal) = {x \in ToSet(c) : ~IsMark(x)}
        /\ limit \in Nat \ {0}
    BY NormalFacts, FeatureNumber
  <1>2. Lowest(normal, entries, Len(normal), limit)
    <2> HIDE DEF normal, limit
    <2> QED
      BY <1>1, EntriesLowest
  <1>3. index_sampling_min(c, n) = OrPlaceholder({normal[entries[i]].fp : i \in DOMAIN entries}, LastFp)
    BY Zenon DEF index_sampling_min
  <1>4. index_sampling_optimized_min(c, n)
          = OrPlaceholder({normal[Max({1, entries[i] - Off})].fp : i \in DOMAIN entries}, LastFp)
    BY Zenon DEF index_sampling_optimized_min
  <1>5. index_sampling_random(c, n)
          = OrPlaceholder({x.fp : x \in {d \in ToSet(normal) : HeadOf(d.fp) % SampleRatio = 0}}, ZeroFp)
    BY Zenon DEF index_sampling_random
  <1>6. index_sampling_uniform(c, n)
          = OrPlaceholder({c[k].fp : k \in {j \in DOMAIN c : (j - 1) % SampleRatio = 0}}, ZeroFp)
    BY Zenon DEF index_sampling_uniform
  <1>7. Smallest(c, limit) = {normal[k].fp : k \in {j \in 1 .. n : Cardinality(Below(normal, j)) < limit}}
    <2>1. DOMAIN normal = 1 .. n
      BY <1>1, SeqFacts
    <2>2. \A k : Below(normal, k) = {j \in DOMAIN normal :
                     Before(normal[j].fp, normal[k].fp) \/ (normal[j].fp = normal[k].fp /\ j < k)}
      BY <2>1 DEF Below, Sooner
    <2>3. Smallest(c, limit) = {normal[k].fp : k \in {j \in DOMAIN normal : Cardinality(Below(normal, j)) < limit}}
      BY <2>2, Zenon DEF Smallest
    <2> QED
      BY <2>1, <2>3
  <1>8. Len(normal) = n
    OBVIOUS
  <1> HIDE DEF normal, limit, entries
  <1>9. /\ entries \in Seq(1 .. n) /\ Len(entries) \in Nat \ {0} /\ DOMAIN entries = 1 .. Len(entries)
        /\ \A i \in DOMAIN entries : entries[i] \in 1 .. n
    <2>1. entries \in Seq(1 .. n) /\ Len(entries) = IF n <= limit THEN n ELSE limit
      BY <1>2, <1>8 DEF Lowest
    <2>2. DOMAIN entries = 1 .. Len(entries) /\ \A i \in 1 .. Len(entries) : entries[i] \in 1 .. n
      BY <2>1, SeqFacts
    <2> QED
      BY <1>1, <2>1, <2>2
  <1>10. \A k \in 1 .. n : normal[k].fp \in fps
    <2>1. DOMAIN normal = 1 .. n
      BY <1>1, <1>8, SeqFacts
    <2> QED
      BY <2>1 DEF ToSet
  <1>11. \A X, x : X # {} => OrPlaceholder(X, x) = X
    BY DEF OrPlaceholder
  <1> HIDE DEF fps
  <1>12. index_sampling_min(c, n) = Smallest(c, limit)
    <2> DEFINE S == {normal[entries[i]].fp : i \in DOMAIN entries}
    <2>1. 1 \in DOMAIN entries
      BY <1>9
    <2>2. S # {}
      BY <2>1
    <2>3. index_sampling_min(c, n) = S
      <3> HIDE DEF S
      <3> QED
        BY <1>3, <1>11, <2>2 DEF S
    <2>4. \A j \in 1 .. n : Cardinality(Below(normal, j)) < limit <=> \E a \in 1 .. Len(entries) : entries[a] = j
      <3>1. ASSUME NEW j \in 1 .. n
            PROVE  Cardinality(Below(normal, j)) < limit <=> \E a \in 1 .. Len(entries) : entries[a] = j
        <4>1. j \in 1 .. Len(normal)
          BY <1>8
        <4> QED
          BY <1>1, <1>2, <4>1, LowestAreSmallest
      <3> QED
        BY <3>1
    <2> DEFINE P == {j \in 1 .. n : Cardinality(Below(normal, j)) < limit}
    <2>5. \A j : j \in P <=> \E a \in DOMAIN entries : entries[a] = j
      BY <1>9, <2>4
    <2>6. Smallest(c, limit) = {normal[k].fp : k \in P}
      BY <1>7
    <2> HIDE DEF P
    <2>7. S = {normal[k].fp : k \in P}
      BY <2>5
    <2> QED
      BY <2>3, <2>6, <2>7
  <1>13. index_sampling_optimized_min(c, n) \in (SUBSET fps) \ {{}}
    <2> DEFINE S == {normal[Max({1, entries[i] - Off})].fp : i \in DOMAIN entries}
    <2>1. ASSUME NEW i \in DOMAIN entries PROVE Max({1, entries[i] - Off}) \in 1 .. n
      <3>1. entries[i] \in 1 .. n
        BY <1>9
      <3>2. 1 \in Int /\ entries[i] - Off \in Int /\ entries[i] - Off <= n
        BY <3>1 DEF Off
      <3>3. Max({1, entries[i] - Off}) = IF 1 >= entries[i] - Off THEN 1 ELSE entries[i] - Off
        BY <3>2, MinMaxOfTwo, Zenon
      <3> QED
        BY <3>2, <3>3
    <2>2. 1 \in DOMAIN entries
      BY <1>9
    <2>3. S # {} /\ S \subseteq fps
      BY <1>10, <2>1, <2>2
    <2>4. index_sampling_optimized_min(c, n) = OrPlaceholder(S, LastFp)
      BY <1>4
    <2> HIDE DEF S
    <2> QED
      <3>1. OrPlaceholder(S, LastFp) \in (SUBSET fps) \ {{}}
        BY <2>3, PlaceholderAmong
      <3> QED
        BY <2>4, <3>1
  <1>14. index_sampling_random(c, n) \in (SUBSET (fps \cup {ZeroFp})) \ {{}}
    <2> DEFINE S == {x.fp : x \in {d \in ToSet(normal) : HeadOf(d.fp) % SampleRatio = 0}}
    <2>1. S \subseteq fps
      BY DEF fps
    <2>2. index_sampling_random(c, n) = OrPlaceholder(S, ZeroFp)
      BY <1>5
    <2>3. S \subseteq fps \cup {ZeroFp} /\ ZeroFp \in fps \cup {ZeroFp}
      BY <2>1
    <2> DEFINE T == fps \cup {ZeroFp}
    <2>4. S \subseteq T /\ ZeroFp \in T
      BY <2>3
    <2> HIDE DEF S, T
    <2>5. OrPlaceholder(S, ZeroFp) \in (SUBSET T) \ {{}}
      BY <2>4, PlaceholderAmong
    <2> QED
      BY <2>2, <2>5 DEF T
  <1>15. index_sampling_uniform(c, n) \in (SUBSET (fps \cup {ZeroFp})) \ {{}}
    <2> DEFINE S == {c[k].fp : k \in {j \in DOMAIN c : (j - 1) % SampleRatio = 0}}
    <2>1. ASSUME NEW k \in DOMAIN c PROVE c[k].fp \in fps \cup {ZeroFp}
      <3>1. c[k] \in ToSet(c) /\ c[k] \in Items
        BY SeqFacts DEF ToSet
      <3>2. CASE IsMark(c[k])
        BY <3>1, <3>2 DEF Items
      <3>3. CASE ~IsMark(c[k])
        BY <1>1, <3>1, <3>3 DEF fps
      <3> QED
        BY <3>2, <3>3
    <2>2. S \subseteq fps \cup {ZeroFp}
      BY <2>1
    <2>3. index_sampling_uniform(c, n) = OrPlaceholder(S, ZeroFp)
      BY <1>6
    <2>4. ZeroFp \in fps \cup {ZeroFp}
      OBVIOUS
    <2> DEFINE T == fps \cup {ZeroFp}
    <2>5. S \subseteq T /\ ZeroFp \in T
      BY <2>2, <2>4
    <2> HIDE DEF S, T
    <2>6. OrPlaceholder(S, ZeroFp) \in (SUBSET T) \ {{}}
      BY <2>5, PlaceholderAmong
    <2> QED
      BY <2>3, <2>6 DEF T
  <1> QED
    BY <1>12, <1>13, <1>14, <1>15 DEF Represents, fps, normal, limit

-----------------------------------------------------------------------------
(* Where a thread is in the files, and the way there.                      *)

\* The places of a path through the files: at the start of file a.file, or within it.
Places(fs) ==
  {a \in [file : Nat, offset : Nat, open : BOOLEAN] :
     /\ a.file \in 1 .. Len(fs) + 1
     /\ IF a.open THEN a.file <= Len(fs) /\ a.offset <= Len(fs[a.file]) ELSE a.offset = 0}

\* The place in front of file n, and the one behind its first k bytes.
FrontOf(n) == [file |-> n, offset |-> 0, open |-> FALSE]
Within(n, k) == [file |-> n, offset |-> k, open |-> TRUE]

\* What a path is made of: its stage, the algorithm and the files.
World(stage) == [stage |-> stage, algorithm |-> setting.algorithm, files |-> files]

\* The three ways from a place to the next: into the file, over n bytes, out of it.
Opens(w, a, b) == ~a.open /\ a.file <= Len(w.files) /\ b = Within(a.file, 0)
Moves(w, a, n, b) ==
  a.open /\ n \in 1 .. Len(w.files[a.file]) - a.offset /\ b = Within(a.file, a.offset + n)
Closes(w, a, b) == a.open /\ a.offset = Len(w.files[a.file]) /\ b = FrontOf(a.file + 1)

\* The next n bytes at a place, and all that follow.
Span(w, a, n) == SubSeq(w.files[a.file], a.offset + 1, a.offset + n)
Rest(w, a) == SubSeq(w.files[a.file], a.offset + 1, Len(w.files[a.file]))

\* An item as dedup_thread is to see it, whichever thread has it now.
Hashed(c) == IF IsMark(c) THEN c ELSE [c EXCEPT !.fp = c.data]
View(w, c) ==
  CASE w.stage = "cut" -> Identity(Hashed(c))
    [] w.stage = "hashed" -> Identity(c)
    [] w.stage = "line" -> Identity(OfLine(c))
    [] OTHER -> c

\* The size of a chunk that is cut at a place.
Sized(w, a, n) ==
  IF w.algorithm = "ae" THEN w.stage = "wanted" \/ n < MaxSize + BlockSize
  ELSE n = chunking(w.algorithm, Rest(w, a))

\* Item c leads from a to b.
Step(w, a, c, b) ==
  IF w.stage = "read"
  THEN \/ Opens(w, a, b) /\ c = FileStart(a.file)
       \/ \E n \in 1 .. BlockSize : Moves(w, a, n, b) /\ c = Raw(Span(w, a, n))
       \/ Closes(w, a, b) /\ c = FileEnd
  ELSE \/ Opens(w, a, b) /\ View(w, c) = Item("start", <<a.file>>, ZeroFp, 0)
       \/ \E n \in Nat :
            Moves(w, a, n, b) /\ View(w, c) = Item("chunk", <<>>, Span(w, a, n), n) /\ Sized(w, a, n)
       \/ Closes(w, a, b) /\ View(w, c) = FileEnd

\* The items of q lead from a to b.
Path(w, q, a, b) ==
  \E at \in [Nat -> Places(w.files)] :
    at[0] = a /\ at[Len(q)] = b /\ \A n \in 1 .. Len(q) : Step(w, at[n - 1], q[n], at[n])

-----------------------------------------------------------------------------
(* The inductive invariant.                                                *)

Lines == {Line(c) : c \in Items} \cup {StreamEnd}
SegmentRecords == [chunks : Seq(Items), chunk_num : Nat]
QueueNames == {"read", "chunk", "hash", "trace"}

\* The types of the variables.
Types ==
  /\ files \in Seq(Files) /\ setting \in Settings
  /\ reader \in [file : Nat, offset : Nat, open : BOOLEAN]
  /\ chunker \in [pc : {"start", "first", "cut"}, left : Seq(Nat), c : {NoItem, FileEnd}]
  /\ queues \in [QueueNames -> [items : Seq(Items), term : BOOLEAN]]
  /\ \A q \in QueueNames : Len(queues[q].items) <= QueueSize
  /\ trace \in Seq(Lines) /\ line \in 0 .. Len(trace)
  /\ tmp \in SegmentRecords /\ segments \in Seq(SegmentRecords) /\ done \in BOOLEAN

\* What the end of one thread's work says of those before it.
Terms ==
  /\ queues["read"].term => ~reader.open /\ AllRead
  /\ queues["chunk"].term => chunker.pc = "start" /\ Ended("read")
  /\ queues["hash"].term => Ended("chunk")
  /\ Traced => Ended("hash")
  /\ ~Traced => line = 0
  /\ queues["trace"].term => Traced /\ line = Len(trace)
  /\ setting.job = "backup" => trace = <<>> /\ queues["trace"].items = <<>>
  /\ \A k \in 1 .. Len(trace) - 1 : trace[k] # StreamEnd

\* The lines of the trace that are still to be read, without its end.
Pending == IF Traced THEN SubSeq(trace, line + 1, Len(trace) - 1) ELSE trace

\* The marks and chunks that dedup_thread has been given.
GivenIn(ss, s) == FlattenSeq([k \in DOMAIN ss |-> ss[k].chunks]) \o s.chunks
Given == GivenIn(segments, tmp)

\* chunk_thread has cut up to m and read up to r.
ChunkerAt(m, r) ==
  /\ Len(chunker.left) < chunk_max_size(setting.algorithm) + BlockSize
  /\ m.open <=> chunker.pc # "start"
  /\ chunker.pc # "cut" => chunker.left = <<>> /\ chunker.c = NoItem
  /\ ~m.open => r = m
  /\ m.open =>
       /\ m.offset + Len(chunker.left) <= Len(files[m.file])
       /\ chunker.left = Span(World("cut"), m, Len(chunker.left))
       /\ IF chunker.c = NoItem THEN r = Within(m.file, m.offset + Len(chunker.left))
          ELSE m.offset + Len(chunker.left) = Len(files[m.file]) /\ r = FrontOf(m.file + 1)

\* The place that read_thread has reached.
ReaderPlace == [file |-> reader.file, offset |-> reader.offset, open |-> reader.open]

\* Nothing is lost or made up between the threads: what each queue holds leads on from
\* the place up to which the next thread has got.
FlowAt(d, t, l, h, m, r) ==
  /\ Path(World("hashed"), Given, FrontOf(1), d)
  /\ Path(World("hashed"), queues["trace"].items, d, t)
  /\ Path(World("line"), Pending, t, l)
  /\ Path(World("hashed"), queues["hash"].items, l, h)
  /\ Path(World("cut"), queues["chunk"].items, h, m)
  /\ ChunkerAt(m, r)
  /\ Path(World("read"), queues["read"].items, r, ReaderPlace)
  /\ setting.method = "file" => (tmp.chunks = <<>> <=> ~d.open)

Flow == \E d, t, l, h, m, r \in Places(files) : FlowAt(d, t, l, h, m, r)

\* The segment that is being filled.
TmpBounded ==
  /\ tmp.chunk_num = Len(NormalChunks(tmp.chunks))
  /\ setting.method = "fixed" => tmp.chunk_num < SegmentLength
  /\ setting.method = "content" => tmp.chunk_num <= Max({SegmentMin + 1, SegmentMax, 2}) - 1
  /\ setting.method = "file" => \A j \in DOMAIN tmp.chunks : tmp.chunks[j].mark # "end"

IInv == Types /\ Terms /\ Flow /\ TmpBounded /\ SegmentsBounded

-----------------------------------------------------------------------------
(* Paths.                                                                  *)

\* The path of no items stays where it is.
LEMMA PathEmpty ==
  ASSUME NEW w, NEW a \in Places(w.files)
  PROVE  /\ Path(w, <<>>, a, a)
         /\ \A b : Path(w, <<>>, a, b) => b = a
  <1>1. Len(<<>>) = 0
    OBVIOUS
  <1>2. Path(w, <<>>, a, a)
    <2> DEFINE at == [n \in Nat |-> a]
    <2>1. at \in [Nat -> Places(w.files)] /\ at[0] = a
      OBVIOUS
    <2> HIDE DEF at
    <2> QED
      BY <1>1, <2>1 DEF Path
  <1>3. ASSUME NEW b, Path(w, <<>>, a, b) PROVE b = a
    BY <1>1, <1>3 DEF Path
  <1> QED
    BY <1>2, <1>3

\* The ends of a path are places.
LEMMA PathEnds ==
  ASSUME NEW w, NEW S, NEW q \in Seq(S), NEW a, NEW b, Path(w, q, a, b)
  PROVE  a \in Places(w.files) /\ b \in Places(w.files)
  <1>1. PICK at \in [Nat -> Places(w.files)] : at[0] = a /\ at[Len(q)] = b
    BY DEF Path
  <1>2. Len(q) \in Nat
    BY SeqFacts
  <1> QED
    BY <1>1, <1>2

\* A step goes on behind a path.
LEMMA PathAppend ==
  ASSUME NEW w, NEW S, NEW q \in Seq(S), NEW c \in S, NEW a, NEW b, NEW d \in Places(w.files),
         Path(w, q, a, b), Step(w, b, c, d)
  PROVE  Path(w, Append(q, c), a, d)
  <1>1. PICK at \in [Nat -> Places(w.files)] :
          at[0] = a /\ at[Len(q)] = b /\ \A n \in 1 .. Len(q) : Step(w, at[n - 1], q[n], at[n])
    BY DEF Path
  <1> DEFINE l == Len(q)
             p == Append(q, c)
             to == [n \in Nat |-> IF n = l + 1 THEN d ELSE at[n]]
  <1>2. /\ l \in Nat /\ Len(p) = l + 1 /\ p[l + 1] = c
        /\ \A n \in 1 .. l : p[n] = q[n]
    BY SeqFacts, AppendFacts
  <1>3. /\ to \in [Nat -> Places(w.files)] /\ to[0] = a /\ to[l + 1] = d /\ to[l] = b
        /\ \A n \in 1 .. l : to[n - 1] = at[n - 1] /\ to[n] = at[n]
    BY <1>1, <1>2
  <1>4. \A n \in 1 .. l : Step(w, at[n - 1], q[n], at[n])
    BY <1>1
  <1> HIDE DEF to, l, p
  <1>5. ASSUME NEW n \in 1 .. l + 1 PROVE Step(w, to[n - 1], p[n], to[n])
    <2>1. CASE n = l + 1
      <3>1. n - 1 = l
        BY <1>2, <2>1
      <3> QED
        BY <1>2, <1>3, <2>1, <3>1
    <2>2. CASE n # l + 1
      <3>1. n \in 1 .. l
        BY <1>2, <2>2
      <3> QED
        BY <1>2, <1>3, <1>4, <3>1
    <2> QED
      BY <2>1, <2>2
  <1>6. Path(w, p, a, d)
    BY <1>2, <1>3, <1>5 DEF Path
  <1> QED
    BY <1>6 DEF p

\* The first item of a path leads from its start to where the rest goes on.
LEMMA PathHead ==
  ASSUME NEW w, NEW S, NEW q \in Seq(S), NEW a, NEW b, Path(w, q, a, b), q # <<>>
  PROVE  \E d \in Places(w.files) : Step(w, a, Head(q), d) /\ Path(w, Tail(q), d, b)
  <1>1. PICK at \in [Nat -> Places(w.files)] :
          at[0] = a /\ at[Len(q)] = b /\ \A n \in 1 .. Len(q) : Step(w, at[n - 1], q[n], at[n])
    BY DEF Path
  <1> DEFINE l == Len(q)
             t == Tail(q)
             to == [n \in Nat |-> at[n + 1]]
  <1>2. /\ l \in Nat \ {0} /\ Head(q) = q[1] /\ Len(t) = l - 1 /\ l - 1 \in Nat
        /\ \A n \in 1 .. l - 1 : t[n] = q[n + 1]
    BY HeadTailFacts
  <1>3. /\ to \in [Nat -> Places(w.files)] /\ to[0] = at[1] /\ to[l - 1] = b
        /\ \A n \in 1 .. l - 1 : to[n - 1] = at[n] /\ to[n] = at[n + 1]
    <2>1. to \in [Nat -> Places(w.files)] /\ \A n \in Nat : to[n] = at[n + 1]
      OBVIOUS
    <2>2. (l - 1) + 1 = l /\ 0 + 1 = 1 /\ \A n \in 1 .. l - 1 : n - 1 \in Nat /\ n \in Nat /\ (n - 1) + 1 = n
      BY <1>2
    <2> HIDE DEF to
    <2>3. to[l - 1] = at[(l - 1) + 1]
      BY <1>2, <2>1
    <2>4. to[0] = at[1]
      BY <2>1, <2>2
    <2> QED
      BY <1>1, <2>1, <2>2, <2>3, <2>4
  <1>4. \A n \in 1 .. l : Step(w, at[n - 1], q[n], at[n])
    BY <1>1
  <1> HIDE DEF to, l, t
  <1>5. ASSUME NEW n \in 1 .. l - 1 PROVE Step(w, to[n - 1], t[n], to[n])
    <2>1. n + 1 \in 1 .. l /\ (n + 1) - 1 = n
      BY <1>2
    <2>2. Step(w, at[n], q[n + 1], at[n + 1])
      BY <1>4, <2>1
    <2> QED
      BY <1>2, <1>3, <2>2
  <1>6. Path(w, t, at[1], b)
    BY <1>2, <1>3, <1>5 DEF Path
  <1>7. Step(w, a, Head(q), at[1])
    <2>1. 1 \in 1 .. l /\ 1 - 1 = 0
      BY <1>2
    <2> QED
      BY <1>1, <1>2, <1>4, <2>1
  <1>8. at[1] \in Places(w.files)
    OBVIOUS
  <1> QED
    BY <1>6, <1>7, <1>8 DEF t

\* A path behind a path.
LEMMA PathConcat ==
  ASSUME NEW w, NEW S, NEW p \in Seq(S), NEW q \in Seq(S), NEW a, NEW b, NEW d,
         Path(w, p, a, b), Path(w, q, b, d)
  PROVE  Path(w, p \o q, a, d)
  <1>1. PICK at \in [Nat -> Places(w.files)] :
          at[0] = a /\ at[Len(p)] = b /\ \A n \in 1 .. Len(p) : Step(w, at[n - 1], p[n], at[n])
    BY DEF Path
  <1>2. PICK to \in [Nat -> Places(w.files)] :
          to[0] = b /\ to[Len(q)] = d /\ \A n \in 1 .. Len(q) : Step(w, to[n - 1], q[n], to[n])
    BY DEF Path
  <1> DEFINE l == Len(p)
             m == Len(q)
             s == p \o q
             on == [n \in Nat |-> IF n <= l THEN at[n] ELSE to[n - l]]
  <1>3. /\ l \in Nat /\ m \in Nat /\ Len(s) = l + m
        /\ \A n \in 1 .. l + m : s[n] = IF n <= l THEN p[n] ELSE q[n - l]
    BY SeqFacts, ConcatProperties
  <1>4. \A n \in Nat : on[n] = IF n <= l THEN at[n] ELSE to[n - l]
    OBVIOUS
  <1>5. on \in [Nat -> Places(w.files)]
    <2>1. \A n \in Nat : ~(n <= l) => n - l \in Nat
      BY <1>3
    <2> HIDE DEF l
    <2> QED
      BY <2>1
  <1>6. \A n \in 1 .. l : Step(w, at[n - 1], p[n], at[n])
    BY <1>1
  <1>7. \A n \in 1 .. m : Step(w, to[n - 1], q[n], to[n])
    BY <1>2
  <1>8. at[0] = a /\ at[l] = b /\ to[0] = b /\ to[m] = d
    BY <1>1, <1>2
  <1> HIDE DEF on, l, m, s
  <1>9. on[0] = a /\ on[l + m] = d
    <2>1. 0 <= l /\ 0 \in Nat /\ l + m \in Nat /\ (l + m) - l = m /\ (l + m <= l => m = 0 /\ l + m = l)
      BY <1>3
    <2> QED
      BY <1>4, <1>8, <2>1
  <1>10. ASSUME NEW n \in 1 .. l + m PROVE Step(w, on[n - 1], s[n], on[n])
    <2>1. CASE n <= l
      <3>1. n \in 1 .. l /\ n - 1 \in Nat /\ n - 1 <= l /\ n \in Nat
        BY <1>3, <2>1
      <3> QED
        BY <1>3, <1>4, <1>6, <2>1, <3>1
    <2>2. CASE n > l
      <3>1. /\ n - l \in 1 .. m /\ n - 1 \in Nat /\ n \in Nat /\ ~(n <= l)
            /\ (n - l) - 1 = (n - 1) - l /\ (n - 1 <= l => n - 1 = l /\ (n - l) - 1 = 0)
        BY <1>3, <2>2
      <3>2. on[n - 1] = to[(n - l) - 1]
        BY <1>4, <1>8, <3>1
      <3>3. on[n] = to[n - l] /\ s[n] = q[n - l]
        BY <1>3, <1>4, <3>1
      <3> QED
        BY <1>7, <3>1, <3>2, <3>3
    <2> QED
      BY <1>3, <2>1, <2>2
  <1>11. Path(w, s, a, d)
    BY <1>3, <1>5, <1>9, <1>10 DEF Path
  <1> QED
    BY <1>11 DEF s

-----------------------------------------------------------------------------
(* Items.                                                                  *)

\* The items that the threads make.
LEMMA ItemFacts ==
  /\ \A n \in Nat : FileStart(n) \in Items /\ FileStart(n).mark = "start" /\ FileStart(n).data = <<n>>
                    /\ FileStart(n).fp = ZeroFp
  /\ FileEnd \in Items /\ FileEnd.mark = "end"
  /\ \A b \in Seq(Nat) : Raw(b) \in Items /\ Raw(b).mark = "chunk" /\ Raw(b).data = b /\ Raw(b).size = Len(b)
                         /\ Raw(b).fp = ZeroFp
  /\ NoItem # FileEnd
  <1>1. ZeroFp \in Seq(Nat) /\ ZeroFp = <<>>
    BY DEF ZeroFp
  <1>2. ASSUME NEW n \in Nat
        PROVE  /\ FileStart(n) \in Items /\ FileStart(n).mark = "start" /\ FileStart(n).data = <<n>>
               /\ FileStart(n).fp = ZeroFp
    <2>1. <<n>> \in Seq(Nat)
      OBVIOUS
    <2> QED
      BY <1>1, <2>1 DEF FileStart, Item, Items
  <1>3. FileEnd \in Items /\ FileEnd.mark = "end"
    BY <1>1 DEF FileEnd, Item, Items
  <1>4. ASSUME NEW b \in Seq(Nat)
        PROVE  /\ Raw(b) \in Items /\ Raw(b).mark = "chunk" /\ Raw(b).data = b /\ Raw(b).size = Len(b)
               /\ Raw(b).fp = ZeroFp
    <2>1. Len(b) \in Nat
      BY SeqFacts
    <2> QED
      BY <1>1, <2>1 DEF Raw, Item, Items, IsMark
  <1>5. NoItem # FileEnd
    <2>1. NoItem.mark = "none"
      BY DEF NoItem, Item
    <2> QED
      BY <1>3, <2>1
  <1> QED
    BY <1>2, <1>3, <1>4, <1>5

\* Items have these fields.
LEMMA ItemFields ==
  ASSUME NEW c \in Items
  PROVE  /\ c.mark \in {"start", "end", "chunk"} /\ c.data \in Seq(Nat) /\ c.fp \in Seq(Nat) /\ c.size \in Nat
         /\ c = Item(c.mark, c.data, c.fp, c.size)
         /\ IsMark(c) <=> c.mark # "chunk"
         /\ IsMark(c) => c.fp = ZeroFp
         /\ Identity(c) = IF c.mark = "start" THEN Item(c.mark, c.data, c.fp, 0)
                          ELSE Item(c.mark, <<>>, c.fp, c.size)
  <1>1. /\ c.mark \in {"start", "end", "chunk"} /\ c.data \in Seq(Nat) /\ c.fp \in Seq(Nat) /\ c.size \in Nat
        /\ c = [mark |-> c.mark, data |-> c.data, fp |-> c.fp, size |-> c.size]
        /\ IsMark(c) => c.fp = ZeroFp
    BY DEF Items
  <1>2. IsMark(c) <=> c.mark # "chunk"
    BY <1>1 DEF IsMark
  <1>3. [c EXCEPT !.size = 0] = Item(c.mark, c.data, c.fp, 0)
    BY <1>1 DEF Item
  <1>4. [c EXCEPT !.data = <<>>] = Item(c.mark, <<>>, c.fp, c.size)
    <2>1. ASSUME NEW e \in Seq(Nat) PROVE [c EXCEPT !.data = e] = Item(c.mark, e, c.fp, c.size)
      BY <1>1 DEF Item
    <2>2. <<>> \in Seq(Nat)
      OBVIOUS
    <2> QED
      BY <2>1, <2>2, Zenon
  <1>5. Identity(c) = IF c.mark = "start" THEN Item(c.mark, c.data, c.fp, 0)
                      ELSE Item(c.mark, <<>>, c.fp, c.size)
    BY <1>3, <1>4, Zenon DEF Identity
  <1> QED
    BY <1>1, <1>2, <1>5 DEF Item

\* Equal items have equal fields.
LEMMA ItemEqual ==
  ASSUME NEW m, NEW d, NEW f, NEW s
  PROVE  /\ Item(m, d, f, s).mark = m /\ Item(m, d, f, s).data = d
         /\ Item(m, d, f, s).fp = f /\ Item(m, d, f, s).size = s
  BY DEF Item

\* sha1_thread makes items of items, and the chunk keeps all but its fingerprint.
LEMMA HashedFacts ==
  ASSUME NEW c \in Items
  PROVE  /\ Hashed(c) \in Items
         /\ Hashed(c) = IF IsMark(c) THEN c ELSE Item("chunk", c.data, c.data, c.size)
  <1>1. /\ c.mark \in {"start", "end", "chunk"} /\ c.data \in Seq(Nat) /\ c.fp \in Seq(Nat) /\ c.size \in Nat
        /\ c = Item(c.mark, c.data, c.fp, c.size) /\ (IsMark(c) <=> c.mark # "chunk")
    BY ItemFields
  <1>2. CASE IsMark(c)
    BY <1>2 DEF Hashed
  <1>3. CASE ~IsMark(c)
    <2>1. Hashed(c) = [c EXCEPT !.fp = c.data]
      BY <1>3 DEF Hashed
    <2>2. Hashed(c) = Item("chunk", c.data, c.data, c.size)
      BY <1>1, <1>3, <2>1 DEF Item
    <2>3. Item("chunk", c.data, c.data, c.size) \in Items
      BY <1>1 DEF Items, Item, IsMark
    <2> QED
      BY <1>3, <2>2, <2>3
  <1> QED
    BY <1>2, <1>3

\* The digits of a fingerprint give it back.
LEMMA CodeFacts ==
  ASSUME NEW f \in Seq(Nat)
  PROVE  hash2code(f) \in Seq(Nat) /\ code2hash(hash2code(f)) = f
  <1> DEFINE l == Len(f)
             code == hash2code(f)
             Digit(k) == IF k % 2 = 1 THEN f[(k + 1) \div 2] \div 16 ELSE f[k \div 2] % 16
  <1>1. l \in Nat /\ \A k \in 1 .. l : f[k] \in Nat
    BY SeqFacts
  <1>2. code = [k \in 1 .. 2 * l |-> Digit(k)]
    BY DEF hash2code
  <1> HIDE DEF code, l
  <1>3. ASSUME NEW k \in 1 .. 2 * l PROVE Digit(k) \in Nat
    <2>1. CASE k % 2 = 1
      <3>1. (k + 1) \div 2 \in 1 .. l
        BY <1>1, <2>1
      <3>2. f[(k + 1) \div 2] \div 16 \in Nat
        BY <1>1, <3>1
      <3> QED
        BY <2>1, <3>2
    <2>2. CASE k % 2 # 1
      <3>1. k \div 2 \in 1 .. l
        BY <1>1, <2>2
      <3>2. f[k \div 2] % 16 \in Nat
        BY <1>1, <3>1
      <3> QED
        BY <2>2, <3>2
    <2> QED
      BY <2>1, <2>2
  <1>4. 2 * l \in Nat /\ (2 * l) \div 2 = l
    BY <1>1
  <1>5. code \in Seq(Nat) /\ Len(code) = 2 * l
    <2>1. code \in [1 .. 2 * l -> Nat]
      BY <1>2, <1>3
    <2> DEFINE m == 2 * l
    <2>2. code \in [1 .. m -> Nat] /\ m \in Nat
      BY <1>4, <2>1
    <2> HIDE DEF m
    <2>3. code \in Seq(Nat) /\ DOMAIN code = 1 .. m
      BY <2>2
    <2>4. Len(code) = m
      BY <2>2, <2>3, LenProperties
    <2> QED
      BY <2>3, <2>4 DEF m
  <1>6. ASSUME NEW k \in 1 .. l PROVE 16 * code[2 * k - 1] + code[2 * k] = f[k]
    <2>1. /\ 2 * k - 1 \in 1 .. 2 * l /\ 2 * k \in 1 .. 2 * l
          /\ (2 * k - 1) % 2 = 1 /\ ((2 * k - 1) + 1) \div 2 = k
          /\ (2 * k) % 2 # 1 /\ (2 * k) \div 2 = k
      BY <1>1
    <2>2. code[2 * k - 1] = f[k] \div 16
      BY <1>2, <2>1
    <2>3. code[2 * k] = f[k] % 16
      BY <1>2, <2>1
    <2>4. f[k] \in Nat
      BY <1>1
    <2>5. 16 * (f[k] \div 16) + (f[k] % 16) = f[k]
      BY <2>4
    <2> QED
      BY <2>2, <2>3, <2>5
  <1> DEFINE g == code2hash(code)
  <1>7. g = [k \in 1 .. l |-> 16 * code[2 * k - 1] + code[2 * k]]
    BY <1>4, <1>5 DEF code2hash
  <1>8. g = [k \in 1 .. l |-> f[k]]
    BY <1>6, <1>7
  <1>9. f = [k \in 1 .. l |-> f[k]]
    BY SeqFacts DEF l
  <1>10. g = f
    BY <1>8, <1>9
  <1> QED
    BY <1>5, <1>10 DEF code

\* A line of the trace gives the item back, but for its data.
LEMMA LineFacts ==
  ASSUME NEW c \in Items
  PROVE  /\ OfLine(Line(c)) \in Items /\ Identity(OfLine(Line(c))) = Identity(c)
         /\ Line(c) # StreamEnd
  <1>1. /\ c.mark \in {"start", "end", "chunk"} /\ c.data \in Seq(Nat) /\ c.fp \in Seq(Nat) /\ c.size \in Nat
        /\ (IsMark(c) <=> c.mark # "chunk") /\ (IsMark(c) => c.fp = ZeroFp)
        /\ Identity(c) = IF c.mark = "start" THEN Item(c.mark, c.data, c.fp, 0)
                         ELSE Item(c.mark, <<>>, c.fp, c.size)
    BY ItemFields
  <1> DEFINE name == IF c.mark = "start" THEN c.data ELSE <<>>
             size == IF c.mark = "start" THEN Len(name) + 2 ELSE c.size
  <1>2. /\ Line(c).text = c.mark /\ Line(c).name = name /\ Line(c).code = hash2code(c.fp)
        /\ Line(c).size = c.size
    BY DEF Line
  <1>3. name \in Seq(Nat) /\ size \in Nat /\ code2hash(hash2code(c.fp)) = c.fp
    <2>1. name \in Seq(Nat)
      BY <1>1
    <2>2. Len(name) \in Nat
      BY <2>1, SeqFacts
    <2> QED
      BY <1>1, <2>1, <2>2, CodeFacts
  <1>4. OfLine(Line(c)) = Item(c.mark, name, c.fp, size)
    BY <1>2, <1>3 DEF OfLine
  <1>5. Item(c.mark, name, c.fp, size) \in Items
    <2> HIDE DEF name, size
    <2> QED
      BY <1>1, <1>3 DEF Item, Items, IsMark
  <1> DEFINE e == Item(c.mark, name, c.fp, size)
  <1>6. Identity(e) = IF e.mark = "start" THEN Item(e.mark, e.data, e.fp, 0)
                      ELSE Item(e.mark, <<>>, e.fp, e.size)
    BY <1>5, ItemFields
  <1>7. e.mark = c.mark /\ e.data = name /\ e.fp = c.fp /\ e.size = size
    BY ItemEqual DEF e
  <1>8. Identity(e) = Identity(c)
    <2> HIDE DEF e
    <2>1. CASE c.mark = "start"
      BY <1>1, <1>6, <1>7, <2>1
    <2>2. CASE c.mark # "start"
      BY <1>1, <1>6, <1>7, <2>2
    <2> QED
      BY <2>1, <2>2
  <1>9. Line(c) # StreamEnd
    <2>1. StreamEnd.text = "stream end"
      BY DEF StreamEnd
    <2> QED
      BY <1>1, <1>2, <2>1
  <1> QED
    BY <1>4, <1>5, <1>8, <1>9

\* An item that looks the same at two stages makes the same step.
LEMMA StepMoves ==
  ASSUME NEW w, NEW v, w.stage # "read", v.stage # "read", w.files = v.files, w.algorithm = v.algorithm,
         v.stage = "wanted" \/ w.stage # "wanted", NEW c, NEW e, View(w, c) = View(v, e),
         NEW a, NEW b, Step(w, a, c, b)
  PROVE  Step(v, a, e, b)
  <1>1. /\ Opens(w, a, b) <=> Opens(v, a, b)
        /\ Closes(w, a, b) <=> Closes(v, a, b)
        /\ \A n : Moves(w, a, n, b) <=> Moves(v, a, n, b)
        /\ \A n : Span(w, a, n) = Span(v, a, n)
        /\ Rest(w, a) = Rest(v, a)
    BY DEF Opens, Closes, Moves, Span, Rest
  <1>2. \A n : Sized(w, a, n) => Sized(v, a, n)
    BY <1>1 DEF Sized
  <1>3. \/ Opens(w, a, b) /\ View(w, c) = Item("start", <<a.file>>, ZeroFp, 0)
        \/ \E n \in Nat :
             Moves(w, a, n, b) /\ View(w, c) = Item("chunk", <<>>, Span(w, a, n), n) /\ Sized(w, a, n)
        \/ Closes(w, a, b) /\ View(w, c) = FileEnd
    BY DEF Step
  <1>4. \/ Opens(v, a, b) /\ View(v, e) = Item("start", <<a.file>>, ZeroFp, 0)
        \/ \E n \in Nat :
             Moves(v, a, n, b) /\ View(v, e) = Item("chunk", <<>>, Span(v, a, n), n) /\ Sized(v, a, n)
        \/ Closes(v, a, b) /\ View(v, e) = FileEnd
    BY <1>1, <1>2, <1>3
  <1> QED
    BY <1>4 DEF Step

\* What the worlds are.
LEMMA Worlds ==
  ASSUME NEW stage
  PROVE  /\ World(stage).stage = stage /\ World(stage).algorithm = setting.algorithm
         /\ World(stage).files = files
  BY DEF World

\* The kind of an item that dedup_thread gets tells what it does to the place.
LEMMA StepKinds ==
  ASSUME NEW w, w.stage \in {"hashed", "wanted"}, NEW a, NEW b, NEW c, Step(w, a, c, b),
         w.stage = "hashed" => c \in Items
  PROVE  \/ c.mark = "start" /\ Opens(w, a, b) /\ ~a.open /\ IsMark(c)
         \/ \E n \in Nat : /\ c.mark = "chunk" /\ Moves(w, a, n, b) /\ a.open /\ ~IsMark(c) /\ Sized(w, a, n)
                           /\ View(w, c).size = n /\ View(w, c).fp = Span(w, a, n) /\ c.size = n
                           /\ c.fp = Span(w, a, n)
         \/ c.mark = "end" /\ Closes(w, a, b) /\ a.open /\ IsMark(c)
  <1>1. \/ Opens(w, a, b) /\ View(w, c) = Item("start", <<a.file>>, ZeroFp, 0)
        \/ \E n \in Nat :
             Moves(w, a, n, b) /\ View(w, c) = Item("chunk", <<>>, Span(w, a, n), n) /\ Sized(w, a, n)
        \/ Closes(w, a, b) /\ View(w, c) = FileEnd
    BY DEF Step
  <1>2. View(w, c).mark = c.mark /\ View(w, c).fp = c.fp /\ (c.mark # "start" => View(w, c).size = c.size)
    <2>1. CASE w.stage = "wanted"
      BY <2>1 DEF View
    <2>2. CASE w.stage = "hashed"
      <3>1. View(w, c) = Identity(c)
        BY <2>2 DEF View
      <3>2. Identity(c) = IF c.mark = "start" THEN Item(c.mark, c.data, c.fp, 0)
                          ELSE Item(c.mark, <<>>, c.fp, c.size)
        BY <2>2, ItemFields
      <3>3. CASE c.mark = "start"
        BY <3>1, <3>2, <3>3, ItemEqual
      <3>4. CASE c.mark # "start"
        BY <3>1, <3>2, <3>4, ItemEqual
      <3> QED
        BY <3>3, <3>4
    <2> QED
      BY <2>1, <2>2
  <1>3. CASE Opens(w, a, b) /\ View(w, c) = Item("start", <<a.file>>, ZeroFp, 0)
    <2>1. c.mark = "start"
      BY <1>2, <1>3, ItemEqual
    <2> QED
      BY <1>3, <2>1 DEF Opens, IsMark
  <1>4. CASE Closes(w, a, b) /\ View(w, c) = FileEnd
    <2>1. c.mark = "end"
      BY <1>2, <1>4, ItemFacts
    <2> QED
      BY <1>4, <2>1 DEF Closes, IsMark
  <1>5. ASSUME NEW n \in Nat, Moves(w, a, n, b), View(w, c) = Item("chunk", <<>>, Span(w, a, n), n),
               Sized(w, a, n)
        PROVE  /\ c.mark = "chunk" /\ Moves(w, a, n, b) /\ a.open /\ ~IsMark(c) /\ Sized(w, a, n)
               /\ View(w, c).size = n /\ View(w, c).fp = Span(w, a, n) /\ c.size = n
               /\ c.fp = Span(w, a, n)
    <2>1. /\ View(w, c).mark = "chunk" /\ View(w, c).size = n /\ View(w, c).fp = Span(w, a, n)
      BY <1>5, ItemEqual
    <2>2. c.mark = "chunk" /\ c.size = n /\ c.fp = Span(w, a, n)
      BY <1>2, <2>1
    <2> QED
      BY <1>5, <2>1, <2>2 DEF Moves, IsMark
  <1> QED
    BY <1>1, <1>3, <1>4, <1>5

-----------------------------------------------------------------------------
(* The queues.                                                             *)

Queues == [QueueNames -> [items : Seq(Items), term : BOOLEAN]]

\* A queue has items.
LEMMA QueueFacts ==
  ASSUME NEW qs \in Queues, NEW q \in QueueNames
  PROVE  qs[q].items \in Seq(Items) /\ qs[q].term \in BOOLEAN /\ Len(qs[q].items) \in Nat
  <1>1. qs[q].items \in Seq(Items) /\ qs[q].term \in BOOLEAN
    BY DEF Queues
  <1> QED
    BY <1>1, SeqFacts

\* A push changes its queue alone.
LEMMA PushFacts ==
  ASSUME NEW qs \in Queues, NEW q \in QueueNames, NEW c \in Items
  PROVE  /\ Push(qs, q, c) \in Queues
         /\ Push(qs, q, c)[q].items = Append(qs[q].items, c) /\ Push(qs, q, c)[q].term = qs[q].term
         /\ \A p \in QueueNames \ {q} : Push(qs, q, c)[p] = qs[p]
  <1> DEFINE x == [qs[q] EXCEPT !.items = Append(@, c)]
  <1>1. /\ qs[q] \in [items : Seq(Items), term : BOOLEAN] /\ qs[q].items \in Seq(Items)
        /\ DOMAIN qs = QueueNames
    BY DEF Queues
  <1>2. Append(qs[q].items, c) \in Seq(Items)
    BY <1>1, AppendFacts
  <1>3. /\ x \in [items : Seq(Items), term : BOOLEAN]
        /\ x.items = Append(qs[q].items, c) /\ x.term = qs[q].term
    BY <1>1, <1>2
  <1>4. Push(qs, q, c) = [qs EXCEPT ![q] = x]
    BY DEF Push
  <1> HIDE DEF x
  <1> QED
    BY <1>1, <1>3, <1>4 DEF Queues

\* So does a pop.
LEMMA PopFacts ==
  ASSUME NEW qs \in Queues, NEW q \in QueueNames, qs[q].items # <<>>
  PROVE  /\ Pop(qs, q) \in Queues /\ Head(qs[q].items) \in Items
         /\ Pop(qs, q)[q].items = Tail(qs[q].items) /\ Pop(qs, q)[q].term = qs[q].term
         /\ \A p \in QueueNames \ {q} : Pop(qs, q)[p] = qs[p]
         /\ Len(Tail(qs[q].items)) <= Len(qs[q].items)
  <1> DEFINE x == [qs[q] EXCEPT !.items = Tail(@)]
  <1>1. /\ qs[q] \in [items : Seq(Items), term : BOOLEAN] /\ qs[q].items \in Seq(Items)
        /\ DOMAIN qs = QueueNames
    BY DEF Queues
  <1>2. /\ Tail(qs[q].items) \in Seq(Items) /\ Head(qs[q].items) \in Items
        /\ Len(Tail(qs[q].items)) <= Len(qs[q].items)
    BY <1>1, HeadTailFacts
  <1>3. /\ x \in [items : Seq(Items), term : BOOLEAN]
        /\ x.items = Tail(qs[q].items) /\ x.term = qs[q].term
    BY <1>1, <1>2
  <1>4. Pop(qs, q) = [qs EXCEPT ![q] = x]
    BY DEF Pop
  <1> HIDE DEF x
  <1> QED
    BY <1>1, <1>2, <1>3, <1>4 DEF Queues

\* And a term.
LEMMA TermFacts ==
  ASSUME NEW qs \in Queues, NEW q \in QueueNames
  PROVE  /\ Term(qs, q) \in Queues
         /\ Term(qs, q)[q].items = qs[q].items /\ Term(qs, q)[q].term = TRUE
         /\ \A p \in QueueNames \ {q} : Term(qs, q)[p] = qs[p]
  <1> DEFINE x == [qs[q] EXCEPT !.term = TRUE]
  <1>1. /\ qs[q] \in [items : Seq(Items), term : BOOLEAN] /\ DOMAIN qs = QueueNames
    BY DEF Queues
  <1>2. x \in [items : Seq(Items), term : BOOLEAN] /\ x.items = qs[q].items /\ x.term = TRUE
    BY <1>1
  <1>3. Term(qs, q) = [qs EXCEPT ![q] = x]
    BY DEF Term
  <1> HIDE DEF x
  <1> QED
    BY <1>1, <1>2, <1>3 DEF Queues

\* The files of the backups are sequences of bytes.
LEMMA FilesAre ==
  /\ Files \subseteq Seq(Nat)
  /\ Streams \subseteq Seq(Files)
  <1>1. ASSUME NEW x \in Streams PROVE x \in Seq(Files) /\ ToSet(x) \subseteq Seq(Nat)
    <2>1. x \in Seq(Seq(Nat))
      BY StreamAssumption
    <2>2. /\ Len(x) \in Nat /\ DOMAIN x = 1 .. Len(x) /\ \A n \in 1 .. Len(x) : x[n] \in Seq(Nat)
      BY <2>1, SeqFacts
    <2>3. ToSet(x) \subseteq Files
      BY DEF Files
    <2>4. \A n \in 1 .. Len(x) : x[n] \in Files
      BY <2>2, <2>3 DEF ToSet
    <2>5. x \in [1 .. Len(x) -> Files]
      BY <2>1, <2>2, <2>4
    <2>6. x \in Seq(Files)
      BY <2>2, <2>5
    <2> QED
      BY <2>2, <2>6 DEF ToSet
  <1> QED
    BY <1>1 DEF Files

\* What the algorithm, the files and the method of a job are.
LEMMA Configured ==
  ASSUME Types
  PROVE  /\ files \in Seq(Seq(Nat)) /\ Len(files) \in Nat
         /\ \A n \in 1 .. Len(files) : files[n] \in Seq(Nat) /\ Len(files[n]) \in Nat
         /\ setting.job \in {"backup", "trace"} /\ setting.algorithm \in Algorithms
         /\ setting.method \in Methods
         /\ BlockSize \in Nat \ {0} /\ QueueSize \in Nat \ {0}
  <1>1. files \in Seq(Seq(Nat))
    <2>1. Files \subseteq Seq(Nat)
      BY FilesAre
    <2>2. Seq(Files) \subseteq Seq(Seq(Nat))
      BY <2>1, SeqMonotonic
    <2> QED
      BY <2>2 DEF Types
  <1>2. Len(files) \in Nat /\ \A n \in 1 .. Len(files) : files[n] \in Seq(Nat)
    BY <1>1, SeqFacts
  <1>3. \A n \in 1 .. Len(files) : Len(files[n]) \in Nat
    BY <1>2, SeqFacts
  <1> QED
    BY <1>1, <1>2, <1>3, StreamAssumption DEF Types

\* What SegmentsBounded says of one segment.
SegmentFits(method, s, last) ==
  /\ s.chunk_num = Len(NormalChunks(s.chunks))
  /\ method = "fixed" => s.chunk_num <= SegmentLength /\ (~last => s.chunk_num = SegmentLength)
  /\ method = "content" => /\ s.chunk_num <= Max({SegmentMin + 1, SegmentMax, 2})
                           /\ ~last => s.chunk_num >= SegmentMin
  /\ method = "file" =>
       IF last THEN s.chunks = <<>>
       ELSE \A j \in DOMAIN s.chunks : (s.chunks[j].mark = "end") <=> (j = Len(s.chunks))

\* It says it of each.
LEMMA SegmentsFit ==
  /\ SegmentsBounded <=> \A k \in DOMAIN segments :
                           SegmentFits(setting.method, segments[k], done /\ k = Len(segments))
  /\ SegmentsBounded' <=> \A k \in DOMAIN segments' :
                            SegmentFits(setting'.method, segments'[k], done' /\ k = Len(segments'))
  BY Zenon DEF SegmentsBounded, SegmentFits

\* What dedup_thread has is bounded as before when it does nothing.
LEMMA ConsumerRests ==
  ASSUME TmpBounded, SegmentsBounded, UNCHANGED <<setting, tmp, segments, done>>
  PROVE  TmpBounded' /\ SegmentsBounded' /\ Given' = Given
  <1>1. setting' = setting /\ tmp' = tmp /\ segments' = segments /\ done' = done
    OBVIOUS
  <1>2. TmpBounded'
    BY <1>1 DEF TmpBounded
  <1>3. SegmentsBounded'
    BY <1>1, SegmentsFit
  <1> QED
    BY <1>1, <1>2, <1>3 DEF Given

\* The paths that lead up to what chunk_thread has, none of them touched by its reading.
BehindReader(d, t, l, h, m) ==
  /\ Path(World("hashed"), Given, FrontOf(1), d)
  /\ Path(World("hashed"), queues["trace"].items, d, t)
  /\ Path(World("line"), Pending, t, l)
  /\ Path(World("hashed"), queues["hash"].items, l, h)
  /\ Path(World("cut"), queues["chunk"].items, h, m)
  /\ setting.method = "file" => (tmp.chunks = <<>> <=> ~d.open)

\* FlowAt is what is behind the reading and what is in front of it.
LEMMA FlowSplit ==
  ASSUME NEW d, NEW t, NEW l, NEW h, NEW m, NEW r
  PROVE  FlowAt(d, t, l, h, m, r) <=>
           /\ BehindReader(d, t, l, h, m) /\ ChunkerAt(m, r)
           /\ Path(World("read"), queues["read"].items, r, ReaderPlace)
  BY DEF FlowAt, BehindReader

-----------------------------------------------------------------------------
(* read_thread.                                                            *)

\* Nothing but the reader and its queue changes: the invariant holds if what was read
\* leads to where the reader is.
LEMMA ReaderMoves ==
  ASSUME IInv, UNCHANGED <<files, setting, chunker, consumer>>,
         queues' \in Queues, queues'["chunk"] = queues["chunk"], queues'["hash"] = queues["hash"],
         queues'["trace"] = queues["trace"], Len(queues'["read"].items) <= QueueSize,
         reader' \in [file : Nat, offset : Nat, open : BOOLEAN],
         queues'["read"].term => ~reader'.open /\ AllRead',
         queues["read"].term => queues'["read"].term /\ (queues["read"].items = <<>> => queues'["read"].items = <<>>),
         \A r \in Places(files) : Path(World("read"), queues["read"].items, r, ReaderPlace)
                                    => Path(World("read"), queues'["read"].items, r, ReaderPlace')
  PROVE  IInv'
  <1>1. /\ files' = files /\ setting' = setting /\ chunker' = chunker /\ trace' = trace /\ line' = line
        /\ tmp' = tmp /\ segments' = segments /\ done' = done
    BY DEF consumer
  <1>2. Types /\ Terms /\ Flow /\ TmpBounded /\ SegmentsBounded
    BY DEF IInv
  <1>3. TmpBounded' /\ SegmentsBounded' /\ Given' = Given
    BY <1>1, <1>2, ConsumerRests
  <1>4. Types'
    <2>1. \A q \in QueueNames : Len(queues'[q].items) <= QueueSize
      BY <1>2 DEF Types, QueueNames
    <2> QED
      BY <1>1, <1>2, <2>1 DEF Types, Queues
  <1>5. Terms'
    BY <1>1, <1>2 DEF Terms, Ended, Filled, Traced
  <1>6. Flow'
    <2>1. PICK d, t, l, h, m, r \in Places(files) : FlowAt(d, t, l, h, m, r)
      BY <1>2 DEF Flow
    <2>2. /\ BehindReader(d, t, l, h, m) /\ ChunkerAt(m, r)
          /\ Path(World("read"), queues["read"].items, r, ReaderPlace)
      BY <2>1, FlowSplit
    <2>3. BehindReader(d, t, l, h, m)'
      BY <1>1, <1>3, <2>2 DEF BehindReader, World, Pending, Traced
    <2>4. ChunkerAt(m, r)'
      BY <1>1, <2>2 DEF ChunkerAt, World
    <2>5. Path(World("read"), queues["read"].items, r, ReaderPlace)'
      BY <1>1, <2>2 DEF World
    <2>6. FlowAt(d, t, l, h, m, r)'
      BY <2>3, <2>4, <2>5 DEF FlowAt, BehindReader
    <2> QED
      BY <1>1, <2>6 DEF Flow
  <1> QED
    BY <1>3, <1>4, <1>5, <1>6 DEF IInv

\* The reader is at a place of the files.
LEMMA ReaderFacts ==
  ASSUME IInv
  PROVE  /\ ReaderPlace \in Places(files) /\ ReaderPlace.file = reader.file
         /\ ReaderPlace.offset = reader.offset /\ ReaderPlace.open = reader.open
         /\ reader.file \in 1 .. Len(files) + 1 /\ reader.offset \in Nat
         /\ IF reader.open THEN reader.file <= Len(files) /\ reader.offset <= Len(files[reader.file])
            ELSE reader.offset = 0
         /\ reader.open => reader.file \in 1 .. Len(files) /\ Unread \in Nat
         /\ reader \in [file : Nat, offset : Nat, open : BOOLEAN]
         /\ queues \in Queues
  <1>1. Types /\ Flow
    BY DEF IInv
  <1>2. PICK d, t, l, h, m, r \in Places(files) : FlowAt(d, t, l, h, m, r)
    BY <1>1 DEF Flow
  <1>3. queues \in Queues /\ reader \in [file : Nat, offset : Nat, open : BOOLEAN]
    BY <1>1 DEF Types, Queues
  <1>4. queues["read"].items \in Seq(Items)
    BY <1>3, QueueFacts DEF QueueNames
  <1>5. ReaderPlace \in Places(files)
    <2>1. Path(World("read"), queues["read"].items, r, ReaderPlace)
      BY <1>2 DEF FlowAt
    <2> QED
      BY <1>4, <2>1, PathEnds, Worlds
  <1>6. ReaderPlace.file = reader.file /\ ReaderPlace.offset = reader.offset /\ ReaderPlace.open = reader.open
    BY DEF ReaderPlace
  <1>7. /\ reader.file \in 1 .. Len(files) + 1 /\ reader.offset \in Nat
        /\ IF reader.open THEN reader.file <= Len(files) /\ reader.offset <= Len(files[reader.file])
           ELSE reader.offset = 0
    BY <1>3, <1>5, <1>6 DEF Places
  <1>8. reader.open => reader.file \in 1 .. Len(files) /\ Unread \in Nat
    <2>1. Len(files) \in Nat /\ \A n \in 1 .. Len(files) : Len(files[n]) \in Nat
      BY <1>1, Configured
    <2>2. SUFFICES ASSUME reader.open PROVE reader.file \in 1 .. Len(files) /\ Unread \in Nat
      OBVIOUS
    <2>3. reader.file \in 1 .. Len(files)
      BY <1>7, <2>1, <2>2
    <2>4. Len(files[reader.file]) \in Nat /\ reader.offset <= Len(files[reader.file])
      BY <1>7, <2>1, <2>2, <2>3
    <2> QED
      BY <1>7, <2>3, <2>4 DEF Unread
  <1> QED
    BY <1>3, <1>5, <1>6, <1>7, <1>8

\* A push to the queue of what was read goes on from where the reader is.
LEMMA ReaderPushes ==
  ASSUME IInv, UNCHANGED <<files, setting, chunker, consumer>>, Room("read"), ~queues["read"].term,
         NEW c \in Items, queues' = Push(queues, "read", c),
         reader' \in [file : Nat, offset : Nat, open : BOOLEAN],
         ReaderPlace' \in Places(files), Step(World("read"), ReaderPlace, c, ReaderPlace')
  PROVE  IInv'
  <1>1. queues \in Queues
    BY ReaderFacts
  <1>2. /\ queues' \in Queues /\ queues'["read"].items = Append(queues["read"].items, c)
        /\ queues'["read"].term = queues["read"].term
        /\ \A p \in QueueNames \ {"read"} : queues'[p] = queues[p]
        /\ queues["read"].items \in Seq(Items) /\ Len(queues["read"].items) \in Nat
    <2>1. "read" \in QueueNames
      BY DEF QueueNames
    <2> DEFINE p == Push(queues, "read", c)
    <2>2. /\ p \in Queues /\ p["read"].items = Append(queues["read"].items, c)
          /\ p["read"].term = queues["read"].term
          /\ \A o \in QueueNames \ {"read"} : p[o] = queues[o]
      BY <1>1, <2>1, PushFacts
    <2>3. queues["read"].items \in Seq(Items) /\ Len(queues["read"].items) \in Nat
      BY <1>1, <2>1, QueueFacts
    <2>4. queues' = p
      OBVIOUS
    <2> HIDE DEF p
    <2> QED
      BY <2>2, <2>3, <2>4
  <1>3. queues'["chunk"] = queues["chunk"] /\ queues'["hash"] = queues["hash"] /\ queues'["trace"] = queues["trace"]
    BY <1>2 DEF QueueNames
  <1>4. Len(queues'["read"].items) <= QueueSize
    <2>1. Len(queues'["read"].items) = Len(queues["read"].items) + 1
      BY <1>2, AppendFacts
    <2>2. QueueSize \in Nat
      BY Configured DEF IInv
    <2> QED
      BY <1>2, <2>1, <2>2 DEF Room
  <1>5. ASSUME NEW r \in Places(files), Path(World("read"), queues["read"].items, r, ReaderPlace)
        PROVE  Path(World("read"), queues'["read"].items, r, ReaderPlace')
    <2>1. ReaderPlace' \in Places(World("read").files)
      BY Worlds
    <2> DEFINE e == ReaderPlace'
               b == ReaderPlace
    <2>2. e \in Places(World("read").files) /\ Step(World("read"), b, c, e) /\ Path(World("read"), queues["read"].items, r, b)
      BY <1>5, <2>1
    <2> HIDE DEF e, b
    <2>3. Path(World("read"), Append(queues["read"].items, c), r, e)
      BY <1>2, <2>2, PathAppend
    <2> QED
      BY <1>2, <2>3 DEF e
  <1>6. ~queues'["read"].term
    BY <1>2
  <1> QED
    BY <1>2, <1>3, <1>4, <1>5, <1>6, ReaderMoves

\* What read_thread may read is not yet at its end while it reads.
LEMMA StillReading ==
  ASSUME IInv, reader.open \/ ~AllRead
  PROVE  ~queues["read"].term
  BY DEF IInv, Terms

\* find_one_file sends the start of a file.
LEMMA OpenFileKeeps ==
  ASSUME IInv, OpenFile
  PROVE  IInv'
  <1>1. /\ ~reader.open /\ ~AllRead /\ Room("read")
        /\ queues' = Push(queues, "read", FileStart(reader.file))
        /\ reader' = [reader EXCEPT !.open = TRUE]
        /\ UNCHANGED <<files, setting, chunker, consumer>>
    BY DEF OpenFile
  <1>2. /\ ReaderPlace \in Places(files) /\ reader.file \in 1 .. Len(files) + 1 /\ reader.offset = 0
        /\ reader \in [file : Nat, offset : Nat, open : BOOLEAN] /\ Len(files) \in Nat
    BY <1>1, ReaderFacts, Configured DEF IInv
  <1>3. reader.file <= Len(files) /\ reader.file \in Nat
    BY <1>1, <1>2 DEF AllRead
  <1>4. /\ reader' \in [file : Nat, offset : Nat, open : BOOLEAN]
        /\ reader'.file = reader.file /\ reader'.offset = 0 /\ reader'.open = TRUE
    BY <1>1, <1>2
  <1> DEFINE b == [file |-> reader.file, offset |-> 0, open |-> FALSE]
             e == [file |-> reader.file, offset |-> 0, open |-> TRUE]
  <1>5. ReaderPlace = b /\ ReaderPlace' = e
    BY <1>1, <1>2, <1>4 DEF ReaderPlace
  <1>6. e \in Places(files)
    <2>1. /\ Len(files[reader.file]) \in Nat /\ reader.file \in 1 .. Len(files) + 1
      <3>1. reader.file \in 1 .. Len(files)
        BY <1>2, <1>3
      <3> QED
        BY <1>2, <3>1, Configured DEF IInv
    <2> QED
      BY <1>3, <2>1 DEF Places
  <1>7. Step(World("read"), b, FileStart(reader.file), e)
    <2>1. Opens(World("read"), b, e)
      <3>0. b.open = FALSE /\ b.file = reader.file
        OBVIOUS
      <3>1. e = Within(reader.file, 0)
        BY DEF Within
      <3>2. World("read").files = files
        BY Worlds
      <3> HIDE DEF e, b
      <3> QED
        BY <1>3, <3>0, <3>1, <3>2 DEF Opens
    <2> QED
      BY <2>1, Worlds DEF Step
  <1>8. FileStart(reader.file) \in Items
    BY <1>3, ItemFacts
  <1>9. ~queues["read"].term
    BY <1>1, StillReading
  <1> QED
    BY <1>1, <1>4, <1>5, <1>6, <1>7, <1>8, <1>9, ReaderPushes

\* It reads a block.
LEMMA ReadBlockKeeps ==
  ASSUME IInv, ReadBlock
  PROVE  IInv'
  <1> DEFINE n == Min({BlockSize, Unread})
             f == files[reader.file]
             c == Raw(SubSeq(f, reader.offset + 1, reader.offset + n))
  <1>1. /\ reader.open /\ Unread > 0 /\ Room("read")
        /\ queues' = Push(queues, "read", c)
        /\ reader' = [reader EXCEPT !.offset = @ + n]
        /\ UNCHANGED <<files, setting, chunker, consumer>>
    BY DEF ReadBlock
  <1>2. /\ ReaderPlace \in Places(files) /\ reader.file \in 1 .. Len(files) /\ reader.offset \in Nat
        /\ reader.offset <= Len(f) /\ Unread = Len(f) - reader.offset /\ Unread \in Nat
        /\ reader \in [file : Nat, offset : Nat, open : BOOLEAN]
    BY <1>1, ReaderFacts DEF Unread
  <1>3. f \in Seq(Nat) /\ Len(f) \in Nat /\ BlockSize \in Nat \ {0} /\ Len(files) \in Nat
    BY <1>2, Configured DEF IInv
  <1>4. n \in 1 .. BlockSize /\ n \in 1 .. Len(f) - reader.offset
    <2>1. BlockSize \in Int /\ Unread \in Int
      BY <1>2, <1>3
    <2>2. n = IF BlockSize <= Unread THEN BlockSize ELSE Unread
      BY <2>1, MinMaxOfTwo, Zenon
    <2> HIDE DEF n
    <2> QED
      BY <1>1, <1>2, <1>3, <2>2
  <1> HIDE DEF n, f
  <1>5. /\ reader' \in [file : Nat, offset : Nat, open : BOOLEAN]
        /\ reader'.file = reader.file /\ reader'.offset = reader.offset + n /\ reader'.open = TRUE
    <2>1. n \in Nat /\ reader.offset + n \in Nat
      BY <1>2, <1>3, <1>4
    <2> QED
      BY <1>1, <1>2, <2>1
  <1> DEFINE b == [file |-> reader.file, offset |-> reader.offset, open |-> TRUE]
             e == [file |-> reader.file, offset |-> reader.offset + n, open |-> TRUE]
  <1>6. ReaderPlace = b /\ ReaderPlace' = e
    <2>1. reader.open = TRUE
      BY <1>1, <1>2
    <2> QED
      BY <1>5, <2>1 DEF ReaderPlace
  <1>7. e \in Places(files)
    <2>1. reader.file \in Nat /\ reader.offset + n \in Nat /\ reader.offset + n <= Len(f)
          /\ reader.file \in 1 .. Len(files) + 1 /\ reader.file <= Len(files)
      BY <1>2, <1>3, <1>4
    <2> QED
      BY <2>1 DEF Places, f
  <1>8. Step(World("read"), b, c, e)
    <2>1. Moves(World("read"), b, n, e)
      <3>0. b.open = TRUE /\ b.file = reader.file /\ b.offset = reader.offset
        OBVIOUS
      <3>1. e = Within(reader.file, reader.offset + n)
        BY DEF Within
      <3>2. World("read").files = files
        BY Worlds
      <3> HIDE DEF e, b
      <3> QED
        BY <1>4, <3>0, <3>1, <3>2 DEF Moves, f
    <2>2. c = Raw(Span(World("read"), b, n))
      BY DEF Span, World, f
    <2> QED
      BY <1>4, <2>1, <2>2, Worlds DEF Step
  <1>9. c \in Items
    <2>1. reader.offset + n <= Len(f) /\ n \in Nat
      BY <1>2, <1>3, <1>4
    <2>2. SubSeq(f, reader.offset + 1, reader.offset + n) \in Seq(Nat)
      BY <1>2, <1>3, <2>1, SubSeqBetween
    <2> QED
      BY <2>2, ItemFacts
  <1>10. ~queues["read"].term
    BY <1>1, StillReading
  <1> HIDE DEF c
  <1> QED
    BY <1>1, <1>5, <1>6, <1>7, <1>8, <1>9, <1>10, ReaderPushes

\* It closes a file.
LEMMA CloseFileKeeps ==
  ASSUME IInv, CloseFile
  PROVE  IInv'
  <1> DEFINE f == files[reader.file]
  <1>1. /\ reader.open /\ Unread = 0 /\ Room("read")
        /\ queues' = Push(queues, "read", FileEnd)
        /\ reader' = [reader EXCEPT !.file = @ + 1, !.offset = 0, !.open = FALSE]
        /\ UNCHANGED <<files, setting, chunker, consumer>>
    BY DEF CloseFile
  <1>2. /\ ReaderPlace \in Places(files) /\ reader.file \in 1 .. Len(files) /\ reader.offset \in Nat
        /\ Unread = Len(f) - reader.offset
        /\ reader \in [file : Nat, offset : Nat, open : BOOLEAN]
    BY <1>1, ReaderFacts DEF Unread
  <1>3. Len(f) \in Nat /\ Len(files) \in Nat
    BY <1>2, Configured DEF IInv
  <1>4. reader.offset = Len(f)
    BY <1>1, <1>2, <1>3
  <1>5. /\ reader' \in [file : Nat, offset : Nat, open : BOOLEAN]
        /\ reader'.file = reader.file + 1 /\ reader'.offset = 0 /\ reader'.open = FALSE
    <2>1. reader.file + 1 \in Nat
      BY <1>2, <1>3
    <2> QED
      BY <1>1, <1>2, <2>1
  <1> DEFINE b == [file |-> reader.file, offset |-> reader.offset, open |-> TRUE]
             e == FrontOf(reader.file + 1)
  <1>6. ReaderPlace = b /\ ReaderPlace' = e
    <2>1. reader.open = TRUE
      BY <1>1, <1>2
    <2> QED
      BY <1>5, <2>1 DEF ReaderPlace, FrontOf
  <1>7. e \in Places(files)
    <2>1. reader.file + 1 \in Nat /\ reader.file + 1 \in 1 .. Len(files) + 1
      BY <1>2, <1>3
    <2> QED
      BY <2>1 DEF Places, FrontOf
  <1>8. Step(World("read"), b, FileEnd, e)
    <2>1. Closes(World("read"), b, e)
      BY <1>4 DEF Closes, World
    <2> QED
      BY <2>1, Worlds DEF Step
  <1>9. FileEnd \in Items
    BY ItemFacts
  <1>10. ~queues["read"].term
    BY <1>1, StillReading
  <1> QED
    BY <1>1, <1>5, <1>6, <1>7, <1>8, <1>9, <1>10, ReaderPushes

\* And ends.
LEMMA EndReadKeeps ==
  ASSUME IInv, EndRead
  PROVE  IInv'
  <1>1. /\ ~reader.open /\ AllRead /\ queues' = Term(queues, "read")
        /\ UNCHANGED <<files, setting, reader, chunker, consumer>>
    BY DEF EndRead
  <1>2. reader \in [file : Nat, offset : Nat, open : BOOLEAN] /\ queues \in Queues
    BY ReaderFacts
  <1>3. /\ queues' \in Queues /\ queues'["read"].items = queues["read"].items /\ queues'["read"].term = TRUE
        /\ \A p \in QueueNames \ {"read"} : queues'[p] = queues[p]
    <2>1. "read" \in QueueNames
      BY DEF QueueNames
    <2> QED
      BY <1>1, <1>2, <2>1, TermFacts
  <1>4. queues'["chunk"] = queues["chunk"] /\ queues'["hash"] = queues["hash"] /\ queues'["trace"] = queues["trace"]
    BY <1>3 DEF QueueNames
  <1>5. Len(queues'["read"].items) <= QueueSize
    BY <1>3 DEF IInv, Types, QueueNames
  <1>6. ReaderPlace' = ReaderPlace /\ AllRead' /\ ~reader'.open /\ reader' = reader
    BY <1>1 DEF ReaderPlace, AllRead
  <1> QED
    BY <1>1, <1>2, <1>3, <1>4, <1>5, <1>6, ReaderMoves

-----------------------------------------------------------------------------
(* chunk_thread.                                                           *)

\* What is cut leads from h to the chunker, and what is read on to the reader.
Leads(h) ==
  \E m, r \in Places(files) :
    /\ Path(World("cut"), queues["chunk"].items, h, m)
    /\ ChunkerAt(m, r)
    /\ Path(World("read"), queues["read"].items, r, ReaderPlace)

\* What is behind the cutting.
BehindChunker(d, t, l, h) ==
  /\ Path(World("hashed"), Given, FrontOf(1), d)
  /\ Path(World("hashed"), queues["trace"].items, d, t)
  /\ Path(World("line"), Pending, t, l)
  /\ Path(World("hashed"), queues["hash"].items, l, h)
  /\ setting.method = "file" => (tmp.chunks = <<>> <=> ~d.open)

\* FlowAt in these parts.
LEMMA FlowLeads ==
  /\ Flow <=> \E d, t, l, h \in Places(files) : BehindChunker(d, t, l, h) /\ Leads(h)
  /\ Flow' <=> \E d, t, l, h \in Places(files') : BehindChunker(d, t, l, h)' /\ Leads(h)'
  <1>1. Flow <=> \E d, t, l, h \in Places(files) : BehindChunker(d, t, l, h) /\ Leads(h)
    BY Zenon DEF Flow, FlowAt, BehindChunker, Leads
  <1>2. Flow' <=> \E d, t, l, h \in Places(files') : BehindChunker(d, t, l, h)' /\ Leads(h)'
    BY Zenon DEF Flow, FlowAt, BehindChunker, Leads
  <1> QED
    BY <1>1, <1>2

\* The worlds stay.
LEMMA WorldsStay ==
  ASSUME UNCHANGED <<files, setting>>, NEW stage
  PROVE  World(stage)' = World(stage)
  BY DEF World

\* Nothing but the chunker and its queues changes: the invariant holds if what is cut
\* and read still leads to the reader.
LEMMA ChunkerMoves ==
  ASSUME IInv, UNCHANGED <<files, setting, reader, consumer>>, ~queues["chunk"].term,
         queues' \in Queues, queues'["hash"] = queues["hash"], queues'["trace"] = queues["trace"],
         Len(queues'["read"].items) <= QueueSize, Len(queues'["chunk"].items) <= QueueSize,
         queues'["read"].term = queues["read"].term,
         chunker' \in [pc : {"start", "first", "cut"}, left : Seq(Nat), c : {NoItem, FileEnd}],
         queues'["chunk"].term => chunker'.pc = "start" /\ queues["read"].term /\ queues'["read"].items = <<>>,
         \A h \in Places(files) : Leads(h) => Leads(h)'
  PROVE  IInv'
  <1>1. /\ files' = files /\ setting' = setting /\ reader' = reader /\ trace' = trace /\ line' = line
        /\ tmp' = tmp /\ segments' = segments /\ done' = done
    BY DEF consumer
  <1>2. Types /\ Terms /\ Flow /\ TmpBounded /\ SegmentsBounded
    BY DEF IInv
  <1>3. TmpBounded' /\ SegmentsBounded' /\ Given' = Given
    BY <1>1, <1>2, ConsumerRests
  <1>4. Types'
    <2>1. \A q \in QueueNames : Len(queues'[q].items) <= QueueSize
      BY <1>2 DEF Types, QueueNames
    <2> QED
      BY <1>1, <1>2, <2>1 DEF Types, Queues
  <1>5. Terms'
    <2>1. ~queues["hash"].term /\ ~Traced /\ ~queues["trace"].term
      BY <1>2 DEF Terms, Ended, Filled
    <2>2. ~queues'["hash"].term /\ ~Traced' /\ ~queues'["trace"].term /\ line = 0
      BY <1>1, <1>2, <2>1 DEF Traced, Terms
    <2>3. queues'["read"].term => ~reader'.open /\ AllRead'
      BY <1>1, <1>2 DEF Terms, AllRead
    <2>4. queues'["chunk"].term => chunker'.pc = "start" /\ Ended("read")'
      BY DEF Ended, Filled
    <2> QED
      BY <1>1, <1>2, <2>2, <2>3, <2>4 DEF Terms
  <1>6. Flow'
    <2>1. PICK d, t, l, h \in Places(files) : BehindChunker(d, t, l, h) /\ Leads(h)
      BY <1>2, FlowLeads
    <2>2. BehindChunker(d, t, l, h)'
      BY <1>1, <1>3, <2>1 DEF BehindChunker, World, Pending, Traced
    <2>3. Leads(h)'
      BY <2>1
    <2> QED
      BY <1>1, <2>2, <2>3, FlowLeads
  <1> QED
    BY <1>3, <1>4, <1>5, <1>6 DEF IInv

\* What the chunker is.
LEMMA ChunkerFacts ==
  ASSUME IInv
  PROVE  /\ queues \in Queues /\ chunker.left \in Seq(Nat) /\ Len(chunker.left) \in Nat
         /\ chunker \in [pc : {"start", "first", "cut"}, left : Seq(Nat), c : {NoItem, FileEnd}]
         /\ \A q \in QueueNames : Len(queues[q].items) <= QueueSize
         /\ chunk_max_size(setting.algorithm) \in Nat \ {0}
         /\ queues["chunk"].term => chunker.pc = "start" /\ queues["read"].term /\ queues["read"].items = <<>>
  <1>1. Types /\ Terms
    BY DEF IInv
  <1>2. chunker.left \in Seq(Nat) /\ queues \in Queues
    BY <1>1 DEF Types, Queues
  <1>3. Len(chunker.left) \in Nat
    BY <1>2, SeqFacts
  <1>4. chunk_max_size(setting.algorithm) \in Nat \ {0}
    BY <1>1, Configured, Limits
  <1>5. queues["chunk"].term => chunker.pc = "start" /\ queues["read"].term /\ queues["read"].items = <<>>
    BY <1>1 DEF Terms, Ended, Filled
  <1> QED
    BY <1>1, <1>2, <1>3, <1>4, <1>5 DEF Types

\* A push when there is room.
LEMMA PushRoom ==
  ASSUME IInv, NEW q \in QueueNames, Room(q), NEW c \in Items
  PROVE  Len(Append(queues[q].items, c)) <= QueueSize
  <1>1. queues[q].items \in Seq(Items) /\ Len(queues[q].items) \in Nat
    BY ChunkerFacts, QueueFacts
  <1>2. Len(Append(queues[q].items, c)) = Len(queues[q].items) + 1
    BY <1>1, AppendFacts
  <1>3. QueueSize \in Nat
    BY Configured DEF IInv
  <1> QED
    BY <1>1, <1>2, <1>3 DEF Room

\* Within a file.
LEMMA PlaceFacts ==
  ASSUME Types, NEW m \in Places(files)
  PROVE  /\ m = [file |-> m.file, offset |-> m.offset, open |-> m.open]
         /\ m.file \in 1 .. Len(files) + 1 /\ m.file \in Nat /\ m.offset \in Nat /\ m.open \in BOOLEAN
         /\ m.open => /\ m.file \in 1 .. Len(files) /\ m.offset <= Len(files[m.file])
                      /\ files[m.file] \in Seq(Nat) /\ Len(files[m.file]) \in Nat
                      /\ m = Within(m.file, m.offset)
         /\ ~m.open => m.offset = 0 /\ m = FrontOf(m.file)
  <1>1. /\ m = [file |-> m.file, offset |-> m.offset, open |-> m.open]
        /\ m.file \in 1 .. Len(files) + 1 /\ m.file \in Nat /\ m.offset \in Nat /\ m.open \in BOOLEAN
        /\ IF m.open THEN m.file <= Len(files) /\ m.offset <= Len(files[m.file]) ELSE m.offset = 0
    BY DEF Places
  <1>2. Len(files) \in Nat
    BY Configured
  <1>3. ASSUME m.open
        PROVE  /\ m.file \in 1 .. Len(files) /\ m.offset <= Len(files[m.file])
               /\ files[m.file] \in Seq(Nat) /\ Len(files[m.file]) \in Nat
               /\ m = Within(m.file, m.offset)
    <2>1. m.file \in 1 .. Len(files)
      BY <1>1, <1>2, <1>3
    <2>2. m.open = TRUE
      BY <1>1, <1>3
    <2> QED
      BY <1>1, <1>3, <2>1, <2>2, Configured DEF Within
  <1>4. ASSUME ~m.open PROVE m.offset = 0 /\ m = FrontOf(m.file)
    <2>1. m.open = FALSE /\ m.offset = 0
      BY <1>1, <1>4
    <2> QED
      BY <1>1, <2>1 DEF FrontOf
  <1> QED
    BY <1>1, <1>3, <1>4

\* And the other way round.
LEMMA PlacesAre ==
  ASSUME Types, NEW n \in Nat
  PROVE  /\ n \in 1 .. Len(files) + 1 => FrontOf(n) \in Places(files)
         /\ \A k \in Nat : n \in 1 .. Len(files) /\ k <= Len(files[n]) => Within(n, k) \in Places(files)
         /\ FrontOf(n).open = FALSE /\ FrontOf(n).offset = 0 /\ FrontOf(n).file = n
         /\ \A k : Within(n, k).open = TRUE /\ Within(n, k).offset = k /\ Within(n, k).file = n
  <1>1. Len(files) \in Nat
    BY Configured
  <1>2. n \in 1 .. Len(files) + 1 => FrontOf(n) \in Places(files)
    BY DEF Places, FrontOf
  <1>3. ASSUME NEW k \in Nat, n \in 1 .. Len(files), k <= Len(files[n])
        PROVE  Within(n, k) \in Places(files)
    BY <1>1, <1>3 DEF Places, Within
  <1>4. FrontOf(n).open = FALSE /\ FrontOf(n).offset = 0 /\ FrontOf(n).file = n
    BY DEF FrontOf
  <1>5. \A k : Within(n, k).open = TRUE /\ Within(n, k).offset = k /\ Within(n, k).file = n
    BY DEF Within
  <1> QED
    BY <1>2, <1>3, <1>4, <1>5

\* No bytes.
LEMMA NoBytes ==
  ASSUME NEW w, NEW a, w.files[a.file] \in Seq(Nat), a.offset \in Nat
  PROVE  Span(w, a, 0) = <<>>
  <1> DEFINE f == w.files[a.file]
             o == a.offset
  <1>1. SubSeq(f, o + 1, o + 0) = <<>>
    <2>1. f \in Seq(Nat) /\ o \in Nat
      OBVIOUS
    <2> HIDE DEF f, o
    <2> QED
      BY <2>1
  <1> QED
    BY <1>1 DEF Span

\* Views of what chunk_thread makes.
LEMMA CutViews ==
  ASSUME NEW w, w.stage = "cut"
  PROVE  /\ \A n \in Nat : View(w, FileStart(n)) = Item("start", <<n>>, ZeroFp, 0)
         /\ View(w, FileEnd) = FileEnd
         /\ \A b \in Seq(Nat) : View(w, Raw(b)) = Item("chunk", <<>>, b, Len(b))
  <1>1. \A c : View(w, c) = Identity(Hashed(c))
    BY DEF View
  <1>2. ASSUME NEW n \in Nat PROVE View(w, FileStart(n)) = Item("start", <<n>>, ZeroFp, 0)
    <2> DEFINE c == FileStart(n)
    <2>1. c \in Items /\ c.mark = "start" /\ c.data = <<n>> /\ c.fp = ZeroFp
      BY ItemFacts
    <2> HIDE DEF c
    <2>2. Identity(c) = Item("start", <<n>>, ZeroFp, 0) /\ Hashed(c) = c
      BY <2>1, ItemFields, HashedFacts DEF IsMark
    <2> QED
      BY <1>1, <2>2 DEF c
  <1>3. View(w, FileEnd) = FileEnd
    <2>1. FileEnd \in Items /\ FileEnd.mark = "end"
      BY ItemFacts
    <2>2. FileEnd.fp = ZeroFp /\ FileEnd.size = 0 /\ FileEnd = Item("end", <<>>, ZeroFp, 0)
      BY DEF FileEnd, Item
    <2>3. Identity(FileEnd) = Item("end", <<>>, ZeroFp, 0) /\ Hashed(FileEnd) = FileEnd
      BY <2>1, <2>2, ItemFields, HashedFacts DEF IsMark
    <2> QED
      BY <1>1, <2>2, <2>3
  <1>4. ASSUME NEW b \in Seq(Nat) PROVE View(w, Raw(b)) = Item("chunk", <<>>, b, Len(b))
    <2> DEFINE c == Raw(b)
    <2>1. c \in Items /\ c.mark = "chunk" /\ c.data = b /\ c.size = Len(b) /\ ~IsMark(c)
      BY ItemFacts DEF IsMark
    <2> HIDE DEF c
    <2> DEFINE e == Item("chunk", b, b, Len(b))
    <2>2. Hashed(c) = e /\ e \in Items
      BY <2>1, HashedFacts
    <2>3. e.mark = "chunk" /\ e.fp = b /\ e.size = Len(b)
      BY ItemEqual DEF e
    <2> HIDE DEF e
    <2>4. Identity(e) = Item("chunk", <<>>, b, Len(b))
      BY <2>2, <2>3, ItemFields
    <2> QED
      BY <1>1, <2>2, <2>4 DEF c
  <1> QED
    BY <1>2, <1>3, <1>4

\* What ChunkerAt says of a new chunker.
LEMMA ChunkerAtNext ==
  ASSUME UNCHANGED <<files, setting>>, NEW n, NEW s
  PROVE  ChunkerAt(n, s)' <=>
           /\ Len(chunker'.left) < chunk_max_size(setting.algorithm) + BlockSize
           /\ n.open <=> chunker'.pc # "start"
           /\ chunker'.pc # "cut" => chunker'.left = <<>> /\ chunker'.c = NoItem
           /\ ~n.open => s = n
           /\ n.open =>
                /\ n.offset + Len(chunker'.left) <= Len(files[n.file])
                /\ chunker'.left = Span(World("cut"), n, Len(chunker'.left))
                /\ IF chunker'.c = NoItem THEN s = Within(n.file, n.offset + Len(chunker'.left))
                   ELSE n.offset + Len(chunker'.left) = Len(files[n.file]) /\ s = FrontOf(n.file + 1)
  <1>1. files' = files /\ setting' = setting /\ World("cut")' = World("cut")
    BY WorldsStay
  <1> QED
    BY <1>1 DEF ChunkerAt

\* The next paths of the chunker.
LEMMA LeadsNext ==
  ASSUME UNCHANGED <<files, setting, reader>>, NEW h, NEW n \in Places(files), NEW s \in Places(files),
         Path(World("cut"), queues'["chunk"].items, h, n), ChunkerAt(n, s)',
         Path(World("read"), queues'["read"].items, s, ReaderPlace)
  PROVE  Leads(h)'
  <1>1. World("cut")' = World("cut") /\ World("read")' = World("read") /\ ReaderPlace' = ReaderPlace
    BY WorldsStay DEF ReaderPlace
  <1>2. files' = files
    OBVIOUS
  <1> QED
    BY <1>1, <1>2 DEF Leads

\* What the next item that was read can be.
LEMMA NextRead ==
  ASSUME IInv, NEW r \in Places(files), Filled("read"),
         Path(World("read"), queues["read"].items, r, ReaderPlace)
  PROVE  /\ First("read") \in Items
         /\ \E s \in Places(files) :
              /\ Path(World("read"), Tail(queues["read"].items), s, ReaderPlace)
              /\ \/ ~r.open /\ r.file \in 1 .. Len(files) /\ s = Within(r.file, 0)
                    /\ First("read") = FileStart(r.file)
                 \/ r.open /\ \E n \in 1 .. BlockSize :
                      /\ n \in 1 .. Len(files[r.file]) - r.offset /\ s = Within(r.file, r.offset + n)
                      /\ First("read") = Raw(Span(World("read"), r, n))
                 \/ r.open /\ r.offset = Len(files[r.file]) /\ s = FrontOf(r.file + 1)
                    /\ First("read") = FileEnd
  <1>1. queues["read"].items \in Seq(Items) /\ queues["read"].items # <<>>
    BY ChunkerFacts, QueueFacts DEF Filled, QueueNames
  <1>2. First("read") \in Items /\ First("read") = Head(queues["read"].items)
    BY <1>1, HeadTailFacts DEF First
  <1>3. World("read").files = files /\ World("read").stage = "read"
    BY Worlds
  <1> DEFINE w == World("read")
  <1>4. PICK s \in Places(w.files) :
          Step(w, r, First("read"), s) /\ Path(w, Tail(queues["read"].items), s, ReaderPlace)
    <2> HIDE DEF w
    <2> QED
      BY <1>1, <1>2, PathHead DEF w
  <1>5. \/ Opens(w, r, s) /\ First("read") = FileStart(r.file)
        \/ \E n \in 1 .. BlockSize : Moves(w, r, n, s) /\ First("read") = Raw(Span(w, r, n))
        \/ Closes(w, r, s) /\ First("read") = FileEnd
    BY <1>3, <1>4 DEF Step
  <1>6. /\ r.file \in 1 .. Len(files) + 1 /\ r.file \in Nat /\ Len(files) \in Nat
    BY PlaceFacts, Configured DEF IInv
  <1>7. CASE Opens(w, r, s) /\ First("read") = FileStart(r.file)
    <2>1. ~r.open /\ r.file <= Len(files) /\ s = Within(r.file, 0)
      BY <1>3, <1>7 DEF Opens
    <2>2. r.file \in 1 .. Len(files)
      BY <1>6, <2>1
    <2> QED
      BY <1>2, <1>3, <1>4, <1>7, <2>1, <2>2
  <1>8. ASSUME NEW n \in 1 .. BlockSize, Moves(w, r, n, s), First("read") = Raw(Span(w, r, n))
        PROVE  /\ r.open /\ n \in 1 .. Len(files[r.file]) - r.offset
               /\ s = Within(r.file, r.offset + n)
    BY <1>3, <1>8 DEF Moves
  <1>9. CASE Closes(w, r, s) /\ First("read") = FileEnd
    <2>1. r.open /\ r.offset = Len(files[r.file]) /\ s = FrontOf(r.file + 1)
      BY <1>3, <1>9 DEF Closes
    <2> QED
      BY <1>2, <1>3, <1>4, <1>9, <2>1
  <1> QED
    BY <1>2, <1>3, <1>4, <1>5, <1>7, <1>8, <1>9

\* chunk_thread sends on the start of a file.
LEMMA ChunkFileStartKeeps ==
  ASSUME IInv, ChunkFileStart
  PROVE  IInv'
  <1>1. /\ chunker.pc = "start" /\ Filled("read") /\ Room("chunk")
        /\ queues' = Push(Pop(queues, "read"), "chunk", First("read"))
        /\ chunker' = [chunker EXCEPT !.pc = "first"]
        /\ UNCHANGED <<files, setting, reader, consumer>>
    BY DEF ChunkFileStart
  <1> DEFINE rq == queues["read"].items
             cq == queues["chunk"].items
             c == First("read")
             p == Pop(queues, "read")
             q == Push(p, "chunk", c)
  <1>2. /\ queues \in Queues /\ rq # <<>> /\ c = Head(rq) /\ "read" \in QueueNames /\ "chunk" \in QueueNames
        /\ "hash" \in QueueNames /\ "trace" \in QueueNames
    BY <1>1, ChunkerFacts DEF Filled, First, QueueNames
  <1>3. /\ p \in Queues /\ c \in Items /\ p["read"].items = Tail(rq) /\ p["read"].term = queues["read"].term
        /\ \A o \in QueueNames \ {"read"} : p[o] = queues[o]
        /\ Len(Tail(rq)) <= Len(rq)
    BY <1>2, PopFacts
  <1> HIDE DEF p
  <1>4. /\ q \in Queues /\ q["chunk"].items = Append(p["chunk"].items, c)
        /\ q["chunk"].term = p["chunk"].term
        /\ \A o \in QueueNames \ {"chunk"} : q[o] = p[o]
    <2> HIDE DEF c
    <2> QED
      BY <1>2, <1>3, PushFacts
  <1>5. /\ q["read"].items = Tail(rq) /\ q["read"].term = queues["read"].term
        /\ q["chunk"].items = Append(cq, c) /\ q["chunk"].term = queues["chunk"].term
        /\ q["hash"] = queues["hash"] /\ q["trace"] = queues["trace"] /\ queues' = q
    BY <1>1, <1>2, <1>3, <1>4 DEF p
  <1> HIDE DEF q
  <1>6. /\ chunker'.pc = "first" /\ chunker'.left = chunker.left /\ chunker'.c = chunker.c
        /\ chunker' \in [pc : {"start", "first", "cut"}, left : Seq(Nat), c : {NoItem, FileEnd}]
    BY <1>1, ChunkerFacts
  <1>7. ~queues["chunk"].term
    BY <1>2, ChunkerFacts
  <1>8. Len(Append(cq, c)) <= QueueSize /\ Len(Tail(rq)) <= QueueSize
    <2>1. Len(Append(cq, c)) <= QueueSize
      BY <1>1, <1>2, <1>3, PushRoom
    <2>2. Len(rq) <= QueueSize /\ Len(rq) \in Nat /\ Len(Tail(rq)) \in Nat /\ QueueSize \in Nat
      BY <1>2, <1>3, ChunkerFacts, QueueFacts, HeadTailFacts, Configured DEF IInv
    <2> QED
      BY <1>3, <2>1, <2>2
  <1>9. ASSUME NEW h \in Places(files), Leads(h) PROVE Leads(h)'
    <2>1. PICK m, r \in Places(files) :
            /\ Path(World("cut"), cq, h, m) /\ ChunkerAt(m, r)
            /\ Path(World("read"), rq, r, ReaderPlace)
      BY <1>9 DEF Leads
    <2>2. ~m.open /\ r = m /\ chunker.left = <<>> /\ chunker.c = NoItem
      BY <1>1, <2>1 DEF ChunkerAt
    <2>3. PICK s \in Places(files) :
            /\ Path(World("read"), Tail(rq), s, ReaderPlace)
            /\ m.file \in 1 .. Len(files) /\ s = Within(m.file, 0) /\ c = FileStart(m.file)
      BY <1>1, <2>1, <2>2, NextRead
    <2>4. m.file \in Nat /\ files[m.file] \in Seq(Nat) /\ Len(files[m.file]) \in Nat
      BY <2>3, PlaceFacts, Configured DEF IInv
    <2>5. s.open = TRUE /\ s.offset = 0 /\ s.file = m.file
      BY <2>3 DEF Within
    <2>6. Step(World("cut"), m, c, s)
      <3>1. Opens(World("cut"), m, s)
        <4>1. m.file <= Len(files)
          BY <2>3, Configured DEF IInv
        <4> QED
          BY <2>2, <2>3, <4>1, Worlds DEF Opens
      <3>2. View(World("cut"), c) = Item("start", <<m.file>>, ZeroFp, 0)
        BY <2>3, <2>4, CutViews, Worlds
      <3> QED
        BY <3>1, <3>2, Worlds DEF Step
    <2>7. Path(World("cut"), Append(cq, c), h, s)
      <3>1. cq \in Seq(Items) /\ s \in Places(World("cut").files)
        BY <1>2, QueueFacts, Worlds
      <3> HIDE DEF cq, c
      <3> QED
        BY <1>3, <2>1, <2>6, <3>1, PathAppend
    <2>8. ChunkerAt(s, s)'
      <3>1. Span(World("cut"), s, 0) = <<>>
        BY <2>4, <2>5, NoBytes, Worlds
      <3>2. Len(<<>>) = 0 /\ s.offset + 0 = 0 /\ 0 <= Len(files[m.file])
        BY <2>4, <2>5
      <3>3. 0 < chunk_max_size(setting.algorithm) + BlockSize
        BY ChunkerFacts, Configured DEF IInv
      <3>4. chunker'.left = <<>> /\ chunker'.c = NoItem
        BY <1>6, <2>2
      <3> QED
        BY <1>1, <1>6, <2>3, <2>5, <3>1, <3>2, <3>3, <3>4, ChunkerAtNext
    <2> QED
      BY <1>1, <1>5, <2>3, <2>7, <2>8, LeadsNext
  <1> QED
    BY <1>1, <1>4, <1>5, <1>6, <1>7, <1>8, <1>9, ChunkerMoves

\* The next item that was read is taken.
LEMMA ReadTaken ==
  ASSUME IInv, Filled("read"), queues' = Pop(queues, "read")
  PROVE  /\ queues' \in Queues /\ queues'["read"].items = Tail(queues["read"].items)
         /\ queues'["read"].term = queues["read"].term /\ queues'["chunk"] = queues["chunk"]
         /\ queues'["hash"] = queues["hash"] /\ queues'["trace"] = queues["trace"]
         /\ Len(queues'["read"].items) <= QueueSize /\ Len(queues'["chunk"].items) <= QueueSize
  <1> DEFINE rq == queues["read"].items
             p == Pop(queues, "read")
  <1>1. /\ queues \in Queues /\ rq # <<>> /\ "read" \in QueueNames /\ "chunk" \in QueueNames
        /\ "hash" \in QueueNames /\ "trace" \in QueueNames
    BY ChunkerFacts DEF Filled, QueueNames
  <1>2. /\ p \in Queues /\ p["read"].items = Tail(rq) /\ p["read"].term = queues["read"].term
        /\ \A o \in QueueNames \ {"read"} : p[o] = queues[o]
        /\ Len(Tail(rq)) <= Len(rq)
    BY <1>1, PopFacts
  <1>3. queues' = p
    OBVIOUS
  <1> HIDE DEF p
  <1>4. Len(rq) <= QueueSize /\ Len(queues["chunk"].items) <= QueueSize
    BY <1>1, ChunkerFacts
  <1>5. rq \in Seq(Items) /\ Len(rq) \in Nat /\ Tail(rq) \in Seq(Items) /\ QueueSize \in Nat
    BY <1>1, QueueFacts, HeadTailFacts, Configured DEF IInv
  <1>6. Len(Tail(rq)) \in Nat
    BY <1>5, SeqFacts
  <1>7. Len(Tail(rq)) <= QueueSize
    BY <1>2, <1>4, <1>5, <1>6
  <1> QED
    BY <1>1, <1>2, <1>3, <1>4, <1>7

\* An item that was cut is sent.
LEMMA CutSent ==
  ASSUME IInv, Room("chunk"), NEW c \in Items, queues' = Push(queues, "chunk", c)
  PROVE  /\ queues' \in Queues /\ queues'["chunk"].items = Append(queues["chunk"].items, c)
         /\ queues'["chunk"].term = queues["chunk"].term /\ queues'["read"] = queues["read"]
         /\ queues'["hash"] = queues["hash"] /\ queues'["trace"] = queues["trace"]
         /\ Len(queues'["read"].items) <= QueueSize /\ Len(queues'["chunk"].items) <= QueueSize
  <1> DEFINE p == Push(queues, "chunk", c)
  <1>1. /\ queues \in Queues /\ "read" \in QueueNames /\ "chunk" \in QueueNames
        /\ "hash" \in QueueNames /\ "trace" \in QueueNames
    BY ChunkerFacts DEF QueueNames
  <1>2. /\ p \in Queues /\ p["chunk"].items = Append(queues["chunk"].items, c)
        /\ p["chunk"].term = queues["chunk"].term
        /\ \A o \in QueueNames \ {"chunk"} : p[o] = queues[o]
    BY <1>1, PushFacts
  <1>3. queues' = p
    OBVIOUS
  <1> HIDE DEF p
  <1>4. Len(queues["read"].items) <= QueueSize /\ Len(Append(queues["chunk"].items, c)) <= QueueSize
    BY <1>1, ChunkerFacts, PushRoom
  <1> QED
    BY <1>1, <1>2, <1>3, <1>4

\* The bytes that follow on others.
LEMMA SpanGrows ==
  ASSUME NEW f \in Seq(Nat), NEW a \in Nat, NEW l \in Nat, NEW n \in Nat, a + l + n <= Len(f)
  PROVE  /\ SubSeq(f, a + 1, a + l) \o SubSeq(f, (a + l) + 1, (a + l) + n) = SubSeq(f, a + 1, a + (l + n))
         /\ Len(SubSeq(f, a + 1, a + (l + n))) = l + n
         /\ SubSeq(f, a + 1, a + (l + n)) \in Seq(Nat)
         /\ SubSeq(SubSeq(f, a + 1, a + (l + n)), 1, l) = SubSeq(f, a + 1, a + l)
         /\ SubSeq(SubSeq(f, a + 1, a + (l + n)), l + 1, l + n) = SubSeq(f, (a + l) + 1, (a + l) + n)
         /\ SubSeq(f, a + 1, a + l) \in Seq(Nat) /\ Len(SubSeq(f, a + 1, a + l)) = l
  <1> DEFINE k == l + n
  <1>1. /\ k \in Nat /\ l \in 0 .. k /\ a + k <= Len(f) /\ k - l = n /\ a + l + 1 = (a + l) + 1
        /\ a + l + (k - l) = (a + l) + n /\ a + l <= Len(f)
    <2>1. Len(f) \in Nat
      BY SeqFacts
    <2> QED
      BY <2>1
  <1> HIDE DEF k
  <1>2. /\ SubSeq(SubSeq(f, a + 1, a + k), 1, l) = SubSeq(f, a + 1, a + l)
        /\ SubSeq(SubSeq(f, a + 1, a + k), l + 1, k) = SubSeq(f, a + l + 1, a + l + (k - l))
        /\ SubSeq(f, a + 1, a + k) = SubSeq(f, a + 1, a + l) \o SubSeq(f, a + l + 1, a + l + (k - l))
    BY <1>1, SubSeqTwice
  <1>3. SubSeq(f, a + 1, a + k) \in Seq(Nat) /\ Len(SubSeq(f, a + 1, a + k)) = k
    BY <1>1, SubSeqBetween
  <1>4. SubSeq(f, a + 1, a + l) \in Seq(Nat) /\ Len(SubSeq(f, a + 1, a + l)) = l
    BY <1>1, SubSeqBetween
  <1> QED
    BY <1>1, <1>2, <1>3, <1>4 DEF k

\* The chunker fills its buffer from the next block, or meets the end of the file.
LEMMA FillKeeps ==
  ASSUME IInv, Fill
  PROVE  IInv'
  <1> DEFINE rq == queues["read"].items
             cq == queues["chunk"].items
             c == First("read")
             left == chunker.left
  <1>1. /\ chunker.pc = "first" \/ (chunker.pc = "cut" /\ Hungry)
        /\ Filled("read")
        /\ chunker' = IF c.mark = "end" THEN [chunker EXCEPT !.pc = "cut", !.c = c]
                      ELSE [chunker EXCEPT !.pc = "cut", !.left = @ \o c.data]
        /\ queues' = Pop(queues, "read")
        /\ UNCHANGED <<files, setting, reader, consumer>>
    BY DEF Fill
  <1>2. /\ queues' \in Queues /\ queues'["read"].items = Tail(queues["read"].items)
        /\ queues'["read"].term = queues["read"].term /\ queues'["chunk"] = queues["chunk"]
        /\ queues'["hash"] = queues["hash"] /\ queues'["trace"] = queues["trace"]
        /\ Len(queues'["read"].items) <= QueueSize /\ Len(queues'["chunk"].items) <= QueueSize
    BY <1>1, ReadTaken
  <1>3. ~queues["chunk"].term
    <2>1. queues["read"].items # <<>>
      BY <1>1 DEF Filled
    <2> QED
      BY <2>1, ChunkerFacts
  <1>4. /\ chunker \in [pc : {"start", "first", "cut"}, left : Seq(Nat), c : {NoItem, FileEnd}]
        /\ left \in Seq(Nat) /\ Len(left) \in Nat
        /\ chunk_max_size(setting.algorithm) \in Nat \ {0} /\ BlockSize \in Nat \ {0}
    BY ChunkerFacts, Configured DEF IInv
  <1>5. PICK d, t, l, h \in Places(files) : BehindChunker(d, t, l, h) /\ Leads(h)
    BY FlowLeads DEF IInv
  <1>6. ASSUME NEW g \in Places(files), Leads(g)
        PROVE  /\ chunker' \in [pc : {"start", "first", "cut"}, left : Seq(Nat), c : {NoItem, FileEnd}]
               /\ Leads(g)'
    <2>1. PICK m, r \in Places(files) :
            /\ Path(World("cut"), cq, g, m) /\ ChunkerAt(m, r)
            /\ Path(World("read"), rq, r, ReaderPlace)
      BY <1>6 DEF Leads
    <2>2. /\ m.open /\ chunker.c = NoItem
          /\ Len(left) < chunk_max_size(setting.algorithm)
      <3>1. m.open <=> chunker.pc # "start"
        BY <2>1 DEF ChunkerAt
      <3>2. CASE chunker.pc = "first"
        <4>1. left = <<>> /\ chunker.c = NoItem
          BY <2>1, <3>2 DEF ChunkerAt
        <4>2. Len(left) = 0
          BY <4>1
        <4> QED
          BY <1>4, <3>1, <3>2, <4>1, <4>2
      <3>3. CASE chunker.pc = "cut" /\ Hungry
        BY <3>1, <3>3 DEF Hungry
      <3> QED
        BY <1>1, <3>2, <3>3
    <2> DEFINE f == files[m.file]
               k == Len(left)
               o == m.offset
    <2>3. /\ o + k <= Len(f) /\ left = Span(World("cut"), m, k)
          /\ r = Within(m.file, o + k)
      BY <2>1, <2>2 DEF ChunkerAt
    <2>4. m.file \in 1 .. Len(files) /\ m.file \in Nat /\ o \in Nat /\ f \in Seq(Nat) /\ Len(f) \in Nat
      BY <2>2, PlaceFacts DEF IInv
    <2>5. r.open = TRUE /\ r.file = m.file /\ r.offset = o + k
      BY <2>3 DEF Within
    <2>6. \A n : Span(World("cut"), m, n) = SubSeq(f, o + 1, o + n)
      BY Worlds DEF Span
    <2>7. \A n : Span(World("read"), r, n) = SubSeq(f, (o + k) + 1, (o + k) + n)
      BY <2>5, Worlds DEF Span
    <2> HIDE DEF f, k, o
    <2>8. ASSUME NEW s \in Places(files), Path(World("read"), Tail(rq), s, ReaderPlace),
                 NEW n \in 1 .. BlockSize, n \in 1 .. Len(files[r.file]) - r.offset,
                 s = Within(r.file, r.offset + n), c = Raw(Span(World("read"), r, n))
          PROVE  /\ chunker' \in [pc : {"start", "first", "cut"}, left : Seq(Nat), c : {NoItem, FileEnd}]
                 /\ Leads(g)'
      <3> DEFINE b == SubSeq(f, (o + k) + 1, (o + k) + n)
                 e == SubSeq(f, o + 1, o + (k + n))
      <3>1. n \in Nat /\ k \in Nat /\ o + k + n <= Len(f) /\ o + (k + n) <= Len(f) /\ (o + k) + n = o + (k + n) /\ k + n \in Nat
        <4>1. files[r.file] = f
          BY <2>5 DEF f
        <4> QED
          BY <1>4, <2>4, <2>5, <2>8, <4>1 DEF k
      <3>2. left \o b = e /\ Len(e) = k + n /\ e \in Seq(Nat)
        <4>1. /\ SubSeq(f, o + 1, o + k) \o b = e /\ Len(e) = k + n /\ e \in Seq(Nat)
          BY <2>4, <3>1, SpanGrows
        <4>2. left = SubSeq(f, o + 1, o + k)
          BY <2>3, <2>6
        <4> HIDE DEF b, e, left
        <4> QED
          BY <4>1, <4>2
      <3>3. b \in Seq(Nat) /\ c = Raw(b)
        <4>1. (o + k) \in Nat /\ (o + k) + n <= Len(f)
          BY <2>4, <3>1
        <4> QED
          BY <2>4, <2>7, <2>8, <3>1, <4>1, SubSeqBetween
      <3>4. c.mark = "chunk" /\ c.data = b
        BY <3>3, ItemFacts
      <3> HIDE DEF b, e, c
      <3>5. chunker' = [chunker EXCEPT !.pc = "cut", !.left = e]
        <4>1. c.mark # "end"
          BY <3>4
        <4> QED
          BY <1>1, <3>2, <3>4, <4>1
      <3>6. /\ chunker' \in [pc : {"start", "first", "cut"}, left : Seq(Nat), c : {NoItem, FileEnd}]
            /\ chunker'.pc = "cut" /\ chunker'.left = e /\ chunker'.c = NoItem
        BY <1>4, <2>2, <3>2, <3>5
      <3>7. ChunkerAt(m, s)'
        <4>1. Len(e) < chunk_max_size(setting.algorithm) + BlockSize
          BY <1>4, <2>2, <3>1, <3>2, <2>8 DEF k
        <4>2. o + Len(e) <= Len(f)
          BY <3>1, <3>2
        <4>3. e = Span(World("cut"), m, Len(e))
          BY <2>6, <3>2 DEF e
        <4>4. s = Within(m.file, o + Len(e))
          BY <2>5, <2>8, <3>1, <3>2
        <4>5. chunker'.pc # "start" /\ ~(chunker'.pc # "cut")
          BY <3>6
        <4> QED
          BY <1>1, <2>2, <3>6, <4>1, <4>2, <4>3, <4>4, <4>5, ChunkerAtNext DEF f, o
      <3>8. Leads(g)'
        BY <1>1, <1>2, <2>1, <2>8, <3>7, LeadsNext
      <3> QED
        BY <3>6, <3>8
    <2>9. ASSUME NEW s \in Places(files), Path(World("read"), Tail(rq), s, ReaderPlace),
                 r.offset = Len(files[r.file]), s = FrontOf(r.file + 1), c = FileEnd
          PROVE  /\ chunker' \in [pc : {"start", "first", "cut"}, left : Seq(Nat), c : {NoItem, FileEnd}]
                 /\ Leads(g)'
      <3> HIDE DEF c
      <3>1. chunker' = [chunker EXCEPT !.pc = "cut", !.c = FileEnd]
        <4>1. c.mark = "end"
          BY <2>9, ItemFacts
        <4> QED
          BY <1>1, <2>9, <4>1
      <3>2. /\ chunker' \in [pc : {"start", "first", "cut"}, left : Seq(Nat), c : {NoItem, FileEnd}]
            /\ chunker'.pc = "cut" /\ chunker'.left = left /\ chunker'.c = FileEnd /\ chunker'.c # NoItem
        BY <1>4, <3>1, ItemFacts
      <3>3. ChunkerAt(m, s)'
        <4>1. Len(left) < chunk_max_size(setting.algorithm) + BlockSize
          BY <1>4, <2>2
        <4>2. o + Len(left) <= Len(f) /\ o + Len(left) = Len(f)
          BY <2>3, <2>5, <2>9, <2>4 DEF f, k
        <4>3. left = Span(World("cut"), m, Len(left))
          BY <2>3 DEF k
        <4>4. s = FrontOf(m.file + 1)
          BY <2>5, <2>9
        <4>5. chunker'.pc # "start" /\ ~(chunker'.pc # "cut")
          BY <3>2
        <4> HIDE DEF left
        <4> QED
          BY <1>1, <2>2, <3>2, <4>1, <4>2, <4>3, <4>4, <4>5, ChunkerAtNext DEF f, o
      <3>4. Leads(g)'
        BY <1>1, <1>2, <2>1, <2>9, <3>3, LeadsNext
      <3> QED
        BY <3>2, <3>4
    <2>10. r.open
      BY <2>5
    <2> HIDE DEF c, left
    <2> QED
      BY <1>1, <2>1, <2>8, <2>9, <2>10, NextRead DEF c
  <1>7. chunker' \in [pc : {"start", "first", "cut"}, left : Seq(Nat), c : {NoItem, FileEnd}]
    BY <1>5, <1>6
  <1>8. \A g \in Places(files) : Leads(g) => Leads(g)'
    BY <1>6
  <1>9. ~queues'["chunk"].term
    BY <1>2, <1>3
  <1> QED
    BY <1>1, <1>2, <1>3, <1>7, <1>8, <1>9, ChunkerMoves

\* What the chunker has of an open file.
LEMMA AtHand ==
  ASSUME IInv, NEW m \in Places(files), NEW r \in Places(files), ChunkerAt(m, r), m.open
  PROVE  /\ m.file \in 1 .. Len(files) /\ m.file \in Nat
         /\ files[m.file] \in Seq(Nat) /\ Len(files[m.file]) \in Nat
         /\ m.offset \in Nat /\ Len(chunker.left) \in Nat
         /\ m.offset + Len(chunker.left) <= Len(files[m.file])
         /\ chunker.left = SubSeq(files[m.file], m.offset + 1, m.offset + Len(chunker.left))
         /\ Len(chunker.left) < chunk_max_size(setting.algorithm) + BlockSize
         /\ IF chunker.c = NoItem THEN r = Within(m.file, m.offset + Len(chunker.left))
            ELSE m.offset + Len(chunker.left) = Len(files[m.file]) /\ r = FrontOf(m.file + 1)
         /\ \A n : Span(World("cut"), m, n) = SubSeq(files[m.file], m.offset + 1, m.offset + n)
         /\ Rest(World("cut"), m) = SubSeq(files[m.file], m.offset + 1, Len(files[m.file]))
  <1>1. /\ m.offset + Len(chunker.left) <= Len(files[m.file])
        /\ chunker.left = Span(World("cut"), m, Len(chunker.left))
        /\ Len(chunker.left) < chunk_max_size(setting.algorithm) + BlockSize
        /\ IF chunker.c = NoItem THEN r = Within(m.file, m.offset + Len(chunker.left))
           ELSE m.offset + Len(chunker.left) = Len(files[m.file]) /\ r = FrontOf(m.file + 1)
    BY DEF ChunkerAt
  <1>2. /\ m.file \in 1 .. Len(files) /\ m.file \in Nat /\ m.offset \in Nat
        /\ files[m.file] \in Seq(Nat) /\ Len(files[m.file]) \in Nat
    BY PlaceFacts DEF IInv
  <1>3. /\ \A n : Span(World("cut"), m, n) = SubSeq(files[m.file], m.offset + 1, m.offset + n)
        /\ Rest(World("cut"), m) = SubSeq(files[m.file], m.offset + 1, Len(files[m.file]))
    BY Worlds DEF Span, Rest
  <1>4. Len(chunker.left) \in Nat
    BY ChunkerFacts
  <1>5. chunker.left = SubSeq(files[m.file], m.offset + 1, m.offset + Len(chunker.left))
    BY <1>1, <1>3, Zenon
  <1> QED
    BY <1>1, <1>2, <1>3, <1>4, <1>5

\* The size of the chunk that it cuts.
LEMMA SizeAtHand ==
  ASSUME IInv, NEW m \in Places(files), NEW r \in Places(files), ChunkerAt(m, r), m.open,
         ~Hungry, chunker.left # <<>>, NEW n, n = chunking(setting.algorithm, chunker.left)
  PROVE  n \in 1 .. Len(chunker.left) /\ Sized(World("cut"), m, n)
  <1> DEFINE f == files[m.file]
             left == chunker.left
             k == Len(left)
             o == m.offset
             alg == setting.algorithm
             rest == SubSeq(f, o + 1, Len(f))
  <1>1. /\ f \in Seq(Nat) /\ Len(f) \in Nat /\ o \in Nat /\ k \in Nat /\ o + k <= Len(f)
        /\ left = SubSeq(f, o + 1, o + k) /\ k < chunk_max_size(alg) + BlockSize
        /\ chunker.c # NoItem => o + k = Len(f)
        /\ Rest(World("cut"), m) = rest
    BY AtHand
  <1>2. /\ left \in Seq(Nat) /\ left # <<>> /\ alg \in Algorithms
        /\ chunk_max_size(alg) \in Nat \ {0} /\ BlockSize \in Nat \ {0}
    BY ChunkerFacts, Configured DEF IInv
  <1>3. k < chunk_max_size(alg) => chunker.c # NoItem
    BY DEF Hungry
  <1>4. World("cut").algorithm = alg /\ World("cut").stage = "cut"
    BY Worlds
  <1> HIDE DEF f, left, o, alg, k
  <1>5. n \in 1 .. k
    BY <1>2, ChunkSizes DEF left, alg, k
  <1>6. CASE alg = "ae"
    <2>1. n < MaxSize + BlockSize
      <3>1. chunk_max_size(alg) = MaxSize
        BY <1>2, <1>6, Limits
      <3> QED
        BY <1>1, <1>2, <1>5, <3>1
    <2> QED
      BY <1>4, <1>6, <2>1, <1>5 DEF Sized, left, k
  <1>7. CASE alg # "ae"
    <2>1. n = chunking(alg, rest)
      <3>1. CASE o + k = Len(f)
        BY <1>1, <3>1 DEF alg, left
      <3>2. CASE o + k # Len(f)
        <4>1. k >= chunk_max_size(alg)
          BY <1>1, <1>2, <1>3, <3>2
        <4> DEFINE j == Len(f) - o
        <4>2. j \in Nat /\ o + j = Len(f) /\ k <= j
          BY <1>1
        <4> HIDE DEF j
        <4>3. /\ SubSeq(f, o + 1, o + j) \in Seq(Nat) /\ Len(SubSeq(f, o + 1, o + j)) = j
              /\ \A i \in 1 .. j : SubSeq(f, o + 1, o + j)[i] = f[o + i]
          <5> HIDE DEF rest
          <5> QED
            BY <1>1, <4>2, SubSeqBetween
        <4>4. \A i \in 1 .. k : left[i] = f[o + i]
          <5>1. \A i \in 1 .. k : SubSeq(f, o + 1, o + k)[i] = f[o + i]
            <6> HIDE DEF rest
            <6> QED
              BY <1>1, SubSeqBetween
          <5> QED
            BY <1>1, <5>1
        <4>5. rest \in Seq(Nat) /\ Len(rest) = j /\ \A i \in 1 .. j : rest[i] = f[o + i]
          BY <4>2, <4>3
        <4> HIDE DEF rest
        <4>6. \A i \in 1 .. k : left[i] = rest[i]
          <5>1. \A i \in 1 .. k : i \in 1 .. j
            BY <1>1, <4>2
          <5> QED
            BY <4>4, <4>5, <5>1
        <4>7. alg \in Algorithms \ {"ae"} /\ Len(left) = k
          BY <1>2, <1>7 DEF k
        <4>8. chunking(alg, left) = chunking(alg, rest)
          BY <1>2, <4>1, <4>2, <4>5, <4>6, <4>7, ChunkingLocal
        <4> QED
          BY <4>8 DEF alg, left
      <3> QED
        BY <3>1, <3>2
    <2> QED
      BY <1>1, <1>4, <1>5, <1>7, <2>1 DEF Sized, left, k
  <1> QED
    BY <1>6, <1>7

\* The chunker cuts a chunk.
LEMMA CutKeeps ==
  ASSUME IInv, Cut
  PROVE  IInv'
  <1> DEFINE rq == queues["read"].items
             cq == queues["chunk"].items
             left == chunker.left
             k == Len(left)
  <1>0. PICK n : n = chunking(setting.algorithm, left)
    OBVIOUS
  <1> DEFINE c == Raw(SubSeq(left, 1, n))
             next == SubSeq(left, n + 1, k)
  <1>1. /\ chunker.pc = "cut" /\ ~Hungry /\ left # <<>> /\ Room("chunk")
        /\ queues' = Push(queues, "chunk", c)
        /\ chunker' = [chunker EXCEPT !.left = next]
        /\ UNCHANGED <<files, setting, reader, consumer>>
    BY <1>0 DEF Cut
  <1>2. /\ chunker \in [pc : {"start", "first", "cut"}, left : Seq(Nat), c : {NoItem, FileEnd}]
        /\ left \in Seq(Nat) /\ k \in Nat /\ setting.algorithm \in Algorithms
        /\ chunk_max_size(setting.algorithm) \in Nat \ {0} /\ BlockSize \in Nat \ {0}
    BY ChunkerFacts, Configured DEF IInv
  <1>3. ~queues["chunk"].term
    BY <1>1, ChunkerFacts
  <1>4. n \in 1 .. k
    BY <1>0, <1>1, <1>2, ChunkSizes
  <1>5. /\ SubSeq(left, 1, n) \in Seq(Nat) /\ Len(SubSeq(left, 1, n)) = n
        /\ next \in Seq(Nat) /\ Len(next) = k - n
    <2>1. n \in 0 .. Len(left)
      BY <1>2, <1>4
    <2> HIDE DEF left
    <2> QED
      BY <1>2, <2>1, SubSeqFacts DEF k
  <1>6. c \in Items
    BY <1>5, ItemFacts
  <1>7. /\ queues' \in Queues /\ queues'["chunk"].items = Append(queues["chunk"].items, c)
        /\ queues'["chunk"].term = queues["chunk"].term /\ queues'["read"] = queues["read"]
        /\ queues'["hash"] = queues["hash"] /\ queues'["trace"] = queues["trace"]
        /\ Len(queues'["read"].items) <= QueueSize /\ Len(queues'["chunk"].items) <= QueueSize
    <2> HIDE DEF c
    <2> QED
      BY <1>1, <1>6, CutSent
  <1> HIDE DEF c, next
  <1>8. /\ chunker' \in [pc : {"start", "first", "cut"}, left : Seq(Nat), c : {NoItem, FileEnd}]
        /\ chunker'.pc = "cut" /\ chunker'.left = next /\ chunker'.c = chunker.c
    BY <1>1, <1>2, <1>5
  <1>9. ASSUME NEW h \in Places(files), Leads(h) PROVE Leads(h)'
    <2>1. PICK m, r \in Places(files) :
            /\ Path(World("cut"), cq, h, m) /\ ChunkerAt(m, r)
            /\ Path(World("read"), rq, r, ReaderPlace)
      BY <1>9 DEF Leads
    <2>2. m.open
      BY <1>1, <2>1 DEF ChunkerAt
    <2> DEFINE f == files[m.file]
               o == m.offset
               s == Within(m.file, o + n)
               j == k - n
    <2>3. /\ m.file \in 1 .. Len(files) /\ m.file \in Nat /\ f \in Seq(Nat) /\ Len(f) \in Nat
          /\ o \in Nat /\ k \in Nat /\ o + k <= Len(f)
          /\ left = SubSeq(f, o + 1, o + k)
          /\ k < chunk_max_size(setting.algorithm) + BlockSize
          /\ IF chunker.c = NoItem THEN r = Within(m.file, o + k)
             ELSE o + k = Len(f) /\ r = FrontOf(m.file + 1)
          /\ \A x : Span(World("cut"), m, x) = SubSeq(f, o + 1, o + x)
      BY <2>1, <2>2, AtHand
    <2>4. Sized(World("cut"), m, n)
      BY <1>0, <1>1, <2>1, <2>2, SizeAtHand
    <2>5. /\ n \in Nat /\ j \in Nat /\ n + j = k /\ o + n + j <= Len(f) /\ o + n <= Len(f)
          /\ (o + n) + j = o + k /\ n \in 1 .. Len(f) - o /\ o + n \in Nat /\ j < chunk_max_size(setting.algorithm) + BlockSize
      <3> HIDE DEF k, o, f
      <3> QED
        BY <1>2, <1>4, <2>3
    <2>6. s \in Places(files) /\ s.open = TRUE /\ s.offset = o + n /\ s.file = m.file
      <3>1. s \in Places(files)
        BY <2>3, <2>5, PlacesAre DEF IInv
      <3> QED
        BY <3>1 DEF Within
    <2> HIDE DEF f, o, s, left, k, j
    <2>7. /\ SubSeq(left, 1, n) = SubSeq(f, o + 1, o + n)
          /\ next = SubSeq(f, (o + n) + 1, (o + n) + j)
      <3>1. left = SubSeq(f, o + 1, o + (n + j)) /\ k = n + j
        BY <2>3, <2>5
      <3>2. /\ SubSeq(f, o + 1, o + n) \o SubSeq(f, (o + n) + 1, (o + n) + j) = SubSeq(f, o + 1, o + (n + j))
            /\ SubSeq(SubSeq(f, o + 1, o + (n + j)), 1, n) = SubSeq(f, o + 1, o + n)
            /\ SubSeq(SubSeq(f, o + 1, o + (n + j)), n + 1, n + j) = SubSeq(f, (o + n) + 1, (o + n) + j)
        <4>1. f \in Seq(Nat) /\ o \in Nat /\ n \in Nat /\ j \in Nat /\ o + n + j <= Len(f)
          BY <2>3, <2>5
        <4> QED
          BY <4>1, SpanGrows
      <3> QED
        BY <3>1, <3>2 DEF next
    <2>8. Step(World("cut"), m, c, s)
      <3>1. Moves(World("cut"), m, n, s)
        BY <2>2, <2>5, Worlds DEF Moves, s, o, f
      <3>2. View(World("cut"), c) = Item("chunk", <<>>, SubSeq(left, 1, n), n)
        BY <1>5, CutViews, Worlds DEF c
      <3>3. SubSeq(left, 1, n) = Span(World("cut"), m, n)
        BY <2>3, <2>7
      <3>4. \E x \in Nat : /\ Moves(World("cut"), m, x, s) /\ Sized(World("cut"), m, x)
                          /\ View(World("cut"), c) = Item("chunk", <<>>, Span(World("cut"), m, x), x)
        BY <2>4, <2>5, <3>1, <3>2, <3>3
      <3>5. World("cut").stage # "read"
        BY Worlds
      <3> QED
        BY <3>4, <3>5 DEF Step
    <2>9. Path(World("cut"), Append(cq, c), h, s)
      <3>1. cq \in Seq(Items) /\ s \in Places(World("cut").files)
        BY <2>6, ChunkerFacts, QueueFacts, Worlds DEF QueueNames
      <3> HIDE DEF cq
      <3> QED
        BY <1>6, <2>1, <2>8, <3>1, PathAppend
    <2>10. ChunkerAt(s, r)'
      <3>1. Span(World("cut"), s, j) = next
        <4>1. Span(World("cut"), s, j) = SubSeq(f, (o + n) + 1, (o + n) + j)
          BY <2>6, Worlds DEF Span, f
        <4> QED
          BY <2>7, <4>1
      <3>2. Len(next) = j
        BY <1>5 DEF j
      <3>3. IF chunker'.c = NoItem THEN r = Within(s.file, s.offset + j)
            ELSE s.offset + j = Len(files[s.file]) /\ r = FrontOf(s.file + 1)
        BY <1>8, <2>3, <2>5, <2>6 DEF f
      <3>4. s.offset + j <= Len(files[s.file])
        BY <2>5, <2>6 DEF f
      <3>5. ~(chunker'.pc # "cut") /\ chunker'.pc # "start"
        BY <1>8
      <3>6. s.open
        BY <2>6
      <3> QED
        BY <1>1, <1>8, <2>5, <3>1, <3>2, <3>3, <3>4, <3>5, <3>6, ChunkerAtNext
    <2>11. Path(World("cut"), queues'["chunk"].items, h, s)
      BY <1>7, <2>9
    <2>12. Path(World("read"), queues'["read"].items, r, ReaderPlace)
      BY <1>7, <2>1
    <2> QED
      BY <1>1, <2>1, <2>6, <2>10, <2>11, <2>12, LeadsNext
  <1>10. ~queues'["chunk"].term
    BY <1>3, <1>7
  <1>11. queues'["read"].term = queues["read"].term
    BY <1>7
  <1> QED
    BY <1>1, <1>3, <1>7, <1>8, <1>9, <1>10, <1>11, ChunkerMoves

\* The chunker sends on the end of the file.
LEMMA ChunkFileEndKeeps ==
  ASSUME IInv, ChunkFileEnd
  PROVE  IInv'
  <1> DEFINE rq == queues["read"].items
             cq == queues["chunk"].items
  <1>1. /\ chunker.pc = "cut" /\ ~Hungry /\ chunker.left = <<>> /\ Room("chunk")
        /\ queues' = Push(queues, "chunk", chunker.c)
        /\ chunker' = [chunker EXCEPT !.pc = "start", !.c = NoItem]
        /\ UNCHANGED <<files, setting, reader, consumer>>
    BY DEF ChunkFileEnd
  <1>2. /\ chunker \in [pc : {"start", "first", "cut"}, left : Seq(Nat), c : {NoItem, FileEnd}]
        /\ chunk_max_size(setting.algorithm) \in Nat \ {0} /\ BlockSize \in Nat \ {0}
    BY ChunkerFacts, Configured DEF IInv
  <1>3. chunker.c = FileEnd /\ chunker.c # NoItem
    <2>1. Len(chunker.left) = 0
      BY <1>1
    <2>2. Len(chunker.left) < chunk_max_size(setting.algorithm)
      BY <1>2, <2>1
    <2> QED
      BY <1>1, <1>2, <2>2 DEF Hungry
  <1>4. queues' = Push(queues, "chunk", FileEnd) /\ FileEnd \in Items
    BY <1>1, <1>3, ItemFacts
  <1>5. ~queues["chunk"].term
    BY <1>1, ChunkerFacts
  <1>6. /\ queues' \in Queues /\ queues'["chunk"].items = Append(queues["chunk"].items, FileEnd)
        /\ queues'["chunk"].term = queues["chunk"].term /\ queues'["read"] = queues["read"]
        /\ queues'["hash"] = queues["hash"] /\ queues'["trace"] = queues["trace"]
        /\ Len(queues'["read"].items) <= QueueSize /\ Len(queues'["chunk"].items) <= QueueSize
    BY <1>1, <1>4, CutSent
  <1>7. /\ chunker' \in [pc : {"start", "first", "cut"}, left : Seq(Nat), c : {NoItem, FileEnd}]
        /\ chunker'.pc = "start" /\ chunker'.left = chunker.left /\ chunker'.c = NoItem
    BY <1>1, <1>2
  <1>8. ASSUME NEW h \in Places(files), Leads(h) PROVE Leads(h)'
    <2>1. PICK m, r \in Places(files) :
            /\ Path(World("cut"), cq, h, m) /\ ChunkerAt(m, r)
            /\ Path(World("read"), rq, r, ReaderPlace)
      BY <1>8 DEF Leads
    <2>2. m.open
      BY <1>1, <2>1 DEF ChunkerAt
    <2>3. /\ m.file \in 1 .. Len(files) /\ m.file \in Nat /\ m.offset \in Nat /\ Len(chunker.left) = 0
          /\ m.offset = Len(files[m.file]) /\ r = FrontOf(m.file + 1)
      <3>1. Len(chunker.left) = 0
        BY <1>1
      <3> QED
        BY <1>3, <2>1, <2>2, <3>1, AtHand
    <2>4. Step(World("cut"), m, FileEnd, r)
      <3>1. Closes(World("cut"), m, r)
        BY <2>2, <2>3, Worlds DEF Closes
      <3>2. View(World("cut"), FileEnd) = FileEnd
        BY CutViews, Worlds
      <3> QED
        BY <3>1, <3>2, Worlds DEF Step
    <2>5. Path(World("cut"), Append(cq, FileEnd), h, r)
      <3>1. cq \in Seq(Items) /\ r \in Places(World("cut").files)
        BY ChunkerFacts, QueueFacts, Worlds DEF QueueNames
      <3> HIDE DEF cq
      <3> QED
        BY <1>4, <2>1, <2>4, <3>1, PathAppend
    <2>6. ChunkerAt(r, r)'
      <3>1. ~r.open
        BY <2>3 DEF FrontOf
      <3>2. 0 < chunk_max_size(setting.algorithm) + BlockSize
        BY <1>2
      <3> QED
        BY <1>1, <1>7, <2>3, <3>1, <3>2, ChunkerAtNext
    <2>7. Path(World("cut"), queues'["chunk"].items, h, r)
      BY <1>6, <2>5
    <2>8. Path(World("read"), queues'["read"].items, r, ReaderPlace)
      BY <1>6, <2>1
    <2> QED
      BY <1>1, <2>1, <2>6, <2>7, <2>8, LeadsNext
  <1>9. ~queues'["chunk"].term
    BY <1>5, <1>6
  <1>10. queues'["read"].term = queues["read"].term
    BY <1>6
  <1> QED
    BY <1>1, <1>5, <1>6, <1>7, <1>8, <1>9, <1>10, ChunkerMoves

\* The chunker ends.
LEMMA EndChunkKeeps ==
  ASSUME IInv, EndChunk
  PROVE  IInv'
  <1>1. /\ chunker.pc = "start" /\ Ended("read") /\ ~queues["chunk"].term
        /\ queues' = Term(queues, "chunk")
        /\ UNCHANGED <<files, setting, reader, chunker, consumer>>
    BY DEF EndChunk
  <1>2. /\ queues \in Queues /\ "read" \in QueueNames /\ "chunk" \in QueueNames
        /\ "hash" \in QueueNames /\ "trace" \in QueueNames
        /\ \A q \in QueueNames : Len(queues[q].items) <= QueueSize
        /\ chunker \in [pc : {"start", "first", "cut"}, left : Seq(Nat), c : {NoItem, FileEnd}]
    BY ChunkerFacts DEF QueueNames
  <1> DEFINE p == Term(queues, "chunk")
  <1>3. /\ p \in Queues /\ p["chunk"].items = queues["chunk"].items /\ p["chunk"].term = TRUE
        /\ \A o \in QueueNames \ {"chunk"} : p[o] = queues[o]
    BY <1>2, TermFacts
  <1> HIDE DEF p
  <1>4. /\ queues' \in Queues /\ queues'["chunk"].items = queues["chunk"].items
        /\ queues'["read"] = queues["read"] /\ queues'["hash"] = queues["hash"]
        /\ queues'["trace"] = queues["trace"]
    BY <1>1, <1>2, <1>3 DEF p
  <1>5. Len(queues'["read"].items) <= QueueSize /\ Len(queues'["chunk"].items) <= QueueSize
    BY <1>2, <1>4
  <1>6. chunker' = chunker /\ chunker'.pc = "start" /\ queues["read"].term /\ queues'["read"].items = <<>>
    BY <1>1, <1>4 DEF Ended, Filled
  <1>7. ASSUME NEW h \in Places(files), Leads(h) PROVE Leads(h)'
    <2>1. PICK m, r \in Places(files) :
            /\ Path(World("cut"), queues["chunk"].items, h, m) /\ ChunkerAt(m, r)
            /\ Path(World("read"), queues["read"].items, r, ReaderPlace)
      BY <1>7 DEF Leads
    <2>2. ChunkerAt(m, r)'
      <3>1. files' = files /\ setting' = setting /\ chunker' = chunker
        BY <1>1
      <3> QED
        BY <2>1, <3>1 DEF ChunkerAt, World
    <2> QED
      BY <1>1, <1>4, <2>1, <2>2, LeadsNext
  <1>8. queues'["read"].term = queues["read"].term
    BY <1>4
  <1> QED
    BY <1>1, <1>2, <1>4, <1>5, <1>6, <1>7, <1>8, ChunkerMoves

-----------------------------------------------------------------------------
(* sha1_thread.                                                            *)

\* What is hashed and what is cut leads from l to m.
Hashes(l, m) ==
  \E h \in Places(files) :
    /\ Path(World("hashed"), queues["hash"].items, l, h)
    /\ Path(World("cut"), queues["chunk"].items, h, m)

\* What is behind the hashing, and what is in front of it.
AroundHash(d, t, l, m, r) ==
  /\ Path(World("hashed"), Given, FrontOf(1), d)
  /\ Path(World("hashed"), queues["trace"].items, d, t)
  /\ Path(World("line"), Pending, t, l)
  /\ ChunkerAt(m, r)
  /\ Path(World("read"), queues["read"].items, r, ReaderPlace)
  /\ setting.method = "file" => (tmp.chunks = <<>> <=> ~d.open)

\* FlowAt in these parts.
LEMMA FlowHashes ==
  /\ Flow <=> \E d, t, l, m, r \in Places(files) : AroundHash(d, t, l, m, r) /\ Hashes(l, m)
  /\ Flow' <=> \E d, t, l, m, r \in Places(files') : AroundHash(d, t, l, m, r)' /\ Hashes(l, m)'
  <1>1. Flow <=> \E d, t, l, m, r \in Places(files) : AroundHash(d, t, l, m, r) /\ Hashes(l, m)
    BY Zenon DEF Flow, FlowAt, AroundHash, Hashes
  <1>2. Flow' <=> \E d, t, l, m, r \in Places(files') : AroundHash(d, t, l, m, r)' /\ Hashes(l, m)'
    BY Zenon DEF Flow, FlowAt, AroundHash, Hashes
  <1> QED
    BY <1>1, <1>2

\* Nothing but the queues of sha1_thread changes: the invariant holds if what is hashed
\* and cut still leads to the chunker.
LEMMA HasherMoves ==
  ASSUME IInv, UNCHANGED <<files, setting, reader, chunker, consumer>>, ~queues["hash"].term,
         queues' \in Queues, queues'["read"] = queues["read"], queues'["trace"] = queues["trace"],
         Len(queues'["chunk"].items) <= QueueSize, Len(queues'["hash"].items) <= QueueSize,
         queues'["chunk"].term = queues["chunk"].term,
         queues'["hash"].term => queues["chunk"].term /\ queues'["chunk"].items = <<>>,
         \A l, m \in Places(files) : Hashes(l, m) => Hashes(l, m)'
  PROVE  IInv'
  <1>1. /\ files' = files /\ setting' = setting /\ reader' = reader /\ chunker' = chunker
        /\ trace' = trace /\ line' = line /\ tmp' = tmp /\ segments' = segments /\ done' = done
    BY DEF consumer
  <1>2. Types /\ Terms /\ Flow /\ TmpBounded /\ SegmentsBounded
    BY DEF IInv
  <1>3. TmpBounded' /\ SegmentsBounded' /\ Given' = Given
    BY <1>1, <1>2, ConsumerRests
  <1>4. Types'
    <2>1. \A q \in QueueNames : Len(queues'[q].items) <= QueueSize
      BY <1>2 DEF Types, QueueNames
    <2> QED
      BY <1>1, <1>2, <2>1 DEF Types, Queues
  <1>5. Terms'
    <2>1. ~Traced /\ ~queues["trace"].term
      BY <1>2 DEF Terms, Ended, Filled
    <2>2. ~Traced' /\ ~queues'["trace"].term /\ line = 0
      BY <1>1, <1>2, <2>1 DEF Traced, Terms
    <2>3. queues'["read"].term => ~reader'.open /\ AllRead'
      BY <1>1, <1>2 DEF Terms, AllRead
    <2>4. queues'["chunk"].term => chunker'.pc = "start" /\ Ended("read")'
      BY <1>1, <1>2 DEF Terms, Ended, Filled
    <2>5. queues'["hash"].term => Ended("chunk")'
      BY DEF Ended, Filled
    <2> QED
      BY <1>1, <1>2, <2>2, <2>3, <2>4, <2>5 DEF Terms
  <1>6. Flow'
    <2>1. PICK d, t, l, m, r \in Places(files) : AroundHash(d, t, l, m, r) /\ Hashes(l, m)
      BY <1>2, FlowHashes
    <2>2. AroundHash(d, t, l, m, r)'
      BY <1>1, <1>3, <2>1 DEF AroundHash, ChunkerAt, World, Pending, Traced, ReaderPlace
    <2>3. Hashes(l, m)'
      BY <2>1
    <2> QED
      BY <1>1, <2>2, <2>3, FlowHashes
  <1> QED
    BY <1>3, <1>4, <1>5, <1>6 DEF IInv

\* sha1_thread hashes a chunk, or sends on a mark.
LEMMA HashKeeps ==
  ASSUME IInv, Hash
  PROVE  IInv'
  <1> DEFINE cq == queues["chunk"].items
             hq == queues["hash"].items
             c == First("chunk")
             e == Hashed(c)
             p == Pop(queues, "chunk")
             q == Push(p, "hash", e)
  <1>1. /\ Filled("chunk") /\ Room("hash") /\ ~queues["hash"].term
        /\ queues' = q
        /\ UNCHANGED <<files, setting, reader, chunker, consumer>>
    BY DEF Hash, Hashed
  <1>2. /\ queues \in Queues /\ cq # <<>> /\ c = Head(cq) /\ "read" \in QueueNames /\ "chunk" \in QueueNames
        /\ "hash" \in QueueNames /\ "trace" \in QueueNames
    BY <1>1, ChunkerFacts DEF Filled, First, QueueNames
  <1>3. /\ p \in Queues /\ c \in Items /\ p["chunk"].items = Tail(cq) /\ p["chunk"].term = queues["chunk"].term
        /\ \A o \in QueueNames \ {"chunk"} : p[o] = queues[o]
        /\ Len(Tail(cq)) <= Len(cq)
    BY <1>2, PopFacts
  <1>4. e \in Items
    BY <1>3, HashedFacts
  <1> HIDE DEF p
  <1>5. /\ q \in Queues /\ q["hash"].items = Append(p["hash"].items, e)
        /\ q["hash"].term = p["hash"].term
        /\ \A o \in QueueNames \ {"hash"} : q[o] = p[o]
    <2> HIDE DEF e
    <2> QED
      BY <1>2, <1>3, <1>4, PushFacts
  <1> HIDE DEF q
  <1>6. /\ queues' \in Queues /\ queues'["chunk"].items = Tail(cq) /\ queues'["chunk"].term = queues["chunk"].term
        /\ queues'["hash"].items = Append(hq, e) /\ queues'["hash"].term = queues["hash"].term
        /\ queues'["read"] = queues["read"] /\ queues'["trace"] = queues["trace"]
    BY <1>1, <1>2, <1>3, <1>5
  <1>7. Len(Append(hq, e)) <= QueueSize /\ Len(Tail(cq)) <= QueueSize
    <2>1. Len(Append(hq, e)) <= QueueSize
      BY <1>1, <1>2, <1>4, PushRoom
    <2>2. Len(cq) <= QueueSize /\ Len(cq) \in Nat /\ Len(Tail(cq)) \in Nat /\ QueueSize \in Nat
      BY <1>2, <1>3, ChunkerFacts, QueueFacts, HeadTailFacts, Configured DEF IInv
    <2> QED
      BY <1>3, <2>1, <2>2
  <1>8. ASSUME NEW l \in Places(files), NEW m \in Places(files), Hashes(l, m) PROVE Hashes(l, m)'
    <2>1. PICK h \in Places(files) : Path(World("hashed"), hq, l, h) /\ Path(World("cut"), cq, h, m)
      BY <1>8 DEF Hashes
    <2>2. cq \in Seq(Items) /\ hq \in Seq(Items) /\ World("cut").files = files /\ World("hashed").files = files
      BY <1>2, QueueFacts, Worlds
    <2>3. PICK g \in Places(files) : Step(World("cut"), h, c, g) /\ Path(World("cut"), Tail(cq), g, m)
      <3> HIDE DEF cq
      <3>1. \E x \in Places(World("cut").files) :
              Step(World("cut"), h, Head(cq), x) /\ Path(World("cut"), Tail(cq), x, m)
        BY <1>2, <2>1, <2>2, PathHead
      <3> QED
        BY <1>2, <2>2, <3>1
    <2>4. Step(World("hashed"), h, e, g)
      <3>1. View(World("cut"), c) = View(World("hashed"), e)
        BY Worlds DEF View
      <3>2. /\ World("cut").stage = "cut" /\ World("hashed").stage = "hashed"
            /\ World("cut").files = World("hashed").files
            /\ World("cut").algorithm = World("hashed").algorithm
        BY Worlds
      <3> HIDE DEF e, c
      <3> QED
        BY <2>3, <3>1, <3>2, StepMoves
    <2>5. Path(World("hashed"), Append(hq, e), l, g)
      <3> HIDE DEF hq, e
      <3> QED
        BY <1>4, <2>1, <2>2, <2>4, PathAppend
    <2>6. World("hashed")' = World("hashed") /\ World("cut")' = World("cut") /\ files' = files
      BY <1>1, WorldsStay
    <2>7. Path(World("hashed"), queues'["hash"].items, l, g) /\ Path(World("cut"), queues'["chunk"].items, g, m)
      BY <1>6, <2>3, <2>5
    <2> QED
      BY <2>6, <2>7 DEF Hashes
  <1>9. ~queues'["hash"].term
    BY <1>1, <1>6
  <1> HIDE DEF e
  <1> QED
    BY <1>1, <1>6, <1>7, <1>8, <1>9, HasherMoves

\* sha1_thread ends.
LEMMA EndHashKeeps ==
  ASSUME IInv, EndHash
  PROVE  IInv'
  <1>1. /\ Ended("chunk") /\ ~queues["hash"].term /\ queues' = Term(queues, "hash")
        /\ UNCHANGED <<files, setting, reader, chunker, consumer>>
    BY DEF EndHash
  <1>2. /\ queues \in Queues /\ "read" \in QueueNames /\ "chunk" \in QueueNames
        /\ "hash" \in QueueNames /\ "trace" \in QueueNames
        /\ \A q \in QueueNames : Len(queues[q].items) <= QueueSize
    BY ChunkerFacts DEF QueueNames
  <1> DEFINE p == Term(queues, "hash")
  <1>3. /\ p \in Queues /\ p["hash"].items = queues["hash"].items
        /\ \A o \in QueueNames \ {"hash"} : p[o] = queues[o]
    BY <1>2, TermFacts
  <1> HIDE DEF p
  <1>4. /\ queues' \in Queues /\ queues'["hash"].items = queues["hash"].items
        /\ queues'["read"] = queues["read"] /\ queues'["chunk"] = queues["chunk"]
        /\ queues'["trace"] = queues["trace"]
    BY <1>1, <1>2, <1>3 DEF p
  <1>5. Len(queues'["hash"].items) <= QueueSize /\ Len(queues'["chunk"].items) <= QueueSize
    BY <1>2, <1>4
  <1>6. queues["chunk"].term /\ queues'["chunk"].items = <<>> /\ queues'["chunk"].term = queues["chunk"].term
    BY <1>1, <1>4 DEF Ended, Filled
  <1>7. ASSUME NEW l \in Places(files), NEW m \in Places(files), Hashes(l, m) PROVE Hashes(l, m)'
    <2>1. World("hashed")' = World("hashed") /\ World("cut")' = World("cut") /\ files' = files
      BY <1>1, WorldsStay
    <2> QED
      BY <1>4, <1>7, <2>1 DEF Hashes
  <1> QED
    BY <1>1, <1>4, <1>5, <1>6, <1>7, HasherMoves

-----------------------------------------------------------------------------
(* make_trace and read_trace_thread.                                       *)

\* What is copied through the trace leads from d to h.
Copies(d, h) ==
  \E t, l \in Places(files) :
    /\ Path(World("hashed"), queues["trace"].items, d, t)
    /\ Path(World("line"), Pending, t, l)
    /\ Path(World("hashed"), queues["hash"].items, l, h)

\* What is behind the trace, and what is in front of it.
AroundTrace(d, h, m, r) ==
  /\ Path(World("hashed"), Given, FrontOf(1), d)
  /\ Path(World("cut"), queues["chunk"].items, h, m)
  /\ ChunkerAt(m, r)
  /\ Path(World("read"), queues["read"].items, r, ReaderPlace)
  /\ setting.method = "file" => (tmp.chunks = <<>> <=> ~d.open)

\* FlowAt in these parts.
LEMMA FlowCopies ==
  /\ Flow <=> \E d, h, m, r \in Places(files) : AroundTrace(d, h, m, r) /\ Copies(d, h)
  /\ Flow' <=> \E d, h, m, r \in Places(files') : AroundTrace(d, h, m, r)' /\ Copies(d, h)'
  <1>1. Flow <=> \E d, h, m, r \in Places(files) : AroundTrace(d, h, m, r) /\ Copies(d, h)
    BY Zenon DEF Flow, FlowAt, AroundTrace, Copies
  <1>2. Flow' <=> \E d, h, m, r \in Places(files') : AroundTrace(d, h, m, r)' /\ Copies(d, h)'
    BY Zenon DEF Flow, FlowAt, AroundTrace, Copies
  <1> QED
    BY <1>1, <1>2

\* Nothing but the trace and the queues around it changes: the invariant holds if what
\* is copied still leads on.
LEMMA TraceMoves ==
  ASSUME IInv, UNCHANGED <<files, setting, reader, chunker, tmp, segments, done>>, setting.job = "trace",
         queues' \in Queues, queues'["read"] = queues["read"], queues'["chunk"] = queues["chunk"],
         Len(queues'["trace"].items) <= QueueSize, Len(queues'["hash"].items) <= QueueSize,
         queues'["hash"].term = queues["hash"].term,
         trace' \in Seq(Lines), line' \in 0 .. Len(trace'),
         Traced' => queues["hash"].term /\ queues'["hash"].items = <<>>,
         ~Traced' => line' = 0,
         queues'["trace"].term => Traced' /\ line' = Len(trace'),
         \A k \in 1 .. Len(trace') - 1 : trace'[k] # StreamEnd,
         \A d, h \in Places(files) : Copies(d, h) => Copies(d, h)'
  PROVE  IInv'
  <1>1. /\ files' = files /\ setting' = setting /\ reader' = reader /\ chunker' = chunker
        /\ tmp' = tmp /\ segments' = segments /\ done' = done
    OBVIOUS
  <1>2. Types /\ Terms /\ Flow /\ TmpBounded /\ SegmentsBounded
    BY DEF IInv
  <1>3. TmpBounded' /\ SegmentsBounded' /\ Given' = Given
    BY <1>1, <1>2, ConsumerRests
  <1>4. Types'
    <2>1. \A q \in QueueNames : Len(queues'[q].items) <= QueueSize
      BY <1>2 DEF Types, QueueNames
    <2> QED
      BY <1>1, <1>2, <2>1 DEF Types, Queues
  <1>5. Terms'
    <2>1. queues'["read"].term => ~reader'.open /\ AllRead'
      BY <1>1, <1>2 DEF Terms, AllRead
    <2>2. queues'["chunk"].term => chunker'.pc = "start" /\ Ended("read")'
      BY <1>1, <1>2 DEF Terms, Ended, Filled
    <2>3. queues'["hash"].term => Ended("chunk")'
      BY <1>2 DEF Terms, Ended, Filled
    <2>4. Traced' => Ended("hash")'
      BY DEF Ended, Filled
    <2> QED
      BY <1>1, <1>2, <2>1, <2>2, <2>3, <2>4 DEF Terms
  <1>6. Flow'
    <2>1. PICK d, h, m, r \in Places(files) : AroundTrace(d, h, m, r) /\ Copies(d, h)
      BY <1>2, FlowCopies
    <2>2. AroundTrace(d, h, m, r)'
      BY <1>1, <1>3, <2>1 DEF AroundTrace, ChunkerAt, World, ReaderPlace
    <2>3. Copies(d, h)'
      BY <2>1
    <2> QED
      BY <1>1, <2>2, <2>3, FlowCopies
  <1> QED
    BY <1>3, <1>4, <1>5, <1>6 DEF IInv

\* What the trace is.
LEMMA TraceFacts ==
  ASSUME IInv
  PROVE  /\ trace \in Seq(Lines) /\ Len(trace) \in Nat /\ line \in 0 .. Len(trace) /\ line \in Nat
         /\ \A k \in 1 .. Len(trace) : trace[k] \in Lines
         /\ Traced <=> Len(trace) # 0 /\ trace[Len(trace)] = StreamEnd
         /\ ~Traced => line = 0 /\ Pending = trace /\ ~queues["trace"].term
                       /\ \A k \in 1 .. Len(trace) : trace[k] # StreamEnd
         /\ Traced => /\ setting.job = "trace" /\ Pending = SubSeq(trace, line + 1, Len(trace) - 1)
                      /\ queues["hash"].term /\ queues["hash"].items = <<>>
                      /\ \A k \in 1 .. Len(trace) : trace[k] = StreamEnd <=> k = Len(trace)
         /\ queues["trace"].term => line = Len(trace)
         /\ queues \in Queues /\ "read" \in QueueNames /\ "chunk" \in QueueNames
         /\ "hash" \in QueueNames /\ "trace" \in QueueNames
         /\ \A q \in QueueNames : Len(queues[q].items) <= QueueSize
  <1>1. Types /\ Terms
    BY DEF IInv
  <1>2. trace \in Seq(Lines) /\ line \in 0 .. Len(trace)
    BY <1>1 DEF Types
  <1>3. /\ Len(trace) \in Nat /\ (trace = <<>> <=> Len(trace) = 0) /\ line \in Nat
        /\ \A k \in 1 .. Len(trace) : trace[k] \in Lines
    BY <1>2, SeqFacts
  <1>4. Traced <=> Len(trace) # 0 /\ trace[Len(trace)] = StreamEnd
    BY <1>3 DEF Traced, Last
  <1>5. /\ Traced => Ended("hash")
        /\ ~Traced => line = 0
        /\ queues["trace"].term => Traced /\ line = Len(trace)
        /\ setting.job = "backup" => trace = <<>> /\ queues["trace"].items = <<>>
        /\ \A k \in 1 .. Len(trace) - 1 : trace[k] # StreamEnd
    BY <1>1 DEF Terms
  <1>6. ASSUME ~Traced
        PROVE  /\ line = 0 /\ Pending = trace /\ ~queues["trace"].term
               /\ \A k \in 1 .. Len(trace) : trace[k] # StreamEnd
    <2>1. ASSUME NEW k \in 1 .. Len(trace) PROVE trace[k] # StreamEnd
      <3>1. CASE k = Len(trace)
        BY <1>3, <1>4, <1>6, <3>1
      <3>2. CASE k # Len(trace)
        <4>1. k \in 1 .. Len(trace) - 1
          BY <1>3, <3>2
        <4> QED
          BY <1>5, <4>1
      <3> QED
        BY <3>1, <3>2
    <2> QED
      BY <1>5, <1>6, <2>1 DEF Pending
  <1>7. ASSUME Traced
        PROVE  /\ setting.job = "trace" /\ Pending = SubSeq(trace, line + 1, Len(trace) - 1)
               /\ queues["hash"].term /\ queues["hash"].items = <<>>
               /\ \A k \in 1 .. Len(trace) : trace[k] = StreamEnd <=> k = Len(trace)
    <2>1. setting.job = "trace"
      BY <1>1, <1>3, <1>4, <1>5, <1>7, Configured
    <2>2. ASSUME NEW k \in 1 .. Len(trace) PROVE trace[k] = StreamEnd <=> k = Len(trace)
      <3>1. k # Len(trace) => k \in 1 .. Len(trace) - 1
        BY <1>3
      <3> QED
        BY <1>4, <1>5, <1>7, <3>1
    <2> QED
      BY <1>5, <1>7, <2>1, <2>2 DEF Pending, Ended, Filled
  <1>8. /\ queues \in Queues /\ "read" \in QueueNames /\ "chunk" \in QueueNames
        /\ "hash" \in QueueNames /\ "trace" \in QueueNames
        /\ \A q \in QueueNames : Len(queues[q].items) <= QueueSize
    BY ChunkerFacts DEF QueueNames
  <1> QED
    BY <1>2, <1>3, <1>4, <1>5, <1>6, <1>7, <1>8

\* make_trace writes a line.
LEMMA WriteLineKeeps ==
  ASSUME IInv, WriteLine
  PROVE  IInv'
  <1> DEFINE hq == queues["hash"].items
             c == First("hash")
             e == Line(c)
             p == Pop(queues, "hash")
  <1>1. /\ setting.job = "trace" /\ Filled("hash")
        /\ trace' = Append(trace, e) /\ queues' = p
        /\ UNCHANGED <<files, setting, reader, chunker, line, tmp, segments, done>>
    BY DEF WriteLine
  <1>2. hq # <<>> /\ c = Head(hq)
    BY <1>1 DEF Filled, First
  <1>3. /\ queues \in Queues /\ trace \in Seq(Lines) /\ Len(trace) \in Nat /\ line = 0 /\ Pending = trace
        /\ ~queues["trace"].term /\ ~Traced /\ \A k \in 1 .. Len(trace) : trace[k] # StreamEnd
        /\ "read" \in QueueNames /\ "chunk" \in QueueNames
        /\ "hash" \in QueueNames /\ "trace" \in QueueNames
        /\ \A q \in QueueNames : Len(queues[q].items) <= QueueSize
    BY <1>2, TraceFacts
  <1>4. /\ p \in Queues /\ c \in Items /\ p["hash"].items = Tail(hq) /\ p["hash"].term = queues["hash"].term
        /\ \A o \in QueueNames \ {"hash"} : p[o] = queues[o]
        /\ Len(Tail(hq)) <= Len(hq)
    BY <1>2, <1>3, PopFacts
  <1> HIDE DEF p
  <1>5. /\ queues' \in Queues /\ queues'["hash"].items = Tail(hq) /\ queues'["hash"].term = queues["hash"].term
        /\ queues'["read"] = queues["read"] /\ queues'["chunk"] = queues["chunk"]
        /\ queues'["trace"] = queues["trace"]
    BY <1>1, <1>3, <1>4
  <1>6. Len(Tail(hq)) <= QueueSize /\ Len(queues["trace"].items) <= QueueSize /\ hq \in Seq(Items)
    <2>1. Len(hq) <= QueueSize /\ Len(hq) \in Nat /\ hq \in Seq(Items) /\ QueueSize \in Nat
      BY <1>3, QueueFacts, Configured DEF IInv
    <2>2. Len(Tail(hq)) \in Nat
      BY <1>2, <2>1, HeadTailFacts
    <2> QED
      BY <1>3, <1>4, <2>1, <2>2
  <1>7. /\ e \in Lines /\ e # StreamEnd /\ OfLine(e) \in Items /\ Identity(OfLine(e)) = Identity(c)
    BY <1>4, LineFacts DEF Lines
  <1> HIDE DEF e
  <1>8. /\ trace' \in Seq(Lines) /\ Len(trace') = Len(trace) + 1 /\ trace'[Len(trace) + 1] = e
        /\ \A k \in 1 .. Len(trace) : trace'[k] = trace[k]
    BY <1>1, <1>3, <1>7, AppendFacts
  <1>9. ~Traced'
    <2>1. trace'[Len(trace')] # StreamEnd
      BY <1>7, <1>8
    <2> QED
      BY <2>1 DEF Traced, Last
  <1>10. line' = 0 /\ line' \in 0 .. Len(trace') /\ \A k \in 1 .. Len(trace') - 1 : trace'[k] # StreamEnd
    BY <1>1, <1>3, <1>8
  <1>11. ASSUME NEW d \in Places(files), NEW h \in Places(files), Copies(d, h) PROVE Copies(d, h)'
    <2>1. PICK t, l \in Places(files) :
            /\ Path(World("hashed"), queues["trace"].items, d, t)
            /\ Path(World("line"), trace, t, l)
            /\ Path(World("hashed"), hq, l, h)
      BY <1>3, <1>11 DEF Copies
    <2>2. World("hashed").files = files /\ World("line").files = files
      BY Worlds
    <2>3. PICK g \in Places(files) : Step(World("hashed"), l, c, g) /\ Path(World("hashed"), Tail(hq), g, h)
      <3> HIDE DEF hq
      <3>1. \E x \in Places(World("hashed").files) :
              Step(World("hashed"), l, Head(hq), x) /\ Path(World("hashed"), Tail(hq), x, h)
        BY <1>2, <1>6, <2>1, <2>2, PathHead
      <3> QED
        BY <1>2, <2>2, <3>1
    <2>4. Step(World("line"), l, e, g)
      <3>1. View(World("hashed"), c) = View(World("line"), e)
        BY <1>7, Worlds DEF View
      <3>2. /\ World("line").stage = "line" /\ World("hashed").stage = "hashed"
            /\ World("line").files = World("hashed").files
            /\ World("line").algorithm = World("hashed").algorithm
        BY Worlds
      <3> HIDE DEF c
      <3> QED
        BY <2>3, <3>1, <3>2, StepMoves
    <2>5. Path(World("line"), Append(trace, e), t, g)
      BY <1>3, <1>7, <2>1, <2>2, <2>4, PathAppend
    <2>6. World("hashed")' = World("hashed") /\ World("line")' = World("line") /\ files' = files
      BY <1>1, WorldsStay
    <2>7. Pending' = Append(trace, e)
      BY <1>1, <1>9 DEF Pending
    <2> QED
      BY <1>5, <2>1, <2>3, <2>5, <2>6, <2>7 DEF Copies
  <1>12. ~queues'["trace"].term
    BY <1>3, <1>5
  <1> HIDE DEF c
  <1> QED
    BY <1>1, <1>5, <1>6, <1>8, <1>9, <1>10, <1>11, <1>12, TraceMoves

\* make_trace writes the end of the stream.
LEMMA WriteStreamEndKeeps ==
  ASSUME IInv, WriteStreamEnd
  PROVE  IInv'
  <1>1. /\ setting.job = "trace" /\ Ended("hash") /\ ~Traced
        /\ trace' = Append(trace, StreamEnd)
        /\ UNCHANGED <<files, setting, reader, chunker, queues, line, tmp, segments, done>>
    BY DEF WriteStreamEnd
  <1>2. /\ queues \in Queues /\ trace \in Seq(Lines) /\ Len(trace) \in Nat /\ line = 0 /\ Pending = trace
        /\ ~queues["trace"].term /\ \A k \in 1 .. Len(trace) : trace[k] # StreamEnd
        /\ "trace" \in QueueNames /\ "hash" \in QueueNames
        /\ \A q \in QueueNames : Len(queues[q].items) <= QueueSize
    BY <1>1, TraceFacts
  <1>3. StreamEnd \in Lines
    BY DEF Lines
  <1>4. /\ trace' \in Seq(Lines) /\ Len(trace') = Len(trace) + 1 /\ trace'[Len(trace) + 1] = StreamEnd
        /\ \A k \in 1 .. Len(trace) : trace'[k] = trace[k]
    BY <1>1, <1>2, <1>3, AppendFacts
  <1>5. Traced'
    <2>1. trace' # <<>> /\ trace'[Len(trace')] = StreamEnd
      BY <1>2, <1>4, SeqFacts
    <2> QED
      BY <2>1 DEF Traced, Last
  <1>6. Pending' = trace
    <2>1. Pending' = SubSeq(trace', line' + 1, Len(trace') - 1)
      BY <1>5 DEF Pending
    <2> DEFINE n == Len(trace)
               q == trace'
               u == SubSeq(q, 1, n)
    <2>2. line' + 1 = 1 /\ Len(trace') - 1 = n /\ n \in 0 .. Len(q)
      BY <1>1, <1>2, <1>4
    <2>3. u \in Seq(Lines) /\ Len(u) = n /\ \A i \in 1 .. n : u[i] = q[i]
      <3> HIDE DEF n, q
      <3> QED
        BY <1>4, <2>2, SubSeqFacts DEF q
    <2>4. \A i \in 1 .. n : u[i] = trace[i]
      BY <1>4, <2>3
    <2> HIDE DEF u
    <2>5. u = trace
      BY <1>2, <2>3, <2>4, SeqEqual
    <2> QED
      BY <2>1, <2>2, <2>5 DEF u
  <1>7. line' \in 0 .. Len(trace') /\ \A k \in 1 .. Len(trace') - 1 : trace'[k] # StreamEnd
    BY <1>1, <1>2, <1>4
  <1>8. queues' = queues /\ queues["hash"].term /\ queues["hash"].items = <<>>
    BY <1>1 DEF Ended, Filled
  <1>9. ASSUME NEW d \in Places(files), NEW h \in Places(files), Copies(d, h) PROVE Copies(d, h)'
    <2>1. World("hashed")' = World("hashed") /\ World("line")' = World("line") /\ files' = files
      BY <1>1, WorldsStay
    <2> QED
      BY <1>2, <1>6, <1>8, <1>9, <2>1 DEF Copies
  <1>10. Len(queues'["trace"].items) <= QueueSize /\ Len(queues'["hash"].items) <= QueueSize
    BY <1>2, <1>8
  <1> QED
    BY <1>1, <1>2, <1>4, <1>5, <1>7, <1>8, <1>9, <1>10, TraceMoves

\* The pending lines behind the next one.
LEMMA PendingNext ==
  ASSUME IInv, Traced, line + 1 < Len(trace)
  PROVE  /\ Pending \in Seq(Lines) /\ Pending # <<>> /\ Head(Pending) = trace[line + 1]
         /\ Tail(Pending) = SubSeq(trace, (line + 1) + 1, Len(trace) - 1)
  <1> DEFINE l == Len(trace)
             n == l - 1 - line
             q == trace
             u == SubSeq(q, line + 1, line + n)
             v == SubSeq(q, (line + 1) + 1, (line + 1) + (n - 1))
  <1>1. q \in Seq(Lines) /\ line \in Nat /\ l \in Nat /\ Pending = SubSeq(trace, line + 1, l - 1)
    BY TraceFacts
  <1>2. /\ n \in Nat /\ line + n = l - 1 /\ n # 0 /\ line + n <= l /\ n - 1 \in Nat /\ line + 1 \in Nat
        /\ (line + 1) + (n - 1) = l - 1 /\ (line + 1) + (n - 1) <= l
    BY <1>1
  <1>3. l = Len(q)
    OBVIOUS
  <1> HIDE DEF q, n, l
  <1>4. u \in Seq(Lines) /\ Len(u) = n /\ \A i \in 1 .. n : u[i] = q[line + i]
    BY <1>1, <1>2, <1>3, SubSeqBetween
  <1>5. v \in Seq(Lines) /\ Len(v) = n - 1 /\ \A i \in 1 .. n - 1 : v[i] = q[(line + 1) + i]
    BY <1>1, <1>2, <1>3, SubSeqBetween
  <1>6. Pending = u /\ v = SubSeq(q, (line + 1) + 1, l - 1)
    BY <1>1, <1>2 DEF q
  <1> HIDE DEF u, v
  <1>7. u # <<>>
    BY <1>2, <1>4, SeqFacts
  <1>8. Head(u) = u[1] /\ Tail(u) \in Seq(Lines) /\ Len(Tail(u)) = n - 1 /\ \A k \in 1 .. n - 1 : Tail(u)[k] = u[k + 1]
    BY <1>4, <1>7, HeadTailFacts
  <1>9. u[1] = q[line + 1]
    <2>1. 1 \in 1 .. n
      BY <1>2
    <2> QED
      BY <1>4, <2>1
  <1>10. \A k \in 1 .. n - 1 : Tail(u)[k] = v[k]
    <2>1. ASSUME NEW k \in 1 .. n - 1 PROVE Tail(u)[k] = v[k]
      <3>1. k + 1 \in 1 .. n /\ line + (k + 1) = (line + 1) + k
        BY <1>1, <1>2
      <3>2. u[k + 1] = q[line + (k + 1)]
        BY <1>4, <3>1
      <3> QED
        BY <1>5, <1>8, <3>1, <3>2
    <2> QED
      BY <2>1
  <1>11. Tail(u) = v
    BY <1>5, <1>8, <1>10, SeqEqual
  <1> QED
    BY <1>4, <1>6, <1>7, <1>8, <1>9, <1>11 DEF q, l

\* No line is pending before the end of the stream.
LEMMA PendingNone ==
  ASSUME IInv, Traced, line + 1 = Len(trace)
  PROVE  Pending = <<>> /\ SubSeq(trace, (line + 1) + 1, Len(trace) - 1) = <<>>
  <1> DEFINE q == trace
             l == Len(q)
  <1>1. q \in Seq(Lines) /\ line \in Nat /\ l \in Nat /\ Pending = SubSeq(trace, line + 1, l - 1)
    BY TraceFacts
  <1>2. line + 1 > l - 1 /\ (line + 1) + 1 > l - 1 /\ line + 1 \in Int /\ l - 1 \in Int /\ (line + 1) + 1 \in Int
    BY <1>1
  <1> HIDE DEF q, l
  <1>3. \A a, b \in Int : a > b => SubSeq(q, a, b) = <<>>
    BY <1>1
  <1>4. SubSeq(q, line + 1, l - 1) = <<>> /\ SubSeq(q, (line + 1) + 1, l - 1) = <<>>
    BY <1>2, <1>3
  <1> QED
    BY <1>1, <1>4 DEF q, l

\* read_trace_thread reads a line.
LEMMA ReadLineKeeps ==
  ASSUME IInv, ReadLine
  PROVE  IInv'
  <1> DEFINE tq == queues["trace"].items
             e == trace[line + 1]
  <1>1. /\ Traced /\ line < Len(trace) /\ line' = line + 1
        /\ IF e = StreamEnd THEN queues' = Term(queues, "trace")
           ELSE Room("trace") /\ queues' = Push(queues, "trace", OfLine(e))
        /\ UNCHANGED <<files, setting, reader, chunker, trace, tmp, segments, done>>
    BY DEF ReadLine
  <1>2. /\ trace \in Seq(Lines) /\ Len(trace) \in Nat /\ line \in Nat
        /\ \A k \in 1 .. Len(trace) : trace[k] \in Lines
        /\ setting.job = "trace" /\ Pending = SubSeq(trace, line + 1, Len(trace) - 1)
        /\ queues["hash"].term /\ queues["hash"].items = <<>>
        /\ \A k \in 1 .. Len(trace) : trace[k] = StreamEnd <=> k = Len(trace)
        /\ queues \in Queues /\ "read" \in QueueNames /\ "chunk" \in QueueNames
        /\ "hash" \in QueueNames /\ "trace" \in QueueNames
        /\ \A q \in QueueNames : Len(queues[q].items) <= QueueSize
    BY <1>1, TraceFacts
  <1>3. ~queues["trace"].term
    BY <1>1, <1>2, TraceFacts
  <1>4. line + 1 \in 1 .. Len(trace) /\ e \in Lines /\ (e = StreamEnd <=> line + 1 = Len(trace))
    <2>1. line + 1 \in 1 .. Len(trace)
      BY <1>1, <1>2
    <2> QED
      BY <1>2, <2>1
  <1>5. /\ Traced' /\ trace' \in Seq(Lines) /\ line' \in 0 .. Len(trace')
        /\ \A k \in 1 .. Len(trace') - 1 : trace'[k] # StreamEnd
        /\ Pending' = SubSeq(trace, (line + 1) + 1, Len(trace) - 1)
    <2>1. Traced'
      BY <1>1 DEF Traced
    <2>2. line' \in 0 .. Len(trace') /\ trace' = trace
      BY <1>1, <1>2, <1>4
    <2>3. ASSUME NEW k \in 1 .. Len(trace) - 1 PROVE trace[k] # StreamEnd
      <3>1. k \in 1 .. Len(trace) /\ k # Len(trace)
        BY <1>2
      <3> QED
        BY <1>2, <3>1
    <2>4. Pending' = SubSeq(trace, (line + 1) + 1, Len(trace) - 1)
      BY <1>1, <2>1, <2>2 DEF Pending
    <2> QED
      BY <1>2, <2>1, <2>2, <2>3, <2>4
  <1>6. World("hashed")' = World("hashed") /\ World("line")' = World("line") /\ files' = files
    BY <1>1, WorldsStay
  <1>7. CASE e = StreamEnd
    <2> DEFINE p == Term(queues, "trace")
    <2>1. /\ p \in Queues /\ p["trace"].items = tq
          /\ \A o \in QueueNames \ {"trace"} : p[o] = queues[o]
      BY <1>2, TermFacts
    <2> HIDE DEF p
    <2>2. /\ queues' \in Queues /\ queues'["trace"].items = tq
          /\ queues'["read"] = queues["read"] /\ queues'["chunk"] = queues["chunk"]
          /\ queues'["hash"] = queues["hash"]
      BY <1>1, <1>2, <1>7, <2>1 DEF p
    <2>3. Pending' = Pending
      BY <1>1, <1>4, <1>5, <1>7, PendingNone
    <2>4. ASSUME NEW d \in Places(files), NEW h \in Places(files), Copies(d, h) PROVE Copies(d, h)'
      BY <1>6, <2>2, <2>3, <2>4 DEF Copies
    <2>5. Len(queues'["trace"].items) <= QueueSize /\ Len(queues'["hash"].items) <= QueueSize
      BY <1>2, <2>2
    <2>6. line' = Len(trace')
      BY <1>1, <1>4, <1>7
    <2> HIDE DEF e, tq
    <2>7. UNCHANGED <<files, setting, reader, chunker, tmp, segments, done>>
      BY <1>1
    <2> QED
      BY <1>2, <1>5, <2>2, <2>4, <2>5, <2>6, <2>7, TraceMoves
  <1>8. CASE e # StreamEnd
    <2> DEFINE c == OfLine(e)
               p == Push(queues, "trace", c)
    <2>1. PICK x \in Items : e = Line(x)
      BY <1>4, <1>8 DEF Lines
    <2>2. c \in Items
      BY <2>1, LineFacts
    <2> HIDE DEF c, e
    <2>3. /\ p \in Queues /\ p["trace"].items = Append(tq, c) /\ p["trace"].term = queues["trace"].term
          /\ \A o \in QueueNames \ {"trace"} : p[o] = queues[o]
      BY <1>2, <2>2, PushFacts
    <2>4. Room("trace") /\ queues' = p
      BY <1>1, <1>8 DEF c
    <2> HIDE DEF p
    <2>5. /\ queues' \in Queues /\ queues'["trace"].items = Append(tq, c)
          /\ queues'["trace"].term = queues["trace"].term
          /\ queues'["read"] = queues["read"] /\ queues'["chunk"] = queues["chunk"]
          /\ queues'["hash"] = queues["hash"]
      BY <1>2, <2>3, <2>4
    <2>6. Len(queues'["trace"].items) <= QueueSize /\ Len(queues'["hash"].items) <= QueueSize
      <3>1. Len(Append(tq, c)) <= QueueSize
        BY <1>2, <2>2, <2>4, PushRoom
      <3> QED
        BY <1>2, <2>5, <3>1
    <2>7. /\ Pending \in Seq(Lines) /\ Pending # <<>> /\ Head(Pending) = e
          /\ Tail(Pending) = Pending'
      <3>1. line + 1 < Len(trace)
        BY <1>2, <1>4, <1>8 DEF e
      <3> QED
        BY <1>1, <1>5, <3>1, PendingNext DEF e
    <2>8. ASSUME NEW d \in Places(files), NEW h \in Places(files), Copies(d, h) PROVE Copies(d, h)'
      <3>1. PICK t, l \in Places(files) :
              /\ Path(World("hashed"), tq, d, t)
              /\ Path(World("line"), Pending, t, l)
              /\ Path(World("hashed"), queues["hash"].items, l, h)
        BY <2>8 DEF Copies
      <3>2. World("hashed").files = files /\ World("line").files = files /\ tq \in Seq(Items)
        BY <1>2, QueueFacts, Worlds
      <3>3. PICK g \in Places(files) : Step(World("line"), t, e, g) /\ Path(World("line"), Tail(Pending), g, l)
        <4>1. \E y \in Places(World("line").files) :
                Step(World("line"), t, Head(Pending), y) /\ Path(World("line"), Tail(Pending), y, l)
          BY <2>7, <3>1, PathHead
        <4> QED
          BY <2>7, <3>2, <4>1
      <3>4. Step(World("hashed"), t, c, g)
        <4>1. View(World("line"), e) = View(World("hashed"), c)
          BY Worlds DEF View, c
        <4>2. /\ World("line").stage = "line" /\ World("hashed").stage = "hashed"
              /\ World("line").files = World("hashed").files
              /\ World("line").algorithm = World("hashed").algorithm
          BY Worlds
        <4> QED
          BY <3>3, <4>1, <4>2, StepMoves
      <3>5. Path(World("hashed"), Append(tq, c), d, g)
        <4> HIDE DEF tq
        <4> QED
          BY <2>2, <3>1, <3>2, <3>4, PathAppend
      <3>6. Path(World("line"), Pending', g, l)
        BY <2>7, <3>3
      <3>7. Path(World("hashed"), queues'["trace"].items, d, g) /\ Path(World("hashed"), queues'["hash"].items, l, h)
        BY <2>5, <3>1, <3>5
      <3> QED
        BY <1>6, <3>6, <3>7 DEF Copies
    <2>9. ~queues'["trace"].term /\ queues'["hash"].items = <<>> /\ queues'["hash"].term = queues["hash"].term
      BY <1>2, <1>3, <2>5
    <2>10. UNCHANGED <<files, setting, reader, chunker, tmp, segments, done>>
      BY <1>1
    <2> QED
      BY <1>2, <1>5, <2>5, <2>6, <2>8, <2>9, <2>10, TraceMoves
  <1> QED
    BY <1>7, <1>8

-----------------------------------------------------------------------------
(* Segmenting.                                                             *)

\* The chunks of each segment.
ChunksOf(ss) == [k \in DOMAIN ss |-> ss[k].chunks]

\* They are sequences of items.
LEMMA ChunksOfFacts ==
  ASSUME NEW ss \in Seq(SegmentRecords), NEW s \in SegmentRecords
  PROVE  /\ ChunksOf(ss) \in Seq(Seq(Items)) /\ s.chunks \in Seq(Items)
         /\ ChunksOf(Append(ss, s)) = Append(ChunksOf(ss), s.chunks)
         /\ FlattenSeq(ChunksOf(ss)) \in Seq(Items)
         /\ FlattenSeq(ChunksOf(Append(ss, s))) = FlattenSeq(ChunksOf(ss)) \o s.chunks
  <1> DEFINE l == Len(ss)
             q == ChunksOf(ss)
             ts == Append(ss, s)
             x == s.chunks
             p == Append(q, x)
             u == ChunksOf(ts)
  <1>1. l \in Nat /\ DOMAIN ss = 1 .. l /\ \A k \in 1 .. l : ss[k] \in SegmentRecords
    BY SeqFacts
  <1>2. \A y \in SegmentRecords : y.chunks \in Seq(Items)
    BY DEF SegmentRecords
  <1>3. q = [k \in 1 .. l |-> ss[k].chunks]
    BY <1>1 DEF ChunksOf
  <1>4. \A k \in 1 .. l : ss[k].chunks \in Seq(Items)
    BY <1>1, <1>2
  <1>5. x \in Seq(Items)
    BY <1>2
  <1> HIDE DEF q, l
  <1>6. q \in [1 .. l -> Seq(Items)] /\ \A k \in 1 .. l : q[k] = ss[k].chunks
    BY <1>3, <1>4
  <1>7. q \in Seq(Seq(Items)) /\ Len(q) = l
    <2>1. q \in Seq(Seq(Items)) /\ DOMAIN q = 1 .. l
      BY <1>1, <1>6
    <2> QED
      BY <1>1, <1>6, <2>1, LenProperties
  <1>8. /\ ts \in Seq(SegmentRecords) /\ Len(ts) = l + 1 /\ DOMAIN ts = 1 .. l + 1 /\ ts[l + 1] = s
        /\ \A k \in 1 .. l : ts[k] = ss[k]
    BY AppendFacts DEF l
  <1> HIDE DEF x
  <1>9. /\ p \in Seq(Seq(Items)) /\ Len(p) = l + 1 /\ DOMAIN p = 1 .. l + 1 /\ p[l + 1] = x
        /\ \A k \in 1 .. l : p[k] = q[k]
    BY <1>5, <1>7, AppendFacts
  <1> HIDE DEF ts, p
  <1>10. u = [k \in 1 .. l + 1 |-> ts[k].chunks]
    BY <1>8 DEF ChunksOf
  <1>11. \A k \in 1 .. l + 1 : ts[k].chunks = p[k]
    <2>1. ASSUME NEW k \in 1 .. l + 1 PROVE ts[k].chunks = p[k]
      <3>1. k # l + 1 => k \in 1 .. l
        BY <1>1
      <3> QED
        BY <1>6, <1>8, <1>9, <3>1 DEF x
    <2> QED
      BY <2>1
  <1>12. p = [k \in 1 .. l + 1 |-> p[k]]
    BY <1>9, SeqFacts
  <1> HIDE DEF u
  <1>13. u = p
    BY <1>10, <1>11, <1>12
  <1>14. FlattenSeq(q) \in Seq(Items) /\ FlattenSeq(p) = FlattenSeq(q) \o x
    BY <1>5, <1>7, FlattenAppend DEF p
  <1> QED
    BY <1>5, <1>7, <1>13, <1>14 DEF u, q, ts, p, x

\* What is given is what the segments and the last of them have.
LEMMA GivenIs ==
  ASSUME NEW ss \in Seq(SegmentRecords), NEW s \in SegmentRecords
  PROVE  GivenIn(ss, s) = FlattenSeq(ChunksOf(ss)) \o s.chunks /\ GivenIn(ss, s) \in Seq(Items)
  <1>1. GivenIn(ss, s) = FlattenSeq(ChunksOf(ss)) \o s.chunks
    BY DEF GivenIn, ChunksOf
  <1>2. FlattenSeq(ChunksOf(ss)) \in Seq(Items) /\ s.chunks \in Seq(Items)
    BY ChunksOfFacts
  <1> DEFINE a == FlattenSeq(ChunksOf(ss))
             b == s.chunks
  <1> HIDE DEF a, b
  <1>3. a \o b \in Seq(Items)
    BY <1>2, ConcatProperties DEF a, b
  <1> QED
    BY <1>1, <1>3 DEF a, b

\* What a segment gets.
LEMMA AddedFacts ==
  ASSUME NEW s \in SegmentRecords, NEW c \in Items
  PROVE  /\ Added(s, c) \in SegmentRecords /\ Added(s, c).chunks = Append(s.chunks, c)
         /\ Added(s, c).chunk_num = s.chunk_num + (IF IsMark(c) THEN 0 ELSE 1)
         /\ NewSegment \in SegmentRecords /\ NewSegment.chunks = <<>> /\ NewSegment.chunk_num = 0
         /\ s.chunks \in Seq(Items) /\ s.chunk_num \in Nat
  <1>1. s.chunks \in Seq(Items) /\ s.chunk_num \in Nat
    BY DEF SegmentRecords
  <1>2. Append(s.chunks, c) \in Seq(Items)
    BY <1>1, AppendFacts
  <1>3. Added(s, c) = [chunks |-> Append(s.chunks, c), chunk_num |-> s.chunk_num + (IF IsMark(c) THEN 0 ELSE 1)]
    BY DEF Added
  <1>4. s.chunk_num + (IF IsMark(c) THEN 0 ELSE 1) \in Nat
    BY <1>1
  <1> DEFINE n == s.chunk_num + (IF IsMark(c) THEN 0 ELSE 1)
             q == Append(s.chunks, c)
  <1> HIDE DEF n, q
  <1>5. [chunks |-> q, chunk_num |-> n] \in SegmentRecords
    BY <1>2, <1>4 DEF n, q, SegmentRecords
  <1>6. Added(s, c) = [chunks |-> q, chunk_num |-> n]
    BY <1>3 DEF n, q
  <1>7. NewSegment \in SegmentRecords /\ NewSegment.chunks = <<>> /\ NewSegment.chunk_num = 0
    <2>1. <<>> \in Seq(Items)
      OBVIOUS
    <2> QED
      BY <2>1 DEF NewSegment, SegmentRecords
  <1>8. Added(s, c).chunks = q /\ Added(s, c).chunk_num = n
    BY <1>6
  <1> QED
    BY <1>1, <1>5, <1>6, <1>7, <1>8 DEF n, q

\* It counts the chunks that it gets.
LEMMA AddedCounts ==
  ASSUME NEW s \in SegmentRecords, NEW c \in Items, s.chunk_num = Len(NormalChunks(s.chunks))
  PROVE  Added(s, c).chunk_num = Len(NormalChunks(Added(s, c).chunks))
  <1>1. /\ Added(s, c).chunks = Append(s.chunks, c)
        /\ Added(s, c).chunk_num = s.chunk_num + (IF IsMark(c) THEN 0 ELSE 1)
        /\ s.chunks \in Seq(Items) /\ s.chunk_num \in Nat
    BY AddedFacts
  <1> DEFINE q == NormalChunks(s.chunks)
  <1>2. NormalChunks(Append(s.chunks, c)) = IF IsMark(c) THEN q ELSE Append(q, c)
    BY <1>1, NormalAppend
  <1>3. q \in Seq(Items)
    BY <1>1, NormalFacts
  <1> HIDE DEF q
  <1>4. Len(Append(q, c)) = Len(q) + 1 /\ Len(q) \in Nat
    BY <1>3, AppendFacts, SeqFacts
  <1>5. Len(NormalChunks(Append(s.chunks, c))) = Len(q) + (IF IsMark(c) THEN 0 ELSE 1)
    <2>1. CASE IsMark(c)
      BY <1>2, <1>4, <2>1
    <2>2. CASE ~IsMark(c)
      BY <1>2, <1>4, <2>2
    <2> QED
      BY <2>1, <2>2
  <1>6. Len(q) = s.chunk_num
    BY DEF q
  <1> QED
    BY <1>1, <1>5, <1>6

\* The most chunks of a content-defined segment.
Most == Max({SegmentMin + 1, SegmentMax, 2})

\* It is above each of its parts.
LEMMA MostFacts ==
  Most \in Nat /\ Most >= SegmentMin + 1 /\ Most >= SegmentMax /\ Most >= 2
  <1>1. SegmentMin + 1 \in Nat /\ SegmentMax \in Nat
    BY SegmentsAssumption
  <1> DEFINE a == SegmentMin + 1
             b == SegmentMax
             T == {a, b, 2}
             x == IF a >= b THEN IF a >= 2 THEN a ELSE 2 ELSE IF b >= 2 THEN b ELSE 2
  <1>2. a \in Nat /\ b \in Nat
    BY <1>1
  <1> HIDE DEF a, b
  <1>3. x \in T /\ \A y \in T : x >= y
    BY <1>2
  <1>4. Max(T) \in T /\ \A y \in T : Max(T) >= y
    BY <1>3 DEF Max
  <1> QED
    BY <1>2, <1>4 DEF Most, a, b

\* The three ways of segmenting an item: it is added, it completes its segment, or it
\* starts the next.
LEMMA SegmentingWays ==
  ASSUME NEW method \in Methods, NEW s \in SegmentRecords, NEW c \in Items,
         NEW r, r = segmenting(method, s, c)
  PROVE  \/ /\ ~r.done /\ r.tmp = Added(s, c)
            /\ method = "fixed" => IsMark(c) \/ Added(s, c).chunk_num # SegmentLength
            /\ method = "file" => c.mark # "end"
            /\ method = "content" => IsMark(c) \/ s.chunk_num < SegmentMin \/ Added(s, c).chunk_num < SegmentMax
         \/ /\ r.done /\ r.segment = Added(s, c) /\ r.tmp = NewSegment
            /\ method = "fixed" => Added(s, c).chunk_num = SegmentLength
            /\ method = "file" => c.mark = "end"
            /\ method = "content" => ~IsMark(c) /\ s.chunk_num >= SegmentMin
         \/ /\ r.done /\ r.segment = s /\ r.tmp = Added(NewSegment, c) /\ method = "content"
            /\ ~IsMark(c) /\ s.chunk_num >= SegmentMin
  <1> DEFINE a == Added(s, c)
             g == Goes(a)
             f == Completes(a, NewSegment)
             e == Completes(s, Added(NewSegment, c))
  <1>1. /\ ~g.done /\ g.tmp = a
        /\ f.done /\ f.segment = a /\ f.tmp = NewSegment
        /\ e.done /\ e.segment = s /\ e.tmp = Added(NewSegment, c)
    BY DEF Goes, Completes
  <1>2. /\ s.chunk_num \in Nat /\ a.chunk_num \in Nat /\ SegmentMin \in Nat /\ SegmentMax \in Nat
    <2>1. a \in SegmentRecords
      BY AddedFacts
    <2> HIDE DEF a
    <2> QED
      BY <2>1, SegmentsAssumption DEF SegmentRecords
  <1>3. CASE method = "fixed"
    <2>1. r = IF ~IsMark(c) /\ a.chunk_num = SegmentLength THEN f ELSE g
      BY <1>3 DEF segmenting, segment_fixed
    <2> HIDE DEF a, g, f, e
    <2>2. CASE ~IsMark(c) /\ a.chunk_num = SegmentLength
      BY <1>1, <1>3, <2>1, <2>2 DEF a
    <2>3. CASE ~(~IsMark(c) /\ a.chunk_num = SegmentLength)
      BY <1>1, <1>3, <2>1, <2>3 DEF a
    <2> QED
      BY <2>2, <2>3
  <1>4. CASE method = "file"
    <2>1. r = IF c.mark = "end" THEN f ELSE g
      BY <1>4 DEF segmenting, segment_file_defined
    <2> HIDE DEF a, g, f, e
    <2>2. CASE c.mark = "end"
      BY <1>1, <1>4, <2>1, <2>2 DEF a
    <2>3. CASE c.mark # "end"
      BY <1>1, <1>4, <2>1, <2>3 DEF a
    <2> QED
      BY <2>2, <2>3
  <1>5. CASE method = "content"
    <2> DEFINE H == HeadOf(c.fp) % SegmentLength = 0
    <2>1. r = IF IsMark(c) \/ s.chunk_num < SegmentMin THEN g
              ELSE IF H THEN e ELSE IF a.chunk_num >= SegmentMax THEN f ELSE g
      BY <1>5 DEF segmenting, segment_content_defined
    <2> HIDE DEF a, g, f, e, H
    <2>2. CASE IsMark(c) \/ s.chunk_num < SegmentMin
      <3>1. r = g
        BY <2>1, <2>2
      <3> QED
        BY <1>1, <1>5, <2>2, <3>1 DEF a
    <2>3. CASE ~(IsMark(c) \/ s.chunk_num < SegmentMin) /\ H
      <3>1. r = e /\ ~IsMark(c) /\ s.chunk_num >= SegmentMin
        BY <1>2, <2>1, <2>3
      <3> QED
        BY <1>1, <1>5, <3>1
    <2>4. CASE ~(IsMark(c) \/ s.chunk_num < SegmentMin) /\ ~H /\ a.chunk_num >= SegmentMax
      <3>1. r = f /\ ~IsMark(c) /\ s.chunk_num >= SegmentMin
        BY <1>2, <2>1, <2>4
      <3> QED
        BY <1>1, <1>5, <3>1 DEF a
    <2>5. CASE ~(IsMark(c) \/ s.chunk_num < SegmentMin) /\ ~H /\ ~(a.chunk_num >= SegmentMax)
      <3>1. r = g /\ a.chunk_num < SegmentMax
        BY <1>2, <2>1, <2>5
      <3> QED
        BY <1>1, <1>5, <3>1 DEF a
    <2> QED
      BY <2>2, <2>3, <2>4, <2>5
  <1> QED
    BY <1>3, <1>4, <1>5 DEF Methods

\* However it is segmented, it is given behind what was given before.
LEMMA GivenGrows ==
  ASSUME NEW ss \in Seq(SegmentRecords), NEW s \in SegmentRecords, NEW c \in Items
  PROVE  /\ GivenIn(ss, Added(s, c)) = Append(GivenIn(ss, s), c)
         /\ GivenIn(Append(ss, Added(s, c)), NewSegment) = Append(GivenIn(ss, s), c)
         /\ GivenIn(Append(ss, s), Added(NewSegment, c)) = Append(GivenIn(ss, s), c)
         /\ GivenIn(Append(ss, s), NewSegment) = GivenIn(ss, s)
  <1> DEFINE f == FlattenSeq(ChunksOf(ss))
             q == s.chunks
             a == Added(s, c)
             b == Added(NewSegment, c)
             x == Append(q, c)
  <1>1. /\ f \in Seq(Items) /\ q \in Seq(Items) /\ a \in SegmentRecords /\ a.chunks = x
        /\ NewSegment \in SegmentRecords /\ NewSegment.chunks = <<>>
    BY ChunksOfFacts, AddedFacts
  <1>2. b \in SegmentRecords /\ b.chunks = Append(<<>>, c)
    BY <1>1, AddedFacts
  <1>3. FlattenSeq(ChunksOf(Append(ss, s))) = f \o q
    BY ChunksOfFacts
  <1>4. FlattenSeq(ChunksOf(Append(ss, a))) = f \o x
    <2> HIDE DEF a, x
    <2> QED
      BY <1>1, ChunksOfFacts
  <1> HIDE DEF f, q, a, b
  <1>5. /\ Append(ss, s) \in Seq(SegmentRecords) /\ Append(ss, a) \in Seq(SegmentRecords)
    BY <1>1, AppendFacts
  <1>6. /\ GivenIn(ss, s) = f \o q
        /\ GivenIn(ss, a) = f \o x
        /\ GivenIn(Append(ss, a), NewSegment) = (f \o x) \o <<>>
        /\ GivenIn(Append(ss, s), b) = (f \o q) \o Append(<<>>, c)
        /\ GivenIn(Append(ss, s), NewSegment) = (f \o q) \o <<>>
    <2>1. GivenIn(ss, s) = f \o q
      BY GivenIs DEF f, q
    <2>2. GivenIn(ss, a) = f \o x
      BY <1>1, GivenIs DEF f
    <2>3. GivenIn(Append(ss, a), NewSegment) = (f \o x) \o <<>>
      BY <1>1, <1>4, <1>5, GivenIs
    <2>4. GivenIn(Append(ss, s), b) = (f \o q) \o Append(<<>>, c)
      BY <1>2, <1>3, <1>5, GivenIs
    <2>5. GivenIn(Append(ss, s), NewSegment) = (f \o q) \o <<>>
      BY <1>1, <1>3, <1>5, GivenIs
    <2> QED
      BY <2>1, <2>2, <2>3, <2>4, <2>5
  <1> DEFINE p == f \o q
             o == <<c>>
  <1>7. o \in Seq(Items) /\ x = q \o o /\ <<>> \in Seq(Items)
    <2>1. <<>> \in Seq(Items)
      OBVIOUS
    <2>2. q \in Seq(Items)
      BY <1>1
    <2>3. o \in Seq(Items) /\ Append(q, c) = q \o o
      BY <2>2, ConcatFacts
    <2> QED
      BY <2>1, <2>3
  <1>8. p \in Seq(Items) /\ f \o (q \o o) = (f \o q) \o o
    <2>1. f \in Seq(Items) /\ q \in Seq(Items) /\ o \in Seq(Items)
      BY <1>1, <1>7
    <2> HIDE DEF o
    <2>2. p \in Seq(Items)
      BY <2>1, ConcatProperties
    <2>3. (f \o q) \o o = f \o (q \o o)
      BY <2>1, ConcatAssociative
    <2> QED
      BY <2>2, <2>3
  <1>9. Append(p, c) = p \o o /\ p \o <<>> = p
    <2> HIDE DEF p
    <2> QED
      BY <1>8, ConcatFacts
  <1>10. Append(<<>>, c) = o
    <2>1. Append(<<>>, c) = <<>> \o o
      BY <1>7, ConcatFacts
    <2>2. <<>> \o o = o
      <3> HIDE DEF o
      <3> QED
        BY <1>7, ConcatFacts
    <2> QED
      BY <2>1, <2>2
  <1>11. f \o x = Append(p, c) /\ (f \o x) \o <<>> = Append(p, c)
    <2>1. f \o x = Append(p, c)
      BY <1>7, <1>8, <1>9
    <2>2. Append(p, c) \in Seq(Items)
      <3> HIDE DEF p
      <3> QED
        BY <1>8, AppendFacts
    <2> DEFINE y == Append(p, c)
    <2> HIDE DEF y
    <2>3. y \o <<>> = y
      BY <2>2, ConcatFacts DEF y
    <2> QED
      BY <2>1, <2>3 DEF y
  <1> QED
    BY <1>6, <1>9, <1>10, <1>11 DEF a, b

-----------------------------------------------------------------------------
(* dedup_thread.                                                           *)

\* A segment that is complete is bounded.
CompletedFits(method, s) == SegmentFits(method, s, FALSE)

\* What TmpBounded says of a segment that is being filled.
TmpFits(method, s) ==
  /\ s.chunk_num = Len(NormalChunks(s.chunks))
  /\ method = "fixed" => s.chunk_num < SegmentLength
  /\ method = "content" => s.chunk_num <= Most - 1
  /\ method = "file" => \A j \in DOMAIN s.chunks : s.chunks[j].mark # "end"

\* It says it of tmp.
LEMMA TmpFit ==
  /\ TmpBounded <=> TmpFits(setting.method, tmp)
  /\ TmpBounded' <=> TmpFits(setting'.method, tmp')
  BY Zenon DEF TmpBounded, TmpFits, Most

\* The first segment is not full.
LEMMA NewFits ==
  ASSUME NEW method
  PROVE  TmpFits(method, NewSegment)
  <1>1. NewSegment.chunks = <<>> /\ NewSegment.chunk_num = 0
    BY DEF NewSegment
  <1>2. NormalChunks(<<>>) = <<>>
    <2>1. FileEnd \in Items /\ <<>> \in Seq(Items)
      BY ItemFacts
    <2> QED
      BY <2>1, NormalAppend
  <1>3. Len(<<>>) = 0 /\ DOMAIN <<>> = {}
    OBVIOUS
  <1>4. 0 < SegmentLength /\ 0 <= Most - 1
    BY MostFacts, SegmentsAssumption
  <1> QED
    BY <1>1, <1>2, <1>3, <1>4 DEF TmpFits

\* The segment that an item is added to, or that it starts, goes on or is complete.
LEMMA SegmentingFits ==
  ASSUME NEW method \in Methods, NEW s \in SegmentRecords, NEW c \in Items, TmpFits(method, s),
         NEW r, r = segmenting(method, s, c)
  PROVE  /\ r.tmp \in SegmentRecords /\ TmpFits(method, r.tmp)
         /\ r.done => r.segment \in SegmentRecords /\ CompletedFits(method, r.segment)
         /\ method = "file" => (r.tmp.chunks = <<>> <=> c.mark = "end")
  <1> DEFINE a == Added(s, c)
             b == Added(NewSegment, c)
  <1>1. /\ s.chunk_num = Len(NormalChunks(s.chunks))
        /\ method = "fixed" => s.chunk_num < SegmentLength
        /\ method = "content" => s.chunk_num <= Most - 1
        /\ method = "file" => \A j \in DOMAIN s.chunks : s.chunks[j].mark # "end"
    BY DEF TmpFits
  <1>2. /\ a \in SegmentRecords /\ a.chunks = Append(s.chunks, c)
        /\ a.chunk_num = s.chunk_num + (IF IsMark(c) THEN 0 ELSE 1)
        /\ NewSegment \in SegmentRecords /\ NewSegment.chunks = <<>> /\ NewSegment.chunk_num = 0
        /\ s.chunks \in Seq(Items) /\ s.chunk_num \in Nat
    BY AddedFacts
  <1>3. a.chunk_num = Len(NormalChunks(a.chunks))
    BY <1>1, AddedCounts
  <1>4. b \in SegmentRecords /\ b.chunk_num = 0 + (IF IsMark(c) THEN 0 ELSE 1)
    BY <1>2, AddedFacts
  <1>5. b.chunk_num = Len(NormalChunks(b.chunks))
    <2>1. NewSegment.chunk_num = Len(NormalChunks(NewSegment.chunks))
      BY NewFits DEF TmpFits
    <2> QED
      BY <1>2, <2>1, AddedCounts
  <1>6. /\ Most \in Nat /\ Most >= SegmentMin + 1 /\ Most >= SegmentMax /\ Most >= 2
        /\ SegmentLength \in Nat /\ SegmentMin \in Nat /\ SegmentMax \in Nat
    BY MostFacts, SegmentsAssumption
  <1> DEFINE q == s.chunks
             l == Len(q)
  <1>7. /\ a.chunks # <<>> /\ Len(a.chunks) = l + 1 /\ DOMAIN a.chunks = 1 .. l + 1 /\ a.chunks[l + 1] = c
        /\ \A j \in 1 .. l : a.chunks[j] = q[j]
        /\ DOMAIN q = 1 .. l /\ l \in Nat
    <2>1. q \in Seq(Items)
      BY <1>2
    <2> HIDE DEF q
    <2> DEFINE x == Append(q, c)
    <2>2. /\ x \in Seq(Items) /\ Len(x) = l + 1 /\ DOMAIN x = 1 .. l + 1 /\ x[l + 1] = c
          /\ \A j \in 1 .. l : x[j] = q[j]
      BY <2>1, AppendFacts
    <2>3. DOMAIN q = 1 .. l /\ l \in Nat
      BY <2>1, SeqFacts
    <2> HIDE DEF x, l
    <2>4. x # <<>>
      BY <2>2, <2>3, SeqFacts
    <2> QED
      BY <1>2, <2>2, <2>3, <2>4 DEF x, q
  <1>8. \/ /\ ~r.done /\ r.tmp = a
           /\ method = "fixed" => IsMark(c) \/ a.chunk_num # SegmentLength
           /\ method = "file" => c.mark # "end"
           /\ method = "content" => IsMark(c) \/ s.chunk_num < SegmentMin \/ a.chunk_num < SegmentMax
        \/ /\ r.done /\ r.segment = a /\ r.tmp = NewSegment
           /\ method = "fixed" => a.chunk_num = SegmentLength
           /\ method = "file" => c.mark = "end"
           /\ method = "content" => ~IsMark(c) /\ s.chunk_num >= SegmentMin
        \/ /\ r.done /\ r.segment = s /\ r.tmp = b /\ method = "content"
           /\ ~IsMark(c) /\ s.chunk_num >= SegmentMin
    BY SegmentingWays
  <1> HIDE DEF a, b, q, l
  <1>9. ASSUME ~r.done, r.tmp = a,
               method = "fixed" => IsMark(c) \/ a.chunk_num # SegmentLength,
               method = "file" => c.mark # "end",
               method = "content" => IsMark(c) \/ s.chunk_num < SegmentMin \/ a.chunk_num < SegmentMax
        PROVE  /\ r.tmp \in SegmentRecords /\ TmpFits(method, r.tmp)
               /\ method = "file" => (r.tmp.chunks = <<>> <=> c.mark = "end")
    <2>1. method = "fixed" => a.chunk_num < SegmentLength
      BY <1>1, <1>2, <1>6, <1>9
    <2>2. method = "content" => a.chunk_num <= Most - 1
      BY <1>1, <1>2, <1>6, <1>9
    <2>3. ASSUME method = "file", NEW j \in DOMAIN a.chunks PROVE a.chunks[j].mark # "end"
      <3>1. j # l + 1 => j \in 1 .. l
        BY <1>7, <2>3
      <3>2. \A i \in 1 .. l : q[i].mark # "end"
        BY <1>1, <1>7, <2>3 DEF q
      <3> QED
        BY <1>7, <1>9, <2>3, <3>1, <3>2
    <2> QED
      BY <1>2, <1>3, <1>7, <1>9, <2>1, <2>2, <2>3 DEF TmpFits
  <1>10. ASSUME r.done, r.segment = a, r.tmp = NewSegment,
                method = "fixed" => a.chunk_num = SegmentLength,
                method = "file" => c.mark = "end",
                method = "content" => ~IsMark(c) /\ s.chunk_num >= SegmentMin
         PROVE  /\ r.tmp \in SegmentRecords /\ TmpFits(method, r.tmp)
                /\ r.segment \in SegmentRecords /\ CompletedFits(method, r.segment)
                /\ method = "file" => (r.tmp.chunks = <<>> <=> c.mark = "end")
    <2>1. method = "fixed" => a.chunk_num <= SegmentLength /\ a.chunk_num = SegmentLength
      BY <1>6, <1>10
    <2>2. method = "content" => a.chunk_num <= Most /\ a.chunk_num >= SegmentMin
      BY <1>1, <1>2, <1>6, <1>10
    <2>3. ASSUME method = "file", NEW j \in DOMAIN a.chunks
          PROVE  a.chunks[j].mark = "end" <=> j = Len(a.chunks)
      <3>1. j # l + 1 => j \in 1 .. l
        BY <1>7, <2>3
      <3>2. \A i \in 1 .. l : q[i].mark # "end"
        BY <1>1, <1>7, <2>3 DEF q
      <3> QED
        BY <1>7, <1>10, <2>3, <3>1, <3>2
    <2>4. CompletedFits(method, a)
      BY <1>3, <2>1, <2>2, <2>3 DEF CompletedFits, SegmentFits, Most
    <2> QED
      BY <1>2, <1>10, <2>4, NewFits
  <1>11. ASSUME r.done, r.segment = s, r.tmp = b, method = "content",
                ~IsMark(c), s.chunk_num >= SegmentMin
         PROVE  /\ r.tmp \in SegmentRecords /\ TmpFits(method, r.tmp)
                /\ r.segment \in SegmentRecords /\ CompletedFits(method, r.segment)
    <2>1. b.chunk_num = 1 /\ 1 <= Most - 1 /\ s.chunk_num <= Most
      BY <1>1, <1>2, <1>4, <1>6, <1>11
    <2>2. TmpFits(method, b)
      BY <1>5, <1>11, <2>1 DEF TmpFits
    <2>3. CompletedFits(method, s)
      BY <1>1, <1>11, <2>1 DEF CompletedFits, SegmentFits, Most
    <2> QED
      BY <1>4, <1>11, <2>2, <2>3
  <1>12. method = "content" => method # "file"
    OBVIOUS
  <1> QED
    BY <1>8, <1>9, <1>10, <1>11, <1>12

\* What is behind the queues of dedup_thread.
BehindSource(h, m, r) ==
  /\ Path(World("cut"), queues["chunk"].items, h, m)
  /\ ChunkerAt(m, r)
  /\ Path(World("read"), queues["read"].items, r, ReaderPlace)

\* FlowAt in these parts.
LEMMA FlowSource ==
  /\ Flow <=> \E d, h, m, r \in Places(files) :
                /\ Path(World("hashed"), Given, FrontOf(1), d) /\ Copies(d, h) /\ BehindSource(h, m, r)
                /\ setting.method = "file" => (tmp.chunks = <<>> <=> ~d.open)
  /\ Flow' <=> \E d, h, m, r \in Places(files') :
                /\ Path(World("hashed"), Given, FrontOf(1), d)' /\ Copies(d, h)' /\ BehindSource(h, m, r)'
                /\ setting'.method = "file" => (tmp'.chunks = <<>> <=> ~d.open)
  <1>1. Flow <=> \E d, h, m, r \in Places(files) :
                /\ Path(World("hashed"), Given, FrontOf(1), d) /\ Copies(d, h) /\ BehindSource(h, m, r)
                /\ setting.method = "file" => (tmp.chunks = <<>> <=> ~d.open)
    BY Zenon DEF Flow, FlowAt, Copies, BehindSource
  <1>2. Flow' <=> \E d, h, m, r \in Places(files') :
                /\ Path(World("hashed"), Given, FrontOf(1), d)' /\ Copies(d, h)' /\ BehindSource(h, m, r)'
                /\ setting'.method = "file" => (tmp'.chunks = <<>> <=> ~d.open)
    BY Zenon DEF Flow, FlowAt, Copies, BehindSource
  <1> QED
    BY <1>1, <1>2

\* In a job that makes no trace nothing is in it.
LEMMA NoTrace ==
  ASSUME IInv, setting.job # "trace", NEW d \in Places(files), NEW h \in Places(files), Copies(d, h)
  PROVE  /\ queues["trace"].items = <<>> /\ Pending = <<>> /\ Path(World("hashed"), queues["hash"].items, d, h)
         /\ Source = "hash"
  <1>1. Types /\ Terms
    BY DEF IInv
  <1>2. trace = <<>> /\ queues["trace"].items = <<>>
    BY <1>1, Configured DEF Terms
  <1>3. Pending = <<>>
    BY <1>2 DEF Pending, Traced
  <1>4. PICK t, l \in Places(files) :
          /\ Path(World("hashed"), queues["trace"].items, d, t)
          /\ Path(World("line"), Pending, t, l)
          /\ Path(World("hashed"), queues["hash"].items, l, h)
    BY DEF Copies
  <1>5. World("hashed").files = files /\ World("line").files = files
    BY Worlds
  <1>6. t = d
    <2>1. Path(World("hashed"), <<>>, d, t) /\ d \in Places(World("hashed").files)
      BY <1>2, <1>4, <1>5
    <2> QED
      BY <2>1, PathEmpty
  <1>7. l = t
    <2>1. Path(World("line"), <<>>, t, l) /\ t \in Places(World("line").files)
      BY <1>3, <1>4, <1>5
    <2> QED
      BY <2>1, PathEmpty
  <1> QED
    BY <1>2, <1>3, <1>4, <1>6, <1>7 DEF Source

\* The next item of dedup_thread goes on from where it is.
LEMMA NextGiven ==
  ASSUME IInv, Filled(Source), queues' = Pop(queues, Source), UNCHANGED <<files, setting, trace, line>>,
         NEW d \in Places(files), NEW h \in Places(files), Copies(d, h)
  PROVE  \E g \in Places(files) : Step(World("hashed"), d, First(Source), g) /\ Copies(g, h)'
  <1>1. /\ World("hashed").files = files /\ World("line").files = files /\ files' = files
        /\ World("hashed")' = World("hashed") /\ World("line")' = World("line")
    BY Worlds, WorldsStay
  <1>2. Pending' = Pending
    BY DEF Pending, Traced
  <1>3. /\ queues \in Queues /\ "hash" \in QueueNames /\ "trace" \in QueueNames
    BY ChunkerFacts DEF QueueNames
  <1>4. CASE setting.job = "trace"
    <2> DEFINE tq == queues["trace"].items
               p == Pop(queues, "trace")
    <2>1. Source = "trace" /\ tq # <<>> /\ First(Source) = Head(tq) /\ tq \in Seq(Items)
      BY <1>3, <1>4, QueueFacts DEF Source, Filled, First
    <2>2. /\ p["trace"].items = Tail(tq)
          /\ \A o \in QueueNames \ {"trace"} : p[o] = queues[o]
      BY <1>3, <2>1, PopFacts
    <2> HIDE DEF p
    <2>3. queues'["trace"].items = Tail(tq) /\ queues'["hash"] = queues["hash"]
      BY <1>3, <2>1, <2>2 DEF p
    <2>4. PICK t, l \in Places(files) :
            /\ Path(World("hashed"), tq, d, t)
            /\ Path(World("line"), Pending, t, l)
            /\ Path(World("hashed"), queues["hash"].items, l, h)
      BY DEF Copies
    <2>5. PICK g \in Places(files) : Step(World("hashed"), d, Head(tq), g) /\ Path(World("hashed"), Tail(tq), g, t)
      <3> HIDE DEF tq
      <3>1. \E x \in Places(World("hashed").files) :
              Step(World("hashed"), d, Head(tq), x) /\ Path(World("hashed"), Tail(tq), x, t)
        BY <2>1, <2>4, PathHead
      <3> QED
        BY <1>1, <3>1
    <2>6. Copies(g, h)'
      BY <1>1, <1>2, <2>3, <2>4, <2>5 DEF Copies
    <2> QED
      BY <2>1, <2>5, <2>6
  <1>5. CASE setting.job # "trace"
    <2> DEFINE hq == queues["hash"].items
               p == Pop(queues, "hash")
    <2>1. queues["trace"].items = <<>> /\ Pending = <<>> /\ Path(World("hashed"), hq, d, h) /\ Source = "hash"
      BY <1>5, NoTrace
    <2>2. hq # <<>> /\ First(Source) = Head(hq) /\ hq \in Seq(Items)
      BY <1>3, <2>1, QueueFacts DEF Filled, First
    <2>3. /\ p["hash"].items = Tail(hq)
          /\ \A o \in QueueNames \ {"hash"} : p[o] = queues[o]
      BY <1>3, <2>2, PopFacts
    <2> HIDE DEF p
    <2>4. queues'["hash"].items = Tail(hq) /\ queues'["trace"] = queues["trace"]
      BY <1>3, <2>1, <2>3 DEF p
    <2>5. PICK g \in Places(files) : Step(World("hashed"), d, Head(hq), g) /\ Path(World("hashed"), Tail(hq), g, h)
      <3> HIDE DEF hq
      <3>1. \E x \in Places(World("hashed").files) :
              Step(World("hashed"), d, Head(hq), x) /\ Path(World("hashed"), Tail(hq), x, h)
        BY <2>1, <2>2, PathHead
      <3> QED
        BY <1>1, <3>1
    <2>6. Path(World("hashed"), <<>>, g, g) /\ Path(World("line"), <<>>, g, g)
      BY <1>1, <2>5, PathEmpty
    <2>7. Copies(g, h)'
      BY <1>1, <1>2, <2>1, <2>4, <2>5, <2>6 DEF Copies
    <2> QED
      BY <2>2, <2>5, <2>7
  <1> QED
    BY <1>4, <1>5

\* The queue that dedup_thread pops.
LEMMA SourcePopped ==
  ASSUME IInv, Filled(Source), queues' = Pop(queues, Source), UNCHANGED <<files, setting, reader, chunker, trace, line>>
  PROVE  /\ queues' \in Queues /\ First(Source) \in Items
         /\ queues'["read"] = queues["read"] /\ queues'["chunk"] = queues["chunk"]
         /\ \A q \in QueueNames : Len(queues'[q].items) <= QueueSize
         /\ Terms'
  <1>1. Types /\ Terms
    BY DEF IInv
  <1>2. /\ queues \in Queues /\ "read" \in QueueNames /\ "chunk" \in QueueNames
        /\ "hash" \in QueueNames /\ "trace" \in QueueNames /\ Source \in {"hash", "trace"}
        /\ \A q \in QueueNames : Len(queues[q].items) <= QueueSize
    BY ChunkerFacts DEF QueueNames, Source
  <1>3. PICK o : o = Source /\ o \in QueueNames /\ o \in {"hash", "trace"}
    BY <1>2
  <1> DEFINE p == Pop(queues, o)
             oq == queues[o].items
  <1>4. oq # <<>> /\ First(Source) = Head(oq) /\ queues' = p
    BY <1>3 DEF Filled, First
  <1>5. /\ p \in Queues /\ Head(oq) \in Items
        /\ p[o].items = Tail(oq) /\ p[o].term = queues[o].term
        /\ \A q \in QueueNames \ {o} : p[q] = queues[q]
        /\ Len(Tail(oq)) <= Len(oq)
    BY <1>2, <1>3, <1>4, PopFacts
  <1> HIDE DEF p
  <1>6. /\ queues' \in Queues /\ First(Source) \in Items
        /\ queues'["read"] = queues["read"] /\ queues'["chunk"] = queues["chunk"]
        /\ queues'["hash"].term = queues["hash"].term /\ queues'["trace"].term = queues["trace"].term
    BY <1>2, <1>3, <1>4, <1>5
  <1>7. ASSUME NEW q \in QueueNames PROVE Len(queues'[q].items) <= QueueSize
    <2>1. CASE q = o
      <3>1. Len(oq) \in Nat /\ Len(oq) <= QueueSize /\ QueueSize \in Nat /\ oq \in Seq(Items)
        BY <1>2, <1>3, QueueFacts, Configured DEF IInv
      <3>2. Len(Tail(oq)) \in Nat
        BY <1>4, <3>1, HeadTailFacts
      <3>3. queues'[q].items = Tail(oq)
        BY <1>4, <1>5, <2>1
      <3>4. Len(Tail(oq)) <= QueueSize
        BY <1>5, <3>1, <3>2
      <3> QED
        BY <3>3, <3>4
    <2>2. CASE q # o
      BY <1>2, <1>4, <1>5, <2>2
    <2> QED
      BY <2>1, <2>2
  <1>8. Terms'
    <2>1. /\ files' = files /\ setting' = setting /\ reader' = reader /\ chunker' = chunker
          /\ trace' = trace /\ line' = line /\ (Traced' <=> Traced)
      BY DEF Traced
    <2>2. queues'["read"].term => ~reader'.open /\ AllRead'
      BY <1>1, <1>6, <2>1 DEF Terms, AllRead
    <2>3. queues'["chunk"].term => chunker'.pc = "start" /\ Ended("read")'
      BY <1>1, <1>6, <2>1 DEF Terms, Ended, Filled
    <2>4. queues'["hash"].term => Ended("chunk")'
      BY <1>1, <1>6 DEF Terms, Ended, Filled
    <2>5. Traced' => Ended("hash")'
      <3>1. SUFFICES ASSUME Traced PROVE Ended("hash")'
        BY <2>1
      <3>2. setting.job = "trace" /\ queues["hash"].term /\ queues["hash"].items = <<>>
        BY <3>1, TraceFacts
      <3>3. o = "trace"
        BY <1>3, <3>2 DEF Source
      <3>4. queues'["hash"] = queues["hash"]
        BY <1>2, <1>4, <1>5, <3>3
      <3> QED
        BY <3>2, <3>4 DEF Ended, Filled
    <2>6. setting.job = "backup" => queues'["trace"].items = <<>>
      <3>1. SUFFICES ASSUME setting.job = "backup" PROVE queues'["trace"].items = <<>>
        OBVIOUS
      <3>2. o = "hash" /\ queues["trace"].items = <<>>
        BY <1>1, <1>3, <3>1 DEF Source, Terms
      <3>3. queues'["trace"] = queues["trace"]
        BY <1>2, <1>4, <1>5, <3>2
      <3> QED
        BY <3>2, <3>3
    <2> QED
      BY <1>1, <1>6, <2>1, <2>2, <2>3, <2>4, <2>5, <2>6 DEF Terms
  <1> QED
    BY <1>6, <1>7, <1>8

\* dedup_thread segments an item.
LEMMA SegmentKeeps ==
  ASSUME IInv, Segment
  PROVE  IInv'
  <1>0. PICK c : c = First(Source)
    OBVIOUS
  <1>00. PICK r : r = segmenting(setting.method, tmp, c)
    OBVIOUS
  <1>1. /\ Filled(Source) /\ ~done /\ tmp' = r.tmp
        /\ segments' = IF r.done THEN Append(segments, r.segment) ELSE segments
        /\ queues' = Pop(queues, Source)
        /\ UNCHANGED <<files, setting, reader, chunker, trace, line, done>>
    BY <1>0, <1>00 DEF Segment
  <1>2. Types /\ Terms /\ Flow /\ TmpBounded /\ SegmentsBounded
    BY DEF IInv
  <1>3. /\ queues' \in Queues /\ c \in Items
        /\ queues'["read"] = queues["read"] /\ queues'["chunk"] = queues["chunk"]
        /\ \A q \in QueueNames : Len(queues'[q].items) <= QueueSize
        /\ Terms'
    BY <1>0, <1>1, SourcePopped
  <1>4. /\ tmp \in SegmentRecords /\ segments \in Seq(SegmentRecords) /\ setting.method \in Methods
        /\ TmpFits(setting.method, tmp) /\ done = FALSE
    BY <1>1, <1>2, Configured, TmpFit DEF Types
  <1>5. /\ r.tmp \in SegmentRecords /\ TmpFits(setting.method, r.tmp)
        /\ r.done => r.segment \in SegmentRecords /\ CompletedFits(setting.method, r.segment)
        /\ setting.method = "file" => (r.tmp.chunks = <<>> <=> c.mark = "end")
    BY <1>00, <1>3, <1>4, SegmentingFits
  <1>6. /\ segments' \in Seq(SegmentRecords) /\ Len(segments) \in Nat /\ DOMAIN segments = 1 .. Len(segments)
        /\ DOMAIN segments' = 1 .. Len(segments')
        /\ r.done => Len(segments') = Len(segments) + 1 /\ segments'[Len(segments) + 1] = r.segment
                     /\ \A k \in 1 .. Len(segments) : segments'[k] = segments[k]
        /\ ~r.done => segments' = segments
    <2>1. r.done => /\ segments' = Append(segments, r.segment)
                    /\ segments' \in Seq(SegmentRecords)
                    /\ Len(segments') = Len(segments) + 1 /\ segments'[Len(segments) + 1] = r.segment
                    /\ \A k \in 1 .. Len(segments) : segments'[k] = segments[k]
      BY <1>1, <1>4, <1>5, AppendFacts
    <2>2. ~r.done => segments' = segments
      BY <1>1
    <2>3. segments' \in Seq(SegmentRecords)
      BY <1>4, <2>1, <2>2
    <2> QED
      BY <1>4, <2>1, <2>2, <2>3, SeqFacts
  <1>7. TmpBounded'
    BY <1>1, <1>5, TmpFit
  <1>8. SegmentsBounded'
    <2>1. ASSUME NEW k \in DOMAIN segments'
          PROVE  SegmentFits(setting'.method, segments'[k], done' /\ k = Len(segments'))
      <3>1. setting' = setting /\ done' = FALSE /\ (done' /\ k = Len(segments')) = FALSE
        BY <1>1, <1>4
      <3>2. \A i \in DOMAIN segments : SegmentFits(setting.method, segments[i], FALSE)
        <4>1. \A i : (done /\ i = Len(segments)) = FALSE
          BY <1>4
        <4> QED
          BY <1>2, <4>1, SegmentsFit
      <3>3. CASE k \in DOMAIN segments
        BY <1>6, <3>1, <3>2, <3>3
      <3>4. CASE k \notin DOMAIN segments
        <4>1. r.done /\ k = Len(segments) + 1
          <5>1. r.done
            BY <1>6, <3>4
          <5>2. Len(segments') = Len(segments) + 1
            BY <1>6, <5>1
          <5>3. k \in 1 .. Len(segments) + 1 /\ k \notin 1 .. Len(segments)
            BY <1>6, <3>4, <5>2
          <5>4. k = Len(segments) + 1
            <6>1. Len(segments) \in Nat
              BY <1>6
            <6> DEFINE l == Len(segments)
            <6> HIDE DEF l
            <6>2. k \in 1 .. l + 1 /\ k \notin 1 .. l /\ l \in Nat
              BY <5>3, <6>1 DEF l
            <6>3. k = l + 1
              BY <6>2
            <6> QED
              BY <6>3 DEF l
          <5> QED
            BY <5>1, <5>4
        <4> QED
          BY <1>5, <1>6, <3>1, <4>1 DEF CompletedFits
      <3> QED
        BY <3>3, <3>4
    <2> QED
      BY <2>1, SegmentsFit
  <1>9. Given' = Append(Given, c)
    <2>1. Given' = GivenIn(segments', tmp') /\ Given = GivenIn(segments, tmp)
      BY DEF Given
    <2>2. /\ GivenIn(segments, Added(tmp, c)) = Append(GivenIn(segments, tmp), c)
          /\ GivenIn(Append(segments, Added(tmp, c)), NewSegment) = Append(GivenIn(segments, tmp), c)
          /\ GivenIn(Append(segments, tmp), Added(NewSegment, c)) = Append(GivenIn(segments, tmp), c)
      BY <1>3, <1>4, GivenGrows
    <2>3. \/ ~r.done /\ r.tmp = Added(tmp, c)
          \/ r.done /\ r.segment = Added(tmp, c) /\ r.tmp = NewSegment
          \/ r.done /\ r.segment = tmp /\ r.tmp = Added(NewSegment, c)
      BY <1>00, <1>3, <1>4, SegmentingWays
    <2> QED
      BY <1>1, <2>1, <2>2, <2>3
  <1>10. Types'
    BY <1>1, <1>2, <1>3, <1>5, <1>6 DEF Types, Queues
  <1>11. Flow'
    <2>1. PICK d, h, m, s \in Places(files) :
            /\ Path(World("hashed"), Given, FrontOf(1), d) /\ Copies(d, h) /\ BehindSource(h, m, s)
            /\ setting.method = "file" => (tmp.chunks = <<>> <=> ~d.open)
      BY <1>2, FlowSource
    <2>2. PICK g \in Places(files) : Step(World("hashed"), d, c, g) /\ Copies(g, h)'
      BY <1>0, <1>1, <2>1, NextGiven
    <2>3. World("hashed")' = World("hashed") /\ files' = files /\ setting' = setting /\ World("hashed").files = files
      BY <1>1, WorldsStay, Worlds
    <2>4. Path(World("hashed"), Append(Given, c), FrontOf(1), g)
      <3>1. Given \in Seq(Items)
        BY <1>4, GivenIs DEF Given
      <3> QED
        BY <1>3, <2>1, <2>2, <2>3, <3>1, PathAppend
    <2>5. Path(World("hashed"), Given, FrontOf(1), g)'
      BY <1>9, <2>3, <2>4
    <2>6. BehindSource(h, m, s)'
      BY <1>1, <1>3, <2>1 DEF BehindSource, ChunkerAt, World, ReaderPlace
    <2>7. setting'.method = "file" => (tmp'.chunks = <<>> <=> ~g.open)
      <3>1. c.mark = "end" <=> ~g.open
        <4>1. World("hashed").stage \in {"hashed", "wanted"}
          BY Worlds
        <4>2. \/ c.mark = "start" /\ Opens(World("hashed"), d, g)
              \/ \E n \in Nat : c.mark = "chunk" /\ Moves(World("hashed"), d, n, g)
              \/ c.mark = "end" /\ Closes(World("hashed"), d, g)
          BY <1>3, <2>2, <4>1, StepKinds
        <4>3. Opens(World("hashed"), d, g) => g.open
          BY DEF Opens, Within
        <4>4. \A n \in Nat : Moves(World("hashed"), d, n, g) => g.open
          BY DEF Moves, Within
        <4>5. Closes(World("hashed"), d, g) => ~g.open
          BY DEF Closes, FrontOf
        <4> QED
          BY <4>2, <4>3, <4>4, <4>5
      <3> QED
        BY <1>1, <1>5, <3>1
    <2> QED
      BY <2>1, <2>2, <2>3, <2>5, <2>6, <2>7, FlowSource
  <1> QED
    BY <1>3, <1>7, <1>8, <1>10, <1>11 DEF IInv

\* At the end of the stream every thread has passed on all that it had.
LEMMA AllGiven ==
  ASSUME IInv, Ended(Source), NEW d \in Places(files), NEW h \in Places(files), NEW m \in Places(files),
         NEW r \in Places(files), Copies(d, h), BehindSource(h, m, r)
  PROVE  ~d.open
  <1>1. Terms
    BY DEF IInv
  <1>2. /\ World("hashed").files = files /\ World("line").files = files /\ World("cut").files = files
    BY Worlds
  <1>3. Ended("hash") /\ d = h
    <2>1. CASE setting.job = "trace"
      <3>1. queues["trace"].term /\ queues["trace"].items = <<>>
        BY <2>1 DEF Source, Ended, Filled
      <3>2. Traced /\ line = Len(trace) /\ queues["hash"].term /\ queues["hash"].items = <<>>
            /\ Pending = SubSeq(trace, line + 1, Len(trace) - 1) /\ trace \in Seq(Lines) /\ Len(trace) \in Nat
        BY <1>1, <3>1, TraceFacts DEF Terms
      <3>3. Pending = <<>>
        <4> DEFINE q == trace
        <4>1. q \in Seq(Lines)
          BY <3>2
        <4> HIDE DEF q
        <4>2. \A i, j \in Int : i > j => SubSeq(q, i, j) = <<>>
          BY <4>1
        <4>3. line + 1 > Len(trace) - 1 /\ line + 1 \in Int /\ Len(trace) - 1 \in Int
          BY <3>2
        <4> QED
          BY <3>2, <4>2, <4>3 DEF q
      <3>4. PICK t, l \in Places(files) :
              /\ Path(World("hashed"), queues["trace"].items, d, t)
              /\ Path(World("line"), Pending, t, l)
              /\ Path(World("hashed"), queues["hash"].items, l, h)
        BY DEF Copies
      <3>5. Path(World("hashed"), <<>>, d, t) /\ Path(World("line"), <<>>, t, l) /\ Path(World("hashed"), <<>>, l, h)
        BY <3>1, <3>2, <3>3, <3>4
      <3>6. t = d
        BY <1>2, <3>5, PathEmpty
      <3>7. l = t
        BY <1>2, <3>5, PathEmpty
      <3>8. h = l
        BY <1>2, <3>5, PathEmpty
      <3> QED
        BY <3>2, <3>6, <3>7, <3>8 DEF Ended, Filled
    <2>2. CASE setting.job # "trace"
      <3>1. Path(World("hashed"), queues["hash"].items, d, h) /\ Source = "hash"
        BY <2>2, NoTrace
      <3>2. Ended("hash")
        BY <3>1
      <3>3. Path(World("hashed"), <<>>, d, h)
        BY <3>1, <3>2 DEF Ended, Filled
      <3>4. h = d
        BY <1>2, <3>3, PathEmpty
      <3> QED
        BY <3>2, <3>4
    <2> QED
      BY <2>1, <2>2
  <1>4. queues["chunk"].term /\ queues["chunk"].items = <<>> /\ chunker.pc = "start"
    BY <1>1, <1>3 DEF Terms, Ended, Filled
  <1>5. m = h
    <2>1. Path(World("cut"), <<>>, h, m)
      BY <1>4 DEF BehindSource
    <2> QED
      BY <1>2, <2>1, PathEmpty
  <1>6. ~m.open
    BY <1>4 DEF BehindSource, ChunkerAt
  <1> QED
    BY <1>3, <1>5, <1>6

\* dedup_thread ends with the rest.
LEMMA EndSegmentsKeeps ==
  ASSUME IInv, EndSegments
  PROVE  IInv'
  <1>1. /\ Ended(Source) /\ ~done /\ segments' = Append(segments, tmp) /\ tmp' = NewSegment /\ done' = TRUE
        /\ UNCHANGED <<files, setting, reader, chunker, queues, trace, line>>
    BY DEF EndSegments
  <1>2. Types /\ Terms /\ Flow /\ TmpBounded /\ SegmentsBounded
    BY DEF IInv
  <1>3. /\ tmp \in SegmentRecords /\ segments \in Seq(SegmentRecords) /\ setting.method \in Methods
        /\ TmpFits(setting.method, tmp) /\ done = FALSE /\ NewSegment \in SegmentRecords
        /\ tmp.chunk_num \in Nat
    <2>1. tmp \in SegmentRecords /\ FileEnd \in Items
      BY <1>2, ItemFacts DEF Types
    <2> QED
      BY <1>1, <1>2, <2>1, Configured, TmpFit, AddedFacts DEF Types
  <1>4. PICK d, h, m, r \in Places(files) :
          /\ Path(World("hashed"), Given, FrontOf(1), d) /\ Copies(d, h) /\ BehindSource(h, m, r)
          /\ setting.method = "file" => (tmp.chunks = <<>> <=> ~d.open)
    BY <1>2, FlowSource
  <1>5. ~d.open
    BY <1>1, <1>4, AllGiven
  <1>6. /\ segments' \in Seq(SegmentRecords) /\ Len(segments') = Len(segments) + 1 /\ Len(segments) \in Nat
        /\ segments'[Len(segments) + 1] = tmp /\ \A k \in 1 .. Len(segments) : segments'[k] = segments[k]
        /\ DOMAIN segments' = 1 .. Len(segments) + 1 /\ DOMAIN segments = 1 .. Len(segments)
    BY <1>1, <1>3, AppendFacts, SeqFacts
  <1>7. SegmentsBounded'
    <2>1. ASSUME NEW k \in DOMAIN segments'
          PROVE  SegmentFits(setting'.method, segments'[k], done' /\ k = Len(segments'))
      <3>1. CASE k \in DOMAIN segments
        <4>1. (done' /\ k = Len(segments')) = FALSE /\ setting' = setting /\ segments'[k] = segments[k]
          BY <1>1, <1>6, <3>1
        <4>2. (done /\ k = Len(segments)) = FALSE
          BY <1>3
        <4>3. SegmentFits(setting.method, segments[k], FALSE)
          BY <1>2, <3>1, <4>2, SegmentsFit
        <4> QED
          BY <4>1, <4>3
      <3>2. CASE k \notin DOMAIN segments
        <4>1. k = Len(segments) + 1
          BY <1>6, <3>2
        <4>2. (done' /\ k = Len(segments')) = TRUE /\ setting' = setting /\ segments'[k] = tmp
          BY <1>1, <1>6, <4>1
        <4>3. SegmentFits(setting.method, tmp, TRUE)
          <5>1. setting.method = "fixed" => tmp.chunk_num <= SegmentLength
            BY <1>3, SegmentsAssumption DEF TmpFits
          <5>2. setting.method = "content" => tmp.chunk_num <= Most
            BY <1>3, MostFacts DEF TmpFits
          <5>3. setting.method = "file" => tmp.chunks = <<>>
            BY <1>4, <1>5
          <5> QED
            BY <1>3, <5>1, <5>2, <5>3 DEF SegmentFits, TmpFits, Most
        <4> QED
          BY <4>2, <4>3
      <3> QED
        BY <3>1, <3>2
    <2> QED
      BY <2>1, SegmentsFit
  <1>8. TmpBounded'
    BY <1>1, TmpFit, NewFits
  <1>9. Given' = Given
    <2>1. GivenIn(Append(segments, tmp), NewSegment) = GivenIn(segments, tmp)
      <3>1. FileEnd \in Items
        BY ItemFacts
      <3> QED
        BY <1>3, <3>1, GivenGrows
    <2> QED
      BY <1>1, <2>1 DEF Given
  <1>10. Types'
    BY <1>1, <1>2, <1>3, <1>6 DEF Types
  <1>11. Terms'
    BY <1>1, <1>2 DEF Terms, Ended, Filled, Traced, AllRead
  <1>12. Flow'
    <2>1. World("hashed")' = World("hashed") /\ World("line")' = World("line") /\ files' = files /\ setting' = setting
      BY <1>1, WorldsStay
    <2>2. Pending' = Pending /\ queues' = queues
      BY <1>1 DEF Pending, Traced
    <2>3. Path(World("hashed"), Given, FrontOf(1), d)'
      BY <1>4, <1>9, <2>1
    <2>4. Copies(d, h)'
      BY <1>4, <2>1, <2>2 DEF Copies
    <2>5. BehindSource(h, m, r)'
      BY <1>1, <1>4 DEF BehindSource, ChunkerAt, World, ReaderPlace
    <2>6. tmp'.chunks = <<>>
      BY <1>1 DEF NewSegment
    <2> QED
      BY <1>4, <1>5, <2>1, <2>3, <2>4, <2>5, <2>6, FlowSource
  <1> QED
    BY <1>7, <1>8, <1>10, <1>11, <1>12 DEF IInv

-----------------------------------------------------------------------------
(* The invariant, and what follows from it.                                *)

\* Nothing has been given at first.
LEMMA NothingGiven == GivenIn(<<>>, NewSegment) = <<>>
  <1>1. <<>> \in Seq(SegmentRecords) /\ <<>> \in Seq(Seq(Items)) /\ Len(<<>>) = 0 /\ DOMAIN <<>> = {}
    OBVIOUS
  <1>2. NewSegment \in SegmentRecords /\ NewSegment.chunks = <<>>
    <2>1. FileEnd \in Items
      BY ItemFacts
    <2>2. NewSegment \in SegmentRecords
      BY <1>1 DEF NewSegment, SegmentRecords
    <2> QED
      BY <2>2 DEF NewSegment
  <1>3. ChunksOf(<<>>) = <<>>
    BY <1>1 DEF ChunksOf
  <1>4. PICK g \in [Nat -> Seq(Items)] : g[0] = <<>> /\ g[Len(<<>>)] = FlattenSeq(<<>>)
    <2> DEFINE q == <<>>
    <2>1. q \in Seq(Seq(Items))
      OBVIOUS
    <2> HIDE DEF q
    <2>2. \E g \in [Nat -> Seq(Items)] : g[0] = <<>> /\ g[Len(q)] = FlattenSeq(q)
      BY <2>1, FlattenBySteps
    <2> QED
      BY <2>2 DEF q
  <1>5. FlattenSeq(<<>>) = <<>>
    BY <1>1, <1>4
  <1>6. GivenIn(<<>>, NewSegment) = FlattenSeq(ChunksOf(<<>>)) \o NewSegment.chunks
    BY <1>1, <1>2, GivenIs
  <1> QED
    BY <1>2, <1>3, <1>5, <1>6

-----------------------------------------------------------------------------
(* The files that are left out are behind everything that was read.        *)

\* The places up to the front of file k.
UpTo(k, a) == a.file < k \/ a = FrontOf(k)

\* Two worlds that have the files before k in common.
SharedUpTo(w, v, k) ==
  /\ w.stage = v.stage /\ w.algorithm = v.algorithm
  /\ k <= Len(w.files) + 1 /\ k <= Len(v.files) + 1
  /\ \A n \in 1 .. k - 1 : w.files[n] = v.files[n]

\* A step to a place up to there comes from one, and is a step of the other world.
LEMMA StepShared ==
  ASSUME NEW w, NEW v, NEW k \in Nat \ {0}, SharedUpTo(w, v, k), Len(w.files) \in Nat, Len(v.files) \in Nat,
         NEW a \in Places(w.files), NEW b \in Places(w.files), NEW c, Step(w, a, c, b), UpTo(k, b)
  PROVE  UpTo(k, a) /\ Step(v, a, c, b)
  <1>1. a.file \in Nat \ {0} /\ b.file \in Nat /\ a.open \in BOOLEAN /\ b.open \in BOOLEAN
    BY DEF Places
  <1>2. /\ Opens(w, a, b) \/ (\E n : Moves(w, a, n, b)) \/ Closes(w, a, b)
    BY DEF Step
  <1>3. a.file < k
    <2>1. CASE Opens(w, a, b) \/ \E n : Moves(w, a, n, b)
      <3>1. b.open = TRUE /\ b.file = a.file
        BY <2>1 DEF Opens, Moves, Within
      <3>2. FrontOf(k).open = FALSE
        BY DEF FrontOf
      <3> QED
        BY <3>1, <3>2 DEF UpTo
    <2>2. CASE Closes(w, a, b)
      <3>1. b.file = a.file + 1
        BY <2>2 DEF Closes, FrontOf
      <3>2. FrontOf(k).file = k
        BY DEF FrontOf
      <3>3. b.file < k \/ b.file = k
        BY <3>2 DEF UpTo
      <3> QED
        BY <1>1, <3>1, <3>3
    <2> QED
      BY <1>2, <2>1, <2>2
  <1>4. /\ w.files[a.file] = v.files[a.file] /\ a.file <= Len(w.files) /\ a.file <= Len(v.files)
        /\ w.stage = v.stage /\ w.algorithm = v.algorithm
    BY <1>1, <1>3 DEF SharedUpTo
  <1>5. /\ Opens(w, a, b) => Opens(v, a, b)
        /\ Closes(w, a, b) <=> Closes(v, a, b)
        /\ \A n : Moves(w, a, n, b) <=> Moves(v, a, n, b)
        /\ \A n : Span(w, a, n) = Span(v, a, n)
        /\ Rest(w, a) = Rest(v, a)
    BY <1>4 DEF Opens, Closes, Moves, Span, Rest
  <1>6. (\A n : Sized(w, a, n) <=> Sized(v, a, n)) /\ View(w, c) = View(v, c)
    BY <1>4, <1>5 DEF Sized, View
  <1>7. Step(v, a, c, b)
    BY <1>4, <1>5, <1>6 DEF Step
  <1> QED
    BY <1>3, <1>7 DEF UpTo

\* A place up to there is one of both worlds.
LEMMA PlaceShared ==
  ASSUME NEW w, NEW v, NEW k \in Nat \ {0}, SharedUpTo(w, v, k), Len(w.files) \in Nat, Len(v.files) \in Nat,
         NEW a \in Places(w.files), UpTo(k, a)
  PROVE  a \in Places(v.files)
  <1>1. CASE a.file < k
    <2>1. a.file \in 1 .. k - 1 /\ a.file <= Len(v.files) /\ a.file \in 1 .. Len(v.files) + 1
      BY <1>1 DEF Places, SharedUpTo
    <2>2. w.files[a.file] = v.files[a.file]
      BY <2>1 DEF SharedUpTo
    <2> QED
      BY <2>1, <2>2 DEF Places
  <1>2. CASE a = FrontOf(k)
    <2>1. k \in 1 .. Len(v.files) + 1
      BY DEF SharedUpTo
    <2> QED
      BY <1>2, <2>1 DEF Places, FrontOf
  <1> QED
    BY <1>1, <1>2 DEF UpTo

\* A path up to there begins up to there, and is a path of the other world.
LEMMA PathShared ==
  ASSUME NEW w, NEW v, NEW k \in Nat \ {0}, SharedUpTo(w, v, k), Len(w.files) \in Nat, Len(v.files) \in Nat,
         NEW S, NEW q \in Seq(S), NEW a, NEW b, Path(w, q, a, b), UpTo(k, b)
  PROVE  UpTo(k, a) /\ Path(v, q, a, b)
  <1>1. PICK at \in [Nat -> Places(w.files)] :
          at[0] = a /\ at[Len(q)] = b /\ \A n \in 1 .. Len(q) : Step(w, at[n - 1], q[n], at[n])
    BY DEF Path
  <1> DEFINE l == Len(q)
             A == {n \in Nat : n <= l => UpTo(k, at[l - n])}
  <1>2. l \in Nat
    BY SeqFacts
  <1>3. \A n \in Nat : n \in A
    <2>1. 0 \in A
      BY <1>1, <1>2
    <2>2. ASSUME NEW n \in A PROVE n + 1 \in A
      <3>1. SUFFICES ASSUME n + 1 <= l PROVE UpTo(k, at[l - (n + 1)])
        BY <2>2
      <3> DEFINE j == l - n
      <3>2. j \in 1 .. l /\ j - 1 = l - (n + 1) /\ j - 1 \in Nat /\ j \in Nat /\ n <= l
        BY <1>2, <3>1
      <3>3. UpTo(k, at[j])
        BY <3>2
      <3> HIDE DEF j
      <3>4. at[j - 1] \in Places(w.files) /\ at[j] \in Places(w.files) /\ Step(w, at[j - 1], q[j], at[j])
        BY <1>1, <3>2
      <3>5. UpTo(k, at[j - 1])
        BY <3>3, <3>4, StepShared
      <3> QED
        BY <3>2, <3>5
    <2>3. A \in SUBSET Nat
      OBVIOUS
    <2> HIDE DEF A
    <2> QED
      BY <2>1, <2>2, <2>3, NumbersByInduction
  <1>4. ASSUME NEW n \in 0 .. l PROVE UpTo(k, at[n])
    <2>1. l - n \in Nat /\ l - n <= l /\ l - (l - n) = n
      BY <1>2
    <2>2. l - n \in A
      BY <1>3, <2>1
    <2> QED
      BY <2>1, <2>2
  <1> DEFINE to == [n \in Nat |-> IF n <= l THEN at[n] ELSE a]
  <1>5. UpTo(k, a)
    BY <1>1, <1>2, <1>4
  <1>6. \A n \in 0 .. l : at[n] \in Places(v.files)
    <2>1. ASSUME NEW n \in 0 .. l PROVE at[n] \in Places(v.files)
      <3>1. at[n] \in Places(w.files) /\ UpTo(k, at[n])
        BY <1>1, <1>2, <1>4
      <3> QED
        BY <3>1, PlaceShared
    <2> QED
      BY <2>1
  <1>7. to \in [Nat -> Places(v.files)] /\ to[0] = a /\ to[l] = b
    <2>1. a \in Places(v.files)
      BY <1>1, <1>2, <1>6
    <2>2. \A n \in Nat : to[n] \in Places(v.files)
      BY <1>2, <1>6, <2>1
    <2> QED
      BY <1>1, <1>2, <2>2
  <1>8. ASSUME NEW n \in 1 .. l PROVE Step(v, to[n - 1], q[n], to[n])
    <2>1. n \in 0 .. l /\ n - 1 \in 0 .. l /\ n \in Nat /\ n - 1 \in Nat
      BY <1>2
    <2>2. /\ at[n - 1] \in Places(w.files) /\ at[n] \in Places(w.files) /\ UpTo(k, at[n])
          /\ Step(w, at[n - 1], q[n], at[n])
      BY <1>1, <1>4, <2>1
    <2>3. Step(v, at[n - 1], q[n], at[n])
      BY <2>2, StepShared
    <2> QED
      BY <2>1, <2>3
  <1> HIDE DEF to, l, A
  <1>9. Path(v, q, a, b)
    BY <1>7, <1>8 DEF Path, l
  <1> QED
    BY <1>5, <1>9

\* What chunk_thread has is before the place up to which it has read.
LEMMA ChunkerShared ==
  ASSUME NEW k \in Nat \ {0}, SharedUpTo(World("cut"), World("cut")', k),
         UNCHANGED <<chunker, setting>>, Len(files) \in Nat, Len(files') \in Nat,
         NEW m \in Places(files), NEW r, ChunkerAt(m, r), UpTo(k, r)
  PROVE  UpTo(k, m) /\ ChunkerAt(m, r)'
  <1>1. chunker' = chunker /\ setting' = setting
    OBVIOUS
  <1>2. /\ World("cut").files = files /\ World("cut")'.files = files'
    BY DEF World
  <1>3. m.file \in Nat \ {0} /\ m.open \in BOOLEAN
    BY DEF Places
  <1>4. CASE ~m.open
    <2>1. r = m
      BY <1>4 DEF ChunkerAt
    <2> QED
      BY <1>1, <1>4, <2>1 DEF ChunkerAt
  <1>5. CASE m.open
    <2>1. m.file < k
      <3>1. CASE chunker.c = NoItem
        <4>1. r.open = TRUE /\ r.file = m.file
          BY <1>5, <3>1 DEF ChunkerAt, Within
        <4>2. FrontOf(k).open = FALSE
          BY DEF FrontOf
        <4> QED
          BY <4>1, <4>2 DEF UpTo
      <3>2. CASE chunker.c # NoItem
        <4>1. r.file = m.file + 1
          BY <1>5, <3>2 DEF ChunkerAt, FrontOf
        <4>2. r.file < k \/ r.file = k
          BY DEF UpTo, FrontOf
        <4> QED
          BY <1>3, <4>1, <4>2
      <3> QED
        BY <3>1, <3>2
    <2>2. files'[m.file] = files[m.file]
      BY <1>2, <1>3, <2>1 DEF SharedUpTo
    <2>3. \A n : Span(World("cut")', m, n) = Span(World("cut"), m, n)
      BY <1>2, <2>2 DEF Span
    <2>4. Span(World("cut"), m, Len(chunker.left))' = Span(World("cut"), m, Len(chunker.left))
      BY <1>1, <1>2, <2>2 DEF Span
    <2>5. ChunkerAt(m, r)'
      BY <1>1, <1>5, <2>2, <2>4 DEF ChunkerAt
    <2> QED
      BY <2>1, <2>5 DEF UpTo
  <1> QED
    BY <1>4, <1>5

\* The names that are left out are behind everything that was read.
LEMMA VanishKeeps ==
  ASSUME IInv, Vanish
  PROVE  IInv'
  <1> DEFINE k == reader.file
             g == files'
  <1>1. /\ ~reader.open /\ ~AllRead
        /\ UNCHANGED <<setting, reader, chunker, queues, consumer>>
    BY DEF Vanish
  <1>2. PICK last \in k .. Len(files) :
          g = SubSeq(files, 1, k - 1) \o SubSeq(files, last + 1, Len(files))
    BY DEF Vanish
  <1>3. /\ setting' = setting /\ reader' = reader /\ chunker' = chunker /\ queues' = queues
        /\ trace' = trace /\ line' = line /\ tmp' = tmp /\ segments' = segments /\ done' = done
    BY <1>1 DEF consumer
  <1>4. Types /\ Terms /\ Flow /\ TmpBounded /\ SegmentsBounded
    BY DEF IInv
  <1>5. /\ k \in Nat \ {0} /\ k <= Len(files) /\ Len(files) \in Nat /\ reader.offset = 0
        /\ files \in Seq(Files) /\ queues \in Queues /\ ReaderPlace = FrontOf(k)
    <2>1. reader.offset = 0 /\ reader.file \in 1 .. Len(files) + 1 /\ queues \in Queues
          /\ reader \in [file : Nat, offset : Nat, open : BOOLEAN]
      BY <1>1, ReaderFacts
    <2>2. Len(files) \in Nat /\ files \in Seq(Files)
      BY <1>4, Configured DEF Types
    <2>3. k <= Len(files)
      BY <1>1, <2>1, <2>2 DEF AllRead
    <2>4. ReaderPlace = FrontOf(k)
      BY <1>1, <2>1 DEF ReaderPlace, FrontOf
    <2> QED
      BY <2>1, <2>2, <2>3, <2>4
  <1>6. /\ g \in Seq(Files) /\ Len(g) \in Nat /\ k <= Len(g) + 1
        /\ \A n \in 1 .. k - 1 : g[n] = files[n]
    <2> DEFINE x == SubSeq(files, 1, k - 1)
               y == SubSeq(files, last + 1, Len(files))
    <2>1. x \in Seq(Files) /\ Len(x) = k - 1 /\ \A n \in 1 .. k - 1 : x[n] = files[n]
      <3>1. k - 1 \in 0 .. Len(files)
        BY <1>5
      <3> QED
        BY <1>5, <3>1, SubSeqFacts
    <2>2. y \in Seq(Files)
      <3>1. last \in 0 .. Len(files)
        BY <1>5
      <3> QED
        BY <1>5, <3>1, SubSeqFacts
    <2> HIDE DEF x, y
    <2>3. x \o y \in Seq(Files) /\ Len(x \o y) = Len(x) + Len(y) /\ Len(y) \in Nat
          /\ \A n \in 1 .. Len(x) : (x \o y)[n] = x[n]
      <3>1. Len(x) \in Nat /\ Len(y) \in Nat
        BY <2>1, <2>2, SeqFacts
      <3>2. /\ x \o y \in Seq(Files) /\ Len(x \o y) = Len(x) + Len(y)
            /\ \A n \in 1 .. Len(x) + Len(y) : (x \o y)[n] = IF n <= Len(x) THEN x[n] ELSE y[n - Len(x)]
        BY <2>1, <2>2, ConcatProperties
      <3>3. \A n \in 1 .. Len(x) : n \in 1 .. Len(x) + Len(y) /\ n <= Len(x)
        BY <3>1
      <3> QED
        BY <3>1, <3>2, <3>3
    <2>4. g = x \o y
      BY <1>2 DEF x, y
    <2> QED
      BY <1>5, <2>1, <2>3, <2>4
  <1> HIDE DEF g
  <1>7. \A stage : SharedUpTo(World(stage), World(stage)', k)
    BY <1>3, <1>5, <1>6 DEF SharedUpTo, World, g
  <1> HIDE DEF k
  <1>8. TmpBounded' /\ SegmentsBounded' /\ Given' = Given /\ Pending' = Pending
    BY <1>3, <1>4, ConsumerRests DEF Pending, Traced
  <1>9. Types'
    BY <1>3, <1>4, <1>6 DEF Types, g
  <1>10. Terms'
    <2>1. ~queues["read"].term
      BY <1>1, StillReading
    <2> QED
      BY <1>3, <1>4, <2>1 DEF Terms, Ended, Filled, Traced
  <1>11. Flow'
    <2>1. PICK d, t, l, h, m, r \in Places(files) : FlowAt(d, t, l, h, m, r)
      BY <1>4 DEF Flow
    <2>2. /\ \A stage : World(stage).files = files /\ World(stage)'.files = g
          /\ Len(files) \in Nat /\ Len(g) \in Nat /\ k \in Nat \ {0}
      BY <1>5, <1>6 DEF World, g
    <2>3. ASSUME NEW stage, NEW S, NEW q \in Seq(S), NEW a, NEW b, Path(World(stage), q, a, b), UpTo(k, b)
          PROVE  UpTo(k, a) /\ Path(World(stage)', q, a, b)
      <3> DEFINE w == World(stage)
                 v == World(stage)'
      <3>1. SharedUpTo(w, v, k) /\ Len(w.files) \in Nat /\ Len(v.files) \in Nat
        BY <1>7, <2>2
      <3>2. Path(w, q, a, b)
        BY <2>3
      <3> HIDE DEF w, v
      <3>3. UpTo(k, a) /\ Path(v, q, a, b)
        BY <2>2, <2>3, <3>1, <3>2, PathShared
      <3> QED
        BY <3>3 DEF v
    <2>4. /\ Given \in Seq(Items) /\ Pending \in Seq(Lines)
          /\ \A o \in QueueNames : queues[o].items \in Seq(Items)
      <3>1. Given \in Seq(Items)
        BY <1>4, GivenIs DEF Types, Given
      <3>2. \A o \in QueueNames : queues[o].items \in Seq(Items)
        BY <1>5, QueueFacts
      <3>3. Pending \in Seq(Lines)
        <4>1. /\ trace \in Seq(Lines) /\ Len(trace) \in Nat /\ line \in 0 .. Len(trace)
              /\ ~Traced => Pending = trace
              /\ Traced => Pending = SubSeq(trace, line + 1, Len(trace) - 1)
          BY TraceFacts
        <4>2. CASE Traced /\ line = Len(trace)
          <5>1. SubSeq(trace, line + 1, Len(trace) - 1) = <<>>
            BY <4>1, <4>2
          <5> QED
            BY <4>1, <4>2, <5>1
        <4>3. CASE Traced /\ line + 1 = Len(trace)
          BY <4>3, PendingNone
        <4>4. CASE Traced /\ line + 1 < Len(trace)
          BY <4>4, PendingNext
        <4> QED
          BY <4>1, <4>2, <4>3, <4>4
      <3> QED
        BY <3>1, <3>2, <3>3
    <2>5. UpTo(k, r) /\ Path(World("read")', queues["read"].items, r, FrontOf(k))
      <3>1. Path(World("read"), queues["read"].items, r, FrontOf(k)) /\ UpTo(k, FrontOf(k))
        BY <1>5, <2>1 DEF FlowAt, UpTo
      <3> QED
        BY <2>3, <2>4, <3>1 DEF QueueNames
    <2>6. UpTo(k, m) /\ ChunkerAt(m, r)'
      <3>1. SharedUpTo(World("cut"), World("cut")', k) /\ Len(files') \in Nat
        BY <1>7, <2>2 DEF g
      <3>2. ChunkerAt(m, r)
        BY <2>1 DEF FlowAt
      <3> QED
        BY <1>3, <2>2, <2>5, <3>1, <3>2, ChunkerShared
    <2>7. UpTo(k, h) /\ Path(World("cut")', queues["chunk"].items, h, m)
      BY <2>1, <2>3, <2>4, <2>6 DEF FlowAt, QueueNames
    <2>8. UpTo(k, l) /\ Path(World("hashed")', queues["hash"].items, l, h)
      BY <2>1, <2>3, <2>4, <2>7 DEF FlowAt, QueueNames
    <2>9. UpTo(k, t) /\ Path(World("line")', Pending, t, l)
      BY <2>1, <2>3, <2>4, <2>8 DEF FlowAt
    <2>10. UpTo(k, d) /\ Path(World("hashed")', queues["trace"].items, d, t)
      BY <2>1, <2>3, <2>4, <2>9 DEF FlowAt, QueueNames
    <2>11. Path(World("hashed")', Given, FrontOf(1), d)
      BY <2>1, <2>3, <2>4, <2>10 DEF FlowAt
    <2>12. \A a \in {d, t, l, h, m, r} : a \in Places(g)
      <3>1. ASSUME NEW a \in Places(files), UpTo(k, a) PROVE a \in Places(g)
        <4> DEFINE w == World("cut")
                   v == World("cut")'
        <4>1. SharedUpTo(w, v, k) /\ w.files = files /\ v.files = g
          BY <1>7, <2>2
        <4> HIDE DEF w, v
        <4> QED
          BY <2>2, <3>1, <4>1, PlaceShared
      <3> QED
        BY <2>5, <2>6, <2>7, <2>8, <2>9, <2>10, <3>1
    <2>13. ReaderPlace' = FrontOf(k)
      BY <1>3, <1>5 DEF ReaderPlace
    <2>14. FlowAt(d, t, l, h, m, r)'
      <3>1. setting.method = "file" => (tmp.chunks = <<>> <=> ~d.open)
        BY <2>1 DEF FlowAt
      <3> QED
        BY <1>3, <1>8, <2>5, <2>6, <2>7, <2>8, <2>9, <2>10, <2>11, <2>13, <3>1 DEF FlowAt
    <2> QED
      BY <2>12, <2>14 DEF Flow, g
  <1> QED
    BY <1>8, <1>9, <1>10, <1>11 DEF IInv

-----------------------------------------------------------------------------
(* The invariant of every reachable state.                                 *)

\* The invariant holds at first.
LEMMA InitInvariant ==
  ASSUME Init
  PROVE  IInv
  <1>1. /\ files \in Seq(Files) /\ setting \in Settings
        /\ reader = [file |-> 1, offset |-> 0, open |-> FALSE]
        /\ chunker = [pc |-> "start", left |-> <<>>, c |-> NoItem]
        /\ queues = [q \in QueueNames |-> [items |-> <<>>, term |-> FALSE]]
        /\ trace = <<>> /\ line = 0 /\ tmp = NewSegment /\ segments = <<>> /\ done = FALSE
    BY FilesAre DEF Init, QueueNames
  <1>2. \A q \in QueueNames : queues[q].items = <<>> /\ queues[q].term = FALSE
    BY <1>1
  <1>3. /\ queues["read"].items = <<>> /\ queues["chunk"].items = <<>> /\ queues["hash"].items = <<>>
        /\ queues["trace"].items = <<>> /\ ~queues["read"].term /\ ~queues["chunk"].term
        /\ ~queues["hash"].term /\ ~queues["trace"].term
    BY <1>2 DEF QueueNames
  <1>4. Types
    <2>1. \A x : <<>> \in Seq(x)
      OBVIOUS
    <2>2. [items |-> <<>>, term |-> FALSE] \in [items : Seq(Items), term : BOOLEAN]
      BY <2>1
    <2>3. queues \in [QueueNames -> [items : Seq(Items), term : BOOLEAN]]
      BY <1>1, <2>2
    <2>4. \A q \in QueueNames : Len(queues[q].items) <= QueueSize
      <3>1. Len(<<>>) = 0 /\ 0 <= QueueSize
        BY StreamAssumption
      <3> QED
        BY <1>2, <3>1
    <2>5. NewSegment \in SegmentRecords
      BY <2>1 DEF NewSegment, SegmentRecords
    <2>6. chunker \in [pc : {"start", "first", "cut"}, left : Seq(Nat), c : {NoItem, FileEnd}]
      BY <1>1, <2>1
    <2>7. reader \in [file : Nat, offset : Nat, open : BOOLEAN]
      BY <1>1
    <2>8. trace \in Seq(Lines) /\ line \in 0 .. Len(trace)
      BY <1>1, <2>1
    <2> QED
      BY <1>1, <2>1, <2>3, <2>4, <2>5, <2>6, <2>7, <2>8 DEF Types
  <1>5. ~Traced
    BY <1>1 DEF Traced
  <1>6. Terms
    <2>1. \A k \in 1 .. Len(trace) - 1 : FALSE
      <3>1. Len(trace) = 0
        BY <1>1
      <3> QED
        BY <3>1
    <2> QED
      BY <1>1, <1>3, <1>5, <2>1 DEF Terms
  <1>7. TmpBounded
    BY <1>1, TmpFit, NewFits
  <1>8. SegmentsBounded
    <2>1. DOMAIN segments = {}
      BY <1>1
    <2> QED
      BY <2>1, SegmentsFit
  <1>9. Flow
    <2> DEFINE a == FrontOf(1)
    <2>1. Len(files) \in Nat /\ 1 \in Nat /\ 1 \in 1 .. Len(files) + 1
      BY <1>4, Configured
    <2>2. a \in Places(files) /\ ~a.open
      BY <1>4, <2>1, PlacesAre
    <2>3. ReaderPlace = a
      BY <1>1 DEF ReaderPlace, FrontOf
    <2>4. Pending = <<>> /\ Given = <<>> /\ tmp.chunks = <<>>
      BY <1>1, <1>5, NothingGiven DEF Pending, Given, NewSegment
    <2>5. \A stage : World(stage).files = files
      BY Worlds
    <2> HIDE DEF a
    <2>6. \A stage : Path(World(stage), <<>>, a, a)
      BY <2>2, <2>5, PathEmpty
    <2>7. ChunkerAt(a, a)
      <3>1. chunker.pc = "start" /\ chunker.left = <<>> /\ chunker.c = NoItem /\ Len(<<>>) = 0
        BY <1>1
      <3>2. 0 < chunk_max_size(setting.algorithm) + BlockSize
        BY <1>4, Configured, Limits
      <3> QED
        BY <2>2, <3>1, <3>2 DEF ChunkerAt
    <2>8. FlowAt(a, a, a, a, a, a)
      <3>1. Path(World("hashed"), Given, FrontOf(1), a)
        BY <2>4, <2>6 DEF a
      <3> QED
        BY <1>3, <2>2, <2>3, <2>4, <2>6, <2>7, <3>1 DEF FlowAt
    <2> QED
      BY <2>2, <2>8 DEF Flow
  <1> QED
    BY <1>4, <1>6, <1>7, <1>8, <1>9 DEF IInv

\* Every step keeps the invariant: one lemma for each action.
LEMMA NextInvariant ==
  ASSUME IInv, [Next]_vars
  PROVE  IInv'
  <1>1. CASE Next
    <2>1. CASE ReadThread
      BY <2>1, OpenFileKeeps, VanishKeeps, ReadBlockKeeps, CloseFileKeeps, EndReadKeeps DEF ReadThread
    <2>2. CASE ChunkThread
      BY <2>2, ChunkFileStartKeeps, FillKeeps, CutKeeps, ChunkFileEndKeeps, EndChunkKeeps DEF ChunkThread
    <2>3. CASE HashThread
      BY <2>3, HashKeeps, EndHashKeeps DEF HashThread
    <2>4. CASE TraceJob
      BY <2>4, WriteLineKeeps, WriteStreamEndKeeps, ReadLineKeeps DEF TraceJob
    <2>5. CASE DedupThread
      BY <2>5, SegmentKeeps, EndSegmentsKeeps DEF DedupThread
    <2> QED
      BY <1>1, <2>1, <2>2, <2>3, <2>4, <2>5 DEF Next
  <1>2. CASE UNCHANGED vars
    <2>1. /\ files' = files /\ setting' = setting /\ reader' = reader /\ chunker' = chunker /\ queues' = queues
          /\ trace' = trace /\ line' = line /\ tmp' = tmp /\ segments' = segments /\ done' = done
      BY <1>2 DEF vars
    <2>2. Types /\ Terms /\ Flow /\ TmpBounded /\ SegmentsBounded
      BY DEF IInv
    <2>3. TmpBounded' /\ SegmentsBounded' /\ Given' = Given
      BY <2>1, <2>2, ConsumerRests
    <2>4. Types'
      BY <2>1, <2>2 DEF Types
    <2>5. Terms'
      BY <2>1, <2>2 DEF Terms, Ended, Filled, Traced, AllRead
    <2>6. Flow'
      <3>1. PICK d, h, m, r \in Places(files) :
              /\ Path(World("hashed"), Given, FrontOf(1), d) /\ Copies(d, h) /\ BehindSource(h, m, r)
              /\ setting.method = "file" => (tmp.chunks = <<>> <=> ~d.open)
        BY <2>2, FlowSource
      <3>2. World("hashed")' = World("hashed") /\ World("line")' = World("line")
        BY <2>1, WorldsStay
      <3>3. Pending' = Pending
        BY <2>1 DEF Pending, Traced
      <3>4. Path(World("hashed"), Given, FrontOf(1), d)'
        BY <2>3, <3>1, <3>2
      <3>5. Copies(d, h)'
        BY <2>1, <3>1, <3>2, <3>3 DEF Copies
      <3>6. BehindSource(h, m, r)'
        BY <2>1, <3>1 DEF BehindSource, ChunkerAt, World, ReaderPlace
      <3> QED
        BY <2>1, <3>1, <3>4, <3>5, <3>6, FlowSource
    <2> QED
      BY <2>3, <2>4, <2>5, <2>6 DEF IInv
  <1> QED
    BY <1>1, <1>2

\* In every reachable state what is in the queues of the threads leads on, item by item,
\* from what dedup_thread has been given to where read_thread is in the files.
THEOREM Invariant == Spec => []IInv
  <1>1. Init => IInv
    BY InitInvariant
  <1>2. IInv /\ [Next]_vars => IInv'
    BY NextInvariant
  <1> QED
    BY <1>1, <1>2, PTL DEF Spec

\* The types of the variables, the place of read_thread within its file and the count of
\* the segment that is being filled.
THEOREM TypeCorrect == Spec => []TypeOK
  <1>1. IInv => TypeOK
    <2> SUFFICES ASSUME IInv PROVE TypeOK
      OBVIOUS
    <2>1. Types /\ Flow /\ TmpBounded
      BY DEF IInv
    <2>2. files \in Seq(Seq(Nat))
      BY <2>1, Configured
    <2>3. reader.file \in 1 .. Len(files) + 1 /\ (reader.open => Unread \in Nat)
      BY ReaderFacts
    <2>4. chunker.pc = "start" => chunker.left = <<>>
      BY <2>1 DEF Flow, FlowAt, ChunkerAt
    <2>5. \A q \in DOMAIN queues : queues[q].term \in BOOLEAN /\ Len(queues[q].items) <= QueueSize
      <3>1. DOMAIN queues = QueueNames /\ queues \in Queues
        BY <2>1 DEF Types, Queues
      <3> QED
        BY <2>1, <3>1, QueueFacts DEF Types
    <2>6. tmp.chunk_num = Len(NormalChunks(tmp.chunks))
      BY <2>1 DEF TmpBounded
    <2>7. reader.open => Unread >= 0
      BY <2>3
    <2> QED
      BY <2>1, <2>2, <2>3, <2>4, <2>5, <2>6, <2>7 DEF TypeOK, Types
  <1> QED
    BY <1>1, Invariant, PTL

\* What the features of the segments promise.
LEMMA FeaturesFollow ==
  ASSUME IInv
  PROVE  FeaturesRepresent
  <1>1. segments \in Seq(SegmentRecords) /\ SegmentsBounded
    BY DEF IInv, Types
  <1>2. ASSUME NEW k \in DOMAIN segments, segments[k].chunk_num > 0
        PROVE  Represents(segments[k].chunks, segments[k].chunk_num)
    <2>1. segments[k] \in SegmentRecords
      BY <1>1, SeqFacts
    <2>2. segments[k].chunks \in Seq(Items) /\ segments[k].chunk_num \in Nat
      BY <2>1 DEF SegmentRecords
    <2>3. segments[k].chunk_num = Len(NormalChunks(segments[k].chunks))
      BY <1>1, SegmentsFit DEF SegmentFits
    <2>4. segments[k].chunk_num \in Nat \ {0}
      BY <1>2, <2>2
    <2> QED
      BY <2>2, <2>3, <2>4, SamplesRepresent
  <1> QED
    BY <1>2, Zenon DEF FeaturesRepresent, Represents

\* In every reachable state, whatever the stream and however it was segmented, the minimal
\* features of a segment are its smallest fingerprints, and the others are fingerprints of
\* its chunks or zero, at least one.
THEOREM FeaturesAlwaysRepresent == Spec => []FeaturesRepresent
  <1>1. IInv => FeaturesRepresent
    BY FeaturesFollow
  <1> QED
    BY <1>1, Invariant, PTL

-----------------------------------------------------------------------------
(* The chunks that dedup_thread is given.                                  *)

\* An item without what it does not keep is an item too.
LEMMA IdentityFacts ==
  ASSUME NEW c \in Items
  PROVE  /\ Identity(c) \in Items /\ Identity(c).mark = c.mark /\ Identity(c).fp = c.fp
         /\ c.mark # "start" => Identity(c).size = c.size
  <1>1. /\ c.mark \in {"start", "end", "chunk"} /\ c.data \in Seq(Nat) /\ c.fp \in Seq(Nat) /\ c.size \in Nat
        /\ (IsMark(c) <=> c.mark # "chunk") /\ (IsMark(c) => c.fp = ZeroFp)
        /\ Identity(c) = IF c.mark = "start" THEN Item(c.mark, c.data, c.fp, 0)
                         ELSE Item(c.mark, <<>>, c.fp, c.size)
    BY ItemFields
  <1>2. ASSUME NEW d \in Seq(Nat), NEW s \in Nat
        PROVE  /\ Item(c.mark, d, c.fp, s) \in Items /\ Item(c.mark, d, c.fp, s).mark = c.mark
               /\ Item(c.mark, d, c.fp, s).fp = c.fp /\ Item(c.mark, d, c.fp, s).size = s
    BY <1>1 DEF Item, Items, IsMark
  <1>3. <<>> \in Seq(Nat) /\ 0 \in Nat
    OBVIOUS
  <1>4. CASE c.mark = "start"
    <2>1. Identity(c) = Item(c.mark, c.data, c.fp, 0)
      BY <1>1, <1>4
    <2> QED
      BY <1>1, <1>2, <1>3, <1>4, <2>1
  <1>5. CASE c.mark # "start"
    <2>1. Identity(c) = Item(c.mark, <<>>, c.fp, c.size)
      BY <1>1, <1>5
    <2> DEFINE e == Item(c.mark, <<>>, c.fp, c.size)
    <2>2. e \in Items /\ e.mark = c.mark /\ e.fp = c.fp /\ e.size = c.size
      BY <1>1, <1>2, <1>3
    <2> HIDE DEF e
    <2>3. Identity(c) = e
      BY <2>1 DEF e
    <2> QED
      BY <2>2, <2>3
  <1> QED
    BY <1>4, <1>5

\* What has been handed on is what has been given.
LEMMA HandedFacts ==
  ASSUME Types
  PROVE  /\ Given \in Seq(Items) /\ Handed \in Seq(Items) /\ Len(Given) \in Nat
         /\ Len(Handed) = Len(Given) /\ DOMAIN Handed = 1 .. Len(Given)
         /\ \A k \in 1 .. Len(Given) : Given[k] \in Items /\ Handed[k] = Identity(Given[k])
  <1>1. Given \in Seq(Items)
    BY GivenIs DEF Given, Types
  <1>2. Handed = [k \in DOMAIN Given |-> Identity(Given[k])]
    BY Zenon DEF Handed, Given, GivenIn
  <1> DEFINE g == Given
             h == Handed
             l == Len(g)
  <1>3. l \in Nat /\ DOMAIN g = 1 .. l /\ \A k \in 1 .. l : g[k] \in Items
    BY <1>1, SeqFacts
  <1> HIDE DEF g, h, l
  <1>4. h = [k \in 1 .. l |-> Identity(g[k])]
    BY <1>2, <1>3 DEF g, h
  <1>5. h \in [1 .. l -> Items]
    BY <1>3, <1>4, IdentityFacts
  <1>6. h \in Seq(Items) /\ DOMAIN h = 1 .. l /\ Len(h) = l
    <2>1. h \in Seq(Items) /\ DOMAIN h = 1 .. l
      BY <1>3, <1>5
    <2> QED
      BY <1>3, <2>1, LenProperties
  <1> QED
    BY <1>1, <1>3, <1>4, <1>6 DEF g, h, l

\* The places between them.
LEMMA HandedSteps ==
  ASSUME IInv
  PROVE  \E at \in [Nat -> Places(files)] :
           /\ at[0] = FrontOf(1)
           /\ \A k \in 1 .. Len(Given) : Step(World("hashed"), at[k - 1], Given[k], at[k])
  <1>1. Flow
    BY DEF IInv
  <1>2. PICK d \in Places(files) : Path(World("hashed"), Given, FrontOf(1), d)
    BY <1>1 DEF Flow, FlowAt
  <1>3. World("hashed").files = files
    BY Worlds
  <1> QED
    BY <1>2, <1>3 DEF Path

\* The chunk between two places.
LEMMA ChunkBetween ==
  ASSUME Types, NEW a \in Places(files), NEW b \in Places(files), NEW c \in Items, c.mark = "chunk",
         Step(World("hashed"), a, c, b)
  PROVE  /\ a.open /\ b.open /\ a.file = b.file /\ a.file \in 1 .. Len(files)
         /\ c.size \in Nat \ {0} /\ b.offset = a.offset + c.size /\ b.offset <= Len(files[a.file])
         /\ Sized(World("hashed"), a, c.size)
         /\ b.offset \in Nat /\ Len(files[a.file]) \in Nat
  <1> DEFINE w == World("hashed")
  <1>1. w.stage = "hashed" /\ w.files = files
    BY Worlds
  <1>2. PICK n \in Nat : Moves(w, a, n, b) /\ Sized(w, a, n) /\ c.size = n
    BY <1>1, StepKinds
  <1>3. /\ a.open /\ n \in 1 .. Len(files[a.file]) - a.offset /\ b = Within(a.file, a.offset + n)
    BY <1>1, <1>2 DEF Moves
  <1>4. /\ a.file \in 1 .. Len(files) /\ a.file \in Nat /\ a.offset \in Nat /\ Len(files[a.file]) \in Nat
    BY <1>3, PlaceFacts
  <1>5. b.open = TRUE /\ b.offset = a.offset + n /\ b.file = a.file
    BY <1>3, <1>4, PlacesAre
  <1>6. n \in Nat \ {0} /\ a.offset + n <= Len(files[a.file]) /\ a.offset + n \in Nat
    BY <1>3, <1>4
  <1> QED
    BY <1>2, <1>3, <1>4, <1>5, <1>6

\* Its size.
LEMMA ChunkLimits ==
  ASSUME Types, NEW a \in Places(files), NEW n \in Nat \ {0}, a.open, a.offset + n <= Len(files[a.file]),
         Sized(World("hashed"), a, n)
  PROVE  /\ n <= chunk_max_size(setting.algorithm) + (IF setting.algorithm = "ae" THEN BlockSize - 1 ELSE 0)
         /\ n >= Least(setting.algorithm) \/ a.offset + n = Len(files[a.file])
  <1> DEFINE alg == setting.algorithm
             f == files[a.file]
             o == a.offset
             w == World("hashed")
             p == Rest(w, a)
  <1>1. /\ alg \in Algorithms /\ f \in Seq(Nat) /\ Len(f) \in Nat /\ o \in Nat /\ o <= Len(f)
        /\ BlockSize \in Nat \ {0}
    BY Configured, PlaceFacts
  <1>2. /\ chunk_max_size(alg) \in Nat \ {0} /\ Least(alg) \in Nat \ {0}
        /\ alg = "ae" => chunk_max_size(alg) = MaxSize
    BY <1>1, Limits
  <1>3. IF alg = "ae" THEN n < MaxSize + BlockSize ELSE n = chunking(alg, p)
    <2>1. w.stage = "hashed" /\ w.algorithm = alg
      BY Worlds
    <2>2. w.stage # "wanted"
      BY <2>1
    <2> QED
      BY <2>1, <2>2 DEF Sized
  <1>4. p = SubSeq(f, o + 1, Len(f))
    BY Worlds DEF Rest
  <1>5. p \in Seq(Nat) /\ Len(p) = Len(f) - o
    <2>1. o \in 0 .. Len(f)
      BY <1>1
    <2> HIDE DEF f, o, p
    <2> QED
      BY <1>1, <1>4, <2>1, SubSeqFacts
  <1>6. CASE alg = "ae"
    <2>1. Least(alg) = 1
      BY <1>6 DEF Least
    <2>2. n < MaxSize + BlockSize /\ chunk_max_size(alg) = MaxSize
      BY <1>2, <1>3, <1>6
    <2>3. MaxSize \in Nat
      BY Sizes
    <2> HIDE DEF alg
    <2> QED
      BY <1>1, <1>6, <2>1, <2>2, <2>3 DEF alg
  <1>7. CASE alg # "ae"
    <2>1. n = chunking(alg, p)
      BY <1>3, <1>7
    <2>2. o + n <= Len(f)
      OBVIOUS
    <2> HIDE DEF p, f, o, alg
    <2>3. p # <<>>
      <3>1. Len(p) # 0
        BY <1>1, <1>5, <2>2
      <3> QED
        BY <3>1
    <2>4. n <= chunk_max_size(alg) /\ (n >= Least(alg) \/ n = Len(p))
      BY <1>1, <1>5, <1>7, <2>1, <2>3, ChunkSizes
    <2>5. n = Len(p) => o + n = Len(f)
      BY <1>1, <1>5
    <2>6. n <= chunk_max_size(alg) + 0
      BY <1>2, <2>4
    <2> QED
      BY <1>7, <2>4, <2>5, <2>6 DEF alg, f, o
  <1> QED
    BY <1>6, <1>7

\* The sizes of the chunks.
LEMMA SizesFollow ==
  ASSUME IInv
  PROVE  SizesBounded
  <1>1. Types /\ Flow /\ SegmentsBounded
    BY DEF IInv
  <1> DEFINE alg == setting.algorithm
             slack == IF alg = "ae" THEN BlockSize - 1 ELSE 0
  <1>2. Len(chunker.left) < chunk_max_size(alg) + BlockSize
    BY <1>1 DEF Flow, FlowAt, ChunkerAt
  <1>3. PICK at \in [Nat -> Places(files)] :
           \A k \in 1 .. Len(Given) : Step(World("hashed"), at[k - 1], Given[k], at[k])
    BY HandedSteps
  <1>4. /\ Len(Given) \in Nat /\ Len(Handed) = Len(Given) /\ DOMAIN Handed = 1 .. Len(Given)
        /\ \A k \in 1 .. Len(Given) : Given[k] \in Items /\ Handed[k] = Identity(Given[k])
    BY <1>1, HandedFacts
  <1>5. ASSUME NEW k \in 1 .. Len(Given), Handed[k].mark = "chunk"
        PROVE  /\ at[k - 1] \in Places(files) /\ at[k] \in Places(files)
               /\ Given[k] \in Items /\ Given[k].mark = "chunk" /\ Handed[k].size = Given[k].size
               /\ Step(World("hashed"), at[k - 1], Given[k], at[k])
    <2>1. k \in Nat /\ k - 1 \in Nat
      BY <1>4
    <2>2. Given[k].mark = "chunk"
      BY <1>4, <1>5, IdentityFacts
    <2>3. Handed[k].size = Given[k].size
      BY <1>4, <2>2, IdentityFacts
    <2> QED
      BY <1>3, <1>4, <2>1, <2>2, <2>3
  <1>6. ASSUME NEW k \in 1 .. Len(Given), Handed[k].mark = "chunk"
        PROVE  /\ alg # "ae" => Handed[k].size <= chunk_max_size(alg)
               /\ k < Len(Given) /\ Handed[k + 1].mark = "chunk" => Handed[k].size >= Least(alg)
    <2> DEFINE a == at[k - 1]
               b == at[k]
               n == Given[k].size
    <2>1. /\ a \in Places(files) /\ b \in Places(files) /\ Handed[k].size = n
          /\ a.open /\ b.open /\ a.file = b.file /\ n \in Nat \ {0}
          /\ b.offset = a.offset + n /\ b.offset <= Len(files[a.file]) /\ Sized(World("hashed"), a, n)
      BY <1>1, <1>5, <1>6, ChunkBetween
    <2>2. n <= chunk_max_size(alg) + slack /\ (n >= Least(alg) \/ a.offset + n = Len(files[a.file]))
      BY <1>1, <2>1, ChunkLimits
    <2>3. ASSUME k < Len(Given), Handed[k + 1].mark = "chunk" PROVE n >= Least(alg)
      <3> DEFINE j == k + 1
                 e == at[j]
                 c == Given[j]
      <3>1. j \in 1 .. Len(Given) /\ j - 1 = k
        BY <1>4, <2>3
      <3>2. /\ b \in Places(files) /\ e \in Places(files) /\ c \in Items /\ c.mark = "chunk"
            /\ Step(World("hashed"), b, c, e)
        <4> HIDE DEF j
        <4>1. Handed[j].mark = "chunk"
          BY <2>3 DEF j
        <4>2. at[j - 1] = b
          BY <3>1
        <4> QED
          BY <1>5, <3>1, <4>1, <4>2
      <3>3. /\ c.size \in Nat \ {0} /\ e.offset = b.offset + c.size /\ e.offset <= Len(files[b.file])
            /\ e.offset \in Nat /\ Len(files[b.file]) \in Nat
        <4> HIDE DEF b, c, e
        <4> QED
          BY <1>1, <3>2, ChunkBetween
      <3>4. b.offset \in Nat
        BY <1>1, <2>1, PlaceFacts
      <3>5. b.offset # Len(files[b.file])
        <4> HIDE DEF b, c, e
        <4> QED
          BY <3>3, <3>4
      <3> QED
        BY <2>1, <2>2, <3>5
    <2>4. alg # "ae" => chunk_max_size(alg) + slack = chunk_max_size(alg)
      BY <1>1, Configured, Limits
    <2> QED
      BY <2>1, <2>2, <2>3, <2>4
  <1>7. ChunksBounded
    BY <1>2, <1>4, <1>6, Zenon DEF ChunksBounded, Least
  <1> QED
    BY <1>1, <1>7 DEF SizesBounded

\* No chunk of an algorithm but asymmetric extremum is above the maximum, only the last of
\* a file is below the minimum, leftbuf takes every block, and the segments keep to their
\* configuration.
THEOREM SizesAlwaysBounded == Spec => []SizesBounded
  BY SizesFollow, Invariant, PTL

-----------------------------------------------------------------------------
(* What is wanted of a file.                                               *)

\* The recursive function inside Wanted: its first value, and each next one.
WantedFirst == [pos |-> 0, items |-> <<>>]
WantedChunk(bytes) == Item("chunk", <<>>, bytes, Len(bytes))
WantedNext(algorithm, f, before) ==
  LET rest == SubSeq(f, before.pos + 1, Len(f))
      size == chunking(algorithm, rest)
  IN IF rest = <<>> THEN before
     ELSE [pos |-> before.pos + size, items |-> Append(before.items, WantedChunk(SubSeq(rest, 1, size)))]

\* Wanted in these parts.
LEMMA WantedParts ==
  ASSUME NEW algorithm, NEW f,
         \E e : e = [n \in 0 .. Len(f) |-> IF n = 0 THEN WantedFirst ELSE WantedNext(algorithm, f, e[n - 1])]
  PROVE  \E u : /\ u = [n \in 0 .. Len(f) |-> IF n = 0 THEN WantedFirst ELSE WantedNext(algorithm, f, u[n - 1])]
                /\ Wanted(algorithm, f) = u[Len(f)].items
  BY Zenon DEF Wanted, WantedFirst, WantedNext, WantedChunk

\* A chunk as it is wanted.
LEMMA WantedChunkFacts ==
  ASSUME NEW b \in Seq(Nat)
  PROVE  WantedChunk(b) = Item("chunk", <<>>, b, Len(b)) /\ WantedChunk(b) \in Items
  <1>1. Len(b) \in Nat
    BY SeqFacts
  <1>3. <<>> \in Seq(Nat)
    OBVIOUS
  <1>4. WantedChunk(b) = Item("chunk", <<>>, b, Len(b))
    BY DEF WantedChunk
  <1>5. Item("chunk", <<>>, b, Len(b)) \in Items
    BY <1>1, <1>3 DEF Item, Items, IsMark
  <1> QED
    BY <1>4, <1>5

\* What is wanted of the first bytes of file k, up to position s.pos.
Begun(k, s) ==
  /\ s \in [pos : Nat, items : Seq(Items)] /\ s.pos <= Len(files[k])
  /\ Path(World("wanted"), s.items, Within(k, 0), Within(k, s.pos))

\* It goes on with the next chunk, as far as the file goes.
LEMMA BegunNext ==
  ASSUME Types, NEW k \in 1 .. Len(files), NEW s, Begun(k, s)
  PROVE  /\ Begun(k, WantedNext(setting.algorithm, files[k], s))
         /\ \/ s.pos = Len(files[k]) /\ WantedNext(setting.algorithm, files[k], s) = s
            \/ WantedNext(setting.algorithm, files[k], s).pos > s.pos
  <1> DEFINE f == files[k]
             alg == setting.algorithm
             w == World("wanted")
             pos == s.pos
             rest == SubSeq(f, pos + 1, Len(f))
             size == chunking(alg, rest)
             b == SubSeq(rest, 1, size)
             t == WantedNext(alg, f, s)
  <1>1. /\ f \in Seq(Nat) /\ Len(f) \in Nat /\ k \in Nat /\ alg \in Algorithms
        /\ s.items \in Seq(Items) /\ pos \in Nat /\ pos <= Len(f) /\ s = [pos |-> pos, items |-> s.items]
        /\ Path(w, s.items, Within(k, 0), Within(k, pos))
    BY Configured DEF Begun
  <1>2. w.files = files /\ w.stage = "wanted" /\ w.algorithm = alg
    BY Worlds
  <1>3. rest \in Seq(Nat) /\ Len(rest) = Len(f) - pos
    <2>1. pos \in 0 .. Len(f)
      BY <1>1
    <2> HIDE DEF f, pos
    <2> QED
      BY <1>1, <2>1, SubSeqFacts
  <1>4. CASE rest = <<>>
    <2>1. t = s
      BY <1>4 DEF WantedNext
    <2>2. pos = Len(f)
      <3> HIDE DEF f, pos, rest
      <3>1. Len(rest) = 0
        BY <1>4
      <3> QED
        BY <1>1, <1>3, <3>1
    <2> QED
      BY <2>1, <2>2
  <1>5. CASE rest # <<>>
    <2>1. t = [pos |-> pos + size, items |-> Append(s.items, WantedChunk(b))]
      BY <1>5, Zenon DEF WantedNext
    <2>2. size \in 1 .. Len(rest)
      <3> HIDE DEF rest, alg
      <3> QED
        BY <1>1, <1>3, <1>5, ChunkSizes DEF size
    <2>3. /\ size \in Nat /\ size \in 1 .. Len(f) - pos /\ pos + size \in Nat /\ pos + size <= Len(f)
          /\ pos + size > pos
      <3> HIDE DEF size, rest, f, pos
      <3> QED
        BY <1>1, <1>3, <2>2
    <2>4. b = SubSeq(f, pos + 1, pos + size)
      <3> DEFINE n == Len(f) - pos
      <3>1. n \in Nat /\ size \in 0 .. n /\ pos + n <= Len(f) /\ pos + n = Len(f)
        <4> HIDE DEF size, f, pos
        <4> QED
          BY <1>1, <2>3
      <3>2. rest = SubSeq(f, pos + 1, pos + n)
        BY <3>1
      <3> HIDE DEF size, rest, f, pos, n
      <3>3. f \in Seq(Nat) /\ pos \in Nat /\ n \in Nat /\ size \in 0 .. n /\ pos + n <= Len(f)
        BY <1>1, <3>1
      <3>4. SubSeq(SubSeq(f, pos + 1, pos + n), 1, size) = SubSeq(f, pos + 1, pos + size)
        BY <3>3, SubSeqTwice
      <3> QED
        BY <3>2, <3>4
    <2>5. b \in Seq(Nat) /\ Len(b) = size
      <3> HIDE DEF size, f, pos, b
      <3>1. f \in Seq(Nat) /\ pos \in Nat /\ size \in Nat /\ pos + size <= Len(f)
        BY <1>1, <2>3
      <3>2. SubSeq(f, pos + 1, pos + size) \in Seq(Nat) /\ Len(SubSeq(f, pos + 1, pos + size)) = size
        BY <3>1, SubSeqBetween
      <3> QED
        BY <2>4, <3>2
    <2> DEFINE c == WantedChunk(b)
    <2>6. c = Item("chunk", <<>>, b, size) /\ c \in Items
      <3> HIDE DEF b
      <3> QED
        BY <2>5, WantedChunkFacts
    <2> DEFINE a == Within(k, pos)
               d == Within(k, pos + size)
    <2>7. /\ a.open /\ a.file = k /\ a.offset = pos /\ d \in Places(files)
      <3> HIDE DEF size, pos, f
      <3> QED
        BY <1>1, <2>3, PlacesAre DEF f
    <2>8. Moves(w, a, size, d) /\ Span(w, a, size) = b /\ Sized(w, a, size)
      <3>1. Moves(w, a, size, d)
        BY <1>2, <2>3, <2>7 DEF Moves
      <3>2. Span(w, a, size) = b
        BY <1>2, <2>4, <2>7 DEF Span
      <3>3. Sized(w, a, size)
        BY <1>2, <2>7 DEF Sized, Rest
      <3> QED
        BY <3>1, <3>2, <3>3
    <2>9. View(w, c) = c
      BY <1>2 DEF View
    <2> HIDE DEF size, b, c, a, d, w, pos, t, rest, f
    <2>10. Step(w, a, c, d)
      BY <1>2, <2>3, <2>6, <2>8, <2>9 DEF Step
    <2>11. Path(w, Append(s.items, c), Within(k, 0), d)
      BY <1>1, <1>2, <2>6, <2>7, <2>10, PathAppend DEF a
    <2>12. Append(s.items, c) \in Seq(Items)
      BY <1>1, <2>6, AppendFacts
    <2>13. t = [pos |-> pos + size, items |-> Append(s.items, c)]
      BY <2>1 DEF c
    <2>14. t.pos = pos + size /\ t.items = Append(s.items, c) /\ t \in [pos : Nat, items : Seq(Items)]
      BY <2>3, <2>12, <2>13
    <2>15. Begun(k, t) /\ t.pos > pos
      BY <2>3, <2>11, <2>14 DEF Begun, d, w, f
    <2> QED
      BY <2>15 DEF t, pos, f
  <1> QED
    BY <1>4, <1>5

\* What is wanted of a file leads through it.
LEMMA WantedLeads ==
  ASSUME Types, NEW k \in 1 .. Len(files)
  PROVE  /\ Wanted(setting.algorithm, files[k]) \in Seq(Items)
         /\ Path(World("wanted"), Wanted(setting.algorithm, files[k]), Within(k, 0), Within(k, Len(files[k])))
  <1> DEFINE f == files[k]
             alg == setting.algorithm
             m == Len(f)
             S == {s \in [pos : Nat, items : Seq(Items)] : Begun(k, s)}
             step == [n \in Nat |-> [s \in S |-> WantedNext(alg, f, s)]]
  <1>1. m \in Nat /\ k \in Nat /\ Within(k, 0) \in Places(files)
    <2>1. m \in Nat /\ k \in Nat /\ 0 \in Nat /\ 0 <= m
      BY Configured
    <2> HIDE DEF S, step
    <2>2. Within(k, 0) \in Places(files)
      BY <2>1, PlacesAre
    <2> QED
      BY <2>1, <2>2
  <1>2. \A s : s \in S <=> Begun(k, s)
    BY DEF Begun
  <1>3. \A s \in S : WantedNext(alg, f, s) \in S
    <2> HIDE DEF S
    <2> QED
      BY <1>2, BegunNext
  <1>4. WantedFirst \in S
    <2>1. World("wanted").files = files
      BY Worlds
    <2>2. Path(World("wanted"), <<>>, Within(k, 0), Within(k, 0))
      BY <1>1, <2>1, PathEmpty
    <2>3. WantedFirst.pos = 0 /\ WantedFirst.items = <<>> /\ WantedFirst \in [pos : Nat, items : Seq(Items)]
      BY DEF WantedFirst
    <2>4. Begun(k, WantedFirst)
      BY <1>1, <2>2, <2>3 DEF Begun
    <2> HIDE DEF S
    <2> QED
      BY <1>2, <2>4
  <1> HIDE DEF S
  <1>5. step \in [Nat -> [S -> S]] /\ \A n \in Nat : \A s \in S : step[n][s] = WantedNext(alg, f, s)
    BY <1>3
  <1> HIDE DEF step, m
  <1>6. PICK e : IsUpto(e, S, WantedFirst, step, m)
    BY <1>1, <1>4, <1>5, RecursionUpto
  <1>7. e \in [0 .. m -> S] /\ e = [n \in 0 .. m |-> IF n = 0 THEN WantedFirst ELSE step[n][e[n - 1]]]
    BY <1>6 DEF IsUpto
  <1>8. e = [n \in 0 .. m |-> IF n = 0 THEN WantedFirst ELSE WantedNext(alg, f, e[n - 1])]
    <2>1. ASSUME NEW n \in 0 .. m
          PROVE  e[n] = IF n = 0 THEN WantedFirst ELSE WantedNext(alg, f, e[n - 1])
      <3>1. CASE n = 0
        BY <1>7, <3>1
      <3>2. CASE n # 0
        <4>1. n - 1 \in 0 .. m /\ n \in Nat
          BY <1>1, <3>2
        <4>2. e[n - 1] \in S
          BY <1>7, <4>1
        <4>3. e[n] = step[n][e[n - 1]]
          BY <1>7, <3>2
        <4> QED
          BY <1>5, <3>2, <4>1, <4>2, <4>3
      <3> QED
        BY <3>1, <3>2
    <2> QED
      BY <1>7, <2>1
  <1>9. PICK u : /\ u = [n \in 0 .. m |-> IF n = 0 THEN WantedFirst ELSE WantedNext(alg, f, u[n - 1])]
                 /\ Wanted(alg, f) = u[m].items
    <2>1. \E x : x = [n \in 0 .. Len(f) |-> IF n = 0 THEN WantedFirst ELSE WantedNext(alg, f, x[n - 1])]
      BY <1>8 DEF m
    <2> HIDE DEF f, alg
    <2> QED
      BY <2>1, WantedParts DEF m
  <1> DEFINE A == {n \in Nat : n <= m => u[n] \in S /\ u[n].pos >= n}
  <1>10. 0 \in A
    <2>1. u[0] = WantedFirst
      BY <1>1, <1>9
    <2>2. WantedFirst.pos = 0
      BY DEF WantedFirst
    <2> QED
      BY <1>4, <2>1, <2>2
  <1>11. ASSUME NEW n \in A PROVE n + 1 \in A
    <2>1. SUFFICES ASSUME n + 1 <= m PROVE u[n + 1] \in S /\ u[n + 1].pos >= n + 1
      OBVIOUS
    <2>2. n \in Nat /\ n <= m /\ n + 1 \in 0 .. m /\ n + 1 # 0 /\ (n + 1) - 1 = n
      BY <1>1, <2>1
    <2>3. u[n] \in S /\ u[n].pos >= n /\ u[n + 1] = WantedNext(alg, f, u[n])
      BY <1>9, <2>2
    <2> DEFINE s == u[n]
               t == u[n + 1]
    <2> HIDE DEF A
    <2>4. /\ Begun(k, s) /\ t = WantedNext(alg, f, s)
      BY <1>2, <2>3
    <2> HIDE DEF s, t
    <2>5. Begun(k, t) /\ ((s.pos = m /\ t = s) \/ t.pos > s.pos)
      BY <2>4, BegunNext DEF m
    <2>6. s.pos \in Nat /\ t.pos \in Nat /\ s.pos >= n
      BY <2>3, <2>4, <2>5 DEF Begun, s
    <2>7. t.pos >= n + 1
      <3>1. CASE s.pos = m /\ t = s
        BY <1>1, <2>1, <2>2, <3>1
      <3>2. CASE t.pos > s.pos
        BY <2>2, <2>6, <3>2
      <3> QED
        BY <2>5, <3>1, <3>2
    <2> QED
      BY <1>2, <2>5, <2>7 DEF t
  <1>12. \A n \in Nat : n \in A
    <2>1. A \in SUBSET Nat
      OBVIOUS
    <2> HIDE DEF A
    <2> QED
      BY <1>10, <1>11, <2>1, NumbersByInduction
  <1>13. u[m] \in S /\ u[m].pos >= m
    <2>1. m \in A
      <3> HIDE DEF A
      <3> QED
        BY <1>1, <1>12
    <2> QED
      BY <1>1, <2>1
  <1> DEFINE v == u[m]
  <1> HIDE DEF v
  <1>14. Begun(k, v) /\ v.pos >= m
    BY <1>2, <1>13 DEF v
  <1>15. v.pos \in Nat /\ v.items \in Seq(Items) /\ v.pos <= m /\ Path(World("wanted"), v.items, Within(k, 0), Within(k, v.pos))
    BY <1>14 DEF Begun, m, f
  <1>16. v.pos = m
    BY <1>1, <1>14, <1>15
  <1> QED
    BY <1>9, <1>15, <1>16 DEF v, m, f, alg

-----------------------------------------------------------------------------
(* What is wanted of all files.                                            *)

\* What is wanted of a file, with its marks, and of each file.
WantedFile(algorithm, s, k) == <<Identity(FileStart(k))>> \o Wanted(algorithm, s[k]) \o <<FileEnd>>
WantedFiles(algorithm, s) == [k \in DOMAIN s |-> WantedFile(algorithm, s, k)]

\* It leads from the front of a file to that of the next.
LEMMA WantedFileLeads ==
  ASSUME Types, NEW k \in 1 .. Len(files)
  PROVE  /\ WantedFile(setting.algorithm, files, k) \in Seq(Items)
         /\ Path(World("wanted"), WantedFile(setting.algorithm, files, k), FrontOf(k), FrontOf(k + 1))
  <1> DEFINE f == files[k]
             w == World("wanted")
             x == Identity(FileStart(k))
             q == Wanted(setting.algorithm, f)
             a == FrontOf(k)
             b == Within(k, 0)
             d == Within(k, Len(f))
             e == FrontOf(k + 1)
  <1>1. w.files = files /\ w.stage = "wanted"
    BY Worlds
  <1>2. /\ k \in Nat /\ k + 1 \in Nat /\ Len(f) \in Nat /\ 0 <= Len(f) /\ Len(files) \in Nat
        /\ k \in 1 .. Len(files) + 1 /\ k + 1 \in 1 .. Len(files) + 1 /\ k <= Len(files)
    BY Configured
  <1>3. q \in Seq(Items) /\ Path(w, q, b, d)
    BY WantedLeads
  <1>4. x \in Items /\ x = Item("start", <<k>>, ZeroFp, 0) /\ FileEnd \in Items
    <2>1. /\ FileStart(k) \in Items /\ FileStart(k).mark = "start" /\ FileStart(k).data = <<k>>
          /\ FileStart(k).fp = ZeroFp /\ FileEnd \in Items
      BY <1>2, ItemFacts
    <2> DEFINE c == FileStart(k)
    <2> HIDE DEF c
    <2>2. c \in Items /\ c.mark = "start" /\ c.data = <<k>> /\ c.fp = ZeroFp
      BY <2>1 DEF c
    <2>3. /\ Identity(c) \in Items
          /\ Identity(c) = IF c.mark = "start" THEN Item(c.mark, c.data, c.fp, 0)
                           ELSE Item(c.mark, <<>>, c.fp, c.size)
      BY <2>2, IdentityFacts, ItemFields
    <2>4. Identity(c) = Item("start", <<k>>, ZeroFp, 0)
      BY <2>2, <2>3
    <2> QED
      BY <2>1, <2>3, <2>4 DEF c
  <1>5. /\ a \in Places(files) /\ b \in Places(files) /\ d \in Places(files) /\ e \in Places(files)
        /\ a.open = FALSE /\ a.file = k /\ d.open = TRUE /\ d.file = k /\ d.offset = Len(f)
    <2>1. a \in Places(files) /\ a.open = FALSE /\ a.file = k
      BY <1>2, PlacesAre
    <2>2. e \in Places(files)
      <3> DEFINE j == k + 1
      <3>1. j \in Nat /\ j \in 1 .. Len(files) + 1
        BY <1>2
      <3> HIDE DEF j
      <3>2. FrontOf(j) \in Places(files)
        BY <3>1, PlacesAre
      <3> QED
        BY <3>2 DEF j
    <2>3. b \in Places(files)
      BY <1>2, PlacesAre
    <2>4. d \in Places(files) /\ d.open = TRUE /\ d.file = k /\ d.offset = Len(f)
      <3> DEFINE j == Len(f)
      <3>1. j \in Nat /\ j <= Len(files[k])
        BY <1>2
      <3> HIDE DEF j
      <3>2. Within(k, j) \in Places(files) /\ Within(k, j).open = TRUE /\ Within(k, j).file = k /\ Within(k, j).offset = j
        BY <1>2, <3>1, PlacesAre
      <3> QED
        BY <3>2 DEF j
    <2> QED
      BY <2>1, <2>2, <2>3, <2>4
  <1>6. View(w, x) = x /\ View(w, FileEnd) = FileEnd
    BY <1>1 DEF View
  <1>7. Opens(w, a, b) /\ Closes(w, d, e)
    BY <1>1, <1>2, <1>5 DEF Opens, Closes
  <1> HIDE DEF f, w, x, q, a, b, d, e
  <1>8. Step(w, a, x, b)
    BY <1>1, <1>4, <1>5, <1>6, <1>7 DEF Step
  <1>9. Step(w, d, FileEnd, e)
    BY <1>1, <1>6, <1>7 DEF Step
  <1>10. Path(w, <<x>>, a, b) /\ <<x>> \in Seq(Items)
    <2>1. Path(w, <<>>, a, a) /\ <<>> \in Seq(Items)
      BY <1>1, <1>5, PathEmpty
    <2>2. Path(w, Append(<<>>, x), a, b)
      BY <1>1, <1>4, <1>5, <1>8, <2>1, PathAppend
    <2>3. Append(<<>>, x) = <<x>> /\ <<x>> \in Seq(Items)
      BY <1>4
    <2> QED
      BY <2>2, <2>3
  <1>11. Path(w, <<x>> \o q, a, d) /\ <<x>> \o q \in Seq(Items)
    <2>1. <<x>> \o q \in Seq(Items)
      BY <1>3, <1>10, ConcatProperties
    <2> QED
      BY <1>3, <1>10, <2>1, PathConcat
  <1> DEFINE r == <<x>> \o q
  <1> HIDE DEF r
  <1>12. r \in Seq(Items) /\ Path(w, r, a, d)
    BY <1>11 DEF r
  <1>13. /\ Path(w, Append(r, FileEnd), a, e) /\ Append(r, FileEnd) = r \o <<FileEnd>>
         /\ Append(r, FileEnd) \in Seq(Items)
    <2>1. Path(w, Append(r, FileEnd), a, e)
      BY <1>1, <1>4, <1>5, <1>9, <1>12, PathAppend
    <2>2. Append(r, FileEnd) = r \o <<FileEnd>>
      BY <1>4, <1>12, ConcatFacts
    <2>3. Append(r, FileEnd) \in Seq(Items)
      BY <1>4, <1>12, AppendFacts
    <2> QED
      BY <2>1, <2>2, <2>3
  <1>14. WantedFile(setting.algorithm, files, k) = r \o <<FileEnd>>
    BY DEF WantedFile, r, x, q, f
  <1> QED
    BY <1>13, <1>14 DEF w, a, e

\* What is wanted of all files leads through them.
LEMMA WantedStreamLeads ==
  ASSUME Types
  PROVE  /\ WantedStream \in Seq(Items)
         /\ Path(World("wanted"), WantedStream, FrontOf(1), FrontOf(Len(files) + 1))
  <1> DEFINE alg == setting.algorithm
             w == World("wanted")
             l == Len(files)
             q == WantedFiles(alg, files)
  <1>1. ASSUME NEW k \in DOMAIN files PROVE WantedOf[<<alg, files[k]>>] = Wanted(alg, files[k])
    <2>1. setting \in Settings /\ files \in Seq(Files)
      BY DEF Types
    <2>2. alg \in {x.algorithm : x \in Settings} /\ files[k] \in Files
      BY <2>1
    <2> DEFINE y == <<alg, files[k]>>
    <2>3. y \in {x.algorithm : x \in Settings} \X Files /\ y[1] = alg /\ y[2] = files[k]
      BY <2>2
    <2> HIDE DEF y
    <2>4. WantedOf[y] = Wanted(y[1], y[2])
      BY <2>3 DEF WantedOf
    <2> QED
      BY <2>3, <2>4 DEF y
  <1>2. WantedStream = FlattenSeq(q)
    <2>1. [k \in DOMAIN files |->
              <<Identity(FileStart(k))>> \o WantedOf[<<alg, files[k]>>] \o <<FileEnd>>] = q
      BY <1>1, Zenon DEF WantedFiles, WantedFile
    <2> QED
      BY <2>1, Zenon DEF WantedStream
  <1>3. l \in Nat /\ DOMAIN files = 1 .. l
    BY Configured, SeqFacts
  <1>4. q = [k \in 1 .. l |-> WantedFile(alg, files, k)]
    BY <1>3 DEF WantedFiles
  <1> HIDE DEF q
  <1>5. \A k \in 1 .. l : WantedFile(alg, files, k) \in Seq(Items) /\ Path(w, WantedFile(alg, files, k), FrontOf(k), FrontOf(k + 1))
    BY WantedFileLeads
  <1> HIDE DEF l, w
  <1>6. q \in Seq(Seq(Items)) /\ Len(q) = l /\ \A k \in 1 .. l : q[k] \in Seq(Items) /\ Path(w, q[k], FrontOf(k), FrontOf(k + 1))
    <2>1. q \in [1 .. l -> Seq(Items)] /\ \A k \in 1 .. l : q[k] = WantedFile(alg, files, k)
      BY <1>4, <1>5
    <2>2. q \in Seq(Seq(Items)) /\ DOMAIN q = 1 .. l
      BY <1>3, <2>1
    <2>3. Len(q) = l
      BY <1>3, <2>2, LenProperties
    <2> QED
      BY <1>5, <2>1, <2>2, <2>3
  <1>7. PICK g \in [Nat -> Seq(Items)] :
           /\ g[0] = <<>> /\ g[l] = FlattenSeq(q)
           /\ \A n \in 0 .. l - 1 : g[n + 1] = g[n] \o q[n + 1]
    BY <1>6, FlattenBySteps
  <1> DEFINE A == {n \in Nat : n <= l => Path(w, g[n], FrontOf(1), FrontOf(n + 1))}
  <1>8. 0 \in A
    <2>1. 1 \in Nat /\ 1 \in 1 .. Len(files) + 1 /\ w.files = files
      BY <1>3, Worlds DEF l, w
    <2>2. FrontOf(1) \in Places(w.files)
      BY <2>1, PlacesAre
    <2>3. Path(w, <<>>, FrontOf(1), FrontOf(1))
      BY <2>2, PathEmpty
    <2>4. 0 + 1 = 1
      OBVIOUS
    <2> QED
      BY <1>7, <2>3, <2>4
  <1>9. ASSUME NEW n \in A PROVE n + 1 \in A
    <2>1. SUFFICES ASSUME n + 1 <= l PROVE Path(w, g[n + 1], FrontOf(1), FrontOf((n + 1) + 1))
      OBVIOUS
    <2>2. n \in Nat /\ n \in 0 .. l - 1 /\ n + 1 \in 1 .. l /\ n <= l
      BY <1>3, <2>1
    <2>3. Path(w, g[n], FrontOf(1), FrontOf(n + 1)) /\ g[n] \in Seq(Items)
      BY <2>2
    <2>4. q[n + 1] \in Seq(Items) /\ Path(w, q[n + 1], FrontOf(n + 1), FrontOf((n + 1) + 1))
      BY <1>6, <2>2
    <2>5. g[n + 1] = g[n] \o q[n + 1]
      BY <1>7, <2>2
    <2> DEFINE x == g[n]
               y == q[n + 1]
               c == FrontOf(n + 1)
               d == FrontOf((n + 1) + 1)
               e == FrontOf(1)
    <2>6. x \in Seq(Items) /\ y \in Seq(Items) /\ Path(w, x, e, c) /\ Path(w, y, c, d)
      BY <2>3, <2>4
    <2> HIDE DEF x, y, c, d, e, A
    <2>7. Path(w, x \o y, e, d)
      BY <2>6, PathConcat
    <2> QED
      BY <2>5, <2>7 DEF x, y, d, e
  <1>10. \A n \in Nat : n \in A
    <2>1. A \in SUBSET Nat
      OBVIOUS
    <2> HIDE DEF A
    <2> QED
      BY <1>8, <1>9, <2>1, NumbersByInduction
  <1>11. l \in A
    <2> HIDE DEF A
    <2> QED
      BY <1>3, <1>10
  <1>12. Path(w, g[l], FrontOf(1), FrontOf(l + 1)) /\ g[l] \in Seq(Items)
    BY <1>3, <1>11
  <1> QED
    BY <1>1, <1>2, <1>7, <1>12 DEF w, l

\* What is handed on leads on from the front of the first file.
LEMMA HandedLeads ==
  ASSUME IInv
  PROVE  \E d \in Places(files) : Path(World("wanted"), Handed, FrontOf(1), d)
  <1> DEFINE w == World("wanted")
             v == World("hashed")
             g == Given
             h == Handed
             l == Len(g)
  <1>1. PICK at \in [Nat -> Places(files)] :
           at[0] = FrontOf(1) /\ \A k \in 1 .. l : Step(v, at[k - 1], g[k], at[k])
    BY HandedSteps
  <1>2. /\ l \in Nat /\ Len(h) = l
        /\ \A k \in 1 .. l : g[k] \in Items /\ h[k] = Identity(g[k])
    BY HandedFacts DEF IInv
  <1>3. /\ w.stage = "wanted" /\ v.stage = "hashed" /\ w.files = files /\ v.files = files
        /\ w.algorithm = v.algorithm
    BY Worlds
  <1> HIDE DEF w, v, g, h, l
  <1>4. ASSUME NEW k \in 1 .. l PROVE Step(w, at[k - 1], h[k], at[k])
    <2> DEFINE a == at[k - 1]
               b == at[k]
               c == g[k]
               e == h[k]
    <2>1. Step(v, a, c, b)
      BY <1>1
    <2>2. View(v, c) = View(w, e)
      BY <1>2, <1>3 DEF View
    <2> HIDE DEF a, b, c, e
    <2>3. /\ v.stage # "read" /\ w.stage # "read" /\ v.files = w.files /\ v.algorithm = w.algorithm
          /\ w.stage = "wanted" \/ v.stage # "wanted"
      BY <1>3
    <2>4. Step(w, a, e, b)
      BY <2>1, <2>2, <2>3, StepMoves
    <2> QED
      BY <2>4 DEF a, b, e
  <1>5. at[l] \in Places(files)
    BY <1>2
  <1>6. Path(w, h, FrontOf(1), at[l])
    BY <1>1, <1>2, <1>3, <1>4 DEF Path
  <1> QED
    BY <1>5, <1>6 DEF w, h

\* All algorithms but asymmetric extremum leave no choice.
LEMMA StepAlone ==
  ASSUME Types, setting.algorithm # "ae", NEW a \in Places(files), NEW c, NEW b, NEW e, NEW d,
         Step(World("wanted"), a, c, b), Step(World("wanted"), a, e, d)
  PROVE  c = e /\ b = d
  <1> DEFINE w == World("wanted")
             z == chunking(setting.algorithm, Rest(w, a))
             Way(x, y) == \/ Opens(w, a, y) /\ x = Item("start", <<a.file>>, ZeroFp, 0)
                          \/ Moves(w, a, z, y) /\ x = Item("chunk", <<>>, Span(w, a, z), z)
                          \/ Closes(w, a, y) /\ x = FileEnd
  <1>1. w.stage = "wanted" /\ w.algorithm = setting.algorithm /\ w.files = files
    BY Worlds
  <1>2. ASSUME NEW x, NEW y, Step(w, a, x, y) PROVE Way(x, y)
    <2>1. View(w, x) = x
      BY <1>1 DEF View
    <2>2. \A n : Sized(w, a, n) => n = z
      BY <1>1 DEF Sized
    <2>3. \/ Opens(w, a, y) /\ x = Item("start", <<a.file>>, ZeroFp, 0)
          \/ \E n \in Nat : Moves(w, a, n, y) /\ x = Item("chunk", <<>>, Span(w, a, n), n) /\ Sized(w, a, n)
          \/ Closes(w, a, y) /\ x = FileEnd
      BY <1>1, <1>2, <2>1 DEF Step
    <2> HIDE DEF z, w
    <2> QED
      BY <2>2, <2>3
  <1>3. Way(c, b) /\ Way(e, d)
    BY <1>2
  <1> HIDE DEF z
  <1>4. /\ \A y : Opens(w, a, y) => ~a.open /\ y = Within(a.file, 0)
        /\ \A y : Moves(w, a, z, y) => a.open /\ a.offset # Len(files[a.file]) /\ y = Within(a.file, a.offset + z)
        /\ \A y : Closes(w, a, y) => a.open /\ a.offset = Len(files[a.file]) /\ y = FrontOf(a.file + 1)
    <2>1. \A y : Opens(w, a, y) => ~a.open /\ y = Within(a.file, 0)
      BY DEF Opens
    <2>2. \A y : Closes(w, a, y) => a.open /\ a.offset = Len(files[a.file]) /\ y = FrontOf(a.file + 1)
      BY <1>1 DEF Closes
    <2>3. ASSUME NEW y, Moves(w, a, z, y)
          PROVE  a.open /\ a.offset # Len(files[a.file]) /\ y = Within(a.file, a.offset + z)
      <3>1. a.open /\ z \in 1 .. Len(files[a.file]) - a.offset /\ y = Within(a.file, a.offset + z)
        BY <1>1, <2>3 DEF Moves
      <3>2. a.offset \in Nat /\ Len(files[a.file]) \in Nat
        BY <3>1, PlaceFacts
      <3>3. a.offset # Len(files[a.file])
        BY <3>1, <3>2
      <3> QED
        BY <3>1, <3>3
    <2> QED
      BY <2>1, <2>2, <2>3
  <1> HIDE DEF w
  <1>5. CASE ~a.open
    BY <1>3, <1>4, <1>5
  <1>6. CASE a.open /\ a.offset = Len(files[a.file])
    BY <1>3, <1>4, <1>6
  <1>7. CASE a.open /\ a.offset # Len(files[a.file])
    BY <1>3, <1>4, <1>7
  <1> QED
    BY <1>5, <1>6, <1>7

\* So what leads on from a place is a beginning of what leads on to the end.
LEMMA PathsAgree ==
  ASSUME Types, setting.algorithm # "ae", NEW p \in Seq(Items), NEW q \in Seq(Items), NEW a, NEW b,
         Path(World("wanted"), p, a, b), Path(World("wanted"), q, a, FrontOf(Len(files) + 1))
  PROVE  IsPrefix(p, q)
  <1> DEFINE w == World("wanted")
             l == Len(p)
             m == Len(q)
             z == FrontOf(Len(files) + 1)
  <1>1. w.files = files /\ w.stage = "wanted" /\ l \in Nat /\ m \in Nat /\ Len(files) \in Nat
    BY Worlds, SeqFacts, Configured
  <1>2. PICK at \in [Nat -> Places(files)] :
          at[0] = a /\ at[l] = b /\ \A n \in 1 .. l : Step(w, at[n - 1], p[n], at[n])
    BY <1>1 DEF Path
  <1>3. PICK to \in [Nat -> Places(files)] :
          to[0] = a /\ to[m] = z /\ \A n \in 1 .. m : Step(w, to[n - 1], q[n], to[n])
    BY <1>1 DEF Path
  <1> HIDE DEF w, l, m, z
  <1> DEFINE A == {n \in Nat : n <= l /\ n <= m => at[n] = to[n] /\ (n > 0 => p[n] = q[n])}
  <1>4. 0 \in A
    BY <1>2, <1>3
  <1>5. ASSUME NEW n \in A PROVE n + 1 \in A
    <2>1. SUFFICES ASSUME n + 1 <= l, n + 1 <= m PROVE at[n + 1] = to[n + 1] /\ p[n + 1] = q[n + 1]
      OBVIOUS
    <2>2. /\ n \in Nat /\ n + 1 \in 1 .. l /\ n + 1 \in 1 .. m /\ (n + 1) - 1 = n /\ n <= l /\ n <= m
      BY <1>1, <2>1
    <2>3. at[n] = to[n] /\ at[n] \in Places(files)
      BY <2>2
    <2>4. Step(w, at[n], p[n + 1], at[n + 1])
      BY <1>2, <2>2
    <2>5. Step(w, at[n], q[n + 1], to[n + 1])
      BY <1>3, <2>2, <2>3
    <2> DEFINE x == at[n]
               c == p[n + 1]
               e == q[n + 1]
               y == at[n + 1]
               d == to[n + 1]
    <2>6. x \in Places(files) /\ Step(World("wanted"), x, c, y) /\ Step(World("wanted"), x, e, d)
      BY <2>3, <2>4, <2>5 DEF w
    <2> HIDE DEF x, c, e, y, d, A
    <2>7. c = e /\ y = d
      BY <2>6, StepAlone
    <2> QED
      BY <2>7 DEF c, e, y, d
  <1>6. \A n \in Nat : n \in A
    <2>1. A \in SUBSET Nat
      OBVIOUS
    <2> HIDE DEF A
    <2> QED
      BY <1>4, <1>5, <2>1, NumbersByInduction
  <1>7. \A n \in Nat : n <= l /\ n <= m => at[n] = to[n] /\ (n > 0 => p[n] = q[n])
    BY <1>6
  <1> HIDE DEF A
  <1>8. l <= m
    <2> SUFFICES ASSUME m < l PROVE FALSE
      BY <1>1
    <2>1. at[m] = z
      BY <1>1, <1>3, <1>7
    <2>2. m + 1 \in 1 .. l /\ (m + 1) - 1 = m
      BY <1>1
    <2> DEFINE c == p[m + 1]
               y == at[m + 1]
    <2>3. Step(w, z, c, y)
      BY <1>2, <2>1, <2>2
    <2> HIDE DEF c, y
    <2>4. ~z.open /\ z.file = Len(files) + 1
      BY DEF z, FrontOf
    <2>5. ~Opens(w, z, y) /\ (\A n : ~Moves(w, z, n, y)) /\ ~Closes(w, z, y)
      BY <1>1, <2>4 DEF Opens, Moves, Closes
    <2> QED
      BY <1>1, <2>3, <2>5 DEF Step
  <1>9. \A i \in 1 .. l : p[i] = q[i]
    <2>1. ASSUME NEW i \in 1 .. l PROVE p[i] = q[i]
      <3>1. i \in Nat /\ i <= l /\ i <= m /\ i > 0
        BY <1>1, <1>8
      <3> QED
        BY <1>7, <3>1
    <2> QED
      BY <2>1
  <1> QED
    BY <1>8, <1>9, PrefixByPlaces DEF l, m

-----------------------------------------------------------------------------
(* The bytes of a stream, with its marks.                                  *)

\* What is spelled: bytes and marks; how an item is, and a file.
Letters == Nat \cup {"start", "end"}
Spelt(c) == IF IsMark(c) THEN <<c.mark>> ELSE c.fp
FileSpelt(f) == (<<"start">> \o f) \o <<"end">>
FilesSpelt == [k \in DOMAIN files |-> FileSpelt(files[k])]

\* What has been told at a place: the files before, and the beginning of its own.
Ahead(n) == FlattenSeq(SubSeq(FilesSpelt, 1, n))
Begin(a) == IF a.open THEN <<"start">> \o SubSeq(files[a.file], 1, a.offset) ELSE <<>>
Told(a) == Ahead(a.file - 1) \o Begin(a)

\* How the files are spelled.
LEMMA FilesSpeltFacts ==
  ASSUME Types
  PROVE  /\ FilesSpelt \in Seq(Seq(Letters)) /\ Len(FilesSpelt) = Len(files)
         /\ \A k \in 1 .. Len(files) : /\ FilesSpelt[k] = FileSpelt(files[k])
                                       /\ files[k] \in Seq(Letters) /\ FileSpelt(files[k]) \in Seq(Letters)
         /\ <<"start">> \in Seq(Letters) /\ <<"end">> \in Seq(Letters) /\ <<>> \in Seq(Letters)
  <1> DEFINE l == Len(files)
             x == <<"start">>
             y == <<"end">>
             q == FilesSpelt
  <1>1. x \in Seq(Letters) /\ y \in Seq(Letters) /\ <<>> \in Seq(Letters)
    BY DEF Letters
  <1>2. l \in Nat /\ DOMAIN files = 1 .. l /\ \A k \in 1 .. l : files[k] \in Seq(Nat)
    BY Configured, SeqFacts
  <1>3. q = [k \in 1 .. l |-> FileSpelt(files[k])]
    BY <1>2 DEF FilesSpelt
  <1>4. ASSUME NEW k \in 1 .. l PROVE files[k] \in Seq(Letters) /\ FileSpelt(files[k]) \in Seq(Letters)
    <2> DEFINE f == files[k]
    <2>1. f \in Seq(Nat) /\ Nat \subseteq Letters
      BY <1>2 DEF Letters
    <2> HIDE DEF f, x, y
    <2>2. f \in Seq(Letters)
      BY <2>1, SeqOfSubset
    <2>3. x \o f \in Seq(Letters)
      BY <1>1, <2>2, ConcatProperties
    <2> DEFINE z == x \o f
    <2> HIDE DEF z
    <2>4. z \o y \in Seq(Letters)
      BY <1>1, <2>3, ConcatProperties DEF z
    <2> QED
      BY <2>2, <2>4 DEF FileSpelt, f, x, y, z
  <1> HIDE DEF q, l
  <1>5. q \in [1 .. l -> Seq(Letters)] /\ \A k \in 1 .. l : q[k] = FileSpelt(files[k])
    BY <1>3, <1>4
  <1>6. q \in Seq(Seq(Letters)) /\ DOMAIN q = 1 .. l
    BY <1>2, <1>5
  <1>7. Len(q) = l
    BY <1>2, <1>6, LenProperties
  <1> QED
    BY <1>1, <1>4, <1>5, <1>6, <1>7 DEF q, l

\* What has been told of whole files.
LEMMA AheadFacts ==
  ASSUME Types
  PROVE  /\ \A n \in 0 .. Len(files) : Ahead(n) \in Seq(Letters)
         /\ \A n \in 1 .. Len(files) : Ahead(n) = Ahead(n - 1) \o FileSpelt(files[n])
         /\ Ahead(0) = <<>>
  <1> DEFINE q == FilesSpelt
             l == Len(files)
  <1>1. /\ q \in Seq(Seq(Letters)) /\ Len(q) = l /\ l \in Nat
        /\ \A k \in 1 .. l : q[k] = FileSpelt(files[k])
        /\ <<>> \in Seq(Letters)
    BY FilesSpeltFacts, Configured
  <1> HIDE DEF q, l
  <1>2. ASSUME NEW n \in 0 .. l PROVE Ahead(n) \in Seq(Letters)
    <2>1. SubSeq(q, 1, n) \in Seq(Seq(Letters))
      BY <1>1, SubSeqFacts
    <2>2. FlattenSeq(SubSeq(q, 1, n)) \in Seq(Letters)
      BY <1>1, <2>1, FlattenAppend
    <2> QED
      BY <2>2 DEF Ahead, q
  <1>3. ASSUME NEW n \in 1 .. l PROVE Ahead(n) = Ahead(n - 1) \o FileSpelt(files[n])
    <2> DEFINE k == n - 1
    <2>1. k \in 0 .. Len(q) - 1 /\ k + 1 = n
      BY <1>1
    <2> HIDE DEF k
    <2>2. FlattenSeq(SubSeq(q, 1, k + 1)) = FlattenSeq(SubSeq(q, 1, k)) \o q[k + 1]
      BY <1>1, <2>1, FlattenNext
    <2> QED
      BY <1>1, <2>1, <2>2 DEF Ahead, q, k
  <1>4. Ahead(0) = <<>>
    <2>1. SubSeq(q, 1, 0) = <<>>
      BY <1>1
    <2>2. FlattenSeq(<<>>) = <<>>
      <3> DEFINE e == <<>>
      <3>1. e \in Seq(Seq(Letters)) /\ Len(e) = 0
        OBVIOUS
      <3> HIDE DEF e
      <3>2. PICK g \in [Nat -> Seq(Letters)] : g[0] = <<>> /\ g[Len(e)] = FlattenSeq(e)
        BY <3>1, FlattenBySteps
      <3> QED
        BY <3>1, <3>2 DEF e
    <2> QED
      BY <2>1, <2>2 DEF Ahead, q
  <1> QED
    BY <1>2, <1>3, <1>4 DEF l

\* What has been told at a place is spelled.
LEMMA ToldFacts ==
  ASSUME Types, NEW a \in Places(files)
  PROVE  /\ Ahead(a.file - 1) \in Seq(Letters) /\ Begin(a) \in Seq(Letters) /\ Told(a) \in Seq(Letters)
         /\ ~a.open => Told(a) = Ahead(a.file - 1)
         /\ a.open => SubSeq(files[a.file], 1, a.offset) \in Seq(Letters)
  <1>1. /\ a.file \in 1 .. Len(files) + 1 /\ a.file \in Nat /\ a.offset \in Nat /\ Len(files) \in Nat
        /\ a.open => /\ a.file \in 1 .. Len(files) /\ a.offset <= Len(files[a.file])
                     /\ Len(files[a.file]) \in Nat
    BY PlaceFacts, Configured
  <1>2. a.file - 1 \in 0 .. Len(files)
    BY <1>1
  <1> DEFINE x == Ahead(a.file - 1)
             y == Begin(a)
  <1>3. x \in Seq(Letters)
    BY <1>2, AheadFacts
  <1>4. ASSUME a.open PROVE SubSeq(files[a.file], 1, a.offset) \in Seq(Letters)
    <2> DEFINE f == files[a.file]
               o == a.offset
    <2>1. f \in Seq(Letters) /\ o \in 0 .. Len(f)
      BY <1>1, <1>4, FilesSpeltFacts
    <2> HIDE DEF f, o
    <2>2. SubSeq(f, 1, o) \in Seq(Letters)
      BY <2>1, SubSeqFacts
    <2> QED
      BY <2>2 DEF f, o
  <1>5. y \in Seq(Letters)
    <2>1. CASE a.open
      <3> DEFINE u == <<"start">>
                 v == SubSeq(files[a.file], 1, a.offset)
      <3>1. u \in Seq(Letters) /\ v \in Seq(Letters)
        BY <1>4, <2>1, FilesSpeltFacts
      <3> HIDE DEF u, v
      <3>2. u \o v \in Seq(Letters)
        BY <3>1, ConcatProperties
      <3> QED
        BY <2>1, <3>2 DEF Begin, u, v
    <2>2. CASE ~a.open
      BY <2>2, FilesSpeltFacts DEF Begin
    <2> QED
      BY <2>1, <2>2
  <1> HIDE DEF x, y
  <1>6. x \o y \in Seq(Letters)
    BY <1>3, <1>5, ConcatProperties
  <1>7. x \o <<>> = x
    BY <1>3, ConcatFacts
  <1>8. Told(a) = x \o y /\ (~a.open => y = <<>>)
    BY DEF Told, Begin, x, y
  <1> QED
    BY <1>3, <1>4, <1>5, <1>6, <1>7, <1>8 DEF x, y

\* A step tells its item.
LEMMA StepTells ==
  ASSUME Types, NEW a \in Places(files), NEW b \in Places(files), NEW c, Step(World("wanted"), a, c, b)
  PROVE  Spelt(c) \in Seq(Letters) /\ Told(b) = Told(a) \o Spelt(c)
  <1> DEFINE w == World("wanted")
             f == files[a.file]
             o == a.offset
             h == Ahead(a.file - 1)
             s == <<"start">>
             e == <<"end">>
             p == SubSeq(f, 1, o)
  <1>1. w.stage = "wanted" /\ w.files = files
    BY Worlds
  <1>2. \/ c.mark = "start" /\ Opens(w, a, b) /\ ~a.open /\ IsMark(c)
        \/ \E n \in Nat : c.mark = "chunk" /\ Moves(w, a, n, b) /\ a.open /\ ~IsMark(c) /\ c.fp = Span(w, a, n)
        \/ c.mark = "end" /\ Closes(w, a, b) /\ a.open /\ IsMark(c)
    BY <1>1, StepKinds
  <1>3. /\ s \in Seq(Letters) /\ e \in Seq(Letters) /\ h \in Seq(Letters)
        /\ a.open => p \in Seq(Letters) /\ f \in Seq(Letters)
    <2>1. a.open => a.file \in 1 .. Len(files)
      BY PlaceFacts
    <2> QED
      BY <2>1, ToldFacts, FilesSpeltFacts
  <1>4. /\ a.file \in Nat /\ o \in Nat
        /\ a.open => a.file \in 1 .. Len(files) /\ o <= Len(f) /\ Len(f) \in Nat
    BY PlaceFacts
  <1> HIDE DEF s, e, h, p, f, o
  <1>5. a.open => Told(a) = h \o (s \o p)
    BY DEF Told, Begin, h, s, p, f, o
  <1>6. CASE c.mark = "start" /\ Opens(w, a, b) /\ ~a.open /\ IsMark(c)
    <2>1. Spelt(c) = s
      BY <1>6 DEF Spelt, s
    <2>2. Told(a) = h
      BY <1>6, ToldFacts DEF h
    <2>3. b.open = TRUE /\ b.file = a.file /\ b.offset = 0
      BY <1>4, <1>6, PlacesAre DEF Opens
    <2>4. SubSeq(files[b.file], 1, 0) = <<>>
      <3>1. files[b.file] \in Seq(Letters)
        <4>1. b.file \in 1 .. Len(files)
          BY <2>3, PlaceFacts
        <4> QED
          BY <4>1, FilesSpeltFacts
      <3> QED
        BY <3>1
    <2>5. Told(b) = h \o (s \o <<>>)
      BY <2>3, <2>4 DEF Told, Begin, h, s
    <2>6. s \o <<>> = s
      BY <1>3, ConcatFacts
    <2> QED
      BY <1>3, <2>1, <2>2, <2>5, <2>6
  <1>7. ASSUME NEW n \in Nat, c.mark = "chunk", Moves(w, a, n, b), a.open, ~IsMark(c), c.fp = Span(w, a, n)
        PROVE  Spelt(c) \in Seq(Letters) /\ Told(b) = Told(a) \o Spelt(c)
    <2> DEFINE r == SubSeq(f, o + 1, o + n)
    <2>1. Spelt(c) = r
      BY <1>1, <1>7 DEF Spelt, Span, f, o
    <2>2. n \in 1 .. Len(f) - o /\ b = Within(a.file, o + n)
      BY <1>1, <1>7 DEF Moves, f, o
    <2>3. o + n \in Nat /\ o + n <= Len(f) /\ f \in Seq(Letters) /\ o \in Nat /\ o \in 0 .. o + n
      BY <1>3, <1>4, <1>7, <2>2
    <2>4. b.open = TRUE /\ b.file = a.file /\ b.offset = o + n
      BY <1>4, <2>2, <2>3, PlacesAre
    <2>5. r \in Seq(Letters)
      BY <2>3, SubSeqBetween
    <2>6. SubSeq(f, 1, o + n) = p \o r
      <3> DEFINE m == o + n
      <3>1. m \in Nat /\ o \in 0 .. m /\ 0 \in Nat /\ 0 + m <= Len(f)
        BY <2>3
      <3>2. 0 + 1 = 1 /\ 0 + m = m /\ 0 + o = o /\ o + (m - o) = o + n
        BY <2>3
      <3> HIDE DEF m
      <3>3. SubSeq(f, 0 + 1, 0 + m) = SubSeq(f, 0 + 1, 0 + o) \o SubSeq(f, 0 + o + 1, 0 + o + (m - o))
        BY <2>3, <3>1, SubSeqTwice
      <3> QED
        BY <3>2, <3>3 DEF m, p
    <2>7. Told(b) = h \o (s \o (p \o r))
      BY <2>4, <2>6 DEF Told, Begin, h, s, f
    <2> HIDE DEF r
    <2>8. (s \o p) \o r = s \o (p \o r) /\ s \o p \in Seq(Letters)
      <3>1. s \in Seq(Letters) /\ p \in Seq(Letters) /\ r \in Seq(Letters)
        BY <1>3, <1>7, <2>5
      <3>2. (s \o p) \o r = s \o (p \o r)
        BY <3>1, ConcatAssociative
      <3>3. s \o p \in Seq(Letters)
        BY <3>1, ConcatProperties
      <3> QED
        BY <3>2, <3>3
    <2> DEFINE t == s \o p
    <2> HIDE DEF t
    <2>9. (h \o t) \o r = h \o (t \o r)
      <3>1. h \in Seq(Letters) /\ t \in Seq(Letters) /\ r \in Seq(Letters)
        BY <1>3, <2>5, <2>8 DEF t
      <3> QED
        BY <3>1, ConcatAssociative
    <2> QED
      BY <1>5, <1>7, <2>1, <2>5, <2>7, <2>8, <2>9 DEF t
  <1>8. CASE c.mark = "end" /\ Closes(w, a, b) /\ a.open /\ IsMark(c)
    <2>1. Spelt(c) = e
      BY <1>8 DEF Spelt, e
    <2>2. b = FrontOf(a.file + 1) /\ o = Len(f)
      BY <1>1, <1>8 DEF Closes, f, o
    <2>3. p = f
      <3>1. SubSeq(f, 1, Len(f)) = f
        BY <1>3, <1>8, SubSeqFull
      <3> QED
        BY <2>2, <3>1 DEF p
    <2>4. ~b.open /\ b.file - 1 = a.file /\ a.file \in 1 .. Len(files)
      BY <1>4, <1>8, <2>2 DEF FrontOf
    <2>5. Told(b) = Ahead(a.file)
      BY <2>4, ToldFacts
    <2>6. Ahead(a.file) = h \o ((s \o f) \o e)
      BY <2>4, AheadFacts DEF h, FileSpelt, s, e, f
    <2>7. s \o f \in Seq(Letters)
      BY <1>3, <1>8, ConcatProperties
    <2> DEFINE t == s \o f
    <2> HIDE DEF t
    <2>8. (h \o t) \o e = h \o (t \o e)
      <3>1. h \in Seq(Letters) /\ t \in Seq(Letters) /\ e \in Seq(Letters)
        BY <1>3, <2>7 DEF t
      <3> QED
        BY <3>1, ConcatAssociative
    <2> QED
      BY <1>3, <1>5, <1>8, <2>1, <2>3, <2>5, <2>6, <2>8 DEF t
  <1> QED
    BY <1>2, <1>6, <1>7, <1>8

\* What leads on from the front of the first file is spelled as what is told where it ends.
LEMMA PathSpelled ==
  ASSUME Types, NEW q \in Seq(Items), NEW d, Path(World("wanted"), q, FrontOf(1), d)
  PROVE  Spelled(q) = Told(d) /\ d \in Places(files)
  <1> DEFINE w == World("wanted")
             l == Len(q)
             p == [k \in DOMAIN q |-> Spelt(q[k])]
  <1>1. w.files = files
    BY Worlds
  <1>2. l \in Nat /\ DOMAIN q = 1 .. l
    BY SeqFacts
  <1>3. PICK at \in [Nat -> Places(files)] :
          at[0] = FrontOf(1) /\ at[l] = d /\ \A n \in 1 .. l : Step(w, at[n - 1], q[n], at[n])
    BY <1>1 DEF Path
  <1>4. Spelled(q) = FlattenSeq(p)
    BY DEF Spelled, Spelt
  <1> HIDE DEF l
  <1>5. ASSUME NEW n \in 1 .. l
        PROVE  Spelt(q[n]) \in Seq(Letters) /\ Told(at[n]) = Told(at[n - 1]) \o Spelt(q[n])
    <2> DEFINE a == at[n - 1]
               b == at[n]
               c == q[n]
    <2>1. n \in Nat /\ n - 1 \in Nat
      BY <1>2
    <2>2. a \in Places(files) /\ b \in Places(files) /\ Step(World("wanted"), a, c, b)
      BY <1>3, <2>1
    <2> HIDE DEF a, b, c
    <2>3. Spelt(c) \in Seq(Letters) /\ Told(b) = Told(a) \o Spelt(c)
      BY <2>2, StepTells
    <2> QED
      BY <2>3 DEF a, b, c
  <1>6. p = [k \in 1 .. l |-> Spelt(q[k])]
    BY <1>2
  <1> HIDE DEF p, w
  <1>7. p \in Seq(Seq(Letters)) /\ Len(p) = l /\ \A k \in 1 .. l : p[k] = Spelt(q[k])
    <2>1. p \in [1 .. l -> Seq(Letters)] /\ \A k \in 1 .. l : p[k] = Spelt(q[k])
      BY <1>5, <1>6
    <2>2. p \in Seq(Seq(Letters)) /\ DOMAIN p = 1 .. l
      BY <1>2, <2>1
    <2>3. Len(p) = l
      BY <1>2, <2>2, LenProperties
    <2> QED
      BY <2>1, <2>2, <2>3
  <1>8. PICK g \in [Nat -> Seq(Letters)] :
           /\ g[0] = <<>> /\ g[l] = FlattenSeq(p)
           /\ \A n \in 0 .. l - 1 : g[n + 1] = g[n] \o p[n + 1]
    BY <1>7, FlattenBySteps
  <1> DEFINE A == {n \in Nat : n <= l => g[n] = Told(at[n])}
  <1>9. 0 \in A
    <2> DEFINE a == FrontOf(1)
    <2>1. a \in Places(files) /\ ~a.open /\ a.file = 1
      <3>1. 1 \in Nat /\ 1 \in 1 .. Len(files) + 1
        BY Configured
      <3> QED
        BY <3>1, PlacesAre
    <2> HIDE DEF a
    <2>2. Told(a) = Ahead(a.file - 1)
      BY <2>1, ToldFacts
    <2>3. a.file - 1 = 0
      BY <2>1
    <2>4. Told(a) = <<>>
      BY <2>2, <2>3, AheadFacts
    <2> QED
      BY <1>3, <1>8, <2>4 DEF a
  <1>10. ASSUME NEW n \in A PROVE n + 1 \in A
    <2>1. SUFFICES ASSUME n + 1 <= l PROVE g[n + 1] = Told(at[n + 1])
      OBVIOUS
    <2>2. n \in Nat /\ n \in 0 .. l - 1 /\ n + 1 \in 1 .. l /\ n <= l /\ (n + 1) - 1 = n
      BY <1>2, <2>1
    <2>3. g[n] = Told(at[n])
      BY <2>2
    <2>4. g[n + 1] = g[n] \o p[n + 1] /\ p[n + 1] = Spelt(q[n + 1])
      BY <1>7, <1>8, <2>2
    <2>5. Told(at[n + 1]) = Told(at[n]) \o Spelt(q[n + 1])
      BY <1>5, <2>2
    <2> QED
      BY <2>3, <2>4, <2>5
  <1>11. \A n \in Nat : n \in A
    <2>1. A \in SUBSET Nat
      OBVIOUS
    <2> HIDE DEF A
    <2> QED
      BY <1>9, <1>10, <2>1, NumbersByInduction
  <1>12. l \in A
    <2> HIDE DEF A
    <2> QED
      BY <1>2, <1>11
  <1>13. g[l] = Told(at[l])
    BY <1>2, <1>12
  <1>14. at[l] \in Places(files)
    BY <1>2
  <1> QED
    BY <1>3, <1>4, <1>8, <1>13, <1>14

\* What has been told is a beginning of all there is to tell.
LEMMA ToldPrefix ==
  ASSUME Types, NEW a \in Places(files)
  PROVE  IsPrefix(Told(a), Told(FrontOf(Len(files) + 1)))
  <1> DEFINE l == Len(files)
             q == FilesSpelt
             z == FrontOf(l + 1)
             k == a.file
  <1>1. /\ l \in Nat /\ k \in 1 .. l + 1 /\ k \in Nat
        /\ a.open => /\ k \in 1 .. l /\ a.offset \in 0 .. Len(files[k]) /\ a.offset \in Nat
    BY PlaceFacts, Configured
  <1>2. q \in Seq(Seq(Letters)) /\ Len(q) = l
    BY FilesSpeltFacts
  <1>3. Told(z) = FlattenSeq(q)
    <2>1. z \in Places(files) /\ ~z.open /\ z.file = l + 1
      <3> DEFINE j == l + 1
      <3>1. j \in Nat /\ j \in 1 .. Len(files) + 1
        BY <1>1
      <3> HIDE DEF j
      <3>2. FrontOf(j) \in Places(files) /\ FrontOf(j).open = FALSE /\ FrontOf(j).file = j
        BY <3>1, PlacesAre
      <3> QED
        BY <3>2 DEF j
    <2> HIDE DEF z, q, l
    <2>2. z.file - 1 = l
      BY <1>1, <2>1
    <2>3. Told(z) = Ahead(l)
      BY <2>1, <2>2, ToldFacts
    <2>4. SubSeq(q, 1, Len(q)) = q
      BY <1>2, SubSeqFull
    <2> QED
      BY <1>2, <2>3, <2>4 DEF Ahead, q
  <1> HIDE DEF q, z, l
  <1>4. ASSUME NEW n \in 0 .. l
        PROVE  Ahead(n) \in Seq(Letters) /\ \E u \in Seq(Letters) : FlattenSeq(q) = Ahead(n) \o u
    <2>1. n \in 0 .. Len(q)
      BY <1>2
    <2>2. \E u \in Seq(Letters) : FlattenSeq(q) = FlattenSeq(SubSeq(q, 1, n)) \o u
      BY <1>2, <2>1, FlattenPrefix
    <2> QED
      BY <2>2, AheadFacts DEF Ahead, q, l
  <1>5. \E u \in Seq(Letters) : FlattenSeq(q) = Told(a) \o u
    <2>1. CASE ~a.open
      <3>1. k - 1 \in 0 .. l
        BY <1>1
      <3>2. Told(a) = Ahead(k - 1)
        BY <2>1, ToldFacts
      <3> QED
        BY <1>4, <3>1, <3>2
    <2>2. CASE a.open
      <3> DEFINE f == files[k]
                 o == a.offset
                 h == Ahead(k - 1)
                 s == <<"start">>
                 e == <<"end">>
                 p == SubSeq(f, 1, o)
                 r == SubSeq(f, o + 1, Len(f))
      <3>1. k \in 0 .. l /\ k \in 1 .. l
        BY <1>1, <2>2
      <3>2. PICK u \in Seq(Letters) : FlattenSeq(q) = Ahead(k) \o u
        BY <1>4, <3>1
      <3>3. Ahead(k) = h \o ((s \o f) \o e)
        BY <3>1, AheadFacts DEF FileSpelt, l
      <3>4. Told(a) = h \o (s \o p)
        BY <2>2 DEF Told, Begin
      <3>5. s \in Seq(Letters) /\ e \in Seq(Letters) /\ f \in Seq(Letters) /\ h \in Seq(Letters) /\ o \in 0 .. Len(f)
        BY <1>1, <2>2, <3>1, FilesSpeltFacts, ToldFacts DEF l
      <3> HIDE DEF f, h, s, e, o, p, r, k
      <3>6. p \in Seq(Letters) /\ r \in Seq(Letters) /\ f = p \o r
        <4>1. f \in Seq(Letters) /\ o \in 0 .. Len(f)
          BY <3>5
        <4>2. /\ SubSeq(f, 1, o) \in Seq(Letters) /\ SubSeq(f, o + 1, Len(f)) \in Seq(Letters)
              /\ SubSeq(f, 1, o) \o SubSeq(f, o + 1, Len(f)) = f
          BY <4>1, ConcatFacts
        <4> QED
          BY <4>2 DEF p, r
      <3> DEFINE t == s \o p
                 v == r \o e
                 x == h \o t
                 y == v \o u
      <3>7. t \in Seq(Letters) /\ v \in Seq(Letters)
        BY <3>5, <3>6, ConcatProperties
      <3>8. (s \o f) \o e = t \o v
        <4>0. s \in Seq(Letters) /\ p \in Seq(Letters) /\ r \in Seq(Letters)
          BY <3>5, <3>6
        <4>1. s \o (p \o r) = (s \o p) \o r
          BY <4>0, ConcatAssociative
        <4> HIDE DEF t
        <4>2. s \o f = t \o r
          BY <3>6, <4>1 DEF t
        <4>3. t \in Seq(Letters) /\ r \in Seq(Letters) /\ e \in Seq(Letters)
          BY <3>5, <3>6, <3>7
        <4>4. (t \o r) \o e = t \o (r \o e)
          BY <4>3, ConcatAssociative
        <4> QED
          BY <4>2, <4>4
      <3> HIDE DEF t, v
      <3>9. x \in Seq(Letters) /\ y \in Seq(Letters)
        BY <3>2, <3>5, <3>7, ConcatProperties
      <3>10. h \o (t \o v) = x \o v
        <4>1. h \in Seq(Letters) /\ t \in Seq(Letters) /\ v \in Seq(Letters)
          BY <3>5, <3>7
        <4> QED
          BY <4>1, ConcatAssociative
      <3> HIDE DEF x
      <3>11. (x \o v) \o u = x \o (v \o u)
        BY <3>2, <3>7, <3>9, ConcatAssociative
      <3>12. FlattenSeq(q) = x \o y /\ Told(a) = x
        BY <3>2, <3>3, <3>4, <3>8, <3>10, <3>11 DEF t, x
      <3> QED
        BY <3>9, <3>12
    <2> QED
      BY <2>1, <2>2
  <1>6. PICK u \in Seq(Letters) : FlattenSeq(q) = Told(a) \o u
    BY <1>5
  <1>7. Told(a) \in Seq(Letters)
    BY ToldFacts
  <1> DEFINE x == Told(a)
  <1> HIDE DEF x
  <1>8. IsPrefix(x, x \o u)
    BY <1>6, <1>7, PrefixOfConcat DEF x
  <1> QED
    BY <1>3, <1>6, <1>8 DEF x, z, l

\* Where the files are cut.
LEMMA CutsFollow ==
  ASSUME IInv
  PROVE  CutByContent
  <1> DEFINE p == Handed
             q == WantedStream
             w == World("wanted")
             z == FrontOf(Len(files) + 1)
  <1>1. Types
    BY DEF IInv
  <1>2. PICK d \in Places(files) : Path(w, p, FrontOf(1), d)
    BY HandedLeads
  <1>3. p \in Seq(Items) /\ q \in Seq(Items) /\ Path(w, q, FrontOf(1), z)
    BY <1>1, HandedFacts, WantedStreamLeads
  <1> HIDE DEF p, q
  <1>4. CASE setting.algorithm = "ae"
    <2>1. Spelled(p) = Told(d)
      BY <1>1, <1>2, <1>3, PathSpelled
    <2>2. Spelled(q) = Told(z)
      BY <1>1, <1>3, PathSpelled
    <2>3. IsPrefix(Told(d), Told(z))
      BY <1>1, <1>2, ToldPrefix
    <2>4. IsPrefix(Spelled(p), Spelled(q))
      BY <2>1, <2>2, <2>3
    <2> QED
      BY <1>4, <2>4 DEF CutByContent, p, q
  <1>5. CASE setting.algorithm # "ae"
    <2>1. IsPrefix(p, q)
      BY <1>1, <1>2, <1>3, <1>5, PathsAgree
    <2> QED
      BY <1>5, <2>1 DEF CutByContent, p, q
  <1> QED
    BY <1>4, <1>5

\* Where a file is cut depends on its bytes alone (but for asymmetric extremum, of which the
\* bytes are kept), and what reaches dedup_thread, directly or from a trace, is the stream of
\* the files that are read, in order, whatever vanishes on the way.
THEOREM CutsByContent == Spec => []CutByContent
  BY CutsFollow, Invariant, PTL
=============================================================================
