----------------------------- MODULE Chunking -----------------------------
(***************************************************************************)
(* The chunking algorithms (chunking/*.c and fixed_chunk_data): each is    *)
(* given the bytes that chunk_thread has at hand and returns the size of   *)
(* the next chunk.  Bytes are naturals, and p[i] here is p[i - 1] there.   *)
(***************************************************************************)
EXTENDS Integers, Sequences, SequencesExt, FiniteSetsExt

CONSTANTS
  MinSize, AvgSize, MaxSize, \* destor.chunk_min_size and so on
  ContainerRoom, \* CONTAINER_SIZE - CONTAINER_META_SIZE
  WindowBytes,   \* the bytes that the rolling fingerprint spans (48)
  BreakMark,     \* BREAKMARK_VALUE
  WordBytes,     \* what my_memcmp compares (8)
  AeWindow       \* chunk_avg_size / (e - 1)

\* The assertions of start_chunk_phase.  Where the average serves as a mask it
\* is a power of two there; nothing here depends on that.
ASSUME ChunkingAssumption ==
  /\ {MinSize, AvgSize, MaxSize, ContainerRoom, WindowBytes, WordBytes, AeWindow} \subseteq Nat \ {0}
  /\ BreakMark \in Nat /\ AvgSize > 1
  /\ MinSize <= AvgSize /\ AvgSize <= MaxSize /\ MaxSize <= ContainerRoom

\* SLIDE: a polynomial over the last bytes it was fed; what has left the
\* window is taken out again.
Rabin(fed) == FoldLeft(LAMBDA h, m : 2 * h + m, 0,
                       SubSeq(fed, Max({1, Len(fed) - WindowBytes + 1}), Len(fed)))

\* The sizes between the limits at which the fingerprint, fed from the byte
\* before the first of them, has the break mark under the mask m - 1.
Marks(p, mask) ==
  {i \in MinSize .. Min({Len(p), MaxSize}) - 1 :
     Rabin(SubSeq(p, MinSize, i)) % mask[i] = BreakMark}

FirstOr(S, size) == IF S = {} THEN size ELSE Min(S)

AtMost(p) == Min({Len(p), MaxSize})

rabin_chunk_data(p) ==
  LET mask == [i \in 1 .. MaxSize |-> AvgSize]
  IN IF Len(p) <= MinSize THEN Len(p) ELSE FirstOr(Marks(p, mask), AtMost(p))

\* A larger average while the chunk is small, a smaller one when it is large.
normalized_rabin_chunk_data(p) ==
  LET mask == [i \in 1 .. MaxSize |-> IF i < AvgSize THEN 2 * AvgSize ELSE AvgSize \div 2]
  IN IF Len(p) <= MinSize THEN Len(p) ELSE FirstOr(Marks(p, mask), AtMost(p))

\* Two thresholds, two divisors: the last mark of the smaller divisor is the
\* fallback.
tttd_chunk_data(p) ==
  LET back == [i \in 1 .. MaxSize |-> AvgSize \div 2]
      main == [i \in 1 .. MaxSize |-> AvgSize]
      both == Marks(p, back) \cap Marks(p, main)
  IN IF Len(p) <= MinSize THEN Len(p)
     ELSE IF both # {} THEN Min(both)
     ELSE IF Marks(p, back) # {} THEN Max(Marks(p, back))
     ELSE AtMost(p)

\* Chunks end at the average, for "file" at the room of a container.
fixed_chunk_data(p, size) == Min({size, Len(p)})

\* my_memcmp of the words at i and j: never equal.
Greater(p, i, j) ==
  \E k \in 0 .. WordBytes - 1 :
    /\ p[i + k] > p[j + k]
    /\ \A l \in 0 .. k - 1 : p[i + l] = p[j + l]

\* Asymmetric extremum: cut AeWindow after the extreme word.  A word that is
\* not greater becomes the extreme, and no limit is looked at then.
AeFirst == [max |-> 1, cut |-> 0]
AeNext(p, s, curr) ==
  IF s.cut > 0 THEN s
  ELSE IF ~Greater(p, curr, s.max) THEN [s EXCEPT !.max = curr]
  ELSE IF curr = s.max + AeWindow \/ curr = 1 + MaxSize THEN [s EXCEPT !.cut = curr - 1]
  ELSE s

ae_chunk_data(p) ==
  LET after[k \in 0 .. Len(p) - WordBytes] ==
        IF k = 0 THEN AeFirst ELSE AeNext(p, after[k - 1], k + 1)
      last == after[Len(p) - WordBytes]
  IN IF Len(p) <= AeWindow + WordBytes \/ last.cut = 0 THEN Len(p) ELSE last.cut

Algorithms == {"rabin", "normalized", "tttd", "fixed", "file", "ae"}

\* destor.chunk_max_size as start_chunk_phase leaves it.
chunk_max_size(alg) ==
  CASE alg = "fixed" -> AvgSize [] alg = "file" -> ContainerRoom [] OTHER -> MaxSize

chunking(alg, p) ==
  CASE alg = "rabin" -> rabin_chunk_data(p)
    [] alg = "normalized" -> normalized_rabin_chunk_data(p)
    [] alg = "tttd" -> tttd_chunk_data(p)
    [] alg \in {"fixed", "file"} -> fixed_chunk_data(p, chunk_max_size(alg))
    [] alg = "ae" -> ae_chunk_data(p)
=============================================================================
