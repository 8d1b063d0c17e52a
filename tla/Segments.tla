----------------------------- MODULE Segments -----------------------------
(***************************************************************************)
(* Cutting the stream into segments (index/segmenting_method.c) and        *)
(* sampling the features of a segment (index/sampling_method.c).  A        *)
(* fingerprint is the sequence of its bytes; the one of a mark is zero,    *)
(* here <<>>.                                                              *)
(***************************************************************************)
EXTENDS Integers, Sequences, SequencesExt, FiniteSetsExt

CONSTANTS
  SegmentLength,  \* index_segment_algorithm[1]: the length, or the divisor
  SegmentMin, SegmentMax, \* index_segment_min and index_segment_max
  SampleRatio     \* index_sampling_method[1]

ASSUME SegmentsAssumption ==
  /\ {SegmentLength, SegmentMax} \subseteq Nat \ {0}
  /\ SegmentMin \in Nat /\ SampleRatio \in Nat \ {0}

IsMark(c) == c.mark \in {"start", "end"}

\* The integer in a fingerprint that is tested for a divisor.
HeadOf(fp) == FoldLeft(LAMBDA h, b : 2 * h + b, 0, fp)

NewSegment == [chunks |-> <<>>, chunk_num |-> 0]

\* A segmenting function yields the segment it goes on with, and the segment
\* it has completed, if any.
Goes(s) == [tmp |-> s, done |-> FALSE, segment |-> NewSegment]
Completes(s, next) == [tmp |-> next, done |-> TRUE, segment |-> s]

Added(s, c) ==
  [chunks |-> Append(s.chunks, c), chunk_num |-> s.chunk_num + (IF IsMark(c) THEN 0 ELSE 1)]

segment_fixed(tmp, c) ==
  LET s == Added(tmp, c)
  IN IF ~IsMark(c) /\ s.chunk_num = SegmentLength THEN Completes(s, NewSegment) ELSE Goes(s)

segment_file_defined(tmp, c) ==
  LET s == Added(tmp, c)
  IN IF c.mark = "end" THEN Completes(s, NewSegment) ELSE Goes(s)

\* (mutant) The limit is tested before the chunk is counted.
segment_content_definedLate(tmp, c) ==
  LET s == Added(tmp, c)
  IN IF IsMark(c) \/ tmp.chunk_num < SegmentMin THEN Goes(s)
     ELSE IF HeadOf(c.fp) % SegmentLength = 0
          THEN Completes(tmp, Added(NewSegment, c))
     ELSE IF tmp.chunk_num >= SegmentMax THEN Completes(s, NewSegment)
     ELSE Goes(s)

\* A chunk with the mark starts a segment, unless the last is too small.
segment_content_defined(tmp, c) ==
  LET s == Added(tmp, c)
  IN IF IsMark(c) \/ tmp.chunk_num < SegmentMin THEN Goes(s)
     ELSE IF HeadOf(c.fp) % SegmentLength = 0
          THEN Completes(tmp, Added(NewSegment, c))
     ELSE IF s.chunk_num >= SegmentMax THEN Completes(s, NewSegment)
     ELSE Goes(s)

segmenting(method, tmp, c) ==
  CASE method = "fixed" -> segment_fixed(tmp, c)
    [] method = "file" -> segment_file_defined(tmp, c)
    [] method = "content" -> segment_content_defined(tmp, c)

-----------------------------------------------------------------------------
(* Sampling.  Chunks is the sequence of a segment, n its chunk_num or 0.   *)

ZeroFp == <<>>
LastFp == <<255, 255>>   \* 0xff..: after every fingerprint

\* memcmp: the order of fingerprints.
Before(f, g) ==
  \/ Len(f) < Len(g) /\ IsPrefix(f, g)
  \/ \E k \in 1 .. Min({Len(f), Len(g)}) :
       f[k] < g[k] /\ \A l \in 1 .. k - 1 : f[l] = g[l]

feature_num(chunks, n) ==
  LET num == IF n = 0 THEN Len(chunks) ELSE n
  IN IF num <= SampleRatio THEN 1
     ELSE num \div SampleRatio + (IF 2 * (num % SampleRatio) > SampleRatio THEN 1 ELSE 0)

NormalChunks(chunks) ==
  LET upto[k \in 0 .. Len(chunks)] ==
        IF k = 0 THEN <<>>
        ELSE IF IsMark(chunks[k]) THEN upto[k - 1] ELSE Append(upto[k - 1], chunks[k])
  IN upto[Len(chunks)]

\* g_sequence_insert_sorted of chunk k when the entries are insufficient or it
\* is smaller than the last, with the last removed when there are too many.  An
\* entry is the place of its chunk among the normal ones.
Kept(normal, entries, k, limit) ==
  IF Len(entries) >= limit /\ ~Before(normal[k].fp, normal[Last(entries)].fp) THEN entries
  ELSE LET place == Cardinality({i \in DOMAIN entries : ~Before(normal[k].fp, normal[entries[i]].fp)})
           inserted == InsertAt(entries, place + 1, k)
       IN IF Len(inserted) > limit THEN Front(inserted) ELSE inserted

Entries(normal, limit) ==
  LET upto[k \in 0 .. Len(normal)] ==
        IF k = 0 THEN <<>> ELSE Kept(normal, upto[k - 1], k, limit)
  IN upto[Len(normal)]

OrPlaceholder(features, fp) == IF features = {} THEN {fp} ELSE features

\* (mutant) The features depend on where the chunks stand.
index_sampling_minFirst(chunks, n) ==
  LET fps == [k \in DOMAIN NormalChunks(chunks) |-> NormalChunks(chunks)[k].fp]
  IN OrPlaceholder({fps[k] : k \in 1 .. Min({feature_num(chunks, n), Len(fps)})}, LastFp)

index_sampling_min(chunks, n) ==
  LET normal == NormalChunks(chunks)
      entries == Entries(normal, feature_num(chunks, n))
  IN OrPlaceholder({normal[entries[i]].fp : i \in DOMAIN entries}, LastFp)

\* The smallest are anchors; the feature is the chunk eight before, or the
\* first of the segment.
Off == 8
index_sampling_optimized_min(chunks, n) ==
  LET normal == NormalChunks(chunks)
      entries == Entries(normal, feature_num(chunks, n))
  IN OrPlaceholder({normal[Max({1, entries[i] - Off})].fp : i \in DOMAIN entries}, LastFp)

index_sampling_random(chunks, n) ==
  OrPlaceholder({c.fp : c \in {d \in ToSet(NormalChunks(chunks)) :
                                 HeadOf(d.fp) % SampleRatio = 0}}, ZeroFp)

\* Counts the marks of files, and takes their fingerprint.
index_sampling_uniform(chunks, n) ==
  OrPlaceholder({chunks[k].fp : k \in {j \in DOMAIN chunks : (j - 1) % SampleRatio = 0}}, ZeroFp)
=============================================================================
