------------------------ MODULE DedupPipelineProofs ------------------------
(***************************************************************************)
(* For all streams, histories, sampled indexes, rewriting algorithms and   *)
(* limits, and in every interleaving of the dedup, rewrite and filter      *)
(* threads: the recipe is the stream and can be restored, a duplicate that *)
(* was found without a container finds one before it is written, no chunk  *)
(* is decided about before it was marked, and none is sent back to an      *)
(* older container; and no chunk is stored twice that should not be.       *)
(*                                                                         *)
(* The argument is one of a conveyor.  The recipe, the segment under way   *)
(* and what is in the four buffers are together what was sent, in order.   *)
(* The index buffer has an element for each chunk that was looked up and   *)
(* is not in the recipe; if the elements of a fingerprint have no id, then *)
(* its first copy is on the conveyor, was new when it was looked up, and   *)
(* gets its id before a later copy needs it.                               *)
(***************************************************************************)
EXTENDS DedupPipeline, SequenceFacts, FiniteSetTheorems, TLAPS

-----------------------------------------------------------------------------
(* The inductive invariant.                                                *)

\* How far the dedup thread has looked up and sent the chunks.
Base == IF dedup = "done" THEN Len(content) ELSE segment * SegmentSize
SegLen == Len(SegmentChunks(segment))
LookedUp == Base + (IF dedup = "lookup" THEN cursor - 1
                    ELSE IF dedup = "send" THEN SegLen ELSE 0)
Sent == Base + (IF dedup = "send" /\ cursor > 1 THEN cursor - 2 ELSE 0)

\* Where the dedup thread is in its segment, and who holds index_lock.
DedupInPlace ==
  /\ dedup # "done" => segment <= LastSegment
  /\ dedup = "lock" => cursor = 1
  /\ dedup = "lookup" => cursor \in 1 .. SegLen
  /\ dedup = "send" => cursor \in 1 .. SegLen + 2
  /\ lock = "dedup" <=> dedup = "lookup"
  /\ lock = "filter" <=> filter = "decide"

\* What is on its way, the oldest first.
OnTheWay == Joined(rewrite_queue, Joined(draining, Joined(chunk_queue, dedup_queue)))

\* The chunks of q are those behind from and up to to, in their order.
Ordered(q, from, to) ==
  /\ from <= to
  /\ \A i \in DOMAIN q : IsChunk(q[i]) => from < q[i] /\ q[i] <= to
  /\ \A i, j \in DOMAIN q : i < j /\ IsChunk(q[i]) /\ IsChunk(q[j]) => q[i] < q[j]
  /\ \A n \in from + 1 .. to : \E i \in DOMAIN q : q[i] = n

\* The segment under way: it is in the recipe when the filter thread pulls.
Taken == IF filter \in {"collect", "lock", "decide"} THEN Len(s) ELSE 0

\* Recipe, segment under way, and what is on its way are what was sent.
Flow ==
  /\ \A k \in DOMAIN recipe : k \in Chunks /\ recipe[k][1] = content[k]
  /\ \A k \in 1 .. Taken : s[k] = Len(recipe) + k
  /\ Ordered(OnTheWay, Len(recipe) + Taken, Sent)

\* The chunk that no_rewrite is to mark is the last that it has pushed.
LateIsLast ==
  /\ algo = "no" => chunk_queue = <<>> /\ Len(draining) <= 1
  /\ late # 0 =>
       /\ algo = "no" /\ draining = <<>>
       /\ IF rewrite_queue = <<>> THEN filter = "collect"
          ELSE rewrite_queue[Len(rewrite_queue)] = late

\* The copies of a fingerprint that were looked up and are not in the recipe.
Copies(f, from, to) == {n \in from + 1 .. to : content[n] = f}
Counted ==
  \A f \in Fps : Len(buffered[f]) = Cardinality(Copies(f, Len(recipe), LookedUp))

\* The store, and what the ids of the cache, the store and the tables lead to.
StoreShape ==
  /\ open = NoContainer \/ open.id = Len(containers)
  /\ \A f \in DOMAIN kv : kv[f] + 1 \in DOMAIN containers
  /\ \A k \in DOMAIN cache : cache[k] + 1 \in DOMAIN containers
PointersHold ==
  /\ RecipeResolvable
  /\ \A n \in Chunks : n > LookedUp => ck[n].id = TEMPORARY_ID
  /\ filter = "decide" =>
       /\ \A f \in DOMAIN recently_unique : Holds(recently_unique[f], f)
       /\ \A f \in DOMAIN recently_rewritten : Holds(recently_rewritten[f], f)

\* In the segment that is decided, the chunks before place have ids.
DecidedHaveIds ==
  filter = "decide" =>
    /\ place \in 1 .. Len(s) + 1
    /\ \A k \in 1 .. place - 1 : ck[s[k]].id # TEMPORARY_ID

\* A copy still to be decided is not newer than the copy that was rewritten,
\* and is without an id only if the index buffer has none.
Undecided ==
  filter = "decide" =>
    \A k \in place .. Len(s) :
      LET f == content[s[k]]
      IN  /\ f \in DOMAIN recently_rewritten =>
               ck[s[k]].id <= recently_rewritten[f]
          /\ ck[s[k]].dup /\ ck[s[k]].id = TEMPORARY_ID =>
               buffered[f][1] = TEMPORARY_ID

\* If the index buffer has no id, the first copy was new and will be written,
\* or was written in this segment.
Decided(n) == filter = "decide" /\ n < Len(recipe) + place
FirstCopy(m) == \A j \in Len(recipe) + 1 .. m - 1 : content[j] # content[m]
FirstCopyIsNew ==
  \A m \in Len(recipe) + 1 .. LookedUp :
    FirstCopy(m) /\ buffered[content[m]][1] = TEMPORARY_ID =>
      IF Decided(m) THEN content[m] \in DOMAIN recently_unique
      ELSE ~ck[m].dup /\ content[m] \notin open.fps

\* The invariant that every step preserves.
IInv ==
  /\ TypeOK /\ DedupInPlace /\ Flow /\ LateIsLast /\ Counted
  /\ StoreShape /\ PointersHold /\ DecidedHaveIds /\ Undecided /\ FirstCopyIsNew

-----------------------------------------------------------------------------
(* Numbers: the segments, and how far the dedup thread is.                 *)

\* The constants are numbers, and so are the lengths.
LEMMA NumberShapes ==
  ASSUME TypeOK
  PROVE  /\ SegmentSize \in Nat \ {0} /\ RewriteSize \in Nat \ {0}
         /\ CacheSize \in Nat \ {0} /\ QueueSize \in Nat \ {0}
         /\ Len(content) \in Nat /\ Chunks = 1 .. Len(content)
         /\ \A n \in Chunks : content[n] \in Fps
         /\ Len(containers) \in Nat /\ DOMAIN containers = 1 .. Len(containers)
         /\ Len(recipe) \in Nat /\ DOMAIN recipe = 1 .. Len(recipe)
         /\ Len(s) \in Nat /\ DOMAIN s = 1 .. Len(s) /\ \A k \in 1 .. Len(s) : s[k] \in Chunks
         /\ Ids \subseteq Int /\ TEMPORARY_ID \in Ids
  <1>1. /\ SegmentSize \in Nat \ {0} /\ RewriteSize \in Nat \ {0}
        /\ CacheSize \in Nat \ {0} /\ QueueSize \in Nat \ {0}
    BY PipelineAssumption
  <1>2. /\ Len(content) \in Nat /\ Chunks = 1 .. Len(content)
        /\ \A n \in 1 .. Len(content) : content[n] \in Fps
    BY SeqFacts DEF TypeOK, Chunks
  <1>3. Len(containers) \in Nat /\ DOMAIN containers = 1 .. Len(containers)
    BY SeqFacts DEF TypeOK
  <1>4. Len(recipe) \in Nat /\ DOMAIN recipe = 1 .. Len(recipe)
    BY SeqFacts DEF TypeOK
  <1>5. /\ Len(s) \in Nat /\ DOMAIN s = 1 .. Len(s)
        /\ \A k \in 1 .. Len(s) : s[k] \in Chunks
    BY SeqFacts DEF TypeOK
  <1>6. Ids \subseteq Int /\ TEMPORARY_ID \in Ids
    BY <1>3 DEF Ids, TEMPORARY_ID
  <1> QED
    BY <1>1, <1>2, <1>3, <1>4, <1>5, <1>6

\* What SegmentChunks returns, for the segments of the stream.
LEMMA SegmentFacts ==
  ASSUME NEW n \in Nat, NEW z \in Nat \ {0}, NEW k \in Nat,
         Len(content) = n, SegmentSize = z, DOMAIN content = 1 .. n,
         k <= LastSegment
  PROVE  /\ k * z \in Nat
         /\ SegmentChunks(k) \in Seq(Chunks)
         /\ Len(SegmentChunks(k)) \in 0 .. z
         /\ DOMAIN SegmentChunks(k) = 1 .. Len(SegmentChunks(k))
         /\ \A i \in 1 .. Len(SegmentChunks(k)) : SegmentChunks(k)[i] = k * z + i
         /\ k * z + Len(SegmentChunks(k)) <= n
         /\ k = LastSegment => k * z + Len(SegmentChunks(k)) = n
         /\ k # LastSegment => /\ k + 1 <= LastSegment
                               /\ (k + 1) * z = k * z + Len(SegmentChunks(k))
  <1> DEFINE d == n \div z
  <1>1. d \in Nat /\ d * z <= n /\ n < (d + 1) * z /\ LastSegment = d
    BY DEF LastSegment
  <1> HIDE DEF d
  <1>2. k * z \in Nat /\ (k + 1) * z \in Nat /\ (k + 1) * z = k * z + z
    OBVIOUS
  <1>3. k = d => k * z <= n /\ n < (k + 1) * z
    BY <1>1
  <1>4. k # d => (k + 1) * z <= n /\ k + 1 <= d
    <2> SUFFICES ASSUME k # d PROVE (k + 1) * z <= n /\ k + 1 <= d
      OBVIOUS
    <2>1. k + 1 <= d
      BY <1>1
    <2>2. \A x, y \in Nat : x <= y => x * z <= y * z
      OBVIOUS
    <2>3. (k + 1) * z <= d * z /\ d * z \in Nat
      BY <1>1, <2>1, <2>2
    <2> QED
      BY <1>1, <1>2, <2>1, <2>3
  <1> DEFINE b == k * z
             last == Min({(k + 1) * z, n})
             l == IF k = d THEN n - b ELSE z
  <1>5. last - b = l
    <2>1. last = IF (k + 1) * z <= n THEN (k + 1) * z ELSE n
      BY <1>2, MinMaxOfTwo
    <2> QED
      BY <1>2, <1>3, <1>4, <2>1
  <1>6. SegmentChunks(k) = [i \in 1 .. l |-> b + i]
    BY <1>5 DEF SegmentChunks
  <1>7. l \in 0 .. z /\ b + l <= n
    BY <1>2, <1>3, <1>4
  <1>8. b \in Nat
    BY <1>2
  <1> HIDE DEF b, l, last
  <1>9. \A i \in 1 .. l : b + i \in Chunks
    BY <1>7, <1>8 DEF Chunks
  <1>10. /\ SegmentChunks(k) \in Seq(Chunks) /\ Len(SegmentChunks(k)) = l
         /\ DOMAIN SegmentChunks(k) = 1 .. l
         /\ \A i \in 1 .. l : SegmentChunks(k)[i] = b + i
    BY <1>6, <1>7, <1>9
  <1>11. k = d => b + l = n
    BY <1>8 DEF b, l
  <1>12. k # d => (k + 1) * z = b + l
    BY <1>2 DEF b, l
  <1> QED
    BY <1>1, <1>4, <1>7, <1>8, <1>10, <1>11, <1>12 DEF b

\* The segment of the dedup thread, while it has one.
LEMMA MySegment ==
  ASSUME TypeOK, DedupInPlace, dedup # "done"
  PROVE  /\ Base = segment * SegmentSize /\ Base \in Nat
         /\ SegLen \in Nat /\ SegmentChunks(segment) \in Seq(Chunks)
         /\ \A i \in 1 .. SegLen : SegmentChunks(segment)[i] = Base + i
         /\ SegmentChunks(segment) = <<>> <=> SegLen = 0
         /\ Base + SegLen <= Len(content)
         /\ segment = LastSegment => Base + SegLen = Len(content)
         /\ segment # LastSegment => /\ segment + 1 <= LastSegment
                                     /\ (segment + 1) * SegmentSize = Base + SegLen
  <1>1. Base = segment * SegmentSize
    BY DEF Base
  <1>2. /\ Len(content) \in Nat /\ SegmentSize \in Nat \ {0}
        /\ DOMAIN content = 1 .. Len(content)
    BY NumberShapes DEF Chunks
  <1>3. segment \in Nat /\ segment <= LastSegment
    BY DEF TypeOK, DedupInPlace
  <1>4. /\ segment * SegmentSize \in Nat
        /\ SegmentChunks(segment) \in Seq(Chunks)
        /\ Len(SegmentChunks(segment)) \in 0 .. SegmentSize
        /\ \A i \in 1 .. Len(SegmentChunks(segment)) :
             SegmentChunks(segment)[i] = segment * SegmentSize + i
        /\ segment * SegmentSize + Len(SegmentChunks(segment)) <= Len(content)
        /\ segment = LastSegment =>
             segment * SegmentSize + Len(SegmentChunks(segment)) = Len(content)
        /\ segment # LastSegment =>
             /\ segment + 1 <= LastSegment
             /\ (segment + 1) * SegmentSize
                  = segment * SegmentSize + Len(SegmentChunks(segment))
    BY <1>2, <1>3, SegmentFacts, ZenonT(60)
  <1>5. SegmentChunks(segment) = <<>> <=> Len(SegmentChunks(segment)) = 0
    BY <1>4, SeqFacts
  <1> QED
    BY <1>1, <1>2, <1>4, <1>5 DEF SegLen

\* What is sent has been looked up.
LEMMA DedupNumbers ==
  ASSUME TypeOK, DedupInPlace
  PROVE  /\ LookedUp \in Nat /\ Sent \in Nat
         /\ Sent <= LookedUp /\ LookedUp <= Len(content)
  <1>1. Len(content) \in Nat /\ cursor \in Nat
    BY NumberShapes DEF TypeOK
  <1>2. CASE dedup = "done"
    BY <1>1, <1>2 DEF LookedUp, Sent, Base
  <1>3. CASE dedup # "done"
    <2>1. /\ Base \in Nat /\ SegLen \in Nat
          /\ Base + SegLen <= Len(content)
      BY <1>3, MySegment
    <2>2. CASE dedup = "lookup"
      <3>1. cursor \in 1 .. SegLen
        BY <2>2 DEF DedupInPlace
      <3> QED
        BY <1>1, <2>1, <2>2, <3>1 DEF LookedUp, Sent
    <2>3. CASE dedup = "send"
      <3>1. cursor \in 1 .. SegLen + 2
        BY <2>3 DEF DedupInPlace
      <3> QED
        BY <1>1, <2>1, <2>3, <3>1 DEF LookedUp, Sent
    <2>4. CASE dedup # "send" /\ dedup # "lookup"
      BY <1>1, <2>1, <2>4 DEF LookedUp, Sent
    <2> QED
      BY <2>2, <2>3, <2>4
  <1> QED
    BY <1>2, <1>3

\* The other threads do not move the dedup thread.
LEMMA OthersKeepNumbers ==
  ASSUME TypeOK, DedupInPlace, UNCHANGED <<content, segment, cursor>>,
         dedup' = dedup
  PROVE  /\ LookedUp' = LookedUp /\ Sent' = Sent /\ SegLen' = SegLen
         /\ dedup' # "done" => segment' <= LastSegment'
         /\ dedup' = "lock" => cursor' = 1
         /\ dedup' = "lookup" => cursor' \in 1 .. SegLen'
         /\ dedup' = "send" => cursor' \in 1 .. SegLen' + 2
         /\ dedup' = "lookup" <=> dedup = "lookup"
  <1>1. SegLen' = SegLen /\ LastSegment' = LastSegment
    BY DEF SegLen, SegmentChunks, LastSegment
  <1>2. Base' = Base
    BY DEF Base
  <1>3. LookedUp' = LookedUp /\ Sent' = Sent
    BY <1>1, <1>2 DEF LookedUp, Sent
  <1> QED
    BY <1>1, <1>3 DEF DedupInPlace

\* Taking the lock moves no chunk.
LEMMA LockStep ==
  ASSUME TypeOK, DedupInPlace, DedupLock \/ EmptySegment
  PROVE  /\ DedupInPlace' /\ LookedUp' = LookedUp /\ Sent' = Sent
  <1>1. UNCHANGED <<content, segment, cursor, filter>>
    BY DEF DedupLock, EmptySegment, jobVars, filterVars
  <1>2. SegLen' = SegLen /\ LastSegment' = LastSegment
    BY <1>1 DEF SegLen, SegmentChunks, LastSegment
  <1>3. dedup # "done" /\ dedup' # "done"
    BY DEF DedupLock, EmptySegment
  <1>4. Base' = Base
    BY <1>1, <1>3 DEF Base
  <1>5. SegLen \in Nat /\ (SegmentChunks(segment) = <<>> <=> SegLen = 0) /\ Base \in Nat
    BY <1>3, MySegment
  <1>6. CASE DedupLock
    <2>1. SegLen # 0 /\ dedup = "lock" /\ cursor = 1 /\ lock = "free"
      BY <1>5, <1>6 DEF DedupLock, DedupInPlace
    <2>2. dedup' = "lookup" /\ lock' = "dedup"
      BY <1>6 DEF DedupLock
    <2>3. DedupInPlace'
      BY <1>1, <1>2, <1>5, <2>1, <2>2 DEF DedupInPlace
    <2> QED
      BY <1>1, <1>2, <1>4, <1>5, <2>1, <2>2, <2>3 DEF LookedUp, Sent
  <1>8. CASE EmptySegment
    <2>1. /\ SegLen = 0 /\ dedup = "lock" /\ dedup' = "send"
          /\ cursor = 1 /\ lock' = lock
      BY <1>5, <1>8 DEF EmptySegment, DedupInPlace
    <2>2. DedupInPlace'
      BY <1>1, <1>2, <2>1 DEF DedupInPlace
    <2> QED
      BY <1>1, <1>2, <1>4, <2>1, <2>2 DEF LookedUp, Sent
  <1> QED
    BY <1>6, <1>8

\* A lookup is of the next chunk; nobody decides in the meantime.
LEMMA LookStep ==
  ASSUME TypeOK, DedupInPlace, NEW c, Looked(c)
  PROVE  /\ DedupInPlace' /\ LookedUp' = LookedUp + 1 /\ Sent' = Sent
         /\ SegmentChunks(segment)[cursor] = LookedUp + 1
         /\ LookedUp + 1 \in Chunks /\ filter # "decide"
  <1>1. UNCHANGED <<content, segment, filter>> /\ dedup = "lookup"
    BY DEF Looked, jobVars, filterVars
  <1>2. SegLen' = SegLen /\ LastSegment' = LastSegment
    BY <1>1 DEF SegLen, SegmentChunks, LastSegment
  <1>3. cursor \in 1 .. SegLen /\ lock = "dedup" /\ filter # "decide"
    BY <1>1 DEF DedupInPlace
  <1>4. /\ Base \in Nat /\ SegLen \in Nat /\ Base + SegLen <= Len(content)
        /\ SegmentChunks(segment)[cursor] = Base + cursor
    BY <1>1, <1>3, MySegment
  <1>5. \/ /\ cursor < SegLen /\ cursor' = cursor + 1
           /\ dedup' = "lookup" /\ lock' = "dedup"
        \/ /\ ~(cursor < SegLen) /\ cursor' = 1
           /\ dedup' = "send" /\ lock' = "free"
    BY DEF Looked, SegLen
  <1>6. Base' = Base
    BY <1>1, <1>5 DEF Base
  <1>7. DedupInPlace'
    BY <1>1, <1>2, <1>3, <1>4, <1>5 DEF DedupInPlace
  <1>8. LookedUp = Base + (cursor - 1) /\ Sent = Base
    BY <1>1, <1>4 DEF LookedUp, Sent
  <1>9. LookedUp' = LookedUp + 1 /\ Sent' = Sent
    BY <1>2, <1>3, <1>4, <1>5, <1>6, <1>8 DEF LookedUp, Sent
  <1>10. LookedUp + 1 \in Chunks
    BY <1>3, <1>4, <1>8, NumberShapes
  <1> QED
    BY <1>3, <1>4, <1>7, <1>8, <1>9, <1>10

\* The items of a segment: its chunks between two marks.
LEMMA ItemFacts ==
  ASSUME NEW S, NEW q \in Seq(S), NEW x \in S, NEW y \in S
  PROVE  /\ Len(<<x>> \o q \o <<y>>) = Len(q) + 2
         /\ (<<x>> \o q \o <<y>>)[1] = x
         /\ (<<x>> \o q \o <<y>>)[Len(q) + 2] = y
         /\ \A i \in 1 .. Len(q) : (<<x>> \o q \o <<y>>)[i + 1] = q[i]
  <1> DEFINE a == <<x>>
             b == <<y>>
             p == a \o q
  <1>1. a \in Seq(S) /\ Len(a) = 1 /\ a[1] = x /\ b \in Seq(S) /\ Len(b) = 1 /\ b[1] = y
    OBVIOUS
  <1>2. Len(q) \in Nat
    BY SeqFacts
  <1> HIDE DEF a, b
  <1>3. /\ p \in Seq(S) /\ Len(p) = Len(a) + Len(q)
        /\ \A i \in 1 .. Len(a) + Len(q) : p[i] = IF i <= Len(a) THEN a[i] ELSE q[i - Len(a)]
    BY <1>1, ConcatProperties
  <1> HIDE DEF p
  <1>4. /\ Len(p \o b) = Len(p) + Len(b)
        /\ \A i \in 1 .. Len(p) + Len(b) : (p \o b)[i] = IF i <= Len(p) THEN p[i] ELSE b[i - Len(p)]
    <2>1. p \in Seq(S) /\ b \in Seq(S)
      BY <1>1, <1>3
    <2> QED
      BY <2>1, ConcatProperties
  <1>5. Len(p) = Len(q) + 1 /\ Len(p \o b) = Len(q) + 2
    BY <1>1, <1>2, <1>3, <1>4
  <1>6. p[1] = x /\ \A i \in 1 .. Len(q) : p[i + 1] = q[i]
    BY <1>1, <1>2, <1>3
  <1>7. \A i \in 1 .. Len(q) + 1 : (p \o b)[i] = p[i]
    BY <1>1, <1>2, <1>4, <1>5
  <1>8. (p \o b)[Len(q) + 2] = y
    <2>1. Len(q) + 2 \in 1 .. Len(p) + Len(b) /\ ~(Len(q) + 2 <= Len(p)) /\ Len(q) + 2 - Len(p) = 1
      BY <1>1, <1>2, <1>5
    <2> QED
      BY <1>1, <1>4, <2>1
  <1>9. (p \o b)[1] = x
    <2>1. 1 \in 1 .. Len(q) + 1
      BY <1>2
    <2> QED
      BY <1>6, <1>7, <2>1
  <1>10. ASSUME NEW i \in 1 .. Len(q) PROVE (p \o b)[i + 1] = q[i]
    <2>1. i + 1 \in 1 .. Len(q) + 1
      BY <1>2
    <2> QED
      BY <1>6, <1>7, <2>1
  <1> QED
    BY <1>5, <1>8, <1>9, <1>10 DEF p, a, b

\* An item that is sent is a mark or the next chunk.
LEMMA SendStep ==
  ASSUME TypeOK, DedupInPlace, SendItem
  PROVE  /\ DedupInPlace' /\ LookedUp' = LookedUp
         /\ \E x \in Items :
              /\ dedup_queue' = Append(dedup_queue, x)
              /\ IF IsChunk(x) THEN x = Sent + 1 /\ Sent' = Sent + 1 ELSE Sent' = Sent
  <1> DEFINE q == SegmentChunks(segment)
             items == <<SEGMENT_START>> \o q \o <<SEGMENT_END>>
             x == items[cursor]
  <1>1. /\ UNCHANGED <<content, filter, lock>> /\ dedup = "send"
        /\ dedup_queue' = Append(dedup_queue, x)
        /\ IF cursor < Len(items)
           THEN cursor' = cursor + 1 /\ UNCHANGED <<segment, dedup>>
           ELSE /\ cursor' = 1 /\ segment' = segment + 1
                /\ dedup' = IF segment = LastSegment THEN "done" ELSE "lock"
    BY DEF SendItem, jobVars, filterVars
  <1>2. LastSegment' = LastSegment
    BY <1>1 DEF LastSegment
  <1>3. /\ cursor \in 1 .. SegLen + 2 /\ lock # "dedup" /\ segment <= LastSegment
        /\ (lock = "filter" <=> filter = "decide")
    BY <1>1 DEF DedupInPlace
  <1>4. /\ Base = segment * SegmentSize /\ Base \in Nat /\ SegLen \in Nat
        /\ q \in Seq(Chunks) /\ SegLen = Len(q)
        /\ \A i \in 1 .. SegLen : q[i] = Base + i
        /\ Base + SegLen <= Len(content)
        /\ segment = LastSegment => Base + SegLen = Len(content)
        /\ segment # LastSegment => /\ segment + 1 <= LastSegment
                                    /\ (segment + 1) * SegmentSize = Base + SegLen
    BY <1>1, MySegment DEF SegLen
  <1>5. /\ Len(items) = SegLen + 2 /\ items[1] = SEGMENT_START
        /\ items[SegLen + 2] = SEGMENT_END
        /\ \A i \in 1 .. SegLen : items[i + 1] = Base + i
    <2>1. q \in Seq(Items) /\ SEGMENT_START \in Items /\ SEGMENT_END \in Items
      BY <1>4, SeqMonotonic DEF Items
    <2> HIDE DEF q
    <2>2. /\ Len(items) = Len(q) + 2 /\ items[1] = SEGMENT_START
          /\ items[Len(q) + 2] = SEGMENT_END
          /\ \A i \in 1 .. Len(q) : items[i + 1] = q[i]
      BY <2>1, ItemFacts
    <2> QED
      BY <1>4, <2>2
  <1> HIDE DEF items
  <1>6. LookedUp = Base + SegLen /\ Sent = Base + (IF cursor > 1 THEN cursor - 2 ELSE 0)
    BY <1>1 DEF LookedUp, Sent
  <1>7. CASE cursor < SegLen + 2
    <2>1. cursor' = cursor + 1 /\ segment' = segment /\ dedup' = "send"
      BY <1>1, <1>5, <1>7
    <2>2. SegLen' = SegLen /\ Base' = Base
      BY <1>1, <2>1 DEF SegLen, Base, SegmentChunks
    <2>3. DedupInPlace'
      BY <1>1, <1>2, <1>3, <1>4, <1>7, <2>1, <2>2 DEF DedupInPlace
    <2>4. LookedUp' = LookedUp /\ Sent' = Base + (cursor - 1)
      BY <1>3, <1>4, <1>6, <2>1, <2>2 DEF LookedUp, Sent
    <2>5. CASE cursor = 1
      BY <1>1, <1>4, <1>5, <1>6, <2>3, <2>4, <2>5 DEF Items, IsChunk, SEGMENT_START
    <2>6. CASE cursor # 1
      <3>1. /\ x = Base + (cursor - 1) /\ cursor - 1 \in 1 .. SegLen
            /\ Sent = Base + (cursor - 2)
        BY <1>3, <1>4, <1>5, <1>6, <1>7, <2>6
      <3> HIDE DEF x
      <3>2. Len(content) \in Nat /\ Chunks = 1 .. Len(content)
        BY NumberShapes
      <3>3. x \in Chunks /\ x > 0 /\ x = Sent + 1 /\ Base + (cursor - 1) = Sent + 1
        <4>1. /\ Base \in Nat /\ SegLen \in Nat /\ Base + SegLen <= Len(content)
              /\ cursor \in Nat
          BY <1>4 DEF TypeOK
        <4> QED
          BY <3>1, <3>2, <4>1
      <3>4. Sent' = Sent + 1
        BY <2>4, <3>3
      <3>5. IsChunk(x) /\ x \in Items
        BY <3>3 DEF IsChunk, Items
      <3> QED
        BY <1>1, <1>6, <2>3, <2>4, <3>3, <3>4, <3>5
    <2> QED
      BY <2>5, <2>6
  <1>8. CASE ~(cursor < SegLen + 2)
    <2>1. cursor = SegLen + 2 /\ x = SEGMENT_END /\ Sent = Base + SegLen
      BY <1>3, <1>4, <1>5, <1>6, <1>8
    <2>2. /\ cursor' = 1 /\ segment' = segment + 1
          /\ dedup' = IF segment = LastSegment THEN "done" ELSE "lock"
      BY <1>1, <1>5, <1>8
    <2>3. Base' = Base + SegLen
      <3>1. CASE segment = LastSegment
        BY <1>1, <1>4, <2>2, <3>1 DEF Base
      <3>2. CASE segment # LastSegment
        BY <1>1, <1>4, <2>2, <3>2 DEF Base
      <3> QED
        BY <3>1, <3>2
    <2>4. DedupInPlace'
      BY <1>1, <1>2, <1>3, <1>4, <2>2 DEF DedupInPlace
    <2>5. LookedUp' = Base' /\ Sent' = Base'
      BY <1>4, <2>2, <2>3 DEF LookedUp, Sent
    <2> QED
      BY <1>1, <1>4, <1>6, <2>1, <2>3, <2>4, <2>5 DEF Items, IsChunk, SEGMENT_END
  <1> QED
    BY <1>7, <1>8

-----------------------------------------------------------------------------
(* Order: what is on its way stays in order when items are added at its    *)
(* end, moved within it, and taken from its front.                         *)

\* The next chunk at the end, or a mark.
LEMMA OrderedAppend ==
  ASSUME NEW q \in Seq(Int), NEW from \in Nat, NEW to \in Nat, NEW x \in Int,
         Ordered(q, from, to)
  PROVE  /\ IsChunk(x) /\ x = to + 1 => Ordered(Append(q, x), from, to + 1)
         /\ ~IsChunk(x) => Ordered(Append(q, x), from, to)
  <1> DEFINE l == Len(q)
             p == Append(q, x)
  <1>1. /\ l \in Nat /\ DOMAIN q = 1 .. l /\ \A i \in 1 .. l : q[i] \in Int
        /\ DOMAIN p = 1 .. l + 1 /\ p[l + 1] = x
        /\ \A i \in 1 .. l : p[i] = q[i]
    BY SeqFacts, AppendFacts
  <1> HIDE DEF l, p
  <1>2. /\ from <= to
        /\ \A i \in 1 .. l : IsChunk(q[i]) => from < q[i] /\ q[i] <= to
        /\ \A i, j \in 1 .. l : i < j /\ IsChunk(q[i]) /\ IsChunk(q[j]) => q[i] < q[j]
        /\ \A n \in from + 1 .. to : \E i \in 1 .. l : q[i] = n
    BY <1>1 DEF Ordered
  <1>3. ASSUME IsChunk(x), x = to + 1 PROVE Ordered(p, from, to + 1)
    <2>1. \A i \in 1 .. l + 1 : IsChunk(p[i]) => from < p[i] /\ p[i] <= to + 1
      <3> SUFFICES ASSUME NEW i \in 1 .. l + 1, IsChunk(p[i])
                   PROVE  from < p[i] /\ p[i] <= to + 1
        OBVIOUS
      <3>1. CASE i = l + 1
        BY <1>1, <1>2, <1>3, <3>1
      <3>2. CASE i # l + 1
        <4>1. i \in 1 .. l /\ p[i] = q[i] /\ q[i] \in Int
          BY <1>1, <3>2
        <4> QED
          BY <1>2, <4>1
      <3> QED
        BY <3>1, <3>2
    <2>2. \A i, j \in 1 .. l + 1 : i < j /\ IsChunk(p[i]) /\ IsChunk(p[j]) => p[i] < p[j]
      <3> SUFFICES ASSUME NEW i \in 1 .. l + 1, NEW j \in 1 .. l + 1, i < j,
                          IsChunk(p[i]), IsChunk(p[j])
                   PROVE  p[i] < p[j]
        OBVIOUS
      <3>1. i \in 1 .. l /\ p[i] = q[i] /\ q[i] \in Int
        BY <1>1
      <3>2. CASE j = l + 1
        <4>1. q[i] <= to /\ p[j] = to + 1
          BY <1>1, <1>2, <1>3, <3>1, <3>2
        <4> QED
          BY <3>1, <4>1
      <3>3. CASE j # l + 1
        <4>1. j \in 1 .. l /\ p[j] = q[j]
          BY <1>1, <3>3
        <4> QED
          BY <1>2, <3>1, <4>1
      <3> QED
        BY <3>2, <3>3
    <2>3. \A n \in from + 1 .. to + 1 : \E i \in 1 .. l + 1 : p[i] = n
      <3> SUFFICES ASSUME NEW n \in from + 1 .. to + 1
                   PROVE  \E i \in 1 .. l + 1 : p[i] = n
        OBVIOUS
      <3>1. CASE n = to + 1
        BY <1>1, <1>3, <3>1
      <3>2. CASE n # to + 1
        <4>1. n \in from + 1 .. to
          BY <3>2
        <4>2. PICK i \in 1 .. l : q[i] = n
          BY <1>2, <4>1
        <4> QED
          BY <1>1, <4>2
      <3> QED
        BY <3>1, <3>2
    <2> QED
      BY <1>1, <1>2, <2>1, <2>2, <2>3 DEF Ordered
  <1>4. ASSUME ~IsChunk(x) PROVE Ordered(p, from, to)
    <2>1. \A i \in 1 .. l + 1 : IsChunk(p[i]) => i \in 1 .. l /\ p[i] = q[i]
      BY <1>1, <1>4
    <2>2. \A i \in 1 .. l + 1 : IsChunk(p[i]) => from < p[i] /\ p[i] <= to
      BY <1>2, <2>1
    <2>3. \A i, j \in 1 .. l + 1 : i < j /\ IsChunk(p[i]) /\ IsChunk(p[j]) => p[i] < p[j]
      BY <1>2, <2>1
    <2>4. \A n \in from + 1 .. to : \E i \in 1 .. l + 1 : p[i] = n
      <3> SUFFICES ASSUME NEW n \in from + 1 .. to
                   PROVE  \E i \in 1 .. l + 1 : p[i] = n
        OBVIOUS
      <3>1. PICK i \in 1 .. l : q[i] = n
        BY <1>2
      <3> QED
        BY <1>1, <3>1
    <2> QED
      BY <1>1, <1>2, <2>2, <2>3, <2>4 DEF Ordered
  <1> QED
    BY <1>3, <1>4 DEF p

\* The first chunk is the next one.
LEMMA OrderedTail ==
  ASSUME NEW q \in Seq(Int), NEW from \in Nat, NEW to \in Nat,
         q # <<>>, Ordered(q, from, to)
  PROVE  /\ IsChunk(Head(q)) => Head(q) = from + 1 /\ Ordered(Tail(q), from + 1, to)
         /\ ~IsChunk(Head(q)) => Ordered(Tail(q), from, to)
  <1> DEFINE l == Len(q)
             p == Tail(q)
  <1>1. l \in Nat \ {0} /\ DOMAIN q = 1 .. l /\ \A i \in 1 .. l : q[i] \in Int
    BY SeqFacts, EmptySeq
  <1>2. DOMAIN p = 1 .. l - 1 /\ \A i \in 1 .. l - 1 : p[i] = q[i + 1]
    <2>1. p \in Seq(Int) /\ Len(p) = l - 1 /\ \A i \in 1 .. Len(p) : p[i] = q[i + 1]
      BY HeadTailProperties
    <2> QED
      BY <2>1, SeqFacts
  <1>3. Head(q) = q[1]
    BY DEF Head
  <1> HIDE DEF l, p
  <1>4. /\ from <= to
        /\ \A i \in 1 .. l : IsChunk(q[i]) => from < q[i] /\ q[i] <= to
        /\ \A i, j \in 1 .. l : i < j /\ IsChunk(q[i]) /\ IsChunk(q[j]) => q[i] < q[j]
        /\ \A n \in from + 1 .. to : \E i \in 1 .. l : q[i] = n
    BY <1>1 DEF Ordered
  <1>5. \A i, j \in 1 .. l - 1 : i < j /\ IsChunk(p[i]) /\ IsChunk(p[j]) => p[i] < p[j]
    <2> SUFFICES ASSUME NEW i \in 1 .. l - 1, NEW j \in 1 .. l - 1, i < j,
                        IsChunk(p[i]), IsChunk(p[j])
                 PROVE  p[i] < p[j]
      OBVIOUS
    <2>1. i + 1 \in 1 .. l /\ j + 1 \in 1 .. l /\ i + 1 < j + 1
      BY <1>1
    <2>2. p[i] = q[i + 1] /\ p[j] = q[j + 1]
      BY <1>2
    <2> QED
      BY <1>4, <2>1, <2>2
  <1>6. ASSUME NEW n \in from + 1 .. to, n # q[1]
        PROVE  \E i \in 1 .. l - 1 : p[i] = n
    <2>1. PICK i \in 1 .. l : q[i] = n
      BY <1>4
    <2>2. i - 1 \in 1 .. l - 1 /\ (i - 1) + 1 = i
      BY <1>1, <1>6, <2>1
    <2> QED
      BY <1>2, <2>1, <2>2
  <1>7. ASSUME IsChunk(q[1]) PROVE q[1] = from + 1 /\ Ordered(p, from + 1, to)
    <2>1. 1 \in 1 .. l /\ from < q[1] /\ q[1] <= to /\ q[1] \in Int
      BY <1>1, <1>4, <1>7
    <2>2. q[1] = from + 1
      <3>1. PICK i \in 1 .. l : q[i] = from + 1
        <4>1. from + 1 \in from + 1 .. to
          BY <2>1
        <4> QED
          BY <1>4, <4>1
      <3>2. IsChunk(q[i])
        BY <3>1 DEF IsChunk
      <3>3. i # 1 => q[1] < q[i]
        <4> SUFFICES ASSUME i # 1 PROVE q[1] < q[i]
          OBVIOUS
        <4>1. 1 < i
          BY <1>1
        <4> QED
          BY <1>4, <1>7, <2>1, <3>2, <4>1
      <3> QED
        BY <2>1, <3>1, <3>3
    <2>3. ASSUME NEW i \in 1 .. l - 1, IsChunk(p[i])
          PROVE  from + 1 < p[i] /\ p[i] <= to
      <3>1. i + 1 \in 1 .. l /\ 1 < i + 1 /\ p[i] = q[i + 1]
        BY <1>1, <1>2
      <3>2. q[1] < q[i + 1] /\ q[i + 1] <= to
        BY <1>4, <1>7, <2>1, <2>3, <3>1
      <3> QED
        BY <2>2, <3>1, <3>2
    <2>4. \A n \in from + 1 + 1 .. to : \E i \in 1 .. l - 1 : p[i] = n
      <3> SUFFICES ASSUME NEW n \in from + 1 + 1 .. to
                   PROVE  \E i \in 1 .. l - 1 : p[i] = n
        OBVIOUS
      <3>1. n \in from + 1 .. to /\ n # q[1]
        BY <2>2
      <3> QED
        BY <1>6, <3>1
    <2> QED
      BY <1>2, <1>5, <2>1, <2>2, <2>3, <2>4 DEF Ordered
  <1>8. ASSUME ~IsChunk(q[1]) PROVE Ordered(p, from, to)
    <2>1. ASSUME NEW i \in 1 .. l - 1, IsChunk(p[i])
          PROVE  from < p[i] /\ p[i] <= to
      <3>1. i + 1 \in 1 .. l /\ p[i] = q[i + 1]
        BY <1>1, <1>2
      <3> QED
        BY <1>4, <2>1, <3>1
    <2>2. \A n \in from + 1 .. to : n # q[1]
      BY <1>8 DEF IsChunk
    <2> QED
      BY <1>2, <1>4, <1>5, <1>6, <2>1, <2>2 DEF Ordered
  <1> QED
    BY <1>3, <1>7, <1>8 DEF p


-----------------------------------------------------------------------------
(* The rewrite thread moves items and sets flags, and no more.             *)

\* The ids, and who is a duplicate, are not for the rewrite thread to change.
ChunksKept ==
  /\ ck' \in [Chunks -> [id : Ids, dup : BOOLEAN, denied : BOOLEAN,
                         ooo : BOOLEAN, sparse : BOOLEAN]]
  /\ \A n \in Chunks : ck'[n].id = ck[n].id /\ ck'[n].dup = ck[n].dup

\* What har_check leaves of a chunk.
LEMMA HarCheckKeeps ==
  ASSUME NEW I, NEW c \in [id : I, dup : BOOLEAN, denied : BOOLEAN,
                           ooo : BOOLEAN, sparse : BOOLEAN]
  PROVE  /\ HarCheck(c) \in [id : I, dup : BOOLEAN, denied : BOOLEAN,
                             ooo : BOOLEAN, sparse : BOOLEAN]
         /\ HarCheck(c).id = c.id /\ HarCheck(c).dup = c.dup
  BY DEF HarCheck

\* What is popped keeps its ids.
LEMMA PoppedKeeps ==
  ASSUME TypeOK, NEW q, NEW ooo, ck' = Popped(q, ooo)
  PROVE  ChunksKept
  <1> DEFINE R == [id : Ids, dup : BOOLEAN, denied : BOOLEAN, ooo : BOOLEAN, sparse : BOOLEAN]
  <1>1. \A n \in Chunks : ck[n] \in R
    BY DEF TypeOK
  <1>2. ASSUME NEW n \in Chunks
        PROVE  /\ ck'[n] \in R /\ ck'[n].id = ck[n].id /\ ck'[n].dup = ck[n].dup
    <2> DEFINE c == [ck[n] EXCEPT !.ooo = @ \/ n \in ooo]
    <2>1. c \in R /\ c.id = ck[n].id /\ c.dup = ck[n].dup
      BY <1>1
    <2>2. ck'[n] = IF n \in ToSet(q) THEN HarCheck(c) ELSE ck[n]
      BY DEF Popped
    <2> HIDE DEF c
    <2>3. HarCheck(c) \in R /\ HarCheck(c).id = c.id /\ HarCheck(c).dup = c.dup
      BY <2>1, HarCheckKeeps
    <2> HIDE DEF R
    <2> QED
      BY <1>1, <2>1, <2>2, <2>3
  <1>3. ck' = [n \in Chunks |-> ck'[n]]
    BY DEF Popped
  <1> HIDE DEF R
  <1>4. ck' \in [Chunks -> R]
    BY <1>2, <1>3
  <1> QED
    BY <1>2, <1>4 DEF ChunksKept, R

\* A buffer that is drained or kept.
LEMMA DrainKeeps ==
  ASSUME TypeOK
  PROVE  /\ \A q, ooo, rest : Drain(q, ooo, rest) =>
              ChunksKept /\ draining' = q /\ chunk_queue' = rest
         /\ \A q : Keep(q) => ChunksKept /\ draining' = draining /\ chunk_queue' = q
         /\ ck' = ck => ChunksKept
  <1>1. ck' = ck => ChunksKept
    BY DEF TypeOK, ChunksKept
  <1>2. ASSUME NEW q, NEW ooo, NEW rest, Drain(q, ooo, rest)
        PROVE  ChunksKept /\ draining' = q /\ chunk_queue' = rest
    BY <1>2, PoppedKeeps DEF Drain
  <1> QED
    BY <1>1, <1>2 DEF Keep

\* A full buffer has a chunk to be judged.
LEMMA OldestChunk ==
  ASSUME NEW q \in Seq(Items), Num(q) >= RewriteSize, RewriteSize \in Nat \ {0}
  PROVE  Min({i \in DOMAIN q : IsChunk(q[i])}) \in 1 .. Len(q)
  <1> DEFINE T == {i \in DOMAIN q : IsChunk(q[i])}
  <1>1. Cardinality(T) # 0
    BY DEF Num
  <1>2. T # {}
    BY <1>1, FS_EmptySet
  <1>3. DOMAIN q = 1 .. Len(q) /\ Len(q) \in Nat
    BY SeqFacts
  <1>4. T \in SUBSET Nat
    BY <1>3
  <1> HIDE DEF T
  <1>5. Min(T) \in T
    BY <1>2, <1>4, MinOfPlaces
  <1> QED
    BY <1>3, <1>5 DEF T

\* What was drained, then what is kept, is the buffer and the new item.
LEMMA ItemMoves ==
  ASSUME TypeOK, LateIsLast, NEW x \in Items, draining = <<>>,
         NoRewrite(x) \/ CflRewrite(x) \/ CapRewrite(x) \/ CbrRewrite(x)
  PROVE  /\ draining' \in Seq(Items) /\ chunk_queue' \in Seq(Items)
         /\ Joined(draining', chunk_queue') = Append(chunk_queue, x)
         /\ ChunksKept
         /\ algo = "no" => chunk_queue' = <<>> /\ Len(draining') <= 1
  <1>1. /\ chunk_queue \in Seq(Items) /\ <<>> \in Seq(Items) /\ <<x>> \in Seq(Items)
        /\ Append(chunk_queue, x) \in Seq(Items)
        /\ Append(chunk_queue, x) = Joined(chunk_queue, <<x>>)
        /\ Joined(Append(chunk_queue, x), <<>>) = Append(chunk_queue, x)
        /\ Joined(<<>>, Append(chunk_queue, x)) = Append(chunk_queue, x)
    <2>1. chunk_queue \in Seq(Items)
      BY DEF TypeOK
    <2>2. Append(chunk_queue, x) \in Seq(Items)
      BY <2>1, AppendFacts
    <2> QED
      BY <2>1, <2>2, JoinAppend, JoinEmpty, EmptySeq
  <1>2. CASE NoRewrite(x)
    <2>1. algo = "no" /\ draining' = <<x>> /\ chunk_queue' = chunk_queue /\ ck' = ck
      BY <1>2 DEF NoRewrite
    <2>2. chunk_queue = <<>>
      BY <2>1 DEF LateIsLast
    <2>3. Joined(<<x>>, <<>>) = <<x>> /\ Joined(<<>>, <<x>>) = <<x>> /\ Len(<<x>>) <= 1
      <3>1. Len(<<x>>) <= 1
        OBVIOUS
      <3> QED
        BY <1>1, <3>1, JoinEmpty, Zenon
    <2> QED
      BY <1>1, <2>1, <2>2, <2>3, DrainKeeps
  <1>3. CASE CflRewrite(x)
    <2>1. \/ Drain(chunk_queue, CflMarks(chunk_queue), <<x>>)
          \/ Keep(Append(chunk_queue, x))
      BY <1>3 DEF CflRewrite
    <2>2. \/ draining' = chunk_queue /\ chunk_queue' = <<x>>
          \/ draining' = <<>> /\ chunk_queue' = Append(chunk_queue, x)
      BY <2>1, DrainKeeps
    <2>3. ChunksKept /\ algo # "no"
      BY <1>3, <2>1, DrainKeeps DEF CflRewrite
    <2> QED
      BY <1>1, <2>2, <2>3
  <1>4. CASE CapRewrite(x)
    <2> DEFINE q == Append(chunk_queue, x)
    <2>1. Drain(q, {n \in NotInTop(q) : ck[n].dup}, <<>>) \/ Keep(q)
      BY <1>4 DEF CapRewrite
    <2>2. \/ draining' = q /\ chunk_queue' = <<>>
          \/ draining' = <<>> /\ chunk_queue' = q
      BY <2>1, DrainKeeps
    <2>3. ChunksKept /\ algo # "no"
      BY <1>4, <2>1, DrainKeeps DEF CapRewrite
    <2> QED
      BY <1>1, <2>2, <2>3
  <1>5. CASE CbrRewrite(x)
    <2> DEFINE q == Append(chunk_queue, x)
               k == Min({i \in DOMAIN q : IsChunk(q[i])})
    <2>1. \/ Keep(q)
          \/ Num(q) >= RewriteSize
             /\ \E ooo : Drain(SubSeq(q, 1, k), ooo, SubSeq(q, k + 1, Len(q)))
      <3>1. CASE Num(q) < RewriteSize /\ Keep(q)
        BY <3>1
      <3>2. CASE /\ Num(q) >= RewriteSize
                 /\ \/ Drain(SubSeq(q, 1, k), {}, SubSeq(q, k + 1, Len(q)))
                    \/ Drain(SubSeq(q, 1, k), {q[k]}, SubSeq(q, k + 1, Len(q)))
        BY <3>2
      <3> HIDE DEF k
      <3> QED
        BY <1>5, <3>1, <3>2 DEF CbrRewrite, k
    <2>2. ChunksKept /\ algo # "no"
      BY <1>5, <2>1, DrainKeeps DEF CbrRewrite
    <2>3. CASE Keep(q)
      <3>1. draining' = <<>> /\ chunk_queue' = q
        BY <2>3, DrainKeeps
      <3> QED
        BY <1>1, <2>2, <3>1
    <2>4. CASE /\ Num(q) >= RewriteSize
               /\ \E ooo : Drain(SubSeq(q, 1, k), ooo, SubSeq(q, k + 1, Len(q)))
      <3>1. draining' = SubSeq(q, 1, k) /\ chunk_queue' = SubSeq(q, k + 1, Len(q))
        BY <2>4, DrainKeeps
      <3>2. q \in Seq(Items)
        BY <1>1
      <3>3. k \in 1 .. Len(q)
        BY <2>4, <3>2, OldestChunk, NumberShapes
      <3> HIDE DEF k, q
      <3>4. Len(q) \in Nat
        BY <3>2, SeqFacts
      <3>5. k \in 0 .. Len(q)
        BY <3>3, <3>4
      <3>6. /\ SubSeq(q, 1, k) \in Seq(Items) /\ SubSeq(q, k + 1, Len(q)) \in Seq(Items)
            /\ Joined(SubSeq(q, 1, k), SubSeq(q, k + 1, Len(q))) = q
        BY <3>2, <3>5, ConcatFacts DEF Joined
      <3> QED
        BY <2>2, <3>1, <3>6 DEF q
    <2> QED
      BY <2>1, <2>3, <2>4
  <1> QED
    BY <1>2, <1>3, <1>4, <1>5

\* The rewrite thread as the others see it: what is on its way stays.
LEMMA RewriteStep ==
  ASSUME TypeOK, LateIsLast, RewriteItem \/ RewriteEnd \/ PushDrained
  PROVE  /\ {dedup_queue', chunk_queue', draining', rewrite_queue'} \subseteq Seq(Items)
         /\ Len(dedup_queue') <= QueueSize /\ Len(rewrite_queue') <= QueueSize
         /\ OnTheWay' = OnTheWay /\ ChunksKept
         /\ late' \in Chunks \union {0} /\ rewrite' \in {"run", "end"}
  <1> DEFINE a == rewrite_queue
             b == draining
             c == chunk_queue
             d == dedup_queue
  <1>1. /\ a \in Seq(Items) /\ b \in Seq(Items) /\ c \in Seq(Items) /\ d \in Seq(Items)
        /\ Len(a) <= QueueSize /\ Len(d) <= QueueSize
        /\ <<>> \in Seq(Items) /\ QueueSize \in Nat
    BY EmptySeq, NumberShapes DEF TypeOK
  <1>2. /\ Len(a) \in Nat /\ Len(b) \in Nat /\ Len(d) \in Nat
        /\ b # <<>> => Head(b) \in Items /\ Tail(b) \in Seq(Items)
        /\ d # <<>> => /\ Head(d) \in Items /\ Tail(d) \in Seq(Items)
                       /\ Len(Tail(d)) = Len(d) - 1
    BY <1>1, HeadTailProperties, SeqFacts
  <1>3. CASE RewriteItem
    <2>1. /\ draining = <<>> /\ d # <<>> /\ dedup_queue' = Tail(d)
          /\ rewrite_queue' = a /\ late' = late /\ rewrite' = rewrite
      BY <1>3 DEF RewriteItem
    <2>2. Head(d) \in Items
      BY <1>2, <2>1
    <2>3. \/ NoRewrite(Head(d)) \/ CflRewrite(Head(d))
          \/ CapRewrite(Head(d)) \/ CbrRewrite(Head(d))
      BY <1>3 DEF RewriteItem
    <2>4. /\ draining' \in Seq(Items) /\ chunk_queue' \in Seq(Items)
          /\ Joined(draining', chunk_queue') = Append(c, Head(d)) /\ ChunksKept
      BY <2>1, <2>2, <2>3, ItemMoves
    <2>5. Joined(a, Joined(draining', Joined(chunk_queue', Tail(d))))
            = Joined(a, Joined(<<>>, Joined(c, d)))
      <3> DEFINE p == draining'
                 q == chunk_queue'
                 h == <<Head(d)>>
                 t == Tail(d)
      <3>1. /\ d = Joined(h, t) /\ h \in Seq(Items) /\ t \in Seq(Items) /\ Head(d) \in Items
        BY <1>1, <2>1, JoinSplit, Zenon
      <3>2. /\ p \in Seq(Items) /\ q \in Seq(Items) /\ a \in Seq(Items) /\ c \in Seq(Items)
            /\ Joined(p, q) = Joined(c, h)
        BY <1>1, <2>4, <3>1, JoinAppend, Zenon
      <3> HIDE DEF p, q, a, c, d, h, t
      <3>3. h \in Seq(Items) /\ t \in Seq(Items)
        BY <3>1
      <3>4. Joined(a, Joined(p, Joined(q, t))) = Joined(a, Joined(<<>>, Joined(c, Joined(h, t))))
        BY <3>2, <3>3, MoveIn
      <3>5. Joined(a, Joined(p, Joined(q, t))) = Joined(a, Joined(<<>>, Joined(c, d)))
        BY <3>1, <3>4, Zenon
      <3> QED
        BY <3>5 DEF p, q, t
    <2>6. OnTheWay' = OnTheWay
      BY <2>1, <2>5 DEF OnTheWay
    <2> QED
      BY <1>1, <1>2, <2>1, <2>4, <2>6 DEF TypeOK
  <1>4. CASE RewriteEnd
    <2>1. /\ draining = <<>> /\ draining' = c /\ chunk_queue' = <<>>
          /\ dedup_queue' = d /\ rewrite_queue' = a /\ late' = late /\ rewrite' = "end"
          /\ ChunksKept
      BY <1>4, DrainKeeps DEF RewriteEnd
    <2>2. Joined(a, Joined(c, Joined(<<>>, d))) = Joined(a, Joined(<<>>, Joined(c, d)))
      BY <1>1, MoveAll
    <2>3. OnTheWay' = OnTheWay
      BY <2>1, <2>2 DEF OnTheWay
    <2> QED
      BY <1>1, <2>1, <2>3 DEF TypeOK
  <1>5. CASE PushDrained
    <2>1. /\ b # <<>> /\ Len(a) < QueueSize
          /\ rewrite_queue' = Append(a, Head(b)) /\ draining' = Tail(b)
          /\ chunk_queue' = c /\ dedup_queue' = d /\ rewrite' = rewrite /\ ck' = ck
          /\ late' = IF algo = "no" /\ HAR /\ IsChunk(Head(b)) THEN Head(b) ELSE 0
      BY <1>5 DEF PushDrained
    <2>2. Joined(Append(a, Head(b)), Joined(Tail(b), Joined(c, d))) = Joined(a, Joined(b, Joined(c, d)))
      <3>1. Joined(c, d) \in Seq(Items)
        BY <1>1, JoinType, Zenon
      <3> QED
        BY <1>1, <2>1, <3>1, MoveOn
    <2>3. OnTheWay' = OnTheWay
      BY <2>1, <2>2 DEF OnTheWay
    <2>4. Append(a, Head(b)) \in Seq(Items) /\ Len(Append(a, Head(b))) = Len(a) + 1
      BY <1>1, <1>2, <2>1, AppendFacts
    <2>5. late' \in Chunks \union {0}
      BY <1>2, <2>1 DEF Items, IsChunk, SEGMENT_START, SEGMENT_END
    <2> QED
      BY <1>1, <1>2, <2>1, <2>3, <2>4, <2>5, DrainKeeps DEF TypeOK
  <1> QED
    BY <1>3, <1>4, <1>5

-----------------------------------------------------------------------------
(* Steps that only move items.                                             *)

\* What the steps leave alone that look up nothing and decide nothing.
Undisturbed ==
  /\ UNCHANGED <<content, algo, containers, open, kv, buffered, cache, recipe, place,
                 recently_unique, recently_rewritten>>
  /\ LookedUp' = LookedUp /\ ChunksKept
  /\ filter' = "decide" <=> filter = "decide"
  /\ filter = "decide" => s' = s

\* They keep what the invariant says of ids.
LEMMA UndisturbedKeeps ==
  ASSUME IInv, Undisturbed
  PROVE  /\ Counted' /\ StoreShape' /\ PointersHold' /\ DecidedHaveIds'
         /\ Undecided' /\ FirstCopyIsNew'
  <1>1. Chunks' = Chunks /\ \A n \in Chunks : ck'[n].id = ck[n].id /\ ck'[n].dup = ck[n].dup
    BY DEF Undisturbed, ChunksKept, Chunks
  <1>2. \A f : \A id : Holds(id, f)' <=> Holds(id, f)
    BY DEF Undisturbed, Holds
  <1>3. Counted'
    BY DEF IInv, Counted, Copies, Undisturbed
  <1>4. StoreShape'
    BY DEF IInv, StoreShape, Undisturbed
  <1>5. PointersHold'
    <2>1. RecipeResolvable'
      <3>1. RecipeResolvable
        BY DEF IInv, PointersHold
      <3>2. UNCHANGED <<content, containers, open, kv, buffered, recipe>>
        BY DEF Undisturbed
      <3>3. \A k \in DOMAIN recipe : Holds(recipe[k][2], recipe[k][1])'
        BY <3>1, <3>2 DEF RecipeResolvable, Holds
      <3>4. \A n \in Chunks : ck'[n].id # TEMPORARY_ID => Holds(ck[n].id, content[n])'
        BY <1>1, <3>1, <3>2 DEF RecipeResolvable, Holds
      <3>5. \A f \in Fps : \A id \in ToSet(buffered[f]) \ {TEMPORARY_ID} : Holds(id, f)'
        BY <3>1, <3>2 DEF RecipeResolvable, Holds
      <3>6. \A f \in DOMAIN kv : Holds(kv[f], f)'
        BY <3>1, <3>2 DEF RecipeResolvable, Holds
      <3> QED
        BY <1>1, <3>2, <3>3, <3>4, <3>5, <3>6 DEF RecipeResolvable
    <2>2. \A n \in Chunks' : n > LookedUp' => ck'[n].id = TEMPORARY_ID
      BY <1>1 DEF IInv, PointersHold, Undisturbed
    <2>3. filter' = "decide" =>
            /\ \A f \in DOMAIN recently_unique' : Holds(recently_unique[f], f)'
            /\ \A f \in DOMAIN recently_rewritten' : Holds(recently_rewritten[f], f)'
      BY DEF IInv, PointersHold, Undisturbed, Holds
    <2> QED
      BY <2>1, <2>2, <2>3 DEF PointersHold
  <1>6. s \in Seq(Chunks) /\ place \in Nat /\ Len(s) \in Nat /\ \A k \in 1 .. Len(s) : s[k] \in Chunks
    BY NumberShapes DEF IInv, TypeOK
  <1>7. DecidedHaveIds'
    <2> SUFFICES ASSUME filter' = "decide" PROVE DecidedHaveIds'
      BY DEF DecidedHaveIds
    <2>1. /\ filter = "decide" /\ s' = s /\ place' = place
          /\ place \in 1 .. Len(s) + 1
          /\ \A k \in 1 .. place - 1 : ck[s[k]].id # TEMPORARY_ID
      BY DEF IInv, Undisturbed, DecidedHaveIds
    <2>2. \A k \in 1 .. place - 1 : k \in 1 .. Len(s)
      BY <1>6, <2>1
    <2>3. \A k \in 1 .. place - 1 : ck'[s[k]].id # TEMPORARY_ID
      BY <1>1, <1>6, <2>1, <2>2
    <2> QED
      BY <2>1, <2>3 DEF DecidedHaveIds
  <1>8. Undecided'
    <2> SUFFICES ASSUME filter' = "decide" PROVE Undecided'
      BY DEF Undecided
    <2>1. /\ filter = "decide" /\ s' = s /\ place' = place
          /\ UNCHANGED <<content, recently_rewritten, buffered>>
          /\ place \in 1 .. Len(s) + 1
      BY DEF IInv, Undisturbed, DecidedHaveIds
    <2>2. \A k \in place .. Len(s) : k \in 1 .. Len(s)
      BY <1>6, <2>1
    <2>3. \A k \in place .. Len(s) :
            /\ content[s[k]] \in DOMAIN recently_rewritten =>
                 ck[s[k]].id <= recently_rewritten[content[s[k]]]
            /\ ck[s[k]].dup /\ ck[s[k]].id = TEMPORARY_ID =>
                 buffered[content[s[k]]][1] = TEMPORARY_ID
      BY <2>1 DEF IInv, Undecided
    <2>4. \A k \in place .. Len(s) : ck'[s[k]].id = ck[s[k]].id /\ ck'[s[k]].dup = ck[s[k]].dup
      BY <1>1, <1>6, <2>2
    <2> QED
      BY <2>1, <2>3, <2>4 DEF Undecided
  <1>9. FirstCopyIsNew'
    <2>1. \A m \in Len(recipe) + 1 .. LookedUp :
            /\ Decided(m)' <=> Decided(m)
            /\ FirstCopy(m)' <=> FirstCopy(m)
      BY DEF Undisturbed, Decided, FirstCopy
    <2>2. \A m \in Len(recipe) + 1 .. LookedUp : m \in Chunks
      BY NumberShapes, DedupNumbers DEF IInv
    <2> QED
      BY <1>1, <2>1, <2>2 DEF IInv, FirstCopyIsNew, Undisturbed
  <1> QED
    BY <1>3, <1>4, <1>5, <1>7, <1>8, <1>9

\* What is left to say of their types.
LEMMA UndisturbedTypes ==
  ASSUME TypeOK, Undisturbed,
         lock' \in {"free", "dedup", "filter"},
         dedup' \in {"lock", "lookup", "send", "done"},
         segment' \in Nat, cursor' \in Nat,
         {dedup_queue', chunk_queue', draining', rewrite_queue'} \subseteq Seq(Items),
         Len(dedup_queue') <= QueueSize, Len(rewrite_queue') <= QueueSize,
         late' \in Chunks \union {0}, rewrite' \in {"run", "end"},
         filter' \in {"pull", "collect", "lock", "decide", "done"}, s' \in Seq(Chunks)
  PROVE  TypeOK'
  <1>1. /\ Chunks' = Chunks /\ Ids' = Ids
        /\ UNCHANGED <<content, algo, containers, open, kv, buffered, cache, recipe, place,
                       recently_unique, recently_rewritten>>
    BY DEF Undisturbed, Chunks, Ids
  <1>2. Items' = Items
    BY <1>1 DEF Items
  <1>3. ck' \in [Chunks -> [id : Ids, dup : BOOLEAN, denied : BOOLEAN,
                            ooo : BOOLEAN, sparse : BOOLEAN]]
    BY DEF Undisturbed, ChunksKept
  <1> QED
    BY <1>1, <1>2, <1>3 DEF TypeOK

\* The items are integers.
LEMMA WayShape ==
  ASSUME TypeOK
  PROVE  OnTheWay \in Seq(Items) /\ OnTheWay \in Seq(Int) /\ Seq(Items) \subseteq Seq(Int)
  <1>1. Items \subseteq Int
    BY NumberShapes DEF Items, SEGMENT_START, SEGMENT_END
  <1>2. /\ dedup_queue \in Seq(Items) /\ chunk_queue \in Seq(Items)
        /\ draining \in Seq(Items) /\ rewrite_queue \in Seq(Items)
    BY DEF TypeOK
  <1>3. Joined(chunk_queue, dedup_queue) \in Seq(Items)
    BY <1>2, JoinType, Zenon
  <1>4. Joined(draining, Joined(chunk_queue, dedup_queue)) \in Seq(Items)
    BY <1>2, <1>3, JoinType, Zenon
  <1>5. OnTheWay \in Seq(Items)
    BY <1>2, <1>4, JoinType, Zenon DEF OnTheWay
  <1>6. Seq(Items) \subseteq Seq(Int)
    BY <1>1, SeqMonotonic
  <1> QED
    BY <1>5, <1>6

\* Nothing was taken, nothing sent, nothing written.
LEMMA FlowKept ==
  ASSUME Flow, UNCHANGED <<content, recipe>>, OnTheWay' = OnTheWay, Sent' = Sent,
         Taken' = Taken, Taken # 0 => s' = s
  PROVE  Flow'
  <1>1. Chunks' = Chunks
    BY DEF Chunks
  <1>2. \A k \in 1 .. Taken : Taken # 0 /\ s[k] = Len(recipe) + k
    BY DEF Flow
  <1>3. \A k \in 1 .. Taken' : s'[k] = Len(recipe') + k
    BY <1>2
  <1>4. Ordered(OnTheWay', Len(recipe') + Taken', Sent')
    BY DEF Flow
  <1> QED
    BY <1>1, <1>3, <1>4 DEF Flow

\* Taking the lock, an empty segment.
LEMMA LockInv ==
  ASSUME IInv, DedupLock \/ EmptySegment
  PROVE  IInv'
  <1>1. TypeOK /\ DedupInPlace /\ Flow /\ LateIsLast
    BY DEF IInv
  <1>2. DedupInPlace' /\ LookedUp' = LookedUp /\ Sent' = Sent
    BY <1>1, LockStep
  <1>3. /\ UNCHANGED <<jobVars, history, ck, buffered, cache, segment, cursor, dedup_queue,
                       rewriteVars, rewrite_queue, filterVars, storeVars, recipe>>
        /\ lock' \in {"free", "dedup", "filter"}
        /\ dedup' \in {"lock", "lookup", "send", "done"}
    BY <1>1 DEF DedupLock, EmptySegment, TypeOK
  <1>4. ChunksKept
    BY <1>1, <1>3, DrainKeeps
  <1>5. Undisturbed
    BY <1>2, <1>3, <1>4 DEF Undisturbed, jobVars, filterVars, storeVars
  <1>6. /\ UNCHANGED <<algo, content, recipe, segment, cursor, dedup_queue, chunk_queue, draining,
                       rewrite_queue, late, rewrite, filter, s>>
    BY <1>3 DEF jobVars, rewriteVars, filterVars
  <1>7. TypeOK'
    BY <1>1, <1>3, <1>5, <1>6, UndisturbedTypes DEF TypeOK
  <1>8. Flow'
    <2>1. OnTheWay' = OnTheWay /\ Taken' = Taken
      BY <1>6 DEF OnTheWay, Taken
    <2> QED
      BY <1>1, <1>2, <1>6, <2>1, FlowKept
  <1>9. LateIsLast'
    BY <1>1, <1>6 DEF LateIsLast
  <1> QED
    BY <1>2, <1>5, <1>7, <1>8, <1>9, UndisturbedKeeps DEF IInv

\* An item is sent.
LEMMA SendInv ==
  ASSUME IInv, SendItem
  PROVE  IInv'
  <1>1. TypeOK /\ DedupInPlace /\ Flow /\ LateIsLast
    BY DEF IInv
  <1>2. /\ UNCHANGED <<jobVars, history, ck, lock, buffered, cache, rewriteVars,
                       rewrite_queue, filterVars, storeVars, recipe>>
        /\ Len(dedup_queue) < QueueSize
    BY DEF SendItem
  <1>3. DedupInPlace' /\ LookedUp' = LookedUp
    BY <1>1, SendStep
  <1>4. PICK x \in Items :
          /\ dedup_queue' = Append(dedup_queue, x)
          /\ IF IsChunk(x) THEN x = Sent + 1 /\ Sent' = Sent + 1 ELSE Sent' = Sent
    BY <1>1, SendStep
  <1>5. Undisturbed
    BY <1>1, <1>2, <1>3, DrainKeeps DEF Undisturbed, jobVars, filterVars, storeVars
  <1>6. /\ UNCHANGED <<algo, content, recipe, chunk_queue, draining,
                       rewrite_queue, late, rewrite, filter, s, lock>>
    BY <1>2 DEF jobVars, rewriteVars, filterVars
  <1>7. TypeOK'
    <2>1. dedup_queue \in Seq(Items) /\ Len(dedup_queue) \in Nat /\ QueueSize \in Nat
      BY <1>1, NumberShapes, SeqFacts DEF TypeOK
    <2>2. dedup_queue' \in Seq(Items) /\ Len(dedup_queue') <= QueueSize
      BY <1>2, <1>4, <2>1, AppendFacts
    <2>3. /\ dedup' \in {"lock", "lookup", "send", "done"}
          /\ segment' \in Nat /\ cursor' \in Nat
      BY <1>1, SMTT(60) DEF SendItem, TypeOK
    <2> QED
      BY <1>1, <1>5, <1>6, <2>2, <2>3, UndisturbedTypes DEF TypeOK
  <1>8. Flow'
    <2>1. /\ rewrite_queue \in Seq(Items) /\ draining \in Seq(Items)
          /\ chunk_queue \in Seq(Items) /\ dedup_queue \in Seq(Items)
      BY <1>1 DEF TypeOK
    <2>2. OnTheWay' = Append(OnTheWay, x)
      <3> DEFINE a == rewrite_queue
                 b == draining
                 c == chunk_queue
                 d == dedup_queue
                 u == <<x>>
      <3>1. /\ a \in Seq(Items) /\ b \in Seq(Items) /\ c \in Seq(Items) /\ d \in Seq(Items)
            /\ u \in Seq(Items) /\ dedup_queue' = Joined(d, u)
        BY <1>4, <2>1, JoinAppend, Zenon
      <3>2. Append(OnTheWay, x) = Joined(OnTheWay, u)
        BY <1>1, WayShape, JoinAppend, Zenon
      <3>3. OnTheWay = Joined(a, Joined(b, Joined(c, d)))
        BY DEF OnTheWay
      <3>4. OnTheWay' = Joined(a, Joined(b, Joined(c, Joined(d, u))))
        BY <1>6, <3>1 DEF OnTheWay
      <3> HIDE DEF a, b, c, d, u
      <3>5. Joined(a, Joined(b, Joined(c, Joined(d, u)))) = Joined(Joined(a, Joined(b, Joined(c, d))), u)
        BY <3>1, MoveBehind
      <3> QED
        BY <3>2, <3>3, <3>4, <3>5, Zenon
    <2>3. Taken' = Taken /\ Taken \in Nat /\ Len(recipe) \in Nat /\ Sent \in Nat
      BY <1>1, <1>6, NumberShapes, DedupNumbers DEF Taken
    <2>4. x \in Int /\ OnTheWay \in Seq(Int)
      BY <1>1, WayShape, NumberShapes DEF Items, SEGMENT_START, SEGMENT_END
    <2>5. Ordered(OnTheWay, Len(recipe) + Taken, Sent)
      BY <1>1 DEF Flow
    <2>6. Ordered(OnTheWay', Len(recipe) + Taken, Sent')
      <3> DEFINE from == Len(recipe) + Taken
                 to == Sent
                 q == OnTheWay
      <3>1. from \in Nat /\ to \in Nat /\ q \in Seq(Int) /\ Ordered(q, from, to)
        BY <2>3, <2>4, <2>5
      <3> HIDE DEF from, to, q
      <3>2. /\ IsChunk(x) /\ x = to + 1 => Ordered(Append(q, x), from, to + 1)
            /\ ~IsChunk(x) => Ordered(Append(q, x), from, to)
        BY <2>4, <3>1, OrderedAppend
      <3>3. CASE IsChunk(x)
        BY <1>4, <2>2, <3>2, <3>3 DEF from, to, q
      <3>4. CASE ~IsChunk(x)
        BY <1>4, <2>2, <3>2, <3>4 DEF from, to, q
      <3> QED
        BY <3>3, <3>4
    <2>7. Chunks' = Chunks
      BY <1>6 DEF Chunks
    <2> QED
      BY <1>1, <1>6, <2>3, <2>6, <2>7 DEF Flow
  <1>9. LateIsLast'
    BY <1>1, <1>6 DEF LateIsLast
  <1> QED
    BY <1>3, <1>5, <1>7, <1>8, <1>9, UndisturbedKeeps DEF IInv

\* Under no_rewrite the buffer stays empty, and what is pushed is the last item.
LEMMA LateKept ==
  ASSUME TypeOK, LateIsLast, RewriteItem \/ RewriteEnd \/ PushDrained
  PROVE  LateIsLast'
  <1>1. /\ dedup_queue \in Seq(Items) /\ draining \in Seq(Items)
        /\ rewrite_queue \in Seq(Items) /\ chunk_queue \in Seq(Items)
    BY DEF TypeOK
  <1>2. CASE RewriteItem
    <2>1. /\ draining = <<>> /\ dedup_queue # <<>> /\ late = 0 /\ late' = 0 /\ algo' = algo
          /\ \/ NoRewrite(Head(dedup_queue)) \/ CflRewrite(Head(dedup_queue))
             \/ CapRewrite(Head(dedup_queue)) \/ CbrRewrite(Head(dedup_queue))
      BY <1>2 DEF RewriteItem, jobVars
    <2>2. Head(dedup_queue) \in Items
      BY <1>1, <2>1, HeadTailProperties
    <2>3. algo = "no" => chunk_queue' = <<>> /\ Len(draining') <= 1
      BY <2>1, <2>2, ItemMoves
    <2> QED
      BY <2>1, <2>3 DEF LateIsLast
  <1>3. CASE RewriteEnd
    <2>1. /\ late = 0 /\ late' = 0 /\ algo' = algo
          /\ draining' = chunk_queue /\ chunk_queue' = <<>>
      BY <1>3, DrainKeeps DEF RewriteEnd, jobVars
    <2>2. algo = "no" => Len(draining') <= 1
      BY <2>1, EmptySeq DEF LateIsLast
    <2> QED
      BY <2>1, <2>2 DEF LateIsLast
  <1>4. CASE PushDrained
    <2>1. /\ draining # <<>> /\ algo' = algo /\ chunk_queue' = chunk_queue
          /\ rewrite_queue' = Append(rewrite_queue, Head(draining))
          /\ draining' = Tail(draining)
          /\ late' # 0 => algo = "no" /\ late' = Head(draining)
      BY <1>4 DEF PushDrained, jobVars
    <2>2. /\ Tail(draining) \in Seq(Items) /\ Len(Tail(draining)) = Len(draining) - 1
          /\ Head(draining) \in Items /\ Len(draining) \in Nat
      BY <1>1, <2>1, HeadTailProperties, SeqFacts
    <2>3. algo = "no" => chunk_queue = <<>> /\ Len(draining) <= 1
      BY DEF LateIsLast
    <2>4. algo = "no" => Len(Tail(draining)) <= 1 /\ Tail(draining) = <<>>
      <3>1. Len(Tail(draining)) = 0 => Tail(draining) = <<>>
        BY <2>2, SeqFacts
      <3>2. Len(Tail(draining)) \in Nat
        BY <2>2, SeqFacts
      <3> QED
        BY <2>2, <2>3, <3>1, <3>2
    <2>5. /\ rewrite_queue' # <<>>
          /\ rewrite_queue'[Len(rewrite_queue')] = Head(draining)
      <3>1. /\ Append(rewrite_queue, Head(draining)) \in Seq(Items)
            /\ Len(Append(rewrite_queue, Head(draining))) = Len(rewrite_queue) + 1
            /\ Append(rewrite_queue, Head(draining))[Len(rewrite_queue) + 1] = Head(draining)
            /\ Len(rewrite_queue) \in Nat
        BY <1>1, <2>2, AppendFacts, SeqFacts
      <3>2. Append(rewrite_queue, Head(draining)) # <<>>
        BY <3>1, SeqFacts
      <3> QED
        BY <2>1, <3>1, <3>2
    <2> QED
      BY <2>1, <2>3, <2>4, <2>5 DEF LateIsLast
  <1> QED
    BY <1>2, <1>3, <1>4

\* The dedup thread is where it was, and the lock is held as before.
LEMMA PlaceKept ==
  ASSUME TypeOK, DedupInPlace, UNCHANGED <<content, lock, dedupVars>>,
         filter' = "decide" <=> filter = "decide"
  PROVE  DedupInPlace' /\ LookedUp' = LookedUp /\ Sent' = Sent
  <1>1. UNCHANGED <<content, lock, dedup, segment, cursor>>
    BY DEF dedupVars
  <1> QED
    BY <1>1, OthersKeepNumbers DEF DedupInPlace

\* The rewrite thread moves an item.
LEMMA RewriteInv ==
  ASSUME IInv, RewriteItem \/ RewriteEnd \/ PushDrained
  PROVE  IInv'
  <1>1. TypeOK /\ DedupInPlace /\ Flow /\ LateIsLast
    BY DEF IInv
  <1>2. UNCHANGED <<jobVars, history, lock, buffered, cache, dedupVars, filterVars,
                    storeVars, recipe>>
    BY DEF RewriteItem, RewriteEnd, PushDrained
  <1>3. UNCHANGED <<content, algo, lock, recipe, dedup, segment, cursor, filter, s>>
    BY <1>2 DEF jobVars, dedupVars, filterVars
  <1>4. /\ {dedup_queue', chunk_queue', draining', rewrite_queue'} \subseteq Seq(Items)
        /\ Len(dedup_queue') <= QueueSize /\ Len(rewrite_queue') <= QueueSize
        /\ OnTheWay' = OnTheWay /\ ChunksKept
        /\ late' \in Chunks \union {0} /\ rewrite' \in {"run", "end"}
    BY <1>1, RewriteStep
  <1>5. DedupInPlace' /\ LookedUp' = LookedUp /\ Sent' = Sent
    BY <1>1, <1>2, <1>3, PlaceKept
  <1>6. Undisturbed
    BY <1>2, <1>4, <1>5 DEF Undisturbed, jobVars, filterVars, storeVars
  <1>7. TypeOK'
    BY <1>1, <1>3, <1>4, <1>6, UndisturbedTypes DEF TypeOK
  <1>8. Flow'
    <2>1. Taken' = Taken
      BY <1>3 DEF Taken
    <2> QED
      BY <1>1, <1>3, <1>4, <1>5, <2>1, FlowKept
  <1>9. LateIsLast'
    BY <1>1, LateKept
  <1> QED
    BY <1>5, <1>6, <1>7, <1>8, <1>9, UndisturbedKeeps DEF IInv

\* The late mark.
LEMMA LateInv ==
  ASSUME IInv, LateHarCheck
  PROVE  IInv'
  <1>1. TypeOK /\ DedupInPlace /\ Flow /\ LateIsLast
    BY DEF IInv
  <1>2. /\ UNCHANGED <<jobVars, history, lock, buffered, cache, dedupVars, dedup_queue,
                       chunk_queue, inorder, draining, rewrite, rewrite_queue,
                       filterVars, storeVars, recipe>>
        /\ late \in Chunks /\ late' = 0
        /\ ck' = [ck EXCEPT ![late] = HarCheck(@)]
    BY <1>1 DEF LateHarCheck, TypeOK
  <1>3. UNCHANGED <<content, algo, lock, recipe, dedup, segment, cursor, filter, s>>
    BY <1>2 DEF jobVars, dedupVars, filterVars
  <1>4. ChunksKept
    <2> DEFINE R == [id : Ids, dup : BOOLEAN, denied : BOOLEAN, ooo : BOOLEAN, sparse : BOOLEAN]
    <2>1. ck \in [Chunks -> R]
      BY <1>1 DEF TypeOK
    <2>2. /\ HarCheck(ck[late]) \in R
          /\ HarCheck(ck[late]).id = ck[late].id /\ HarCheck(ck[late]).dup = ck[late].dup
      BY <1>2, <2>1, HarCheckKeeps
    <2> HIDE DEF R
    <2>3. ck' \in [Chunks -> R]
      BY <1>2, <2>1, <2>2
    <2>4. \A n \in Chunks : ck'[n].id = ck[n].id /\ ck'[n].dup = ck[n].dup
      BY <1>2, <2>1, <2>2
    <2> QED
      BY <2>3, <2>4 DEF ChunksKept, R
  <1>5. DedupInPlace' /\ LookedUp' = LookedUp /\ Sent' = Sent
    BY <1>1, <1>2, <1>3, PlaceKept
  <1>6. Undisturbed
    BY <1>2, <1>4, <1>5 DEF Undisturbed, jobVars, filterVars, storeVars
  <1>7. TypeOK'
    BY <1>1, <1>2, <1>3, <1>6, UndisturbedTypes DEF TypeOK
  <1>8. Flow'
    <2>1. Taken' = Taken /\ OnTheWay' = OnTheWay
      BY <1>2, <1>3 DEF Taken, OnTheWay
    <2> QED
      BY <1>1, <1>3, <1>5, <2>1, FlowKept
  <1>9. LateIsLast'
    BY <1>1, <1>2, <1>3 DEF LateIsLast
  <1> QED
    BY <1>5, <1>6, <1>7, <1>8, <1>9, UndisturbedKeeps DEF IInv

\* The filter thread takes an item.
LEMMA CollectInv ==
  ASSUME IInv, CollectItem
  PROVE  IInv'
  <1>1. TypeOK /\ DedupInPlace /\ Flow /\ LateIsLast
    BY DEF IInv
  <1> DEFINE x == Head(rewrite_queue)
  <1>2. /\ UNCHANGED <<jobVars, history, ck, lock, buffered, cache, dedupVars, dedup_queue,
                       rewriteVars, place, recently_unique, recently_rewritten,
                       storeVars, recipe>>
        /\ rewrite_queue # <<>> /\ rewrite_queue' = Tail(rewrite_queue)
        /\ filter \in {"pull", "collect"}
        /\ \/ /\ x = SEGMENT_START /\ filter = "pull"
              /\ filter' = "collect" /\ s' = <<>>
           \/ /\ IsChunk(x) /\ filter = "collect"
              /\ filter' = "collect" /\ s' = Append(s, x)
           \/ /\ x = SEGMENT_END /\ filter = "collect"
              /\ filter' = "lock" /\ s' = s
    BY DEF CollectItem
  <1>3. UNCHANGED <<content, algo, lock, recipe, dedup, segment, cursor, chunk_queue, draining,
                    dedup_queue, late, rewrite>>
    BY <1>2 DEF jobVars, dedupVars, rewriteVars
  <1>4. filter' # "decide" /\ filter # "decide" /\ filter' \in {"collect", "lock"}
    BY <1>2
  <1>5. DedupInPlace' /\ LookedUp' = LookedUp /\ Sent' = Sent
    BY <1>1, <1>2, <1>3, <1>4, PlaceKept
  <1>6. Undisturbed
    BY <1>1, <1>2, <1>4, <1>5, DrainKeeps DEF Undisturbed, jobVars, storeVars
  <1>7. /\ rewrite_queue \in Seq(Items) /\ Len(rewrite_queue) \in Nat
        /\ Tail(rewrite_queue) \in Seq(Items)
        /\ Len(Tail(rewrite_queue)) = Len(rewrite_queue) - 1
        /\ x \in Items /\ x \in Int
    <2>1. rewrite_queue \in Seq(Items)
      BY <1>1 DEF TypeOK
    <2>2. x \in Items
      BY <1>2, <2>1, HeadTailProperties
    <2> QED
      BY <1>1, <1>2, <2>1, <2>2, HeadTailProperties, SeqFacts, NumberShapes
         DEF Items, SEGMENT_START, SEGMENT_END
  <1>x. x = Head(rewrite_queue)
    OBVIOUS
  <1> HIDE DEF x
  <1>8. /\ s \in Seq(Chunks) /\ Len(s) \in Nat /\ Len(recipe) \in Nat
        /\ IsChunk(x) => x \in Chunks
    <2>1. IsChunk(x) => x \in Chunks
      BY <1>7 DEF Items, IsChunk, SEGMENT_START, SEGMENT_END
    <2> QED
      BY <1>1, <2>1, NumberShapes DEF TypeOK
  <1>9. s' \in Seq(Chunks)
    <2>1. IsChunk(x) => Append(s, x) \in Seq(Chunks)
      BY <1>8, AppendFacts
    <2> QED
      BY <1>2, <1>8, <2>1, EmptySeq
  <1>10. TypeOK'
    <2>1. Len(rewrite_queue') <= QueueSize /\ rewrite_queue' \in Seq(Items)
      BY <1>1, <1>2, <1>7, NumberShapes DEF TypeOK
    <2> QED
      BY <1>1, <1>3, <1>4, <1>6, <1>9, <2>1, UndisturbedTypes DEF TypeOK
  <1>11. OnTheWay # <<>> /\ Head(OnTheWay) = x /\ OnTheWay' = Tail(OnTheWay)
    <2> DEFINE e == Joined(draining, Joined(chunk_queue, dedup_queue))
    <2>1. e \in Seq(Items)
      <3>1. /\ draining \in Seq(Items) /\ chunk_queue \in Seq(Items)
            /\ dedup_queue \in Seq(Items)
        BY <1>1 DEF TypeOK
      <3>2. Joined(chunk_queue, dedup_queue) \in Seq(Items)
        BY <3>1, JoinType, Zenon
      <3> QED
        BY <3>1, <3>2, JoinType, Zenon
    <2>2. /\ OnTheWay = Joined(rewrite_queue, e)
          /\ OnTheWay' = Joined(Tail(rewrite_queue), e)
      BY <1>2, <1>3 DEF OnTheWay
    <2> HIDE DEF e
    <2>3. /\ Head(Joined(rewrite_queue, e)) = Head(rewrite_queue)
          /\ Tail(Joined(rewrite_queue, e)) = Joined(Tail(rewrite_queue), e)
      BY <1>2, <1>7, <2>1, JoinedHeadTail, Zenon
    <2>4. Joined(rewrite_queue, e) # <<>>
      <3>1. Len(Joined(rewrite_queue, e)) = Len(rewrite_queue) + Len(e)
        BY <1>7, <2>1, ConcatProperties DEF Joined
      <3>2. Len(rewrite_queue) # 0 /\ Len(e) \in Nat
        BY <1>2, <1>7, <2>1, SeqFacts
      <3>3. Len(Joined(rewrite_queue, e)) # 0
        BY <1>7, <3>1, <3>2
      <3> QED
        BY <3>3, EmptySeq
    <2> QED
      BY <1>x, <2>2, <2>3, <2>4
  <1>12. /\ IsChunk(x) => /\ x = Len(recipe) + Taken + 1
                          /\ Ordered(OnTheWay', Len(recipe) + Taken + 1, Sent)
         /\ ~IsChunk(x) => Ordered(OnTheWay', Len(recipe) + Taken, Sent)
    <2> DEFINE from == Len(recipe) + Taken
               to == Sent
               q == OnTheWay
    <2>1. Taken \in Nat
      BY <1>8 DEF Taken
    <2>2. /\ from \in Nat /\ to \in Nat /\ q \in Seq(Int) /\ q # <<>>
          /\ Ordered(q, from, to) /\ Head(q) = x /\ OnTheWay' = Tail(q)
      BY <1>1, <1>8, <1>11, <2>1, WayShape, DedupNumbers DEF Flow
    <2> HIDE DEF from, to, q
    <2>3. /\ IsChunk(Head(q)) => Head(q) = from + 1 /\ Ordered(Tail(q), from + 1, to)
          /\ ~IsChunk(Head(q)) => Ordered(Tail(q), from, to)
      BY <2>2, OrderedTail
    <2> QED
      BY <2>2, <2>3 DEF from, to
  <1>13. Flow'
    <2>1. Chunks' = Chunks /\ recipe' = recipe
      BY <1>3 DEF Chunks
    <2>2. \A k \in 1 .. Taken : s[k] = Len(recipe) + k
      BY <1>1 DEF Flow
    <2>3. CASE x = SEGMENT_START /\ filter = "pull"
      <3>1. ~IsChunk(x) /\ Taken = 0 /\ s' = <<>>
        BY <1>2, <2>3 DEF IsChunk, SEGMENT_START, SEGMENT_END, Taken
      <3>2. Taken' = 0
        BY <1>2, <3>1, EmptySeq DEF Taken
      <3>3. Ordered(OnTheWay', Len(recipe') + Taken', Sent')
        BY <1>5, <1>12, <2>1, <3>1, <3>2
      <3>4. \A k \in 1 .. Taken' : s'[k] = Len(recipe') + k
        BY <3>2
      <3> QED
        BY <1>1, <1>3, <2>1, <3>3, <3>4 DEF Flow
    <2>4. CASE IsChunk(x) /\ filter = "collect"
      <3>1. Taken = Len(s) /\ s' = Append(s, x) /\ filter' = "collect"
        BY <1>2, <2>4 DEF IsChunk, SEGMENT_START, SEGMENT_END, Taken
      <3>2. /\ Len(s') = Len(s) + 1 /\ s'[Len(s) + 1] = x
            /\ \A k \in 1 .. Len(s) : s'[k] = s[k]
        BY <1>8, <2>4, <3>1, AppendFacts
      <3>3. Taken' = Len(s) + 1
        BY <3>1, <3>2 DEF Taken
      <3>4. Len(recipe') + Taken' = Len(recipe) + Taken + 1
        BY <1>8, <2>1, <3>1, <3>3
      <3>5. Ordered(OnTheWay', Len(recipe') + Taken', Sent')
        BY <1>5, <1>12, <2>4, <3>4
      <3>6. ASSUME NEW k \in 1 .. Taken' PROVE s'[k] = Len(recipe') + k
        <4>1. CASE k = Len(s) + 1
          BY <1>8, <1>12, <2>1, <2>4, <3>1, <3>2, <4>1
        <4>2. CASE k # Len(s) + 1
          <5>1. k \in 1 .. Len(s)
            BY <1>8, <3>3, <4>2
          <5> QED
            BY <2>1, <2>2, <3>1, <3>2, <5>1
        <4> QED
          BY <4>1, <4>2
      <3> QED
        BY <1>1, <1>3, <2>1, <3>5, <3>6 DEF Flow
    <2>5. CASE x = SEGMENT_END /\ filter = "collect"
      <3>1. ~IsChunk(x) /\ s' = s /\ filter' = "lock"
        BY <1>2, <2>5 DEF IsChunk, SEGMENT_START, SEGMENT_END
      <3>2. Taken' = Taken
        BY <2>5, <3>1 DEF Taken
      <3>3. Ordered(OnTheWay', Len(recipe') + Taken', Sent')
        BY <1>5, <1>12, <2>1, <3>1, <3>2
      <3>4. \A k \in 1 .. Taken' : s'[k] = Len(recipe') + k
        BY <2>1, <2>2, <3>1, <3>2
      <3> QED
        BY <1>1, <1>3, <2>1, <3>3, <3>4 DEF Flow
    <2> QED
      BY <1>2, <2>3, <2>4, <2>5
  <1>14. LateIsLast'
    <2>1. algo' = "no" => chunk_queue' = <<>> /\ Len(draining') <= 1
      BY <1>1, <1>3 DEF LateIsLast
    <2>2. ASSUME late' # 0
          PROVE  /\ algo' = "no" /\ draining' = <<>>
                 /\ IF rewrite_queue' = <<>> THEN filter' = "collect"
                    ELSE rewrite_queue'[Len(rewrite_queue')] = late'
      <3>1. /\ algo = "no" /\ draining = <<>> /\ late # 0 /\ late \in Chunks
            /\ rewrite_queue[Len(rewrite_queue)] = late
        BY <1>1, <1>2, <1>3, <2>2 DEF LateIsLast, TypeOK
      <3>2. Len(rewrite_queue) # 0
        BY <1>2, <1>7, SeqFacts
      <3>3. CASE Tail(rewrite_queue) = <<>>
        <4>1. Len(Tail(rewrite_queue)) = 0
          BY <3>3, EmptySeq
        <4>2. Len(rewrite_queue) = 1
          <5>1. /\ Len(rewrite_queue) \in Nat
                /\ Len(Tail(rewrite_queue)) = Len(rewrite_queue) - 1
            BY <1>7
          <5> DEFINE l == Len(rewrite_queue)
                     k == Len(Tail(rewrite_queue))
          <5>2. l \in Nat /\ k = l - 1 /\ k = 0
            BY <4>1, <5>1
          <5> HIDE DEF l, k
          <5>3. l = 1
            BY <5>2
          <5> QED
            BY <5>3 DEF l
        <4>3. rewrite_queue[1] = late
          BY <3>1, <4>2
        <4>4. IsChunk(late)
          BY <1>1, <3>1, NumberShapes DEF IsChunk
        <4>5. x = rewrite_queue[1]
          BY <1>x
        <4>6. IsChunk(x)
          BY <4>3, <4>4, <4>5
        <4> QED
          BY <1>2, <1>3, <3>1, <3>3, <4>6 DEF IsChunk, SEGMENT_START, SEGMENT_END
      <3>4. CASE Tail(rewrite_queue) # <<>>
        <4>1. /\ \A i \in 1 .. Len(Tail(rewrite_queue)) :
                   Tail(rewrite_queue)[i] = rewrite_queue[i + 1]
              /\ Len(Tail(rewrite_queue)) \in Nat \ {0}
          BY <1>2, <1>7, <3>4, HeadTailProperties, EmptySeq
        <4>2. /\ Len(Tail(rewrite_queue)) \in 1 .. Len(Tail(rewrite_queue))
              /\ Len(Tail(rewrite_queue)) + 1 = Len(rewrite_queue)
          BY <1>7, <4>1
        <4>3. Tail(rewrite_queue)[Len(Tail(rewrite_queue))] = late
          BY <3>1, <4>1, <4>2
        <4> QED
          BY <1>2, <1>3, <3>1, <3>4, <4>3
      <3> QED
        BY <3>3, <3>4
    <2> QED
      BY <2>1, <2>2 DEF LateIsLast
  <1> QED
    BY <1>5, <1>6, <1>10, <1>13, <1>14, UndisturbedKeeps DEF IInv

-----------------------------------------------------------------------------
(* A lookup.                                                               *)

\* The copies of a fingerprint between two places are finitely many.
LEMMA CopiesFacts ==
  ASSUME NEW f, NEW from \in Nat, NEW to \in Nat
  PROVE  /\ IsFiniteSet(Copies(f, from, to)) /\ Cardinality(Copies(f, from, to)) \in Nat
         /\ Cardinality(Copies(f, from, to)) = 0 <=> Copies(f, from, to) = {}
         /\ from <= to => Copies(f, from, to + 1)
              = IF content[to + 1] = f THEN Copies(f, from, to) \union {to + 1}
                ELSE Copies(f, from, to)
         /\ to + 1 \notin Copies(f, from, to)
  <1>1. IsFiniteSet(from + 1 .. to)
    BY FS_Interval
  <1>2. Copies(f, from, to) \subseteq from + 1 .. to
    BY DEF Copies
  <1>3. IsFiniteSet(Copies(f, from, to))
    BY <1>1, <1>2, FS_Subset
  <1>4. /\ Cardinality(Copies(f, from, to)) \in Nat
        /\ Cardinality(Copies(f, from, to)) = 0 <=> Copies(f, from, to) = {}
    BY <1>3, FS_CardinalityType, FS_EmptySet
  <1>5. from <= to => Copies(f, from, to + 1)
              = IF content[to + 1] = f THEN Copies(f, from, to) \union {to + 1}
                ELSE Copies(f, from, to)
    BY DEF Copies
  <1>6. to + 1 \notin Copies(f, from, to)
    BY DEF Copies
  <1> QED
    BY <1>3, <1>4, <1>5, <1>6

\* The recipe is behind what was looked up, and the segment under way, too.
LEMMA BehindLookedUp ==
  ASSUME IInv
  PROVE  /\ Len(recipe) \in Nat /\ LookedUp \in Nat /\ Taken \in Nat
         /\ Len(recipe) + Taken <= LookedUp /\ Len(recipe) <= LookedUp
         /\ LookedUp <= Len(content)
         /\ \A n \in Len(recipe) + 1 .. LookedUp : n \in Chunks /\ content[n] \in Fps
  <1>1. Ordered(OnTheWay, Len(recipe) + Taken, Sent)
    BY DEF IInv, Flow
  <1>2. Len(recipe) \in Nat /\ Taken \in Nat
    BY NumberShapes DEF IInv, Taken
  <1>3. /\ LookedUp \in Nat /\ Sent \in Nat /\ Sent <= LookedUp /\ LookedUp <= Len(content)
    BY DedupNumbers DEF IInv
  <1>4. Len(recipe) + Taken <= Sent
    BY <1>1 DEF Ordered
  <1>5. Chunks = 1 .. Len(content) /\ \A n \in Chunks : content[n] \in Fps
    BY NumberShapes DEF IInv
  <1> QED
    BY <1>2, <1>3, <1>4, <1>5

\* A chunk that was looked up and is not in the recipe has an element in the
\* index buffer.
LEMMA BufferHead ==
  ASSUME IInv, NEW m \in Len(recipe) + 1 .. LookedUp
  PROVE  /\ content[m] \in Fps /\ buffered[content[m]] \in Seq(Ids)
         /\ Len(buffered[content[m]]) \in Nat \ {0} /\ buffered[content[m]] # <<>>
         /\ buffered[content[m]][1] \in Ids
  <1> DEFINE f == content[m]
             C == Copies(f, Len(recipe), LookedUp)
  <1>1. f \in Fps /\ Len(recipe) \in Nat /\ LookedUp \in Nat
    BY BehindLookedUp
  <1>2. m \in C
    BY DEF Copies
  <1>3. Cardinality(C) \in Nat /\ Cardinality(C) # 0
    BY <1>1, <1>2, CopiesFacts
  <1>4. Len(buffered[f]) = Cardinality(C)
    BY <1>1 DEF IInv, Counted
  <1>5. buffered[f] \in Seq(Ids)
    BY <1>1 DEF IInv, TypeOK
  <1> QED
    BY <1>1, <1>3, <1>4, <1>5, SeqFacts

\* Ids of the containers that are written.
Written == {id \in Ids : id + 1 \in DOMAIN containers}

\* The cache has such ids.
LEMMA CacheShape ==
  ASSUME TypeOK, NEW q \in Seq(Ids)
  PROVE  (\A k \in DOMAIN q : q[k] + 1 \in DOMAIN containers) <=> q \in Seq(Written)
  <1>1. /\ q \in [1 .. Len(q) -> Ids] /\ Len(q) \in Nat /\ DOMAIN q = 1 .. Len(q)
    BY LenProperties
  <1>2. ASSUME \A k \in DOMAIN q : q[k] + 1 \in DOMAIN containers
        PROVE  q \in Seq(Written)
    <2>1. \A k \in 1 .. Len(q) : q[k] \in Written
      BY <1>1, <1>2 DEF Written
    <2>2. q \in [1 .. Len(q) -> Written]
      BY <1>1, <2>1
    <2> QED
      BY <1>1, <2>2, SeqDef
  <1>3. ASSUME q \in Seq(Written), NEW k \in DOMAIN q
        PROVE  q[k] + 1 \in DOMAIN containers
    BY <1>1, <1>3, ElementOfSeq DEF Written
  <1> QED
    BY <1>2, <1>3

\* A container in front.
LEMMA InFront ==
  ASSUME NEW S, NEW q \in Seq(S), NEW x \in S
  PROVE  <<x>> \o q \in Seq(S) /\ Len(<<x>> \o q) = Len(q) + 1
  <1> DEFINE u == <<x>>
  <1>1. u \in Seq(S) /\ Len(u) = 1
    OBVIOUS
  <1>2. Len(q) \in Nat
    BY SeqFacts
  <1> HIDE DEF u
  <1>3. u \o q \in Seq(S) /\ Len(u \o q) = Len(u) + Len(q)
    BY <1>1, ConcatProperties
  <1> QED
    BY <1>1, <1>2, <1>3 DEF u

\* What LookupChunk finds: an id that leads to the chunk, or none; and if no copy
\* is on its way, none only for a chunk that is new.
LEMMA LookupFinds ==
  ASSUME IInv, LookupChunk
  PROVE  \E c \in [id : Ids, dup : BOOLEAN, denied : BOOLEAN, ooo : BOOLEAN, sparse : BOOLEAN] :
           /\ Looked(c)
           /\ c.id # TEMPORARY_ID => Holds(c.id, content[LookedUp + 1])
           /\ buffered[content[LookedUp + 1]] = <<>> /\ c.id = TEMPORARY_ID =>
                ~c.dup /\ content[LookedUp + 1] \notin open.fps
           /\ cache' \in Seq(Written) /\ Len(cache') <= CacheSize
  <1> DEFINE R == [id : Ids, dup : BOOLEAN, denied : BOOLEAN, ooo : BOOLEAN, sparse : BOOLEAN]
             f == content[LookedUp + 1]
             Good(c) == /\ Looked(c)
                        /\ c.id # TEMPORARY_ID => Holds(c.id, f)
                        /\ buffered[f] = <<>> /\ c.id = TEMPORARY_ID => ~c.dup /\ f \notin open.fps
                        /\ cache' \in Seq(Written) /\ Len(cache') <= CacheSize
  <1>1. TypeOK /\ DedupInPlace /\ StoreShape /\ RecipeResolvable
    BY DEF IInv, PointersHold
  <1>2. /\ LookedUp + 1 \in Chunks
        /\ content[SegmentChunks(segment)[cursor]] = f
    <2>1. \E c : Looked(c)
      BY DEF LookupChunk
    <2> QED
      BY <1>1, <2>1, LookStep
  <1>3. f \in Fps
    BY <1>1, <1>2, NumberShapes
  <1> HIDE DEF f
  <1>4. /\ cache \in Seq(Ids) /\ Len(cache) \in Nat /\ Len(cache) <= CacheSize
        /\ cache \in Seq(Written) /\ DOMAIN cache = 1 .. Len(cache)
        /\ \A k \in 1 .. Len(cache) : cache[k] \in Written
        /\ CacheSize \in Nat \ {0}
    <2>1. cache \in Seq(Ids) /\ Len(cache) <= CacheSize
      BY <1>1 DEF TypeOK
    <2>2. cache \in Seq(Written)
      BY <1>1, <2>1, CacheShape DEF StoreShape
    <2> QED
      BY <1>1, <2>1, <2>2, SeqFacts, NumberShapes
  <1>5. /\ Ids \subseteq Int /\ TEMPORARY_ID \in Ids /\ Len(containers) \in Nat
        /\ DOMAIN containers = 1 .. Len(containers)
    BY <1>1, NumberShapes
  <1>6. \A id \in Ids : /\ Duplicate(id) \in R /\ Duplicate(id).id = id
                        /\ [Duplicate(id) EXCEPT !.denied = TRUE] \in R
                        /\ [Duplicate(id) EXCEPT !.denied = TRUE].id = id
    BY DEF Duplicate, Fresh
  <1>7. Fresh \in R /\ Fresh.id = TEMPORARY_ID /\ ~Fresh.dup
    BY <1>5 DEF Fresh
  <1>8. \A id \in Written : id \in Ids /\ id # TEMPORARY_ID
    BY <1>5 DEF Written, TEMPORARY_ID
  <1> HIDE DEF R
  <1>9. CASE /\ InOpen(f)
             /\ Looked([Duplicate(open.id) EXCEPT !.denied = TRUE])
             /\ UNCHANGED cache
    <2> DEFINE c == [Duplicate(open.id) EXCEPT !.denied = TRUE]
    <2>1. f \in open.fps
      BY <1>9 DEF InOpen
    <2>2. open.id = Len(containers) /\ open.id \in Ids /\ open.id # TEMPORARY_ID
      BY <1>1, <1>5, <2>1 DEF StoreShape, NoContainer, TypeOK, Ids, TEMPORARY_ID
    <2>3. c \in R /\ c.id = open.id
      BY <1>6, <2>2
    <2> HIDE DEF c
    <2>4. Good(c)
      BY <1>4, <1>9, <2>1, <2>2, <2>3 DEF Holds, c
    <2> QED
      BY <2>3, <2>4 DEF R, f
  <1>10. CASE /\ ~InOpen(f) /\ Buffered(f)
              /\ Looked(Duplicate(Head(buffered[f])))
              /\ UNCHANGED cache
    <2> DEFINE id == Head(buffered[f])
               c == Duplicate(id)
    <2>1. buffered[f] \in Seq(Ids) /\ buffered[f] # <<>>
      BY <1>1, <1>3, <1>10 DEF TypeOK, Buffered
    <2>2. Len(buffered[f]) \in Nat \ {0} /\ DOMAIN buffered[f] = 1 .. Len(buffered[f])
      BY <2>1, EmptySeq, SeqFacts
    <2>3. id \in Ids /\ id = buffered[f][1] /\ 1 \in DOMAIN buffered[f]
      BY <2>1, <2>2, HeadTailProperties
    <2>4. id \in ToSet(buffered[f])
      BY <2>3 DEF ToSet
    <2> HIDE DEF id
    <2>5. id # TEMPORARY_ID => Holds(id, f)
      BY <1>1, <1>3, <2>4 DEF RecipeResolvable
    <2>6. c \in R /\ c.id = id
      BY <1>6, <2>3
    <2> HIDE DEF c
    <2>7. Good(c)
      BY <1>4, <1>10, <2>1, <2>5, <2>6 DEF c, id
    <2> QED
      BY <2>6, <2>7 DEF R, f
  <1>11. CASE /\ ~InOpen(f) /\ ~Buffered(f) /\ Cached(f) # {}
              /\ LET k == Min(Cached(f))
                 IN  /\ Looked(Duplicate(cache[k]))
                     /\ cache' = <<cache[k]>> \o RemoveAt(cache, k)
    <2> DEFINE k == Min(Cached(f))
               c == Duplicate(cache[k])
    <2>1. k \in Cached(f)
      <3>1. Cached(f) \in SUBSET Nat /\ Cached(f) # {}
        BY <1>4, <1>11 DEF Cached
      <3> QED
        BY <3>1, MinOfPlaces
    <2>2. Looked(c) /\ cache' = <<cache[k]>> \o RemoveAt(cache, k)
      BY <1>11
    <2> HIDE DEF k
    <2>3. k \in 1 .. Len(cache) /\ f \in containers[cache[k] + 1] /\ cache[k] \in Written
      BY <1>4, <2>1 DEF Cached
    <2>4. Holds(cache[k], f)
      BY <2>3 DEF Holds, Written
    <2>5. RemoveAt(cache, k) \in Seq(Written) /\ Len(RemoveAt(cache, k)) = Len(cache) - 1
      BY <1>4, <2>3, RemoveFacts
    <2>6. cache' \in Seq(Written) /\ Len(cache') = Len(cache)
      <3> DEFINE q == RemoveAt(cache, k)
                 l == Len(cache)
      <3>1. q \in Seq(Written) /\ Len(q) = l - 1 /\ l \in Nat
        BY <1>4, <2>5
      <3> HIDE DEF q
      <3>2. <<cache[k]>> \o q \in Seq(Written) /\ Len(<<cache[k]>> \o q) = Len(q) + 1
        BY <2>3, <3>1, InFront
      <3> DEFINE w == <<cache[k]>> \o q
      <3>3. cache' = w
        BY <2>2 DEF q
      <3> HIDE DEF w
      <3>4. w \in Seq(Written) /\ Len(w) = Len(q) + 1
        BY <3>2 DEF w
      <3> QED
        BY <3>1, <3>3, <3>4
    <2>7. c \in R /\ c.id = cache[k]
      BY <1>6, <1>8, <2>3
    <2> HIDE DEF c
    <2>8. Good(c)
      BY <1>4, <1>8, <2>2, <2>3, <2>4, <2>6, <2>7
    <2> QED
      BY <2>7, <2>8 DEF R, f
  <1>12. CASE /\ f \in DOMAIN kv
              /\ Looked(Duplicate(kv[f]))
              /\ cache' = Prefetched(kv[f])
    <2> DEFINE c == Duplicate(kv[f])
    <2>1. Holds(kv[f], f) /\ kv[f] \in Written
      BY <1>1, <1>12 DEF RecipeResolvable, StoreShape, TypeOK, Written
    <2>2. c \in R /\ c.id = kv[f]
      BY <1>6, <1>8, <2>1
    <2>3. cache' \in Seq(Written) /\ Len(cache') <= CacheSize
      <3> DEFINE q == <<kv[f]>> \o cache
                 l == Min({CacheSize, Len(cache) + 1})
      <3>1. q \in Seq(Written) /\ Len(q) = Len(cache) + 1
        BY <1>4, <2>1, InFront
      <3>2. l \in Nat /\ l <= CacheSize /\ l <= Len(cache) + 1
        BY <1>4, MinMaxOfTwo
      <3>3. cache' = SubSeq(q, 1, l)
        BY <1>12 DEF Prefetched
      <3> HIDE DEF q, l
      <3>4. \A i \in 1 .. l : q[i] \in Written
        BY <1>4, <3>1, <3>2, SeqFacts
      <3>5. /\ SubSeq(q, 1, l) \in Seq(Written)
            /\ Len(SubSeq(q, 1, l)) = IF 1 <= l THEN l - 1 + 1 ELSE 0
        BY <3>2, <3>4, SubSeqProperties
      <3> DEFINE w == SubSeq(q, 1, l)
      <3>6. cache' = w /\ w \in Seq(Written) /\ Len(w) = IF 1 <= l THEN l - 1 + 1 ELSE 0
        BY <3>3, <3>5
      <3> HIDE DEF w
      <3> QED
        BY <1>4, <3>2, <3>6
    <2> HIDE DEF c
    <2>4. Good(c)
      BY <1>8, <1>12, <2>1, <2>2, <2>3 DEF c
    <2> QED
      BY <2>2, <2>4 DEF R, f
  <1>13. CASE ~InOpen(f) /\ Looked(Fresh) /\ UNCHANGED cache
    <2>1. Good(Fresh)
      BY <1>4, <1>7, <1>13 DEF InOpen
    <2> QED
      BY <1>7, <2>1 DEF R, f
  <1> QED
    BY <1>2, <1>9, <1>10, <1>11, <1>12, <1>13 DEF LookupChunk

-----------------------------------------------------------------------------
(* A chunk is looked up.                                                   *)

\* The struct of a chunk.
Struct == [id : Ids, dup : BOOLEAN, denied : BOOLEAN, ooo : BOOLEAN, sparse : BOOLEAN]

\* What a lookup changes.
LEMMA LookedChanges ==
  ASSUME IInv, NEW c \in Struct, Looked(c)
  PROVE  /\ DedupInPlace' /\ LookedUp' = LookedUp + 1 /\ Sent' = Sent
         /\ filter # "decide" /\ LookedUp \in Nat /\ LookedUp + 1 \in Chunks
         /\ content[LookedUp + 1] \in Fps
         /\ UNCHANGED <<jobVars, rewritten, segment, dedup_queue, rewriteVars,
                        rewrite_queue, filterVars, storeVars, recipe>>
         /\ ck' \in [Chunks -> Struct] /\ ck'[LookedUp + 1] = c
         /\ \A n \in Chunks : n # LookedUp + 1 => ck'[n] = ck[n]
         /\ buffered' \in [Fps -> Seq(Ids)]
         /\ buffered'[content[LookedUp + 1]] = Append(buffered[content[LookedUp + 1]], c.id)
         /\ \A g \in Fps : g # content[LookedUp + 1] => buffered'[g] = buffered[g]
         /\ dedup' \in {"lookup", "send"} /\ lock' \in {"dedup", "free"} /\ cursor' \in Nat
  <1> DEFINE n == LookedUp + 1
             f == content[n]
  <1>1. TypeOK /\ DedupInPlace
    BY DEF IInv
  <1>2. /\ DedupInPlace' /\ LookedUp' = n /\ Sent' = Sent
        /\ SegmentChunks(segment)[cursor] = n /\ n \in Chunks /\ filter # "decide"
        /\ LookedUp \in Nat
    BY <1>1, LookStep, DedupNumbers
  <1>3. f \in Fps /\ cursor \in Nat
    BY <1>1, <1>2, NumberShapes DEF TypeOK
  <1>4. /\ ck' = [ck EXCEPT ![n] = c]
        /\ buffered' = [buffered EXCEPT ![f] = Append(@, c.id)]
        /\ UNCHANGED <<jobVars, rewritten, segment, dedup_queue, rewriteVars,
                       rewrite_queue, filterVars, storeVars, recipe>>
        /\ dedup' \in {"lookup", "send"} /\ lock' \in {"dedup", "free"}
        /\ cursor' \in {cursor + 1, 1}
    BY <1>2 DEF Looked
  <1>5. ck \in [Chunks -> Struct] /\ buffered \in [Fps -> Seq(Ids)]
    BY <1>1 DEF TypeOK, Struct
  <1>6. c.id \in Ids
    BY DEF Struct
  <1>7. Append(buffered[f], c.id) \in Seq(Ids)
    BY <1>3, <1>5, <1>6, AppendFacts
  <1> HIDE DEF n, f
  <1>8. /\ ck' \in [Chunks -> Struct] /\ ck'[n] = c
        /\ \A m \in Chunks : m # n => ck'[m] = ck[m]
    BY <1>2, <1>4, <1>5
  <1>9. /\ buffered' \in [Fps -> Seq(Ids)] /\ buffered'[f] = Append(buffered[f], c.id)
        /\ \A g \in Fps : g # f => buffered'[g] = buffered[g]
    BY <1>3, <1>4, <1>5, <1>7
  <1>10. cursor' \in Nat
    BY <1>3, <1>4
  <1> QED
    BY <1>2, <1>3, <1>4, <1>8, <1>9, <1>10 DEF n, f

\* A chunk is looked up.
LEMMA LookupInv ==
  ASSUME IInv, LookupChunk
  PROVE  IInv'
  <1> DEFINE n == LookedUp + 1
             f == content[n]
             L == Len(recipe)
  <1>1. TypeOK /\ DedupInPlace /\ Flow /\ LateIsLast
    BY DEF IInv
  <1>2. PICK c \in Struct :
          /\ Looked(c)
          /\ c.id # TEMPORARY_ID => Holds(c.id, f)
          /\ buffered[f] = <<>> /\ c.id = TEMPORARY_ID => ~c.dup /\ f \notin open.fps
          /\ cache' \in Seq(Written) /\ Len(cache') <= CacheSize
    BY LookupFinds DEF Struct
  <1>3. /\ DedupInPlace' /\ LookedUp' = n /\ Sent' = Sent
        /\ filter # "decide" /\ LookedUp \in Nat /\ n \in Chunks /\ f \in Fps
        /\ UNCHANGED <<jobVars, rewritten, segment, dedup_queue, rewriteVars,
                       rewrite_queue, filterVars, storeVars, recipe>>
        /\ ck' \in [Chunks -> Struct] /\ ck'[n] = c
        /\ \A m \in Chunks : m # n => ck'[m] = ck[m]
        /\ buffered' \in [Fps -> Seq(Ids)] /\ buffered'[f] = Append(buffered[f], c.id)
        /\ \A g \in Fps : g # f => buffered'[g] = buffered[g]
        /\ dedup' \in {"lookup", "send"} /\ lock' \in {"dedup", "free"} /\ cursor' \in Nat
    BY <1>2, LookedChanges
  <1> HIDE DEF f
  <1>4. /\ UNCHANGED <<content, algo, containers, open, kv, recipe, place, recently_unique,
                       recently_rewritten, segment, dedup_queue, chunk_queue, draining,
                       rewrite_queue, late, rewrite, filter, s>>
    BY <1>3 DEF jobVars, rewriteVars, filterVars, storeVars
  <1>5. /\ Chunks' = Chunks /\ Ids' = Ids /\ Items' = Items /\ Struct' = Struct /\ Taken' = Taken
        /\ OnTheWay' = OnTheWay
    BY <1>4 DEF Chunks, Ids, Items, Struct, Taken, OnTheWay
  <1>6. \A g : \A id : Holds(id, g)' <=> Holds(id, g)
    BY <1>4 DEF Holds
  <1>7. /\ L \in Nat /\ LookedUp \in Nat /\ L <= LookedUp /\ LookedUp + 1 = n /\ n \in Nat /\ n \notin L + 1 .. LookedUp
        /\ \A m \in L + 1 .. LookedUp : m \in Chunks /\ content[m] \in Fps
    BY <1>3, BehindLookedUp
  <1> HIDE DEF n
  <1>8. c.id \in Ids /\ buffered[f] \in Seq(Ids) /\ buffered \in [Fps -> Seq(Ids)]
    BY <1>1, <1>3 DEF Struct, TypeOK
  <1>9. cache' \in Seq(Ids)
    <2>1. Written \subseteq Ids
      BY DEF Written
    <2> QED
      BY <1>2, <2>1, SeqMonotonic
  <1>10. TypeOK'
    <2>1. ck' \in [Chunks -> [id : Ids, dup : BOOLEAN, denied : BOOLEAN, ooo : BOOLEAN,
                              sparse : BOOLEAN]]
      BY <1>3 DEF Struct
    <2>2. lock' \in {"free", "dedup", "filter"} /\ dedup' \in {"lock", "lookup", "send", "done"}
      BY <1>3
    <2> QED
      BY <1>1, <1>2, <1>3, <1>4, <1>5, <1>9, <2>1, <2>2 DEF TypeOK
  <1>11. Flow' /\ LateIsLast'
    <2>1. Flow'
      BY <1>1, <1>3, <1>4, <1>5, FlowKept
    <2> QED
      BY <1>1, <1>4, <2>1 DEF LateIsLast
  <1>12. Counted'
    <2>1. ASSUME NEW g \in Fps
          PROVE  Len(buffered'[g]) = Cardinality(Copies(g, L, n))
      <3>1. Len(buffered[g]) = Cardinality(Copies(g, L, LookedUp))
        BY DEF IInv, Counted
      <3>2. /\ IsFiniteSet(Copies(g, L, LookedUp))
            /\ Copies(g, L, n) = IF content[n] = g THEN Copies(g, L, LookedUp) \union {n}
                                 ELSE Copies(g, L, LookedUp)
            /\ n \notin Copies(g, L, LookedUp)
        <4>1. /\ IsFiniteSet(Copies(g, L, LookedUp))
              /\ Copies(g, L, LookedUp + 1)
                   = IF content[LookedUp + 1] = g THEN Copies(g, L, LookedUp) \union {LookedUp + 1}
                     ELSE Copies(g, L, LookedUp)
              /\ LookedUp + 1 \notin Copies(g, L, LookedUp)
          BY <1>7, CopiesFacts
        <4> QED
          BY <1>7, <4>1
      <3>3. CASE g = f
        <4>1. Len(buffered'[g]) = Len(buffered[g]) + 1
          BY <1>3, <1>8, <3>3, AppendFacts
        <4>2. Copies(g, L, n) = Copies(g, L, LookedUp) \union {n}
          BY <3>2, <3>3 DEF f
        <4>3. Cardinality(Copies(g, L, n)) = Cardinality(Copies(g, L, LookedUp)) + 1
          BY <3>2, <4>2, FS_AddElement
        <4> QED
          BY <3>1, <4>1, <4>3
      <3>4. CASE g # f
        BY <1>3, <3>1, <3>2, <3>4 DEF f
      <3> QED
        BY <3>3, <3>4
    <2>2. content' = content /\ recipe' = recipe /\ LookedUp' = n
      BY <1>3, <1>4
    <2> QED
      BY <2>1, <2>2 DEF Counted, Copies
  <1>13. StoreShape'
    <2>1. \A k \in DOMAIN cache' : cache'[k] + 1 \in DOMAIN containers
      BY <1>1, <1>2, <1>9, CacheShape
    <2> QED
      BY <1>4, <2>1 DEF IInv, StoreShape
  <1>14. PointersHold'
    <2>1. RecipeResolvable /\ \A m \in Chunks : m > LookedUp => ck[m].id = TEMPORARY_ID
      BY DEF IInv, PointersHold
    <2>2. \A k \in DOMAIN recipe' : Holds(recipe[k][2], recipe[k][1])'
      BY <1>4, <1>6, <2>1 DEF RecipeResolvable
    <2>3. \A m \in Chunks' : ck'[m].id # TEMPORARY_ID => Holds(ck[m].id, content[m])'
      BY <1>2, <1>3, <1>4, <1>5, <1>6, <2>1 DEF RecipeResolvable, f
    <2>4. ASSUME NEW g \in Fps, NEW id \in ToSet(buffered'[g]) \ {TEMPORARY_ID}
          PROVE  Holds(id, g)
      <3>1. \A i \in ToSet(buffered[g]) \ {TEMPORARY_ID} : Holds(i, g)
        BY <2>1 DEF RecipeResolvable
      <3>2. CASE g = f
        <4>1. ToSet(Append(buffered[g], c.id)) = ToSet(buffered[g]) \union {c.id}
          BY <1>8, <3>2, AppendToSet
        <4> QED
          BY <1>2, <1>3, <2>4, <3>1, <3>2, <4>1
      <3>3. CASE g # f
        BY <1>3, <3>1, <3>3
      <3> QED
        BY <3>2, <3>3
    <2>5. \A g \in DOMAIN kv' : Holds(kv[g], g)'
      BY <1>4, <1>6, <2>1 DEF RecipeResolvable
    <2>6. \A m \in Chunks' : m > LookedUp' => ck'[m].id = TEMPORARY_ID
      <3> SUFFICES ASSUME NEW m \in Chunks, m > n PROVE ck'[m].id = TEMPORARY_ID
        BY <1>3, <1>5
      <3>1. m # n /\ m > LookedUp
        BY <1>1, <1>3, <1>7, NumberShapes
      <3> QED
        BY <1>3, <2>1, <3>1
    <2>7. \A g \in Fps : \A id \in ToSet(buffered'[g]) \ {TEMPORARY_ID} : Holds(id, g)'
      BY <1>6, <2>4
    <2>8. RecipeResolvable'
      BY <2>2, <2>3, <2>5, <2>7 DEF RecipeResolvable
    <2> QED
      BY <1>3, <1>4, <2>6, <2>8 DEF PointersHold
  <1>15. DecidedHaveIds' /\ Undecided'
    BY <1>3, <1>4 DEF DecidedHaveIds, Undecided
  <1>16. FirstCopyIsNew'
    <2> SUFFICES ASSUME NEW m \in L + 1 .. n, FirstCopy(m)',
                        buffered'[content[m]][1] = TEMPORARY_ID
                 PROVE  ~ck'[m].dup /\ content[m] \notin open.fps
      BY <1>3, <1>4 DEF FirstCopyIsNew, Decided
    <2>1. FirstCopy(m)
      BY <1>4 DEF FirstCopy
    <2>2. CASE m # n
      <3>1. m \in L + 1 .. LookedUp
        BY <1>7, <2>2
      <3>2. /\ content[m] \in Fps /\ buffered[content[m]] \in Seq(Ids)
            /\ Len(buffered[content[m]]) \in Nat \ {0}
        BY <3>1, BufferHead
      <3>3. buffered'[content[m]][1] = buffered[content[m]][1]
        <4>1. \A x \in Ids : Append(buffered[content[m]], x)[1] = buffered[content[m]][1]
          BY <3>2, AppendFacts
        <4>2. buffered'[content[m]] = buffered[content[m]]
              \/ buffered'[content[m]] = Append(buffered[content[m]], c.id)
          BY <1>3, <3>2
        <4> QED
          BY <1>8, <4>1, <4>2
      <3>4. ~ck[m].dup /\ content[m] \notin open.fps
        BY <1>3, <2>1, <3>1, <3>3 DEF IInv, FirstCopyIsNew, Decided
      <3> QED
        BY <1>3, <1>7, <2>2, <3>1, <3>4
    <2>3. CASE m = n
      <3>1. Copies(f, L, LookedUp) = {}
        BY <1>7, <2>1, <2>3 DEF FirstCopy, Copies, f
      <3>2. Len(buffered[f]) = 0
        BY <1>3, <3>1, FS_EmptySet DEF IInv, Counted
      <3>3. buffered[f] = <<>>
        BY <1>8, <3>2, EmptySeq
      <3>4. Append(buffered[f], c.id)[1] = c.id
        BY <1>8, <3>2, AppendFacts
      <3>5. c.id = TEMPORARY_ID
        BY <1>3, <2>3, <3>4 DEF f
      <3> QED
        BY <1>2, <1>3, <2>3, <3>3, <3>5 DEF f
    <2> QED
      BY <2>2, <2>3
  <1> QED
    BY <1>3, <1>10, <1>11, <1>12, <1>13, <1>14, <1>15, <1>16 DEF IInv

-----------------------------------------------------------------------------
(* The filter thread checks its segment against the index buffer.          *)

\* The chunks of the segment under way were looked up and are not in the recipe.
LEMMA SegmentUnderWay ==
  ASSUME IInv, filter \in {"lock", "decide"}
  PROVE  /\ Taken = Len(s) /\ Len(s) \in Nat /\ Len(recipe) \in Nat /\ LookedUp \in Nat
         /\ Len(recipe) + Len(s) <= LookedUp
         /\ \A k \in 1 .. Len(s) : s[k] = Len(recipe) + k /\ s[k] \in Chunks
         /\ ToSet(s) = Len(recipe) + 1 .. Len(recipe) + Len(s)
         /\ ToSet(s) \subseteq Len(recipe) + 1 .. LookedUp /\ ToSet(s) \subseteq Chunks
  <1>1. /\ Taken = Len(s) /\ Len(recipe) \in Nat /\ LookedUp \in Nat
        /\ Len(recipe) + Len(s) <= LookedUp
        /\ \A n \in Len(recipe) + 1 .. LookedUp : n \in Chunks
    BY BehindLookedUp DEF Taken
  <1>2. Len(s) \in Nat /\ DOMAIN s = 1 .. Len(s) /\ \A k \in 1 .. Len(s) : s[k] \in Chunks
    BY NumberShapes DEF IInv
  <1>3. \A k \in 1 .. Len(s) : s[k] = Len(recipe) + k
    BY <1>1 DEF IInv, Flow
  <1>4. ToSet(s) = {s[k] : k \in 1 .. Len(s)}
    BY <1>2 DEF ToSet
  <1>5. ASSUME NEW n PROVE n \in ToSet(s) <=> n \in Len(recipe) + 1 .. Len(recipe) + Len(s)
    <2>1. n \in ToSet(s) => n \in Len(recipe) + 1 .. Len(recipe) + Len(s)
      BY <1>1, <1>2, <1>3, <1>4
    <2>2. ASSUME n \in Len(recipe) + 1 .. Len(recipe) + Len(s) PROVE n \in ToSet(s)
      <3>1. n - Len(recipe) \in 1 .. Len(s) /\ Len(recipe) + (n - Len(recipe)) = n
        BY <1>1, <1>2, <2>2
      <3> QED
        BY <1>3, <1>4, <3>1
    <2> QED
      BY <2>1, <2>2
  <1>6. ToSet(s) = Len(recipe) + 1 .. Len(recipe) + Len(s)
    BY <1>5
  <1>7. Len(recipe) + 1 .. Len(recipe) + Len(s) \subseteq Len(recipe) + 1 .. LookedUp
    BY <1>1, <1>2
  <1>8. ToSet(s) \subseteq Chunks
    BY <1>2, <1>4
  <1> QED
    BY <1>1, <1>2, <1>3, <1>6, <1>7, <1>8

\* What index_check_buffer does to a chunk of the segment.
LEMMA CheckedKeeps ==
  ASSUME IInv, filter = "lock", NEW n \in ToSet(s)
  PROVE  /\ CheckBuffer(n) \in Struct /\ CheckBuffer(n).dup = ck[n].dup
         /\ ck[n].id <= CheckBuffer(n).id
         /\ CheckBuffer(n).id # TEMPORARY_ID => Holds(CheckBuffer(n).id, content[n])
         /\ CheckBuffer(n).dup /\ CheckBuffer(n).id = TEMPORARY_ID =>
              buffered[content[n]][1] = TEMPORARY_ID
  <1> DEFINE f == content[n]
             id == Head(buffered[f])
             c == ck[n]
  <1>1. TypeOK /\ RecipeResolvable /\ n \in Chunks /\ n \in Len(recipe) + 1 .. LookedUp
    BY SegmentUnderWay DEF IInv, PointersHold
  <1>2. /\ f \in Fps /\ buffered[f] \in Seq(Ids) /\ Len(buffered[f]) \in Nat \ {0}
        /\ buffered[f] # <<>> /\ buffered[f][1] \in Ids
    BY <1>1, BufferHead
  <1>3. id = buffered[f][1] /\ id \in ToSet(buffered[f]) /\ id \in Ids
    <2>1. DOMAIN buffered[f] = 1 .. Len(buffered[f]) /\ 1 \in 1 .. Len(buffered[f])
      BY <1>2, SeqFacts
    <2>2. id = buffered[f][1]
      BY <1>2, HeadTailProperties
    <2> QED
      BY <1>2, <2>1, <2>2 DEF ToSet
  <1>4. c \in Struct
    BY <1>1 DEF TypeOK, Struct
  <1>5. \A i \in Ids : i \in Int /\ TEMPORARY_ID <= i
    BY <1>1, NumberShapes DEF Ids, TEMPORARY_ID
  <1>6. /\ id # TEMPORARY_ID => Holds(id, f)
        /\ c.id # TEMPORARY_ID => Holds(c.id, f)
    BY <1>1, <1>2, <1>3 DEF RecipeResolvable
  <1>7. CheckBuffer(n) = IF ((c.dup /\ c.id = TEMPORARY_ID) \/ c.ooo \/ c.sparse) /\ id > c.id
                         THEN [c EXCEPT !.id = id, !.denied = @ \/ c.id # TEMPORARY_ID]
                         ELSE c
    BY DEF CheckBuffer
  <1>8. c.id \in Ids /\ c.dup \in BOOLEAN /\ TEMPORARY_ID \in Int
    BY <1>4 DEF Struct, TEMPORARY_ID
  <1> HIDE DEF c, id, f
  <1>9. CASE ((c.dup /\ c.id = TEMPORARY_ID) \/ c.ooo \/ c.sparse) /\ id > c.id
    <2> DEFINE e == [c EXCEPT !.id = id, !.denied = @ \/ c.id # TEMPORARY_ID]
    <2>1. e \in Struct /\ e.dup = c.dup /\ e.id = id
      BY <1>3, <1>4 DEF Struct
    <2>2. CheckBuffer(n) = e
      BY <1>7, <1>9
    <2> HIDE DEF e
    <2>3. id \in Int /\ c.id \in Int /\ c.id <= id /\ TEMPORARY_ID <= c.id /\ id # TEMPORARY_ID
      BY <1>3, <1>5, <1>8, <1>9
    <2>4. Holds(id, f)
      BY <1>6, <2>3
    <2> QED
      BY <2>1, <2>2, <2>3, <2>4 DEF c, f
  <1>10. CASE ~(((c.dup /\ c.id = TEMPORARY_ID) \/ c.ooo \/ c.sparse) /\ id > c.id)
    <2>1. CheckBuffer(n) = c
      BY <1>7, <1>10
    <2>2. c.id <= c.id
      BY <1>5, <1>8
    <2>3. c.dup /\ c.id = TEMPORARY_ID => id = TEMPORARY_ID
      BY <1>3, <1>5, <1>8, <1>10
    <2> QED
      BY <1>3, <1>4, <1>6, <2>1, <2>2, <2>3 DEF c, f
  <1> QED
    BY <1>9, <1>10

\* The filter thread takes the lock and checks its segment.
LEMMA FilterLockInv ==
  ASSUME IInv, FilterLock
  PROVE  IInv'
  <1> DEFINE L == Len(recipe)
  <1>1. TypeOK /\ DedupInPlace /\ Flow /\ LateIsLast
    BY DEF IInv
  <1>2. /\ filter = "lock" /\ lock = "free" /\ lock' = "filter" /\ filter' = "decide"
        /\ ck' = [n \in Chunks |-> IF n \in ToSet(s) THEN CheckBuffer(n) ELSE ck[n]]
        /\ place' = 1
        /\ recently_unique' = Empty /\ recently_rewritten' = Empty
        /\ UNCHANGED <<jobVars, history, buffered, cache, dedupVars, dedup_queue,
                       rewriteVars, rewrite_queue, s, storeVars, recipe>>
    BY DEF FilterLock
  <1>3. UNCHANGED <<content, algo, containers, open, kv, recipe, segment, cursor, dedup, cache,
                    buffered, dedup_queue, chunk_queue, draining, rewrite_queue, late, rewrite, s>>
    BY <1>2 DEF jobVars, dedupVars, rewriteVars, storeVars
  <1>4. /\ Chunks' = Chunks /\ Ids' = Ids /\ Items' = Items /\ Taken' = Taken
        /\ OnTheWay' = OnTheWay
    BY <1>2, <1>3 DEF Chunks, Ids, Items, Taken, OnTheWay
  <1>5. \A g : \A id : Holds(id, g)' <=> Holds(id, g)
    BY <1>3 DEF Holds
  <1>6. /\ Taken = Len(s) /\ Len(s) \in Nat /\ L \in Nat /\ LookedUp \in Nat
        /\ \A k \in 1 .. Len(s) : s[k] = L + k /\ s[k] \in Chunks
        /\ ToSet(s) \subseteq L + 1 .. LookedUp /\ ToSet(s) \subseteq Chunks
        /\ \A k \in 1 .. Len(s) : s[k] \in ToSet(s)
    <2>1. DOMAIN s = 1 .. Len(s)
      BY <1>1, NumberShapes
    <2> QED
      BY <1>2, <2>1, SegmentUnderWay DEF ToSet
  <1>7. LookedUp' = LookedUp /\ Sent' = Sent /\ DedupInPlace'
    BY <1>1, <1>2, <1>3, OthersKeepNumbers DEF DedupInPlace
  <1>8. ck \in [Chunks -> Struct]
    BY <1>1 DEF TypeOK, Struct
  <1>9. \A n \in Chunks : ck'[n] \in Struct /\ ck'[n].dup = ck[n].dup
    BY <1>2, <1>8, CheckedKeeps
  <1>10. TypeOK'
    <2>1. ck' \in [Chunks -> Struct]
      BY <1>2, <1>9
    <2>2. ck' \in [Chunks -> [id : Ids, dup : BOOLEAN, denied : BOOLEAN, ooo : BOOLEAN,
                              sparse : BOOLEAN]]
      BY <2>1 DEF Struct
    <2>3. Empty \in [DOMAIN Empty -> Ids]
      BY DEF Empty
    <2> QED
      BY <1>1, <1>2, <1>3, <1>4, <2>2, <2>3 DEF TypeOK
  <1>11. Flow'
    BY <1>1, <1>3, <1>4, <1>7, FlowKept
  <1>12. LateIsLast'
    BY <1>1, <1>2, <1>3 DEF LateIsLast
  <1>13. Counted' /\ StoreShape'
    BY <1>3, <1>7 DEF IInv, Counted, Copies, StoreShape
  <1>14. PointersHold'
    <2>1. RecipeResolvable /\ \A n \in Chunks : n > LookedUp => ck[n].id = TEMPORARY_ID
      BY DEF IInv, PointersHold
    <2>2. \A k \in DOMAIN recipe' : Holds(recipe[k][2], recipe[k][1])'
      BY <1>3, <1>5, <2>1 DEF RecipeResolvable
    <2>3. \A n \in Chunks' : ck'[n].id # TEMPORARY_ID => Holds(ck[n].id, content[n])'
      <3> SUFFICES ASSUME NEW n \in Chunks, ck'[n].id # TEMPORARY_ID
                   PROVE  Holds(ck'[n].id, content[n])
        BY <1>3, <1>4, <1>5
      <3> QED
        BY <1>2, <2>1, CheckedKeeps DEF RecipeResolvable
    <2>4. \A g \in Fps : \A id \in ToSet(buffered'[g]) \ {TEMPORARY_ID} : Holds(id, g)'
      BY <1>3, <1>5, <2>1 DEF RecipeResolvable
    <2>5. \A g \in DOMAIN kv' : Holds(kv[g], g)'
      BY <1>3, <1>5, <2>1 DEF RecipeResolvable
    <2>6. ASSUME NEW n \in Chunks, n > LookedUp PROVE ck'[n].id = TEMPORARY_ID
      <3>1. n \notin ToSet(s)
        BY <1>6, <2>6
      <3> QED
        BY <1>2, <2>1, <2>6, <3>1
    <2>7. RecipeResolvable'
      BY <2>2, <2>3, <2>4, <2>5 DEF RecipeResolvable
    <2>8. DOMAIN recently_unique' = {} /\ DOMAIN recently_rewritten' = {}
      BY <1>2 DEF Empty
    <2> QED
      BY <1>4, <1>7, <2>6, <2>7, <2>8 DEF PointersHold
  <1>15. DecidedHaveIds'
    BY <1>2, <1>3, <1>6 DEF DecidedHaveIds
  <1>16. Undecided'
    <2>1. DOMAIN recently_rewritten' = {}
      BY <1>2 DEF Empty
    <2>2. ASSUME NEW k \in 1 .. Len(s), ck'[s[k]].dup, ck'[s[k]].id = TEMPORARY_ID
          PROVE  buffered[content[s[k]]][1] = TEMPORARY_ID
      <3>1. s[k] \in ToSet(s) /\ s[k] \in Chunks
        BY <1>6
      <3>2. ck'[s[k]] = CheckBuffer(s[k])
        BY <1>2, <3>1
      <3> QED
        BY <1>2, <2>2, <3>1, <3>2, CheckedKeeps
    <2> QED
      BY <1>2, <1>3, <2>1, <2>2 DEF Undecided
  <1>17. FirstCopyIsNew'
    <2> SUFFICES ASSUME NEW m \in L + 1 .. LookedUp, FirstCopy(m)',
                        buffered[content[m]][1] = TEMPORARY_ID
                 PROVE  ~ck'[m].dup /\ content[m] \notin open.fps
      BY <1>2, <1>3, <1>6, <1>7 DEF FirstCopyIsNew, Decided
    <2>1. FirstCopy(m)
      BY <1>3 DEF FirstCopy
    <2>2. ~ck[m].dup /\ content[m] \notin open.fps
      BY <1>2, <2>1 DEF IInv, FirstCopyIsNew, Decided
    <2>3. m \in Chunks
      BY BehindLookedUp
    <2> QED
      BY <1>9, <2>2, <2>3
  <1> QED
    BY <1>7, <1>10, <1>11, <1>12, <1>13, <1>14, <1>15, <1>16, <1>17 DEF IInv

-----------------------------------------------------------------------------
(* The store grows.                                                        *)

\* An id that leads to a chunk is that of a container.
LEMMA HoldsIds ==
  ASSUME TypeOK, StoreShape, NEW id, NEW f, Holds(id, f)
  PROVE  id # TEMPORARY_ID
  <1>1. Len(containers) \in Nat /\ DOMAIN containers = 1 .. Len(containers)
    BY NumberShapes
  <1>2. CASE id + 1 \in DOMAIN containers
    BY <1>1, <1>2 DEF TEMPORARY_ID
  <1>3. CASE id = open.id /\ f \in open.fps
    <2>1. open # NoContainer
      BY <1>3 DEF NoContainer
    <2> QED
      BY <1>1, <1>3, <2>1 DEF StoreShape, TEMPORARY_ID
  <1> QED
    BY <1>2, <1>3 DEF Holds

\* The container buffer becomes a container: what was in it or in a container still
\* is, whatever the buffer holds afterwards, and the key-value store leads there.
LEMMA SealFacts ==
  ASSUME TypeOK, StoreShape, RecipeResolvable, Seal, open # NoContainer
  PROVE  /\ containers' \in Seq(SUBSET Fps) /\ Len(containers') = Len(containers) + 1
         /\ DOMAIN containers' = 1 .. Len(containers')
         /\ open.id = Len(containers)
         /\ \A id, g : Holds(id, g) => id + 1 \in DOMAIN containers' /\ g \in containers'[id + 1]
         /\ kv' = [g \in DOMAIN kv' |-> kv'[g]] /\ DOMAIN kv' \subseteq Fps
         /\ \A g \in DOMAIN kv' :
              kv'[g] + 1 \in DOMAIN containers' /\ g \in containers'[kv'[g] + 1]
         /\ \A g \in DOMAIN kv' : kv'[g] \in -1 .. Len(containers')
  <1> DEFINE l == Len(containers)
  <1>1. /\ containers \in Seq(SUBSET Fps) /\ open.fps \in SUBSET Fps /\ l \in Nat
        /\ DOMAIN containers = 1 .. l /\ open.id = l
        /\ DOMAIN kv \subseteq Fps /\ \A g \in DOMAIN kv : kv[g] \in Ids
        /\ Sampled \subseteq Fps /\ Ids \subseteq Int
    BY NumberShapes, PipelineAssumption DEF TypeOK, StoreShape
  <1>2. /\ containers' = Append(containers, open.fps)
        /\ kv' = [f \in DOMAIN kv \union (open.fps \intersect Sampled) |->
                    IF f \in open.fps THEN open.id ELSE kv[f]]
    BY DEF Seal
  <1>3. /\ containers' \in Seq(SUBSET Fps) /\ Len(containers') = l + 1
        /\ DOMAIN containers' = 1 .. l + 1 /\ containers'[l + 1] = open.fps
        /\ \A k \in 1 .. l : containers'[k] = containers[k]
    BY <1>1, <1>2, AppendFacts
  <1>4. ASSUME NEW id, NEW g, Holds(id, g)
        PROVE  id + 1 \in DOMAIN containers' /\ g \in containers'[id + 1]
    <2>1. CASE id + 1 \in DOMAIN containers /\ g \in containers[id + 1]
      BY <1>1, <1>3, <2>1
    <2>2. CASE id = open.id /\ g \in open.fps
      BY <1>1, <1>3, <2>2
    <2> QED
      BY <1>4, <2>1, <2>2 DEF Holds
  <1>5. DOMAIN kv' = DOMAIN kv \union (open.fps \intersect Sampled) /\ DOMAIN kv' \subseteq Fps
    BY <1>1, <1>2
  <1>6. ASSUME NEW g \in DOMAIN kv'
        PROVE  /\ kv'[g] + 1 \in DOMAIN containers' /\ g \in containers'[kv'[g] + 1]
               /\ kv'[g] \in -1 .. Len(containers')
    <2>1. CASE g \in open.fps
      <3>1. kv'[g] = l
        BY <1>1, <1>2, <1>5, <2>1
      <3> QED
        BY <1>1, <1>3, <2>1, <3>1
    <2>2. CASE g \notin open.fps
      <3>1. g \in DOMAIN kv /\ kv'[g] = kv[g]
        BY <1>2, <1>5, <2>2
      <3>2. Holds(kv[g], g) /\ kv[g] \in Int
        BY <1>1, <3>1 DEF RecipeResolvable
      <3>3. kv[g] + 1 \in DOMAIN containers' /\ g \in containers'[kv[g] + 1]
        BY <1>4, <3>2
      <3>4. kv[g] \in -1 .. Len(containers')
        BY <1>1, <1>3, <3>2, <3>3
      <3> QED
        BY <3>1, <3>3, <3>4
    <2> QED
      BY <2>1, <2>2
  <1>7. kv' = [g \in DOMAIN kv' |-> kv'[g]]
    BY <1>2, <1>5
  <1> QED
    BY <1>1, <1>3, <1>4, <1>5, <1>6, <1>7

\* A chunk enters the container buffer.  The containers that there are keep
\* their ids, and none is newer than the buffer.
LEMMA StoreGrows ==
  ASSUME IInv, NEW f \in Fps,
         IF open # NoContainer /\ Overflow THEN Seal ELSE UNCHANGED <<containers, kv>>,
         open' = [Target EXCEPT !.fps = @ \union {f}], cache' = cache
  PROVE  /\ containers' \in Seq(SUBSET Fps) /\ Len(containers') \in Nat
         /\ Ids \subseteq Ids' /\ Target.id \in Ids' /\ Target.id # TEMPORARY_ID
         /\ \A id \in Ids : id <= Target.id
         /\ open' \in [id : Ids', fps : SUBSET Fps]
         /\ kv' \in [DOMAIN kv' -> Ids'] /\ DOMAIN kv' \subseteq Fps
         /\ StoreShape' /\ \A g \in DOMAIN kv' : Holds(kv[g], g)'
         /\ \A id, g : Holds(id, g) => Holds(id, g)'
         /\ \A id : id = Target.id => Holds(id, f)'
         /\ \A g \in open'.fps : g # f => g \in open.fps
         /\ f \in Target.fps => f \in open.fps
  <1> DEFINE l == Len(containers)
             T == Target
  <1>1. TypeOK /\ StoreShape /\ RecipeResolvable
    BY DEF IInv, PointersHold
  <1>2. /\ containers \in Seq(SUBSET Fps) /\ l \in Nat /\ DOMAIN containers = 1 .. l
        /\ open \in [id : Ids, fps : SUBSET Fps] /\ Ids = -1 .. l
        /\ open # NoContainer => open.id = l
        /\ open = NoContainer => open.fps = {}
    <2>1. containers \in Seq(SUBSET Fps) /\ l \in Nat /\ DOMAIN containers = 1 .. l
      BY <1>1, NumberShapes DEF TypeOK
    <2>2. open \in [id : Ids, fps : SUBSET Fps]
      BY <1>1 DEF TypeOK
    <2>3. Ids = -1 .. l
      BY DEF Ids, TEMPORARY_ID
    <2>4. /\ open # NoContainer => open.id = l
          /\ open = NoContainer => open.fps = {}
      BY <1>1 DEF StoreShape, NoContainer
    <2> QED
      BY <2>1, <2>2, <2>3, <2>4
  <1> DEFINE m == Len(containers')
  <1>3. /\ containers' \in Seq(SUBSET Fps) /\ m \in Nat /\ DOMAIN containers' = 1 .. m /\ l <= m
        /\ T = [id |-> m, fps |-> T.fps] /\ T.fps \in SUBSET Fps /\ T.fps \subseteq open.fps
        /\ DOMAIN kv' \subseteq Fps /\ kv' = [g \in DOMAIN kv' |-> kv'[g]]
        /\ \A g \in DOMAIN kv' :
             kv'[g] + 1 \in DOMAIN containers' /\ g \in containers'[kv'[g] + 1]
        /\ \A g \in DOMAIN kv' : kv'[g] \in -1 .. m
        /\ \A id, g : Holds(id, g) =>
             \/ id + 1 \in DOMAIN containers' /\ g \in containers'[id + 1]
             \/ id = m /\ g \in T.fps
    <2>1. CASE open # NoContainer /\ Overflow
      <3>1. Seal
        BY <2>1
      <3>2. T = [id |-> l + 1, fps |-> {}]
        BY <1>2, <2>1 DEF Target
      <3>3. /\ containers' \in Seq(SUBSET Fps) /\ m = l + 1 /\ DOMAIN containers' = 1 .. m
            /\ DOMAIN kv' \subseteq Fps /\ kv' = [g \in DOMAIN kv' |-> kv'[g]]
            /\ \A g \in DOMAIN kv' :
                 kv'[g] + 1 \in DOMAIN containers' /\ g \in containers'[kv'[g] + 1]
            /\ \A g \in DOMAIN kv' : kv'[g] \in -1 .. m
            /\ \A id, g : Holds(id, g) => id + 1 \in DOMAIN containers' /\ g \in containers'[id + 1]
        BY <1>1, <2>1, <3>1, SealFacts
      <3> HIDE DEF T, m, l
      <3> QED
        BY <1>2, <3>2, <3>3
    <2>2. CASE ~(open # NoContainer /\ Overflow)
      <3>1. containers' = containers /\ kv' = kv
        BY <2>2
      <3>2. /\ T = [id |-> l, fps |-> T.fps] /\ T.fps \in SUBSET Fps /\ T.fps \subseteq open.fps
            /\ open # NoContainer => T.fps = open.fps
        BY <1>2, <2>2 DEF Target
      <3>3. /\ DOMAIN kv \subseteq Fps /\ kv \in [DOMAIN kv -> Ids]
            /\ \A g \in DOMAIN kv : Holds(kv[g], g) /\ kv[g] + 1 \in DOMAIN containers
        BY <1>1 DEF TypeOK, StoreShape, RecipeResolvable
      <3>4. \A id, g : Holds(id, g) =>
              \/ id + 1 \in DOMAIN containers /\ g \in containers[id + 1]
              \/ id = l /\ g \in T.fps
        BY <1>2, <3>2 DEF Holds
      <3>5. \A g \in DOMAIN kv : g \in containers[kv[g] + 1]
        <4>1. \A i \in Ids : i + 1 \in DOMAIN containers => i # l
          BY <1>2
        <4> QED
          BY <3>3, <3>4, <4>1
      <3> HIDE DEF T
      <3> QED
        BY <1>2, <3>1, <3>2, <3>3, <3>4, <3>5
    <2> QED
      BY <2>1, <2>2
  <1> HIDE DEF T
  <1>4. /\ T.id = m /\ open' = [id |-> m, fps |-> T.fps \union {f}]
        /\ open'.id = m /\ open'.fps = T.fps \union {f}
    <2>1. open' = [T EXCEPT !.fps = @ \union {f}]
      BY DEF T
    <2> DEFINE t == T.fps
    <2>2. T = [id |-> m, fps |-> t]
      BY <1>3
    <2> HIDE DEF t, m
    <2>3. T.id = m /\ open' = [id |-> m, fps |-> t \union {f}]
      BY <2>1, <2>2
    <2>4. open'.id = m /\ open'.fps = t \union {f}
      BY <2>3
    <2> QED
      BY <2>3, <2>4 DEF t
  <1>5. Ids' = -1 .. m
    BY DEF Ids, TEMPORARY_ID
  <1>6. Ids \subseteq Ids' /\ T.id \in Ids' /\ T.id # TEMPORARY_ID /\ \A id \in Ids : id <= T.id
    BY <1>2, <1>3, <1>4, <1>5 DEF TEMPORARY_ID
  <1>7. open' \in [id : Ids', fps : SUBSET Fps]
    <2>1. T.fps \union {f} \in SUBSET Fps /\ m \in -1 .. m
      BY <1>3
    <2> HIDE DEF m
    <2> QED
      BY <1>4, <1>5, <2>1
  <1>8. kv' \in [DOMAIN kv' -> Ids'] /\ DOMAIN kv' \subseteq Fps
    BY <1>3, <1>5
  <1>9. \A g \in DOMAIN kv' : Holds(kv[g], g)'
    BY <1>3 DEF Holds
  <1>10. \A id, g : Holds(id, g) => Holds(id, g)'
    BY <1>3, <1>4 DEF Holds
  <1>11. \A id : id = T.id => Holds(id, f)'
    BY <1>4 DEF Holds
  <1>12. StoreShape'
    <2>1. \A k \in DOMAIN cache : cache[k] + 1 \in DOMAIN containers'
      BY <1>1, <1>2, <1>3 DEF StoreShape
    <2> QED
      BY <1>3, <1>4, <2>1 DEF StoreShape
  <1> QED
    BY <1>3, <1>4, <1>6, <1>7, <1>8, <1>9, <1>10, <1>11, <1>12 DEF T

-----------------------------------------------------------------------------
(* A chunk is decided.                                                     *)

\* The chunk whose turn it is: its copy in the segment or in the buffer is found.
LEMMA ResolvedFacts ==
  ASSUME IInv, filter = "decide", place <= Len(s), Resolvable(s[place]), NEW n, n = s[place]
  PROVE  /\ place \in 1 .. Len(s) /\ n = Len(recipe) + place /\ n \in Chunks
         /\ n \in Len(recipe) + 1 .. LookedUp /\ content[n] \in Fps
         /\ Resolved(n) \in Struct /\ Resolved(n).dup = ck[n].dup
         /\ ck[n].id <= Resolved(n).id
         /\ Resolved(n).dup => Resolved(n).id # TEMPORARY_ID
         /\ Resolved(n).id # TEMPORARY_ID => Holds(Resolved(n).id, content[n])
  <1> DEFINE f == content[n]
             b == ck[n]
             c == IF b.dup /\ b.id = TEMPORARY_ID THEN [b EXCEPT !.id = recently_unique[f]] ELSE b
  <1>1. /\ TypeOK /\ StoreShape /\ RecipeResolvable
        /\ \A g \in DOMAIN recently_unique : Holds(recently_unique[g], g)
        /\ \A g \in DOMAIN recently_rewritten : Holds(recently_rewritten[g], g)
    BY DEF IInv, PointersHold
  <1>2. /\ place \in 1 .. Len(s) /\ Len(s) \in Nat
        /\ n = Len(recipe) + place /\ n \in Chunks /\ n \in ToSet(s)
        /\ n \in Len(recipe) + 1 .. LookedUp
    <2>1. place \in 1 .. Len(s) + 1
      BY DEF IInv, DecidedHaveIds
    <2>2. place \in 1 .. Len(s) /\ Len(s) \in Nat /\ DOMAIN s = 1 .. Len(s)
      BY <1>1, <2>1, NumberShapes
    <2>3. n \in ToSet(s)
      BY <2>2 DEF ToSet
    <2> QED
      BY <2>2, <2>3, SegmentUnderWay
  <1>3. f \in Fps
    BY <1>1, <1>2, NumberShapes
  <1>4. b \in Struct
    BY <1>1, <1>2 DEF TypeOK, Struct
  <1>5. \A id \in Ids : id \in Int /\ TEMPORARY_ID <= id
    BY <1>1, NumberShapes DEF Ids, TEMPORARY_ID
  <1>6. /\ f \in DOMAIN recently_rewritten => b.id <= recently_rewritten[f]
        /\ b.id # TEMPORARY_ID => Holds(b.id, f)
        /\ b.dup /\ b.id = TEMPORARY_ID => f \in DOMAIN recently_unique
    <2>1. place \in place .. Len(s)
      BY <1>1, <1>2 DEF TypeOK
    <2>2. f \in DOMAIN recently_rewritten => b.id <= recently_rewritten[f]
      BY <2>1 DEF IInv, Undecided
    <2> QED
      BY <1>1, <1>2, <2>2 DEF RecipeResolvable, Resolvable
  <1>7. /\ \A g \in DOMAIN recently_unique : recently_unique[g] \in Ids /\ recently_unique[g] # TEMPORARY_ID
        /\ \A g \in DOMAIN recently_rewritten :
             recently_rewritten[g] \in Ids /\ recently_rewritten[g] # TEMPORARY_ID
    BY <1>1, HoldsIds DEF TypeOK
  <1>8. Resolved(n) = IF f \in DOMAIN recently_rewritten
                      THEN [c EXCEPT !.id = recently_rewritten[f], !.denied = TRUE] ELSE c
    BY DEF Resolved
  <1>9. b.id \in Ids
    BY <1>4 DEF Struct
  <1>10. TEMPORARY_ID \in Int
    BY DEF TEMPORARY_ID
  <1> HIDE DEF b, f
  <1>11. /\ c \in Struct /\ c.dup = b.dup /\ b.id <= c.id /\ (c.dup => c.id # TEMPORARY_ID)
         /\ c.id # TEMPORARY_ID => Holds(c.id, f)
    <2>1. CASE b.dup /\ b.id = TEMPORARY_ID
      <3> DEFINE i == recently_unique[f]
      <3>1. i \in Ids /\ i # TEMPORARY_ID /\ Holds(i, f)
        BY <1>1, <1>6, <1>7, <2>1
      <3>2. c = [b EXCEPT !.id = i]
        BY <2>1
      <3> HIDE DEF i, c
      <3>3. c \in Struct /\ c.dup = b.dup /\ c.id = i
        BY <1>4, <3>1, <3>2 DEF Struct
      <3> QED
        BY <1>5, <2>1, <3>1, <3>3
    <2>2. CASE ~(b.dup /\ b.id = TEMPORARY_ID)
      <3>1. c = b /\ b.id <= b.id
        BY <1>5, <1>9, <2>2
      <3> HIDE DEF c
      <3> QED
        BY <1>4, <1>6, <2>2, <3>1
    <2> QED
      BY <2>1, <2>2
  <1> HIDE DEF c
  <1>12. CASE f \in DOMAIN recently_rewritten
    <2> DEFINE i == recently_rewritten[f]
               r == [c EXCEPT !.id = i, !.denied = TRUE]
    <2>1. i \in Ids /\ i # TEMPORARY_ID /\ Holds(i, f) /\ b.id <= i
      BY <1>1, <1>6, <1>7, <1>12
    <2>2. Resolved(n) = r
      BY <1>8, <1>12
    <2> HIDE DEF i
    <2>3. r \in Struct /\ r.dup = c.dup /\ r.id = i
      BY <1>11, <2>1 DEF Struct
    <2> HIDE DEF r
    <2> QED
      BY <1>2, <1>3, <1>11, <2>1, <2>2, <2>3 DEF b, f
  <1>13. CASE f \notin DOMAIN recently_rewritten
    <2>1. Resolved(n) = c
      BY <1>8, <1>13
    <2> QED
      BY <1>2, <1>3, <1>11, <2>1 DEF b, f
  <1> QED
    BY <1>12, <1>13

\* A new entry of one of the tables of the segment.
LEMMA NewEntry ==
  ASSUME NEW f, NEW id, NEW t, NEW u, u = Entered(t, f, id)
  PROVE  /\ DOMAIN u = DOMAIN t \union {f} /\ u[f] = id
         /\ \A g \in DOMAIN t : g # f => u[g] = t[g]
         /\ \A S : id \in S /\ (\A g \in DOMAIN t : t[g] \in S) => u \in [DOMAIN u -> S]
  BY DEF Entered

\* What deciding about the chunk n does to the store, the tables and the chunk.
DecisionOf(n) ==
  /\ containers' \in Seq(SUBSET Fps) /\ Ids \subseteq Ids'
  /\ open' \in [id : Ids', fps : SUBSET Fps]
  /\ kv' \in [DOMAIN kv' -> Ids'] /\ DOMAIN kv' \subseteq Fps
  /\ StoreShape' /\ \A g \in DOMAIN kv' : Holds(kv[g], g)'
  /\ \A id, g : Holds(id, g) => Holds(id, g)'
  /\ \A g \in open'.fps : g # content[n] => g \in open.fps
  /\ recently_unique' \in [DOMAIN recently_unique' -> Ids']
  /\ recently_rewritten' \in [DOMAIN recently_rewritten' -> Ids']
  /\ \A g \in DOMAIN recently_unique' : Holds(recently_unique[g], g)'
  /\ \A g \in DOMAIN recently_rewritten' : Holds(recently_rewritten[g], g)'
  /\ DOMAIN recently_unique \subseteq DOMAIN recently_unique'
  /\ \A g \in DOMAIN recently_rewritten' :
       \/ g \in DOMAIN recently_rewritten /\ recently_rewritten'[g] = recently_rewritten[g]
       \/ \A id \in Ids : id <= recently_rewritten'[g]
  /\ ck' \in [Chunks -> Struct'] /\ \A m \in Chunks : m # n => ck'[m] = ck[m]
  /\ ck[n].id <= ck'[n].id /\ ck'[n].id # TEMPORARY_ID
  /\ Holds(ck[n].id, content[n])'
  /\ ~ck[n].dup => content[n] \in DOMAIN recently_unique' \union open.fps

\* The chunk is written.
LEMMA WriteDecides ==
  ASSUME IInv, filter = "decide", NEW n \in Chunks, NEW c \in Struct,
         c.dup = ck[n].dup, WriteChunk(n, c), UNCHANGED <<content, cache>>
  PROVE  DecisionOf(n)
  <1>1. /\ TypeOK /\ content[n] \in Fps /\ ck \in [Chunks -> Struct] /\ Chunks' = Chunks
        /\ \A g \in DOMAIN recently_unique : Holds(recently_unique[g], g)
        /\ \A g \in DOMAIN recently_rewritten : Holds(recently_rewritten[g], g)
        /\ recently_unique \in [DOMAIN recently_unique -> Ids]
        /\ recently_rewritten \in [DOMAIN recently_rewritten -> Ids]
    BY NumberShapes DEF IInv, PointersHold, TypeOK, Struct, Chunks
  <1>f. PICK f \in Fps : f = content[n]
    BY <1>1
  <1>i. PICK i : i = Target.id
    OBVIOUS
  <1> DEFINE e == [c EXCEPT !.id = i]
  <1>2. /\ IF open # NoContainer /\ Overflow THEN Seal ELSE UNCHANGED <<containers, kv>>
        /\ open' = [Target EXCEPT !.fps = @ \union {f}]
        /\ ck' = [ck EXCEPT ![n] = e]
        /\ IF f \in Target.fps
           THEN UNCHANGED <<recently_unique, recently_rewritten>>
           ELSE IF c.dup
           THEN /\ recently_rewritten' = Entered(recently_rewritten, f, i)
                /\ recently_unique' = recently_unique
           ELSE /\ recently_unique' = Entered(recently_unique, f, i)
                /\ recently_rewritten' = recently_rewritten
    BY <1>f, <1>i DEF WriteChunk
  <1>3. /\ containers' \in Seq(SUBSET Fps) /\ Ids \subseteq Ids' /\ i \in Ids'
        /\ i # TEMPORARY_ID /\ \A id \in Ids : id <= i
        /\ open' \in [id : Ids', fps : SUBSET Fps]
        /\ kv' \in [DOMAIN kv' -> Ids'] /\ DOMAIN kv' \subseteq Fps
        /\ StoreShape' /\ \A g \in DOMAIN kv' : Holds(kv[g], g)'
        /\ \A id, g : Holds(id, g) => Holds(id, g)'
        /\ \A id : id = i => Holds(id, f)'
        /\ \A g \in open'.fps : g # f => g \in open.fps
        /\ f \in Target.fps => f \in open.fps
    BY <1>2, <1>i, StoreGrows
  <1>4. e \in Struct' /\ e.id = i
    BY <1>3 DEF Struct
  <1> HIDE DEF e
  <1>5. /\ ck'[n] = e /\ ck[n].id \in Ids
        /\ \A m \in Chunks : m # n => ck'[m] = ck[m]
    BY <1>1, <1>2 DEF Struct
  <1>6. ck' \in [Chunks -> Struct']
    <2>1. Struct \subseteq Struct'
      BY <1>3 DEF Struct
    <2>2. \A m \in Chunks : ck[m] \in Struct'
      BY <1>1, <2>1
    <2> QED
      BY <1>1, <1>2, <1>4, <2>2
  <1>7. ck[n].id <= ck'[n].id /\ ck'[n].id # TEMPORARY_ID
    BY <1>3, <1>4, <1>5
  <1>8. Holds(ck[n].id, content[n])'
    BY <1>3, <1>4, <1>5, <1>f
  <1> DEFINE Grown(t, u) ==
               \/ u = t
               \/ /\ DOMAIN u = DOMAIN t \union {f} /\ u[f] = i
                  /\ \A g \in DOMAIN t : g # f => u[g] = t[g]
                  /\ \A S : i \in S /\ (\A g \in DOMAIN t : t[g] \in S) => u \in [DOMAIN u -> S]
  <1>9. Grown(recently_unique, recently_unique') /\ Grown(recently_rewritten, recently_rewritten')
    <2>1. ASSUME NEW t, NEW u, u = Entered(t, f, i) PROVE Grown(t, u)
      <3>1. /\ DOMAIN u = DOMAIN t \union {f} /\ u[f] = i
            /\ \A g \in DOMAIN t : g # f => u[g] = t[g]
            /\ \A S : i \in S /\ (\A g \in DOMAIN t : t[g] \in S) => u \in [DOMAIN u -> S]
        BY <2>1 DEF Entered
      <3> QED
        BY <3>1, Zenon
    <2>2. \A t, u : u = t => Grown(t, u)
      OBVIOUS
    <2> HIDE DEF Grown
    <2> QED
      BY <1>2, <2>1, <2>2
  <1>10. ASSUME NEW t, t \in [DOMAIN t -> Ids], \A g \in DOMAIN t : Holds(t[g], g),
                NEW u, Grown(t, u)
         PROVE  /\ u \in [DOMAIN u -> Ids'] /\ DOMAIN t \subseteq DOMAIN u
                /\ \A g \in DOMAIN u : \A id : id = u[g] => Holds(id, g)'
                /\ \A g \in DOMAIN u : \/ g \in DOMAIN t /\ u[g] = t[g]
                                       \/ \A id \in Ids : id <= u[g]
    <2>1. CASE u = t
      BY <1>3, <1>10, <2>1
    <2>2. CASE /\ DOMAIN u = DOMAIN t \union {f} /\ u[f] = i
               /\ \A g \in DOMAIN t : g # f => u[g] = t[g]
               /\ \A S : i \in S /\ (\A g \in DOMAIN t : t[g] \in S) => u \in [DOMAIN u -> S]
      <3>1. \A g \in DOMAIN u : g = f \/ (g \in DOMAIN t /\ g # f)
        <4>1. DOMAIN u = DOMAIN t \union {f}
          BY <2>2, Zenon
        <4> QED
          BY <4>1
      <3>2. u \in [DOMAIN u -> Ids']
        <4>1. \A g \in DOMAIN t : t[g] \in Ids'
          BY <1>3, <1>10
        <4> QED
          BY <1>3, <2>2, <4>1
      <3> QED
        BY <1>3, <1>10, <2>2, <3>1, <3>2
    <2> QED
      BY <1>10, <2>1, <2>2
  <1>11. /\ recently_unique' \in [DOMAIN recently_unique' -> Ids']
         /\ recently_rewritten' \in [DOMAIN recently_rewritten' -> Ids']
         /\ \A g \in DOMAIN recently_unique' : Holds(recently_unique[g], g)'
         /\ \A g \in DOMAIN recently_rewritten' : Holds(recently_rewritten[g], g)'
         /\ DOMAIN recently_unique \subseteq DOMAIN recently_unique'
         /\ \A g \in DOMAIN recently_rewritten' :
              \/ g \in DOMAIN recently_rewritten /\ recently_rewritten'[g] = recently_rewritten[g]
              \/ \A id \in Ids : id <= recently_rewritten'[g]
    BY <1>1, <1>9, <1>10
  <1>12. ~ck[n].dup => f \in DOMAIN recently_unique' \union open.fps
    <2>1. f \notin Target.fps /\ ~c.dup => recently_unique' = Entered(recently_unique, f, i)
      BY <1>2
    <2>2. f \in DOMAIN Entered(recently_unique, f, i)
      BY DEF Entered
    <2> QED
      BY <1>3, <2>1, <2>2
  <1> QED
    BY <1>3, <1>5, <1>6, <1>7, <1>8, <1>11, <1>12, <1>f DEF DecisionOf

\* The chunk is not written.
LEMMA KeepDecides ==
  ASSUME IInv, filter = "decide", NEW n \in Chunks, NEW c \in Struct,
         c.dup, c.dup = ck[n].dup, ck[n].id <= c.id, c.id # TEMPORARY_ID, Holds(c.id, content[n]),
         ck' = [ck EXCEPT ![n] = c],
         UNCHANGED <<content, cache, storeVars, recently_unique, recently_rewritten>>
  PROVE  DecisionOf(n)
  <1>1. UNCHANGED <<containers, open, kv>>
    BY DEF storeVars
  <1>2. Ids' = Ids /\ Struct' = Struct
    BY <1>1 DEF Ids, Struct
  <1>3. \A g : \A id : Holds(id, g)' <=> Holds(id, g)
    BY <1>1 DEF Holds
  <1>4. /\ TypeOK /\ StoreShape /\ RecipeResolvable /\ ck \in [Chunks -> Struct]
        /\ \A g \in DOMAIN recently_unique : Holds(recently_unique[g], g)
        /\ \A g \in DOMAIN recently_rewritten : Holds(recently_rewritten[g], g)
    BY DEF IInv, PointersHold, TypeOK, Struct
  <1>5. /\ ck' \in [Chunks -> Struct] /\ ck'[n] = c
        /\ \A m \in Chunks : m # n => ck'[m] = ck[m]
    BY <1>4
  <1>6. StoreShape'
    BY <1>1, <1>4 DEF StoreShape
  <1>7. \A g \in DOMAIN kv' : Holds(kv[g], g)'
    BY <1>1, <1>3, <1>4 DEF RecipeResolvable
  <1>8. Holds(ck[n].id, content[n])'
    BY <1>3, <1>5
  <1>9. /\ containers \in Seq(SUBSET Fps) /\ open \in [id : Ids, fps : SUBSET Fps]
        /\ kv \in [DOMAIN kv -> Ids] /\ DOMAIN kv \subseteq Fps
        /\ recently_unique \in [DOMAIN recently_unique -> Ids]
        /\ recently_rewritten \in [DOMAIN recently_rewritten -> Ids]
    BY <1>4 DEF TypeOK
  <1>10. /\ \A g \in DOMAIN recently_unique' : Holds(recently_unique[g], g)'
         /\ \A g \in DOMAIN recently_rewritten' : Holds(recently_rewritten[g], g)'
    BY <1>3, <1>4
  <1> QED
    BY <1>1, <1>2, <1>3, <1>5, <1>6, <1>7, <1>8, <1>9, <1>10 DEF DecisionOf

\* A chunk is decided, written or not.
LEMMA DecideStep ==
  ASSUME IInv, DecideChunk, NEW n, n = s[place]
  PROVE  /\ DecisionOf(n)
         /\ filter = "decide" /\ place \in 1 .. Len(s) /\ n = Len(recipe) + place
         /\ n \in Chunks /\ n \in Len(recipe) + 1 .. LookedUp
         /\ place' = place + 1
         /\ UNCHANGED <<jobVars, ahead, lock, buffered, cache, dedupVars, dedup_queue,
                        rewriteVars, rewrite_queue, filter, s, recipe>>
  <1> DEFINE c == Resolved(n)
  <1>1. /\ filter = "decide" /\ place <= Len(s) /\ Resolvable(s[place])
        /\ \/ Writes(c) /\ WriteChunk(n, c)
           \/ /\ ~Writes(c) \/ Spared(c)
              /\ ck' = [ck EXCEPT ![n] = c]
              /\ UNCHANGED <<storeVars, recently_unique, recently_rewritten>>
        /\ place' = place + 1
        /\ UNCHANGED <<jobVars, ahead, lock, buffered, cache, dedupVars, dedup_queue,
                       rewriteVars, rewrite_queue, filter, s, recipe>>
    BY DEF DecideChunk
  <1>2. /\ place \in 1 .. Len(s) /\ n = Len(recipe) + place /\ n \in Chunks
        /\ n \in Len(recipe) + 1 .. LookedUp /\ content[n] \in Fps
        /\ c \in Struct /\ c.dup = ck[n].dup
        /\ ck[n].id <= c.id
        /\ c.dup => c.id # TEMPORARY_ID
        /\ c.id # TEMPORARY_ID => Holds(c.id, content[n])
    BY <1>1, ResolvedFacts
  <1> HIDE DEF c
  <1>3. UNCHANGED <<content, cache>>
    BY <1>1 DEF jobVars
  <1>4. CASE WriteChunk(n, c)
    BY <1>1, <1>2, <1>3, <1>4, WriteDecides
  <1>5. CASE /\ ~Writes(c) \/ Spared(c)
             /\ ck' = [ck EXCEPT ![n] = c]
             /\ UNCHANGED <<storeVars, recently_unique, recently_rewritten>>
    <2>1. c.dup
      BY <1>5 DEF Writes, Spared
    <2>2. UNCHANGED <<content, cache, storeVars, recently_unique, recently_rewritten>>
      BY <1>3, <1>5
    <2> QED
      BY <1>1, <1>2, <1>5, <2>1, <2>2, KeepDecides
  <1> QED
    BY <1>1, <1>2, <1>4, <1>5

\* A chunk is decided.
LEMMA DecideInv ==
  ASSUME IInv, DecideChunk
  PROVE  IInv'
  <1> DEFINE L == Len(recipe)
  <1>1. TypeOK /\ DedupInPlace /\ Flow /\ LateIsLast
    BY DEF IInv
  <1>n. PICK n : n = s[place]
    OBVIOUS
  <1>2. /\ DecisionOf(n)
        /\ filter = "decide" /\ place \in 1 .. Len(s) /\ n = L + place
        /\ n \in Chunks /\ n \in L + 1 .. LookedUp
        /\ place' = place + 1
        /\ UNCHANGED <<jobVars, ahead, lock, buffered, cache, dedupVars, dedup_queue,
                       rewriteVars, rewrite_queue, filter, s, recipe>>
    BY <1>n, DecideStep
  <1>3. UNCHANGED <<content, algo, recipe, segment, cursor, dedup, cache, lock, filter, buffered,
                    dedup_queue, chunk_queue, draining, rewrite_queue, late, rewrite, s>>
    BY <1>2 DEF jobVars, dedupVars, rewriteVars
  <1>4. /\ Chunks' = Chunks /\ Items' = Items /\ Taken' = Taken /\ OnTheWay' = OnTheWay
    BY <1>3 DEF Chunks, Items, Taken, OnTheWay
  <1>5. /\ containers' \in Seq(SUBSET Fps) /\ Ids \subseteq Ids'
        /\ open' \in [id : Ids', fps : SUBSET Fps]
        /\ kv' \in [DOMAIN kv' -> Ids'] /\ DOMAIN kv' \subseteq Fps
        /\ StoreShape' /\ \A g \in DOMAIN kv' : Holds(kv[g], g)'
        /\ \A id, g : Holds(id, g) => Holds(id, g)'
        /\ recently_unique' \in [DOMAIN recently_unique' -> Ids']
        /\ recently_rewritten' \in [DOMAIN recently_rewritten' -> Ids']
        /\ \A g \in DOMAIN recently_unique' : Holds(recently_unique[g], g)'
        /\ \A g \in DOMAIN recently_rewritten' : Holds(recently_rewritten[g], g)'
    BY <1>2 DEF DecisionOf
  <1>6. /\ \A g \in open'.fps : g # content[n] => g \in open.fps
        /\ DOMAIN recently_unique \subseteq DOMAIN recently_unique'
        /\ \A g \in DOMAIN recently_rewritten' :
             \/ g \in DOMAIN recently_rewritten /\ recently_rewritten'[g] = recently_rewritten[g]
             \/ \A id \in Ids : id <= recently_rewritten'[g]
        /\ ck' \in [Chunks -> Struct'] /\ \A m \in Chunks : m # n => ck'[m] = ck[m]
        /\ ck'[n].id # TEMPORARY_ID /\ Holds(ck[n].id, content[n])'
        /\ ~ck[n].dup => content[n] \in DOMAIN recently_unique' \union open.fps
    BY <1>2 DEF DecisionOf
  <1>7. LookedUp' = LookedUp /\ Sent' = Sent /\ DedupInPlace'
    BY <1>1, <1>2, <1>3, PlaceKept
  <1>8. /\ Taken = Len(s) /\ Len(s) \in Nat /\ L \in Nat /\ LookedUp \in Nat
        /\ \A k \in 1 .. Len(s) : s[k] = L + k /\ s[k] \in Chunks
        /\ \A m \in L + 1 .. LookedUp : m \in Chunks
    BY <1>2, SegmentUnderWay, BehindLookedUp
  <1>9. TypeOK'
    <2>1. \A S, T : S \subseteq T => Seq(S) \subseteq Seq(T)
      BY SeqMonotonic
    <2>2. /\ Seq(Ids) \subseteq Seq(Ids') /\ Seq(Fps \X Ids) \subseteq Seq(Fps \X Ids')
      <3>1. Fps \X Ids \subseteq Fps \X Ids'
        BY <1>5
      <3> QED
        BY <1>5, <2>1, <3>1
    <2>3. buffered' \in [Fps -> Seq(Ids')]
      <3>1. buffered \in [Fps -> Seq(Ids)]
        BY <1>1 DEF TypeOK
      <3> QED
        BY <1>3, <2>2, <3>1
    <2>4. cache' \in Seq(Ids') /\ recipe' \in Seq(Fps \X Ids')
      <3>1. cache \in Seq(Ids) /\ recipe \in Seq(Fps \X Ids)
        BY <1>1 DEF TypeOK
      <3> QED
        BY <1>3, <2>2, <3>1
    <2>5. ck' \in [Chunks -> [id : Ids', dup : BOOLEAN, denied : BOOLEAN, ooo : BOOLEAN,
                              sparse : BOOLEAN]]
      BY <1>6 DEF Struct
    <2>6. place' \in Nat
      BY <1>1, <1>2 DEF TypeOK
    <2> QED
      BY <1>1, <1>3, <1>4, <1>5, <2>3, <2>4, <2>5, <2>6 DEF TypeOK
  <1>10. Flow' /\ LateIsLast'
    <2>1. Flow'
      BY <1>1, <1>3, <1>4, <1>7, FlowKept
    <2> QED
      BY <1>1, <1>3, <2>1 DEF LateIsLast
  <1>11. Counted'
    BY <1>3, <1>7 DEF IInv, Counted, Copies
  <1>12. PointersHold'
    <2>1. RecipeResolvable /\ \A m \in Chunks : m > LookedUp => ck[m].id = TEMPORARY_ID
      BY DEF IInv, PointersHold
    <2>2. \A k \in DOMAIN recipe' : Holds(recipe[k][2], recipe[k][1])'
      BY <1>3, <1>5, <2>1 DEF RecipeResolvable
    <2>3. ASSUME NEW m \in Chunks, ck'[m].id # TEMPORARY_ID
          PROVE  Holds(ck[m].id, content[m])'
      <3>1. CASE m = n
        BY <1>6, <3>1
      <3>2. CASE m # n
        <4>1. ck'[m] = ck[m] /\ content'[m] = content[m]
          BY <1>3, <1>6, <3>2
        <4>2. Holds(ck[m].id, content[m])
          BY <2>1, <2>3, <4>1 DEF RecipeResolvable
        <4> QED
          BY <1>5, <4>1, <4>2
      <3> QED
        BY <3>1, <3>2
    <2>4. \A g \in Fps : \A id \in ToSet(buffered'[g]) \ {TEMPORARY_ID} : Holds(id, g)'
      BY <1>3, <1>5, <2>1 DEF RecipeResolvable
    <2>5. RecipeResolvable'
      BY <1>4, <1>5, <2>2, <2>3, <2>4 DEF RecipeResolvable
    <2>6. ASSUME NEW m \in Chunks, m > LookedUp PROVE ck'[m].id = TEMPORARY_ID
      <3>1. m # n
        BY <1>2, <1>8, <2>6
      <3> QED
        BY <1>6, <2>1, <2>6, <3>1
    <2> QED
      BY <1>4, <1>5, <1>7, <2>5, <2>6 DEF PointersHold
  <1>13. DecidedHaveIds'
    <2>1. \A k \in 1 .. place - 1 : ck[s[k]].id # TEMPORARY_ID
      BY <1>2 DEF IInv, DecidedHaveIds
    <2>2. ASSUME NEW k \in 1 .. place PROVE ck'[s[k]].id # TEMPORARY_ID
      <3>1. k \in 1 .. Len(s) /\ s[k] = L + k /\ s[k] \in Chunks
        BY <1>2, <1>8, SMTT(60)
      <3>2. CASE k = place
        BY <1>2, <1>6, <3>1, <3>2
      <3>3. CASE k # place
        <4>1. s[k] # n /\ k \in 1 .. place - 1
          BY <1>2, <1>8, <3>1, <3>3
        <4> QED
          BY <1>6, <2>1, <3>1, <4>1
      <3> QED
        BY <3>2, <3>3
    <2>3. place + 1 \in 1 .. Len(s) + 1 /\ 1 .. (place + 1) - 1 = 1 .. place
      BY <1>2, <1>8
    <2> QED
      BY <1>2, <1>3, <2>2, <2>3 DEF DecidedHaveIds
  <1>14. Undecided'
    <2>1. ASSUME NEW k \in place + 1 .. Len(s)
          PROVE  /\ content[s[k]] \in DOMAIN recently_rewritten' =>
                      ck'[s[k]].id <= recently_rewritten'[content[s[k]]]
                 /\ ck'[s[k]].dup /\ ck'[s[k]].id = TEMPORARY_ID =>
                      buffered[content[s[k]]][1] = TEMPORARY_ID
      <3>1. k \in 1 .. Len(s) /\ k \in place .. Len(s) /\ k # place
        BY <1>2, <1>8
      <3>2. s[k] # n /\ s[k] \in Chunks
        BY <1>2, <1>8, <3>1
      <3>3. ck'[s[k]] = ck[s[k]] /\ ck[s[k]].id \in Ids
        BY <1>1, <1>6, <3>2 DEF TypeOK
      <3>4. /\ content[s[k]] \in DOMAIN recently_rewritten =>
                 ck[s[k]].id <= recently_rewritten[content[s[k]]]
            /\ ck[s[k]].dup /\ ck[s[k]].id = TEMPORARY_ID =>
                 buffered[content[s[k]]][1] = TEMPORARY_ID
        BY <1>2, <3>1 DEF IInv, Undecided
      <3> QED
        BY <1>6, <3>3, <3>4
    <2> QED
      BY <1>2, <1>3, <2>1 DEF Undecided
  <1>15. FirstCopyIsNew'
    <2>1. ASSUME NEW m \in L + 1 .. LookedUp, FirstCopy(m)',
                 buffered[content[m]][1] = TEMPORARY_ID
          PROVE  IF m < L + (place + 1) THEN content[m] \in DOMAIN recently_unique'
                 ELSE ~ck'[m].dup /\ content[m] \notin open'.fps
      <3>1. FirstCopy(m)
        BY <1>3, <2>1 DEF FirstCopy
      <3>2. IF m < L + place THEN content[m] \in DOMAIN recently_unique
            ELSE ~ck[m].dup /\ content[m] \notin open.fps
        BY <1>2, <2>1, <3>1 DEF IInv, FirstCopyIsNew, Decided
      <3>3. CASE m < n
        BY <1>2, <1>6, <1>8, <3>2, <3>3
      <3>4. CASE m = n
        <4>1. ~ck[n].dup /\ content[n] \notin open.fps
          BY <1>2, <1>8, <3>2, <3>4
        <4>2. m < L + (place + 1)
          BY <1>2, <1>8, <3>4
        <4> QED
          BY <1>6, <3>4, <4>1, <4>2
      <3>5. CASE m > n
        <4>1. ~ck[m].dup /\ content[m] \notin open.fps /\ ~(m < L + (place + 1)) /\ m # n
          BY <1>2, <1>8, <3>2, <3>5
        <4>2. content[m] # content[n]
          <5>1. n \in L + 1 .. m - 1
            BY <1>2, <1>8, <3>5
          <5> QED
            BY <3>1, <5>1 DEF FirstCopy
        <4>3. ck'[m] = ck[m]
          BY <1>6, <1>8, <4>1
        <4> QED
          BY <1>6, <4>1, <4>2, <4>3
      <3> QED
        BY <1>2, <1>8, <3>3, <3>4, <3>5
    <2> QED
      BY <1>2, <1>3, <1>7, <2>1 DEF FirstCopyIsNew, Decided
  <1> QED
    BY <1>5, <1>7, <1>9, <1>10, <1>11, <1>12, <1>13, <1>14, <1>15 DEF IInv

-----------------------------------------------------------------------------
(* A segment ends.                                                         *)

\* All chunks of the segment that ends have ids.
LEMMA SegmentDecided ==
  ASSUME IInv, filter = "decide", place > Len(s)
  PROVE  /\ place = Len(s) + 1
         /\ \A n \in ToSet(s) : /\ n \in Chunks /\ ck[n].id \in Ids /\ ck[n].id # TEMPORARY_ID
                                /\ Holds(ck[n].id, content[n])
  <1>1. /\ Len(s) \in Nat /\ DOMAIN s = 1 .. Len(s) /\ \A k \in 1 .. Len(s) : s[k] \in Chunks
    BY NumberShapes DEF IInv
  <1>2. place \in 1 .. Len(s) + 1 /\ \A k \in 1 .. place - 1 : ck[s[k]].id # TEMPORARY_ID
    BY DEF IInv, DecidedHaveIds
  <1>3. place = Len(s) + 1
    BY <1>1, <1>2
  <1>4. ASSUME NEW n \in ToSet(s)
        PROVE  /\ n \in Chunks /\ ck[n].id \in Ids /\ ck[n].id # TEMPORARY_ID
               /\ Holds(ck[n].id, content[n])
    <2>1. PICK k \in 1 .. Len(s) : n = s[k]
      BY <1>1 DEF ToSet
    <2>2. n \in Chunks /\ ck[n].id # TEMPORARY_ID
      BY <1>1, <1>2, <1>3, <2>1
    <2> QED
      BY <2>2 DEF IInv, TypeOK, PointersHold, RecipeResolvable
  <1> QED
    BY <1>3, <1>4

\* The copies in the segment leave the index buffer, and those behind it learn
\* where the last of them went.
LEMMA UpdateFacts ==
  ASSUME IInv, filter = "decide", place > Len(s), NEW f \in Fps
  PROVE  LET q == UpdateBuffer[f]
             behind == Copies(f, Len(recipe) + Len(s), LookedUp)
         IN  /\ q \in Seq(Ids) /\ Len(q) = Cardinality(behind)
             /\ \A id \in ToSet(q) \ {TEMPORARY_ID} : Holds(id, f)
             /\ behind # {} =>
                  \/ q = buffered[f] /\ \A n \in ToSet(s) : content[n] # f
                  \/ q[1] # TEMPORARY_ID
  <1> DEFINE L == Len(recipe)
             m == L + Len(s)
             mine == {n \in ToSet(s) : content[n] = f}
             b == buffered[f]
             c == Cardinality(mine)
             rest == SubSeq(b, c + 1, Len(b))
             q == UpdateBuffer[f]
             behind == Copies(f, m, LookedUp)
  <1>1. /\ L \in Nat /\ Len(s) \in Nat /\ LookedUp \in Nat /\ m <= LookedUp
        /\ ToSet(s) = L + 1 .. m
    BY SegmentUnderWay
  <1>2. /\ b \in Seq(Ids) /\ \A id \in ToSet(b) \ {TEMPORARY_ID} : Holds(id, f)
        /\ Len(b) = Cardinality(Copies(f, L, LookedUp)) /\ Len(b) \in Nat
    BY SeqFacts DEF IInv, TypeOK, PointersHold, RecipeResolvable, Counted
  <1>3. q = IF mine = {} THEN b ELSE [k \in DOMAIN rest |-> ck[Max(mine)].id]
    BY DEF UpdateBuffer
  <1>4. mine = Copies(f, L, m)
    BY <1>1 DEF Copies
  <1>5. /\ IsFiniteSet(mine) /\ c \in Nat
        /\ IsFiniteSet(behind) /\ Cardinality(behind) \in Nat
        /\ Cardinality(behind) = 0 <=> behind = {}
    <2>1. m \in Nat /\ L \in Nat /\ LookedUp \in Nat
      BY <1>1
    <2> HIDE DEF m, L, mine
    <2>2. IsFiniteSet(Copies(f, L, m)) /\ Cardinality(Copies(f, L, m)) \in Nat
      BY <2>1, CopiesFacts
    <2>3. /\ IsFiniteSet(behind) /\ Cardinality(behind) \in Nat
          /\ Cardinality(behind) = 0 <=> behind = {}
      BY <2>1, CopiesFacts
    <2> QED
      BY <1>4, <2>2, <2>3
  <1>6. Len(b) = c + Cardinality(behind)
    <2>1. Copies(f, L, LookedUp) = mine \union behind /\ mine \intersect behind = {}
      BY <1>1, <1>4 DEF Copies
    <2>2. Cardinality(mine \union behind)
            = c + Cardinality(behind) - Cardinality(mine \intersect behind)
      BY <1>5, FS_Union
    <2>3. Cardinality(mine \intersect behind) = 0
      BY <2>1, FS_EmptySet
    <2> HIDE DEF mine, behind
    <2> QED
      BY <1>2, <1>5, <2>1, <2>2, <2>3
  <1>7. CASE mine = {}
    <2>1. q = b /\ c = 0 /\ \A n \in ToSet(s) : content[n] # f
      BY <1>3, <1>7, FS_EmptySet
    <2> HIDE DEF mine, behind, q, c, b
    <2> QED
      BY <1>2, <1>5, <1>6, <2>1 DEF mine, behind, q, b
  <1>8. CASE mine # {}
    <2> DEFINE x == Max(mine)
               i == ck[x].id
    <2>1. x \in mine
      <3>1. mine \in SUBSET (0 .. m) /\ m \in Nat
        BY <1>1
      <3> HIDE DEF mine, m
      <3> QED
        BY <1>8, <3>1, MaxOfPlaces
    <2>2. i \in Ids /\ i # TEMPORARY_ID /\ Holds(i, f)
      BY <2>1, SegmentDecided
    <2>3. q = [k \in DOMAIN rest |-> i]
      BY <1>3, <1>8
    <2>4. rest \in Seq(Ids) /\ Len(rest) = Cardinality(behind)
      <3>1. c + 1 \in Nat /\ Len(b) \in Nat /\ Len(b) = c + Cardinality(behind)
            /\ Cardinality(behind) \in Nat
        BY <1>2, <1>5, <1>6
      <3> HIDE DEF b, c, behind
      <3>2. \A k \in c + 1 .. Len(b) : b[k] \in Ids
        <4>1. \A k \in c + 1 .. Len(b) : k \in 1 .. Len(b)
          BY <1>5, <3>1
        <4> QED
          BY <1>2, <4>1, SeqFacts
      <3>3. /\ rest \in Seq(Ids)
            /\ Len(rest) = IF c + 1 <= Len(b) THEN Len(b) - (c + 1) + 1 ELSE 0
        BY <3>1, <3>2, SubSeqProperties
      <3> HIDE DEF rest
      <3> QED
        BY <1>5, <3>1, <3>3
    <2> HIDE DEF rest, i, behind, q
    <2>5. DOMAIN rest = 1 .. Cardinality(behind)
      BY <2>4, SeqFacts
    <2>6. /\ q \in Seq(Ids) /\ Len(q) = Cardinality(behind) /\ DOMAIN q = 1 .. Cardinality(behind)
          /\ \A k \in 1 .. Cardinality(behind) : q[k] = i
      BY <1>5, <2>2, <2>3, <2>5
    <2>7. \A id \in ToSet(q) : id = i
      BY <2>6 DEF ToSet
    <2>8. behind # {} => q[1] # TEMPORARY_ID
      BY <1>5, <2>2, <2>6
    <2> QED
      BY <2>2, <2>6, <2>7, <2>8 DEF q, behind
  <1> QED
    BY <1>7, <1>8

\* The recipe grows by the segment.
LEMMA RecipeGrows ==
  ASSUME IInv, FinishSegment
  PROVE  /\ recipe' \in Seq(Fps \X Ids) /\ Len(recipe') = Len(recipe) + Len(s)
         /\ DOMAIN recipe' = 1 .. Len(recipe) + Len(s)
         /\ \A k \in 1 .. Len(recipe) : recipe'[k] = recipe[k]
         /\ \A k \in Len(recipe) + 1 .. Len(recipe) + Len(s) :
              recipe'[k] = <<content[k], ck[k].id>> /\ k \in ToSet(s)
  <1> DEFINE P == Fps \X Ids
             L == Len(recipe)
             t == [k \in DOMAIN s |-> <<content[s[k]], ck[s[k]].id>>]
  <1>1. filter = "decide" /\ place > Len(s) /\ recipe' = recipe \o t
    BY DEF FinishSegment
  <1>2. /\ L \in Nat /\ Len(s) \in Nat
        /\ \A k \in 1 .. Len(s) : s[k] = L + k /\ s[k] \in Chunks
        /\ ToSet(s) = L + 1 .. L + Len(s)
    BY <1>1, SegmentUnderWay
  <1>3. DOMAIN s = 1 .. Len(s) /\ recipe \in Seq(P) /\ \A n \in Chunks : content[n] \in Fps
    BY NumberShapes DEF IInv, TypeOK
  <1>4. \A k \in 1 .. Len(s) : <<content[s[k]], ck[s[k]].id>> \in P
    <2>1. \A n \in Chunks : ck[n].id \in Ids
      BY DEF IInv, TypeOK
    <2> QED
      BY <1>2, <1>3, <2>1
  <1> HIDE DEF P
  <1>5. /\ t \in Seq(P) /\ Len(t) = Len(s)
        /\ \A k \in 1 .. Len(s) : t[k] = <<content[s[k]], ck[s[k]].id>>
    BY <1>2, <1>3, <1>4
  <1> HIDE DEF t
  <1>6. /\ recipe \o t \in Seq(P) /\ Len(recipe \o t) = L + Len(t)
        /\ \A k \in 1 .. L + Len(t) : (recipe \o t)[k] = IF k <= L THEN recipe[k] ELSE t[k - L]
    BY <1>3, <1>5, ConcatProperties
  <1>7. /\ recipe' \in Seq(P) /\ Len(recipe') = L + Len(s) /\ DOMAIN recipe' = 1 .. L + Len(s)
        /\ \A k \in 1 .. L + Len(s) : recipe'[k] = IF k <= L THEN recipe[k] ELSE t[k - L]
    BY <1>1, <1>5, <1>6, SeqFacts
  <1>8. \A k \in 1 .. L : recipe'[k] = recipe[k]
    BY <1>2, <1>7
  <1>9. ASSUME NEW k \in L + 1 .. L + Len(s)
        PROVE  recipe'[k] = <<content[k], ck[k].id>> /\ k \in ToSet(s)
    <2>1. k - L \in 1 .. Len(s) /\ L + (k - L) = k /\ ~(k <= L) /\ k \in 1 .. L + Len(s)
      BY <1>2
    <2>2. t[k - L] = <<content[k], ck[k].id>>
      BY <1>2, <1>5, <2>1
    <2> QED
      BY <1>2, <1>7, <2>1, <2>2
  <1> QED
    BY <1>7, <1>8, <1>9 DEF P

\* A segment ends.
LEMMA FinishInv ==
  ASSUME IInv, FinishSegment
  PROVE  IInv'
  <1> DEFINE L == Len(recipe)
             m == L + Len(s)
  <1>1. TypeOK /\ DedupInPlace /\ Flow /\ LateIsLast
    BY DEF IInv
  <1>2. /\ filter = "decide" /\ place > Len(s)
        /\ buffered' = UpdateBuffer
        /\ dedup' = dedup
        /\ lock' = "free" /\ filter' = "pull"
        /\ UNCHANGED <<jobVars, history, ck, cache, segment, cursor, dedup_queue,
                       rewriteVars, rewrite_queue, s, place, recently_unique,
                       recently_rewritten, storeVars>>
    BY DEF FinishSegment, dedupVars
  <1>3. UNCHANGED <<content, algo, ck, segment, cursor, cache, containers, open, kv,
                    dedup_queue, chunk_queue, draining, rewrite_queue, late, rewrite, s>>
    BY <1>2 DEF jobVars, rewriteVars, storeVars
  <1>4. /\ Chunks' = Chunks /\ Items' = Items /\ Ids' = Ids /\ Taken' = 0 /\ OnTheWay' = OnTheWay
    BY <1>2, <1>3 DEF Chunks, Items, Ids, Taken, OnTheWay
  <1>5. \A g : \A id : Holds(id, g)' <=> Holds(id, g)
    BY <1>3 DEF Holds
  <1>6. /\ Taken = Len(s) /\ Len(s) \in Nat /\ L \in Nat /\ LookedUp \in Nat /\ m <= LookedUp
        /\ ToSet(s) = L + 1 .. m /\ ToSet(s) \subseteq Chunks
    BY <1>2, SegmentUnderWay
  <1>7. /\ place = Len(s) + 1
        /\ \A n \in ToSet(s) : Holds(ck[n].id, content[n])
    BY <1>2, SegmentDecided
  <1>8. /\ recipe' \in Seq(Fps \X Ids) /\ Len(recipe') = m /\ DOMAIN recipe' = 1 .. m
        /\ \A k \in 1 .. L : recipe'[k] = recipe[k]
        /\ \A k \in L + 1 .. m : recipe'[k] = <<content[k], ck[k].id>> /\ k \in ToSet(s)
    BY RecipeGrows
  <1>9. \A f \in Fps :
          /\ buffered'[f] \in Seq(Ids) /\ Len(buffered'[f]) = Cardinality(Copies(f, m, LookedUp))
          /\ \A id \in ToSet(buffered'[f]) \ {TEMPORARY_ID} : Holds(id, f)
          /\ Copies(f, m, LookedUp) # {} =>
               \/ buffered'[f] = buffered[f] /\ \A n \in ToSet(s) : content[n] # f
               \/ buffered'[f][1] # TEMPORARY_ID
    BY <1>2, UpdateFacts
  <1>10. dedup # "lookup" /\ lock = "filter"
    BY <1>1, <1>2 DEF DedupInPlace
  <1>11. LookedUp' = LookedUp /\ Sent' = Sent /\ DedupInPlace'
    <2>1. /\ LookedUp' = LookedUp /\ Sent' = Sent
          /\ dedup' # "done" => segment' <= LastSegment'
          /\ dedup' = "lock" => cursor' = 1
          /\ dedup' = "lookup" => cursor' \in 1 .. SegLen'
          /\ dedup' = "send" => cursor' \in 1 .. SegLen' + 2
          /\ dedup' = "lookup" <=> dedup = "lookup"
      BY <1>1, <1>2, <1>3, OthersKeepNumbers
    <2> QED
      BY <1>2, <1>10, <2>1 DEF DedupInPlace
  <1>12. TypeOK'
    <2>1. buffered' \in [Fps -> Seq(Ids)]
      <3>1. buffered' = [f \in Fps |-> buffered'[f]]
        BY <1>2 DEF UpdateBuffer
      <3> QED
        BY <1>9, <3>1
    <2>2. dedup' \in {"lock", "lookup", "send", "done"}
      BY <1>1, <1>2 DEF TypeOK
    <2>3. UNCHANGED <<place, recently_unique, recently_rewritten>>
      BY <1>2
    <2> QED
      BY <1>1, <1>2, <1>3, <1>4, <1>8, <2>1, <2>2, <2>3 DEF TypeOK
  <1>13. Flow'
    <2>1. \A k \in DOMAIN recipe : k \in Chunks /\ recipe[k][1] = content[k]
      BY <1>1 DEF Flow
    <2>2. ASSUME NEW k \in DOMAIN recipe' PROVE k \in Chunks /\ recipe'[k][1] = content[k]
      <3>1. DOMAIN recipe = 1 .. L
        BY <1>1, NumberShapes
      <3>2. CASE k \in 1 .. L
        BY <1>8, <2>1, <3>1, <3>2
      <3>3. CASE k \in L + 1 .. m
        BY <1>6, <1>8, <3>3
      <3> QED
        BY <1>6, <1>8, <3>2, <3>3
    <2>3. Ordered(OnTheWay, m, Sent) /\ m + 0 = m
      BY <1>1, <1>6 DEF Flow
    <2> QED
      BY <1>3, <1>4, <1>8, <1>11, <2>2, <2>3 DEF Flow
  <1>14. LateIsLast'
    BY <1>1, <1>2, <1>3 DEF LateIsLast
  <1>15. Counted'
    <2>1. content' = content /\ Len(recipe') = m /\ LookedUp' = LookedUp
      BY <1>3, <1>8, <1>11
    <2> HIDE DEF m
    <2> QED
      BY <1>9, <2>1 DEF Counted, Copies
  <1>16. StoreShape'
    BY <1>3 DEF IInv, StoreShape
  <1>17. PointersHold'
    <2>1. RecipeResolvable /\ \A n \in Chunks : n > LookedUp => ck[n].id = TEMPORARY_ID
      BY DEF IInv, PointersHold
    <2>2. ASSUME NEW k \in DOMAIN recipe'
          PROVE  Holds(recipe'[k][2], recipe'[k][1])
      <3>1. DOMAIN recipe = 1 .. L
        BY <1>1, NumberShapes
      <3>2. CASE k \in 1 .. L
        BY <1>8, <2>1, <3>1, <3>2 DEF RecipeResolvable
      <3>3. CASE k \in L + 1 .. m
        BY <1>7, <1>8, <3>3
      <3> QED
        BY <1>6, <1>8, <3>2, <3>3
    <2>3. \A k \in DOMAIN recipe' : Holds(recipe[k][2], recipe[k][1])'
      BY <1>5, <2>2
    <2>4. \A n \in Chunks' : ck'[n].id # TEMPORARY_ID => Holds(ck[n].id, content[n])'
      BY <1>3, <1>4, <1>5, <2>1 DEF RecipeResolvable
    <2>5. \A g \in Fps : \A id \in ToSet(buffered'[g]) \ {TEMPORARY_ID} : Holds(id, g)'
      BY <1>5, <1>9
    <2>6. \A g \in DOMAIN kv' : Holds(kv[g], g)'
      BY <1>3, <1>5, <2>1 DEF RecipeResolvable
    <2>7. RecipeResolvable'
      BY <2>3, <2>4, <2>5, <2>6 DEF RecipeResolvable
    <2> QED
      BY <1>2, <1>3, <1>4, <1>11, <2>1, <2>7 DEF PointersHold
  <1>18. DecidedHaveIds' /\ Undecided'
    BY <1>2 DEF DecidedHaveIds, Undecided
  <1>19. FirstCopyIsNew'
    <2>1. ASSUME NEW n \in m + 1 .. LookedUp,
                 \A j \in m + 1 .. n - 1 : content[j] # content[n],
                 buffered'[content[n]][1] = TEMPORARY_ID
          PROVE  ~ck[n].dup /\ content[n] \notin open.fps
      <3> DEFINE f == content[n]
      <3>1. n \in L + 1 .. LookedUp /\ f \in Fps
        BY <1>6, BehindLookedUp
      <3>2. n \in Copies(f, m, LookedUp)
        BY DEF Copies
      <3>3. buffered'[f] = buffered[f] /\ \A j \in ToSet(s) : content[j] # f
        BY <1>9, <2>1, <3>1, <3>2
      <3>4. FirstCopy(n)
        <4>1. ASSUME NEW j \in L + 1 .. n - 1 PROVE content[j] # content[n]
          <5>1. CASE j \in L + 1 .. m
            BY <1>6, <3>3, <5>1
          <5>2. CASE j \in m + 1 .. n - 1
            BY <2>1, <5>2
          <5> QED
            BY <1>6, <3>1, <5>1, <5>2
        <4> QED
          BY <4>1 DEF FirstCopy
      <3>5. ~(n < L + place)
        BY <1>6, <1>7, <3>1
      <3> QED
        BY <2>1, <3>1, <3>3, <3>4, <3>5 DEF IInv, FirstCopyIsNew, Decided
    <2>2. UNCHANGED <<content, ck, open>> /\ Len(recipe') = m /\ LookedUp' = LookedUp
      BY <1>3, <1>8, <1>11
    <2> HIDE DEF m
    <2> QED
      BY <1>2, <2>1, <2>2 DEF FirstCopyIsNew, Decided, FirstCopy
  <1> QED
    BY <1>11, <1>12, <1>13, <1>14, <1>15, <1>16, <1>17, <1>18, <1>19 DEF IInv

-----------------------------------------------------------------------------
(* The end, the beginning, and every step.                                 *)

\* The last container is written.
LEMMA FilterEndInv ==
  ASSUME IInv, FilterEnd
  PROVE  IInv'
  <1>1. TypeOK /\ DedupInPlace /\ Flow /\ LateIsLast /\ StoreShape /\ RecipeResolvable
    BY DEF IInv, PointersHold
  <1>2. /\ filter = "pull" /\ filter' = "done" /\ late = 0
        /\ IF open = NoContainer THEN UNCHANGED <<containers, kv>> ELSE Seal
        /\ open' = NoContainer
        /\ UNCHANGED <<jobVars, history, ck, lock, buffered, cache, dedupVars, dedup_queue,
                       rewriteVars, rewrite_queue, s, place, recently_unique,
                       recently_rewritten, recipe>>
    BY DEF FilterEnd
  <1>3. UNCHANGED <<content, algo, ck, recipe, segment, cursor, dedup, cache, lock, buffered,
                    dedup_queue, chunk_queue, draining, rewrite_queue, late, rewrite, s>>
    BY <1>2 DEF jobVars, dedupVars, rewriteVars
  <1>4. /\ Chunks' = Chunks /\ Items' = Items /\ Taken = 0 /\ Taken' = 0 /\ OnTheWay' = OnTheWay
    BY <1>2, <1>3 DEF Chunks, Items, Taken, OnTheWay
  <1>5. LookedUp' = LookedUp /\ Sent' = Sent /\ DedupInPlace'
    BY <1>1, <1>2, <1>3, PlaceKept
  <1>6. /\ containers' \in Seq(SUBSET Fps) /\ Len(containers) <= Len(containers')
        /\ Len(containers') \in Nat /\ Len(containers) \in Nat
        /\ DOMAIN containers' = 1 .. Len(containers')
        /\ DOMAIN kv' \subseteq Fps
        /\ kv' \in [DOMAIN kv' -> -1 .. Len(containers')]
        /\ \A g \in DOMAIN kv' : kv'[g] + 1 \in DOMAIN containers' /\ Holds(kv[g], g)'
        /\ \A id, g : Holds(id, g) => Holds(id, g)'
    <2>1. /\ containers \in Seq(SUBSET Fps) /\ Len(containers) \in Nat
          /\ DOMAIN containers = 1 .. Len(containers)
      BY <1>1, NumberShapes DEF TypeOK
    <2>2. CASE open = NoContainer
      <3>1. containers' = containers /\ kv' = kv /\ open' = open
        BY <1>2, <2>2
      <3>2. \A g : \A id : Holds(id, g)' <=> Holds(id, g)
        BY <3>1 DEF Holds
      <3>3. /\ DOMAIN kv \subseteq Fps /\ kv \in [DOMAIN kv -> -1 .. Len(containers)]
            /\ \A g \in DOMAIN kv : kv[g] + 1 \in DOMAIN containers /\ Holds(kv[g], g)
        BY <1>1 DEF TypeOK, StoreShape, RecipeResolvable, Ids, TEMPORARY_ID
      <3> QED
        BY <2>1, <3>1, <3>2, <3>3
    <2>3. CASE open # NoContainer
      <3>1. Seal
        BY <1>2, <2>3
      <3>2. /\ containers' \in Seq(SUBSET Fps) /\ Len(containers') = Len(containers) + 1
            /\ DOMAIN containers' = 1 .. Len(containers')
            /\ \A id, g : Holds(id, g) => id + 1 \in DOMAIN containers' /\ g \in containers'[id + 1]
            /\ kv' = [g \in DOMAIN kv' |-> kv'[g]] /\ DOMAIN kv' \subseteq Fps
            /\ \A g \in DOMAIN kv' :
                 kv'[g] + 1 \in DOMAIN containers' /\ g \in containers'[kv'[g] + 1]
            /\ \A g \in DOMAIN kv' : kv'[g] \in -1 .. Len(containers')
        BY <1>1, <2>3, <3>1, SealFacts
      <3>3. \A g : \A id : id + 1 \in DOMAIN containers' /\ g \in containers'[id + 1] => Holds(id, g)'
        BY DEF Holds
      <3>4. kv' \in [DOMAIN kv' -> -1 .. Len(containers')]
        BY <3>2
      <3>5. \A g \in DOMAIN kv' : Holds(kv[g], g)'
        BY <3>2, <3>3
      <3> QED
        BY <2>1, <3>2, <3>3, <3>4, <3>5
    <2> QED
      BY <2>2, <2>3
  <1>7. Ids \subseteq Ids' /\ Ids' = -1 .. Len(containers') /\ TEMPORARY_ID \in Ids'
    BY <1>6 DEF Ids, TEMPORARY_ID
  <1>8. TypeOK'
    <2>1. \A S, T : S \subseteq T => Seq(S) \subseteq Seq(T)
      BY SeqMonotonic
    <2>2. /\ Seq(Ids) \subseteq Seq(Ids') /\ Seq(Fps \X Ids) \subseteq Seq(Fps \X Ids')
      <3>1. Fps \X Ids \subseteq Fps \X Ids'
        BY <1>7
      <3> QED
        BY <1>7, <2>1, <3>1
    <2>3. buffered' \in [Fps -> Seq(Ids')]
      <3>1. buffered \in [Fps -> Seq(Ids)]
        BY <1>1 DEF TypeOK
      <3> QED
        BY <1>3, <2>2, <3>1
    <2>4. cache' \in Seq(Ids') /\ recipe' \in Seq(Fps \X Ids')
      <3>1. cache \in Seq(Ids) /\ recipe \in Seq(Fps \X Ids)
        BY <1>1 DEF TypeOK
      <3> QED
        BY <1>3, <2>2, <3>1
    <2>5. ck' \in [Chunks -> [id : Ids', dup : BOOLEAN, denied : BOOLEAN, ooo : BOOLEAN,
                              sparse : BOOLEAN]]
      <3> DEFINE R(I) == [id : I, dup : BOOLEAN, denied : BOOLEAN, ooo : BOOLEAN, sparse : BOOLEAN]
      <3>1. R(Ids) \subseteq R(Ids')
        BY <1>7
      <3>2. ck \in [Chunks -> R(Ids)]
        BY <1>1 DEF TypeOK
      <3> HIDE DEF R
      <3>3. ck \in [Chunks -> R(Ids')]
        BY <3>1, <3>2
      <3> QED
        BY <1>3, <3>3 DEF R
    <2>6. /\ recently_unique' \in [DOMAIN recently_unique' -> Ids']
          /\ recently_rewritten' \in [DOMAIN recently_rewritten' -> Ids']
      BY <1>1, <1>2, <1>7 DEF TypeOK
    <2>7. open' \in [id : Ids', fps : SUBSET Fps] /\ kv' \in [DOMAIN kv' -> Ids']
      BY <1>2, <1>6, <1>7 DEF NoContainer
    <2>8. place' \in Nat
      BY <1>1, <1>2 DEF TypeOK
    <2> QED
      BY <1>1, <1>2, <1>3, <1>4, <1>6, <2>3, <2>4, <2>5, <2>6, <2>7, <2>8 DEF TypeOK
  <1>9. Flow' /\ LateIsLast'
    <2>1. Flow'
      BY <1>1, <1>3, <1>4, <1>5, FlowKept
    <2> QED
      BY <1>1, <1>2, <1>3, <2>1 DEF LateIsLast
  <1>10. Counted'
    BY <1>3, <1>5 DEF IInv, Counted, Copies
  <1>11. StoreShape'
    <2>1. \A k \in DOMAIN cache : cache[k] + 1 \in DOMAIN containers'
      <3>1. DOMAIN containers = 1 .. Len(containers)
        BY <1>1, NumberShapes
      <3> QED
        BY <1>1, <1>6, <3>1 DEF StoreShape
    <2> QED
      BY <1>2, <1>3, <1>6, <2>1 DEF StoreShape
  <1>12. PointersHold'
    <2>1. \A n \in Chunks : n > LookedUp => ck[n].id = TEMPORARY_ID
      BY DEF IInv, PointersHold
    <2>2. \A k \in DOMAIN recipe' : Holds(recipe[k][2], recipe[k][1])'
      BY <1>1, <1>3, <1>6 DEF RecipeResolvable
    <2>3. \A n \in Chunks' : ck'[n].id # TEMPORARY_ID => Holds(ck[n].id, content[n])'
      BY <1>1, <1>3, <1>4, <1>6 DEF RecipeResolvable
    <2>4. \A g \in Fps : \A id \in ToSet(buffered'[g]) \ {TEMPORARY_ID} : Holds(id, g)'
      BY <1>1, <1>3, <1>6 DEF RecipeResolvable
    <2>5. RecipeResolvable'
      BY <1>6, <2>2, <2>3, <2>4 DEF RecipeResolvable
    <2> QED
      BY <1>2, <1>3, <1>4, <1>5, <2>1, <2>5 DEF PointersHold
  <1>13. DecidedHaveIds' /\ Undecided'
    BY <1>2 DEF DecidedHaveIds, Undecided
  <1>14. FirstCopyIsNew'
    <2>1. \A m \in Len(recipe) + 1 .. LookedUp :
            FirstCopy(m) /\ buffered[content[m]][1] = TEMPORARY_ID => ~ck[m].dup
      BY <1>2 DEF IInv, FirstCopyIsNew, Decided
    <2> QED
      BY <1>2, <1>3, <1>5, <2>1 DEF FirstCopyIsNew, Decided, FirstCopy, NoContainer
  <1> QED
    BY <1>5, <1>8, <1>9, <1>10, <1>11, <1>12, <1>13, <1>14 DEF IInv

\* Every step keeps the invariant.
LEMMA StepInv ==
  ASSUME IInv, [Next]_vars
  PROVE  IInv'
  <1>1. CASE DedupLock \/ EmptySegment
    BY <1>1, LockInv
  <1>2. CASE LookupChunk
    BY <1>2, LookupInv
  <1>3. CASE SendItem
    BY <1>3, SendInv
  <1>4. CASE RewriteItem \/ RewriteEnd \/ PushDrained
    BY <1>4, RewriteInv
  <1>5. CASE LateHarCheck
    BY <1>5, LateInv
  <1>6. CASE CollectItem
    BY <1>6, CollectInv
  <1>7. CASE FilterLock
    BY <1>7, FilterLockInv
  <1>8. CASE DecideChunk
    BY <1>8, DecideInv
  <1>9. CASE FinishSegment
    BY <1>9, FinishInv
  <1>10. CASE FilterEnd
    BY <1>10, FilterEndInv
  <1>11. CASE UNCHANGED vars
    <2>1. /\ UNCHANGED <<jobVars, history, ck, lock, buffered, cache, dedupVars, dedup_queue,
                         rewriteVars, rewrite_queue, filterVars, storeVars, recipe>>
      BY <1>11 DEF vars
    <2>2. /\ UNCHANGED <<content, algo, containers, open, kv, place, recently_unique,
                         recently_rewritten, dedup, segment, cursor, chunk_queue, draining,
                         late, rewrite, filter, s>>
      BY <2>1 DEF jobVars, dedupVars, rewriteVars, filterVars, storeVars
    <2>3. TypeOK /\ DedupInPlace /\ Flow /\ LateIsLast
      BY DEF IInv
    <2>4. DedupInPlace' /\ LookedUp' = LookedUp /\ Sent' = Sent
      BY <2>1, <2>2, <2>3, PlaceKept
    <2>5. Undisturbed
      BY <2>1, <2>2, <2>3, <2>4, DrainKeeps DEF Undisturbed
    <2>6. TypeOK'
      BY <2>1, <2>2, <2>3, <2>5, UndisturbedTypes DEF TypeOK
    <2>7. Flow'
      <3>1. Taken' = Taken /\ OnTheWay' = OnTheWay
        BY <2>1, <2>2 DEF Taken, OnTheWay
      <3> QED
        BY <2>1, <2>2, <2>3, <2>4, <3>1, FlowKept
    <2>8. LateIsLast'
      BY <2>1, <2>2, <2>3 DEF LateIsLast
    <2> QED
      BY <2>4, <2>5, <2>6, <2>7, <2>8, UndisturbedKeeps DEF IInv
  <1> QED
    BY <1>1, <1>2, <1>3, <1>4, <1>5, <1>6, <1>7, <1>8, <1>9, <1>10, <1>11
       DEF Next, Dedup, Rewrite, Filter, Over

\* The invariant holds at first.
LEMMA InitInv ==
  ASSUME Init
  PROVE  IInv
  <1>1. /\ content \in Seq(Fps) /\ algo \in Algorithms /\ Len(content) \in Nat
    <2>1. PICK n \in Lengths : content \in [1 .. n -> Fps]
      BY DEF Init
    <2>2. n \in Nat
      BY PipelineAssumption
    <2> QED
      BY <2>1, <2>2, SeqFacts DEF Init
  <1>2. /\ containers \in Seq(SUBSET Fps) /\ Len(containers) \in Nat
        /\ DOMAIN containers = 1 .. Len(containers)
        /\ \A k \in 1 .. Len(containers) : containers[k] \in SUBSET Fps
    <2>1. containers \in Seq(SUBSET Fps)
      BY PipelineAssumption DEF Init
    <2> QED
      BY <2>1, SeqFacts
  <1>3. Ids = -1 .. Len(containers) /\ TEMPORARY_ID = -1 /\ TEMPORARY_ID \in Ids
    BY <1>2 DEF Ids, TEMPORARY_ID
  <1> DEFINE places(f) == {k \in DOMAIN containers : f \in containers[k]}
             D == UNION {containers[k] \intersect Sampled : k \in DOMAIN containers}
  <1>4. ASSUME NEW f \in D
        PROVE  f \in Fps /\ Max(places(f)) \in 1 .. Len(containers) /\ f \in containers[Max(places(f))]
    <2>1. places(f) # {} /\ places(f) \in SUBSET (0 .. Len(containers))
      BY <1>2
    <2> HIDE DEF places
    <2>2. Max(places(f)) \in places(f)
      BY <1>2, <2>1, MaxOfPlaces
    <2>3. f \in Fps
      BY <1>2
    <2> QED
      BY <1>2, <2>2, <2>3 DEF places
  <1>5. kv = [f \in D |-> Max(places(f)) - 1]
    BY DEF Init
  <1> HIDE DEF D, places
  <1>6. /\ DOMAIN kv \subseteq Fps
        /\ \A f \in DOMAIN kv :
             /\ kv[f] \in Ids /\ kv[f] + 1 \in DOMAIN containers /\ f \in containers[kv[f] + 1]
    <2>1. ASSUME NEW f \in D
          PROVE  /\ f \in Fps /\ kv[f] = Max(places(f)) - 1
                 /\ kv[f] \in Ids /\ kv[f] + 1 \in DOMAIN containers /\ f \in containers[kv[f] + 1]
      BY <1>2, <1>3, <1>4, <1>5
    <2>2. DOMAIN kv = D
      BY <1>5
    <2> QED
      BY <2>1, <2>2
  <1>7. kv \in [DOMAIN kv -> Ids]
    <2>1. kv = [f \in DOMAIN kv |-> kv[f]]
      BY <1>5
    <2> QED
      BY <1>6, <2>1
  <1>8. \A S : <<>> \in Seq(S)
    BY EmptySeq
  <1>9. Len(<<>>) = 0
    BY EmptySeq
  <1>10. /\ lock = "free" /\ open = NoContainer /\ dedup = "lock" /\ segment = 0 /\ cursor = 1
         /\ cache = <<>> /\ dedup_queue = <<>> /\ rewrite_queue = <<>> /\ chunk_queue = <<>>
         /\ draining = <<>> /\ late = 0 /\ rewrite = "run" /\ filter = "pull" /\ s = <<>>
         /\ place = 1 /\ recently_unique = Empty /\ recently_rewritten = Empty /\ recipe = <<>>
         /\ ck = [n \in Chunks |-> Fresh] /\ buffered = [f \in Fps |-> <<>>]
    BY DEF Init
  <1>11. {RewriteSize, SegmentSize, CacheSize, QueueSize} \subseteq Nat \ {0}
    BY PipelineAssumption
  <1>12. TypeOK
    <2>1. ck \in [Chunks -> [id : Ids, dup : BOOLEAN, denied : BOOLEAN, ooo : BOOLEAN,
                             sparse : BOOLEAN]]
      BY <1>3, <1>10 DEF Fresh
    <2>2. buffered \in [Fps -> Seq(Ids)]
      BY <1>8, <1>10
    <2>3. Empty \in [DOMAIN Empty -> Ids]
      BY DEF Empty
    <2>4. open \in [id : Ids, fps : SUBSET Fps]
      BY <1>3, <1>10 DEF NoContainer
    <2> QED
      BY <1>1, <1>2, <1>6, <1>7, <1>8, <1>9, <1>10, <1>11, <2>1, <2>2, <2>3, <2>4 DEF TypeOK
  <1>13. LookedUp = 0 /\ Sent = 0 /\ DedupInPlace
    <2>1. Base = 0
      BY <1>10, <1>11 DEF Base
    <2>2. LastSegment \in Nat
      <3> DEFINE l == Len(content)
      <3> HIDE DEF l
      <3>1. l \in Nat => l \div SegmentSize \in Nat
        BY <1>11
      <3> QED
        BY <1>1, <3>1 DEF LastSegment, l
    <2> QED
      BY <1>10, <2>1, <2>2 DEF LookedUp, Sent, DedupInPlace
  <1>14. Flow
    <2>1. OnTheWay = <<>>
      BY <1>8, <1>10, JoinEmpty DEF OnTheWay
    <2>2. DOMAIN <<>> = {}
      OBVIOUS
    <2>3. Ordered(<<>>, 0, 0)
      BY <2>2 DEF Ordered
    <2>4. Taken = 0
      BY <1>10 DEF Taken
    <2> QED
      BY <1>9, <1>10, <1>13, <2>1, <2>2, <2>3, <2>4 DEF Flow
  <1>15. LateIsLast
    BY <1>9, <1>10 DEF LateIsLast
  <1>16. Counted
    <2>1. \A f : Copies(f, 0, 0) = {}
      BY DEF Copies
    <2> QED
      BY <1>9, <1>10, <1>13, <2>1, FS_EmptySet DEF Counted
  <1>17. StoreShape
    BY <1>6, <1>10 DEF StoreShape
  <1>18. PointersHold
    <2>1. \A n \in Chunks : ck[n].id = TEMPORARY_ID
      BY <1>10 DEF Fresh
    <2>2. \A f \in Fps : ToSet(buffered[f]) = {}
      BY <1>10 DEF ToSet
    <2>3. \A f \in DOMAIN kv : Holds(kv[f], f)
      BY <1>6 DEF Holds
    <2> QED
      BY <1>10, <2>1, <2>2, <2>3 DEF PointersHold, RecipeResolvable
  <1>19. DecidedHaveIds /\ Undecided
    BY <1>10 DEF DecidedHaveIds, Undecided
  <1>20. FirstCopyIsNew
    BY <1>9, <1>10, <1>13 DEF FirstCopyIsNew
  <1> QED
    BY <1>12, <1>13, <1>14, <1>15, <1>16, <1>17, <1>18, <1>19, <1>20 DEF IInv

\* The invariant holds always.
LEMMA Always ==
  Spec => []IInv
  <1>1. Init => IInv
    BY InitInv
  <1>2. IInv /\ [Next]_vars => IInv'
    BY StepInv
  <1> QED
    BY <1>1, <1>2, PTL DEF Spec

-----------------------------------------------------------------------------
(* The theorems.                                                           *)

\* TypeOK: ids, places and items are in their ranges, and the two bounded queues,
\* between the threads of dedup_phase.c, rewrite_phase.c and filter_phase.c, and
\* the fingerprint cache keep to their sizes.
THEOREM TypeCorrect ==
  Spec => []TypeOK
  <1>1. IInv => TypeOK
    BY DEF IInv
  <1> QED
    BY <1>1, Always, PTL

\* RecipeFaithful: every id leads to a container that holds the chunk, the recipe
\* is the stream, and the assertions of filter_phase.c:112 and index.c:397 hold,
\* whatever the three threads do in between.
THEOREM RecipeAlwaysFaithful ==
  Spec => []RecipeFaithful
  <1>1. ASSUME IInv PROVE RecipeFaithful
    <2>1. RecipeResolvable /\ RecipeInOrder
      BY <1>1 DEF IInv, PointersHold, Flow, RecipeInOrder
    <2>2. ASSUME filter = "decide", NEW k \in DOMAIN s
          PROVE  buffered[content[s[k]]] # <<>> /\ s[k] \in Len(recipe) + 1 .. LookedUp
      <3>1. s[k] \in ToSet(s)
        BY DEF ToSet
      <3>2. s[k] \in Len(recipe) + 1 .. LookedUp
        BY <1>1, <2>2, <3>1, SegmentUnderWay
      <3> QED
        BY <1>1, <3>2, BufferHead
    <2>3. ASSUME filter = "decide", place <= Len(s)
          PROVE  Resolvable(s[place])
      <3> DEFINE n == s[place]
                 f == content[n]
                 L == Len(recipe)
                 T == {j \in L + 1 .. n : content[j] = f}
      <3>1. /\ place \in 1 .. Len(s) /\ Len(s) \in Nat /\ DOMAIN s = 1 .. Len(s)
        BY <1>1, <2>3, NumberShapes DEF IInv, DecidedHaveIds
      <3>2. n = L + place /\ n \in L + 1 .. LookedUp /\ L \in Nat /\ LookedUp \in Nat
        BY <1>1, <2>2, <2>3, <3>1, SegmentUnderWay
      <3> SUFFICES ASSUME ck[n].dup, ck[n].id = TEMPORARY_ID
                   PROVE  f \in DOMAIN recently_unique
        BY DEF Resolvable
      <3>3. buffered[f][1] = TEMPORARY_ID
        <4>1. place \in place .. Len(s)
          BY <3>1
        <4> QED
          BY <1>1, <2>3, <4>1 DEF IInv, Undecided
      <3>4. T # {} /\ T \in SUBSET Nat
        BY <3>2
      <3>5. PICK m \in T : \A j \in T : m <= j
        BY <3>4, FirstPlace
      <3> HIDE DEF n
      <3>6. m \in L + 1 .. LookedUp /\ content[m] = f /\ m <= n
        BY <3>2
      <3>7. FirstCopy(m)
        <4>1. ASSUME NEW j \in L + 1 .. m - 1 PROVE content[j] # f
          BY <3>2, <3>5, <3>6
        <4> QED
          BY <3>6, <4>1 DEF FirstCopy
      <3>8. IF m < L + place THEN content[m] \in DOMAIN recently_unique ELSE ~ck[m].dup
        BY <1>1, <2>3, <3>3, <3>6, <3>7 DEF IInv, FirstCopyIsNew, Decided
      <3>9. m < L + place \/ m = n
        BY <3>2, <3>6
      <3> QED
        BY <3>6, <3>8, <3>9
    <2> QED
      BY <2>1, <2>2, <2>3 DEF RecipeFaithful, SelfReferenceResolved
  <1> QED
    BY <1>1, Always, PTL

\* The chunk that no_rewrite is still to mark is not in the segment under way.
LEMMA LateNotTaken ==
  ASSUME IInv, filter \in {"lock", "decide"}
  PROVE  late \notin ToSet(s)
  <1> SUFFICES ASSUME late \in ToSet(s) PROVE FALSE
    OBVIOUS
  <1>1. TypeOK /\ Flow /\ LateIsLast
    BY DEF IInv
  <1>2. /\ Taken = Len(s) /\ Len(s) \in Nat /\ Len(recipe) \in Nat
        /\ late \in Len(recipe) + 1 .. Len(recipe) + Len(s)
    BY SegmentUnderWay
  <1>3. late # 0 /\ IsChunk(late)
    BY <1>2 DEF IsChunk
  <1>4. rewrite_queue # <<>> /\ rewrite_queue[Len(rewrite_queue)] = late
    BY <1>1, <1>3 DEF LateIsLast
  <1>5. \E i \in DOMAIN OnTheWay : OnTheWay[i] = late
    <2> DEFINE e == Joined(draining, Joined(chunk_queue, dedup_queue))
               a == rewrite_queue
    <2>1. a \in Seq(Items) /\ e \in Seq(Items)
      <3>1. /\ rewrite_queue \in Seq(Items) /\ draining \in Seq(Items)
            /\ chunk_queue \in Seq(Items) /\ dedup_queue \in Seq(Items)
        BY <1>1 DEF TypeOK
      <3>2. Joined(chunk_queue, dedup_queue) \in Seq(Items)
        BY <3>1, JoinType, Zenon
      <3> QED
        BY <3>1, <3>2, JoinType, Zenon
    <2>2. OnTheWay = Joined(a, e)
      BY DEF OnTheWay
    <2> HIDE DEF e
    <2>3. /\ Joined(a, e) \in Seq(Items) /\ Len(Joined(a, e)) = Len(a) + Len(e)
          /\ \A i \in 1 .. Len(a) + Len(e) :
               Joined(a, e)[i] = IF i <= Len(a) THEN a[i] ELSE e[i - Len(a)]
      BY <2>1, ConcatProperties DEF Joined
    <2>4. Len(a) \in Nat \ {0} /\ Len(e) \in Nat
      BY <1>4, <2>1, SeqFacts
    <2>5. Len(a) \in DOMAIN Joined(a, e) /\ Joined(a, e)[Len(a)] = late
      <3>1. DOMAIN Joined(a, e) = 1 .. Len(a) + Len(e)
        BY <2>3, SeqFacts
      <3> QED
        BY <1>4, <2>3, <2>4, <3>1
    <2> QED
      BY <2>2, <2>5
  <1>6. Len(recipe) + Taken < late
    BY <1>1, <1>3, <1>5 DEF Flow, Ordered
  <1> QED
    BY <1>2, <1>6

\* MarkedBeforeDecision: the chunk that no_rewrite is still to mark is not in the
\* segment that the filter thread decides about (rewrite_phase.c, no_rewrite).
THEOREM MarkedFirst ==
  Spec => []MarkedBeforeDecision
  <1>1. IInv => MarkedBeforeDecision
    BY LateNotTaken DEF MarkedBeforeDecision
  <1> QED
    BY <1>1, Always, PTL

\* NeverOlderCopy: whoever holds the struct of a chunk, index_lookup,
\* index_check_buffer or the filter thread, a step gives it no older container.
THEOREM NeverRedirectedBack ==
  Spec => NeverOlderCopy
  <1>1. ASSUME IInv, [Next]_vars
        PROVE  [\A n \in Chunks : ck[n].id <= ck'[n].id]_ck
    <2>1. TypeOK /\ DedupInPlace /\ LateIsLast
      BY <1>1 DEF IInv
    <2>2. \A n \in Chunks : ck[n].id \in Int
      BY <2>1, NumberShapes DEF TypeOK
    <2>3. (ck' = ck \/ ChunksKept) => \A n \in Chunks : ck[n].id <= ck'[n].id
      BY <2>2 DEF ChunksKept
    <2>4. CASE RewriteItem \/ RewriteEnd \/ PushDrained
      BY <2>1, <2>3, <2>4, RewriteStep
    <2>5. CASE LateHarCheck
      <3>1. late \in Chunks /\ ck' = [ck EXCEPT ![late] = HarCheck(@)]
        BY <2>1, <2>5 DEF LateHarCheck, TypeOK
      <3>2. \A n \in Chunks : HarCheck(ck[n]).id = ck[n].id
        BY <2>1, HarCheckKeeps DEF TypeOK
      <3>3. \A n \in Chunks : ck'[n].id = ck[n].id
        BY <2>1, <3>1, <3>2 DEF TypeOK
      <3> QED
        BY <2>2, <3>3
    <2>6. CASE LookupChunk
      <3>1. PICK c \in Struct : Looked(c)
        BY <1>1, <2>6, LookupFinds DEF Struct
      <3>2. /\ ck'[LookedUp + 1] = c /\ LookedUp \in Nat /\ LookedUp + 1 \in Chunks
            /\ \A n \in Chunks : n # LookedUp + 1 => ck'[n] = ck[n]
        BY <1>1, <3>1, LookedChanges
      <3>3. ck[LookedUp + 1].id = TEMPORARY_ID
        BY <1>1, <3>2 DEF IInv, PointersHold
      <3>4. c.id \in Ids /\ TEMPORARY_ID <= c.id
        BY <2>1, NumberShapes DEF Struct, Ids, TEMPORARY_ID
      <3>5. ASSUME NEW n \in Chunks PROVE ck[n].id <= ck'[n].id
        <4>1. CASE n = LookedUp + 1
          BY <3>2, <3>3, <3>4, <4>1
        <4>2. CASE n # LookedUp + 1
          BY <2>2, <3>2, <4>2
        <4> QED
          BY <4>1, <4>2
      <3> QED
        BY <3>5
    <2>7. CASE FilterLock
      <3>1. /\ filter = "lock"
            /\ ck' = [n \in Chunks |-> IF n \in ToSet(s) THEN CheckBuffer(n) ELSE ck[n]]
        BY <2>7 DEF FilterLock
      <3>2. \A n \in ToSet(s) : ck[n].id <= CheckBuffer(n).id
        BY <1>1, <3>1, CheckedKeeps
      <3> QED
        BY <2>2, <3>1, <3>2
    <2>8. CASE DecideChunk
      <3>1. PICK n : n = s[place]
        OBVIOUS
      <3>2. /\ \A m \in Chunks : m # n => ck'[m] = ck[m]
            /\ ck[n].id <= ck'[n].id
        BY <1>1, <2>8, <3>1, DecideStep DEF DecisionOf
      <3> QED
        BY <2>2, <3>2
    <2>9. CASE ck' = ck
      BY <2>9
    <2>10. \/ RewriteItem \/ RewriteEnd \/ PushDrained \/ LateHarCheck \/ LookupChunk
           \/ FilterLock \/ DecideChunk \/ ck' = ck
      BY <1>1 DEF Next, Dedup, Rewrite, Filter, Over, vars, DedupLock, EmptySegment,
                  SendItem, CollectItem, FinishSegment, FilterEnd
    <2> QED
      BY <2>4, <2>5, <2>6, <2>7, <2>8, <2>9, <2>10
  <1> QED
    BY <1>1, Always, PTL DEF Spec, NeverOlderCopy

-----------------------------------------------------------------------------
(* What is written twice: a chunk that is new has no copy that was looked  *)
(* up before it and is not in the recipe.                                  *)

\* A chunk that was looked up without a finding was the first of its copies then,
\* and the table of written chunks has the fingerprints of the segment only.
FirstIsNew ==
  /\ ahead \in [Chunks -> Nat]
  /\ \A n \in 1 .. LookedUp : ahead[n] <= Len(recipe)
  /\ \A n \in 1 .. LookedUp :
       ~ck[n].dup => \A j \in ahead[n] + 1 .. n - 1 : content[j] # content[n]
  /\ filter = "decide" =>
       \A f \in DOMAIN recently_unique :
         \E j \in Len(recipe) + 1 .. Len(recipe) + place - 1 : content[j] = f

\* A step that looks up nothing and decides nothing: all but four kinds.
OnlyMoves ==
  /\ UNCHANGED <<content, algo, inherited, ahead, rewritten, buffered, recipe, place,
                 recently_unique, recently_rewritten>>
  /\ LookedUp' = LookedUp /\ ChunksKept
  /\ filter' = "decide" <=> filter = "decide"
  /\ filter = "decide" => s' = s

\* Four kinds of step are not of that kind: a lookup, the lock, a decision, the end of a
\* segment.
LEMMA Movers ==
  ASSUME IInv, [Next]_vars,
         ~LookupChunk, ~FilterLock, ~DecideChunk, ~FinishSegment
  PROVE  OnlyMoves
  <1>1. TypeOK /\ DedupInPlace /\ LateIsLast
    BY DEF IInv
  <1>2. CASE DedupLock \/ EmptySegment
    <2>1. UNCHANGED <<jobVars, history, ck, buffered, filterVars, recipe>>
      BY <1>2 DEF DedupLock, EmptySegment
    <2>2. LookedUp' = LookedUp
      BY <1>1, <1>2, LockStep
    <2> QED
      BY <1>1, <2>1, <2>2, DrainKeeps DEF OnlyMoves, jobVars, history, filterVars
  <1>3. CASE SendItem
    <2>1. UNCHANGED <<jobVars, history, ck, buffered, filterVars, recipe>>
      BY <1>3 DEF SendItem
    <2>2. LookedUp' = LookedUp
      BY <1>1, <1>3, SendStep
    <2> QED
      BY <1>1, <2>1, <2>2, DrainKeeps DEF OnlyMoves, jobVars, history, filterVars
  <1>4. CASE RewriteItem \/ RewriteEnd \/ PushDrained
    <2>1. UNCHANGED <<jobVars, history, lock, buffered, dedupVars, filterVars, recipe>>
      BY <1>4 DEF RewriteItem, RewriteEnd, PushDrained
    <2>2. ChunksKept
      BY <1>1, <1>4, RewriteStep
    <2>3. UNCHANGED <<content, filter>>
      BY <2>1 DEF jobVars, filterVars
    <2>4. LookedUp' = LookedUp
      BY <1>1, <2>1, <2>3, PlaceKept
    <2> QED
      BY <2>1, <2>2, <2>4 DEF OnlyMoves, jobVars, history, filterVars
  <1>5. CASE LateHarCheck
    <2>1. /\ UNCHANGED <<jobVars, history, lock, buffered, dedupVars, filterVars, recipe>>
          /\ late \in Chunks /\ ck' = [ck EXCEPT ![late] = HarCheck(@)]
      BY <1>1, <1>5 DEF LateHarCheck, TypeOK
    <2>2. UNCHANGED <<content, filter>>
      BY <2>1 DEF jobVars, filterVars
    <2>3. LookedUp' = LookedUp
      BY <1>1, <2>1, <2>2, PlaceKept
    <2>4. ChunksKept
      <3> DEFINE R == [id : Ids, dup : BOOLEAN, denied : BOOLEAN, ooo : BOOLEAN, sparse : BOOLEAN]
      <3>1. ck \in [Chunks -> R]
        BY <1>1 DEF TypeOK
      <3>2. /\ HarCheck(ck[late]) \in R
            /\ HarCheck(ck[late]).id = ck[late].id /\ HarCheck(ck[late]).dup = ck[late].dup
        BY <2>1, <3>1, HarCheckKeeps
      <3> HIDE DEF R
      <3>3. ck' \in [Chunks -> R]
        BY <2>1, <3>1, <3>2
      <3>4. \A n \in Chunks : ck'[n].id = ck[n].id /\ ck'[n].dup = ck[n].dup
        BY <2>1, <3>1, <3>2
      <3> QED
        BY <3>3, <3>4 DEF ChunksKept, R
    <2> QED
      BY <2>1, <2>3, <2>4 DEF OnlyMoves, jobVars, history, filterVars
  <1>6. CASE CollectItem
    <2>1. /\ UNCHANGED <<jobVars, history, ck, lock, buffered, dedupVars, place, recently_unique,
                         recently_rewritten, recipe>>
          /\ filter \in {"pull", "collect"} /\ filter' \in {"collect", "lock"}
      BY <1>6 DEF CollectItem
    <2>2. content' = content
      BY <2>1 DEF jobVars
    <2>3. LookedUp' = LookedUp
      BY <1>1, <2>1, <2>2, PlaceKept
    <2> QED
      BY <1>1, <2>1, <2>3, DrainKeeps DEF OnlyMoves, jobVars, history
  <1>7. CASE FilterEnd
    <2>1. /\ UNCHANGED <<jobVars, history, ck, lock, buffered, dedupVars, place, recently_unique,
                         recently_rewritten, recipe>>
          /\ filter = "pull" /\ filter' = "done"
      BY <1>7 DEF FilterEnd
    <2>2. content' = content
      BY <2>1 DEF jobVars
    <2>3. LookedUp' = LookedUp
      BY <1>1, <2>1, <2>2, PlaceKept
    <2> QED
      BY <1>1, <2>1, <2>3, DrainKeeps DEF OnlyMoves, jobVars, history
  <1>8. CASE UNCHANGED vars
    <2>1. UNCHANGED <<jobVars, history, ck, lock, buffered, dedupVars, filterVars, recipe>>
      BY <1>8 DEF vars
    <2>2. UNCHANGED <<content, filter>>
      BY <2>1 DEF jobVars, filterVars
    <2>3. LookedUp' = LookedUp
      BY <1>1, <2>1, <2>2, PlaceKept
    <2> QED
      BY <1>1, <2>1, <2>3, DrainKeeps DEF OnlyMoves, jobVars, history, filterVars
  <1> QED
    BY <1>2, <1>3, <1>4, <1>5, <1>6, <1>7, <1>8 DEF Next, Dedup, Rewrite, Filter, Over

\* What a lookup says of the chunk.
FoundAs(c, f) ==
  /\ Looked(c) /\ ~c.ooo /\ ~c.sparse
  /\ c.denied => c.dup /\ open # NoContainer /\ c.id = open.id
  /\ ~c.denied /\ buffered[f] # <<>> => c.dup /\ c.id = Head(buffered[f])
  /\ ~c.dup => buffered[f] = <<>> /\ f \notin open.fps /\ f \notin DOMAIN kv

\* index_lookup finds the chunk in the buffer, the cache or the store, or it is new.
LEMMA LookupSays ==
  ASSUME IInv, LookupChunk
  PROVE  \E c \in Struct : FoundAs(c, content[LookedUp + 1])
  <1> DEFINE f == content[LookedUp + 1]
  <1>1. TypeOK /\ DedupInPlace /\ StoreShape
    BY DEF IInv
  <1>2. PICK c : Looked(c)
    BY DEF LookupChunk
  <1>3. content[SegmentChunks(segment)[cursor]] = f /\ LookedUp + 1 \in Chunks
    BY <1>1, <1>2, LookStep
  <1>4. f \in Fps
    BY <1>1, <1>3, NumberShapes
  <1> HIDE DEF f
  <1>5. \A id \in Ids : /\ Duplicate(id) \in Struct /\ Duplicate(id).id = id /\ Duplicate(id).dup
                        /\ ~Duplicate(id).denied /\ ~Duplicate(id).ooo /\ ~Duplicate(id).sparse
    BY DEF Duplicate, Fresh, Struct
  <1>6. \A id \in Ids : LET d == [Duplicate(id) EXCEPT !.denied = TRUE]
                        IN  d \in Struct /\ d.id = id /\ d.dup /\ d.denied /\ ~d.ooo /\ ~d.sparse
    BY DEF Duplicate, Fresh, Struct
  <1>7. TEMPORARY_ID \in Ids /\ Len(containers) \in Nat
    BY <1>1, NumberShapes
  <1>8. Fresh \in Struct /\ ~Fresh.dup /\ ~Fresh.denied /\ ~Fresh.ooo /\ ~Fresh.sparse
    BY <1>7 DEF Fresh, Struct
  <1>9. CASE /\ InOpen(f)
             /\ Looked([Duplicate(open.id) EXCEPT !.denied = TRUE])
    <2> DEFINE d == [Duplicate(open.id) EXCEPT !.denied = TRUE]
    <2>1. open # NoContainer /\ open.id \in Ids
      BY <1>1, <1>9 DEF InOpen, NoContainer, TypeOK
    <2>2. d \in Struct /\ d.id = open.id /\ d.dup /\ d.denied /\ ~d.ooo /\ ~d.sparse
      BY <1>6, <2>1
    <2> HIDE DEF d
    <2>3. Looked(d)
      BY <1>9 DEF d
    <2> QED
      BY <2>1, <2>2, <2>3 DEF FoundAs, f
  <1>10. CASE /\ ~InOpen(f) /\ Buffered(f)
              /\ Looked(Duplicate(Head(buffered[f])))
    <2> DEFINE id == Head(buffered[f])
               d == Duplicate(id)
    <2>1. buffered[f] \in Seq(Ids) /\ buffered[f] # <<>>
      BY <1>1, <1>4, <1>10 DEF TypeOK, Buffered
    <2>2. id \in Ids
      BY <2>1, HeadTailProperties
    <2> HIDE DEF id
    <2>3. d \in Struct /\ d.id = id /\ d.dup /\ ~d.denied /\ ~d.ooo /\ ~d.sparse
      BY <1>5, <2>2
    <2> HIDE DEF d
    <2>4. Looked(d)
      BY <1>10 DEF d, id
    <2> QED
      BY <2>3, <2>4 DEF FoundAs, f, id
  <1>11. CASE /\ ~InOpen(f) /\ ~Buffered(f) /\ Cached(f) # {}
              /\ Looked(Duplicate(cache[Min(Cached(f))]))
    <2> DEFINE k == Min(Cached(f))
               d == Duplicate(cache[k])
    <2>1. cache \in Seq(Ids) /\ DOMAIN cache = 1 .. Len(cache) /\ Len(cache) \in Nat
      BY <1>1, SeqFacts DEF TypeOK
    <2>2. k \in Cached(f)
      <3>1. Cached(f) \in SUBSET Nat /\ Cached(f) # {}
        BY <1>11, <2>1 DEF Cached
      <3> QED
        BY <3>1, MinOfPlaces
    <2>3. cache[k] \in Ids
      <3>1. k \in 1 .. Len(cache)
        BY <2>1, <2>2 DEF Cached
      <3> QED
        BY <2>1, <3>1, SeqFacts
    <2> HIDE DEF k
    <2>4. d \in Struct /\ d.dup /\ ~d.denied /\ ~d.ooo /\ ~d.sparse
      BY <1>5, <2>3
    <2> HIDE DEF d
    <2>5. Looked(d)
      BY <1>11 DEF d, k
    <2> QED
      BY <1>11, <2>4, <2>5 DEF FoundAs, f, Buffered
  <1>12. CASE /\ ~InOpen(f) /\ ~Buffered(f) /\ f \in DOMAIN kv
              /\ Looked(Duplicate(kv[f]))
    <2> DEFINE d == Duplicate(kv[f])
    <2>1. kv[f] \in Ids
      BY <1>1, <1>12 DEF TypeOK
    <2>2. d \in Struct /\ d.dup /\ ~d.denied /\ ~d.ooo /\ ~d.sparse
      BY <1>5, <2>1
    <2> HIDE DEF d
    <2>3. Looked(d)
      BY <1>12 DEF d
    <2> QED
      BY <1>12, <2>2, <2>3 DEF FoundAs, f, Buffered
  <1>13. CASE ~InOpen(f) /\ ~Buffered(f) /\ f \notin DOMAIN kv /\ Looked(Fresh)
    BY <1>8, <1>13 DEF FoundAs, f, Buffered, InOpen
  <1> QED
    BY <1>3, <1>9, <1>10, <1>11, <1>12, <1>13 DEF LookupChunk

\* The decision about a chunk that is written, and about one that is not.
WrittenAs(n, c) ==
  /\ Writes(c) /\ c.dup = ck[n].dup
  /\ ck' \in [Chunks -> Struct'] /\ \A m \in Chunks : m # n => ck'[m] = ck[m]
  /\ ck'[n].id = Target.id /\ ck'[n].dup = c.dup
  /\ ck'[n].denied = c.denied /\ ck'[n].ooo = c.ooo /\ ck'[n].sparse = c.sparse
  /\ content[n] \in Target.fps =>
       UNCHANGED <<recently_unique, recently_rewritten, rewritten>>
  /\ content[n] \notin Target.fps /\ c.dup =>
       /\ recently_rewritten' = Entered(recently_rewritten, content[n], Target.id)
       /\ rewritten' = rewritten \union {n} /\ recently_unique' = recently_unique
  /\ content[n] \notin Target.fps /\ ~c.dup =>
       /\ recently_unique' = Entered(recently_unique, content[n], Target.id)
       /\ UNCHANGED <<recently_rewritten, rewritten>>
  /\ IF open # NoContainer /\ Overflow THEN Seal ELSE UNCHANGED <<containers, kv>>
  /\ open' = [Target EXCEPT !.fps = @ \union {content[n]}]
LeftAsIs(n, c) ==
  /\ c.dup /\ c.dup = ck[n].dup /\ (~Writes(c) \/ Spared(c))
  /\ ck' \in [Chunks -> Struct] /\ \A m \in Chunks : m # n => ck'[m] = ck[m]
  /\ ck'[n] = c
  /\ UNCHANGED <<containers, open, kv, recently_unique, recently_rewritten, rewritten>>

\* The chunk whose turn it is is written or left as it is.
LEMMA DecideCases ==
  ASSUME IInv, DecideChunk, NEW n, n = s[place]
  PROVE  \E c \in Struct : c = Resolved(n) /\ (WrittenAs(n, c) \/ LeftAsIs(n, c))
  <1>1. /\ DecisionOf(n) /\ n \in Chunks
    BY DecideStep
  <1>2. /\ filter = "decide" /\ place <= Len(s) /\ Resolvable(n)
    BY DEF DecideChunk
  <1>3. /\ content[n] \in Fps /\ Resolved(n) \in Struct /\ Resolved(n).dup = ck[n].dup
    BY <1>2, ResolvedFacts
  <1>4. PICK c \in Struct : c = Resolved(n)
    BY <1>3
  <1>5. \/ /\ Writes(c) /\ WriteChunk(n, c)
        \/ /\ ~Writes(c) \/ Spared(c)
           /\ ck' = [ck EXCEPT ![n] = c]
           /\ UNCHANGED <<storeVars, recently_unique, recently_rewritten, rewritten>>
    BY <1>4 DEF DecideChunk
  <1>6. ck \in [Chunks -> Struct]
    BY DEF IInv, TypeOK, Struct
  <1>7. CASE Writes(c) /\ WriteChunk(n, c)
    <2>i. PICK i : i = Target.id
      OBVIOUS
    <2> DEFINE e == [c EXCEPT !.id = i]
    <2>1. /\ e.id = i /\ e.dup = c.dup /\ e.denied = c.denied
          /\ e.ooo = c.ooo /\ e.sparse = c.sparse
      BY DEF Struct
    <2>2. ck' = [ck EXCEPT ![n] = e]
      BY <1>7, <2>i DEF WriteChunk
    <2> HIDE DEF e
    <2>3. ck'[n] = e
      BY <1>1, <1>6, <2>2
    <2>4. ck' \in [Chunks -> Struct'] /\ \A m \in Chunks : m # n => ck'[m] = ck[m]
      BY <1>1 DEF DecisionOf
    <2>5. /\ content[n] \in Target.fps =>
               UNCHANGED <<recently_unique, recently_rewritten, rewritten>>
          /\ content[n] \notin Target.fps /\ c.dup =>
               /\ recently_rewritten' = Entered(recently_rewritten, content[n], Target.id)
               /\ rewritten' = rewritten \union {n} /\ recently_unique' = recently_unique
          /\ content[n] \notin Target.fps /\ ~c.dup =>
               /\ recently_unique' = Entered(recently_unique, content[n], Target.id)
               /\ UNCHANGED <<recently_rewritten, rewritten>>
          /\ IF open # NoContainer /\ Overflow THEN Seal ELSE UNCHANGED <<containers, kv>>
          /\ open' = [Target EXCEPT !.fps = @ \union {content[n]}]
      BY <1>7 DEF WriteChunk
    <2>6. WrittenAs(n, c)
      BY <1>3, <1>4, <1>7, <2>i, <2>1, <2>3, <2>4, <2>5 DEF WrittenAs
    <2> QED
      BY <1>4, <2>6
  <1>8. CASE /\ ~Writes(c) \/ Spared(c)
             /\ ck' = [ck EXCEPT ![n] = c]
             /\ UNCHANGED <<storeVars, recently_unique, recently_rewritten, rewritten>>
    <2>1. c.dup
      BY <1>8 DEF Writes, Spared
    <2>2. LeftAsIs(n, c)
      BY <1>1, <1>3, <1>4, <1>6, <1>8, <2>1 DEF LeftAsIs, storeVars
    <2> QED
      BY <1>4, <2>2
  <1> QED
    BY <1>5, <1>7, <1>8

\* The lock is taken: the checked chunks, and nothing else of these.
LEMMA LockTaken ==
  ASSUME IInv, FilterLock
  PROVE  /\ UNCHANGED <<content, algo, inherited, ahead, rewritten, buffered, recipe, s,
                        containers, open, kv, late, rewrite_queue>>
         /\ LookedUp' = LookedUp /\ Chunks' = Chunks /\ Taken' = Taken
         /\ filter = "lock" /\ filter' = "decide" /\ place' = 1
         /\ DOMAIN recently_unique' = {} /\ DOMAIN recently_rewritten' = {}
         /\ \A n \in Chunks : ck'[n].dup = ck[n].dup
         /\ \A n \in ToSet(s) : ck'[n] = CheckBuffer(n)
         /\ \A n \in Chunks : n \notin ToSet(s) => ck'[n] = ck[n]
  <1>1. /\ filter = "lock" /\ filter' = "decide" /\ lock = "free" /\ lock' = "filter"
        /\ ck' = [n \in Chunks |-> IF n \in ToSet(s) THEN CheckBuffer(n) ELSE ck[n]]
        /\ place' = 1 /\ recently_unique' = Empty /\ recently_rewritten' = Empty
        /\ UNCHANGED <<jobVars, history, buffered, dedupVars, s, storeVars, recipe,
                       rewriteVars, rewrite_queue>>
    BY DEF FilterLock
  <1>2. UNCHANGED <<content, segment, cursor, dedup, algo, inherited, ahead, rewritten,
                    containers, open, kv, late, rewrite_queue>>
    BY <1>1 DEF jobVars, history, dedupVars, storeVars, rewriteVars
  <1>3. LookedUp' = LookedUp
    BY <1>2, OthersKeepNumbers DEF IInv
  <1>4. ToSet(s) \subseteq Chunks
    BY <1>1, SegmentUnderWay
  <1>5. ASSUME NEW n \in Chunks PROVE ck'[n].dup = ck[n].dup
    BY <1>1, <1>5, CheckedKeeps
  <1>6. Chunks' = Chunks /\ Taken' = Taken
    BY <1>1, <1>2 DEF Chunks, Taken
  <1> QED
    BY <1>1, <1>2, <1>3, <1>4, <1>5, <1>6 DEF Empty

\* The segment ends.
LEMMA SegmentEnds ==
  ASSUME IInv, FinishSegment
  PROVE  /\ UNCHANGED <<content, algo, inherited, ahead, rewritten, ck, s, containers, open, kv,
                        recently_unique, recently_rewritten, late, rewrite_queue>>
         /\ LookedUp' = LookedUp /\ Chunks' = Chunks
         /\ filter = "decide" /\ filter' = "pull" /\ place = Len(s) + 1
         /\ Len(recipe') = Len(recipe) + Len(s) /\ Len(s) \in Nat /\ Len(recipe) \in Nat
         /\ Len(recipe) + Len(s) <= LookedUp
         /\ buffered' = UpdateBuffer
         /\ ToSet(s) = Len(recipe) + 1 .. Len(recipe) + Len(s)
  <1>1. /\ filter = "decide" /\ place > Len(s) /\ filter' = "pull" /\ buffered' = UpdateBuffer
        /\ dedup' = dedup
        /\ UNCHANGED <<jobVars, history, ck, segment, cursor, s, recently_unique,
                       recently_rewritten, storeVars, rewriteVars, rewrite_queue>>
    BY DEF FinishSegment, dedupVars
  <1>2. UNCHANGED <<content, algo, inherited, ahead, rewritten, ck, s, containers, open, kv, segment,
                    cursor, late, rewrite_queue, recently_unique, recently_rewritten>>
    BY <1>1 DEF jobVars, history, storeVars, rewriteVars
  <1>3. LookedUp' = LookedUp
    BY <1>1, <1>2, OthersKeepNumbers DEF IInv
  <1>4. Chunks' = Chunks
    BY <1>2 DEF Chunks
  <1> QED
    BY <1>1, <1>2, <1>3, <1>4, SegmentDecided, SegmentUnderWay, RecipeGrows

\* A lookup, and what it says.
LEMMA LookupEnters ==
  ASSUME IInv, NEW c \in Struct, FoundAs(c, content[LookedUp + 1])
  PROVE  /\ UNCHANGED <<content, algo, inherited, rewritten, recipe, filter, s, place,
                        recently_unique, recently_rewritten, containers, open, kv, late,
                        rewrite_queue>>
         /\ LookedUp' = LookedUp + 1 /\ Chunks' = Chunks /\ Taken' = Taken
         /\ LookedUp + 1 \in Chunks /\ filter # "decide"
         /\ ck' \in [Chunks -> Struct] /\ ck'[LookedUp + 1] = c
         /\ \A n \in Chunks : n # LookedUp + 1 => ck'[n] = ck[n]
         /\ ahead' = [ahead EXCEPT ![LookedUp + 1] = Len(recipe)]
         /\ buffered[content[LookedUp + 1]] = <<>> <=>
              \A j \in Len(recipe) + 1 .. LookedUp : content[j] # content[LookedUp + 1]
  <1> DEFINE f == content[LookedUp + 1]
             C == Copies(f, Len(recipe), LookedUp)
  <1>1. Looked(c)
    BY DEF FoundAs
  <1>2. /\ LookedUp' = LookedUp + 1 /\ filter # "decide" /\ LookedUp + 1 \in Chunks
        /\ f \in Fps
        /\ UNCHANGED <<jobVars, rewritten, filterVars, storeVars, recipe, rewriteVars, rewrite_queue>>
        /\ ck' \in [Chunks -> Struct] /\ ck'[LookedUp + 1] = c
        /\ \A n \in Chunks : n # LookedUp + 1 => ck'[n] = ck[n]
    BY <1>1, LookedChanges
  <1>3. UNCHANGED <<content, algo, inherited, rewritten, recipe, filter, s, place,
                    recently_unique, recently_rewritten, containers, open, kv, late, rewrite_queue>>
    BY <1>2 DEF jobVars, filterVars, storeVars, rewriteVars
  <1>4. Chunks' = Chunks /\ Taken' = Taken
    BY <1>3 DEF Chunks, Taken
  <1>5. SegmentChunks(segment)[cursor] = LookedUp + 1
    BY <1>1, LookStep DEF IInv
  <1>6. ahead' = [ahead EXCEPT ![LookedUp + 1] = Len(recipe)]
    BY <1>1, <1>5 DEF Looked
  <1>7. Len(buffered[f]) = Cardinality(C) /\ buffered[f] \in Seq(Ids)
    BY <1>2 DEF IInv, Counted, TypeOK
  <1>8. Cardinality(C) \in Nat /\ (Cardinality(C) = 0 <=> C = {})
    BY BehindLookedUp, CopiesFacts
  <1>9. C = {} <=> \A j \in Len(recipe) + 1 .. LookedUp : content[j] # f
    BY DEF Copies
  <1>10. buffered[f] = <<>> <=> C = {}
    <2>1. buffered[f] = <<>> <=> Len(buffered[f]) = 0
      BY <1>7, EmptySeq
    <2> QED
      BY <1>7, <1>8, <2>1
  <1> QED
    BY <1>2, <1>3, <1>4, <1>6, <1>9, <1>10

\* Every step keeps FirstIsNew.
LEMMA FirstIsNewKept ==
  ASSUME IInv, FirstIsNew, [Next]_vars
  PROVE  FirstIsNew'
  <1> DEFINE L == Len(recipe)
             WasNew(n) == ~ck[n].dup => \A j \in ahead[n] + 1 .. n - 1 : content[j] # content[n]
  <1>1. /\ L \in Nat /\ LookedUp \in Nat /\ L <= LookedUp /\ LookedUp <= Len(content)
        /\ Chunks = 1 .. Len(content) /\ Len(content) \in Nat
        /\ \A n \in 1 .. LookedUp : n \in Chunks
    <2>1. /\ L \in Nat /\ LookedUp \in Nat /\ L <= LookedUp /\ LookedUp <= Len(content)
      BY BehindLookedUp
    <2>2. Chunks = 1 .. Len(content) /\ Len(content) \in Nat
      BY NumberShapes DEF IInv
    <2> QED
      BY <2>1, <2>2
  <1>2. /\ ahead \in [Chunks -> Nat]
        /\ \A n \in 1 .. LookedUp : ahead[n] <= L
        /\ \A n \in 1 .. LookedUp : WasNew(n)
        /\ filter = "decide" => \A f \in DOMAIN recently_unique :
              \E j \in L + 1 .. L + place - 1 : content[j] = f
    BY DEF FirstIsNew
  <1>3. CASE OnlyMoves
    <2>1. /\ UNCHANGED <<content, ahead, recipe, place, recently_unique>>
          /\ LookedUp' = LookedUp /\ (filter' = "decide" <=> filter = "decide")
          /\ Chunks' = Chunks /\ \A n \in Chunks : ck'[n].dup = ck[n].dup
      BY <1>3 DEF OnlyMoves, ChunksKept, Chunks
    <2>2. \A n \in 1 .. LookedUp : WasNew(n)'
      BY <1>1, <1>2, <2>1
    <2> QED
      BY <1>2, <2>1, <2>2 DEF FirstIsNew
  <1>4. CASE LookupChunk
    <2>1. PICK c \in Struct : FoundAs(c, content[LookedUp + 1])
      BY <1>4, LookupSays
    <2>m. PICK m : m = LookedUp + 1
      OBVIOUS
    <2>2. /\ UNCHANGED <<content, recipe, filter, recently_unique>>
          /\ LookedUp' = m /\ Chunks' = Chunks /\ m \in Chunks /\ filter # "decide"
          /\ ck'[m] = c /\ \A n \in Chunks : n # m => ck'[n] = ck[n]
          /\ ahead' = [ahead EXCEPT ![m] = L]
          /\ buffered[content[m]] = <<>> <=> \A j \in L + 1 .. LookedUp : content[j] # content[m]
      BY <2>1, <2>m, LookupEnters
    <2>3. /\ ahead' \in [Chunks -> Nat] /\ ahead'[m] = L
          /\ \A n \in Chunks : n # m => ahead'[n] = ahead[n]
      BY <1>1, <1>2, <2>2
    <2>4. ~c.dup => buffered[content[m]] = <<>>
      BY <2>1, <2>m DEF FoundAs
    <2>5. m - 1 = LookedUp
      BY <1>1, <2>m
    <2>6. WasNew(m)'
      BY <2>2, <2>3, <2>4, <2>5
    <2>7. \A n \in 1 .. m : n = m \/ (n # m /\ n \in 1 .. LookedUp /\ n \in Chunks)
      BY <1>1, <2>m
    <2>8. \A n \in 1 .. m : ahead'[n] <= L
      BY <1>1, <1>2, <2>3, <2>7
    <2>9. \A n \in 1 .. LookedUp : n # m => WasNew(n)'
      BY <1>1, <1>2, <2>2, <2>3
    <2>10. \A n \in 1 .. m : WasNew(n)'
      BY <2>6, <2>7, <2>9
    <2> QED
      BY <2>2, <2>3, <2>8, <2>10 DEF FirstIsNew
  <1>5. CASE FilterLock
    <2>1. /\ UNCHANGED <<content, ahead, recipe>> /\ LookedUp' = LookedUp /\ Chunks' = Chunks
          /\ DOMAIN recently_unique' = {} /\ \A n \in Chunks : ck'[n].dup = ck[n].dup
      BY <1>5, LockTaken
    <2>2. \A n \in 1 .. LookedUp : WasNew(n)'
      BY <1>1, <1>2, <2>1
    <2> QED
      BY <1>2, <2>1, <2>2 DEF FirstIsNew
  <1>6. CASE DecideChunk
    <2>1. PICK m : m = s[place]
      OBVIOUS
    <2>2. PICK c \in Struct : c = Resolved(m) /\ (WrittenAs(m, c) \/ LeftAsIs(m, c))
      BY <1>6, <2>1, DecideCases
    <2>3. /\ filter = "decide" /\ place \in 1 .. Len(s) /\ m = L + place /\ m \in Chunks
          /\ place' = place + 1 /\ UNCHANGED <<content, ahead, recipe, filter>>
          /\ lock' = lock /\ UNCHANGED dedupVars
      BY <1>6, <2>1, DecideStep DEF jobVars
    <2>4. LookedUp' = LookedUp
      BY <2>3, PlaceKept DEF IInv
    <2>5. Chunks' = Chunks
      BY <2>3 DEF Chunks
    <2>6. \A n \in Chunks : ck'[n].dup = ck[n].dup
      BY <2>2 DEF WrittenAs, LeftAsIs
    <2>7. \A n \in 1 .. LookedUp : WasNew(n)'
      BY <1>1, <1>2, <2>3, <2>6
    <2>8. DOMAIN recently_unique' \subseteq DOMAIN recently_unique \union {content[m]}
      <3>1. DOMAIN Entered(recently_unique, content[m], Target.id) = DOMAIN recently_unique \union {content[m]}
        BY DEF Entered
      <3> QED
        BY <2>2, <3>1 DEF WrittenAs, LeftAsIs
    <2>9. ASSUME NEW f \in DOMAIN recently_unique'
          PROVE  \E j \in L + 1 .. L + place' - 1 : content[j] = f
      <3>1. /\ m \in L + 1 .. L + place' - 1
            /\ \A j \in L + 1 .. L + place - 1 : j \in L + 1 .. L + place' - 1
        BY <1>1, <2>3
      <3> QED
        BY <1>2, <2>3, <2>8, <3>1
    <2> QED
      BY <1>2, <2>3, <2>4, <2>5, <2>7, <2>9 DEF FirstIsNew
  <1>7. CASE FinishSegment
    <2>1. /\ UNCHANGED <<content, ahead, ck>> /\ LookedUp' = LookedUp /\ Chunks' = Chunks
          /\ filter' = "pull" /\ Len(recipe') = L + Len(s) /\ Len(s) \in Nat
      BY <1>7, SegmentEnds
    <2>2. \A n \in 1 .. LookedUp : WasNew(n)'
      BY <1>2, <2>1
    <2>3. \A n \in 1 .. LookedUp : ahead[n] <= L + Len(s)
      <3>1. \A n \in 1 .. LookedUp : ahead[n] \in Nat
        BY <1>1, <1>2
      <3> QED
        BY <1>1, <1>2, <2>1, <3>1
    <2> QED
      BY <1>2, <2>1, <2>2, <2>3 DEF FirstIsNew
  <1> QED
    BY <1>3, <1>4, <1>5, <1>6, <1>7, Movers

\* FirstIsNew holds at first,
LEMMA FirstIsNewAtFirst ==
  ASSUME Init
  PROVE  FirstIsNew
  <1>1. IInv
    BY InitInv
  <1>2. /\ ahead = [n \in Chunks |-> 0] /\ filter = "pull" /\ dedup = "lock" /\ segment = 0
    BY DEF Init
  <1>3. SegmentSize \in Nat
    BY <1>1, NumberShapes DEF IInv
  <1>4. LookedUp = 0
    BY <1>2, <1>3 DEF LookedUp, Base
  <1> QED
    BY <1>2, <1>4 DEF FirstIsNew

\* and always.
LEMMA AlwaysFirstIsNew ==
  Spec => []FirstIsNew
  <1>1. IInv /\ FirstIsNew /\ [Next]_vars => FirstIsNew'
    BY FirstIsNewKept
  <1> QED
    BY <1>1, FirstIsNewAtFirst, Always, PTL DEF Spec

\* NoRepeatInSegment: filter_phase.c never inserts a fingerprint into a table of the
\* segment that has it, under all algorithms and with all indexes.
THEOREM NoTableTwice ==
  Spec => []NoRepeatInSegment
  <1>1. ASSUME IInv, FirstIsNew, RecipeFaithful, filter = "decide", place <= Len(s)
        PROVE  LET c == Resolved(s[place])
                   f == content[s[place]]
               IN  Writes(c) => /\ c.dup => f \notin DOMAIN recently_rewritten
                                /\ ~c.dup => f \notin DOMAIN recently_unique
    <2> DEFINE n == s[place]
               f == content[n]
               L == Len(recipe)
    <2>1. Resolvable(n)
      BY <1>1 DEF RecipeFaithful, SelfReferenceResolved
    <2>2. /\ place \in 1 .. Len(s) /\ n = L + place /\ n \in L + 1 .. LookedUp
          /\ Resolved(n) \in Struct /\ Resolved(n).dup = ck[n].dup
      BY <1>1, <2>1, ResolvedFacts
    <2>3. f \in DOMAIN recently_rewritten /\ Resolved(n).dup => ~Writes(Resolved(n))
      <3> SUFFICES ASSUME f \in DOMAIN recently_rewritten, Resolved(n).dup PROVE ~Writes(Resolved(n))
        OBVIOUS
      <3>1. \E b : Resolved(n) = [b EXCEPT !.id = recently_rewritten[f], !.denied = TRUE]
        BY DEF Resolved
      <3>2. PICK b : Resolved(n) = [b EXCEPT !.id = recently_rewritten[f], !.denied = TRUE]
        BY <3>1
      <3>3. DOMAIN Resolved(n) = {"id", "dup", "denied", "ooo", "sparse"}
        BY <2>2 DEF Struct
      <3>4. DOMAIN b = {"id", "dup", "denied", "ooo", "sparse"}
        BY <3>2, <3>3
      <3>5. Resolved(n).denied = TRUE
        BY <3>2, <3>4
      <3> QED
        BY <3>5 DEF Writes
    <2>4. ~Resolved(n).dup => f \notin DOMAIN recently_unique
      <3> SUFFICES ASSUME ~ck[n].dup, f \in DOMAIN recently_unique PROVE FALSE
        BY <2>2
      <3>1. PICK j \in L + 1 .. L + place - 1 : content[j] = f
        BY <1>1 DEF FirstIsNew
      <3>2. L \in Nat /\ LookedUp \in Nat /\ n \in 1 .. LookedUp /\ n \in Chunks
        BY <1>1, <2>2, BehindLookedUp
      <3>3. ahead[n] \in Nat /\ ahead[n] <= L
        BY <1>1, <3>2 DEF FirstIsNew
      <3>4. j \in ahead[n] + 1 .. n - 1
        BY <2>2, <3>2, <3>3
      <3> QED
        BY <1>1, <3>1, <3>2, <3>4 DEF FirstIsNew
    <2> QED
      BY <2>3, <2>4
  <1>2. IInv /\ FirstIsNew /\ RecipeFaithful => NoRepeatInSegment
    BY <1>1 DEF NoRepeatInSegment
  <1> QED
    BY <1>2, Always, AlwaysFirstIsNew, RecipeAlwaysFaithful, PTL

-----------------------------------------------------------------------------
(* Rewriting without an algorithm: of the containers that are as old as    *)
(* the sparse ones, all copies of a chunk that are on their way name the   *)
(* same; so a copy that was rewritten is newer, and index_check_buffer and *)
(* the table of the segment deny the request of a later one.               *)

\* Newer than all sparse containers; on the conveyor; decided or in the recipe; in
\* the segment that is decided.
New(x) == \A i \in inherited : i < x
InFlight == Len(recipe) + 1 .. LookedUp
Settled(n) == n <= Len(recipe) \/ Decided(n)
Locked(n) == filter = "decide" /\ n <= Len(recipe) + Len(s)

\* no_rewrite has handed the chunk on and marked it.
Judged(n) == (n <= Len(recipe) + Taken \/ n \in ToSet(rewrite_queue)) /\ n # late

\* Without a rewriting algorithm, har_check marks just the chunks in sparse
\* containers, and before the filter thread decides.
MarkOf(n) ==
  /\ ck[n].denied => New(ck[n].id)
  /\ ~Locked(n) /\ ck[n].sparse => ck[n].id \in inherited
  /\ Judged(n) /\ ~Decided(n) /\ ck[n].dup /\ ck[n].id \in inherited => ck[n].sparse
Marks ==
  /\ \A i \in inherited : i \in Nat /\ i < Len(containers)
  /\ inherited # {} => HAR
  /\ \A n \in Chunks : ~ck[n].ooo /\ (ck[n].sparse => inherited # {})
  /\ \A n \in InFlight : MarkOf(n)

\* Of the containers that are not new, the copies on the conveyor and the index
\* buffer name at most one; and no decided chunk stays in a sparse one.
OneOldId ==
  /\ \A p \in InFlight : \A q \in InFlight :
       content[p] = content[q] /\ ~New(ck[p].id) /\ ~New(ck[q].id) => ck[p].id = ck[q].id
  /\ \A p \in InFlight :
       ~New(Head(buffered[content[p]])) /\ ~New(ck[p].id) => ck[p].id = Head(buffered[content[p]])
  /\ \A p \in InFlight : Decided(p) => New(ck[p].id) \/ ck[p].id \notin inherited
  /\ filter = "decide" =>
       /\ \A f \in DOMAIN recently_unique : New(recently_unique[f])
       /\ \A f \in DOMAIN recently_rewritten : New(recently_rewritten[f])

\* What is in the rewrite queue was looked up.
LEMMA QueueBehind ==
  ASSUME IInv
  PROVE  LookedUp + 1 \notin ToSet(rewrite_queue)
  <1> SUFFICES ASSUME LookedUp + 1 \in ToSet(rewrite_queue) PROVE FALSE
    OBVIOUS
  <1> DEFINE e == Joined(draining, Joined(chunk_queue, dedup_queue))
             a == rewrite_queue
             x == LookedUp + 1
  <1>1. TypeOK /\ Flow
    BY DEF IInv
  <1>2. a \in Seq(Items) /\ e \in Seq(Items)
    <2>1. /\ rewrite_queue \in Seq(Items) /\ draining \in Seq(Items)
          /\ chunk_queue \in Seq(Items) /\ dedup_queue \in Seq(Items)
      BY <1>1 DEF TypeOK
    <2>2. Joined(chunk_queue, dedup_queue) \in Seq(Items)
      BY <2>1, JoinType, Zenon
    <2> QED
      BY <2>1, <2>2, JoinType, Zenon
  <1>3. OnTheWay = Joined(a, e)
    BY DEF OnTheWay
  <1>4. LookedUp \in Nat /\ Sent \in Nat /\ Sent <= LookedUp
    BY DedupNumbers DEF IInv
  <1> HIDE DEF e
  <1>5. /\ Joined(a, e) \in Seq(Items) /\ Len(Joined(a, e)) = Len(a) + Len(e)
        /\ \A i \in 1 .. Len(a) + Len(e) :
             Joined(a, e)[i] = IF i <= Len(a) THEN a[i] ELSE e[i - Len(a)]
    BY <1>2, ConcatProperties DEF Joined
  <1>6. Len(a) \in Nat /\ Len(e) \in Nat /\ DOMAIN a = 1 .. Len(a)
    BY <1>2, SeqFacts
  <1>7. PICK i \in 1 .. Len(a) : a[i] = x
    BY <1>6 DEF ToSet
  <1>8. i \in DOMAIN OnTheWay /\ OnTheWay[i] = x
    <2>1. DOMAIN Joined(a, e) = 1 .. Len(a) + Len(e)
      BY <1>5, SeqFacts
    <2> QED
      BY <1>3, <1>5, <1>6, <1>7, <2>1
  <1>9. IsChunk(x)
    BY <1>4 DEF IsChunk
  <1>10. x <= Sent
    BY <1>1, <1>8, <1>9 DEF Flow, Ordered
  <1> QED
    BY <1>4, <1>10

\* har_check marks, and changes nothing else.
LEMMA HarFacts ==
  ASSUME NEW c \in Struct
  PROVE  /\ HarCheck(c).id = c.id /\ HarCheck(c).dup = c.dup
         /\ HarCheck(c).denied = c.denied /\ HarCheck(c).ooo = c.ooo
         /\ HarCheck(c).sparse <=> c.sparse \/ (c.dup /\ c.id \in inherited)
  <1>1. CASE c.dup /\ c.id \in inherited
    <2> DEFINE e == [c EXCEPT !.sparse = TRUE]
    <2>1. HarCheck(c) = e
      BY <1>1 DEF HarCheck
    <2>2. /\ e.id = c.id /\ e.dup = c.dup /\ e.denied = c.denied /\ e.ooo = c.ooo
          /\ e.sparse = TRUE
      BY DEF Struct
    <2> HIDE DEF e
    <2> QED
      BY <1>1, <2>1, <2>2
  <1>2. CASE ~(c.dup /\ c.id \in inherited)
    BY <1>2 DEF HarCheck
  <1> QED
    BY <1>1, <1>2

\* Without a rewriting algorithm, the other steps mark at most the late chunk.
MarksMove ==
  /\ \A n \in Chunks :
       ck'[n] = ck[n] \/ (n = late /\ ck'[n] = HarCheck(ck[n]))
  /\ \A n \in Chunks : Judged(n)' => Judged(n) \/ ~HAR \/ ck'[n] = HarCheck(ck[n])
  /\ Len(containers) <= Len(containers')

\* The steps that look up and decide nothing are such.
LEMMA MoversMark ==
  ASSUME IInv, IInv', algo = "no", [Next]_vars,
         ~LookupChunk, ~FilterLock, ~DecideChunk, ~FinishSegment
  PROVE  MarksMove
  <1>1. TypeOK /\ LateIsLast /\ TypeOK' /\ Flow'
    BY DEF IInv
  <1>2. Len(containers) \in Nat /\ Chunks = 1 .. Len(content) /\ Len(content) \in Nat
    BY <1>1, NumberShapes
  <1>3. \A n \in Chunks : n # 0
    BY <1>2
  <1>4. CASE DedupLock \/ EmptySegment \/ SendItem
    <2>1. UNCHANGED <<ck, rewriteVars, rewrite_queue, filterVars, storeVars, recipe>>
      BY <1>4 DEF DedupLock, EmptySegment, SendItem
    <2>2. UNCHANGED <<ck, late, rewrite_queue, filter, s, containers, recipe>>
      BY <2>1 DEF rewriteVars, filterVars, storeVars
    <2> QED
      BY <1>2, <2>2 DEF MarksMove, Judged, Taken
  <1>5. CASE RewriteItem
    <2>1. UNCHANGED <<late, rewrite_queue, filterVars, storeVars, recipe>>
      BY <1>5 DEF RewriteItem
    <2>2. NoRewrite(Head(dedup_queue))
      BY <1>5 DEF RewriteItem, CflRewrite, CapRewrite, CbrRewrite
    <2>3. UNCHANGED <<ck, late, rewrite_queue, filter, s, containers, recipe>>
      BY <2>1, <2>2 DEF NoRewrite, filterVars, storeVars
    <2> QED
      BY <1>2, <2>3 DEF MarksMove, Judged, Taken
  <1>6. CASE RewriteEnd
    <2>1. /\ UNCHANGED <<late, rewrite_queue, filterVars, storeVars, recipe>>
          /\ Drain(chunk_queue, {}, <<>>)
      BY <1>6 DEF RewriteEnd
    <2>2. ck' = Popped(<<>>, {})
      BY <1>1, <2>1 DEF Drain, LateIsLast
    <2>3. ToSet(<<>>) = {}
      BY DEF ToSet
    <2>4. \A n \in Chunks : ck'[n] = ck[n]
      BY <2>2, <2>3 DEF Popped
    <2>5. UNCHANGED <<late, rewrite_queue, filter, s, containers, recipe>>
      BY <2>1 DEF filterVars, storeVars
    <2> QED
      BY <1>2, <2>4, <2>5 DEF MarksMove, Judged, Taken
  <1>7. CASE PushDrained
    <2> DEFINE x == Head(draining)
    <2>1. /\ UNCHANGED <<ck, filterVars, storeVars, recipe>>
          /\ draining # <<>> /\ rewrite_queue' = Append(rewrite_queue, x)
          /\ late' = IF algo = "no" /\ HAR /\ IsChunk(x) THEN x ELSE 0
      BY <1>7 DEF PushDrained
    <2>2. UNCHANGED <<ck, filter, s, containers, recipe>>
      BY <2>1 DEF filterVars, storeVars
    <2>3. late = 0
      BY <1>1, <2>1 DEF LateIsLast
    <2>4. rewrite_queue \in Seq(Items) /\ x \in Items
      BY <1>1, <2>1, HeadTailProperties DEF TypeOK
    <2> HIDE DEF x
    <2>5. \A n \in ToSet(rewrite_queue') : n \in ToSet(rewrite_queue) \/ n = x
      <3>1. /\ DOMAIN rewrite_queue' = 1 .. Len(rewrite_queue) + 1
            /\ DOMAIN rewrite_queue = 1 .. Len(rewrite_queue) /\ Len(rewrite_queue) \in Nat
            /\ rewrite_queue'[Len(rewrite_queue) + 1] = x
            /\ \A k \in 1 .. Len(rewrite_queue) : rewrite_queue'[k] = rewrite_queue[k]
        BY <2>1, <2>4, AppendFacts, SeqFacts
      <3>2. \A k \in DOMAIN rewrite_queue' :
              k = Len(rewrite_queue) + 1 \/ k \in DOMAIN rewrite_queue
        BY <3>1
      <3> QED
        BY <3>1, <3>2 DEF ToSet
    <2>6. ASSUME NEW n \in Chunks, Judged(n)', HAR PROVE Judged(n)
      <3>1. n # 0 /\ IsChunk(n)
        BY <1>2 DEF IsChunk
      <3>2. n # x
        BY <2>1, <2>6, <3>1 DEF Judged
      <3>3. Taken' = Taken
        BY <2>2 DEF Taken
      <3> QED
        BY <2>2, <2>3, <2>5, <2>6, <3>1, <3>2, <3>3 DEF Judged
    <2> QED
      BY <1>2, <2>2, <2>6 DEF MarksMove
  <1>8. CASE LateHarCheck
    <2>1. /\ UNCHANGED <<rewrite_queue, filterVars, storeVars, recipe>>
          /\ late # 0 /\ late' = 0 /\ ck' = [ck EXCEPT ![late] = HarCheck(@)]
      BY <1>8 DEF LateHarCheck
    <2>2. UNCHANGED <<filter, s, containers, recipe>>
      BY <2>1 DEF filterVars, storeVars
    <2>3. late \in Chunks /\ DOMAIN ck = Chunks
      BY <1>1, <2>1 DEF TypeOK
    <2>4. \A n \in Chunks : ck'[n] = IF n = late THEN HarCheck(ck[n]) ELSE ck[n]
      BY <2>1, <2>3
    <2>5. Taken' = Taken
      BY <2>2 DEF Taken
    <2>6. \A n \in Chunks : Judged(n)' => Judged(n) \/ n = late
      BY <2>1, <2>2, <2>5 DEF Judged
    <2> QED
      BY <1>2, <2>2, <2>4, <2>6 DEF MarksMove
  <1>9. CASE CollectItem
    <2> DEFINE x == Head(rewrite_queue)
    <2>1. /\ UNCHANGED <<ck, rewriteVars, storeVars, recipe>>
          /\ rewrite_queue # <<>> /\ rewrite_queue' = Tail(rewrite_queue)
          /\ \/ /\ filter = "pull" /\ filter' = "collect" /\ s' = <<>>
             \/ /\ filter = "collect" /\ filter' = "collect" /\ s' = Append(s, x) /\ IsChunk(x)
             \/ /\ filter = "collect" /\ filter' = "lock" /\ s' = s
      BY <1>9 DEF CollectItem
    <2>2. UNCHANGED <<ck, late, containers, recipe>>
      BY <2>1 DEF rewriteVars, storeVars
    <2>3. rewrite_queue \in Seq(Items) /\ s \in Seq(Chunks) /\ x \in Items
      BY <1>1, <2>1, HeadTailProperties DEF TypeOK
    <2>4. /\ DOMAIN rewrite_queue = 1 .. Len(rewrite_queue) /\ Len(rewrite_queue) \in Nat \ {0}
          /\ x = rewrite_queue[1]
      BY <2>1, <2>3, SeqFacts, HeadTailProperties, EmptySeq
    <2>5. x \in ToSet(rewrite_queue)
      BY <2>4 DEF ToSet
    <2>6. ToSet(rewrite_queue') \subseteq ToSet(rewrite_queue)
      <3>1. /\ rewrite_queue' \in Seq(Items) /\ Len(rewrite_queue') = Len(rewrite_queue) - 1
            /\ \A k \in 1 .. Len(rewrite_queue') : rewrite_queue'[k] = rewrite_queue[k + 1]
        BY <2>1, <2>3, HeadTailProperties
      <3>2. DOMAIN rewrite_queue' = 1 .. Len(rewrite_queue')
        BY <3>1, SeqFacts
      <3>3. \A k \in 1 .. Len(rewrite_queue') : k + 1 \in DOMAIN rewrite_queue
        BY <2>4, <3>1
      <3> QED
        BY <3>1, <3>2, <3>3 DEF ToSet
    <2> HIDE DEF x
    <2>7. Len(recipe) \in Nat /\ Len(s) \in Nat
      BY <1>1, NumberShapes
    <2>8. ASSUME NEW n \in Chunks, n <= Len(recipe) + Taken'
          PROVE  n <= Len(recipe) + Taken \/ n \in ToSet(rewrite_queue)
      <3>1. CASE filter = "pull" /\ filter' = "collect" /\ s' = <<>>
        <4>1. Taken = 0 /\ Taken' = 0
          BY <3>1 DEF Taken
        <4> QED
          BY <2>8, <4>1
      <3>2. CASE filter = "collect" /\ filter' = "lock" /\ s' = s
        BY <2>8, <3>2 DEF Taken
      <3>3. CASE filter = "collect" /\ filter' = "collect" /\ s' = Append(s, x) /\ IsChunk(x)
        <4>1. x \in Chunks
          <5>1. SEGMENT_START = 0 /\ SEGMENT_END = -1
            BY DEF SEGMENT_START, SEGMENT_END
          <5>2. ~(0 > 0) /\ ~(-1 > 0)
            OBVIOUS
          <5> QED
            BY <2>3, <3>3, <5>1, <5>2 DEF Items, IsChunk
        <4>2. Len(s') = Len(s) + 1 /\ s'[Len(s) + 1] = x
          BY <2>3, <3>3, <4>1, AppendFacts
        <4>3. Taken = Len(s) /\ Taken' = Len(s) + 1
          BY <3>3, <4>2 DEF Taken
        <4>4. s'[Len(s) + 1] = Len(recipe) + (Len(s) + 1)
          <5>1. Len(s) + 1 \in 1 .. Taken'
            BY <2>7, <4>3
          <5> QED
            BY <1>1, <2>2, <5>1 DEF Flow
        <4>5. n <= Len(recipe) + Len(s) \/ n = Len(recipe) + (Len(s) + 1)
          BY <1>2, <2>7, <2>8, <4>3
        <4> QED
          BY <2>5, <4>2, <4>3, <4>4, <4>5
      <3> QED
        BY <2>1, <3>1, <3>2, <3>3
    <2>9. \A n \in Chunks : Judged(n)' => Judged(n)
      BY <2>2, <2>6, <2>8 DEF Judged
    <2> QED
      BY <1>2, <2>2, <2>9 DEF MarksMove
  <1>10. CASE FilterEnd
    <2>1. /\ UNCHANGED <<ck, rewriteVars, rewrite_queue, s, recipe>>
          /\ filter = "pull" /\ filter' = "done"
          /\ IF open = NoContainer THEN UNCHANGED <<containers, kv>> ELSE Seal
      BY <1>10 DEF FilterEnd
    <2>2. UNCHANGED <<ck, late, rewrite_queue, recipe>>
      BY <2>1 DEF rewriteVars
    <2>3. Taken = 0 /\ Taken' = 0
      BY <2>1 DEF Taken
    <2>4. Len(containers) <= Len(containers')
      <3>1. CASE Seal
        <4>1. containers \in Seq(SUBSET Fps) /\ open.fps \in SUBSET Fps
          BY <1>1 DEF TypeOK
        <4>2. Len(containers') = Len(containers) + 1
          BY <3>1, <4>1, AppendFacts DEF Seal
        <4> QED
          BY <1>2, <4>2
      <3> QED
        BY <1>2, <2>1, <3>1
    <2> QED
      BY <2>2, <2>3, <2>4 DEF MarksMove, Judged
  <1>11. CASE UNCHANGED vars
    <2>1. UNCHANGED <<ck, late, rewrite_queue, filter, s, containers, recipe>>
      BY <1>11 DEF vars, rewriteVars, filterVars, storeVars
    <2> QED
      BY <1>2, <2>1 DEF MarksMove, Judged, Taken
  <1> QED
    BY <1>4, <1>5, <1>6, <1>7, <1>8, <1>9, <1>10, <1>11
    DEF Next, Dedup, Rewrite, Filter, Over

\* What index_check_buffer does to the flags and the id.
Redirected(n, h) ==
  /\ (ck[n].dup /\ ck[n].id = TEMPORARY_ID) \/ ck[n].ooo \/ ck[n].sparse
  /\ h > ck[n].id /\ CheckBuffer(n).id = h
  /\ CheckBuffer(n).denied <=> ck[n].denied \/ ck[n].id # TEMPORARY_ID
Unchecked(n, h) ==
  /\ CheckBuffer(n) = ck[n]
  /\ ~(((ck[n].dup /\ ck[n].id = TEMPORARY_ID) \/ ck[n].ooo \/ ck[n].sparse) /\ h > ck[n].id)

\* index_check_buffer redirects a chunk to the head of the index buffer, or does nothing.
LEMMA CheckedAs ==
  ASSUME IInv, filter = "lock", NEW n \in ToSet(s), NEW h, h = Head(buffered[content[n]])
  PROVE  /\ h \in Ids /\ h \in Int /\ ck[n].id \in Ids /\ ck[n].id \in Int /\ ck[n] \in Struct
         /\ CheckBuffer(n).ooo = ck[n].ooo /\ CheckBuffer(n).sparse = ck[n].sparse
         /\ Redirected(n, h) \/ Unchecked(n, h)
  <1> DEFINE c == ck[n]
  <1>1. n \in Chunks /\ n \in Len(recipe) + 1 .. LookedUp
    BY SegmentUnderWay
  <1>2. h \in Ids /\ Ids \subseteq Int
    <2>1. /\ buffered[content[n]] \in Seq(Ids) /\ buffered[content[n]] # <<>>
      BY <1>1, BufferHead
    <2> QED
      BY <2>1, HeadTailProperties, NumberShapes DEF IInv
  <1>3. c \in Struct /\ c.id \in Ids
    BY <1>1 DEF IInv, TypeOK, Struct
  <1>4. CheckBuffer(n) = IF ((c.dup /\ c.id = TEMPORARY_ID) \/ c.ooo \/ c.sparse) /\ h > c.id
                         THEN [c EXCEPT !.id = h, !.denied = @ \/ c.id # TEMPORARY_ID]
                         ELSE c
    BY DEF CheckBuffer
  <1>5. PICK b \in BOOLEAN : b <=> c.denied \/ c.id # TEMPORARY_ID
    OBVIOUS
  <1> HIDE DEF c
  <1>6. CASE ((c.dup /\ c.id = TEMPORARY_ID) \/ c.ooo \/ c.sparse) /\ h > c.id
    <2> DEFINE e == [c EXCEPT !.id = h, !.denied = @ \/ c.id # TEMPORARY_ID]
    <2>1. e.id = h /\ (e.denied <=> c.denied \/ c.id # TEMPORARY_ID)
          /\ e.ooo = c.ooo /\ e.sparse = c.sparse
      BY <1>3 DEF Struct
    <2>2. CheckBuffer(n) = e
      BY <1>4, <1>6
    <2> HIDE DEF e
    <2>3. Redirected(n, h)
      BY <1>6, <2>1, <2>2 DEF Redirected, c
    <2> QED
      BY <1>2, <1>3, <2>1, <2>2, <2>3 DEF c
  <1>7. CASE ~(((c.dup /\ c.id = TEMPORARY_ID) \/ c.ooo \/ c.sparse) /\ h > c.id)
    <2>1. CheckBuffer(n) = c
      BY <1>4, <1>7
    <2> QED
      BY <1>2, <1>3, <1>7, <2>1 DEF Unchecked, c
  <1> QED
    BY <1>6, <1>7

\* What the tables of the segment do to a chunk whose turn it is.
KeptAs(n, r) == r.id = ck[n].id /\ r.denied = ck[n].denied
FromTables(n, r) ==
  \/ /\ content[n] \in DOMAIN recently_unique /\ r.id = recently_unique[content[n]]
     /\ r.denied = ck[n].denied
  \/ /\ content[n] \in DOMAIN recently_rewritten /\ r.id = recently_rewritten[content[n]]

\* What the tables leave of a chunk, or give to it.
LEMMA ResolvedAs ==
  ASSUME IInv, filter = "decide", place <= Len(s), Resolvable(s[place]), NEW n, n = s[place],
         NEW r, r = Resolved(n)
  PROVE  /\ r.dup = ck[n].dup /\ r.ooo = ck[n].ooo /\ r.sparse = ck[n].sparse
         /\ KeptAs(n, r) \/ FromTables(n, r)
         /\ ck[n].denied \/ content[n] \in DOMAIN recently_rewritten <=> r.denied
  <1> DEFINE f == content[n]
             b == ck[n]
             c == IF b.dup /\ b.id = TEMPORARY_ID THEN [b EXCEPT !.id = recently_unique[f]] ELSE b
  <1>1. n \in Chunks
    BY ResolvedFacts
  <1>2. b \in Struct
    BY <1>1 DEF IInv, TypeOK, Struct
  <1>3. b.dup /\ b.id = TEMPORARY_ID => f \in DOMAIN recently_unique
    BY DEF Resolvable
  <1>4. r = IF f \in DOMAIN recently_rewritten
            THEN [c EXCEPT !.id = recently_rewritten[f], !.denied = TRUE] ELSE c
    BY DEF Resolved
  <1> HIDE DEF b, f
  <1>5. /\ DOMAIN c = DOMAIN b /\ c.dup = b.dup /\ c.denied = b.denied /\ c.ooo = b.ooo /\ c.sparse = b.sparse
        /\ c.id = b.id \/ (f \in DOMAIN recently_unique /\ c.id = recently_unique[f])
    <2>1. CASE b.dup /\ b.id = TEMPORARY_ID
      <3> DEFINE e == [b EXCEPT !.id = recently_unique[f]]
      <3>1. /\ DOMAIN e = DOMAIN b /\ e.dup = b.dup /\ e.denied = b.denied /\ e.ooo = b.ooo
            /\ e.sparse = b.sparse /\ e.id = recently_unique[f]
        BY <1>2 DEF Struct
      <3>2. c = e
        BY <2>1
      <3> HIDE DEF c, e
      <3> QED
        BY <1>3, <2>1, <3>1, <3>2
    <2>2. CASE ~(b.dup /\ b.id = TEMPORARY_ID)
      BY <2>2
    <2> QED
      BY <2>1, <2>2
  <1>6. DOMAIN b = {"id", "dup", "denied", "ooo", "sparse"} /\ b.denied \in BOOLEAN
    BY <1>2 DEF Struct
  <1> HIDE DEF c
  <1>7. CASE f \in DOMAIN recently_rewritten
    <2> DEFINE i == recently_rewritten[f]
               e == [c EXCEPT !.id = i, !.denied = TRUE]
    <2>1. e.dup = c.dup /\ e.ooo = c.ooo /\ e.sparse = c.sparse /\ e.id = i /\ e.denied = TRUE
      BY <1>5, <1>6
    <2>2. r = e
      BY <1>4, <1>7
    <2> HIDE DEF e
    <2> QED
      BY <1>5, <1>7, <2>1, <2>2 DEF FromTables, b, f
  <1>8. CASE f \notin DOMAIN recently_rewritten
    <2>1. r = c
      BY <1>4, <1>8
    <2>2. KeptAs(n, r) \/ FromTables(n, r)
      BY <1>5, <2>1 DEF KeptAs, FromTables, b, f
    <2> QED
      BY <1>5, <1>6, <1>8, <2>1, <2>2 DEF b, f
  <1> QED
    BY <1>7, <1>8

\* The container that takes a chunk is newer than the sparse ones.
LEMMA TargetIsNew ==
  ASSUME IInv, Marks
  PROVE  New(Target.id)
  <1>1. StoreShape /\ Len(containers) \in Nat
    BY NumberShapes DEF IInv
  <1>2. \A i \in inherited : i \in Nat /\ i < Len(containers)
    BY DEF Marks
  <1>3. Target.id = Len(containers) \/ Target.id = Len(containers) + 1
    <2>1. CASE open = NoContainer
      BY <2>1 DEF Target
    <2>2. CASE open # NoContainer
      BY <1>1, <2>2 DEF Target, StoreShape
    <2> QED
      BY <2>1, <2>2
  <1>4. \A i \in inherited : i < Len(containers) /\ i < Len(containers) + 1
    BY <1>1, <1>2
  <1> QED
    BY <1>3, <1>4 DEF New

\* A decision: the chunk keeps its container or gets a new one, and does not stay in
\* a sparse one.
DecidedOld(n) ==
  /\ New(ck[n].id)' \/ ck'[n].id = ck[n].id
  /\ New(ck[n].id)' \/ ck'[n].id \notin inherited
  /\ ck'[n].denied => New(ck[n].id)'
  /\ ck'[n].dup = ck[n].dup /\ ~ck'[n].ooo /\ ck'[n].sparse = ck[n].sparse
  /\ \A f \in DOMAIN recently_unique' : New(recently_unique[f])'
  /\ \A f \in DOMAIN recently_rewritten' : New(recently_rewritten[f])'
  /\ Len(containers) <= Len(containers')

\* DecideChunk is such a decision.
LEMMA DecideOld ==
  ASSUME IInv, algo = "no", Marks, OneOldId, DecideChunk, NEW n, n = s[place]
  PROVE  DecidedOld(n)
  <1>1. /\ filter = "decide" /\ place <= Len(s) /\ Resolvable(s[place])
    BY DEF DecideChunk
  <1>2. /\ place \in 1 .. Len(s) /\ n = Len(recipe) + place /\ n \in Chunks
        /\ n \in Len(recipe) + 1 .. LookedUp /\ content[n] \in Fps
    BY <1>1, ResolvedFacts
  <1>3. PICK c \in Struct : c = Resolved(n) /\ (WrittenAs(n, c) \/ LeftAsIs(n, c))
    BY DecideCases
  <1>4. /\ c.dup = ck[n].dup /\ c.ooo = ck[n].ooo /\ c.sparse = ck[n].sparse
        /\ KeptAs(n, c) \/ FromTables(n, c)
        /\ ck[n].denied \/ content[n] \in DOMAIN recently_rewritten <=> c.denied
    BY <1>1, <1>3, ResolvedAs
  <1>5. inherited' = inherited
    BY DecideStep DEF jobVars
  <1>6. New(Target.id)
    BY TargetIsNew
  <1>7. \A f \in DOMAIN recently_unique : New(recently_unique[f])
    BY <1>1 DEF OneOldId
  <1>8. \A f \in DOMAIN recently_rewritten : New(recently_rewritten[f])
    BY <1>1 DEF OneOldId
  <1>9. MarkOf(n) /\ ~ck[n].ooo
    BY <1>2 DEF Marks, InFlight
  <1>10. FromTables(n, c) => New(c.id)
    BY <1>7, <1>8 DEF FromTables
  <1>11. c.denied => New(c.id)
    BY <1>4, <1>8, <1>9, <1>10 DEF MarkOf, KeptAs, FromTables
  <1>12. CASE WrittenAs(n, c)
    <2>1. /\ ck'[n].id = Target.id /\ ck'[n].dup = c.dup /\ ck'[n].ooo = c.ooo
          /\ ck'[n].sparse = c.sparse
      BY <1>12 DEF WrittenAs
    <2>2. New(ck[n].id)'
      BY <1>5, <1>6, <2>1 DEF New
    <2>3. /\ recently_unique' = recently_unique
             \/ recently_unique' = Entered(recently_unique, content[n], Target.id)
          /\ recently_rewritten' = recently_rewritten
             \/ recently_rewritten' = Entered(recently_rewritten, content[n], Target.id)
      BY <1>12 DEF WrittenAs
    <2>4. ASSUME NEW t, \A f \in DOMAIN t : New(t[f]), NEW u, u = t \/ u = Entered(t, content[n], Target.id)
          PROVE  \A f \in DOMAIN u : New(u[f])
      <3>1. CASE u = Entered(t, content[n], Target.id)
        <4>1. /\ DOMAIN u = DOMAIN t \union {content[n]} /\ u[content[n]] = Target.id
              /\ \A g \in DOMAIN t : g # content[n] => u[g] = t[g]
          BY <3>1 DEF Entered
        <4> QED
          BY <1>6, <2>4, <4>1
      <3> QED
        BY <2>4, <3>1
    <2>5. /\ \A f \in DOMAIN recently_unique' : New(recently_unique'[f])
          /\ \A f \in DOMAIN recently_rewritten' : New(recently_rewritten'[f])
      BY <1>7, <1>8, <2>3, <2>4
    <2>6. /\ \A f \in DOMAIN recently_unique' : New(recently_unique[f])'
          /\ \A f \in DOMAIN recently_rewritten' : New(recently_rewritten[f])'
      BY <1>5, <2>5 DEF New
    <2>7. Len(containers) <= Len(containers')
      <3>1. containers \in Seq(SUBSET Fps) /\ open.fps \in SUBSET Fps /\ Len(containers) \in Nat
        BY NumberShapes DEF IInv, TypeOK
      <3>2. Seal \/ containers' = containers
        BY <1>12 DEF WrittenAs
      <3>3. Seal => Len(containers') = Len(containers) + 1
        BY <3>1, AppendFacts DEF Seal
      <3> QED
        BY <3>1, <3>2, <3>3
    <2> QED
      BY <1>4, <1>9, <2>1, <2>2, <2>6, <2>7 DEF DecidedOld
  <1>13. CASE LeftAsIs(n, c)
    <2>1. /\ ck'[n] = c /\ c.dup /\ (~Writes(c) \/ Spared(c))
          /\ UNCHANGED <<containers, recently_unique, recently_rewritten>>
      BY <1>13 DEF LeftAsIs
    <2>2. New(c.id) \/ c.id = ck[n].id
      BY <1>4, <1>10 DEF KeptAs
    <2>3. New(c.id) \/ c.id \notin inherited
      <3> SUFFICES ASSUME ~New(c.id), c.id \in inherited PROVE FALSE
        OBVIOUS
      <3>1. c.id = ck[n].id /\ ~c.denied
        BY <1>11, <2>2
      <3>2. Judged(n)
        <4>1. /\ Taken = Len(s) /\ Len(s) \in Nat /\ Len(recipe) \in Nat
              /\ ToSet(s) = Len(recipe) + 1 .. Len(recipe) + Len(s)
          BY <1>1, SegmentUnderWay
        <4>2. n \in ToSet(s) /\ n <= Len(recipe) + Taken
          BY <1>2, <4>1
        <4> QED
          BY <1>1, <4>2, LateNotTaken DEF Judged
      <3>3. ~Decided(n)
        BY <1>2, BehindLookedUp DEF Decided
      <3>4. c.sparse
        BY <1>4, <1>9, <2>1, <3>1, <3>2, <3>3 DEF MarkOf
      <3> QED
        BY <2>1, <3>1, <3>4 DEF Writes, Spared
    <2>4. /\ New(ck[n].id)' <=> New(c.id)
      BY <1>5, <2>1 DEF New
    <2>5. /\ \A f \in DOMAIN recently_unique' : New(recently_unique[f])'
          /\ \A f \in DOMAIN recently_rewritten' : New(recently_rewritten[f])'
      BY <1>5, <1>7, <1>8, <2>1 DEF New
    <2>6. Len(containers) <= Len(containers')
      BY <2>1, NumberShapes DEF IInv
    <2> QED
      BY <1>4, <1>5, <1>9, <1>11, <2>1, <2>2, <2>3, <2>4, <2>5, <2>6 DEF DecidedOld
  <1> QED
    BY <1>3, <1>12, <1>13

\* Chunks on the conveyor.
LEMMA OnConveyor ==
  ASSUME IInv
  PROVE  /\ Len(recipe) \in Nat /\ LookedUp \in Nat /\ Taken \in Nat /\ Len(s) \in Nat
         /\ Len(recipe) + Taken <= LookedUp /\ place \in Nat
         /\ \A n \in InFlight : n \in Chunks /\ content[n] \in Fps /\ ck[n] \in Struct
         /\ \A n \in Chunks : ck[n] \in Struct /\ n \in Nat
         /\ \A n \in Chunks : ck[n].id \in Int
  <1>1. /\ Len(recipe) \in Nat /\ LookedUp \in Nat /\ Taken \in Nat
        /\ Len(recipe) + Taken <= LookedUp
        /\ \A n \in InFlight : n \in Chunks /\ content[n] \in Fps
    BY BehindLookedUp DEF InFlight
  <1>2. Len(s) \in Nat /\ Chunks = 1 .. Len(content) /\ Len(content) \in Nat /\ Ids \subseteq Int
    BY NumberShapes DEF IInv
  <1>3. /\ \A n \in Chunks : ck[n] \in Struct /\ n \in Nat
        /\ place \in Nat
    BY <1>2 DEF IInv, TypeOK, Struct
  <1>4. \A n \in Chunks : ck[n].id \in Int
    BY <1>2, <1>3 DEF Struct
  <1> QED
    BY <1>1, <1>2, <1>3, <1>4

\* The steps that look up and decide nothing keep Marks and OneOldId,
LEMMA MovesKeepOld ==
  ASSUME IInv, IInv', Marks, OneOldId, OnlyMoves, MarksMove
  PROVE  Marks' /\ OneOldId'
  <1>1. /\ UNCHANGED <<content, inherited, buffered, recipe, place, recently_unique,
                       recently_rewritten>>
        /\ LookedUp' = LookedUp /\ (filter' = "decide" <=> filter = "decide")
        /\ filter = "decide" => s' = s
    BY DEF OnlyMoves
  <1>2. Chunks' = Chunks /\ InFlight' = InFlight
    BY <1>1 DEF Chunks, InFlight
  <1>3. \A n : (Decided(n)' <=> Decided(n)) /\ (Locked(n)' <=> Locked(n))
    BY <1>1 DEF Decided, Locked
  <1>4. ASSUME NEW n \in Chunks
        PROVE  /\ ck'[n].id = ck[n].id /\ ck'[n].dup = ck[n].dup /\ ck'[n].denied = ck[n].denied
               /\ ck'[n].ooo = ck[n].ooo /\ (ck[n].sparse => ck'[n].sparse)
               /\ ck'[n].sparse => ck[n].sparse \/ ck[n].id \in inherited
    <2>1. ck[n] \in Struct
      BY OnConveyor
    <2>2. ck'[n] = ck[n] \/ ck'[n] = HarCheck(ck[n])
      BY DEF MarksMove
    <2> QED
      BY <2>1, <2>2, HarFacts
  <1>5. \A n \in Chunks : New(ck[n].id)' <=> New(ck[n].id)
    BY <1>1, <1>4 DEF New
  <1>6. \A n \in InFlight : n \in Chunks
    BY OnConveyor
  <1>7. Marks'
    <2>1. \A i \in inherited' : i \in Nat /\ i < Len(containers')
      <3>1. Len(containers) \in Nat /\ Len(containers) <= Len(containers') /\ Len(containers') \in Int
        <4>1. Len(containers) <= Len(containers')
          BY DEF MarksMove
        <4>2. Len(containers) \in Nat
          BY NumberShapes DEF IInv
        <4>3. Len(containers') \in Int
          BY SeqFacts DEF IInv, TypeOK
        <4> QED
          BY <4>1, <4>2, <4>3
      <3>2. ASSUME NEW i \in inherited PROVE i \in Nat /\ i < Len(containers')
        <4>1. i \in Nat /\ i < Len(containers)
          BY DEF Marks
        <4> QED
          BY <3>1, <4>1
      <3> QED
        BY <1>1, <3>2
    <2>2. \A n \in Chunks' : ~ck'[n].ooo /\ (ck'[n].sparse => inherited' # {})
      BY <1>1, <1>2, <1>4 DEF Marks
    <2>3. ASSUME NEW n \in InFlight PROVE MarkOf(n)'
      <3>1. MarkOf(n) /\ n \in Chunks /\ (inherited # {} => HAR)
        BY <1>6 DEF Marks
      <3>2. Judged(n)' => Judged(n) \/ ~HAR \/ ck'[n] = HarCheck(ck[n])
        BY <3>1 DEF MarksMove
      <3>3. ck'[n].denied => New(ck[n].id)'
        BY <1>4, <1>5, <3>1 DEF MarkOf
      <3>4. ~Locked(n)' /\ ck'[n].sparse => ck'[n].id \in inherited'
        BY <1>1, <1>3, <1>4, <3>1 DEF MarkOf
      <3>5. ASSUME Judged(n)', ~Decided(n)', ck'[n].dup, ck'[n].id \in inherited'
            PROVE  ck'[n].sparse
        <4>1. ~Decided(n) /\ ck[n].dup /\ ck[n].id \in inherited
          BY <1>1, <1>3, <1>4, <3>1, <3>5
        <4>2. CASE Judged(n)
          BY <1>4, <3>1, <4>1, <4>2 DEF MarkOf
        <4>3. CASE ck'[n] = HarCheck(ck[n])
          <5>1. ck[n] \in Struct
            BY <3>1, OnConveyor
          <5> QED
            BY <4>1, <4>3, <5>1, HarFacts
        <4> QED
          BY <3>1, <3>2, <3>5, <4>1, <4>2, <4>3
      <3> QED
        BY <3>3, <3>4, <3>5 DEF MarkOf
    <2>4. inherited' # {} => HAR
      BY <1>1 DEF Marks
    <2> QED
      BY <1>2, <2>1, <2>2, <2>3, <2>4 DEF Marks
  <1>8. OneOldId'
    <2>1. \A f \in Fps : New(Head(buffered[f]))' <=> New(Head(buffered[f]))
      BY <1>1 DEF New
    <2>2. \A p \in InFlight : p \in Chunks /\ content[p] \in Fps
      BY OnConveyor
    <2>3. \A p \in InFlight : \A q \in InFlight :
            content'[p] = content'[q] /\ ~New(ck[p].id)' /\ ~New(ck[q].id)' => ck'[p].id = ck'[q].id
      BY <1>1, <1>4, <1>5, <1>6 DEF OneOldId
    <2>4. \A p \in InFlight :
            ~New(Head(buffered[content[p]]))' /\ ~New(ck[p].id)'
              => ck'[p].id = Head(buffered'[content'[p]])
      BY <1>1, <1>4, <1>5, <2>1, <2>2 DEF OneOldId, New
    <2>5. \A p \in InFlight : Decided(p)' => New(ck[p].id)' \/ ck'[p].id \notin inherited'
      BY <1>1, <1>3, <1>4, <1>5, <1>6 DEF OneOldId
    <2>6. filter' = "decide" =>
            /\ \A f \in DOMAIN recently_unique' : New(recently_unique[f])'
            /\ \A f \in DOMAIN recently_rewritten' : New(recently_rewritten[f])'
      BY <1>1 DEF OneOldId, New
    <2> QED
      BY <1>2, <2>3, <2>4, <2>5, <2>6 DEF OneOldId
  <1> QED
    BY <1>7, <1>8

\* a lookup does: the new chunk gets the id of the index buffer if there is one, and
\* without har_check no mark;
LEMMA LookupKeepsOld ==
  ASSUME IInv, Marks, OneOldId, LookupChunk
  PROVE  Marks' /\ OneOldId'
  <1>1. PICK c \in Struct : FoundAs(c, content[LookedUp + 1])
    BY LookupSays
  <1>m. PICK m : m = LookedUp + 1
    OBVIOUS
  <1>f. PICK f \in Fps : f = content[m]
    BY <1>1, <1>m, LookedChanges DEF FoundAs
  <1>2. /\ UNCHANGED <<content, inherited, recipe, filter, s, containers, late, rewrite_queue>>
        /\ LookedUp' = m /\ Chunks' = Chunks /\ Taken' = Taken /\ m \in Chunks /\ filter # "decide"
        /\ ck'[m] = c /\ \A n \in Chunks : n # m => ck'[n] = ck[n]
        /\ buffered[f] = <<>> <=> \A j \in Len(recipe) + 1 .. LookedUp : content[j] # f
    BY <1>1, <1>m, <1>f, LookupEnters
  <1>3. /\ buffered[f] \in Seq(Ids) /\ buffered'[f] = Append(buffered[f], c.id)
        /\ \A g \in Fps : g # f => buffered'[g] = buffered[g]
    BY <1>1, <1>m, <1>f, LookedChanges DEF FoundAs, IInv, TypeOK
  <1>4. /\ Len(recipe) \in Nat /\ LookedUp \in Nat /\ Taken \in Nat
        /\ Len(recipe) + Taken <= LookedUp
        /\ \A n \in InFlight : n \in Chunks /\ content[n] \in Fps
    BY OnConveyor
  <1>5. InFlight' = InFlight \union {m} /\ m \notin InFlight
    BY <1>m, <1>2, <1>4 DEF InFlight
  <1>6. \A n : ~Decided(n)' /\ ~Decided(n) /\ ~Locked(n)' /\ ~Locked(n)
    BY <1>2 DEF Decided, Locked
  <1>7. \A n \in Chunks : n # m => (New(ck[n].id)' <=> New(ck[n].id))
    BY <1>2 DEF New
  <1>8. /\ ~c.ooo /\ ~c.sparse
        /\ c.denied => c.dup /\ open # NoContainer /\ c.id = open.id
        /\ ~c.denied /\ buffered[f] # <<>> => c.dup /\ c.id = Head(buffered[f])
    BY <1>1, <1>m, <1>f DEF FoundAs
  <1>9. c.denied => New(c.id)
    <2>1. c.denied => c.id = Len(containers)
      BY <1>8 DEF IInv, StoreShape
    <2> QED
      BY <2>1 DEF Marks, New
  <1>10. New(ck[m].id)' <=> New(c.id)
    BY <1>2 DEF New
  <1>11. Marks'
    <2>1. \A n \in Chunks' : ~ck'[n].ooo /\ (ck'[n].sparse => inherited' # {})
      BY <1>2, <1>8 DEF Marks
    <2>2. ASSUME NEW n \in InFlight PROVE MarkOf(n)'
      <3>1. MarkOf(n) /\ n # m /\ n \in Chunks
        BY <1>4, <1>5 DEF Marks
      <3>2. ck'[n] = ck[n] /\ (Judged(n)' <=> Judged(n))
        BY <1>2, <3>1 DEF Judged
      <3> QED
        BY <1>2, <1>6, <1>7, <3>1, <3>2 DEF MarkOf
    <2>3. MarkOf(m)'
      <3>1. ~Judged(m)'
        <4>1. m \notin ToSet(rewrite_queue)
          BY <1>m, QueueBehind
        <4>2. ~(m <= Len(recipe) + Taken)
          BY <1>m, <1>4
        <4> QED
          BY <1>2, <4>1, <4>2 DEF Judged
      <3> QED
        BY <1>2, <1>8, <1>9, <1>10, <3>1 DEF MarkOf
    <2>4. \A n \in InFlight' : MarkOf(n)'
      BY <1>5, <2>2, <2>3
    <2> QED
      BY <1>2, <2>1, <2>4 DEF Marks
  <1>12. \A p \in InFlight : content[p] = f => buffered[f] # <<>>
    BY <1>2 DEF InFlight
  <1>13. buffered[f] # <<>> => Head(buffered'[f]) = Head(buffered[f])
    <2>1. c.id \in Ids
      BY DEF Struct
    <2>2. ASSUME buffered[f] # <<>> PROVE Head(buffered'[f]) = Head(buffered[f])
      <3>1. Len(buffered[f]) \in Nat \ {0} /\ buffered[f][1] = Head(buffered[f])
        BY <1>3, <2>2, HeadTailProperties, SeqFacts, EmptySeq
      <3>2. /\ buffered'[f] \in Seq(Ids) /\ Len(buffered'[f]) = Len(buffered[f]) + 1
            /\ buffered'[f][1] = buffered[f][1]
        BY <1>3, <2>1, <3>1, AppendFacts
      <3>3. buffered'[f] # <<>>
        BY <3>1, <3>2
      <3> QED
        BY <3>1, <3>2, <3>3, HeadTailProperties
    <2> QED
      BY <2>2
  <1>14. buffered[f] = <<>> => Head(buffered'[f]) = c.id
    <2>1. <<>> \in Seq(Ids) /\ c.id \in Ids
      BY DEF Struct
    <2>2. Append(<<>>, c.id) = <<c.id>>
      OBVIOUS
    <2> QED
      BY <1>3, <2>1, <2>2
  <1>15. \A p \in InFlight : p # m /\ p \in Chunks /\ ck'[p] = ck[p]
    BY <1>2, <1>4, <1>5
  <1>16. ASSUME NEW p \in InFlight, content[p] = f, ~New(ck[p].id), ~New(c.id)
         PROVE  ck[p].id = c.id
    <2>1. ~c.denied /\ c.id = Head(buffered[f])
      BY <1>8, <1>9, <1>12, <1>16
    <2> QED
      BY <1>16, <2>1 DEF OneOldId
  <1>17. OneOldId'
    <2>1. ASSUME NEW p \in InFlight', NEW q \in InFlight', content[p] = content[q],
                 ~New(ck[p].id)', ~New(ck[q].id)'
          PROVE  ck'[p].id = ck'[q].id
      <3>1. CASE p \in InFlight /\ q \in InFlight
        BY <1>7, <1>15, <2>1, <3>1 DEF OneOldId
      <3>2. CASE p \in InFlight /\ q = m
        BY <1>2, <1>f, <1>7, <1>10, <1>15, <1>16, <2>1, <3>2
      <3>3. CASE p = m /\ q \in InFlight
        BY <1>2, <1>f, <1>7, <1>10, <1>15, <1>16, <2>1, <3>3
      <3>4. CASE p = m /\ q = m
        BY <3>4
      <3> QED
        BY <1>5, <3>1, <3>2, <3>3, <3>4
    <2>2. ASSUME NEW p \in InFlight', ~New(Head(buffered[content[p]]))', ~New(ck[p].id)'
          PROVE  ck'[p].id = Head(buffered'[content[p]])
      <3>1. CASE p \in InFlight
        <4>1. Head(buffered'[content[p]]) = Head(buffered[content[p]])
          BY <1>3, <1>4, <1>12, <1>13, <3>1
        <4>2. ~New(Head(buffered[content[p]])) /\ ~New(ck[p].id)
          BY <1>2, <1>7, <1>15, <2>2, <3>1, <4>1 DEF New
        <4> QED
          BY <1>15, <3>1, <4>1, <4>2 DEF OneOldId
      <3>2. CASE p = m /\ buffered[f] = <<>>
        BY <1>2, <1>f, <1>14, <3>2
      <3>3. CASE p = m /\ buffered[f] # <<>>
        BY <1>2, <1>f, <1>8, <1>9, <1>10, <1>13, <2>2, <3>3
      <3> QED
        BY <1>5, <3>1, <3>2, <3>3
    <2>3. \A p \in InFlight' : ~Decided(p)'
      BY <1>6
    <2> QED
      BY <1>2, <2>1, <2>2, <2>3 DEF OneOldId
  <1> QED
    BY <1>11, <1>17

\* the lock does: index_check_buffer moves marked chunks to newer containers, or to the
\* one old container;
LEMMA LockKeepsOld ==
  ASSUME IInv, Marks, OneOldId, FilterLock
  PROVE  Marks' /\ OneOldId'
  <1>1. /\ UNCHANGED <<content, inherited, buffered, recipe, s, containers, late, rewrite_queue>>
        /\ LookedUp' = LookedUp /\ Chunks' = Chunks /\ Taken' = Taken
        /\ filter = "lock" /\ filter' = "decide" /\ place' = 1
        /\ DOMAIN recently_unique' = {} /\ DOMAIN recently_rewritten' = {}
        /\ \A n \in Chunks : ck'[n].dup = ck[n].dup
        /\ \A n \in ToSet(s) : ck'[n] = CheckBuffer(n)
        /\ \A n \in Chunks : n \notin ToSet(s) => ck'[n] = ck[n]
    BY LockTaken
  <1>2. /\ Len(recipe) \in Nat /\ LookedUp \in Nat /\ Taken \in Nat
        /\ \A n \in InFlight : n \in Chunks /\ content[n] \in Fps
        /\ \A n \in Chunks : n \in Nat
    BY OnConveyor
  <1>3. /\ ToSet(s) = Len(recipe) + 1 .. Len(recipe) + Len(s) /\ Len(s) \in Nat
        /\ ToSet(s) \subseteq InFlight
    BY <1>1, SegmentUnderWay DEF InFlight
  <1>4. InFlight' = InFlight
    BY <1>1 DEF InFlight
  <1>5. ASSUME NEW n \in Chunks, NEW h, h = Head(buffered[content[n]])
        PROVE  /\ New(ck[n].id)' \/ ck'[n].id = ck[n].id
               /\ n \in InFlight /\ ck'[n].denied => New(ck[n].id)'
               /\ ck'[n].ooo = ck[n].ooo /\ ck'[n].sparse = ck[n].sparse
    <2>1. CASE n \notin ToSet(s)
      <3>1. ck'[n] = ck[n]
        BY <1>1, <2>1
      <3>2. n \in InFlight => MarkOf(n)
        BY DEF Marks
      <3> QED
        BY <1>1, <3>1, <3>2 DEF MarkOf, New
    <2>2. CASE n \in ToSet(s)
      <3>1. /\ h \in Int /\ ck[n].id \in Int
            /\ ck'[n].ooo = ck[n].ooo /\ ck'[n].sparse = ck[n].sparse
            /\ Redirected(n, h) \/ Unchecked(n, h)
        BY <1>1, <1>5, <2>2, CheckedAs
      <3>2. n \in InFlight /\ MarkOf(n)
        BY <1>3, <2>2 DEF Marks
      <3>3. CASE Redirected(n, h)
        <4>1. h > ck[n].id /\ ck'[n].id = h
          BY <1>1, <2>2, <3>3 DEF Redirected
        <4>2. New(h)
          <5> SUFFICES ASSUME ~New(h) PROVE FALSE
            OBVIOUS
          <5>1. ~New(ck[n].id)
            <6>1. PICK i \in inherited : ~(i < h)
              BY DEF New
            <6>2. i \in Int
              BY DEF Marks
            <6> QED
              BY <3>1, <4>1, <6>1, <6>2 DEF New
          <5>2. ck[n].id = h
            BY <1>5, <3>2, <5>1 DEF OneOldId
          <5> QED
            BY <3>1, <4>1, <5>2
        <4>3. New(ck[n].id)'
          BY <1>1, <4>1, <4>2 DEF New
        <4> QED
          BY <3>1, <4>3
      <3>4. CASE Unchecked(n, h)
        <4>1. ck'[n] = ck[n]
          BY <1>1, <2>2, <3>4 DEF Unchecked
        <4> QED
          BY <1>1, <3>2, <4>1 DEF MarkOf, New
      <3> QED
        BY <3>1, <3>3, <3>4
    <2> QED
      BY <2>1, <2>2
  <1>6. \A n \in Chunks : ck'[n].id \in inherited' => ~New(ck[n].id)'
    <2>1. \A i \in inherited : ~(i < i)
      BY DEF Marks
    <2> QED
      BY <1>1, <2>1 DEF New
  <1>7. \A n \in Chunks : ~New(ck[n].id)' => ck'[n].id = ck[n].id /\ ~New(ck[n].id)
    <2>1. \A n \in Chunks : ~New(ck[n].id)' => ck'[n].id = ck[n].id
      BY <1>5
    <2> QED
      BY <1>1, <2>1 DEF New
  <1>8. Marks'
    <2>1. \A n \in Chunks' : ~ck'[n].ooo /\ (ck'[n].sparse => inherited' # {})
      BY <1>1, <1>5 DEF Marks
    <2>2. ASSUME NEW n \in InFlight PROVE MarkOf(n)'
      <3>1. MarkOf(n) /\ n \in Chunks /\ n \in Nat
        BY <1>2 DEF Marks
      <3>2. ck'[n].denied => New(ck[n].id)'
        BY <1>5, <3>1
      <3>3. ASSUME ~Locked(n)', ck'[n].sparse PROVE ck'[n].id \in inherited'
        <4>1. n \notin ToSet(s)
          BY <1>1, <1>3, <3>3 DEF Locked
        <4>2. ck'[n] = ck[n] /\ ~Locked(n)
          BY <1>1, <3>1, <4>1 DEF Locked
        <4> QED
          BY <1>1, <3>1, <3>3, <4>2 DEF MarkOf
      <3>4. ASSUME Judged(n)', ck'[n].dup, ck'[n].id \in inherited' PROVE ck'[n].sparse
        <4>1. Judged(n) /\ ~Decided(n)
          BY <1>1, <3>4 DEF Judged, Decided
        <4>2. ck[n].id \in inherited /\ ck[n].dup
          BY <1>1, <1>6, <1>7, <3>1, <3>4
        <4> QED
          BY <1>5, <3>1, <4>1, <4>2 DEF MarkOf
      <3> QED
        BY <3>2, <3>3, <3>4 DEF MarkOf
    <2> QED
      BY <1>1, <1>4, <2>1, <2>2 DEF Marks
  <1>9. OneOldId'
    <2>1. \A p \in InFlight : \A q \in InFlight :
            content[p] = content[q] /\ ~New(ck[p].id)' /\ ~New(ck[q].id)' => ck'[p].id = ck'[q].id
      BY <1>2, <1>7 DEF OneOldId
    <2>2. \A p \in InFlight :
            ~New(Head(buffered[content[p]]))' /\ ~New(ck[p].id)' => ck'[p].id = Head(buffered[content[p]])
      <3>1. \A p \in InFlight : New(Head(buffered[content[p]]))' <=> New(Head(buffered[content[p]]))
        BY <1>1 DEF New
      <3> QED
        BY <1>2, <1>7, <3>1 DEF OneOldId
    <2>3. \A p \in InFlight : ~Decided(p)'
      BY <1>1, <1>2 DEF Decided, InFlight
    <2> QED
      BY <1>1, <1>4, <2>1, <2>2, <2>3 DEF OneOldId
  <1> QED
    BY <1>8, <1>9

\* a decision does;
LEMMA DecideKeepsOld ==
  ASSUME IInv, IInv', algo = "no", Marks, OneOldId, DecideChunk
  PROVE  Marks' /\ OneOldId'
  <1>1. PICK d : d = s[place]
    OBVIOUS
  <1>2. /\ DecidedOld(d) /\ DecisionOf(d)
        /\ filter = "decide" /\ place \in 1 .. Len(s) /\ d = Len(recipe) + place /\ d \in Chunks
        /\ d \in InFlight /\ place' = place + 1
        /\ UNCHANGED <<jobVars, lock, buffered, dedupVars, rewriteVars, rewrite_queue, filter, s, recipe>>
    BY <1>1, DecideOld, DecideStep DEF InFlight
  <1>3. UNCHANGED <<content, inherited, buffered, filter, s, recipe, late, rewrite_queue>>
    BY <1>2 DEF jobVars, rewriteVars
  <1>4. \A n \in Chunks : n # d => ck'[n] = ck[n]
    BY <1>2 DEF DecisionOf
  <1>5. LookedUp' = LookedUp
    BY <1>2, <1>3, PlaceKept DEF IInv
  <1>6. Chunks' = Chunks /\ InFlight' = InFlight /\ Taken' = Taken
    BY <1>3, <1>5 DEF Chunks, InFlight, Taken
  <1>7. /\ Len(recipe) \in Nat /\ Len(s) \in Nat /\ place \in Nat
        /\ \A n \in InFlight : n \in Chunks /\ content[n] \in Fps /\ n \in Nat
    BY OnConveyor
  <1>8. \A n \in InFlight : Decided(n)' <=> Decided(n) \/ n = d
    BY <1>2, <1>3, <1>7 DEF Decided
  <1>9. \A n : (Locked(n)' <=> Locked(n)) /\ (Judged(n)' <=> Judged(n))
    BY <1>3, <1>6 DEF Locked, Judged
  <1>10. Locked(d)
    BY <1>2, <1>7 DEF Locked
  <1>11. \A n \in Chunks : n # d => (New(ck[n].id)' <=> New(ck[n].id))
    BY <1>3, <1>4 DEF New
  <1>12. \A n \in Chunks : ~New(ck[n].id)' => ck'[n].id = ck[n].id /\ ~New(ck[n].id)
    <2>1. ~New(ck[d].id)' => ck'[d].id = ck[d].id
      BY <1>2 DEF DecidedOld
    <2>2. ~New(ck[d].id)' => ~New(ck[d].id)
      BY <1>3, <2>1 DEF New
    <2> QED
      BY <1>4, <1>11, <2>1, <2>2
  <1>13. Marks'
    <2>1. \A n \in Chunks' : ~ck'[n].ooo /\ (ck'[n].sparse => inherited' # {})
      BY <1>2, <1>3, <1>4, <1>6 DEF Marks, DecidedOld
    <2>2. ASSUME NEW n \in InFlight PROVE MarkOf(n)'
      <3>1. MarkOf(n) /\ n \in Chunks
        BY <1>7 DEF Marks
      <3>2. CASE n # d
        <4>1. ck'[n] = ck[n]
          BY <1>4, <3>1, <3>2
        <4> QED
          BY <1>3, <1>8, <1>9, <1>11, <3>1, <3>2, <4>1 DEF MarkOf
      <3>3. CASE n = d
        BY <1>2, <1>8, <1>9, <1>10, <3>3 DEF MarkOf, DecidedOld
      <3> QED
        BY <3>2, <3>3
    <2>3. \A i \in inherited' : i \in Nat /\ i < Len(containers')
      <3>1. Len(containers) \in Nat /\ Len(containers) <= Len(containers') /\ Len(containers') \in Int
        <4>1. Len(containers) <= Len(containers')
          BY <1>2 DEF DecidedOld
        <4>2. Len(containers) \in Nat
          BY NumberShapes DEF IInv
        <4>3. Len(containers') \in Int
          BY SeqFacts DEF IInv, TypeOK
        <4> QED
          BY <4>1, <4>2, <4>3
      <3>2. ASSUME NEW i \in inherited PROVE i \in Nat /\ i < Len(containers')
        <4>1. i \in Nat /\ i < Len(containers)
          BY DEF Marks
        <4> QED
          BY <3>1, <4>1
      <3> QED
        BY <1>3, <3>2
    <2>4. inherited' # {} => HAR
      BY <1>3 DEF Marks
    <2> QED
      BY <1>6, <2>1, <2>2, <2>3, <2>4 DEF Marks
  <1>14. OneOldId'
    <2>1. \A p \in InFlight : \A q \in InFlight :
            content'[p] = content'[q] /\ ~New(ck[p].id)' /\ ~New(ck[q].id)' => ck'[p].id = ck'[q].id
      BY <1>3, <1>7, <1>12 DEF OneOldId
    <2>2. \A p \in InFlight :
            ~New(Head(buffered[content[p]]))' /\ ~New(ck[p].id)' => ck'[p].id = Head(buffered'[content'[p]])
      <3>1. \A p \in InFlight : New(Head(buffered[content[p]]))' <=> New(Head(buffered[content[p]]))
        BY <1>3 DEF New
      <3> QED
        BY <1>3, <1>7, <1>12, <3>1 DEF OneOldId
    <2>3. ASSUME NEW p \in InFlight, Decided(p)' PROVE New(ck[p].id)' \/ ck'[p].id \notin inherited'
      <3>1. CASE p = d
        BY <1>2, <1>3, <3>1 DEF DecidedOld
      <3>2. CASE p # d
        <4>1. Decided(p) /\ p \in Chunks
          BY <1>7, <1>8, <2>3, <3>2
        <4> QED
          BY <1>3, <1>4, <1>11, <3>2, <4>1 DEF OneOldId
      <3> QED
        BY <3>1, <3>2
    <2>4. /\ \A f \in DOMAIN recently_unique' : New(recently_unique[f])'
          /\ \A f \in DOMAIN recently_rewritten' : New(recently_rewritten[f])'
      BY <1>2 DEF DecidedOld
    <2> QED
      BY <1>6, <2>1, <2>2, <2>3, <2>4 DEF OneOldId
  <1> QED
    BY <1>13, <1>14

\* A chunk behind the segment that ends: the index buffer has what it had, or the
\* container of a copy in the segment.
SameHead(p) ==
  UpdateBuffer[content[p]] = buffered[content[p]] /\ \A n \in ToSet(s) : content[n] # content[p]
HeadOfSegment(p) ==
  \E j \in ToSet(s) : content[j] = content[p] /\ Head(UpdateBuffer[content[p]]) = ck[j].id

\* index_update_buffer is one or the other.
LEMMA UpdatedHead ==
  ASSUME IInv, filter = "decide", place > Len(s),
         NEW p \in Len(recipe) + Len(s) + 1 .. LookedUp
  PROVE  SameHead(p) \/ HeadOfSegment(p)
  <1>f. PICK f \in Fps : f = content[p]
    BY SegmentUnderWay, BehindLookedUp
  <1> DEFINE m == Len(recipe) + Len(s)
             mine == {n \in ToSet(s) : content[n] = f}
             b == buffered[f]
             rest == SubSeq(b, Cardinality(mine) + 1, Len(b))
             i == ck[Max(mine)].id
             q == UpdateBuffer[f]
             behind == Copies(f, m, LookedUp)
  <1>1. m \in Nat /\ LookedUp \in Nat /\ ToSet(s) \subseteq 0 .. m
    <2>1. /\ Len(recipe) \in Nat /\ Len(s) \in Nat /\ LookedUp \in Nat
          /\ ToSet(s) = Len(recipe) + 1 .. m
      BY SegmentUnderWay
    <2> QED
      BY <2>1
  <1>2. q = IF mine = {} THEN b ELSE [k \in DOMAIN rest |-> i]
    BY DEF UpdateBuffer
  <1>3. p \in behind
    BY <1>f DEF Copies
  <1>4. q \in Seq(Ids) /\ Len(q) = Cardinality(behind)
    BY UpdateFacts
  <1>5. Cardinality(behind) \in Nat /\ Cardinality(behind) # 0
    <2> HIDE DEF m
    <2> QED
      BY <1>1, <1>3, CopiesFacts
  <1>6. CASE mine = {}
    <2>1. q = b /\ \A n \in ToSet(s) : content[n] # f
      BY <1>2, <1>6
    <2> QED
      BY <1>f, <2>1 DEF SameHead
  <1>7. CASE mine # {}
    <2>1. Max(mine) \in mine
      <3>1. mine \in SUBSET (0 .. m)
        BY <1>1
      <3> HIDE DEF mine, m
      <3> QED
        BY <1>1, <1>7, <3>1, MaxOfPlaces
    <2>2. q = [k \in DOMAIN rest |-> i]
      BY <1>2, <1>7
    <2> HIDE DEF rest, i, behind, q
    <2>3. /\ DOMAIN q = 1 .. Len(q) /\ 1 \in DOMAIN q /\ q # <<>>
      BY <1>4, <1>5, SeqFacts
    <2>4. q[1] = i /\ Head(q) = q[1]
      BY <1>4, <2>2, <2>3, HeadTailProperties
    <2>5. Head(q) = i
      BY <2>4
    <2> QED
      BY <1>f, <2>1, <2>5 DEF HeadOfSegment, q, i
  <1> QED
    BY <1>6, <1>7

\* The end of a segment keeps Marks and OneOldId.
LEMMA FinishKeepsOld ==
  ASSUME IInv, Marks, OneOldId, FinishSegment
  PROVE  Marks' /\ OneOldId'
  <1> DEFINE m == Len(recipe) + Len(s)
  <1>1. /\ UNCHANGED <<content, inherited, ck, s, containers, late, rewrite_queue>>
        /\ LookedUp' = LookedUp /\ Chunks' = Chunks
        /\ filter = "decide" /\ filter' = "pull" /\ place = Len(s) + 1
        /\ Len(recipe') = m /\ Len(s) \in Nat /\ Len(recipe) \in Nat
        /\ m <= LookedUp /\ buffered' = UpdateBuffer
        /\ ToSet(s) = Len(recipe) + 1 .. m
    BY SegmentEnds
  <1>2. LookedUp \in Nat /\ \A n \in InFlight : n \in Chunks /\ content[n] \in Fps /\ n \in Nat
    BY OnConveyor
  <1>3. InFlight' = m + 1 .. LookedUp /\ InFlight' \subseteq InFlight /\ ToSet(s) \subseteq InFlight
    BY <1>1, <1>2 DEF InFlight
  <1>4. \A n \in InFlight' : ~Locked(n) /\ ~Decided(n) /\ n > m
    BY <1>1, <1>3 DEF Locked, Decided
  <1>5. \A n : ~Locked(n)' /\ ~Decided(n)'
    BY <1>1 DEF Locked, Decided
  <1>6. \A n : New(ck[n].id)' <=> New(ck[n].id)
    BY <1>1 DEF New
  <1>7. Taken' = 0 /\ Len(recipe') + 0 = m
    BY <1>1 DEF Taken
  <1> HIDE DEF m
  <1>8. \A n \in InFlight' : Judged(n)' => Judged(n)
    BY <1>1, <1>3, <1>4, <1>7 DEF Judged
  <1>9. Marks'
    <2>1. \A n \in InFlight' : MarkOf(n)'
      BY <1>1, <1>3, <1>4, <1>6, <1>8 DEF Marks, MarkOf
    <2> QED
      BY <1>1, <2>1 DEF Marks
  <1>10. OneOldId'
    <2>1. \A p \in InFlight' : \A q \in InFlight' :
            content'[p] = content'[q] /\ ~New(ck[p].id)' /\ ~New(ck[q].id)' => ck'[p].id = ck'[q].id
      BY <1>1, <1>3, <1>6 DEF OneOldId
    <2>2. ASSUME NEW p \in InFlight', ~New(Head(buffered[content[p]]))', ~New(ck[p].id)'
          PROVE  ck'[p].id = Head(buffered'[content'[p]])
      <3>1. place > Len(s) /\ p \in Len(recipe) + Len(s) + 1 .. LookedUp
        BY <1>1, <1>3 DEF m
      <3>2. SameHead(p) \/ HeadOfSegment(p)
        BY <1>1, <3>1, UpdatedHead
      <3>3. /\ ~New(ck[p].id) /\ p \in InFlight
            /\ ~New(Head(UpdateBuffer[content[p]]))
        BY <1>1, <1>3, <1>6, <2>2 DEF New
      <3>4. CASE SameHead(p)
        BY <1>1, <3>3, <3>4 DEF SameHead, OneOldId
      <3>5. CASE HeadOfSegment(p)
        <4>1. PICK j \in ToSet(s) : content[j] = content[p] /\ Head(UpdateBuffer[content[p]]) = ck[j].id
          BY <3>5 DEF HeadOfSegment
        <4>2. j \in InFlight /\ ~New(ck[j].id)
          BY <1>3, <3>3, <4>1
        <4>3. ck[p].id = ck[j].id
          BY <3>3, <4>1, <4>2 DEF OneOldId
        <4> QED
          BY <1>1, <4>1, <4>3
      <3> QED
        BY <3>2, <3>4, <3>5
    <2> QED
      BY <1>1, <1>5, <2>1, <2>2 DEF OneOldId
  <1> QED
    BY <1>9, <1>10

\* A copy that was looked up before the copy m was in the recipe, and m was written
\* again: the later copy is denied, or will find m in the table of the segment, or
\* in the index buffer.
LaterCopy(m, n) ==
  IF Settled(n) THEN n \notin rewritten
  ELSE IF Locked(n)
  THEN ck[n].denied \/ ~ck[n].sparse \/ content[n] \in DOMAIN recently_rewritten
  ELSE ck[n].id \in inherited => m > Len(recipe) \/ New(Head(buffered[content[n]]))
Rewrites ==
  /\ \A m \in rewritten :
       /\ m \in 1 .. LookedUp /\ Settled(m)
       /\ m > Len(recipe) => content[m] \in DOMAIN recently_rewritten
  /\ \A m \in rewritten : \A n \in 1 .. LookedUp :
       m < n /\ content[m] = content[n] /\ ahead[n] < m => LaterCopy(m, n)

\* The steps that look up and decide nothing keep Rewrites,
LEMMA MovesKeepRewrites ==
  ASSUME IInv, Rewrites, OnlyMoves, MarksMove
  PROVE  Rewrites'
  <1>1. /\ UNCHANGED <<content, inherited, ahead, rewritten, buffered, recipe, place,
                       recently_rewritten>>
        /\ LookedUp' = LookedUp /\ (filter' = "decide" <=> filter = "decide")
        /\ filter = "decide" => s' = s
    BY DEF OnlyMoves
  <1>2. \A n : /\ Decided(n)' <=> Decided(n)
               /\ Locked(n)' <=> Locked(n)
               /\ Settled(n)' <=> Settled(n)
    BY <1>1 DEF Decided, Locked, Settled
  <1>3. \A n \in 1 .. LookedUp : n \in Chunks /\ n \in Nat
    <2>1. LookedUp \in Nat /\ LookedUp <= Len(content)
      BY BehindLookedUp
    <2>2. Chunks = 1 .. Len(content) /\ Len(content) \in Nat
      BY NumberShapes DEF IInv
    <2> QED
      BY <2>1, <2>2
  <1>4. ASSUME NEW n \in 1 .. LookedUp, Locked(n), ~Settled(n) PROVE ck'[n] = ck[n]
    <2>1. filter = "decide" /\ n <= Len(recipe) + Len(s) /\ ~(n <= Len(recipe))
      BY <1>4 DEF Locked, Settled
    <2>2. n \in ToSet(s)
      <3>1. ToSet(s) = Len(recipe) + 1 .. Len(recipe) + Len(s) /\ Len(recipe) \in Nat
        BY <2>1, SegmentUnderWay
      <3> QED
        BY <1>3, <2>1, <3>1
    <2>3. n # late
      BY <2>1, <2>2, LateNotTaken
    <2> QED
      BY <1>3, <2>3 DEF MarksMove
  <1>5. \A n \in 1 .. LookedUp : ck'[n].id = ck[n].id
    BY <1>3 DEF OnlyMoves, ChunksKept
  <1>6. ASSUME NEW m \in rewritten, NEW n \in 1 .. LookedUp, LaterCopy(m, n)
        PROVE  LaterCopy(m, n)'
    <2>1. New(Head(buffered[content[n]]))' <=> New(Head(buffered[content[n]]))
      BY <1>1 DEF New
    <2>2. CASE Settled(n)
      BY <1>1, <1>2, <1>6, <2>2 DEF LaterCopy
    <2>3. CASE ~Settled(n) /\ Locked(n)
      BY <1>1, <1>2, <1>4, <1>6, <2>3 DEF LaterCopy
    <2>4. CASE ~Settled(n) /\ ~Locked(n)
      BY <1>1, <1>2, <1>5, <1>6, <2>1, <2>4 DEF LaterCopy
    <2> QED
      BY <2>2, <2>3, <2>4
  <1> QED
    BY <1>1, <1>2, <1>6 DEF Rewrites

\* a lookup does: the chunk finds the rewritten copy in the index buffer, if it counts;
LEMMA LookupKeepsRewrites ==
  ASSUME IInv, FirstIsNew, Rewrites, LookupChunk
  PROVE  Rewrites'
  <1>1. PICK c \in Struct : FoundAs(c, content[LookedUp + 1])
    BY LookupSays
  <1>m. PICK x : x = LookedUp + 1
    OBVIOUS
  <1>f. PICK f \in Fps : f = content[x]
    BY <1>1, <1>m, LookedChanges DEF FoundAs
  <1>2. /\ UNCHANGED <<content, inherited, rewritten, recipe, filter, s, place, recently_rewritten>>
        /\ LookedUp' = x /\ x \in Chunks /\ filter # "decide"
        /\ ck'[x] = c /\ \A n \in Chunks : n # x => ck'[n] = ck[n]
        /\ ahead' = [ahead EXCEPT ![x] = Len(recipe)]
        /\ buffered[f] = <<>> <=> \A j \in Len(recipe) + 1 .. LookedUp : content[j] # f
    BY <1>1, <1>m, <1>f, LookupEnters
  <1>3. /\ buffered[f] \in Seq(Ids) /\ buffered'[f] = Append(buffered[f], c.id)
        /\ \A g \in Fps : g # f => buffered'[g] = buffered[g]
    BY <1>1, <1>m, <1>f, LookedChanges DEF FoundAs, IInv, TypeOK
  <1>4. /\ Len(recipe) \in Nat /\ LookedUp \in Nat
        /\ \A n \in InFlight : n \in Chunks /\ content[n] \in Fps
    BY OnConveyor
  <1>5. \A n \in 1 .. LookedUp : n \in Chunks /\ n # x /\ n \in Nat
    <2>1. LookedUp <= Len(content)
      BY BehindLookedUp
    <2>2. Chunks = 1 .. Len(content) /\ Len(content) \in Nat
      BY NumberShapes DEF IInv
    <2> QED
      BY <1>m, <1>4, <2>1, <2>2
  <1>6. 1 .. x = 1 .. LookedUp \union {x}
    BY <1>m, <1>4
  <1>7. ahead'[x] = Len(recipe) /\ \A n \in 1 .. LookedUp : ahead'[n] = ahead[n]
    <2>1. ahead \in [Chunks -> Nat]
      BY DEF FirstIsNew
    <2> QED
      BY <1>2, <1>5, <2>1
  <1>8. \A n : /\ ~Decided(n) /\ ~Decided(n)' /\ ~Locked(n) /\ ~Locked(n)'
               /\ (Settled(n)' <=> Settled(n)) /\ (Settled(n) <=> n <= Len(recipe))
    BY <1>2 DEF Decided, Locked, Settled
  <1>9. \A m \in rewritten : m \in 1 .. LookedUp /\ m <= Len(recipe)
    BY <1>8 DEF Rewrites
  <1>10. ASSUME NEW n \in InFlight PROVE Head(buffered'[content[n]]) = Head(buffered[content[n]])
    <2>1. CASE content[n] # f
      BY <1>3, <1>4, <2>1
    <2>2. CASE content[n] = f
      <3>1. buffered[f] # <<>> /\ c.id \in Ids
        BY <1>2, <1>10, <2>2 DEF InFlight, Struct
      <3>2. Len(buffered[f]) \in Nat \ {0} /\ buffered[f][1] = Head(buffered[f])
        BY <1>3, <3>1, HeadTailProperties, SeqFacts, EmptySeq
      <3>3. /\ buffered'[f] \in Seq(Ids) /\ Len(buffered'[f]) = Len(buffered[f]) + 1
            /\ buffered'[f][1] = buffered[f][1]
        BY <1>3, <3>1, <3>2, AppendFacts
      <3>4. buffered'[f] # <<>>
        BY <3>2, <3>3
      <3> QED
        BY <2>2, <3>2, <3>3, <3>4, HeadTailProperties
    <2> QED
      BY <2>1, <2>2
  <1>11. ASSUME NEW m \in rewritten, NEW n \in 1 .. LookedUp, LaterCopy(m, n)
         PROVE  LaterCopy(m, n)'
    <2>1. CASE Settled(n)
      BY <1>2, <1>8, <1>11, <2>1 DEF LaterCopy
    <2>2. CASE ~Settled(n)
      <3>1. n \in InFlight /\ ck'[n] = ck[n]
        BY <1>2, <1>4, <1>5, <1>8, <2>2 DEF InFlight
      <3>2. Head(buffered'[content'[n]]) = Head(buffered[content[n]])
        BY <1>2, <1>10, <3>1
      <3>3. New(Head(buffered[content[n]]))' <=> New(Head(buffered[content[n]]))
        BY <1>2, <3>2 DEF New
      <3> QED
        BY <1>2, <1>8, <1>11, <2>2, <3>1, <3>3 DEF LaterCopy
    <2> QED
      BY <2>1, <2>2
  <1>12. ASSUME NEW m \in rewritten, NEW n \in 1 .. x,
                m < n /\ content[m] = content[n] /\ ahead'[n] < m
         PROVE  LaterCopy(m, n)'
    <2>1. CASE n = x
      <3>1. Len(recipe) < m /\ m <= Len(recipe) /\ m \in Nat
        BY <1>5, <1>7, <1>9, <1>12, <2>1
      <3> QED
        BY <1>4, <3>1
    <2>2. CASE n \in 1 .. LookedUp
      <3>1. ahead[n] < m
        BY <1>7, <1>12, <2>2
      <3> QED
        BY <1>11, <1>12, <2>2, <3>1 DEF Rewrites
    <2> QED
      BY <1>6, <2>1, <2>2
  <1>13. \A m \in rewritten :
           /\ m \in 1 .. x /\ Settled(m)' /\ (m > Len(recipe) => content[m] \in DOMAIN recently_rewritten)
    BY <1>6, <1>8 DEF Rewrites
  <1> QED
    BY <1>2, <1>12, <1>13 DEF Rewrites

\* the lock does: the copy that was redirected is denied;
LEMMA LockKeepsRewrites ==
  ASSUME IInv, Marks, Rewrites, FilterLock
  PROVE  Rewrites'
  <1>1. /\ UNCHANGED <<content, inherited, ahead, rewritten, buffered, recipe, s>>
        /\ LookedUp' = LookedUp /\ filter = "lock" /\ filter' = "decide" /\ place' = 1
        /\ \A n \in ToSet(s) : ck'[n] = CheckBuffer(n)
        /\ \A n \in Chunks : n \notin ToSet(s) => ck'[n] = ck[n]
    BY LockTaken
  <1>2. Len(recipe) \in Nat /\ LookedUp \in Nat /\ Len(s) \in Nat
    BY OnConveyor
  <1>3. \A n \in 1 .. LookedUp : n \in Chunks /\ n \in Nat
    <2>1. LookedUp <= Len(content)
      BY BehindLookedUp
    <2>2. Chunks = 1 .. Len(content) /\ Len(content) \in Nat
      BY NumberShapes DEF IInv
    <2> QED
      BY <1>2, <2>1, <2>2
  <1>4. ToSet(s) = Len(recipe) + 1 .. Len(recipe) + Len(s)
    BY <1>1, SegmentUnderWay
  <1>5. \A n \in 1 .. LookedUp :
          /\ Settled(n) <=> n <= Len(recipe)
          /\ Settled(n)' <=> n <= Len(recipe)
          /\ ~Locked(n)
          /\ n > Len(recipe) => (Locked(n)' <=> n \in ToSet(s))
    BY <1>1, <1>2, <1>3, <1>4 DEF Settled, Decided, Locked
  <1>6. \A m \in rewritten : m \in 1 .. LookedUp /\ m <= Len(recipe) /\ Settled(m)' /\ ~(m > Len(recipe))
    BY <1>2, <1>3, <1>5 DEF Rewrites
  <1>7. ASSUME NEW m \in rewritten, NEW n \in 1 .. LookedUp, LaterCopy(m, n)
        PROVE  LaterCopy(m, n)'
    <2>1. CASE n <= Len(recipe)
      BY <1>1, <1>5, <1>7, <2>1 DEF LaterCopy
    <2>2. CASE n \in ToSet(s)
      <3>1. /\ n \in InFlight /\ n > Len(recipe) /\ ~(n <= Len(recipe))
        BY <1>1, <1>2, <1>3, <1>4, <2>2, SegmentUnderWay DEF InFlight
      <3>2. MarkOf(n)
        BY <3>1 DEF Marks
      <3>3. ck[n].id \in inherited => New(Head(buffered[content[n]]))
        BY <1>5, <1>6, <1>7, <3>1 DEF LaterCopy
      <3>4. PICK h : h = Head(buffered[content[n]])
        OBVIOUS
      <3>5. /\ h \in Int /\ ck[n].id \in Int /\ ck'[n].sparse = ck[n].sparse
            /\ Redirected(n, h) \/ Unchecked(n, h)
        BY <1>1, <2>2, <3>4, CheckedAs
      <3>6. ck[n].sparse => ck[n].id \in inherited /\ ck[n].id # TEMPORARY_ID /\ h > ck[n].id
        <4> SUFFICES ASSUME ck[n].sparse
                     PROVE  ck[n].id \in inherited /\ ck[n].id # TEMPORARY_ID /\ h > ck[n].id
          OBVIOUS
        <4>1. ck[n].id \in inherited
          BY <1>5, <3>2 DEF MarkOf
        <4>2. ck[n].id \in Nat
          BY <4>1 DEF Marks
        <4>3. ck[n].id < h
          BY <3>3, <3>4, <4>1 DEF New
        <4> QED
          BY <3>5, <4>1, <4>2, <4>3 DEF TEMPORARY_ID
      <3>7. ck'[n].denied \/ ~ck'[n].sparse
        <4>1. CASE ~ck[n].sparse
          BY <3>5, <4>1
        <4>2. CASE ck[n].sparse
          <5>1. ~Unchecked(n, h)
            BY <3>6, <4>2 DEF Unchecked
          <5>2. Redirected(n, h)
            BY <3>5, <5>1
          <5> QED
            BY <1>1, <2>2, <3>6, <4>2, <5>2 DEF Redirected
        <4> QED
          BY <4>1, <4>2
      <3> QED
        BY <1>5, <2>2, <3>1, <3>7 DEF LaterCopy
    <2>3. CASE ~(n <= Len(recipe)) /\ n \notin ToSet(s)
      <3>1. ck'[n] = ck[n] /\ n > Len(recipe)
        BY <1>1, <1>2, <1>3, <2>3
      <3>2. New(Head(buffered[content[n]]))' <=> New(Head(buffered[content[n]]))
        BY <1>1 DEF New
      <3>3. ~Locked(n)' /\ ~Settled(n)' /\ ~Locked(n) /\ ~Settled(n)
        BY <1>5, <2>3, <3>1
      <3> QED
        BY <1>1, <1>7, <3>1, <3>2, <3>3 DEF LaterCopy
    <2> QED
      BY <2>1, <2>2, <2>3
  <1> QED
    BY <1>1, <1>6, <1>7 DEF Rewrites

\* a decision does: a chunk that is written again goes into the table of the segment;
LEMMA DecideKeepsRewrites ==
  ASSUME IInv, algo = "no", Marks, OneOldId, Rewrites, DecideChunk
  PROVE  Rewrites'
  <1>1. PICK d : d = s[place]
    OBVIOUS
  <1>2. /\ DecidedOld(d) /\ DecisionOf(d)
        /\ filter = "decide" /\ place \in 1 .. Len(s) /\ d = Len(recipe) + place /\ d \in Chunks
        /\ d \in InFlight /\ place' = place + 1
        /\ UNCHANGED <<jobVars, ahead, lock, buffered, dedupVars, filter, s, recipe>>
    BY <1>1, DecideOld, DecideStep DEF InFlight
  <1>3. UNCHANGED <<content, inherited, ahead, buffered, filter, s, recipe>>
    BY <1>2 DEF jobVars
  <1>4. \A n \in Chunks : n # d => ck'[n] = ck[n]
    BY <1>2 DEF DecisionOf
  <1>5. LookedUp' = LookedUp
    BY <1>2, <1>3, PlaceKept DEF IInv
  <1>6. Len(recipe) \in Nat /\ Len(s) \in Nat /\ place \in Nat /\ LookedUp \in Nat
    BY OnConveyor
  <1>7. \A n \in 1 .. LookedUp : n \in Chunks /\ n \in Nat
    <2>1. LookedUp <= Len(content)
      BY BehindLookedUp
    <2>2. Chunks = 1 .. Len(content) /\ Len(content) \in Nat
      BY NumberShapes DEF IInv
    <2> QED
      BY <1>6, <2>1, <2>2
  <1>8. \A n \in 1 .. LookedUp : /\ Settled(n) <=> n < d
                                 /\ Settled(n)' <=> n <= d
                                 /\ Locked(n)' <=> Locked(n)
    BY <1>2, <1>3, <1>6, <1>7 DEF Settled, Decided, Locked
  <1>9. Locked(d) /\ d \in 1 .. LookedUp /\ d > Len(recipe) /\ d \in Nat
    BY <1>2, <1>6 DEF Locked, InFlight
  <1>10. PICK c \in Struct : c = Resolved(d) /\ (WrittenAs(d, c) \/ LeftAsIs(d, c))
    BY <1>1, DecideCases
  <1>11. /\ c.dup = ck[d].dup /\ c.ooo = ck[d].ooo /\ c.sparse = ck[d].sparse
         /\ ck[d].denied \/ content[d] \in DOMAIN recently_rewritten <=> c.denied
    <2>1. place <= Len(s) /\ Resolvable(s[place])
      BY DEF DecideChunk
    <2> QED
      BY <1>1, <1>2, <1>10, <2>1, ResolvedAs
  <1>12. /\ rewritten' = rewritten \/ (rewritten' = rewritten \union {d} /\ Writes(c) /\ c.dup
                                       /\ content[d] \in DOMAIN recently_rewritten')
         /\ DOMAIN recently_rewritten \subseteq DOMAIN recently_rewritten'
    <2>1. CASE LeftAsIs(d, c)
      BY <2>1 DEF LeftAsIs
    <2>2. CASE WrittenAs(d, c)
      <3>1. DOMAIN Entered(recently_rewritten, content[d], Target.id)
              = DOMAIN recently_rewritten \union {content[d]}
        BY DEF Entered
      <3>2. CASE content[d] \notin Target.fps /\ c.dup
        BY <2>2, <3>1, <3>2 DEF WrittenAs
      <3>3. CASE ~(content[d] \notin Target.fps /\ c.dup)
        BY <2>2, <3>3 DEF WrittenAs
      <3> QED
        BY <3>2, <3>3
    <2> QED
      BY <1>10, <2>1, <2>2
  <1>13. rewritten' \subseteq rewritten \union {d}
    BY <1>12
  <1>14. \A m \in rewritten : m \in 1 .. LookedUp /\ m < d
    BY <1>8 DEF Rewrites
  <1>15. \A m \in rewritten' :
           /\ m \in 1 .. LookedUp /\ Settled(m)'
           /\ m > Len(recipe) => content[m] \in DOMAIN recently_rewritten'
    <2>1. ASSUME NEW m \in rewritten
          PROVE  /\ m \in 1 .. LookedUp /\ Settled(m)'
                 /\ m > Len(recipe) => content[m] \in DOMAIN recently_rewritten'
      <3>1. m \in 1 .. LookedUp /\ m < d /\ m \in Nat
        BY <1>7, <1>14
      <3>2. Settled(m)'
        BY <1>8, <1>9, <3>1
      <3>3. m > Len(recipe) => content[m] \in DOMAIN recently_rewritten'
        BY <1>12 DEF Rewrites
      <3> QED
        BY <3>1, <3>2, <3>3
    <2>2. ASSUME d \in rewritten', d \notin rewritten
          PROVE  /\ d \in 1 .. LookedUp /\ Settled(d)'
                 /\ content[d] \in DOMAIN recently_rewritten'
      BY <1>8, <1>9, <1>12, <2>2
    <2> QED
      BY <1>13, <2>1, <2>2
  <1>16. ASSUME NEW m \in rewritten', NEW n \in 1 .. LookedUp,
                m < n /\ content[m] = content[n] /\ ahead[n] < m
         PROVE  LaterCopy(m, n)'
    <2>1. m \in Nat /\ n \in Nat /\ n \in Chunks
      BY <1>7, <1>15
    <2>2. CASE n < d
      <3>1. m \in rewritten
        BY <1>9, <1>13, <1>16, <2>1, <2>2
      <3>2. n \notin rewritten
        BY <1>8, <1>16, <2>2, <3>1 DEF Rewrites, LaterCopy
      <3>3. n # d /\ n <= d
        BY <1>9, <2>1, <2>2
      <3>4. n \notin rewritten' /\ Settled(n)'
        BY <1>8, <1>13, <3>2, <3>3
      <3> QED
        BY <3>4 DEF LaterCopy
    <2>3. CASE n = d
      <3>1. m \in rewritten
        BY <1>9, <1>13, <1>16, <2>1, <2>3
      <3>2. ~Settled(d) /\ Settled(d)'
        BY <1>8, <1>9
      <3>3. ck[d].denied \/ ~ck[d].sparse \/ content[d] \in DOMAIN recently_rewritten
        BY <1>9, <1>16, <2>3, <3>1, <3>2 DEF Rewrites, LaterCopy
      <3>4. ~ck[d].ooo
        BY <1>2 DEF Marks
      <3>5. ~(Writes(c) /\ c.dup)
        BY <1>11, <3>3, <3>4 DEF Writes
      <3>6. d \notin rewritten'
        BY <1>9, <1>12, <1>14, <3>5
      <3> QED
        BY <2>3, <3>2, <3>6 DEF LaterCopy
    <2>4. CASE n > d
      <3>1. n # d /\ ~(n <= d) /\ ~(n < d)
        BY <1>9, <2>1, <2>4
      <3>2. ~Settled(n) /\ ~Settled(n)' /\ ck'[n] = ck[n]
        BY <1>4, <1>8, <2>1, <3>1
      <3>3. CASE m \in rewritten
        <4>1. LaterCopy(m, n)
          BY <1>16, <3>3 DEF Rewrites
        <4>2. New(Head(buffered[content[n]]))' <=> New(Head(buffered[content[n]]))
          BY <1>3 DEF New
        <4>3. CASE Locked(n)
          BY <1>3, <1>8, <1>12, <3>2, <4>1, <4>3 DEF LaterCopy
        <4>4. CASE ~Locked(n)
          BY <1>3, <1>8, <3>2, <4>1, <4>2, <4>4 DEF LaterCopy
        <4> QED
          BY <4>3, <4>4
      <3>4. CASE m \notin rewritten
        <4>1. m = d /\ content[d] \in DOMAIN recently_rewritten'
          BY <1>12, <1>13, <3>4
        <4>2. content'[n] \in DOMAIN recently_rewritten' /\ m > Len(recipe')
          BY <1>3, <1>9, <1>16, <4>1
        <4> QED
          BY <3>2, <4>2 DEF LaterCopy
      <3> QED
        BY <3>3, <3>4
    <2> QED
      BY <1>9, <2>1, <2>2, <2>3, <2>4
  <1> QED
    BY <1>3, <1>5, <1>15, <1>16 DEF Rewrites

\* and the end of a segment does: later copies find the new container in the index buffer.
LEMMA FinishKeepsRewrites ==
  ASSUME IInv, Marks, OneOldId, Rewrites, FinishSegment
  PROVE  Rewrites'
  <1> DEFINE k == Len(recipe) + Len(s)
  <1>1. /\ UNCHANGED <<content, inherited, ahead, rewritten, ck, s, recently_rewritten>>
        /\ LookedUp' = LookedUp
        /\ filter = "decide" /\ filter' = "pull" /\ place = Len(s) + 1
        /\ Len(recipe') = k /\ Len(s) \in Nat /\ Len(recipe) \in Nat
        /\ k <= LookedUp /\ buffered' = UpdateBuffer
        /\ ToSet(s) = Len(recipe) + 1 .. k
    BY SegmentEnds
  <1>2. LookedUp \in Nat /\ \A n \in 1 .. LookedUp : n \in Nat
    BY OnConveyor
  <1>3. \A n \in 1 .. LookedUp :
          /\ Settled(n) <=> n <= k
          /\ Settled(n)' <=> n <= k
          /\ ~Locked(n)' /\ (Locked(n) <=> n <= k)
    BY <1>1, <1>2 DEF Settled, Decided, Locked
  <1>4. k \in Nat
    BY <1>1
  <1>5. \A m \in rewritten : m \in 1 .. LookedUp /\ m <= k /\ Settled(m)' /\ ~(m > k)
    BY <1>2, <1>3, <1>4 DEF Rewrites
  <1>6. ASSUME NEW m \in rewritten, NEW n \in 1 .. LookedUp, content[m] = content[n],
               LaterCopy(m, n)
        PROVE  LaterCopy(m, n)'
    <2>1. CASE n <= k
      BY <1>1, <1>3, <1>6, <2>1 DEF LaterCopy
    <2>2. CASE ~(n <= k)
      <3>1. ASSUME ck[n].id \in inherited PROVE New(Head(buffered'[content[n]]))
        <4>1. place > Len(s) /\ n \in Len(recipe) + Len(s) + 1 .. LookedUp /\ n \in InFlight
          BY <1>1, <1>2, <2>2 DEF InFlight
        <4>2. SameHead(n) \/ HeadOfSegment(n)
          BY <1>1, <4>1, UpdatedHead
        <4>3. ~New(ck[n].id)
          <5>1. ~(ck[n].id < ck[n].id)
            BY <3>1 DEF Marks
          <5> QED
            BY <3>1, <5>1 DEF New
        <4>4. CASE SameHead(n)
          <5>1. m \notin ToSet(s)
            BY <1>6, <4>4 DEF SameHead
          <5>2. ~(m > Len(recipe))
            BY <1>1, <1>2, <1>4, <1>5, <5>1
          <5>3. New(Head(buffered[content[n]]))
            BY <1>3, <1>6, <2>2, <3>1, <5>2 DEF LaterCopy
          <5> QED
            BY <1>1, <4>4, <5>3 DEF SameHead
        <4>5. CASE HeadOfSegment(n)
          <5>1. PICK j \in ToSet(s) :
                  content[j] = content[n] /\ Head(UpdateBuffer[content[n]]) = ck[j].id
            BY <4>5 DEF HeadOfSegment
          <5>2. j \in InFlight /\ Decided(j)
            BY <1>1, <1>2 DEF InFlight, Decided
          <5>3. New(ck[j].id) \/ (ck[j].id \notin inherited /\ ~New(ck[j].id))
            BY <5>2 DEF OneOldId
          <5>4. ~New(ck[j].id) => ck[j].id = ck[n].id
            BY <4>1, <4>3, <5>1, <5>2 DEF OneOldId
          <5>5. New(ck[j].id)
            BY <3>1, <5>3, <5>4
          <5> QED
            BY <1>1, <5>1, <5>5
        <4> QED
          BY <4>2, <4>4, <4>5
      <3>2. New(Head(buffered[content[n]]))' <=> New(Head(buffered'[content[n]]))
        BY <1>1 DEF New
      <3>3. ~Settled(n)' /\ ~Locked(n)'
        BY <1>3, <2>2
      <3> QED
        BY <1>1, <3>1, <3>2, <3>3 DEF LaterCopy
    <2> QED
      BY <2>1, <2>2
  <1> HIDE DEF k
  <1> QED
    BY <1>1, <1>5, <1>6 DEF Rewrites

\* What there is to rewrite does not change during a backup.
LEMMA SettingsKept ==
  ASSUME IInv, [Next]_vars
  PROVE  algo' = algo /\ inherited' = inherited
  <1>1. CASE OnlyMoves
    BY <1>1 DEF OnlyMoves
  <1>2. CASE LookupChunk
    <2>1. \E c \in Struct : FoundAs(c, content[LookedUp + 1])
      BY <1>2, LookupSays
    <2> QED
      BY <2>1, LookupEnters
  <1>3. CASE FilterLock
    BY <1>3, LockTaken
  <1>4. CASE DecideChunk
    BY <1>4 DEF DecideChunk, jobVars
  <1>5. CASE FinishSegment
    BY <1>5, SegmentEnds
  <1> QED
    BY <1>1, <1>2, <1>3, <1>4, <1>5, Movers

\* The invariant of backups without a rewriting algorithm.
SparseRules == algo = "no" => Marks /\ OneOldId /\ Rewrites

\* Every step keeps it,
LEMMA SparseRulesKept ==
  ASSUME IInv, FirstIsNew, SparseRules, [Next]_vars
  PROVE  SparseRules'
  <1>1. IInv'
    BY StepInv
  <1>2. algo' = algo
    BY SettingsKept
  <1> SUFFICES ASSUME algo = "no" PROVE Marks' /\ OneOldId' /\ Rewrites'
    BY <1>2 DEF SparseRules
  <1>3. Marks /\ OneOldId /\ Rewrites
    BY DEF SparseRules
  <1>4. CASE LookupChunk
    BY <1>3, <1>4, LookupKeepsOld, LookupKeepsRewrites
  <1>5. CASE FilterLock
    BY <1>3, <1>5, LockKeepsOld, LockKeepsRewrites
  <1>6. CASE DecideChunk
    BY <1>1, <1>3, <1>6, DecideKeepsOld, DecideKeepsRewrites
  <1>7. CASE FinishSegment
    BY <1>3, <1>7, FinishKeepsOld, FinishKeepsRewrites
  <1>8. CASE ~LookupChunk /\ ~FilterLock /\ ~DecideChunk /\ ~FinishSegment
    <2>1. OnlyMoves /\ MarksMove
      BY <1>1, <1>8, Movers, MoversMark
    <2> QED
      BY <1>1, <1>3, <2>1, MovesKeepOld, MovesKeepRewrites
  <1> QED
    BY <1>4, <1>5, <1>6, <1>7, <1>8

\* it holds at first,
LEMMA SparseRulesAtFirst ==
  ASSUME Init
  PROVE  SparseRules
  <1>1. IInv
    BY InitInv
  <1>2. /\ ck = [n \in Chunks |-> Fresh] /\ filter = "pull" /\ dedup = "lock" /\ segment = 0
        /\ recipe = <<>> /\ rewritten = {}
        /\ inherited \in IF HAR THEN SUBSET (0 .. (Len(containers) - 1)) ELSE {{}}
    BY DEF Init
  <1>3. SegmentSize \in Nat /\ Len(containers) \in Nat
    BY <1>1, NumberShapes DEF IInv
  <1>4. LookedUp = 0
    BY <1>2, <1>3 DEF LookedUp, Base
  <1>5. InFlight = {}
    BY <1>2, <1>4 DEF InFlight
  <1>6. \A n \in Chunks : ~ck[n].ooo /\ ~ck[n].sparse
    BY <1>2 DEF Fresh
  <1>7. \A i \in inherited : i \in Nat /\ i < Len(containers) /\ HAR
    BY <1>2, <1>3
  <1>8. Marks
    BY <1>5, <1>6, <1>7 DEF Marks
  <1>9. OneOldId
    BY <1>2, <1>5 DEF OneOldId
  <1>10. Rewrites
    BY <1>2 DEF Rewrites
  <1> QED
    BY <1>8, <1>9, <1>10 DEF SparseRules

\* and always.
LEMMA AlwaysSparseRules ==
  Spec => []SparseRules
  <1>1. IInv /\ FirstIsNew /\ SparseRules /\ [Next]_vars => SparseRules'
    BY SparseRulesKept
  <1> QED
    BY <1>1, SparseRulesAtFirst, Always, AlwaysFirstIsNew, PTL DEF Spec

\* SparseRewrittenOnce: without a rewriting algorithm, filter_phase.c denies the rewrite
\* request of every copy that was looked up before an earlier copy was rewritten.
THEOREM RewrittenOnce ==
  Spec => []SparseRewrittenOnce
  <1>1. ASSUME IInv, FirstIsNew, SparseRules, algo = "no",
               NEW m \in rewritten, NEW n \in rewritten, m < n, content[m] = content[n]
        PROVE  m <= ahead[n]
    <2>1. /\ m \in 1 .. LookedUp /\ n \in 1 .. LookedUp /\ Settled(n)
          /\ ahead[n] < m => n \notin rewritten
      BY <1>1 DEF SparseRules, Rewrites, LaterCopy
    <2>2. ahead[n] \in Nat
      <3>1. LookedUp \in Nat /\ LookedUp <= Len(content)
        BY <1>1, BehindLookedUp
      <3>2. n \in Chunks
        BY <1>1, <2>1, <3>1, NumberShapes DEF IInv
      <3> QED
        BY <1>1, <3>2 DEF FirstIsNew
    <2> QED
      BY <1>1, <2>1, <2>2
  <1>2. IInv /\ FirstIsNew /\ SparseRules => SparseRewrittenOnce
    BY <1>1 DEF SparseRewrittenOnce, NoRepeatRewrite
  <1> QED
    BY <1>2, Always, AlwaysFirstIsNew, AlwaysSparseRules, PTL

-----------------------------------------------------------------------------
(* Storing once: new chunks are not in the store, and the store has none   *)
(* twice.                                                                  *)

\* The containers of every history are apart: no job has stored a chunk twice.
StoredNothingTwice ==
  \A h \in Histories : \A i \in DOMAIN h : \A j \in DOMAIN h :
    h[i] \intersect h[j] # {} => i = j

\* With the exact index and nothing to rewrite: the containers and the container
\* buffer are apart, the key-value store knows all of their chunks, and they have none
\* of the new chunks on the conveyor.
Apart ==
  /\ \A i \in DOMAIN containers : containers[i] \subseteq DOMAIN kv
  /\ \A n \in InFlight : ~ck[n].dup /\ ~Decided(n) =>
       /\ content[n] \notin open.fps
       /\ \A i \in DOMAIN containers : content[n] \notin containers[i]
  /\ \A i \in DOMAIN containers : \A j \in DOMAIN containers :
       containers[i] \intersect containers[j] # {} => i = j
  /\ \A i \in DOMAIN containers : containers[i] \intersect open.fps = {}
NothingToRewrite == Sampled = Fps /\ algo = "no" /\ inherited = {}

\* A sealed container stays apart from the others and from new chunks.
LEMMA SealKeepsApart ==
  ASSUME IInv, Apart, Sampled = Fps, Seal, NEW t, t \intersect open.fps = {},
         \A i \in DOMAIN containers : containers[i] \intersect t = {}
  PROVE  /\ \A i \in DOMAIN containers' : containers'[i] \subseteq DOMAIN kv'
         /\ \A i \in DOMAIN containers' : \A j \in DOMAIN containers' :
              containers'[i] \intersect containers'[j] # {} => i = j
         /\ \A i \in DOMAIN containers' : containers'[i] \intersect t = {}
         /\ \A g : g \notin open.fps /\ (\A i \in DOMAIN containers : g \notin containers[i])
              => \A i \in DOMAIN containers' : g \notin containers'[i]
  <1> DEFINE l == Len(containers)
  <1>1. /\ containers \in Seq(SUBSET Fps) /\ open.fps \in SUBSET Fps /\ l \in Nat
        /\ DOMAIN containers = 1 .. l
    BY NumberShapes DEF IInv, TypeOK
  <1>2. /\ containers' = Append(containers, open.fps)
        /\ DOMAIN kv' = DOMAIN kv \union (open.fps \intersect Sampled)
    BY DEF Seal
  <1>3. /\ DOMAIN containers' = 1 .. l + 1 /\ containers'[l + 1] = open.fps
        /\ \A k \in 1 .. l : containers'[k] = containers[k]
    BY <1>1, <1>2, AppendFacts
  <1>4. DOMAIN kv' = DOMAIN kv \union open.fps
    BY <1>1, <1>2
  <1>5. \A i \in 1 .. l + 1 : i = l + 1 \/ i \in 1 .. l
    BY <1>1
  <1>6. /\ \A i \in 1 .. l : containers[i] \subseteq DOMAIN kv
        /\ \A i \in 1 .. l : \A j \in 1 .. l : containers[i] \intersect containers[j] # {} => i = j
        /\ \A i \in 1 .. l : containers[i] \intersect open.fps = {}
    BY <1>1 DEF Apart
  <1> HIDE DEF l
  <1>7. \A i \in 1 .. l + 1 : containers'[i] \subseteq DOMAIN kv'
    BY <1>3, <1>4, <1>5, <1>6
  <1>8. ASSUME NEW i \in 1 .. l + 1, NEW j \in 1 .. l + 1, containers'[i] \intersect containers'[j] # {}
        PROVE  i = j
    <2>1. CASE i \in 1 .. l /\ j \in 1 .. l
      BY <1>3, <1>6, <1>8, <2>1
    <2>2. CASE i \in 1 .. l /\ j = l + 1
      BY <1>3, <1>6, <1>8, <2>2
    <2>3. CASE i = l + 1 /\ j \in 1 .. l
      BY <1>3, <1>6, <1>8, <2>3
    <2> QED
      BY <1>5, <2>1, <2>2, <2>3
  <1>9. /\ \A i \in 1 .. l + 1 : containers'[i] \intersect t = {}
        /\ \A g : g \notin open.fps /\ (\A i \in DOMAIN containers : g \notin containers[i])
              => \A i \in 1 .. l + 1 : g \notin containers'[i]
    BY <1>1, <1>3, <1>5
  <1> QED
    BY <1>3, <1>7, <1>8, <1>9

\* Every step keeps Apart: what is written is the first copy since its segment began,
\* and was in no container when it was looked up.
LEMMA ApartKept ==
  ASSUME IInv, FirstIsNew, Marks, Apart, NothingToRewrite, [Next]_vars
  PROVE  Apart'
  <1>0. Sampled = Fps /\ algo = "no" /\ inherited = {}
    BY DEF NothingToRewrite
  <1>1. /\ Len(recipe) \in Nat /\ LookedUp \in Nat
        /\ \A n \in InFlight : n \in Chunks /\ content[n] \in Fps /\ n \in Nat
    BY OnConveyor
  <1>2. CASE LookupChunk
    <2>1. PICK c \in Struct : FoundAs(c, content[LookedUp + 1])
      BY <1>2, LookupSays
    <2>m. PICK m : m = LookedUp + 1
      OBVIOUS
    <2>2. /\ UNCHANGED <<content, recipe, filter, place, containers, open, kv>>
          /\ LookedUp' = m /\ filter # "decide"
          /\ ck'[m] = c /\ \A n \in Chunks : n # m => ck'[n] = ck[n]
      BY <2>1, <2>m, LookupEnters
    <2>i. Len(recipe) <= LookedUp
      BY BehindLookedUp
    <2>3. InFlight' = InFlight \union {m} /\ m \notin InFlight
      BY <1>1, <2>i, <2>m, <2>2 DEF InFlight
    <2>4. ~c.dup => /\ content[m] \notin open.fps
                    /\ \A i \in DOMAIN containers : content[m] \notin containers[i]
      <3>1. ~c.dup => content[m] \notin open.fps /\ content[m] \notin DOMAIN kv
        BY <2>1, <2>m DEF FoundAs
      <3> QED
        BY <3>1 DEF Apart
    <2>5. \A n \in InFlight : n # m /\ ck'[n] = ck[n] /\ ~Decided(n)
      BY <1>1, <2>2, <2>3 DEF Decided
    <2>6. \A n \in InFlight' : ~ck'[n].dup =>
            /\ content[n] \notin open.fps
            /\ \A i \in DOMAIN containers : content[n] \notin containers[i]
      BY <2>2, <2>3, <2>4, <2>5 DEF Apart
    <2> QED
      BY <2>2, <2>6 DEF Apart
  <1>3. CASE FilterLock
    <2>1. /\ UNCHANGED <<content, recipe, containers, open, kv>> /\ LookedUp' = LookedUp
          /\ filter = "lock" /\ \A n \in Chunks : ck'[n].dup = ck[n].dup
      BY <1>3, LockTaken
    <2>2. InFlight' = InFlight /\ \A n : ~Decided(n)
      BY <2>1 DEF InFlight, Decided
    <2>3. \A n \in InFlight : ~ck'[n].dup =>
            /\ content[n] \notin open.fps
            /\ \A i \in DOMAIN containers : content[n] \notin containers[i]
      BY <1>1, <2>1, <2>2 DEF Apart
    <2> QED
      BY <2>1, <2>2, <2>3 DEF Apart
  <1>4. CASE DecideChunk
    <2>1. PICK d : d = s[place]
      OBVIOUS
    <2>2. /\ DecisionOf(d) /\ filter = "decide" /\ place \in 1 .. Len(s)
          /\ d = Len(recipe) + place /\ d \in Chunks
          /\ d \in InFlight /\ place' = place + 1
          /\ UNCHANGED <<jobVars, lock, dedupVars, filter, recipe>>
      BY <1>4, <2>1, DecideStep DEF InFlight
    <2>3. UNCHANGED <<content, filter, recipe>>
      BY <2>2 DEF jobVars
    <2>4. LookedUp' = LookedUp
      BY <2>2, <2>3, PlaceKept DEF IInv
    <2>5. InFlight' = InFlight
      BY <2>3, <2>4 DEF InFlight
    <2>6. \A n \in Chunks : n # d => ck'[n] = ck[n]
      BY <2>2 DEF DecisionOf
    <2>7. \A n \in InFlight : ~Decided(n)' => ~Decided(n) /\ n > d
      BY <1>1, <2>2, <2>3, OnConveyor DEF Decided
    <2>8. ~Decided(d) /\ d \in Nat
      BY <1>1, <2>2 DEF Decided
    <2>9. PICK c \in Struct : c = Resolved(d) /\ (WrittenAs(d, c) \/ LeftAsIs(d, c))
      BY <1>4, <2>1, DecideCases
    <2>10. CASE LeftAsIs(d, c)
      <3>1. UNCHANGED <<containers, open, kv>>
        BY <2>10 DEF LeftAsIs
      <3>2. \A n \in InFlight : ~ck'[n].dup /\ ~Decided(n)' =>
              /\ content[n] \notin open.fps
              /\ \A i \in DOMAIN containers : content[n] \notin containers[i]
        <4>1. \A n \in InFlight : ~Decided(n)' => ck'[n] = ck[n] /\ ~Decided(n)
          BY <1>1, <2>6, <2>7, <2>8
        <4> QED
          BY <4>1 DEF Apart
      <3> QED
        BY <2>3, <2>5, <3>1, <3>2 DEF Apart
    <2>11. CASE WrittenAs(d, c)
      <3> DEFINE f == content[d]
                 T == Target
      <3>1. /\ Writes(c) /\ c.dup = ck[d].dup
            /\ IF open # NoContainer /\ Overflow THEN Seal ELSE UNCHANGED <<containers, kv>>
            /\ open' = [T EXCEPT !.fps = @ \union {f}]
        BY <2>11 DEF WrittenAs
      <3>2. ~ck[d].dup
        <4>1. ~ck[d].ooo /\ ~ck[d].sparse
          BY <1>0, <2>2 DEF Marks
        <4>2. place <= Len(s) /\ Resolvable(s[place])
          BY <1>4 DEF DecideChunk
        <4>3. c.ooo = ck[d].ooo /\ c.sparse = ck[d].sparse
          BY <2>1, <2>2, <2>9, <4>2, ResolvedAs
        <4> QED
          BY <3>1, <4>1, <4>3 DEF Writes
      <3>3. f \notin open.fps /\ \A i \in DOMAIN containers : f \notin containers[i]
        BY <2>2, <2>8, <3>2 DEF Apart
      <3>4. ASSUME NEW n \in InFlight, ~ck'[n].dup, ~Decided(n)'
            PROVE  /\ content[n] # f /\ content[n] \notin open.fps
                   /\ \A i \in DOMAIN containers : content[n] \notin containers[i]
        <4>1. n > d /\ ~Decided(n) /\ n \in Nat /\ n \in Chunks /\ n \in 1 .. LookedUp
          BY <1>1, <2>7, <3>4 DEF InFlight
        <4>2. ~ck[n].dup
          BY <2>6, <2>8, <3>4, <4>1
        <4>3. ahead[n] \in Nat /\ ahead[n] <= Len(recipe)
          BY <4>1 DEF FirstIsNew
        <4>4. d \in ahead[n] + 1 .. n - 1
          BY <1>1, <2>2, <2>8, <4>1, <4>3 DEF InFlight
        <4>5. content[n] # f
          BY <4>1, <4>2, <4>4 DEF FirstIsNew
        <4> QED
          BY <4>1, <4>2, <4>5 DEF Apart
      <3>5. open'.fps = T.fps \union {f} /\ T.fps \in SUBSET Fps
        <4>1. T = open \/ T = [id |-> Len(containers), fps |-> {}] \/ T = [id |-> open.id + 1, fps |-> {}]
          BY DEF Target
        <4>2. open \in [id : Ids, fps : SUBSET Fps]
          BY DEF IInv, TypeOK
        <4>3. DOMAIN T = {"id", "fps"} /\ T.fps \in SUBSET Fps
          BY <4>1, <4>2
        <4> HIDE DEF T, f
        <4> QED
          BY <3>1, <4>3
      <3> HIDE DEF f
      <3>6. CASE open # NoContainer /\ Overflow
        <4>1. Seal
          BY <3>1, <3>6
        <4>2. T.fps = {}
          BY <3>6 DEF Target
        <4> HIDE DEF T
        <4>3. open'.fps = {f}
          BY <3>5, <4>2
        <4>4. /\ {f} \intersect open.fps = {}
              /\ \A i \in DOMAIN containers : containers[i] \intersect {f} = {}
          BY <3>3
        <4>5. /\ \A i \in DOMAIN containers' : containers'[i] \subseteq DOMAIN kv'
              /\ \A i \in DOMAIN containers' : \A j \in DOMAIN containers' :
                   containers'[i] \intersect containers'[j] # {} => i = j
              /\ \A i \in DOMAIN containers' : containers'[i] \intersect {f} = {}
              /\ \A g : g \notin open.fps /\ (\A i \in DOMAIN containers : g \notin containers[i])
                   => \A i \in DOMAIN containers' : g \notin containers'[i]
          BY <1>0, <4>1, <4>4, SealKeepsApart
        <4>6. \A n \in InFlight : ~ck'[n].dup /\ ~Decided(n)' =>
                /\ content'[n] \notin open'.fps
                /\ \A i \in DOMAIN containers' : content'[n] \notin containers'[i]
          BY <2>3, <3>4, <4>3, <4>5
        <4> QED
          BY <2>5, <4>3, <4>5, <4>6 DEF Apart
      <3>7. CASE ~(open # NoContainer /\ Overflow)
        <4>1. UNCHANGED <<containers, kv>>
          BY <3>1, <3>7
        <4>2. T.fps = open.fps
          BY <3>7 DEF Target, NoContainer
        <4> HIDE DEF T
        <4>3. open'.fps = open.fps \union {f}
          BY <3>5, <4>2
        <4>4. \A i \in DOMAIN containers : containers[i] \intersect open'.fps = {}
          BY <3>3, <4>3 DEF Apart
        <4>5. \A n \in InFlight : ~ck'[n].dup /\ ~Decided(n)' =>
                /\ content'[n] \notin open'.fps
                /\ \A i \in DOMAIN containers' : content'[n] \notin containers'[i]
          BY <2>3, <3>4, <4>1, <4>3
        <4> QED
          BY <2>5, <4>1, <4>4, <4>5 DEF Apart
      <3> QED
        BY <3>6, <3>7
    <2> QED
      BY <2>9, <2>10, <2>11
  <1>5. CASE FinishSegment
    <2>1. /\ UNCHANGED <<content, ck, s, containers, open, kv>>
          /\ LookedUp' = LookedUp /\ filter = "decide" /\ place = Len(s) + 1
          /\ Len(recipe') = Len(recipe) + Len(s) /\ Len(s) \in Nat
      BY <1>5, SegmentEnds
    <2>2. \A n \in InFlight' : n \in InFlight /\ ~Decided(n)
      BY <1>1, <2>1 DEF InFlight, Decided
    <2>3. \A n \in InFlight' : ~ck[n].dup =>
            /\ content[n] \notin open.fps
            /\ \A i \in DOMAIN containers : content[n] \notin containers[i]
      BY <2>2 DEF Apart
    <2> QED
      BY <2>1, <2>3 DEF Apart
  <1>6. CASE ~LookupChunk /\ ~FilterLock /\ ~DecideChunk /\ ~FinishSegment
    <2>1. OnlyMoves
      BY <1>6, Movers
    <2>2. /\ UNCHANGED <<content, recipe, place>> /\ LookedUp' = LookedUp
          /\ (filter' = "decide" <=> filter = "decide")
          /\ \A n \in Chunks : ck'[n].dup = ck[n].dup
      BY <2>1 DEF OnlyMoves, ChunksKept
    <2>3. InFlight' = InFlight /\ \A n : Decided(n)' <=> Decided(n)
      BY <2>2 DEF InFlight, Decided
    <2>4. \A n \in InFlight : ~ck'[n].dup /\ ~Decided(n)' =>
            /\ content[n] \notin open.fps
            /\ \A i \in DOMAIN containers : content[n] \notin containers[i]
      BY <1>1, <2>2, <2>3 DEF Apart
    <2>5. UNCHANGED storeVars \/ (Seal /\ open' = NoContainer)
      <3>1. CASE DedupLock \/ EmptySegment \/ SendItem
        BY <3>1 DEF DedupLock, EmptySegment, SendItem
      <3>2. CASE Rewrite
        BY <3>2 DEF Rewrite, RewriteItem, RewriteEnd, PushDrained, LateHarCheck
      <3>3. CASE CollectItem
        BY <3>3 DEF CollectItem
      <3>4. CASE FilterEnd
        <4>1. /\ IF open = NoContainer THEN UNCHANGED <<containers, kv>> ELSE Seal
              /\ open' = NoContainer
          BY <3>4 DEF FilterEnd
        <4> QED
          BY <4>1 DEF storeVars
      <3>5. CASE UNCHANGED vars
        BY <3>5 DEF vars
      <3> QED
        BY <1>6, <3>1, <3>2, <3>3, <3>4, <3>5 DEF Next, Dedup, Filter, Over
    <2>6. CASE UNCHANGED storeVars
      <3>1. UNCHANGED <<containers, open, kv>>
        BY <2>6 DEF storeVars
      <3> QED
        BY <2>2, <2>3, <2>4, <3>1 DEF Apart
    <2>7. CASE Seal /\ open' = NoContainer
      <3>1. open'.fps = {}
        BY <2>7 DEF NoContainer
      <3>2. /\ {} \intersect open.fps = {}
            /\ \A i \in DOMAIN containers : containers[i] \intersect {} = {}
        OBVIOUS
      <3>3. /\ \A i \in DOMAIN containers' : containers'[i] \subseteq DOMAIN kv'
            /\ \A i \in DOMAIN containers' : \A j \in DOMAIN containers' :
                 containers'[i] \intersect containers'[j] # {} => i = j
            /\ \A i \in DOMAIN containers' : containers'[i] \intersect {} = {}
            /\ \A g : g \notin open.fps /\ (\A i \in DOMAIN containers : g \notin containers[i])
                 => \A i \in DOMAIN containers' : g \notin containers'[i]
        BY <1>0, <2>7, <3>2, SealKeepsApart
      <3>4. \A n \in InFlight : ~ck'[n].dup /\ ~Decided(n)' =>
              /\ content'[n] \notin open'.fps
              /\ \A i \in DOMAIN containers' : content'[n] \notin containers'[i]
        BY <2>2, <2>4, <3>1, <3>3
      <3> QED
        BY <2>3, <3>1, <3>3, <3>4 DEF Apart
    <2> QED
      BY <2>5, <2>6, <2>7
  <1> QED
    BY <1>2, <1>3, <1>4, <1>5, <1>6

\* It holds when the backup begins.
LEMMA ApartAtFirst ==
  ASSUME Init, StoredNothingTwice, NothingToRewrite
  PROVE  Apart
  <1>1. IInv /\ Sampled = Fps
    BY InitInv DEF NothingToRewrite
  <1>2. /\ filter = "pull" /\ dedup = "lock" /\ segment = 0 /\ recipe = <<>>
        /\ open = NoContainer /\ containers \in Histories
        /\ DOMAIN kv = UNION {containers[k] \intersect Sampled : k \in DOMAIN containers}
    BY DEF Init
  <1>3. SegmentSize \in Nat
    BY <1>1, NumberShapes DEF IInv
  <1>4. LookedUp = 0
    BY <1>2, <1>3 DEF LookedUp, Base
  <1>5. InFlight = {}
    BY <1>2, <1>4 DEF InFlight
  <1>6. open.fps = {}
    BY <1>2 DEF NoContainer
  <1>7. \A i \in DOMAIN containers : containers[i] \subseteq Fps
    BY <1>1, NumberShapes, SeqFacts DEF IInv, TypeOK
  <1>8. \A i \in DOMAIN containers : containers[i] \subseteq DOMAIN kv
    BY <1>1, <1>2, <1>7
  <1>9. \A i \in DOMAIN containers : \A j \in DOMAIN containers :
          containers[i] \intersect containers[j] # {} => i = j
    BY <1>2 DEF StoredNothingTwice
  <1> QED
    BY <1>5, <1>6, <1>8, <1>9 DEF Apart

\* With the exact index and nothing to rewrite, the containers are always apart.
LEMMA AlwaysApart ==
  ASSUME StoredNothingTwice
  PROVE  Spec => [](NothingToRewrite => Apart)
  <1> DEFINE A == NothingToRewrite => Apart
  <1>1. IInv /\ FirstIsNew /\ SparseRules /\ A /\ [Next]_vars => A'
    <2> SUFFICES ASSUME IInv, FirstIsNew, SparseRules, A, [Next]_vars, NothingToRewrite'
                 PROVE  Apart'
      OBVIOUS
    <2>1. NothingToRewrite
      BY SettingsKept DEF NothingToRewrite
    <2>2. Marks
      BY <2>1 DEF NothingToRewrite, SparseRules
    <2> QED
      BY <2>1, <2>2, ApartKept
  <1>2. Init => A
    BY ApartAtFirst
  <1> QED
    BY <1>1, <1>2, Always, AlwaysFirstIsNew, AlwaysSparseRules, PTL DEF Spec

\* Then no two containers hold the same chunk.
LEMMA ApartIsOnce ==
  ASSUME IInv, NothingToRewrite => Apart
  PROVE  StoredOnce
  <1> SUFFICES ASSUME NothingToRewrite, NEW f \in Fps
               PROVE  Cardinality({id \in Ids : Holds(id, f)}) <= 1
    BY DEF StoredOnce, NothingToRewrite
  <1>1. Apart /\ StoreShape
    BY DEF IInv
  <1>2. Ids \subseteq Int /\ Len(containers) \in Nat /\ DOMAIN containers = 1 .. Len(containers)
    BY NumberShapes DEF IInv, TypeOK
  <1>3. ASSUME NEW i \in Ids, NEW j \in Ids, Holds(i, f), Holds(j, f)
        PROVE  i = j
    <2>1. f \in open.fps => open.id = Len(containers)
      BY <1>1 DEF StoreShape, NoContainer
    <2>2. f \in open.fps => \A k \in DOMAIN containers : f \notin containers[k]
      BY <1>1 DEF Apart
    <2>3. CASE f \in open.fps
      BY <1>3, <2>2, <2>3 DEF Holds
    <2>4. CASE f \notin open.fps
      <3>1. /\ i + 1 \in DOMAIN containers /\ f \in containers[i + 1]
            /\ j + 1 \in DOMAIN containers /\ f \in containers[j + 1]
        BY <1>3, <2>4 DEF Holds
      <3>2. i + 1 = j + 1
        BY <1>1, <3>1 DEF Apart
      <3> QED
        BY <1>2, <3>2
    <2> QED
      BY <2>3, <2>4
  <1> DEFINE S == {id \in Ids : Holds(id, f)}
  <1>4. S = {} \/ \E x : S = {x}
    BY <1>3
  <1> HIDE DEF S
  <1>5. ASSUME S = {} PROVE Cardinality(S) = 0
    BY <1>5, FS_EmptySet
  <1>6. ASSUME NEW x, S = {x} PROVE Cardinality(S) = 1
    BY <1>6, FS_Singleton
  <1>7. Cardinality(S) <= 1
    BY <1>4, <1>5, <1>6
  <1> QED
    BY <1>7 DEF S

\* StoredOnce (destor.h:79): a store that has every chunk once keeps it so, if the index
\* is exact and there is nothing to rewrite.
THEOREM StoredOnlyOnce ==
  ASSUME StoredNothingTwice
  PROVE  Spec => []StoredOnce
  <1>1. IInv /\ (NothingToRewrite => Apart) => StoredOnce
    BY ApartIsOnce
  <1> QED
    BY <1>1, Always, AlwaysApart, PTL

\* NoDoubleStore: whatever the three threads do, filter_phase.c stores a chunk again only
\* where it means to.
THEOREM NeverStoredTwice ==
  ASSUME StoredNothingTwice
  PROVE  Spec => []NoDoubleStore
  <1>1. StoredOnce /\ NoRepeatInSegment /\ SparseRewrittenOnce => NoDoubleStore
    BY DEF NoDoubleStore
  <1> QED
    BY <1>1, StoredOnlyOnce, NoTableTwice, RewrittenOnce, PTL
=============================================================================
