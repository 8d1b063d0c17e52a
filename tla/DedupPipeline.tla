--------------------------- MODULE DedupPipeline ---------------------------
(***************************************************************************)
(* dedup_phase.c, rewrite_phase.c with its four algorithms, filter_phase.c *)
(* and index/index.c: the three threads that decide, for every chunk of a  *)
(* backup, which container its recipe entry names and whether it is stored *)
(* again.  The index exploits physical locality, so that segments are of   *)
(* the fixed size SegmentSize.                                             *)
(*                                                                         *)
(* A struct chunk is handed on by pointer: one record of "ck" that the     *)
(* thread holding the pointer changes.  dedup_queue and rewrite_queue are  *)
(* the channels that SyncQueue is shown to be; the store is what           *)
(* ContainerStore is shown to be: a container that the index names can be  *)
(* read.  FILE_START and FILE_END chunks are left out, and so are the      *)
(* bytes: sizes count chunks, and a container holds Capacity of them.      *)
(***************************************************************************)
EXTENDS Integers, Sequences, SequencesExt, FiniteSetsExt, Functions

CONSTANTS
  Fps,          \* fingerprints
  Lengths,      \* bound: how many chunks the backup has
  Histories,    \* what earlier jobs left: sequences of containers (sets of fps)
  Sampled,      \* the fingerprints that index sampling selects; Fps if exact
  Algorithms,   \* rewrite_algorithm[0]: some of "no", "cfl", "cap", "cbr"
  RewriteSize,  \* rewrite_algorithm[1], the chunks in a full rewrite buffer
  UsageThreshold, \* cfl: the size below which chunks are out of order
  CappingLevel, \* rewrite_capping_level
  HAR,          \* rewrite_enable_har
  RestoreAware, \* is the cache-aware filter or the cfl switch enabled?
  SegmentSize,  \* index_segment_algorithm[1]
  Capacity,     \* the chunks a container holds
  CacheSize,    \* index_cache_size, in containers
  QueueSize     \* the size of dedup_queue and of rewrite_queue (1000)

ASSUME PipelineAssumption ==
  /\ Sampled \subseteq Fps
  /\ Histories \subseteq Seq(SUBSET Fps)
  /\ Algorithms \subseteq {"no", "cfl", "cap", "cbr"}
  /\ {HAR, RestoreAware} \subseteq BOOLEAN
  /\ {RewriteSize, SegmentSize, Capacity, CacheSize, QueueSize}
       \subseteq Nat \ {0}
  /\ Lengths \subseteq Nat /\ {UsageThreshold, CappingLevel} \subseteq Nat

TEMPORARY_ID == -1

\* Items of the queues: a chunk is its number in the backup.
SEGMENT_START == 0
SEGMENT_END == -1

VARIABLES
  content,   \* the fingerprints of the backup, in order
  algo,      \* rewrite_algorithm[0]
  inherited, \* inherited_sparse_containers
  ck,        \* the struct chunk of each chunk
  lock,      \* index_lock.mutex: "free", "dedup" or "filter"
  buffered,  \* index_buffer: the ids of the indexElems of each fingerprint
  kv,        \* the key-value store: a container for some fingerprints
  cache,     \* lru_queue of the fingerprint cache, most recent first
  dedup,     \* the dedup thread: "lock", "lookup", "send" or "done"
  segment,   \* the number of its segment, from 0
  cursor,    \* its place in that segment
  dedup_queue,
  chunk_queue,   \* rewrite_buffer.chunk_queue
  inorder,   \* the containers whose record in it has out_of_order = 0 (cbr)
  draining,  \* items popped from the rewrite buffer, still to be pushed
  late,      \* no_rewrite: the chunk just pushed, not yet seen by har_check
  rewrite,   \* the rewrite thread: "run" or "end" (its input has ended)
  rewrite_queue,
  filter,    \* the filter thread: "pull", "collect", "lock", "decide", "done"
  s,         \* the segment it rebuilds: chunk numbers
  place,     \* its place in that segment
  recently_unique, recently_rewritten,  \* of this segment: the container ids
  containers,  \* the containers that were sealed, that of id 0 first
  open,        \* storage_buffer.container_buffer
  recipe,      \* the chunk pointers written: <<fingerprint, id>>
  ahead,       \* history: how many chunks were in the recipe when a chunk
               \* was looked up
  rewritten    \* history: the duplicate chunks that were written again

dedupVars == <<dedup, segment, cursor>>
rewriteVars == <<chunk_queue, inorder, draining, late, rewrite>>
filterVars == <<filter, s, place, recently_unique, recently_rewritten>>
storeVars == <<containers, open, kv>>
jobVars == <<content, algo, inherited>>
history == <<ahead, rewritten>>
vars == <<jobVars, history, ck, lock, buffered, cache, dedupVars, dedup_queue,
          rewriteVars, rewrite_queue, filterVars, storeVars, recipe>>

NoContainer == [id |-> TEMPORARY_ID, fps |-> {}]

Chunks == DOMAIN content
Empty == [f \in {} |-> TEMPORARY_ID]
Fresh == [id |-> TEMPORARY_ID, dup |-> FALSE, denied |-> FALSE,
          ooo |-> FALSE, sparse |-> FALSE]

Init ==
  /\ content \in UNION {[1..n -> Fps] : n \in Lengths}
  /\ algo \in Algorithms
  /\ containers \in Histories
  /\ inherited \in IF HAR THEN SUBSET (0..(Len(containers) - 1)) ELSE {{}}
  /\ kv = [f \in UNION {containers[k] \intersect Sampled :
                          k \in DOMAIN containers} |->
             Max({k \in DOMAIN containers : f \in containers[k]}) - 1]
  /\ open = NoContainer
  /\ ck = [n \in Chunks |-> Fresh]
  /\ lock = "free"
  /\ buffered = [f \in Fps |-> <<>>]
  /\ cache = <<>>
  /\ dedup = "lock" /\ segment = 0 /\ cursor = 1
  /\ dedup_queue = <<>> /\ rewrite_queue = <<>>
  /\ chunk_queue = <<>> /\ inorder = {} /\ draining = <<>> /\ late = 0
  /\ rewrite = "run"
  /\ filter = "pull" /\ s = <<>> /\ place = 1
  /\ recently_unique = Empty /\ recently_rewritten = Empty
  /\ recipe = <<>>
  /\ ahead = [n \in Chunks |-> 0] /\ rewritten = {}

-----------------------------------------------------------------------------
(* The dedup thread: a segment is looked up under index_lock, then sent.   *)

\* segment_fixed: the chunks of segment k.  The last segment is what is left
\* at the end of the stream, possibly nothing.
LastSegment == Len(content) \div SegmentSize
SegmentChunks(k) ==
  LET last == Min({(k + 1) * SegmentSize, Len(content)})
  IN  [i \in 1..(last - k * SegmentSize) |-> k * SegmentSize + i]

\* The indexElems of the index buffer, and how many they are.
indexElems == UNION {{f} \X DOMAIN buffered[f] : f \in Fps}
chunk_num == Cardinality(indexElems)

\* The threshold that dedup_phase.c sets.
wait_threshold == RewriteSize + SegmentSize - 1

\* index_lookup asks for wait_threshold > 0 before it waits for room in the
\* index buffer, and through its own declaration of index_lock it reads a part
\* of the mutex that is always zero: it never waits, nor is it ever woken.
DedupLock ==
  /\ dedup = "lock" /\ lock = "free"
  /\ SegmentChunks(segment) # <<>>
  /\ dedup' = "lookup" /\ lock' = "dedup"
  /\ UNCHANGED <<jobVars, history, ck, buffered, cache, segment, cursor, dedup_queue,
                 rewriteVars, rewrite_queue, filterVars, storeVars, recipe>>

EmptySegment ==
  /\ dedup = "lock"
  /\ SegmentChunks(segment) = <<>>
  /\ dedup' = "send"
  /\ UNCHANGED <<jobVars, history, ck, lock, buffered, cache, segment, cursor,
                 dedup_queue, rewriteVars, rewrite_queue, filterVars,
                 storeVars, recipe>>

InOpen(f) == f \in open.fps
Buffered(f) == buffered[f] # <<>>
Cached(f) == {k \in DOMAIN cache : f \in containers[cache[k] + 1]}

\* Mutant of Prefetched: no victim leaves a full cache.
PrefetchedUnbounded(id) == <<id>> \o cache

\* lru_cache_insert of the container that fingerprint_cache_prefetch reads.
Prefetched(id) ==
  SubSeq(<<id>> \o cache, 1, Min({CacheSize, Len(cache) + 1}))

\* The rest of the loop body of index_lookup_base, and of the loop: the chunk
\* under the cursor gets id, which also goes into the index buffer.
Looked(c) ==
  LET chunks == SegmentChunks(segment)
      n == chunks[cursor]
      more == cursor < Len(chunks)
  IN  /\ dedup = "lookup"
      /\ ck' = [ck EXCEPT ![n] = c]
      /\ buffered' = [buffered EXCEPT ![content[n]] = Append(@, c.id)]
      /\ cursor' = IF more THEN cursor + 1 ELSE 1
      /\ dedup' = IF more THEN "lookup" ELSE "send"
      /\ lock' = IF more THEN "dedup" ELSE "free"
      /\ ahead' = [ahead EXCEPT ![n] = Len(recipe)]
      /\ UNCHANGED <<jobVars, rewritten, segment, dedup_queue, rewriteVars,
                     rewrite_queue, filterVars, storeVars, recipe>>

Duplicate(id) == [Fresh EXCEPT !.id = id, !.dup = TRUE]

LookupChunk ==
  LET f == content[SegmentChunks(segment)[cursor]]
  IN  /\ dedup = "lookup"
      /\ \/ \* in the container that the filter phase fills
            /\ InOpen(f)
            /\ Looked([Duplicate(open.id) EXCEPT !.denied = TRUE])
            /\ UNCHANGED cache
         \/ \* a copy is on its way: its id, or TEMPORARY_ID
            /\ ~InOpen(f) /\ Buffered(f)
            /\ Looked(Duplicate(Head(buffered[f])))
            /\ UNCHANGED cache
         \/ \* fingerprint_cache_lookup moves the container to the front
            /\ ~InOpen(f) /\ ~Buffered(f) /\ Cached(f) # {}
            /\ LET k == Min(Cached(f))
               IN  /\ Looked(Duplicate(cache[k]))
                   /\ cache' = <<cache[k]>> \o RemoveAt(cache, k)
         \/ \* fingerprint_cache_prefetch of the container that kv names
            /\ ~InOpen(f) /\ ~Buffered(f) /\ Cached(f) = {}
            /\ f \in DOMAIN kv
            /\ Looked(Duplicate(kv[f]))
            /\ cache' = Prefetched(kv[f])
         \/ \* not found
            /\ ~InOpen(f) /\ ~Buffered(f) /\ Cached(f) = {}
            /\ f \notin DOMAIN kv
            /\ Looked(Fresh)
            /\ UNCHANGED cache

\* send_segment, one item at a time; then the next segment, or the end.
SendItem ==
  LET items == <<SEGMENT_START>> \o SegmentChunks(segment) \o <<SEGMENT_END>>
  IN  /\ dedup = "send"
      /\ Len(dedup_queue) < QueueSize
      /\ dedup_queue' = Append(dedup_queue, items[cursor])
      /\ IF cursor < Len(items)
         THEN cursor' = cursor + 1 /\ UNCHANGED <<segment, dedup>>
         ELSE /\ cursor' = 1
              /\ segment' = segment + 1
              /\ dedup' = IF segment = LastSegment THEN "done" ELSE "lock"
      /\ UNCHANGED <<jobVars, history, ck, lock, buffered, cache, rewriteVars,
                     rewrite_queue, filterVars, storeVars, recipe>>

Dedup == DedupLock \/ EmptySegment \/ LookupChunk \/ SendItem

-----------------------------------------------------------------------------
(* The rewrite thread: it pops an item, pushes it into the rewrite buffer, *)
(* and drains what has been judged.                                        *)

IsChunk(x) == x > 0
Id(x) == IF IsChunk(x) THEN ck[x].id ELSE TEMPORARY_ID

\* rewrite_buffer.num, and the ids of container_record_seq
Num(q) == Cardinality({k \in DOMAIN q : IsChunk(q[k])})
Records(q) == {Id(q[k]) : k \in DOMAIN q} \ {TEMPORARY_ID}

\* ck after the items of q were popped, those in ooo marked out of order:
\* rewrite_buffer_pop also calls har_check.
HarCheck(c) == IF c.dup /\ c.id \in inherited THEN [c EXCEPT !.sparse = TRUE] ELSE c
Popped(q, ooo) ==
  LET items == ToSet(q)
  IN  [n \in Chunks |->
         IF n \in items
         THEN HarCheck([ck[n] EXCEPT !.ooo = @ \/ n \in ooo])
         ELSE ck[n]]

\* cfl_rewrite: the chunks of q that have a container, if q is too small.
CflMarks(q) ==
  {x \in ToSet(q) : Num(q) < UsageThreshold /\ Id(x) # TEMPORARY_ID}

\* cap_segment_get_top: the containers with the most chunks in q, and of
\* those with as many the older ones.
Share(q, id) == Cardinality({k \in DOMAIN q : IsChunk(q[k]) /\ Id(q[k]) = id})
CapTop(q) ==
  {id \in Records(q) :
     Cardinality({i \in Records(q) :
        \/ Share(q, i) > Share(q, id)
        \/ Share(q, i) = Share(q, id) /\ i < id}) < CappingLevel}
NotInTop(q) == {x \in ToSet(q) : IsChunk(x) /\ Id(x) \notin CapTop(q)}

Drain(q, ooo, rest) ==
  /\ draining' = q
  /\ ck' = Popped(q, ooo)
  /\ chunk_queue' = rest

\* rewrite_buffer_push without a judgement
Keep(q) ==
  /\ chunk_queue' = q
  /\ UNCHANGED <<draining, ck>>

NoRewrite(x) ==
  /\ algo = "no"
  /\ draining' = <<x>>
  /\ UNCHANGED <<chunk_queue, inorder, ck>>

CflRewrite(x) ==
  LET last_id == IF chunk_queue = <<>> THEN TEMPORARY_ID ELSE Id(Last(chunk_queue))
      boundary == \/ last_id # TEMPORARY_ID /\ last_id # Id(x)
                  \/ Num(chunk_queue) >= RewriteSize
  IN  /\ algo = "cfl"
      /\ IF boundary
         THEN Drain(chunk_queue, CflMarks(chunk_queue), <<x>>)
         ELSE Keep(Append(chunk_queue, x))
      /\ UNCHANGED inorder

CapRewrite(x) ==
  LET q == Append(chunk_queue, x)
  IN  /\ algo = "cap"
      /\ IF Num(q) >= RewriteSize
         THEN Drain(q, {n \in NotInTop(q) : ck[n].dup}, <<>>)
         ELSE Keep(q)
      /\ UNCHANGED inorder

\* cbr_rewrite: the oldest chunk is judged when the buffer is full, by a
\* utility threshold that follows the stream: a choice.
CbrRewrite(x) ==
  LET q == Append(chunk_queue, x)
      k == Min({i \in DOMAIN q : IsChunk(q[i])})
      decision == q[k]
      rest == SubSeq(q, k + 1, Len(q))
      Judged(ooo, records) ==
        /\ Drain(SubSeq(q, 1, k), ooo, rest)
        /\ inorder' = records \intersect Records(rest)
  IN  /\ algo = "cbr"
      /\ \/ /\ Num(q) < RewriteSize
            /\ Keep(q) /\ UNCHANGED inorder
         \/ /\ Num(q) >= RewriteSize
            /\ IF Id(decision) = TEMPORARY_ID \/ Id(decision) \in inorder
               THEN Judged({}, inorder)
               ELSE \/ Judged({decision}, inorder)
                    \/ Judged({}, inorder \union {Id(decision)})

RewriteItem ==
  /\ rewrite = "run" /\ draining = <<>> /\ late = 0
  /\ dedup_queue # <<>>
  /\ dedup_queue' = Tail(dedup_queue)
  /\ LET x == Head(dedup_queue)
     IN NoRewrite(x) \/ CflRewrite(x) \/ CapRewrite(x) \/ CbrRewrite(x)
  /\ UNCHANGED <<jobVars, history, lock, buffered, cache, dedupVars, late, rewrite,
                 rewrite_queue, filterVars, storeVars, recipe>>

\* Mutant of RewriteEnd: the rest is not drained.
RewriteEndForgets ==
  /\ rewrite = "run" /\ draining = <<>> /\ late = 0
  /\ dedup_queue = <<>> /\ dedup = "done"
  /\ rewrite' = "end"
  /\ UNCHANGED <<jobVars, history, ck, lock, buffered, cache, dedupVars,
                 dedup_queue, chunk_queue, inorder, draining, late,
                 rewrite_queue, filterVars, storeVars, recipe>>

\* The input has ended: the rest of the rewrite buffer.  Only cap's loop does
\* not ask whether a chunk is a duplicate.
RewriteEnd ==
  /\ rewrite = "run" /\ draining = <<>> /\ late = 0
  /\ dedup_queue = <<>> /\ dedup = "done"
  /\ rewrite' = "end"
  /\ \/ /\ algo \in {"no", "cbr"}
        /\ Drain(chunk_queue, {}, <<>>)
     \/ /\ algo = "cfl"
        /\ Drain(chunk_queue, CflMarks(chunk_queue), <<>>)
     \/ /\ algo = "cap"
        /\ Drain(chunk_queue, NotInTop(chunk_queue), <<>>)
  /\ inorder' = {}
  /\ UNCHANGED <<jobVars, history, lock, buffered, cache, dedupVars, dedup_queue, late,
                 rewrite_queue, filterVars, storeVars, recipe>>

\* What no_rewrite reads next are the flags of the item it has just pushed.
\* Those of a mark matter to no chunk, and the filter thread may even have
\* freed the mark: only chunks are kept in late.
PushDrained ==
  /\ draining # <<>>
  /\ Len(rewrite_queue) < QueueSize
  /\ rewrite_queue' = Append(rewrite_queue, Head(draining))
  /\ draining' = Tail(draining)
  /\ late' = IF algo = "no" /\ HAR /\ IsChunk(Head(draining))
             THEN Head(draining) ELSE 0
  /\ UNCHANGED <<jobVars, history, ck, lock, buffered, cache, dedupVars, dedup_queue,
                 chunk_queue, inorder, rewrite, filterVars, storeVars, recipe>>

\* no_rewrite calls har_check for a chunk that it has already handed on.
LateHarCheck ==
  /\ late # 0
  /\ ck' = [ck EXCEPT ![late] = HarCheck(@)]
  /\ late' = 0
  /\ UNCHANGED <<jobVars, history, lock, buffered, cache, dedupVars, dedup_queue,
                 chunk_queue, inorder, draining, rewrite, rewrite_queue,
                 filterVars, storeVars, recipe>>

Rewrite == RewriteItem \/ RewriteEnd \/ PushDrained \/ LateHarCheck

-----------------------------------------------------------------------------
(* The filter thread: it rebuilds a segment, and decides under index_lock. *)

\* Mutant of CollectItem: a segment ends with its last chunk, the end mark is
\* skipped later.
CollectByCount ==
  /\ filter \in {"pull", "collect"}
  /\ rewrite_queue # <<>>
  /\ rewrite_queue' = Tail(rewrite_queue)
  /\ LET x == Head(rewrite_queue)
     IN  /\ s' = IF IsChunk(x) THEN Append(s, x) ELSE <<>>
         /\ filter' = IF Len(s') = SegmentSize THEN "lock" ELSE "collect"
  /\ UNCHANGED <<jobVars, history, ck, lock, buffered, cache, dedupVars,
                 dedup_queue, rewriteVars, place, recently_unique,
                 recently_rewritten, storeVars, recipe>>

CollectItem ==
  /\ filter \in {"pull", "collect"}
  /\ rewrite_queue # <<>>
  /\ rewrite_queue' = Tail(rewrite_queue)
  /\ LET x == Head(rewrite_queue)
     IN  \/ /\ x = SEGMENT_START /\ filter = "pull"
            /\ filter' = "collect" /\ s' = <<>>
         \/ /\ IsChunk(x) /\ filter = "collect"
            /\ filter' = "collect" /\ s' = Append(s, x)
         \/ /\ x = SEGMENT_END /\ filter = "collect"
            /\ filter' = "lock" /\ s' = s
  /\ UNCHANGED <<jobVars, history, ck, lock, buffered, cache, dedupVars, dedup_queue,
                 rewriteVars, place, recently_unique, recently_rewritten,
                 storeVars, recipe>>

\* Mutants of CheckBuffer: the request is not denied; an older id is taken.
CheckBufferGrants(n) ==
  LET c == ck[n]
      id == Head(buffered[content[n]])
  IN  IF (c.dup \/ c.ooo \/ c.sparse) /\ id > c.id
      THEN [c EXCEPT !.id = id]
      ELSE c
CheckBufferAnyId(n) ==
  LET c == ck[n]
      id == Head(buffered[content[n]])
  IN  IF ((c.dup /\ c.id = TEMPORARY_ID) \/ c.ooo \/ c.sparse) /\ id # c.id
      THEN [c EXCEPT !.id = id, !.denied = @ \/ c.id # TEMPORARY_ID]
      ELSE c

\* index_check_buffer for one chunk: a fragmented chunk that has been
\* rewritten since its lookup is denied; a TEMPORARY_ID is resolved.
CheckBuffer(n) ==
  LET c == ck[n]
      id == Head(buffered[content[n]])
  IN  IF ((c.dup /\ c.id = TEMPORARY_ID) \/ c.ooo \/ c.sparse) /\ id > c.id
      THEN [c EXCEPT !.id = id, !.denied = @ \/ c.id # TEMPORARY_ID]
      ELSE c

FilterLock ==
  /\ filter = "lock" /\ lock = "free"
  /\ lock' = "filter"
  /\ filter' = "decide"
  /\ ck' = [n \in Chunks |-> IF n \in ToSet(s) THEN CheckBuffer(n) ELSE ck[n]]
  /\ place' = 1
  /\ recently_unique' = Empty /\ recently_rewritten' = Empty
  /\ UNCHANGED <<jobVars, history, buffered, cache, dedupVars, dedup_queue,
                 rewriteVars, rewrite_queue, s, storeVars, recipe>>

\* The chunk whose turn it is, after a copy in the same segment was looked up.
\* The assertion that such a copy exists is SelfReferenceResolved.
Resolved(n) ==
  LET f == content[n]
      c == IF ck[n].dup /\ ck[n].id = TEMPORARY_ID
           THEN [ck[n] EXCEPT !.id = recently_unique[f]]
           ELSE ck[n]
  IN  IF f \in DOMAIN recently_rewritten
      THEN [c EXCEPT !.id = recently_rewritten[f], !.denied = TRUE]
      ELSE c

\* A chunk is written if it is unique, or fragmented and not denied.
Writes(c) == ~c.dup \/ (~c.denied /\ (c.sparse \/ c.ooo))

\* The in-cache flag and the cfl switch can only spare an out-of-order chunk.
Spared(c) == RestoreAware /\ c.dup /\ ~c.sparse

Overflow == Cardinality(open.fps) >= Capacity

\* index_update with the sampled features, then write_container_async
Seal ==
  /\ containers' = Append(containers, open.fps)
  /\ kv' = [f \in DOMAIN kv \union (open.fps \intersect Sampled) |->
              IF f \in open.fps THEN open.id ELSE kv[f]]

\* The container that takes the next chunk, and what that leaves of the store.
Target ==
  IF open = NoContainer THEN [id |-> Len(containers), fps |-> {}]
  ELSE IF Overflow THEN [id |-> open.id + 1, fps |-> {}]
  ELSE open

\* g_hash_table_insert of a written chunk into a table of the segment
Entered(table, f, id) ==
  [g \in DOMAIN table \union {f} |-> IF g = f THEN id ELSE table[g]]

WriteChunk(n, c) ==
  LET f == content[n]
  IN  /\ IF open # NoContainer /\ Overflow THEN Seal ELSE UNCHANGED <<containers, kv>>
      /\ open' = [Target EXCEPT !.fps = @ \union {f}]
      /\ ck' = [ck EXCEPT ![n] = [c EXCEPT !.id = Target.id]]
      /\ IF f \in Target.fps
         THEN UNCHANGED <<recently_unique, recently_rewritten, rewritten>>
         ELSE IF c.dup
         THEN /\ recently_rewritten' = Entered(recently_rewritten, f, Target.id)
              /\ rewritten' = rewritten \union {n}
              /\ UNCHANGED recently_unique
         ELSE /\ recently_unique' = Entered(recently_unique, f, Target.id)
              /\ UNCHANGED <<recently_rewritten, rewritten>>

Resolvable(n) ==
  ck[n].dup /\ ck[n].id = TEMPORARY_ID => content[n] \in DOMAIN recently_unique

DecideChunk ==
  /\ filter = "decide" /\ place <= Len(s)
  /\ Resolvable(s[place])
  /\ LET n == s[place]
         c == Resolved(n)
     IN  \/ /\ Writes(c)
            /\ WriteChunk(n, c)
         \/ /\ ~Writes(c) \/ Spared(c)
            /\ ck' = [ck EXCEPT ![n] = c]
            /\ UNCHANGED <<storeVars, recently_unique, recently_rewritten,
                           rewritten>>
  /\ place' = place + 1
  /\ UNCHANGED <<jobVars, ahead, lock, buffered, cache, dedupVars, dedup_queue,
                 rewriteVars, rewrite_queue, filter, s, recipe>>

\* Mutant of UpdateBuffer: later copies are not told the id.
UpdateBufferPops ==
  [f \in Fps |-> LET k == Cardinality({n \in ToSet(s) : content[n] = f})
                 IN  SubSeq(buffered[f], k + 1, Len(buffered[f]))]

\* index_update_buffer: the element of each chunk goes, and the elements of
\* later copies get its id.
UpdateBuffer ==
  [f \in Fps |->
     LET mine == {n \in ToSet(s) : content[n] = f}
         rest == SubSeq(buffered[f], Cardinality(mine) + 1, Len(buffered[f]))
     IN  IF mine = {} THEN buffered[f]
         ELSE [k \in DOMAIN rest |-> ck[Max(mine)].id]]

FinishSegment ==
  /\ filter = "decide" /\ place > Len(s)
  /\ buffered' = UpdateBuffer
  /\ recipe' = recipe \o [k \in DOMAIN s |-> <<content[s[k]], ck[s[k]].id>>]
  /\ lock' = "free"
  /\ filter' = "pull"
  /\ UNCHANGED <<jobVars, history, ck, cache, dedupVars, dedup_queue,
                 rewriteVars, rewrite_queue, s, place, recently_unique,
                 recently_rewritten, storeVars>>

\* The rewrite queue has ended: the last container.
FilterEnd ==
  /\ filter = "pull"
  /\ rewrite_queue = <<>>
  /\ rewrite = "end" /\ draining = <<>> /\ late = 0
  /\ filter' = "done"
  /\ IF open = NoContainer THEN UNCHANGED <<containers, kv>> ELSE Seal
  /\ open' = NoContainer
  /\ UNCHANGED <<jobVars, history, ck, lock, buffered, cache, dedupVars, dedup_queue,
                 rewriteVars, rewrite_queue, s, place, recently_unique,
                 recently_rewritten, recipe>>

Filter ==
  CollectItem \/ FilterLock \/ DecideChunk \/ FinishSegment \/ FilterEnd

Over == filter = "done" /\ UNCHANGED vars

Next == Dedup \/ Rewrite \/ Filter \/ Over

Spec == Init /\ [][Next]_vars

\* The three threads run on while they can.
FairSpec == Spec /\ WF_vars(Dedup) /\ WF_vars(Rewrite) /\ WF_vars(Filter)

-----------------------------------------------------------------------------
Ids == TEMPORARY_ID..Len(containers)
Items == {SEGMENT_START, SEGMENT_END} \union Chunks

TypeOK ==
  /\ content \in Seq(Fps) /\ algo \in Algorithms
  /\ ck \in [Chunks -> [id : Ids, dup : BOOLEAN, denied : BOOLEAN,
                        ooo : BOOLEAN, sparse : BOOLEAN]]
  /\ lock \in {"free", "dedup", "filter"}
  /\ buffered \in [Fps -> Seq(Ids)]
  /\ kv \in [DOMAIN kv -> Ids] /\ DOMAIN kv \subseteq Fps
  /\ cache \in Seq(Ids) /\ Len(cache) <= CacheSize
  /\ dedup \in {"lock", "lookup", "send", "done"}
  /\ segment \in Nat /\ cursor \in Nat
  /\ dedup_queue \in Seq(Items) /\ Len(dedup_queue) <= QueueSize
  /\ chunk_queue \in Seq(Items) /\ draining \in Seq(Items)
  /\ late \in Chunks \union {0} /\ rewrite \in {"run", "end"}
  /\ rewrite_queue \in Seq(Items) /\ Len(rewrite_queue) <= QueueSize
  /\ filter \in {"pull", "collect", "lock", "decide", "done"}
  /\ s \in Seq(Chunks) /\ place \in Nat
  /\ recently_unique \in [DOMAIN recently_unique -> Ids]
  /\ recently_rewritten \in [DOMAIN recently_rewritten -> Ids]
  /\ containers \in Seq(SUBSET Fps) /\ open \in [id : Ids, fps : SUBSET Fps]
  /\ recipe \in Seq(Fps \X Ids)

Holds(id, f) ==
  \/ id + 1 \in DOMAIN containers /\ f \in containers[id + 1]
  \/ id = open.id /\ f \in open.fps

\* Every chunk pointer of the recipe names a container that holds its chunk,
\* and so does every id that a chunk, the index buffer or the key-value store
\* gives to a fingerprint, whatever was rewritten in between.
RecipeResolvable ==
  /\ \A k \in DOMAIN recipe : Holds(recipe[k][2], recipe[k][1])
  /\ \A n \in Chunks : ck[n].id # TEMPORARY_ID => Holds(ck[n].id, content[n])
  /\ \A f \in Fps : \A id \in ToSet(buffered[f]) \ {TEMPORARY_ID} : Holds(id, f)
  /\ \A f \in DOMAIN kv : Holds(kv[f], f)

\* The recipe lists the chunks of the backup in their order, none lost and
\* none twice, although the algorithms hold them back and drain them.
RecipeInOrder ==
  \A k \in DOMAIN recipe : k \in Chunks /\ recipe[k][1] = content[k]

\* The assertions of filter_phase.c:112 and index.c:397: a duplicate that was
\* found while its first copy was still on its way (id TEMPORARY_ID) finds the
\* copy's container in the index buffer or in its own segment.
SelfReferenceResolved ==
  filter = "decide" =>
    /\ \A k \in DOMAIN s : k >= place => buffered[content[s[k]]] # <<>>
    /\ place <= Len(s) => Resolvable(s[place])

\* The recipe can be restored to the backup, and every decision that is still
\* to be made finds what it needs to go on writing such a recipe.
RecipeFaithful == RecipeResolvable /\ RecipeInOrder /\ SelfReferenceResolved

\* "none of stored chunks are duplicate" (destor.h:79): without rewriting, the
\* exact index lets no chunk be stored twice.
StoredOnce ==
  Sampled = Fps /\ algo = "no" /\ inherited = {} =>
    \A f \in Fps : Cardinality({id \in Ids : Holds(id, f)}) <= 1

\* "If we find an early copy of the chunk in this segment has been rewritten,
\* the rewrite request for it will be denied" (filter_phase.c:59): a chunk that
\* is about to be written has no entry in the tables of the segment, whose
\* keys a second insertion would leave dangling.
NoRepeatInSegment ==
  filter = "decide" /\ place <= Len(s) =>
    LET c == Resolved(s[place])
        f == content[s[place]]
    IN  Writes(c) /\ f \notin Target.fps =>
          /\ c.dup => f \notin DOMAIN recently_rewritten
          /\ ~c.dup => f \notin DOMAIN recently_unique

\* "If we find an early copy of the chunk in earlier segments, has been
\* rewritten, the rewrite request for it will be denied" (filter_phase.c:73):
\* of the copies that were looked up before the first of them was rewritten,
\* none is rewritten again.
NoRepeatRewrite ==
  \A m, n \in rewritten :
    m < n /\ content[m] = content[n] => m <= ahead[n]

\* Without a rewriting algorithm the sentence holds, of chunks in the sparse
\* containers inherited from the last backup.
SparseRewrittenOnce == algo = "no" => NoRepeatRewrite

\* What is written is written for a reason: a first copy once, a marked copy
\* once in its segment, and no later copy that could have been denied.
NoDoubleStore == StoredOnce /\ NoRepeatInSegment /\ SparseRewrittenOnce

\* no_rewrite marks a chunk that is already in the rewrite queue, without
\* index_lock.  Yet the filter phase never decides about a chunk that is still
\* to be marked: the end of its segment is behind it in the queue.
MarkedBeforeDecision ==
  filter \in {"lock", "decide"} => late \notin ToSet(s)

\* A chunk that has a container is never redirected to an older one.
NeverOlderCopy ==
  [][\A n \in Chunks : ck[n].id <= ck'[n].id]_ck

\* The backup comes to its end, with every chunk in the recipe.
BackupCompletes == <>(filter = "done" /\ Len(recipe) = Len(content))

\* The bound that the threshold stands for: the index buffer never holds as
\* much as wait_threshold and one more segment.
BufferBounded == chunk_num < wait_threshold + SegmentSize
=============================================================================
