------------------------------ MODULE Restore ------------------------------
(***************************************************************************)
(* A restore job: do_restore.c with its three caching schemes, the LRU     *)
(* cache ("lru"), forward assembly ("asm", assembly_restore.c) and         *)
(* Belady's cache over the access records of the recipe ("opt",            *)
(* optimal_restore.c).  Three threads: read_recipe_thread feeds            *)
(* restore_recipe_queue, the restore thread turns chunk pointers into      *)
(* chunks, and write_restore_data empties restore_chunk_queue.             *)
(*                                                                         *)
(* The recipe is what append_segment_flag, append_n_chunk_pointers and     *)
(* update_backup_version have left.  A chunk is its fingerprint; sizes     *)
(* count chunks.  The queues are the channels that SyncQueue is shown to   *)
(* be.  Modelled at simulation level NO, which alone writes files.         *)
(***************************************************************************)
EXTENDS Integers, Sequences, SequencesExt, FiniteSetsExt

CONSTANTS
  Containers,  \* the fingerprints in each container, a function of its id
  Recipes,     \* bound: the backups, sequences of files of chunk pointers
  Schemes,     \* restore_cache[0]: some of "lru", "asm", "opt"
  CacheSize,   \* restore_cache[1], in containers
  AreaSize,    \* (restore_cache[1] - 1) * CONTAINER_SIZE, in chunks
  WindowSize,  \* restore_opt_window_size, in access records
  SegmentSize, \* chunks in a segment of the recipe
  QueueSize    \* the size of both queues (100)

ASSUME RestoreAssumption ==
  /\ Schemes \subseteq {"lru", "asm", "opt"}
  /\ {CacheSize, WindowSize, SegmentSize, QueueSize} \subseteq Nat \ {0}
  /\ AreaSize \in Nat /\ DOMAIN Containers \subseteq Nat
  /\ \A r \in Recipes :
       /\ r \in Seq(Seq([fp : UNION {Containers[c] : c \in DOMAIN Containers},
                        id : DOMAIN Containers]))
       /\ \A f \in DOMAIN r : \A i \in DOMAIN r[f] :
            r[f][i].fp \in Containers[r[f][i].id]

TEMPORARY_ID == -1
CHUNK_SEGMENT_START == -4    \* 0 - flag, so that no container has that id
CHUNK_SEGMENT_END == -8
NoFp == {}                   \* the fingerprint of a mark

VARIABLES
  files,     \* the file recipes of the version
  recipe,    \* the version's recipe file: chunk pointers and segment flags
  records,   \* its records file: the containers in the order of access
  scheme,    \* restore_cache[0]
  file, item, offset, \* read_recipe_thread: its place in files and recipe
  queue,     \* restore_recipe_queue
  ended,     \* its term
  cache,     \* the cached containers, most recent first
  area,      \* assembly_area.area
  table,     \* opt: access_record_table, a queue of numbers for each id
  window,    \* opt: [read, end, num, no]: records read, end of them seen,
             \* buffered_access_record_num, current_sequence_number
  sorted,    \* opt: sorted_records_of_cached_containers
  last_id,   \* opt: the last container asked for
  reads,     \* jcr.read_container_num
  issued,    \* chunks the restore thread has yet to push
  out,       \* restore_chunk_queue
  closed,    \* its term
  fp,        \* write_restore_data: is a file open?
  written,   \* what it has written
  status     \* jcr.status: "running" or "done"

source == <<files, recipe, records, scheme>>
reader == <<file, item, offset>>
opt == <<table, window, sorted, last_id>>
writer == <<fp, written, status>>
vars == <<source, reader, queue, ended, cache, area, opt, reads, issued, out,
          closed, writer>>

Start(f) == [kind |-> "start", fp |-> NoFp, id |-> f]
End == [kind |-> "end", fp |-> NoFp, id |-> TEMPORARY_ID]
Chunk(p) == [kind |-> "chunk", fp |-> p.fp, id |-> p.id]
IsMark(c) == c.kind \in {"start", "end"}

-----------------------------------------------------------------------------
(* What a backup has written (recipestore.c).                              *)

\* Every segment lies between two flags.
Flagged(pointers) ==
  LET flag(id) == <<[fp |-> NoFp, id |-> id]>>
      Segment(s) == flag(CHUNK_SEGMENT_START)
        \o SubSeq(pointers, (s - 1) * SegmentSize + 1, Min({s * SegmentSize, Len(pointers)}))
        \o flag(CHUNK_SEGMENT_END)
  IN FlattenSeq([s \in 1 .. (Len(pointers) + SegmentSize - 1) \div SegmentSize |-> Segment(s)])

\* The numbers of a set in ascending order.  (SetToSortSeq would do, but nothing
\* can be proved of TLC's SortSeq.)
Ascending(S) ==
  [k \in 1 .. Cardinality(S) |->
     CHOOSE n \in S : Cardinality({m \in S : m < n}) = k - 1]

\* (mutant) The record of the last container is not written at the end.
AccessRecordsCut(pointers) ==
  LET order == Ascending({i \in 1 .. Len(pointers) - 1 : pointers[i].id # pointers[i + 1].id})
  IN Append([k \in DOMAIN order |-> pointers[order[k]].id], TEMPORARY_ID)

\* A record is written when the next chunk is in another container, one for
\* the last container, and one to mark the end.
AccessRecords(pointers) ==
  LET Changes == {i \in DOMAIN pointers :
                    i = Len(pointers) \/ pointers[i].id # pointers[i + 1].id}
      order == Ascending(Changes)
  IN Append([k \in DOMAIN order |-> pointers[order[k]].id], TEMPORARY_ID)

-----------------------------------------------------------------------------
(* LRU caches (lru_cache.c): sequences, the most recent first.             *)

InFront(c, k) == <<c[k]>> \o RemoveAt(c, k)

\* The place of the first of the containers ids, 0 if there is none.
Hits(c, ids) == SelectInSeq(c, LAMBDA id : id \in ids)

\* The containers that hold the chunk.
Holders(c) == {id \in DOMAIN Containers : c.fp \in Containers[id]}

\* (mutant) The test of the size misses the full cache.
InsertedLate(c, id, size) == <<id>> \o (IF size > 0 /\ Len(c) > size THEN Front(c) ELSE c)

Inserted(c, id, size) ==
  <<id>> \o (IF size > 0 /\ Len(c) = size THEN Front(c) ELSE c)

-----------------------------------------------------------------------------
(* The window of access records of the optimal scheme.                     *)

\* [read, end, num, no], see the variable window.
EmptyWindow == [read |-> 0, end |-> FALSE, num |-> 0, no |-> 0]
EmptyTable == [id \in {} |-> <<>>]

\* optimal_cache_window_fill: as many records as fit, the end mark included.
Filled(w) ==
  IF w.end THEN w
  ELSE LET k == Min({WindowSize - w.num, Len(records) - w.read})
       IN [read |-> w.read + k, end |-> records[w.read + k] = TEMPORARY_ID,
           num |-> w.num + k, no |-> w.no + k]

TableFilled(t, w) ==
  LET new == w.read + 1 .. Filled(w).read
      Numbers(id) == Ascending({w.no + i - w.read - 1 : i \in {j \in new : records[j] = id}})
      Queue(id) == IF id \in DOMAIN t THEN t[id] ELSE <<>>
  IN [id \in DOMAIN t \cup {records[i] : i \in new} |-> Queue(id) \o Numbers(id)]

-----------------------------------------------------------------------------
Init ==
  /\ files \in Recipes /\ scheme \in Schemes
  /\ recipe = Flagged(FlattenSeq(files))
  /\ records = AccessRecords(FlattenSeq(files))
  /\ file = 1 /\ item = 0 /\ offset = 0
  /\ queue = <<>> /\ ended = FALSE /\ out = <<>> /\ closed = FALSE
  /\ cache = <<>> /\ area = <<>> /\ reads = 0 /\ issued = <<>>
  /\ IF scheme = "opt"      \* init_optimal_cache fills the window
       THEN window = Filled(EmptyWindow) /\ table = TableFilled(EmptyTable, EmptyWindow)
       ELSE window = EmptyWindow /\ table = EmptyTable
  /\ sorted = {} /\ last_id = TEMPORARY_ID
  /\ fp = FALSE /\ written = <<>> /\ status = "running"

-----------------------------------------------------------------------------
(* read_recipe_thread: for each file its start, its chunks and its end.    *)

Push(c) ==
  /\ Len(queue) < QueueSize
  /\ queue' = Append(queue, c)
  /\ UNCHANGED <<source, ended, cache, area, opt, reads, issued, out, closed, writer>>

StartFile ==
  /\ file <= Len(files) /\ item = 0
  /\ Push(Start(file))
  /\ item' = 1 /\ UNCHANGED <<file, offset>>

\* read_next_n_chunk_pointers(1): the next pointer behind any segment flags.
NextPointer == Min({i \in offset + 1 .. Len(recipe) :
                      recipe[i].id \notin {CHUNK_SEGMENT_START, CHUNK_SEGMENT_END}})

ReadPointer ==
  /\ file <= Len(files) /\ item \in 1 .. Len(files[file])
  /\ Push(Chunk(recipe[NextPointer]))
  /\ item' = item + 1 /\ offset' = NextPointer /\ UNCHANGED file

EndFile ==
  /\ file <= Len(files) /\ item = Len(files[file]) + 1
  /\ Push(End)
  /\ file' = file + 1 /\ item' = 0 /\ UNCHANGED offset

TermRecipe ==
  /\ file > Len(files) /\ ~ended
  /\ ended' = TRUE
  /\ UNCHANGED <<source, reader, queue, cache, area, opt, reads, issued, out,
                 closed, writer>>

-----------------------------------------------------------------------------
(* The restore thread.                                                     *)

\* The chunk with its data, retrieved from container id: get_chunk_in_container
\* has nothing to return if the fingerprint is not there.
Retrieved(c, id) ==
  [c EXCEPT !.kind = "ready", !.fp = IF c.fp \in Containers[id] THEN c.fp ELSE NoFp]

\* Pops an item; what comes out of it is pushed before the next is popped.
Pop(s) ==
  /\ scheme = s /\ issued = <<>> /\ queue # <<>>
  /\ queue' = Tail(queue)
  /\ UNCHANGED <<source, reader, ended, out, closed, writer>>

LruRestore ==
  LET c == Head(queue)
      k == Hits(cache, Holders(c))
  IN /\ Pop("lru")
     /\ IF IsMark(c)
          THEN issued' = <<c>> /\ UNCHANGED <<cache, reads>>
          ELSE /\ cache' = IF k > 0 THEN InFront(cache, k)
                                    ELSE Inserted(cache, c.id, CacheSize)
               /\ reads' = IF k > 0 THEN reads ELSE reads + 1
               /\ issued' = <<Retrieved(c, Head(cache'))>>
     /\ UNCHANGED <<area, opt>>

\* (mutant) Up to the last chunk that is ready.
IssuableThrough(a) == Max({0} \cup {n \in DOMAIN a : IsMark(a[n]) \/ a[n].kind = "ready"})

\* How many items at the head of a can be issued: marks and ready chunks.
Issuable(a) ==
  Max({n \in 0 .. Len(a) : \A i \in 1 .. n : IsMark(a[i]) \/ a[i].kind = "ready"})

\* Marks at the head are issued; then the container of the first chunk is read,
\* all chunks of the area that are in it are assembled, and what has become
\* ready at the head is issued, too.
Assembled(a) ==
  IF \A i \in DOMAIN a : IsMark(a[i]) THEN a
  ELSE LET first == Min({i \in DOMAIN a : ~IsMark(a[i])})
       IN [i \in DOMAIN a |-> IF ~IsMark(a[i]) /\ a[i].id = a[first].id
                                THEN Retrieved(a[i], a[first].id) ELSE a[i]]

AreaLoad(a) == Cardinality({i \in DOMAIN a : ~IsMark(a[i])})

AssembleArea(a) ==
  LET ready == Assembled(a)
      n == Issuable(ready)
  IN /\ issued' = SubSeq(ready, 1, n)
     /\ area' = SubSeq(ready, n + 1, Len(ready))
     /\ reads' = reads + (IF AreaLoad(a) = 0 THEN 0 ELSE 1)

\* A chunk that fills the area has it assembled; a mark only waits in it.
AssemblyPush ==
  LET c == Head(queue)
      a == Append(area, c)
  IN /\ Pop("asm")
     /\ IF ~IsMark(c) /\ AreaLoad(a) >= AreaSize
          THEN AssembleArea(a)
          ELSE area' = a /\ UNCHANGED <<issued, reads>>
     /\ UNCHANGED <<cache, opt>>

\* (mutant) Marks that no chunk follows are forgotten.
AssembleRestOfChunks ==
  /\ scheme = "asm" /\ issued = <<>> /\ queue = <<>> /\ ended /\ AreaLoad(area) > 0
  /\ AssembleArea(area)
  /\ UNCHANGED <<source, reader, queue, ended, cache, opt, out, closed, writer>>

\* At the end of the recipe, until the area is empty.
AssembleRest ==
  /\ scheme = "asm" /\ issued = <<>> /\ queue = <<>> /\ ended /\ area # <<>>
  /\ AssembleArea(area)
  /\ UNCHANGED <<source, reader, queue, ended, cache, opt, out, closed, writer>>

\* The first number of the queue is that of the next access of the container.
NextAccess(t, id) == IF t[id] = <<>> THEN Len(records) ELSE Head(t[id])

\* (mutant) The sequence is sorted in descending order.
CandidatesNearest(t) ==
  {{CHOOSE id \in sorted : \A o \in sorted : NextAccess(t, id) <= NextAccess(t, o)}}

\* The containers that may go: the last of the sorted ones and, as far as
\* they are not asked for in the window, up to ten before it.
Candidates(t) ==
  LET unused == {id \in sorted : t[id] = <<>>}
  IN IF unused # {} THEN {s \in SUBSET unused : Cardinality(s) = Min({11, Cardinality(unused)})}
     ELSE {{CHOOSE id \in sorted : \A o \in sorted : NextAccess(t, o) <= NextAccess(t, id)}}

\* optimal_cache_hits and optimal_cache_insert.  A new run of chunks of one
\* container consumes a record.  If the cache is full the least recently used
\* of the candidates goes, with its record if that has no number left.
OptRestore ==
  LET c == Head(queue)
      slides == c.id # last_id
      fills == slides /\ window.num * 2 <= WindowSize
      w == IF fills THEN Filled(window) ELSE window
      full == IF fills THEN TableFilled(table, window) ELSE table
      t == IF slides /\ full[c.id] # <<>> THEN [full EXCEPT ![c.id] = Tail(@)] ELSE full
      k == Hits(cache, {c.id})
  IN /\ Pop("opt")
     /\ IF IsMark(c)
          THEN issued' = <<c>> /\ UNCHANGED <<cache, opt, reads>>
          ELSE /\ c.id \in DOMAIN full              \* assert(r)
               /\ window' = IF slides THEN [w EXCEPT !.num = @ - 1] ELSE w
               /\ last_id' = c.id
               /\ IF k > 0
                    THEN cache' = InFront(cache, k) /\ table' = t /\ UNCHANGED <<sorted, reads>>
                    ELSE /\ reads' = reads + 1
                         /\ IF Len(cache) < CacheSize
                              THEN cache' = <<c.id>> \o cache /\ sorted' = sorted \cup {c.id}
                                   /\ table' = t
                              ELSE \E ht \in Candidates(t) :
                                     LET v == Max({i \in DOMAIN cache : cache[i] \in ht})
                                     IN /\ cache' = <<c.id>> \o RemoveAt(cache, v)
                                        /\ sorted' = (sorted \ {cache[v]}) \cup {c.id}
                                        /\ table' = [id \in DOMAIN t \ {i \in {cache[v]} : t[i] = <<>>}
                                                       |-> t[id]]
               /\ issued' = <<Retrieved(c, Head(cache'))>>
     /\ UNCHANGED area

PushChunk ==
  /\ issued # <<>> /\ Len(out) < QueueSize
  /\ out' = Append(out, Head(issued)) /\ issued' = Tail(issued)
  /\ UNCHANGED <<source, reader, queue, ended, cache, area, opt, reads, closed, writer>>

TermChunks ==
  /\ ended /\ queue = <<>> /\ issued = <<>> /\ area = <<>> /\ ~closed
  /\ closed' = TRUE
  /\ UNCHANGED <<source, reader, queue, ended, cache, area, opt, reads, issued, out,
                 writer>>

-----------------------------------------------------------------------------
(* write_restore_data.                                                     *)

WriteItem ==
  LET c == Head(out)
  IN /\ out # <<>> /\ status = "running"
     /\ out' = Tail(out)
     /\ CASE c.kind = "start" -> ~fp /\ fp' = TRUE   \* assert(fp == NULL)
          [] c.kind = "end" -> fp' = FALSE
          [] OTHER -> fp /\ UNCHANGED fp              \* fwrite
     /\ written' = Append(written, [kind |-> IF IsMark(c) THEN c.kind ELSE "chunk",
                                    of |-> CASE IsMark(c) -> {c.id}
                                             [] c.kind = "ready" -> c.fp
                                             [] OTHER -> NoFp])
     /\ UNCHANGED <<source, reader, queue, ended, cache, area, opt, reads, issued,
                    closed, status>>

WriteEnd ==
  /\ closed /\ out = <<>> /\ status = "running"
  /\ status' = "done"
  /\ UNCHANGED <<source, reader, queue, ended, cache, area, opt, reads, issued, out,
                 closed, fp, written>>

\* do_restore returns when jcr.status is done.
Done == status = "done" /\ UNCHANGED vars

ReadRecipe == StartFile \/ ReadPointer \/ EndFile \/ TermRecipe
RestoreChunks == LruRestore \/ AssemblyPush \/ AssembleRest \/ OptRestore
                 \/ PushChunk \/ TermChunks
WriteData == WriteItem \/ WriteEnd

Next == ReadRecipe \/ RestoreChunks \/ WriteData \/ Done

Spec == Init /\ [][Next]_vars
FairSpec == Spec /\ WF_vars(ReadRecipe) /\ WF_vars(RestoreChunks) /\ WF_vars(WriteData)

-----------------------------------------------------------------------------
(* The restore cache that a backup simulates (restore_aware.c).            *)

init_restore_aware == [cache |-> <<>>, ccf |-> 0]

\* (mutant) A hit does not bring the container to the front.
restore_aware_updateFifo(monitor, id) ==
  IF Contains(monitor.cache, id) THEN monitor
  ELSE [cache |-> Inserted(monitor.cache, id, CacheSize), ccf |-> monitor.ccf + 1]

restore_aware_update(monitor, id) ==
  LET k == Hits(monitor.cache, {id})
  IN IF k > 0 THEN [monitor EXCEPT !.cache = InFront(@, k)]
              ELSE [cache |-> Inserted(monitor.cache, id, CacheSize),
                    ccf |-> monitor.ccf + 1]

\* The monitor after the chunks of the backup, in their order.
Monitor(pointers) ==
  LET after[n \in 0 .. Len(pointers)] ==
        IF n = 0 THEN init_restore_aware
                 ELSE restore_aware_update(after[n - 1], pointers[n].id)
  IN after[Len(pointers)]

-----------------------------------------------------------------------------
(* Properties.                                                             *)

Items(r) ==
  LET Played(kind, of) == <<[kind |-> kind, of |-> of]>>
      File(f) == Played("start", {f})
                 \o [i \in DOMAIN r[f] |-> [kind |-> "chunk", of |-> r[f][i].fp]]
                 \o Played("end", {TEMPORARY_ID})
  IN FlattenSeq([f \in DOMAIN r |-> File(f)])

\* The restore plays the files of the backup, each between its start and its
\* end, every chunk from a container that holds it, in order, and nothing twice,
\* whichever of the three schemes reads the containers.
Player == INSTANCE Playback WITH Streams <- {Items(r) : r \in Recipes},
                                 stream <- Items(files),
                                 played <- written,
                                 finished <- status = "done"
IsPlayback == Player!PSpec

Item(kinds, ids) == [kind : kinds, fp : {NoFp} \cup UNION {Containers[i] : i \in DOMAIN Containers},
                     id : ids]
Ids == DOMAIN Containers \cup {TEMPORARY_ID}

\* Type invariant.
TypeOK ==
  /\ scheme \in Schemes
  /\ file \in 1 .. Len(files) + 1 /\ item \in Nat /\ offset \in 0 .. Len(recipe)
  /\ Len(queue) <= QueueSize /\ Len(out) <= QueueSize
  /\ \A s \in {queue, out, area, issued} :
       s \in Seq(Item({"start", "chunk", "ready", "end"}, Ids \cup DOMAIN files))
  /\ cache \in Seq(DOMAIN Containers) /\ IsInjective(cache) /\ Len(cache) <= CacheSize
  /\ DOMAIN table \subseteq Ids /\ \A id \in DOMAIN table : table[id] \in Seq(Nat)
  /\ window \in [read : Nat, end : BOOLEAN, num : 0 .. WindowSize, no : Nat]
  /\ sorted \subseteq DOMAIN Containers /\ last_id \in Ids
  /\ {ended, closed, fp} \subseteq BOOLEAN /\ reads \in Nat
  /\ status \in {"running", "done"}

\* The records that optimal_restore.c has read and not consumed.
Consumed == window.no - window.num
Outstanding == Consumed + 1 .. window.read

\* The access records of the optimal scheme stay aligned with the recipe: the
\* next run of chunks belongs to the container of the next record, the table holds
\* exactly the outstanding records of each container, in order, and the sorted
\* records are those of the cached containers (else a freed record is compared).
RecordsAligned ==
  scheme = "opt" =>
    /\ \A id \in DOMAIN table :
         table[id] = Ascending({i - 1 : i \in {j \in Outstanding : records[j] = id}})
    /\ \A n \in DOMAIN queue :
         (~IsMark(queue[n]) /\ queue[n].id # last_id
            /\ \A m \in 1 .. n - 1 : IsMark(queue[m]) \/ queue[m].id = last_id)
           => records[Consumed + 1] = queue[n].id
    /\ sorted = ToSet(cache) /\ sorted \subseteq DOMAIN table

\* The next access of a container, as far as the window shows it.
NextUse(id) == Min({i \in Outstanding : records[i] = id} \cup {Len(records) + 1})

\* The optimal scheme gives up a container only if none that it keeps is asked
\* for later, in the window of records at that moment (Belady's rule).
EvictsFurthest ==
  [][scheme = "opt" =>
       \A v \in ToSet(cache) \ ToSet(cache') : \A kept \in ToSet(cache) \cap ToSet(cache') :
         NextUse(v)' >= NextUse(kept)']_vars

\* "Maintain a LRU cache internally to simulate recovery process when backing-up"
\* (restore_aware.c): an LRU restore reads as many containers as the monitor has
\* counted, provided that no fingerprint is in two of the containers it reads.
SimulationAgrees ==
  LET pointers == FlattenSeq(files)
      ids == {pointers[i].id : i \in DOMAIN pointers}
  IN /\ scheme = "lru" /\ status = "done"
     /\ \A i, j \in ids : i # j => Containers[i] \cap Containers[j] = {}
     => reads = Monitor(pointers).ccf

\* Every restore comes to its end, of which do_restore waits.
RestoreCompletes == <>(status = "done")
=============================================================================
