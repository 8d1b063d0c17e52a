# destor: models, checks and proofs

destor (`src/destor-master`) is a chunk-level deduplication system: a backup stream is cut into
chunks, each chunk is looked up in a fingerprint index, and the chunks that are new, or worth
writing again to keep restores fast ("rewriting"), are packed into containers. A recipe records
for every chunk the container that holds it. This directory models the program in TLA+, checks
the models with TLC and proves the main facts about them with TLAPS.

Paths of source files below are relative to `src/destor-master/src/`.

## 1. Inventory

### Threads of a backup

`do_backup.c` opens the stores, starts one thread per phase and joins them in order:

    read -> chunk -> hash -> dedup -> rewrite -> filter -> (container_buffer) -> append_thread
         (or one trace phase)

Each arrow is a `SyncQueue`: the writer pushes pointers to chunks and calls `sync_queue_term`
after its last one; the reader pops until it gets NULL. Two further channels bypass the queues:

* `index_lock` protects the index, the index buffer and the open container, which the dedup
  phase (lookup) and the filter phase (decision, update) share;
* the dedup phase reads the metadata of containers that may still be in `container_buffer`,
  while `append_thread` writes them to the file.

### Components

| component | state | operations | correct when |
|---|---|---|---|
| synchronised queue (`utils/sync_queue.c`, `utils/queue.c`) | items, `term`, who sleeps on which condition | push, pop, get_top, find, term | first in first out, bounded, nothing lost or doubled, NULL only at the end, no thread sleeps with work to do |
| container store (`storage/containerstore.c`) | `container_count`, `container_buffer`, the file, its header | create, add a chunk, write (queued), retrieve, open, close | a container the index names can always be read; written containers are never overwritten; the header's count is that of the file |
| dedup phase (`dedup_phase.c`) | the segment being built | look a segment up under `index_lock`, send (waiting for the index buffer is written but never happens, finding 1) | every segment passes; the index buffer is bounded |
| fingerprint index, physical locality (`index/index.c`, `index/fingerprint_cache.c`, `utils/lru_cache.c`, `index/kvstore_htable.c`) | index buffer, LRU cache of container metadata, key-value table | lookup, prefetch, check buffer, update buffer, update table | an id given to a chunk names a container that holds it; exact deduplication stores nothing twice |
| rewrite phase (`rewrite_phase.c`, `cfl_rewrite.c`, `cap_rewrite.c`, `cbr_rewrite.c`, `har_rewrite.c`) | the rewrite buffer and its container records | push, judge, drain | order kept, nothing lost; marks are there before they are read |
| filter phase (`filter_phase.c`) | the segment, what was unique or rewritten in it, the open container | decide, write, seal a container, write the recipe | the recipe is complete, in order and resolvable; no repeated rewriting |
| logical-locality index (`index/similarity_detection.c`) | segment recipes in the cache, features | choose similar segments, prefetch them | as above, with segments for containers |
| read, chunk, hash phases (`read_phase.c`, `chunk_phase.c`, `hash_phase.c`) | place in the files, buffer of the chunk phase | read a block, cut a chunk, hash it | the chunks are the files, in order; sizes within limits |
| chunking (`chunking/*.c`) | - | Rabin, normalised Rabin, TTTD, AE, fixed, whole files | a boundary depends on the content, not on when the bytes arrived |
| trace (`trace_phase.c`) | the trace file | write and read back a hashed stream | the backup of a trace sees the stream it was made of |
| segmenting, sampling (`index/segmenting_method.c`, `index/sampling_method.c`) | the segment under construction | boundary and feature selection | every chunk in exactly one segment; sizes within limits; a segment has a feature that depends on its content |
| restore-aware rewriting (`restore_aware.c`) | a simulated restore cache | update, contains, speed factor | agrees with the restore that it simulates |
| recipe store (`recipe/recipestore.c`) | versions, three files per version | append, read, prefetch a segment, open, close | what is read is what was appended; segment ids decode to what was encoded |
| reference time map and collector (`gc/gc_rtm.c`, `gc/gc.c`) | per chunk, the last version that refers to it; two bits per container and version | set bits, fold a version's bits into tables, update times | a chunk is garbage only if no kept version refers to it |
| container-marker algorithm, deletion (`cma.c`, `do_delete.c`) | manifest: container -> last version | update, truncate, delete table entries | a reclaimed container is referred to by no version left |
| restore (`do_restore.c`, `assembly_restore.c`, `optimal_restore.c`) | cache, or assembly area, or precomputed accesses | three schemes | the chunks come out in the order of the recipe, each once |
| jobs (`do_backup.c`, `jcr.c`, `destor.c`) | status, version | start, join, open, close | every job ends; the next one starts from what it left |
| configuration, FSL trace reader, sds, serialisation, Bloom filter | - | - | helpers, not modelled |

### Hard behaviours

* *interleaving*: dedup, rewrite and filter run concurrently, and what dedup found is stale by
  the time filter uses it (a copy may have been stored or rewritten in between); a container
  moves from the open buffer to the queue to the file while it is looked up;
* *deadlock*: filter blocks on `container_buffer` while it holds `index_lock`, which dedup needs;
* *ordering*: pushes and broadcasts, `term` against the last item, marks against hand-over;
* *life cycle*: counts, tables and maps are read at the start of a job and written at its end;
  deletion must be oldest first; the program itself excludes crash consistency and concurrent
  jobs (`README.md` of destor);
* *numeric edges*: packed segment ids, 16-bit times, the size of the bit table.

`PROJECT.json` lists them as hazards, each with its line and the properties that watch it.

## 2. Modules

| module | models | composed from |
|---|---|---|
| `Channel` | what the phases expect of a queue: a bounded, closable FIFO channel (abstract) | |
| `SyncQueue` | `utils/sync_queue.c` over `utils/queue.c` | refines `Channel` |
| `SyncQueueProofs` | its theorems | extends `SyncQueue` |
| `ContainerStore` | filter, dedup and append threads around `storage/containerstore.c`, over several jobs | uses the channel for `container_buffer` |
| `DedupPipeline` | dedup, rewrite and filter threads and the index | uses the channel for its queues and, for the store, what `ContainerStore` is shown to guarantee |
| `ContainerStoreProofs` | its theorems | extends `ContainerStore` |
| `DedupPipelineProofs` | its theorems | extends `DedupPipeline`, `SequenceFacts` |
| `Versions` | what destor promises over many jobs: numbered versions, the oldest expires (abstract) | |
| `Lifecycle` | what a job leaves for the next: recipes, sparse containers, manifest, key-value table, deletion | refines `Versions` |
| `LifecycleProofs` | its theorems, and those of `SegmentIds` | extends `Lifecycle`, `SegmentIds`, `SequenceFacts` |
| `SequenceFacts` | lemmas on sequences, minima, concatenations, flattening and recursion | what the proofs about `DedupPipeline`, `Lifecycle`, `Restore` and `Stream` share |
| `SegmentIds` | the packing of segment ids (`recipe/recipestore.c`) | what `Lifecycle` takes for granted of `SegmentId` and `Later` |
| `ReferenceTimeMap` | `gc/gc_rtm.c` with its callers in `index/index.c`, and the collector `gc/gc.c` | |
| `ReferenceTimeMapProofs` | its theorems: the bits of a backup, the times on disk, the attributes, what the collector spares | extends `ReferenceTimeMap` |
| `Playback` | what a restore promises: the stream, in order, each item once (abstract) | |
| `Restore` | `do_restore.c` with its three schemes, and the simulation of `restore_aware.c` | refines `Playback` |
| `RestoreProofs` | its theorems | extends `Restore`, `SequenceFacts` |
| `Chunking` | the algorithms of `chunking/*.c`, as operators | |
| `Segments` | `segmenting_method.c`, `sampling_method.c`, as operators | |
| `Stream` | read, chunk, hash and trace phases up to the segments that the dedup phase gets | extends `Chunking`, `Segments` |
| `StreamProofs` | its theorems | extends `Stream`, `SequenceFacts` |
| `MC...` | small instances for TLC | |

**SyncQueue.** A section under the mutex is one action. `pthread_cond_wait` splits a call: a
sleeping thread (`maxwait`, `minwait`) is woken by a broadcast, or spuriously, and goes back to
its `while` test; a woken push (`woken`) does not test `term` again, as in the code. `log` and
`got` are history variables, the items in the order in which they entered and left. `orderly`
says whether the job calls `term` after its last push, as every phase of destor does; the model
also covers an early call, for which only the parts of the channel's promise that do not speak
of the end are claimed.

**ContainerStore.** `filter`, `reader` and `append` are the places of the three threads in the
code; `lock` is `index_lock`. `known` is what the index tells (index_update happens *before* the
container is queued), `buffer` is `container_buffer`, `disk` the file by place, `rtm` the
reference time map. `append_thread` adds to the map, writes, and only then pops. The end of a job
saves the count; the next job starts from it. An open container always holds a chunk, so the
branch of `write_container_async` that takes an id back is not reached.

**DedupPipeline.** One record of `ck` per chunk is the `struct chunk` that travels by pointer.
`content` (the stream), `algo`, `inherited` (the sparse containers left by the last backup) and
the history of containers are chosen in `Init`, so that a run covers all of them. Lookup is one
action per chunk under `index_lock`; sending is one action per item. The rewrite thread takes an
item, pushes it into the rewrite buffer and, when the algorithm judges, empties the part that
was judged into `draining`, from which the items go to `rewrite_queue` one by one. The filter
thread collects a segment, takes the lock (with `index_check_buffer`), decides chunk by chunk,
and finishes the segment (`index_update_buffer`, recipe). The dedup thread never waits for the index
buffer and is never woken, because the threshold it would wait for is not seen (finding 1). Abstractions: a chunk is
its number and its fingerprint, sizes count chunks, `FILE_START`/`FILE_END` marks are left out
(every phase passes them on untouched), sampling is a set of fingerprints, the running
utility threshold of `cbr_rewrite.c` and the restore-aware filters are choices. Because a
container that the index names can be read (`ContainerStore!ReaderFinds`), containers are kept
as a plain sequence.

**Lifecycle.** The jobs follow one another (`phase`); what the threads of a backup do to each other
is the subject of the two modules above, so here a chunk is looked up, judged and stored in one
step (`BackupChunk`). What is kept is everything that outlives the job: `recipe` and `flags` (the
segment marks in it), `sparse` (`close_har`), `manifest`, `table`, `containers`, the `deleted` mark, and
the list of containers reclaimed. `index` is the configuration, chosen in `Init`: exact or near-exact,
physical or logical locality, the way similar segments are selected, how many, and how many
segments are prefetched with one. The entries of `table` are *units*: a container by its id
(physical locality) or a segment by its id (logical locality). A segment id is the triple that
`make_segment_id` packs, `<<bnum, off, size>>`, with the offset in chunk pointers. Lookup is the base
one, or similarity detection: before the first chunk of a segment is looked up, `top_segment_select`
takes the units that have most of its features, the features of one that is chosen no longer counting for
the others, and their segments are prefetched (`Prefetched`, which runs on into the segments that
follow). A segment of which no chunk is sampled has the feature `Placeholder` (`Sampling`), a key of the
table that is no fingerprint; what finding 3 says of it is the condition `NoPlaceholder` of some
properties. The cache is abstracted: a lookup may find a chunk in any unit read before in this job, or
go to the table, if the configuration lets it. A key may lead to a segment that does not hold the
chunk (`Miss`). A backup ends in three steps (`StopPhases` with the sparse
containers and the manifest, `CloseBackup`), and a deletion in one per unit (`Truncate`,
`DeleteEntries`, `MarkDeleted`). `UpdateBackupVersion` writes through the file that the version was
opened with. `expired` and `backedUp` are history variables. `HarThreshold = 0` turns
history-aware rewriting off; `Rewriting` lets any other algorithm mark any chunk. `Versions`, which it refines, keeps versions as they
are whatever happens; a new one is what was backed up as long as `sound` holds, which the mapping takes
for `NoPlaceholder`. Sampling is random or minimal; the two other methods are in `Segments` only. Left out: file
marks, an empty backup (`do_backup.c:93` divides by its size), the format of the files, and a
change of the configuration between jobs (`destor.c:158` asserts that the retention time is kept).

**ReferenceTimeMap.** `StartBackup` is `Init_RTM`, `Lookup` the marking of a found chunk in
`index_lookup_base`, `AppendContainer` what `append_thread` adds, `CloseBackup` everything that
`close_container_store` and `do_backup` write: per container met, the attribute (none, part, all) in
the container bit table and, for a partial reference, the times. The collector is a process of
its own: it reads the newest table, then older ones until no container is left without an
attribute, and counts the chunks whose time is too old. Ids and positions start at 0 as in the
code, so `rtm[id + 1]` is the entry of container `id`. `Garbage` is what `malloc` may have left in
`chunk_num` of a list node: `_id_shift_AddEnd` never copies it (`gc_rtm.c:82` reads what `135` should
have set), so the range of the last container met ends anywhere. The positions of bits in the
table are those of the code, including the first integer, which holds the version, and the older
tables that the collector reads at the container number instead of `id * 2 + 33`
(`gc_rtm.c:946`, `1019`). `history` is a history variable: per version, the chunks it refers to, its first new
container, and the last container met. A full reference is left to the collector, as in the code.

**Restore.** The three threads of `do_restore.c` at simulation level `NO`: `read_recipe_thread`
(`StartFile`, `ReadPointer`, `EndFile`, `TermRecipe`), the restore thread of the chosen scheme, and
`write_restore_data`. The recipe with its segment flags and the file of access records are
what `recipestore.c` leaves (`Flagged`, `AccessRecords`). An item taken from `restore_recipe_queue`
yields the items `issued`, which are pushed one by one before the next is taken.
For `opt`, `window`, `table` and `sorted` are the globals of `optimal_restore.c`; the choice among
containers with no access left in the window is the one the LRU walk over at most eleven of them
makes. A `CASE` or conjunct that no successor satisfies stands for an assertion of the code, so a
failed assertion would show as a deadlock. `Monitor` is `restore_aware.c`, run over the same recipe.

**Chunking, Segments, Stream.** The bytes of a file are numbers, a fingerprint is the content it
stands for. The window hash of Rabin is a polynomial over the last `WindowBytes` bytes; AE, TTTD
and the rest are the loops of the code over a smaller alphabet and smaller constants. `Stream` has
one action per call of each thread: blocks are read, `chunk_thread` fills its buffer to
`chunk_max_size` before it cuts, hashing passes marks on, and `dedup_thread` segments what it pops. A
thread pops and pushes in one step, which only makes its queue one place longer. With the job
`trace`, `make_trace` writes lines with the fingerprint in hexadecimal digits, and
`read_trace_thread` makes items of them. `Vanish` is the name that `stat` does not find any more: the files behind it in its
directory, any number of the next ones, are left out, and the directory above goes on.

## 3. Runs

| run | states | question | properties |
|---|---|---|---|
| `queue` | 1,074 | two producers, two consumers, one place, two items each | `TypeOK`, `SleepersHaveCause` (no lost wake-up), `IsChannel` (refinement of `Channel`), `Delivered` |
| `store` | 67 k | two jobs, three containers of two chunks, a buffer of one | `TypeOK`, `ReaderFinds`, `RtmFollowsDisk`, `ClosedComplete`, `NeverOverwritten`, `WritersProgress` |
| `pipeline` | 1,075 k | all streams of 2 or 5 chunks over two fingerprints, four histories, four algorithms, exact index, inherited sparse containers, restore-aware filters | `TypeOK`, `RecipeFaithful`, `NoDoubleStore`, `MarkedBeforeDecision`, `NeverOlderCopy`, `BackupCompletes` |
| `lifecycle` | 746 k | four backups of four different streams, two versions kept, five configurations of the index (in small, those of DDFS, sampled index, block locality caching, sparse index and SiLo), rewriting by HAR and others | `TypeOK`, `KeptVersionsIntact`, `DeletionClean`, `ManifestExact`, `SparseForsaken`, `IsVersions` (refinement of `Versions`) |
| `rtm` | 308 k | three backups over containers of one to three chunks, and the collector between them | `TypeOK`, `BitsFaithful`, `TimesFaithful`, `AttributesButLast`, `GcSparesNewest` |
| `restore` | 701 k | every recipe of five chunks in four containers, in two files, with each scheme | `TypeOK`, `RecordsAligned`, `SimulationAgrees`, `IsPlayback` (refinement of `Playback`), `EvictsFurthest`, `RestoreCompletes` |
| `stream` | 281 k | every file of eight bytes over two values, short and empty files, six combinations of chunking and segmenting, two of them through a trace | `TypeOK`, `CutByContent`, `SizesBounded`, `FeaturesRepresent`, `StreamCompletes` |
| `placeholder` | violation | a sparse index, one version kept of three, segments without a sampled chunk | `InvalidEntriesUnused` |
| `deleted` | violation | one version kept of two | `DeletedRefused` |
| `unbounded` | violation | the threshold as `index.c` reads it | `BufferBounded` |
| `cfl_repeat` | violation | three copies, the middle one in order | `NoRepeatRewrite` |
| `rtm_attribute` | violation | a container of which only the last chunk is (not) referred to | `AttributesTruthful` |

Some properties are conjunctions of named parts, each about one promise and explained where it is
defined: `RecipeFaithful` (the recipe, and the decisions still to be made, name containers that hold the
chunk; the recipe is the stream in order; a copy within a segment is resolved), `NoDoubleStore` (nothing stored twice without rewriting, no rewrite repeated
within a segment, chunks of sparse containers rewritten once), `DeletionClean` (the table names live
containers, the oldest entry goes first, the entries of a feature are in order and none is there twice) and `SizesBounded` (chunks and segments;
no maximum is claimed for the chunks of asymmetric extremum, see the remarks). `TypeOK` of `SyncQueue` has the bound of the queue in it, `WithinCapacity`.

**Bounds and why they are enough.** A queue of one place with two threads on each side has every
kind of race: full and empty at once reached, two sleepers on a condition, two woken producers
for one place. The store needs a container more than the buffer takes, a reader for each place
a container can be in, and a second job. In the pipeline, segments of two chunks and streams of
five give full segments and a partial one; a rewrite buffer of three spans segments; a queue of
three items lets three segments be under way; two fingerprints with five chunks make repeated
copies within a segment, across segments and across containers unavoidable; containers of one
or two chunks are sealed in mid-segment; a cache of one container evicts. In `lifecycle`, four
backups with two kept give two deletions and a backup after each; three fingerprints, of which
two are sampled, containers and segments of two chunks and two values per fingerprint give
containers shared by several versions, partly used ones, values that fall out of the table and a
stream with an internal duplicate; the limit of 60 percent makes HAR keep some of the sparse
containers. In `rtm`, containers of one, two and three chunks have no chunk, one or several beside the
last one, a backup finds chunks in up to two older ones, which puts two ranges side by side with one
boundary between them, and three versions let a time be
set, replaced and folded by the collector; `Garbage` holds a value too small and one too large.
In `restore`, a cache of two of four containers evicts, a window of three records is filled more
than once by five chunks, an assembly area of three chunks holds less than the recipe, one
fingerprint is in two containers, and queues of one place block both sides. In `stream`, eight
bytes are two blocks and more than one chunk of maximal size, and the limits of chunks and segments are met from both
sides. `CHECK_DEADLOCK FALSE` is there where the last job is followed by nothing. Every other bound
(`Quota`, `MaxCount`, `MaxJobs`, `Lengths`, `Histories`, `Streams`, `MaxVersions`, `MaxContainers`, `MaxNew`,
`Recipes`, `Settings`) caps the length or the number of behaviours.

**Fairness.** Weak fairness of each thread's next step, and no fairness of anything else: a
thread that can run does run (one POSIX thread per phase, mutexes released in finite time),
while spurious wake-ups may or may not happen. `Terminate` is fair because each phase calls it
when its input has ended. A container store may be used for ever, so only the append thread, the
blocked push and the close are fair there. The mutex is not assumed to be starvation-free:
weak fairness suffices, since a section under it never waits for another thread, except for the
push into `container_buffer`, which `append_thread` serves without the lock. The three threads of a
restore and the threads of the input pipeline are fair in the same way, each as a whole; a name
may vanish or not, which only leaves out files. `ReferenceTimeMap` has no
liveness: its tables are read by a collector that need not end (see the remarks).

## 4. Findings

1. **The index buffer's threshold is never seen** (`unbounded`). `dedup_phase.c:19-26` defines
   `index_lock` with a `pthread_mutex_t` and a `pthread_cond_t`; `index/index.c:317-324` and
   `filter_phase.c:20-25` declare it with a `GMutex` and a `GCond`, which are smaller. Their
   `wait_threshold` lies inside the mutex and reads 0, so `index_lookup` never reports a full
   buffer, although `index.c:328` documents that it does, and the dedup phase never waits.
   Were the threshold seen as it is set, the wait could stop the backup: see the first remark.
2. **A rewrite may be repeated under selective deduplication** (`cfl_repeat`), against
   `filter_phase.c:73-75`: `index_update_buffer` gives the id of each chunk of the segment to the
   copies behind it, also when that chunk still has the old id.
3. **The entry of a segment without features outlives its version** (`placeholder`), against
   `do_delete.c:30` and `56-57`: `do_delete` removes the entries under the fingerprints of the recipe, but a
   segment of which no chunk is sampled has been entered under a feature of zeros
   (`sampling_method.c:199-205`, `filter_phase.c:254`, `292`). The next such segment is looked up under it
   (`similarity_detection.c:62`), the segment of the deleted version is prefetched, and its chunks pass for
   duplicates of what has been reclaimed. In the run `<<2>>` is backed up three times with a sampled logical
   index (sparse index), one version is kept, and version 2 refers to container 0, reclaimed with version 0.
   `KeptVersionsIntact` and a part of `DeletionClean` hold under the condition `NoPlaceholder`, that
   no lookup by similarity can meet such an entry; all other configurations and all jobs up to the
   first such segment satisfy it. Uniform sampling gets the same feature by another way, from the marks of files.
4. **A deleted version is not refused** (`deleted`), against `jcr.c:95-98`: `do_delete.c:50-51` sets
   `deleted` and calls `update_backup_version`, which writes through the file that
   `open_backup_version` opened with `"r"` (`recipe/recipestore.c:173`). Nothing is written, and a
   restore of the version reads containers that may have been reclaimed.
5. **The attribute of a container leaves out its last chunk** (`rtm_attribute`), against
   `gc_rtm.c:424-435`: the range handed to `check_index_bit_equal_one` ends at the next container's
   first bit less one (`gc_rtm.c:414`), and the loop there takes its end as exclusive. A container of
   which only the last chunk is referred to counts as not referred to, and its time is not updated; one of which
   all but the last are referred to counts as fully referred to. `AttributesButLast` shows
   that nothing else is wrong with the attributes of all containers but the last one met.

Two suspicions the models refute: `no_rewrite` marks a chunk after it has handed it on
(`rewrite_phase.c:117-121`), but the filter phase cannot decide before the end of the segment,
which the same thread pushes later (`MarkedBeforeDecision`); and blocking on `container_buffer`
under `index_lock` is harmless (`WritersProgress`), because `append_thread` never takes that lock.

Remarks met while modelling, which no run is about:

* `index.c:332` says that the threshold is to "ensure the next phase not be blocked". As built nothing
  waits for it; but with finding 1 repaired, a rewrite buffer of `R` chunks and segments of `S` chunks would
  stop the backup when `S` divides `R - 1` (`R = 3`, `S = 2` with context-based rewriting, or `R = 1`): the end
  mark of a segment stays in the rewrite buffer behind the chunks of the next one, the filter phase does not
  finish the segment, and the dedup phase waits for it. No model has this wait, since no state of the program reaches it.
* Capping, too, rewrites duplicates that have no container yet: `TEMPORARY_ID` is never among the
  top containers, and the loop at the end of the stream (`cap_rewrite.c:85-100`) does not ask
  whether the chunk is a duplicate. `cfl_repeat.cfg` with `Algorithms = {"cap"}` and
  `RewriteSize = 2` shows the same violation.
* The collector counts and writes nothing. Its loop over older tables ends only when no container is
  without an attribute; before the first table the seek fails and the same table is read again.
  A full reference (`11`) in a version is lost when a later one refers to part of the container, and
  `update_RTM_to_same_backupversion` stops at the first chunk that has the version already
  (`gc_rtm.c:891`). The container bit table has 1024 integers: ids up to 16367.
* The similarity lookup sets no bits in the index (`similarity_detection.c:168-176`), so that the map is
  only kept under physical locality.
* AE compares words with `my_memcmp`, which never reports equality, and its boundaries depend on how
  many bytes it was given. A chunk may be as large as the bytes at hand, up to `chunk_max_size`
  plus a block less one, against `destor.config:29` ("maximal chunk size") and against `chunk_phase.c`, which compares
  with a block of zeros of that size (25, 84) and asserts, for AE, an order of the sizes (172-173). TLC
  finds a chunk of eight bytes for a maximum of five in the instance of `stream`; `SizesBounded` therefore claims
  no maximum for AE.
* A file that vanishes ends the reading of its directory (`read_phase.c:80-83`): all entries behind it are left
  out of the backup, while the message says that it, alone, is "ignored!". `StreamCompletes` claims what the
  code gives, every file that is not left out. A file that cannot be opened ends the program (not modelled).
* Uniform sampling counts the marks of files, too (`sampling_method.c`), and may take their zero
  fingerprint for a feature.

## 5. Proofs

A theorem holds for every value of the constants that satisfies the named assumption of its
module. TLC evaluates those assumptions on the instances, and has checked the inductive
invariants as invariants of the runs.

**SyncQueueProofs** (from `QueueAssumption`: no thread both pushes and pops, a natural number of
items per producer, any `max_size`). The inductive invariant is the conjunction of six parts:

| part | what it says | why the induction needs it |
|---|---|---|
| `TypeOK` | types, and never more than `max_size` items (`WithinCapacity`) | a woken producer tests again |
| `SleepersHaveCause` | a sleeper's condition is true | the broadcast is decided on the length *before* the operation, so a step must know that nobody sleeps on the other condition |
| `Fifo` | `log = got \o items` | a pop takes the item that entered first |
| `InsidePush` | a producer that sleeps or was woken in `push` has an item left | a woken push does not test `term` |
| `OrderlyTerm` | in an orderly job, `term` implies that every producer has finished | otherwise a woken push could follow the end |
| `DrainedAtEnd` | a consumer that was told of the end saw all items | |

From it follow `TypeCorrect`, `NoLostWakeup`, `BoundKept`, `NullIsLast`, and `ImplementsChannel`:
under the refinement mapping of `SyncQueue`, `Init` implies the initial condition of `Channel` and
each step is a step of the channel or a stutter.

**ContainerStoreProofs** (from `StoreAssumption`: positive sizes, finitely many fingerprints). The
argument is one of ranges: at each moment the ids from 0 to `count - 1` are cut into the file,
the queue and the open container, in this order. `DiskIsPrefix` fixes the ids of the file,
`BufferInOrder` those of the queue (with the overlap of one container between the write and the
pop of `append_thread`), `OpenIsNext` that of the open container, `RtmInOrder` that the reference
time map is at most one ahead of the file; `AppendHasWork`, `Phases` and `Locked` say where the
threads may be in the meantime; `KnownAreSomewhere` says that each id the index tells lies in
one of the three parts. `ReaderFinds` itself is in the inductive invariant: a reader tests the
open container, the queue and the file one after the other, and while it moves on a
container can only move in the same direction. This gives `TypeCorrect`, `ReaderAlwaysFinds`,
`RtmAlwaysFollowsDisk`, `ClosedIsComplete` and, as an action property, `WrittenOnce`.

**DedupPipelineProofs** (from `PipelineAssumption`: positive sizes, finite histories; any
stream, history, sampled index, algorithm and limits). The
argument is one of a conveyor: `OnTheWay`, the four buffers between the threads put one after the other,
is behind the recipe and the segment under way what the dedup thread has sent, in order. On it rides the index
buffer, which has one element per chunk that was looked up and is not in the recipe. A chunk that was found in
the index buffer may have no container yet when it is decided about; `filter_phase.c:112` asserts that the segment
under way has then just written one. That is so because the first copy of such a fingerprint is on the conveyor, was new when
it was looked up, and is written before any copy behind it.

| part | what it says | why the induction needs it |
|---|---|---|
| `TypeOK`, `DedupInPlace` | types; where the dedup thread is in its segment, who holds `index_lock` | |
| `Flow` | recipe, segment under way and `OnTheWay` are what was sent, in order | the recipe is the stream; the chunks of a segment are consecutive |
| `LateIsLast` | the chunk that `no_rewrite` has still to mark is the last in `rewrite_queue`, or the last that the filter thread took while it collects | `MarkedBeforeDecision` |
| `Counted` | as many elements in the index buffer as copies looked up and not in the recipe | an element is there when `index_update_buffer` takes one away |
| `StoreShape` | the open container is the next, table and cache name sealed ones | what is sealed keeps its id |
| `PointersHold` | every id leads to a container with the chunk, those of the two tables of the segment also | `RecipeFaithful` |
| `DecidedHaveIds`, `Undecided` | chunks before `place` have ids, those behind it none newer than the rewritten copy | `NeverOlderCopy` at the redirection |
| `FirstCopyIsNew` | if the index buffer has no id for a fingerprint, its first copy was new, or was just written | the assertion of `filter_phase.c:112` |

From it follow `TypeCorrect`, `RecipeAlwaysFaithful`, `MarkedFirst` and, as an action property,
`NeverRedirectedBack`. What is stored twice needs more, and stands in invariants beside it:

| invariant | what it says | what it gives |
|---|---|---|
| `FirstIsNew` | a chunk that was looked up as new has no copy before it that was behind the recipe then; a table of the segment has only its chunks | `NoTableTwice`, under all algorithms |
| `Marks` | without an algorithm, `har_check` marks the chunks in sparse containers and no others, and before the filter thread decides; a chunk is denied only for a container newer than the sparse ones | |
| `OneOldId` | of the containers that are not newer than the sparse ones, the copies of a chunk on the conveyor and its element in the index buffer name at most one; no chunk stays in a sparse one | a copy of a rewritten chunk is redirected, and denied |
| `Rewrites` | a copy of a rewritten chunk that was looked up before is denied, or will find it in the table of the segment or in the index buffer | `RewrittenOnce` |
| `Apart` | with the exact index and nothing to rewrite, no two containers hold a chunk, the table has all that they hold, and they hold no chunk that is still to be written as new | `StoredOnlyOnce` |

`NeverStoredTwice` puts them together. Its hypothesis `StoredNothingTwice` is about the jobs before: their containers have
no chunk in common. It is what `StoredOnce` itself says when the backup begins, so that it cannot be spared, and the histories of the
runs meet it. `NoTableTwice` and `RewrittenOnce` have no hypothesis. `NoRepeatRewrite` without the
restriction to jobs without an algorithm does not hold, as the run `cfl_repeat` shows.

**ReferenceTimeMapProofs** (from `MapAssumption`: positive sizes, ids within the bit table, 16-bit
versions; any `Garbage`). Again an argument of ranges: the ranges of the containers met follow one
another in the order of `ishead` and end before `globle_shift`, so that no two overlap and a set bit
traces back to one chunk when the backup is closed.

| part | what it says |
|---|---|
| `TypeOK` | types |
| `Counted` | each backup that has ended has its table and its history |
| `MapGrows` | during a backup the map in memory extends the one on disk, and new entries are those of this version |
| `RangesInOrder` | one range per container met, each behind the one before and as long as its container, all before `globle_shift` |
| `FoundPlaced` | the set bits are the places of the chunks found |
| `TimesOld` | every time is that of a version that has ended |
| `TimesFaithful` | that version refers to the chunk, and no later partial reference is lost, but for the last container met |

From it follow `TypeCorrect`, `BitsAlwaysFaithful` and `TimesAlwaysFaithful`.

The attributes and the collector (the second half of the module, under the same assumption). What an
attribute says, and what the collector makes of it, needs more than ranges that do not overlap: the range of a container ends, for `get_attribute`, where the
next one starts. The invariant `JInv` stands beside the one above and uses it.

| part | what it says | why the induction needs it |
|---|---|---|
| `NoGaps` | the range of a container ends where the next one starts | the end that `RangeEnd` computes is the container's own, less its last chunk |
| `NoneEmpty` | every container has a chunk | without one there would be no last chunk to leave out |
| `OpenFits`, `ClosedFits` | versions and tables name containers that were there, each table has the number of its version | containers that come later are neither referred to nor marked |
| `NewestTimes` | the containers new in the newest version have its number as their times, and those found as a whole have older ones | the collector sets times only up to the first that has the version already |
| `AttributesButLast` | what the tables say | the collector believes them |
| `Collected` | while the collector runs, what the newest version needs has the time of that version, and a container that waits for an older table has no attribute in the newest | the older tables change only what is not needed |
| `GcSparesNewest` | nothing needed is counted | |

From it follow `AttributesAlwaysTrue` and `NewestAlwaysSpared`. The last chunk of each container must
stay outside, as the run `rtm_attribute` shows; so does the last container met, whose range ends anywhere.

**LifecycleProofs** (from `LifecycleAssumption`: positive sizes of segments, containers and values, any
retention time, any streams, any set of index configurations, any other rewriting). The argument is one
of what a pointer or an entry of the table leads to. A backup finds a chunk only through the table, the
cache, the open container or the segment under way, so that its pointers lead to containers that are there; the
manifest is told of them before a deletion can start, so that the deletion spares them; and a deletion
clears the table of whatever it takes away before the next backup looks a chunk up.

| part | what it says | why the induction needs it |
|---|---|---|
| `TypeOK`, `Counted`, `ExpiredInTurn` | types; how many of each file there are in each phase; versions expire one by one | a deletion must be of the oldest version, the one that `jobid` names |
| `Contents` | recipe, segment under way and what is left are the stream | gives `KeptVersionsIntact` its content |
| `PointersLive` | a pointer of a kept version leads to a container of the store that holds its chunk, one of the running job also to the open one; as long as `NoPlaceholder` holds, to none that was reclaimed | what is found must be there |
| `ManifestTimes` | the manifest has each pointer of a version, with a time not before the version, and each time is that of a version that refers to the container | otherwise a deletion could take a container of a kept version |
| `Accounted` | a container is in the manifest, reclaimed, or of the backup that runs | `ManifestExact` |
| `FlagsWithin` | the segments of a version lie in its recipe | an entry names a segment, which is read from the recipe |
| `TableLeads` | table and cache name units that can be read and, as long as `NoPlaceholder` holds, have not expired (but for those still to be deleted), and an entry under a fingerprint leads to its chunk | what is looked up is sound |
| `TableInOrder` | the segments of a feature stand with the latest first, none twice | index_delete removes one entry of a feature: a second would survive |
| `TodoExpired` | what do_delete has still to delete is of the version that has just expired | `OldestLast` |
| `Forsaken` | no pointer leads to what the version before found sparse | |

From it follow `TypeCorrect`, `VersionsIntact`, `ManifestIsExact`, `DeletionIsClean`, `SparseIsForsaken` and
`ImplementsVersions`: under the mapping of `Lifecycle`, each step adds a version, takes the oldest, changes none, or
takes `sound` away for good. `VersionsIntact` and `DeletionIsClean` state their condition, `NoPlaceholder`, in
the property; a version that is kept never changes, with or without it. That a segment has a last copy of each chunk, the one that its
hash table keeps, rests on the well-foundedness of the naturals (`LastPlace`).

**Segment ids**, at the end of `LifecycleProofs` (no assumption). `Lifecycle` names a segment by the triple of version, offset and size, and
the code by one signed integer of 64 bits. `Decodes` and `Ordered` say that the two agree, for every version
below 32768, recipe below 4 GiB and segment below 65536 chunks; `Overflows` says what happens beyond: the id is
that of another segment, and `append_segment_flag` does not test for it. TLC's integers have 32 bits, so
no run evaluates these definitions.

**RestoreProofs** (from `RestoreAssumption`: positive sizes, containers numbered from 0, and backups whose
pointers name containers that hold their fingerprints; any layout, any files, empty ones included, any
segment, window, cache, area and queue size). All that `read_recipe_thread` will ever push is one sequence, the
`Feed` of the backup: for each file its start, its chunks and its end. The argument is one of where this
sequence is cut.

| part | what it says | why the induction needs it |
|---|---|---|
| `Given` | files, recipe, records and scheme are what the backup has left | nothing else ties the recipe to the files |
| `ReaderInv` | the place of the reader in the files and its offset in the recipe belong to the same pointer | the flags of segments that it skips end up in no file |
| `FlowInv` | what is written, in the second queue, issued, in the area and in the first queue, one behind the other, is the feed as far as it is pushed | an item can be neither lost, nor doubled, nor overtaken; in the area chunks may be ready in any order |
| `EndInv` | the threads end one after the other, with nothing between them | what is done is all written |
| `CacheInv` | no container is cached twice | removing one from the cache removes it |
| `OptInv` | as many records are consumed as runs of one container have begun among the chunks popped (`Run`), the table has the records from there to the end of the window, the last container asked for is at the front of the cache, and the sorted records are those of the cached containers | a chunk whose container is asked for again consumes no record; the eviction compares the first numbers in the table |
| `LruInv` | beside it: if no fingerprint is in two containers of the backup, cache and count are those of the monitor after the chunks popped | hits by fingerprint and hits by id then are the same |

Each part was checked by TLC before it was proved. From them follow `TypeCorrect`; `Plays`, that a restore
implements `Playback` under the mapping of `Restore`, where `WriteItem` plays and `WriteEnd` finishes and all else
stutters; `Aligned`; `Simulates`; and, as an action property, `Belady`. `Aligned` takes care of records across the refills of the
window: the numbers of a container that are read later stand behind those read before (`AscendingJoin`), and
a consumed record is the first of its container (`AscendingTail`).

`FlattenSeq`, the positions of segment flags and the monitor of `restore_aware.c` are recursive. No
induction theorem with an operator parameter can be used here, so that `SequenceFacts` has induction
over a *set* of numbers (`NumbersByInduction`, from the well-foundedness of the naturals) and the existence of a
function defined by recursion (`RecursionExists`); a recursive function is then what its steps say it is.
`Ascending` takes the place of `SetToSortSeq`, of which nothing can be proved.

**StreamProofs** (from `ChunkingAssumption`: positive sizes in order, an average above one;
`SegmentsAssumption`: positive limits and ratios, a minimum that may be zero; and `StreamAssumption`: positive sizes of blocks and queues, streams of files of bytes, and known jobs,
algorithms and segmenting methods). The argument is one of a path through the files. A *place* is in front of
a file or some bytes into it, and an item leads from one place to another: into a file, over the bytes of a
chunk, out of it. Each thread takes the first step of one path and adds it to another.

| part | what it says | why the induction needs it |
|---|---|---|
| `Types`, `Terms` | types; what the end of each thread's work says of the threads before it | the trace file is complete when it is read; a queue that has ended stays empty |
| `Flow` | what `dedup_thread` has been given leads from the front of the first file to some place, the queue in front of it on from there, and so on: the queue of the trace, the lines not yet read, the hash and chunk queues, the bytes at hand in `chunk_thread`, the read queue, to the place of `read_thread` | nothing is lost, doubled or overtaken between two threads |
| `Sized` (in each step of a path) | a chunk is as long as its algorithm cuts the *whole* rest of the file | blocks and pace leave no trace in what was cut |
| `TmpBounded` | the count of the segment under way, and what each method lets into it | the limits of the segment when it is completed |
| `SegmentsBounded` | those limits | |

`CutsByContent` rests on two facts. All algorithms but `ae` cut alike with `chunk_max_size` bytes at hand, or with
the end of the file, and with the whole file (`ChunkingLocal`), and `chunk_thread` waits for that much. And from each
place only one step can be taken then (`StepAlone`), so that two paths from the first file agree as far as the
shorter one goes (`PathsAgree`), and one of them is `WantedStream`. With `ae` a path is only known to spell the
bytes (`Told`). A vanished name takes files away that no item has led into yet, so that every path so far
stays one (`VanishKeeps`). `SizesAlwaysBounded` reads sizes off the steps of a path. `FeaturesAlwaysRepresent` is about the
operators alone: the entries that `index_sampling_min` keeps while it inserts, removes and skips are at every
moment the lowest of the chunks seen, in order (`Lowest`, `KeptLowest`).

The attempt to prove `SizesBounded` found it too strong: the chunk that starts a segment on a boundary is not tested
against `index_segment_max` (`segmenting_method.c:95-100`), so that a segment can have two chunks, or one more than the minimum,
whatever the maximum; the limit it states now is the one that the code keeps. For sensible configurations
(a minimum of at least one below the maximum) it is the maximum.

Only model-checked: the liveness properties (`Delivered`, `WritersProgress`, `BackupCompletes`,
`RestoreCompletes`, `StreamCompletes`), since liveness under fairness and `ENABLED` are beyond the
proof system. All other properties of the runs that pass are theorems.

## 6. What is left

1. **Logical locality under concurrency**: `DedupPipeline` has the threads over containers;
   `Lifecycle` has the lookup of segments, one chunk at a time.
2. **Composition** of `ReferenceTimeMap` with `ContainerStore`: both have the entry of a container
   appended in the order of ids, which `RtmFollowsDisk` shows for the threads.

## 7. Not modelled

Configuration, the command line, the FSL trace reader (`fsl/`), strings (`utils/sds.c`),
serialisation and the Bloom filter: no shared state, and nothing that the properties depend on. The
restores of simulation levels other than `NO`, which write no files. The program `gc/gc.c` for the
variant that runs alone (`deleteway` is the constant 2, so it is not reached). A crash within a
job: the README of destor excludes consistency after one, and the code has no recovery. Timing, statistics and
log output are left out everywhere.

## Running

    tlc -workers 2 -config queue.cfg MCSyncQueue.tla      # and so on, see PROJECT.json
    tlapm SyncQueueProofs.tla
    tlapm ContainerStoreProofs.tla
    tlapm ReferenceTimeMapProofs.tla
    tlapm DedupPipelineProofs.tla
    tlapm LifecycleProofs.tla
    tlapm RestoreProofs.tla
    tlapm SequenceFacts.tla
    tlapm StreamProofs.tla                                # some eight minutes
