----------------------------- MODULE Lifecycle -----------------------------
(***************************************************************************)
(* What one job of destor leaves for the next ones: recipes                *)
(* (recipe/recipestore.c), the sparse containers that har_rewrite.c        *)
(* records, the manifest of the container-marker algorithm (cma.c), the    *)
(* key-value table (index/kvstore_htable.c), and the deletion that follows *)
(* a backup (destor.c, do_delete.c).                                       *)
(*                                                                         *)
(* The threads of a backup are the subject of DedupPipeline and            *)
(* ContainerStore.  Here a chunk is looked up, judged and stored in one    *)
(* step; the jobs follow one another, and none is interrupted (README.md   *)
(* of destor, "Bugs").  Both kinds of index are covered, with the base     *)
(* lookup (index/index.c) and the one by similarity                        *)
(* (index/similarity_detection.c).  What the table names and the cache     *)
(* holds, a unit, is a container, by its id (physical locality), or a      *)
(* segment of a recipe, by the three parts of its id (logical locality).   *)
(***************************************************************************)
EXTENDS Integers, Sequences, SequencesExt, FiniteSetsExt

CONSTANTS
  Fps,           \* fingerprints, as numbers in the order of memcmp
  Streams,       \* bound: what may be backed up, sequences of fingerprints
  MaxVersions,   \* bound: the number of backups
  Indexes,       \* the configurations of the index, see the variable index
  Sampled,       \* the fingerprints that random sampling selects
  ValueLength,   \* index_value_length, under logical locality
  Retention,     \* backup_retention_time
  SegmentSize,   \* index_segment_algorithm[1]
  Capacity,      \* the chunks a container holds
  Rewriting,     \* may another algorithm than HAR mark a chunk?
  HarThreshold,  \* rewrite_har_utilization_threshold * Capacity
  HarLimit       \* rewrite_har_rewrite_limit in percent, 100 for no limit

ASSUME LifecycleAssumption ==
  /\ Fps \subseteq Nat \ {0} /\ Streams \subseteq Seq(Fps) /\ Sampled \subseteq Fps
  /\ Indexes \subseteq [exact : BOOLEAN, kind : {"physical", "logical"},
                        select : {"base", "top", "mix"}, tops : Nat, prefetch : Nat,
                        sampling : {"random", "min"}]
  /\ Rewriting \in BOOLEAN
  /\ {ValueLength, SegmentSize, Capacity} \subseteq Nat \ {0}
  /\ {MaxVersions, HarThreshold, HarLimit} \subseteq Nat
  /\ Retention \in Int

NoVersion == -1

VARIABLES
  index,      \* the configuration: exact (index_category[0]), kind ([1]),
              \* select and tops (index_segment_selection_method), prefetch,
              \* sampling (index_sampling_method[0])
  \* the files
  saved,      \* recipes/backupversion.count
  recipe,     \* by version: the chunk pointers <<fingerprint, id>>
  flags,      \* by version: the ids of its segments, <<bnum, off, size>>
  deleted,    \* by version: the mark in the metadata file
  sparse,     \* by version: the containers in recipes/bv<id>.sparse
  manifest,   \* container -> the last version that refers to it
  reclaimed,  \* the containers in recipes/delete_<id>.id
  table,      \* index/htable: units, the latest first
  containers, \* container.pool: the fingerprints of each container
  \* the process
  phase,      \* "idle", "run", "ran", "gc", "entries" or "restore"
  job,        \* jcr.id
  left,       \* the chunks still to come
  seg,        \* chunk pointers of the segment under way
  stored,     \* what was stored for it: recently_unique, recently_rewritten
  fetched,    \* the units that have been in the fingerprint cache
  inherited,  \* inherited_sparse_containers
  open,       \* storage_buffer.container_buffer: its fingerprints
  todo,       \* the units whose table entries do_delete still has to delete
  restoring,  \* the version that do_restore is reading, or NoVersion
  \* history
  expired,    \* the versions below have been deleted
  backedUp    \* by version: what was backed up

jobVars == <<left, seg, stored, fetched, inherited, open>>
historyVars == <<expired, backedUp>>
vars == <<index, saved, recipe, flags, deleted, sparse, manifest, reclaimed, table,
          containers, phase, job, jobVars, todo, restoring, historyVars>>

Nowhere == -1  \* TEMPORARY_ID: the chunk has no container

\* The feature of a segment of which no chunk is sampled, all bytes 0: no
\* chunk has it for a fingerprint.
Placeholder == 0
Keys == Fps \union {Placeholder}

Init ==
  /\ index \in Indexes
  /\ saved = 0 /\ recipe = <<>> /\ flags = <<>> /\ deleted = <<>> /\ sparse = <<>>
  /\ manifest = [c \in {} |-> 0] /\ reclaimed = {}
  /\ table = [f \in Keys |-> <<>>]
  /\ containers = <<>>
  /\ phase = "idle" /\ job = NoVersion
  /\ left = <<>> /\ seg = <<>> /\ stored = {} /\ fetched = {}
  /\ inherited = {} /\ open = {}
  /\ todo = {} /\ restoring = NoVersion
  /\ expired = 0 /\ backedUp = <<>>

-----------------------------------------------------------------------------
(* Units, and the table of them.                                           *)

\* Containers and versions are numbered from 0.
Fingerprints(id) == containers[id + 1]
Recipe(v) == recipe[v + 1]

Physical == index.kind = "physical"

\* make_segment_id; the fields are wide enough for what Streams holds.
SegmentId(v, off, size) == <<v, off, size>>
Behind(u) == u[2] + u[3]

\* The chunk pointers of a unit.  Of the copies of a chunk in a segment, the
\* hash table of its recipe keeps the last.
Pointers(u) ==
  IF Physical
  THEN {<<f, u>> : f \in Fingerprints(u)}
  ELSE LET r == Recipe(u[1])
       IN  {r[k] : k \in {i \in u[2] + 1 .. Behind(u) :
                            \A j \in i + 1 .. Behind(u) : r[j][1] # r[i][1]}}
Holds(u, f) == \E p \in Pointers(u) : p[1] = f

\* What fingerprint_cache_prefetch brings into the cache with unit u: the
\* container, or the segments from u on.
Prefetched(u) ==
  IF Physical THEN {u}
  ELSE LET ids == flags[u[1] + 1]
           at == CHOOSE i \in DOMAIN ids : ids[i] = u
       IN  {ids[j] : j \in {i \in DOMAIN ids : at <= i /\ i < at + index.prefetch}}

Length == IF Physical THEN 1 ELSE ValueLength

\* Mutants of Updated: no unit falls out; the new unit comes last.
UpdatedUnbounded(features, u) ==
  [f \in Keys |-> IF f \in features THEN <<u>> \o table[f] ELSE table[f]]
UpdatedBehind(features, u) ==
  [f \in Keys |-> IF f \in features
                 THEN LET all == Append(table[f], u)
                      IN  SubSeq(all, Max({1, Len(all) - Length + 1}), Len(all))
                 ELSE table[f]]

\* index_update: kv_update of each feature, the oldest unit falls out.
Updated(features, u) ==
  [f \in Keys |-> IF f \in features
                 THEN LET all == <<u>> \o table[f]
                      IN  SubSeq(all, 1, Min({Len(all), Length}))
                 ELSE table[f]]

\* index_delete of the fingerprints of u: u goes, and its place is closed.
Without(units, u) ==
  IF u \in ToSet(units) THEN RemoveAt(units, CHOOSE i \in DOMAIN units : units[i] = u)
                        ELSE units
Forgotten(fps, u) ==
  [f \in Keys |-> IF f \in fps THEN Without(table[f], u) ELSE table[f]]

-----------------------------------------------------------------------------
(* A backup.                                                               *)

\* Mutant of Inherited: the record of the version before the last.
InheritedLate(v) == IF v > 1 THEN sparse[v - 1] ELSE {}

\* init_har: the sparse containers that the backup before v recorded.
Inherited(v) == IF v > 0 THEN sparse[v] ELSE {}

\* init_backup_jcr and start_rewrite_phase
StartBackup ==
  /\ phase = "idle" /\ saved < MaxVersions
  /\ \E stream \in Streams :
       /\ left' = stream
       /\ backedUp' = Append(backedUp, stream)
  /\ phase' = "run" /\ job' = saved
  /\ recipe' = Append(recipe, <<>>) /\ flags' = Append(flags, <<>>)
  /\ deleted' = Append(deleted, FALSE)
  /\ inherited' = Inherited(saved)
  /\ seg' = <<>> /\ stored' = {} /\ fetched' = {} /\ open' = {}
  /\ UNCHANGED <<index, saved, sparse, manifest, reclaimed, table, containers,
                 todo, restoring, expired>>

\* The features of these chunks (sampling_method.c): those with a sampled
\* fingerprint or the one with the smallest, or the placeholder if there is none.
\* The other two methods, by position and by a window, are in Segments only.
Sampling(fps) ==
  LET sampled == IF index.sampling = "random" THEN fps \intersect Sampled
                 ELSE {f \in fps : \A g \in fps : f <= g}
  IN  IF sampled = {} THEN {Placeholder} ELSE sampled

\* Similarity detection, for the segment that is about to be looked up.  Of the
\* units found under its features, those with most of them are chosen one by
\* one; the features of one that is chosen no longer count for the others.
Features == Sampling(ToSet(SubSeq(left, 1, Min({SegmentSize, Len(left)}))))
SimilarUnits(features) == UNION {ToSet(table[f]) : f \in features}
Hit(u, features) == {f \in features : u \in ToSet(table[f])}
Later(u, w) == u[1] > w[1] \/ (u[1] = w[1] /\ u[2] > w[2])
MoreSimilar(u, w, features) ==
  LET m == Cardinality(Hit(u, features))
      n == Cardinality(Hit(w, features))
  IN  m > n \/ (m = n /\ Later(u, w))

\* The sequence of the units chosen, the only one in this set.
top_segment_select(features) ==
  LET units == SimilarUnits(features)
      num == Min({index.tops, Cardinality(units)})
  IN  {tops \in [1 .. num -> units] :
         \A i \in 1 .. num :
           LET before == {tops[j] : j \in 1 .. i - 1}
               rest == features \ UNION {Hit(u, features) : u \in before}
           IN  /\ tops[i] \notin before
               /\ \A u \in (units \ before) \ {tops[i]} : MoreSimilar(tops[i], u, rest)}

BySimilarity == ~Physical /\ index.select # "base"
ByTable == ~BySimilarity \/ index.exact \/ index.select = "mix"

\* What the lookup of a segment has prefetched before its first chunk.
Selected ==
  IF BySimilarity /\ seg = <<>>
  THEN {UNION {Prefetched(tops[i]) : i \in DOMAIN tops} : tops \in top_segment_select(Features)}
  ELSE {{}}

\* What index_lookup may find for f: the container it gives, and the units
\* that were read for it.  Which units are still in the cache is a choice.
InUnits(f, units, read) ==
  {[id |-> p[2], read |-> read] : p \in {q \in UNION {Pointers(u) : u \in units} : q[1] = f}}
Miss(read) == {[id |-> Nowhere, read |-> read]}
InTable(f) ==
  IF table[f] = <<>> THEN Miss({})
  ELSE LET units == Prefetched(Head(table[f]))
       IN  IF \E u \in units : Holds(u, f) THEN InUnits(f, units, units)
                                          ELSE Miss(units)
InBuffer(f) == {k \in DOMAIN seg : seg[k][1] = f}
Found(f, cached) ==
  CASE f \in open -> {[id |-> Len(containers), read |-> {}]}
    [] f \notin open /\ InBuffer(f) # {} ->
         {[id |-> seg[k][2], read |-> {}] : k \in {i \in InBuffer(f) : \A j \in InBuffer(f) : j <= i}}
    [] OTHER -> InUnits(f, cached, {}) \union (IF ByTable THEN InTable(f) ELSE Miss({}))

\* The condition of the filter phase: a new chunk, one of an inherited sparse
\* container, or one that another algorithm marks.
MustStore(f, id) == id = Nowhere \/ id \in inherited
MayStore(f, id) == MustStore(f, id) \/ (Rewriting /\ f \notin open)

Full == Cardinality(open) = Capacity

\* The open container when f has been added, its id, and the container that
\* had to be sealed for it.
Sealed == IF Full THEN <<open>> ELSE <<>>
NewId == Len(containers) + Len(Sealed)
Store(f) ==
  /\ containers' = containers \o Sealed
  /\ open' = (IF Full THEN {} ELSE open) \union {f}

\* The features of a container, all its chunks if the index is exact, and of
\* a segment of the recipe, with what it has stored if the index is exact.
ContainerFeatures(fps) == IF index.exact THEN fps ELSE Sampling(fps)
SegmentFeatures(pointers, new) ==
  Sampling({pointers[k][1] : k \in DOMAIN pointers})
    \union (IF index.exact THEN new ELSE {})

\* The table when the container that is open has been sealed.
TableOfSealed ==
  IF Physical THEN Updated(ContainerFeatures(open), Len(containers)) ELSE table

\* The pointer of the next chunk enters the segment, and a complete segment
\* the recipe and, under logical locality, the table.
Point(f, id, tbl, new) ==
  LET pointers == Append(seg, <<f, id>>)
      sid == SegmentId(job, Len(Recipe(job)), Len(pointers))
      complete == Len(pointers) = SegmentSize \/ Len(left) = 1
  IN  /\ left' = Tail(left)
      /\ IF complete
         THEN /\ recipe' = [recipe EXCEPT ![job + 1] = @ \o pointers]
              /\ flags' = [flags EXCEPT ![job + 1] = Append(@, sid)]
              /\ seg' = <<>> /\ stored' = {}
              /\ table' = IF Physical THEN tbl
                          ELSE Updated(SegmentFeatures(pointers, new), sid)
         ELSE /\ seg' = pointers /\ stored' = new /\ table' = tbl
              /\ UNCHANGED <<recipe, flags>>

\* A chunk is looked up, judged, and stored if it must be.
BackupChunk ==
  LET f == Head(left)
  IN  /\ phase = "run" /\ left # <<>>
      /\ \E prefetched \in Selected : \E found \in Found(f, fetched \union prefetched) :
           /\ fetched' = fetched \union prefetched \union found.read
           /\ \/ /\ MayStore(f, found.id)
                 /\ Store(f)
                 /\ Point(f, NewId, IF Full THEN TableOfSealed ELSE table,
                          stored \union {f})
              \/ /\ ~MustStore(f, found.id)
                 /\ Point(f, found.id, table, stored)
                 /\ UNCHANGED <<containers, open>>
      /\ UNCHANGED <<index, saved, deleted, sparse, manifest, reclaimed, phase,
                     job, inherited, todo, restoring, historyVars>>

Used(v) == {Recipe(v)[k][2] : k \in DOMAIN Recipe(v)}

\* container_utilization_monitor: the size of each container in the backup
Utilization(v, id) == Len(SelectSeq(Recipe(v), LAMBDA p : p[2] = id))

\* close_har: the sparse containers, those used least, as many as keep the
\* rewriting that they will cause within its limit.
SparseContainers(v) == {id \in Used(v) : Utilization(v, id) < HarThreshold}
WithinLimit(v, ids) ==
  HarLimit >= 100 \/
  100 * MapThenSumSet(LAMBDA id : Utilization(v, id), ids)
    <= HarLimit * Len(Recipe(v))
UsedLeast(v, ids) ==
  \A id \in ids, i \in SparseContainers(v) \ ids :
    Utilization(v, id) <= Utilization(v, i)
Trimmed(v) ==
  LET sets == {ids \in SUBSET SparseContainers(v) :
                 WithinLimit(v, ids) /\ UsedLeast(v, ids)}
  IN  {ids \in sets : \A i \in sets : Cardinality(i) <= Cardinality(ids)}

\* Mutant of UpdateManifest: a container keeps the time of its first use.
UpdateManifestOnce(v) ==
  manifest' = [id \in Used(v) \union DOMAIN manifest |->
                 IF id \in DOMAIN manifest THEN manifest[id] ELSE v]

UpdateManifest(v) ==
  manifest' = [id \in Used(v) \union DOMAIN manifest |->
                 IF id \in Used(v) THEN v ELSE manifest[id]]

\* The last container is sealed; stop_filter_phase calls close_har.
StopPhases ==
  /\ phase = "run" /\ left = <<>>
  /\ IF open = {}
     THEN UNCHANGED <<containers, table>>
     ELSE containers' = Append(containers, open) /\ table' = TableOfSealed
  /\ \E ids \in Trimmed(job) : sparse' = Append(sparse, ids)
  /\ UpdateManifest(job)
  /\ open' = {} /\ phase' = "ran"
  /\ UNCHANGED <<index, saved, recipe, flags, deleted, reclaimed, job, left, seg, stored,
                 fetched, inherited, todo, restoring, historyVars>>

\* update_backup_version writes the mark through metadata_fp, which
\* create_backup_version has opened with "w" and open_backup_version with "r":
\* what is written to a file that is open for reading is lost.
UpdateBackupVersion(v, mode, mark) ==
  deleted' = IF mode = "r" THEN deleted ELSE [deleted EXCEPT ![v + 1] = mark]

\* The stores are closed, and main decides whether a version has expired.
CloseBackup ==
  /\ phase = "ran"
  /\ saved' = job + 1
  /\ UpdateBackupVersion(job, "w", FALSE)
  /\ phase' = IF Retention >= 0 /\ job >= Retention THEN "gc" ELSE "idle"
  /\ UNCHANGED <<index, recipe, flags, sparse, manifest, reclaimed, table, containers,
                 job, jobVars, todo, restoring, historyVars>>

-----------------------------------------------------------------------------
(* The deletion of a version: do_delete(jcr.id - backup_retention_time).   *)

\* Mutant of jobid: a version too young.
jobidYounger == job - Retention + 1

jobid == job - Retention

\* Mutant of Invalid: the containers last used by the version stay.
InvalidBefore(v) == {id \in DOMAIN manifest : manifest[id] < v}

\* trunc_manifest: nobody but deleted versions refers to these containers.
Invalid(v) == {id \in DOMAIN manifest : manifest[id] <= v}

\* The units that leave the table with version v: the containers that are
\* reclaimed with it, or its segments.
UnitsOf(v) ==
  IF Physical THEN Invalid(v) ELSE ToSet(flags[v + 1])

Truncate ==
  /\ phase = "gc"
  /\ manifest' = [id \in DOMAIN manifest \ Invalid(jobid) |-> manifest[id]]
  /\ reclaimed' = reclaimed \union Invalid(jobid)
  /\ todo' = UnitsOf(jobid)
  /\ expired' = Max({expired, jobid + 1})
  /\ phase' = "entries"
  /\ UNCHANGED <<index, saved, recipe, flags, deleted, sparse, table, containers, job,
                 jobVars, restoring, backedUp>>

\* Containers in any order (a hash table), segments in that of the recipe.
NextUnit(u) == u \in todo /\ (~Physical => \A w \in todo : u[2] <= w[2])

\* delete_an_entry for each fingerprint of the container or segment u
DeleteEntries(u) ==
  /\ phase = "entries" /\ NextUnit(u)
  /\ table' = Forgotten({p[1] : p \in Pointers(u)}, u)
  /\ todo' = todo \ {u}
  /\ UNCHANGED <<index, saved, recipe, flags, deleted, sparse, manifest, reclaimed,
                 containers, phase, job, jobVars, restoring, historyVars>>

\* bv->deleted = 1; update_backup_version(bv); the stores are closed.
MarkDeleted ==
  /\ phase = "entries" /\ todo = {}
  /\ UpdateBackupVersion(jobid, "r", TRUE)
  /\ phase' = "idle"
  /\ UNCHANGED <<index, saved, recipe, flags, sparse, manifest, reclaimed, table,
                 containers, job, jobVars, todo, restoring, historyVars>>

-----------------------------------------------------------------------------
(* A restore changes no file.  How it reads the chunks is not its concern  *)
(* here, but which versions it accepts.                                    *)

StartRestore(v) ==
  /\ phase = "idle" /\ v < saved /\ ~deleted[v + 1]
  /\ restoring' = v /\ phase' = "restore"
  /\ UNCHANGED <<index, saved, recipe, flags, deleted, sparse, manifest, reclaimed,
                 table, containers, job, jobVars, todo, historyVars>>

EndRestore ==
  /\ phase = "restore"
  /\ restoring' = NoVersion /\ phase' = "idle"
  /\ UNCHANGED <<index, saved, recipe, flags, deleted, sparse, manifest, reclaimed,
                 table, containers, job, jobVars, todo, historyVars>>

Next ==
  \/ StartBackup \/ BackupChunk \/ StopPhases \/ CloseBackup
  \/ Truncate \/ (\E u \in todo : DeleteEntries(u)) \/ MarkDeleted
  \/ (\E v \in 0..(saved - 1) : StartRestore(v)) \/ EndRestore

Spec == Init /\ [][Next]_vars

-----------------------------------------------------------------------------
(* Properties.                                                             *)

Ids == 0..Len(containers)
Units == IF Physical THEN Ids ELSE (0..MaxVersions) \X Nat \X Nat

TypeOK ==
  /\ index \in Indexes
  /\ saved \in 0..MaxVersions /\ job \in NoVersion..(MaxVersions - 1)
  /\ phase \in {"idle", "run", "ran", "gc", "entries", "restore"}
  /\ recipe \in Seq(Seq(Fps \X Ids))
  /\ flags \in Seq(Seq((0..MaxVersions) \X Nat \X Nat))
  /\ deleted \in Seq(BOOLEAN)
  /\ sparse \in Seq(SUBSET Ids)
  /\ DOMAIN manifest \union reclaimed \subseteq Ids
  /\ \A id \in DOMAIN manifest : manifest[id] \in 0..(MaxVersions - 1)
  /\ table \in [Keys -> Seq(Units)]
  /\ \A f \in Keys : Len(table[f]) <= Length
  /\ containers \in Seq(SUBSET Fps)
  /\ left \in Seq(Fps) /\ seg \in Seq(Fps \X Ids)
  /\ stored \union open \subseteq Fps
  /\ fetched \union todo \subseteq Units
  /\ inherited \subseteq Ids
  /\ restoring \in NoVersion..(MaxVersions - 1)
  /\ expired \in Nat /\ backedUp \in Seq(Streams)

KeptVersions == expired..(saved - 1)

\* The placeholder of a segment is no fingerprint of its recipe, so that
\* do_delete leaves it in the table: what is said of the versions and of the
\* entries holds as long as no lookup by similarity can meet one.
NoPlaceholder == BySimilarity => table[Placeholder] = <<>>

\* What a restore of v can read: nothing from a container that was reclaimed.
Lost == 0
Restorable(v) ==
  [k \in DOMAIN Recipe(v) |->
     LET p == Recipe(v)[k]
     IN  IF /\ p[2] \notin reclaimed /\ p[2] < Len(containers)
            /\ p[1] \in Fingerprints(p[2])
         THEN p[1] ELSE Lost]

\* A version that is kept can be restored to what was backed up, whatever was
\* backed up, rewritten and deleted since (cma.c:79-80 reclaims containers by
\* a time that only the backups keep up to date).
KeptVersionsIntact ==
  NoPlaceholder => \A v \in KeptVersions : Restorable(v) = backedUp[v + 1]

\* "Delete the invalid entries in the key-value store" (do_delete.c:30, of the
\* entries that lead to what is deleted, 56-57): no version that is kept
\* has been deduplicated against a container that was reclaimed.
InvalidEntriesUnused == \A v \in KeptVersions : Used(v) \intersect reclaimed = {}

\* After a deletion an entry of the table leads to the chunk it is for, and to
\* no container that has been reclaimed, directly or through the recipe of a
\* deleted version: the next backup cannot deduplicate against data that is gone.
TableNamesLive ==
  phase = "idle" =>
    \A f \in Fps : \A u \in ToSet(table[f]) :
      /\ Holds(u, f)
      /\ NoPlaceholder => \A p \in Pointers(u) : p[2] \notin reclaimed

\* The manifest tells, for each container that a kept version refers to, the
\* last one that does; every other container has been reclaimed.
ManifestExact ==
  phase = "idle" =>
    /\ DOMAIN manifest = UNION {Used(v) : v \in KeptVersions}
    /\ \A id \in DOMAIN manifest :
         manifest[id] = Max({v \in KeptVersions : id \in Used(v)})
    /\ DOMAIN manifest \union reclaimed = 0..(Len(containers) - 1)

\* "the deleted one should be in the end" (kvstore_htable.c:254-261, an
\* assertion): an oldest version's segments are the oldest of every feature.
OldestLast ==
  phase = "entries" =>
    \A u \in todo, f \in Fps :
      NextUnit(u) /\ u \in ToSet(table[f]) => Last(table[f]) = u

\* The segments of a feature stand in the order in which they were written, the
\* latest first and none twice: the one that falls out is the oldest, and "a
\* feature twice" cannot happen (similarity_detection.c:77, an assertion).
TableInOrder ==
  ~Physical =>
    \A f \in Keys : \A i, j \in DOMAIN table[f] :
      i < j => Later(table[f][i], table[f][j])

\* A deletion takes from the table what belongs to the deleted version, and
\* nothing of what the kept versions need to be found by, in the order in which
\* the table is kept.
DeletionClean == TableNamesLive /\ OldestLast /\ TableInOrder

\* History-aware rewriting does what it is for: no backup refers to a
\* container that the backup before found sparse.
SparseForsaken ==
  \A v \in 1..(saved - 1) : sparse[v] \intersect Used(v) = {}

\* destor keeps the versions that the abstract specification keeps: a version
\* that could be restored when it was backed up can be until it is deleted, also
\* when a placeholder has made later ones doubtful.
V == INSTANCE Versions WITH
       Contents <- Streams,
       versions <- [v \in KeptVersions |-> Restorable(v)],
       next <- saved,
       sound <- NoPlaceholder
IsVersions == V!VSpec

\* "The backup has been deleted!" (jcr.c:95-98): a deleted version is not
\* restored.
DeletedRefused == restoring # NoVersion => restoring >= expired
=============================================================================
