--------------------------- MODULE LifecycleProofs ---------------------------
(***************************************************************************)
(* For all streams, retention times, index configurations and limits, and  *)
(* whatever the other algorithms rewrite: the versions that are kept can   *)
(* be restored to what was backed up, the table leads to nothing that was  *)
(* reclaimed, the manifest says of each container which kept version needs *)
(* it last, no backup refers to what the one before found sparse, and the  *)
(* jobs implement the abstract set of versions.  The first two hold as     *)
(* long as no placeholder can mislead the index (Lifecycle: NoPlaceholder);*)
(* the others, and that no kept version changes, always.                   *)
(*                                                                         *)
(* The argument is one of what a pointer or an entry of the table leads    *)
(* to.  A backup finds only what table, cache, open container and segment  *)
(* lead to, so its pointers lead to containers that are there; the         *)
(* manifest knows of them when the backup ends, so the deletion that       *)
(* follows spares them; and it clears the table of what it takes away.     *)
(*                                                                         *)
(* At the end, what Lifecycle takes for granted of the ids of segments.    *)
(***************************************************************************)
EXTENDS Lifecycle, SegmentIds, SequenceFacts, FiniteSetTheorems, TLAPS

Running == phase \in {"run", "ran"}
Deleting == phase \in {"gc", "entries"}

\* What the files and the phases have to do with one another.
Counted ==
  /\ Len(recipe) = IF Running THEN saved + 1 ELSE saved
  /\ Len(flags) = Len(recipe) /\ Len(backedUp) = Len(recipe) /\ Len(deleted) = Len(recipe)
  /\ Len(sparse) = IF phase = "ran" THEN saved + 1 ELSE saved
  /\ Running => job = saved /\ saved < MaxVersions
  /\ Deleting => job = saved - 1 /\ Retention >= 0 /\ job >= Retention
  /\ phase # "run" => open = {} /\ left = <<>>
  /\ phase # "entries" => todo = {}
  /\ left = <<>> => seg = <<>>

\* Versions expire one by one, and none too many.
ExpiredInTurn ==
  expired = IF Retention < 0 \/ saved <= Retention THEN 0
            ELSE IF phase = "gc" THEN saved - 1 - Retention ELSE saved - Retention

\* The recipe, the segment under way and what is left are the stream.
Contents ==
  /\ \A v \in 0 .. saved - 1 :
       /\ Len(Recipe(v)) = Len(backedUp[v + 1])
       /\ \A k \in DOMAIN Recipe(v) : Recipe(v)[k][1] = backedUp[v + 1][k]
  /\ Running =>
       /\ Len(Recipe(job)) + Len(seg) + Len(left) = Len(backedUp[job + 1])
       /\ \A k \in DOMAIN Recipe(job) : Recipe(job)[k][1] = backedUp[job + 1][k]
       /\ \A k \in DOMAIN seg : seg[k][1] = backedUp[job + 1][Len(Recipe(job)) + k]
       /\ \A k \in DOMAIN left :
            left[k] = backedUp[job + 1][Len(Recipe(job)) + Len(seg) + k]

\* A pointer leads to a container that holds the chunk, and that has not been
\* reclaimed if no placeholder has misled the index, or to the open container.
Stands(p) == p[2] < Len(containers) /\ p[1] \in Fingerprints(p[2])
Live(p) == Stands(p) /\ (NoPlaceholder => p[2] \notin reclaimed)
Held(p) == Live(p) \/ (p[2] = Len(containers) /\ p[1] \in open)

PointersLive ==
  /\ \A v \in 0 .. saved - 1 : \A k \in DOMAIN Recipe(v) : Stands(Recipe(v)[k])
  /\ \A v \in expired .. saved - 1 : \A k \in DOMAIN Recipe(v) : Live(Recipe(v)[k])
  /\ Running => \A k \in DOMAIN Recipe(job) : Held(Recipe(job)[k])
  /\ \A k \in DOMAIN seg : Held(seg[k])

\* The manifest knows of each pointer of the versions it was brought up to date
\* with, and says nothing else.
ManifestTimes ==
  /\ \A v \in expired .. Len(sparse) - 1 : \A k \in DOMAIN Recipe(v) :
       Recipe(v)[k][2] \in DOMAIN manifest /\ manifest[Recipe(v)[k][2]] >= v
  /\ \A id \in DOMAIN manifest :
       /\ manifest[id] \in expired .. Len(sparse) - 1
       /\ \E k \in DOMAIN Recipe(manifest[id]) : Recipe(manifest[id])[k][2] = id

\* Every container is in the manifest, or reclaimed, or of the backup that runs.
UsedNow(id) ==
  \/ \E k \in DOMAIN Recipe(job) : Recipe(job)[k][2] = id
  \/ \E k \in DOMAIN seg : seg[k][2] = id
Accounted ==
  /\ \A id \in 0 .. Len(containers) - 1 :
       id \in DOMAIN manifest \union reclaimed \/ (phase = "run" /\ UsedNow(id))
  /\ open # {} => UsedNow(Len(containers))
  /\ \A id \in reclaimed : id < Len(containers)

\* The segments of a version lie in its recipe.
FlagsWithin ==
  \A v \in 0 .. Len(flags) - 1 : \A i \in DOMAIN flags[v + 1] :
    LET u == flags[v + 1][i]
    IN  u[1] = v /\ u[3] > 0 /\ Behind(u) <= Len(Recipe(v))

\* A unit can be read, and is not on the way out.
Readable(u) ==
  IF Physical THEN u < Len(containers)
  ELSE u[1] < Len(flags) /\ u \in ToSet(flags[u[1] + 1])
Fresh(u) ==
  IF Physical THEN u \notin reclaimed \/ u \in todo
  ELSE u[1] >= expired \/ u \in todo
Lists(u, f) ==
  IF Physical THEN f \in Fingerprints(u)
  ELSE \E k \in u[2] + 1 .. Behind(u) : Recipe(u[1])[k][1] = f

\* Table and cache lead to units that can be read.  An entry leads to its chunk,
\* as do those that the segment under way will get, and goes with its version;
\* but one under the placeholder stays, and so may what was fetched by it.
Leads(u, f) == Readable(u) /\ (f \in Fps => Fresh(u) /\ Lists(u, f))
Trusted(u) == Readable(u) /\ (NoPlaceholder => Fresh(u))
EntriesLead == \A f \in Keys : \A i \in DOMAIN table[f] : Leads(table[f][i], f)
TableLeads ==
  /\ EntriesLead
  /\ phase = "run" => \A u \in fetched : Trusted(u)
  /\ \A f \in stored : \E k \in DOMAIN seg : seg[k][1] = f

\* What do_delete still has to delete is of the version that has just expired.
TodoExpired ==
  \A u \in todo : IF Physical THEN u \in reclaimed
                  ELSE u[1] = expired - 1 /\ u \in ToSet(flags[expired])

\* No pointer of a version leads to what the version before found sparse.
Forsaken ==
  /\ \A v \in 1 .. saved - 1 : \A k \in DOMAIN Recipe(v) : Recipe(v)[k][2] \notin sparse[v]
  /\ phase = "run" =>
       /\ inherited = Inherited(job)
       /\ \A k \in DOMAIN Recipe(job) : Recipe(job)[k][2] \notin inherited
       /\ \A k \in DOMAIN seg : seg[k][2] \notin inherited
  /\ phase = "ran" /\ job > 0 => \A k \in DOMAIN Recipe(job) : Recipe(job)[k][2] \notin sparse[job]
  /\ \A v \in DOMAIN sparse : \A id \in sparse[v] : id < Len(containers)

IInv ==
  /\ TypeOK /\ Counted /\ ExpiredInTurn /\ Contents /\ PointersLive
  /\ ManifestTimes /\ Accounted
  /\ FlagsWithin /\ TableLeads /\ TableInOrder /\ TodoExpired /\ Forsaken

-----------------------------------------------------------------------------
(* The shapes of the variables.                                            *)

\* The numbers, and the lengths of the sequences.
LEMMA NumberShapes ==
  ASSUME TypeOK
  PROVE  /\ saved \in Nat /\ job \in Int /\ expired \in Nat /\ Retention \in Int
         /\ MaxVersions \in Nat /\ Capacity \in Nat \ {0} /\ SegmentSize \in Nat \ {0}
         /\ Length \in Nat \ {0} /\ Len(containers) \in Nat /\ Ids \subseteq Nat
         /\ Len(recipe) \in Nat /\ Len(flags) \in Nat /\ Len(sparse) \in Nat
         /\ Len(backedUp) \in Nat /\ Len(deleted) \in Nat
         /\ Len(left) \in Nat /\ Len(seg) \in Nat
  <1>1. /\ MaxVersions \in Nat /\ Capacity \in Nat \ {0} /\ SegmentSize \in Nat \ {0}
        /\ ValueLength \in Nat \ {0} /\ Retention \in Int
    BY LifecycleAssumption
  <1>2. \A S : \A q \in Seq(S) : Len(q) \in Nat
    BY SeqFacts
  <1>3. Len(containers) \in Nat /\ Len(sparse) \in Nat /\ Len(deleted) \in Nat
    BY <1>2 DEF TypeOK
  <1>4. Len(recipe) \in Nat /\ Len(flags) \in Nat /\ Len(backedUp) \in Nat
    BY <1>2 DEF TypeOK
  <1>5. Len(left) \in Nat /\ Len(seg) \in Nat
    BY <1>2 DEF TypeOK
  <1>6. saved \in Nat /\ job \in Int /\ expired \in Nat
    BY <1>1 DEF TypeOK, NoVersion
  <1> QED
    BY <1>1, <1>3, <1>4, <1>5, <1>6 DEF Ids, Length

\* A pointer is a fingerprint and a container.
LEMMA PointerShape ==
  ASSUME TypeOK, NEW p \in Fps \X Ids
  PROVE  /\ p[1] \in Fps /\ p[2] \in 0 .. Len(containers) /\ p[2] \in Nat
         /\ p = <<p[1], p[2]>>
  BY NumberShapes DEF Ids

\* The recipe of a version is a sequence of pointers.
LEMMA RecipeShape ==
  ASSUME TypeOK, NEW v \in 0 .. Len(recipe) - 1
  PROVE  /\ Recipe(v) \in Seq(Fps \X Ids)
         /\ Len(Recipe(v)) \in Nat /\ DOMAIN Recipe(v) = 1 .. Len(Recipe(v))
         /\ \A k \in DOMAIN Recipe(v) : Recipe(v)[k] \in Fps \X Ids
  <1> DEFINE P == Fps \X Ids
  <1>1. recipe \in Seq(Seq(P))
    BY DEF TypeOK
  <1> HIDE DEF P
  <1>2. v + 1 \in 1 .. Len(recipe)
    BY NumberShapes
  <1>3. Recipe(v) \in Seq(P)
    BY <1>1, <1>2, ElementOfSeq DEF Recipe
  <1>4. /\ Len(Recipe(v)) \in Nat /\ DOMAIN Recipe(v) = 1 .. Len(Recipe(v))
        /\ \A k \in 1 .. Len(Recipe(v)) : Recipe(v)[k] \in P
    BY <1>3, SeqFacts
  <1> QED
    BY <1>3, <1>4 DEF P

\* The segments of a version are triples of numbers.
LEMMA FlagShape ==
  ASSUME TypeOK, NEW v \in 0 .. Len(flags) - 1
  PROVE  /\ flags[v + 1] \in Seq((0 .. MaxVersions) \X Nat \X Nat)
         /\ Len(flags[v + 1]) \in Nat /\ DOMAIN flags[v + 1] = 1 .. Len(flags[v + 1])
         /\ \A i \in DOMAIN flags[v + 1] :
              LET u == flags[v + 1][i]
              IN  /\ u \in (0 .. MaxVersions) \X Nat \X Nat
                  /\ u[1] \in Nat /\ u[2] \in Nat /\ u[3] \in Nat
  <1> DEFINE P == (0 .. MaxVersions) \X Nat \X Nat
  <1>1. flags \in Seq(Seq(P))
    BY DEF TypeOK
  <1>2. \A u \in P : u[1] \in Nat /\ u[2] \in Nat /\ u[3] \in Nat
    BY NumberShapes
  <1> HIDE DEF P
  <1>3. v + 1 \in 1 .. Len(flags)
    BY NumberShapes
  <1>4. flags[v + 1] \in Seq(P)
    BY <1>1, <1>3, ElementOfSeq
  <1>5. /\ Len(flags[v + 1]) \in Nat /\ DOMAIN flags[v + 1] = 1 .. Len(flags[v + 1])
        /\ \A i \in 1 .. Len(flags[v + 1]) : flags[v + 1][i] \in P
    BY <1>4, SeqFacts
  <1> QED
    BY <1>2, <1>4, <1>5 DEF P

\* The segment under way, and what is left of the stream.
LEMMA JobShape ==
  ASSUME TypeOK
  PROVE  /\ DOMAIN seg = 1 .. Len(seg)
         /\ \A k \in DOMAIN seg : seg[k] \in Fps \X Ids
         /\ DOMAIN left = 1 .. Len(left)
         /\ \A k \in DOMAIN left : left[k] \in Fps
         /\ (left = <<>> <=> Len(left) = 0) /\ (seg = <<>> <=> Len(seg) = 0)
  <1> DEFINE P == Fps \X Ids
  <1>1. seg \in Seq(P) /\ left \in Seq(Fps)
    BY DEF TypeOK
  <1> HIDE DEF P
  <1>2. /\ DOMAIN seg = 1 .. Len(seg) /\ (seg = <<>> <=> Len(seg) = 0)
        /\ \A k \in 1 .. Len(seg) : seg[k] \in P
    BY <1>1, SeqFacts
  <1>3. /\ DOMAIN left = 1 .. Len(left) /\ (left = <<>> <=> Len(left) = 0)
        /\ \A k \in 1 .. Len(left) : left[k] \in Fps
    BY <1>1, SeqFacts
  <1> QED
    BY <1>2, <1>3 DEF P

\* What was backed up are streams.
LEMMA StreamShape ==
  ASSUME TypeOK, NEW v \in 0 .. Len(backedUp) - 1
  PROVE  /\ backedUp[v + 1] \in Streams
         /\ backedUp[v + 1] \in Seq(Fps)
         /\ Len(backedUp[v + 1]) \in Nat
         /\ DOMAIN backedUp[v + 1] = 1 .. Len(backedUp[v + 1])
  <1>1. v + 1 \in 1 .. Len(backedUp)
    BY NumberShapes
  <1>2. backedUp[v + 1] \in Streams
    BY <1>1, ElementOfSeq DEF TypeOK
  <1>3. backedUp[v + 1] \in Seq(Fps)
    BY <1>2, LifecycleAssumption
  <1> QED
    BY <1>2, <1>3, SeqFacts

\* The units of a fingerprint, and the sets of the other sequences.
LEMMA TableShape ==
  ASSUME TypeOK, NEW f \in Keys
  PROVE  /\ table[f] \in Seq(Units)
         /\ Len(table[f]) \in Nat /\ DOMAIN table[f] = 1 .. Len(table[f])
         /\ Len(table[f]) <= Length
         /\ \A i \in DOMAIN table[f] : table[f][i] \in Units
  <1>1. table[f] \in Seq(Units) /\ Len(table[f]) <= Length
    BY DEF TypeOK
  <1> QED
    BY <1>1, SeqFacts

\* A fingerprint is a key of the table, and is not the placeholder.
LEMMA FpsAreKeys == Fps \subseteq Keys /\ Placeholder \in Keys /\ Placeholder \notin Fps
  BY LifecycleAssumption DEF Keys, Placeholder

\* Whether a placeholder can mislead the index is a matter of index and table.
LEMMA SamePlaceholder ==
  UNCHANGED <<index, table>> => (NoPlaceholder' <=> NoPlaceholder)
  BY DEF NoPlaceholder, BySimilarity, Physical

\* The containers, and the sparse ones of each version.
LEMMA SetShapes ==
  ASSUME TypeOK
  PROVE  /\ DOMAIN containers = 1 .. Len(containers)
         /\ \A id \in 0 .. Len(containers) - 1 : Fingerprints(id) \subseteq Fps
         /\ DOMAIN sparse = 1 .. Len(sparse)
         /\ \A v \in DOMAIN sparse : sparse[v] \subseteq Ids
  <1>1. containers \in Seq(SUBSET Fps) /\ sparse \in Seq(SUBSET Ids)
    BY DEF TypeOK
  <1>2. /\ DOMAIN containers = 1 .. Len(containers)
        /\ \A c \in 1 .. Len(containers) : containers[c] \in SUBSET Fps
    BY <1>1, SeqFacts
  <1>3. /\ DOMAIN sparse = 1 .. Len(sparse)
        /\ \A v \in 1 .. Len(sparse) : sparse[v] \in SUBSET Ids
    BY <1>1, SeqFacts
  <1>4. \A id \in 0 .. Len(containers) - 1 : id + 1 \in 1 .. Len(containers)
    BY NumberShapes
  <1> QED
    BY <1>2, <1>3, <1>4 DEF Fingerprints

\* A unit of logical locality is a triple of numbers.
LEMMA UnitShape ==
  ASSUME TypeOK, NEW u \in Units
  PROVE  IF Physical THEN u \in 0 .. Len(containers) /\ u \in Nat
         ELSE u[1] \in Nat /\ u[2] \in Nat /\ u[3] \in Nat /\ u = <<u[1], u[2], u[3]>>
  <1>1. CASE Physical
    BY <1>1, NumberShapes DEF Units, Ids
  <1>2. CASE ~Physical
    BY <1>2, NumberShapes DEF Units
  <1> QED
    BY <1>1, <1>2

-----------------------------------------------------------------------------
(* Before the first backup.                                                *)

\* The invariant holds of an empty store.
LEMMA InitIInv == Init => IInv
  <1> SUFFICES ASSUME Init PROVE IInv
    OBVIOUS
  <1>1. /\ \A S : <<>> \in Seq(S)
        /\ Len(<<>>) = 0 /\ DOMAIN <<>> = {}
    BY EmptySeq
  <1>2. MaxVersions \in Nat /\ ValueLength \in Nat \ {0} /\ Retention \in Int
    BY LifecycleAssumption
  <1>3. DOMAIN manifest = {} /\ reclaimed = {}
    BY DEF Init
  <1>4. table \in [Keys -> Seq(Units)] /\ \A f \in Keys : table[f] = <<>>
    BY <1>1 DEF Init
  <1>5. TypeOK
    <2>1. \A f \in Keys : Len(table[f]) <= Length
      BY <1>1, <1>2, <1>4 DEF Length
    <2>2. /\ recipe \in Seq(Seq(Fps \X Ids)) /\ deleted \in Seq(BOOLEAN)
          /\ flags \in Seq(Seq((0..MaxVersions) \X Nat \X Nat))
          /\ sparse \in Seq(SUBSET Ids) /\ containers \in Seq(SUBSET Fps)
          /\ left \in Seq(Fps) /\ seg \in Seq(Fps \X Ids) /\ backedUp \in Seq(Streams)
      BY <1>1 DEF Init
    <2>3. /\ index \in Indexes /\ saved \in 0..MaxVersions /\ phase = "idle"
          /\ job \in NoVersion..(MaxVersions - 1) /\ restoring \in NoVersion..(MaxVersions - 1)
          /\ expired \in Nat
      BY <1>2 DEF Init, NoVersion
    <2>4. /\ stored \union open \subseteq Fps /\ fetched \union todo \subseteq Units
          /\ inherited \subseteq Ids
      BY DEF Init
    <2> QED
      BY <1>3, <1>4, <2>1, <2>2, <2>3, <2>4 DEF TypeOK
  <1>6. phase = "idle" /\ saved = 0 /\ job = NoVersion /\ expired = 0
    BY DEF Init
  <1>7. Counted /\ ExpiredInTurn
    BY <1>1, <1>2, <1>6 DEF Init, Counted, ExpiredInTurn, Running, Deleting
  <1>8. Contents /\ PointersLive
    BY <1>1, <1>6 DEF Init, Contents, PointersLive, Running
  <1>9. ManifestTimes /\ Accounted
    BY <1>1, <1>3, <1>6 DEF Init, ManifestTimes, Accounted
  <1>10. FlagsWithin /\ Forsaken /\ TodoExpired
    BY <1>1, <1>6 DEF Init, FlagsWithin, Forsaken, TodoExpired
  <1>11. TableLeads /\ TableInOrder
    BY <1>1, <1>4, <1>6, FpsAreKeys DEF Init, EntriesLead, TableLeads, TableInOrder
  <1> QED
    BY <1>5, <1>7, <1>8, <1>9, <1>10, <1>11 DEF IInv

-----------------------------------------------------------------------------
(* Steps that touch no file but the mark of a version.                     *)

Quiet ==
  /\ UNCHANGED <<index, saved, recipe, flags, sparse, manifest, reclaimed, table, containers,
                 job, jobVars, todo, historyVars>>
  /\ deleted' \in Seq(BOOLEAN) /\ Len(deleted') = Len(deleted)
  /\ restoring' \in NoVersion..(MaxVersions - 1)
  /\ \/ phase' = phase
     \/ phase \in {"idle", "restore", "entries"} /\ phase' \in {"idle", "restore"} /\ todo = {}

\* A step that touches neither files nor job keeps the invariant.
LEMMA QuietIInv == IInv /\ Quiet => IInv'
  <1> SUFFICES ASSUME IInv, Quiet PROVE IInv'
    OBVIOUS
  <1>1. /\ index' = index /\ saved' = saved /\ recipe' = recipe /\ flags' = flags
        /\ sparse' = sparse /\ manifest' = manifest /\ reclaimed' = reclaimed
        /\ table' = table /\ containers' = containers /\ job' = job /\ left' = left
        /\ seg' = seg /\ stored' = stored /\ fetched' = fetched /\ inherited' = inherited
        /\ open' = open /\ todo' = todo /\ expired' = expired /\ backedUp' = backedUp
    BY DEF Quiet, jobVars, historyVars
  <1>2. /\ Running' = Running /\ (phase' = "run" <=> phase = "run")
        /\ (phase' = "ran" <=> phase = "ran") /\ (phase' = "gc" <=> phase = "gc")
        /\ Deleting' => Deleting
        /\ phase' # "entries" => todo' = {}
    BY <1>1 DEF Quiet, Running, Deleting, IInv, Counted
  <1>3. TypeOK'
    <2>1. Ids' = Ids /\ Units' = Units /\ Length' = Length
      BY <1>1 DEF Ids, Units, Length, Physical
    <2>2. phase' \in {"idle", "run", "ran", "gc", "entries", "restore"}
      BY DEF Quiet, IInv, TypeOK
    <2> QED
      BY <1>1, <2>1, <2>2 DEF IInv, TypeOK, Quiet
  <1>4. Counted'
    BY <1>1, <1>2 DEF IInv, Counted, Quiet
  <1>5. ExpiredInTurn'
    BY <1>1, <1>2 DEF IInv, ExpiredInTurn
  <1>6. Contents'
    BY <1>1, <1>2 DEF IInv, Contents, Recipe
  <1>7. PointersLive'
    BY <1>1, <1>2, SamePlaceholder
       DEF IInv, PointersLive, Recipe, Held, Live, Stands, Fingerprints
  <1>8. ManifestTimes'
    BY <1>1 DEF IInv, ManifestTimes, Recipe
  <1>9. Accounted'
    BY <1>1, <1>2 DEF IInv, Accounted, UsedNow, Recipe
  <1>10. FlagsWithin'
    BY <1>1 DEF IInv, FlagsWithin, Recipe, Behind
  <1>11. TableLeads'
    BY <1>1, <1>2, SamePlaceholder
       DEF IInv, EntriesLead, TableLeads, Leads, Trusted, Readable, Fresh, Lists, Recipe,
           Behind, Physical, Fingerprints
  <1>12. TableInOrder'
    BY <1>1 DEF IInv, TableInOrder, Physical
  <1>13. TodoExpired'
    BY <1>1 DEF IInv, TodoExpired, Physical
  <1>14. Forsaken'
    BY <1>1, <1>2 DEF IInv, Forsaken, Inherited, Recipe
  <1> QED
    BY <1>3, <1>4, <1>5, <1>6, <1>7, <1>8, <1>9, <1>10, <1>11, <1>12, <1>13, <1>14 DEF IInv

\* The mark of a deletion is lost, so that the file stays as it is.
LEMMA MarkDeletedQuiet == IInv /\ MarkDeleted => Quiet
  BY DEF IInv, TypeOK, MarkDeleted, UpdateBackupVersion, Quiet

\* A restore changes no file when it starts...
LEMMA StartRestoreQuiet ==
  ASSUME IInv, NEW v \in 0..(saved - 1), StartRestore(v)
  PROVE  Quiet
  <1>1. v \in NoVersion..(MaxVersions - 1)
    BY NumberShapes, SMTT(30) DEF IInv, TypeOK, NoVersion
  <1> QED
    BY <1>1 DEF IInv, TypeOK, Counted, StartRestore, Quiet

\* ...nor when it ends.
LEMMA EndRestoreQuiet == IInv /\ EndRestore => Quiet
  <1>1. NoVersion \in NoVersion..(MaxVersions - 1)
    BY LifecycleAssumption DEF NoVersion
  <1> QED
    BY <1>1 DEF IInv, TypeOK, Counted, EndRestore, Quiet

\* Neither does a step that changes nothing.
LEMMA StutterQuiet == IInv /\ UNCHANGED vars => Quiet
  BY DEF IInv, TypeOK, vars, jobVars, historyVars, Quiet

-----------------------------------------------------------------------------
(* A backup starts and ends.                                               *)

\* A new version has an empty recipe, the others keep theirs.
LEMMA StartBackupIInv ==
  ASSUME IInv, StartBackup
  PROVE  IInv'
  <1> USE DEF IInv
  <1>1. PICK stream \in Streams :
          /\ left' = stream /\ backedUp' = Append(backedUp, stream)
    BY DEF StartBackup
  <1>2. /\ phase = "idle" /\ phase' = "run" /\ saved < MaxVersions /\ job' = saved
        /\ recipe' = Append(recipe, <<>>) /\ flags' = Append(flags, <<>>)
        /\ deleted' = Append(deleted, FALSE) /\ inherited' = Inherited(saved)
        /\ seg' = <<>> /\ stored' = {} /\ fetched' = {} /\ open' = {}
        /\ index' = index /\ saved' = saved /\ sparse' = sparse /\ manifest' = manifest
        /\ reclaimed' = reclaimed /\ table' = table /\ containers' = containers
        /\ todo' = todo /\ restoring' = restoring /\ expired' = expired
    BY DEF StartBackup
  <1>3. /\ Len(recipe) = saved /\ Len(flags) = saved /\ Len(backedUp) = saved
        /\ Len(deleted) = saved /\ Len(sparse) = saved /\ saved \in Nat
        /\ todo = {} /\ open = {} /\ seg = <<>>
    BY <1>2, NumberShapes DEF Counted, Running
  <1>4. /\ Ids' = Ids /\ Units' = Units /\ Length' = Length /\ Physical' = Physical
    BY <1>2 DEF Ids, Units, Length, Physical
  <1>5. Running' /\ ~Deleting'
    BY <1>2 DEF Running, Deleting
  <1>6. /\ recipe' \in Seq(Seq(Fps \X Ids)) /\ Len(recipe') = saved + 1
        /\ recipe'[saved + 1] = <<>>
        /\ \A k \in 1 .. saved : recipe'[k] = recipe[k]
    <2> DEFINE P == Seq(Fps \X Ids)
    <2>1. <<>> \in P /\ recipe \in Seq(P)
      BY EmptySeq DEF TypeOK
    <2> HIDE DEF P
    <2>2. recipe' \in Seq(P) /\ Len(recipe') = saved + 1 /\ recipe'[saved + 1] = <<>>
          /\ \A k \in 1 .. saved : recipe'[k] = recipe[k]
      BY <1>2, <1>3, <2>1, AppendFacts
    <2> QED
      BY <2>2 DEF P
  <1>7. /\ flags' \in Seq(Seq((0..MaxVersions) \X Nat \X Nat)) /\ Len(flags') = saved + 1
        /\ flags'[saved + 1] = <<>>
        /\ \A k \in 1 .. saved : flags'[k] = flags[k]
    <2> DEFINE P == Seq((0..MaxVersions) \X Nat \X Nat)
    <2>1. <<>> \in P /\ flags \in Seq(P)
      BY EmptySeq DEF TypeOK
    <2> HIDE DEF P
    <2>2. flags' \in Seq(P) /\ Len(flags') = saved + 1 /\ flags'[saved + 1] = <<>>
          /\ \A k \in 1 .. saved : flags'[k] = flags[k]
      BY <1>2, <1>3, <2>1, AppendFacts
    <2> QED
      BY <2>2 DEF P
  <1>8. /\ backedUp' \in Seq(Streams) /\ Len(backedUp') = saved + 1
        /\ backedUp'[saved + 1] = stream
        /\ \A k \in 1 .. saved : backedUp'[k] = backedUp[k]
    BY <1>1, <1>3, AppendFacts DEF TypeOK
  <1>9. deleted' \in Seq(BOOLEAN) /\ Len(deleted') = saved + 1
    BY <1>2, <1>3, AppendFacts DEF TypeOK
  <1>10. stream \in Seq(Fps) /\ Len(stream) \in Nat /\ DOMAIN stream = 1 .. Len(stream)
    BY LifecycleAssumption, SeqFacts
  <1>11. /\ \A v \in 0 .. saved - 1 : Recipe(v)' = Recipe(v)
         /\ Recipe(saved)' = <<>>
    BY <1>2, <1>3, <1>6 DEF Recipe
  <1>12. Len(<<>>) = 0 /\ DOMAIN <<>> = {}
    BY EmptySeq
  <1>13. \A v \in 0 .. saved - 1 : v + 1 \in 1 .. saved
    BY <1>3
  <1>14. inherited' = Inherited(job)' /\ inherited' \subseteq Ids
    <2>1. inherited' = Inherited(job)'
      BY <1>2 DEF Inherited
    <2>2. CASE saved > 0
      <3>1. saved \in DOMAIN sparse
        BY <1>3, <2>2, SetShapes
      <3> QED
        BY <1>2, <2>2, <3>1, SetShapes DEF Inherited
    <2>3. CASE ~(saved > 0)
      BY <1>2, <2>3 DEF Inherited
    <2> QED
      BY <2>1, <2>2, <2>3
  <1>15. TypeOK'
    <2>1. /\ job' \in NoVersion..(MaxVersions - 1)
          /\ phase' \in {"idle", "run", "ran", "gc", "entries", "restore"}
          /\ left' \in Seq(Fps) /\ seg' \in Seq(Fps \X Ids)
          /\ fetched' \union todo' \subseteq Units /\ stored' \union open' \subseteq Fps
      BY <1>1, <1>2, <1>3, <1>10, EmptySeq, LifecycleAssumption DEF NoVersion, TypeOK
    <2> QED
      BY <1>2, <1>4, <1>6, <1>7, <1>8, <1>9, <1>14, <2>1 DEF TypeOK
  <1>16. Counted'
    BY <1>2, <1>3, <1>5, <1>6, <1>7, <1>8, <1>9 DEF Counted
  <1>17. ExpiredInTurn'
    BY <1>2 DEF ExpiredInTurn
  <1>18. Contents'
    <2>1. \A v \in 0 .. saved - 1 : backedUp'[v + 1] = backedUp[v + 1]
      BY <1>8, <1>13
    <2>2. \A v \in 0 .. saved - 1 :
            /\ Len(Recipe(v)') = Len(backedUp'[v + 1])
            /\ \A k \in DOMAIN Recipe(v)' : Recipe(v)'[k][1] = backedUp'[v + 1][k]
      BY <1>11, <2>1 DEF Contents
    <2>3. /\ Len(Recipe(job)') = 0 /\ DOMAIN Recipe(job)' = {} /\ Len(seg') = 0
          /\ DOMAIN seg' = {} /\ backedUp'[job' + 1] = left'
          /\ Recipe(job)' = Recipe(saved)'
      BY <1>1, <1>2, <1>8, <1>11, <1>12 DEF Recipe
    <2>4. /\ Len(Recipe(job)') + Len(seg') + Len(left') = Len(backedUp'[job' + 1])
          /\ \A k \in DOMAIN left' :
               left'[k] = backedUp'[job' + 1][Len(Recipe(job)') + Len(seg') + k]
      BY <1>1, <1>10, <2>3
    <2> QED
      BY <1>2, <2>2, <2>3, <2>4 DEF Contents
  <1>19. PointersLive'
    <2>1. ASSUME NEW v \in expired .. saved - 1, NEW k \in DOMAIN Recipe(v)
          PROVE  Live(Recipe(v)[k])'
      <3>1. v \in 0 .. saved - 1
        BY NumberShapes, SMTT(30)
      <3>2. Live(Recipe(v)[k]) /\ Recipe(v)' = Recipe(v)
        BY <1>11, <3>1 DEF PointersLive
      <3> QED
        BY <1>2, <3>2, SamePlaceholder DEF Live, Stands, Fingerprints
    <2>2. \A v \in expired .. saved - 1 : v \in 0 .. saved - 1
      BY NumberShapes, SMTT(30)
    <2>3. DOMAIN Recipe(job)' = {} /\ DOMAIN seg' = {}
      BY <1>2, <1>11, <1>12 DEF Recipe
    <2>4. \A v \in 0 .. saved - 1 : \A k \in DOMAIN Recipe(v)' : Stands(Recipe(v)[k])'
      BY <1>2, <1>11 DEF PointersLive, Stands, Fingerprints
    <2> QED
      BY <1>2, <1>11, <2>1, <2>2, <2>3, <2>4 DEF PointersLive
  <1>20. ManifestTimes'
    <2>1. \A v \in expired .. Len(sparse) - 1 : Recipe(v)' = Recipe(v)
      BY <1>3, <1>11, NumberShapes
    <2> QED
      BY <1>2, <2>1 DEF ManifestTimes
  <1>21. Accounted'
    BY <1>2, <1>3 DEF Accounted
  <1>22. FlagsWithin'
    <2>1. ASSUME NEW v \in 0 .. Len(flags') - 1, NEW i \in DOMAIN flags'[v + 1]
          PROVE  LET u == flags'[v + 1][i]
                 IN  u[1] = v /\ u[3] > 0 /\ Behind(u) <= Len(Recipe(v)')
      <3>1. v # saved
        BY <1>7, <1>12
      <3>2. v \in 0 .. saved - 1
        BY <1>3, <1>7, <3>1
      <3>3. flags'[v + 1] = flags[v + 1] /\ Recipe(v)' = Recipe(v)
        BY <1>7, <1>11, <1>13, <3>2
      <3> QED
        BY <1>3, <3>2, <3>3 DEF FlagsWithin
    <2> QED
      BY <2>1 DEF FlagsWithin, Behind
  <1>23. TableLeads'
    <2>1. ASSUME NEW f, NEW u \in Units, Leads(u, f)
          PROVE  Leads(u, f)'
      <3>1. CASE Physical
        BY <1>2, <1>4, <2>1, <3>1 DEF Leads, Readable, Fresh, Lists, Fingerprints
      <3>2. CASE ~Physical
        <4>1. u[1] \in 0 .. saved - 1
          BY <1>3, <2>1, <3>2, UnitShape DEF Leads, Readable
        <4>2. flags'[u[1] + 1] = flags[u[1] + 1] /\ Recipe(u[1])' = Recipe(u[1])
          BY <1>7, <1>11, <1>13, <4>1
        <4>3. u[1] < Len(flags')
          BY <1>3, <1>7, <4>1
        <4> QED
          BY <1>2, <1>4, <2>1, <3>2, <4>2, <4>3 DEF Leads, Readable, Fresh, Lists, Behind
      <3> QED
        BY <3>1, <3>2
    <2>2. \A f \in Keys : \A i \in DOMAIN table[f] :
            table[f][i] \in Units /\ Leads(table[f][i], f)
      BY TableShape DEF EntriesLead, TableLeads
    <2> HIDE DEF IInv
    <2>3. \A f \in Keys : \A u \in Units : Leads(u, f) => Leads(u, f)'
      BY <2>1
    <2> QED
      BY <1>2, <2>2, <2>3 DEF EntriesLead, TableLeads
  <1>24. TableInOrder'
    BY <1>2, <1>4 DEF TableInOrder
  <1>25. TodoExpired'
    BY <1>2, <1>3 DEF TodoExpired
  <1>26. Forsaken'
    <2>1. \A v \in 1 .. saved - 1 : Recipe(v)' = Recipe(v)
      BY <1>11
    <2>2. DOMAIN Recipe(job)' = {} /\ DOMAIN seg' = {}
      BY <1>2, <1>11, <1>12 DEF Recipe
    <2>3. \A v \in 1 .. saved - 1 : \A k \in DOMAIN Recipe(v)' : Recipe(v)'[k][2] \notin sparse[v]
      BY <2>1 DEF Forsaken
    <2>4. \A v \in DOMAIN sparse : \A id \in sparse[v] : id < Len(containers)
      BY DEF Forsaken
    <2> QED
      BY <1>2, <1>14, <2>2, <2>3, <2>4 DEF Forsaken
  <1> QED
    BY <1>15, <1>16, <1>17, <1>18, <1>19, <1>20, <1>21, <1>22, <1>23, <1>24, <1>25, <1>26

-----------------------------------------------------------------------------
(* The table is brought up to date, and a container is sealed.             *)

\* kv_update puts the new unit in front and cuts what is too long.
InFront(u, q, n) ==
  LET all == <<u>> \o q IN SubSeq(all, 1, Min({Len(all), n}))

\* The new unit is the first; those that stay keep their order.
LEMMA PutInFront ==
  ASSUME NEW U, NEW u \in U, NEW q \in Seq(U), NEW n \in Nat \ {0}, Len(q) <= n
  PROVE  /\ InFront(u, q, n) \in Seq(U) /\ Len(InFront(u, q, n)) <= n
         /\ Len(InFront(u, q, n)) \in 1 .. Len(q) + 1
         /\ InFront(u, q, n)[1] = u
         /\ \A i \in 2 .. Len(InFront(u, q, n)) :
              i - 1 \in 1 .. Len(q) /\ InFront(u, q, n)[i] = q[i - 1]
  <1> DEFINE all == <<u>> \o q
             m == Min({Len(all), n})
  <1>1. <<u>> \in Seq(U) /\ Len(<<u>>) = 1 /\ <<u>>[1] = u
    BY AppendFacts, EmptySeq
  <1>2. Len(q) \in Nat
    BY SeqFacts
  <1>3. /\ all \in Seq(U) /\ Len(all) = Len(q) + 1
        /\ \A i \in 1 .. Len(q) + 1 : all[i] = IF i <= 1 THEN u ELSE q[i - 1]
    <2>1. /\ all \in Seq(U) /\ Len(all) = 1 + Len(q)
          /\ \A i \in 1 .. 1 + Len(q) : all[i] = IF i <= 1 THEN <<u>>[i] ELSE q[i - 1]
      BY <1>1, ConcatProperties
    <2> HIDE DEF all
    <2> QED
      BY <1>1, <1>2, <2>1
  <1> HIDE DEF all
  <1>4. m = IF Len(all) <= n THEN Len(all) ELSE n
    <2>1. Len(all) \in Int /\ n \in Int
      BY <1>2, <1>3
    <2> QED
      BY <2>1, MinMaxOfTwo
  <1> HIDE DEF m
  <1>5. m \in 1 .. Len(q) + 1 /\ m <= n
    BY <1>2, <1>3, <1>4
  <1>6. \A i \in 1 .. m : all[i] \in U
    BY <1>2, <1>3, <1>5, ElementOfSeq
  <1>7. /\ SubSeq(all, 1, m) \in Seq(U) /\ Len(SubSeq(all, 1, m)) = m
        /\ \A i \in 1 .. m : SubSeq(all, 1, m)[i] = all[i]
    <2>1. /\ SubSeq(all, 1, m) \in Seq(U)
          /\ Len(SubSeq(all, 1, m)) = IF 1 <= m THEN m - 1 + 1 ELSE 0
          /\ \A i \in 1 .. m - 1 + 1 : SubSeq(all, 1, m)[i] = all[1 + i - 1]
      BY <1>5, <1>6, SubSeqProperties
    <2> QED
      BY <1>5, <2>1
  <1> DEFINE t == SubSeq(all, 1, m)
  <1> HIDE DEF t
  <1>9. \A i \in 2 .. m : i - 1 \in 1 .. Len(q) /\ all[i] = q[i - 1]
    BY <1>2, <1>3, <1>5
  <1>10. all[1] = u /\ 1 \in 1 .. m /\ \A i \in 2 .. m : i \in 1 .. m
    BY <1>2, <1>3, <1>5
  <1>8. /\ t \in Seq(U) /\ Len(t) <= n /\ Len(t) \in 1 .. Len(q) + 1
        /\ t[1] = u /\ \A i \in 2 .. Len(t) : i - 1 \in 1 .. Len(q) /\ t[i] = q[i - 1]
    BY <1>5, <1>7, <1>9, <1>10 DEF t
  <1> QED
    BY <1>8 DEF t, all, m, InFront

\* What the table is when u has been put in front for some fingerprints.
PutIn(t, features, u) ==
  \A f \in Keys :
    /\ Len(t[f]) <= Length /\ Len(t[f]) \in Nat /\ DOMAIN t[f] = 1 .. Len(t[f])
    /\ f \notin features => t[f] = table[f]
    /\ f \in features =>
         /\ Len(t[f]) \in 1 .. Len(table[f]) + 1 /\ t[f][1] = u
         /\ \A i \in 2 .. Len(t[f]) : i - 1 \in DOMAIN table[f] /\ t[f][i] = table[f][i - 1]

\* index_update puts the unit in front and keeps what there is room for.
LEMMA UpdatedFacts ==
  ASSUME TypeOK, NEW U, Units \subseteq U, NEW u \in U, NEW features
  PROVE  /\ Updated(features, u) \in [Keys -> Seq(U)]
         /\ PutIn(Updated(features, u), features, u)
  <1> DEFINE t == Updated(features, u)
  <1>0. t = [f \in Keys |-> t[f]] /\ t = Updated(features, u)
    BY DEF Updated
  <1>a. \A f \in Keys : t[f] = IF f \in features THEN InFront(u, table[f], Length)
                               ELSE table[f]
    BY DEF Updated, InFront
  <1> HIDE DEF t
  <1>1. ASSUME NEW f \in Keys
        PROVE  /\ t[f] \in Seq(U) /\ Len(t[f]) <= Length
               /\ f \notin features => t[f] = table[f]
               /\ f \in features =>
                    /\ Len(t[f]) \in 1 .. Len(table[f]) + 1 /\ t[f][1] = u
                    /\ \A i \in 2 .. Len(t[f]) : /\ i - 1 \in DOMAIN table[f]
                                                 /\ t[f][i] = table[f][i - 1]
    <2>1. table[f] \in Seq(U) /\ Len(table[f]) <= Length /\ Length \in Nat \ {0}
          /\ DOMAIN table[f] = 1 .. Len(table[f])
      BY TableShape, NumberShapes, SeqMonotonic
    <2>2. CASE f \notin features
      BY <1>a, <2>1, <2>2
    <2>3. CASE f \in features
      <3>1. t[f] = InFront(u, table[f], Length)
        BY <1>a, <2>3
      <3> DEFINE q == table[f]
      <3>2. q \in Seq(U) /\ Length \in Nat \ {0} /\ Len(q) <= Length /\ DOMAIN q = 1 .. Len(q)
        BY <2>1
      <3> HIDE DEF q
      <3>3. LET s == InFront(u, q, Length)
            IN  /\ s \in Seq(U) /\ Len(s) <= Length /\ Len(s) \in 1 .. Len(q) + 1
                /\ s[1] = u
                /\ \A i \in 2 .. Len(s) : i - 1 \in 1 .. Len(q) /\ s[i] = q[i - 1]
        BY <3>2, PutInFront
      <3> QED
        BY <2>3, <3>1, <3>2, <3>3 DEF q
    <2> QED
      BY <2>2, <2>3
  <1>3. t \in [Keys -> Seq(U)]
    BY <1>0, <1>1
  <1>4. \A f \in Keys : Len(t[f]) \in Nat /\ DOMAIN t[f] = 1 .. Len(t[f])
    BY <1>1, SeqFacts
  <1> QED
    BY <1>1, <1>3, <1>4 DEF t, PutIn

\* The features of some chunks are fingerprints of theirs, or the placeholder.
LEMMA SampledFeatures ==
  ASSUME NEW fps
  PROVE  Sampling(fps) \subseteq fps \union {Placeholder}
  BY DEF Sampling

\* What a table has under the placeholder it keeps, when a unit is put in.
LEMMA PutInKeeps ==
  ASSUME NEW t, NEW features, NEW u, PutIn(t, features, u), t[Placeholder] = <<>>
  PROVE  table[Placeholder] = <<>>
  <1>1. CASE Placeholder \in features
    BY <1>1, FpsAreKeys, EmptySeq DEF PutIn
  <1>2. CASE Placeholder \notin features
    BY <1>2, FpsAreKeys DEF PutIn
  <1> QED
    BY <1>1, <1>2

\* The open container becomes the last one of the store.
LEMMA SealFacts ==
  ASSUME IInv, containers' = Append(containers, open), reclaimed' = reclaimed
  PROVE  /\ containers' \in Seq(SUBSET Fps) /\ Len(containers') = Len(containers) + 1
         /\ \A id \in 0 .. Len(containers) - 1 : Fingerprints(id)' = Fingerprints(id)
         /\ containers'[Len(containers) + 1] = open
         /\ Ids \subseteq Ids'
         /\ (NoPlaceholder' => NoPlaceholder) => \A p \in Fps \X Ids : Held(p) => Live(p)'
         /\ \A p \in Fps \X Ids : Stands(p) => Stands(p)'
  <1>1. /\ containers' \in Seq(SUBSET Fps) /\ Len(containers') = Len(containers) + 1
        /\ containers'[Len(containers) + 1] = open
        /\ \A k \in 1 .. Len(containers) : containers'[k] = containers[k]
    BY AppendFacts DEF IInv, TypeOK
  <1>2. Len(containers) \in Nat
    BY NumberShapes DEF IInv
  <1>3. /\ \A id \in 0 .. Len(containers) - 1 : containers'[id + 1] = containers[id + 1]
        /\ containers'[Len(containers) + 1] = open
    BY <1>1, <1>2
  <1>4. Ids \subseteq Ids'
    BY <1>1, <1>2 DEF Ids
  <1>7. ASSUME NEW p \in Fps \X Ids, Stands(p)
        PROVE  Stands(p)'
    <2>1. p[2] \in Nat
      BY PointerShape DEF IInv
    <2> QED
      BY <1>1, <1>2, <1>3, <1>7, <2>1 DEF Stands, Fingerprints
  <1>5. ASSUME NEW p \in Fps \X Ids, Held(p), NoPlaceholder' => NoPlaceholder
        PROVE  Live(p)'
    <2>1. p[2] \in Nat /\ Len(containers) \notin reclaimed
      BY <1>2, PointerShape DEF IInv, Accounted
    <2>2. CASE Live(p)
      BY <1>5, <1>7, <2>2 DEF Live
    <2>3. CASE p[2] = Len(containers) /\ p[1] \in open
      BY <1>1, <1>2, <1>3, <2>1, <2>3 DEF Live, Stands, Fingerprints
    <2> QED
      BY <1>5, <2>2, <2>3 DEF Held
  <1>6. ASSUME NEW id \in 0 .. Len(containers) - 1
        PROVE  Fingerprints(id)' = Fingerprints(id)
    BY <1>3 DEF Fingerprints
  <1> QED
    BY <1>1, <1>4, <1>5, <1>6, <1>7

\* A table in which at most the open container is new.
TableOpen(t) ==
  /\ \A f \in Keys : Len(t[f]) <= Length
  /\ ~Physical => t = table
  /\ \A f \in Keys : \A i \in DOMAIN t[f] :
       \/ \E j \in DOMAIN table[f] : t[f][i] = table[f][j]
       \/ Physical /\ t[f][i] = Len(containers) /\ (f \in Fps => f \in open)

\* Sealing a container brings no placeholder that the index could meet.
LEMMA TableOpenPlaceholder ==
  ASSUME TableOpen(table'), index' = index
  PROVE  NoPlaceholder' => NoPlaceholder
  BY DEF TableOpen, NoPlaceholder, BySimilarity, Physical

\* The table when it names the container that was sealed.
LEMMA TableOfSealedFacts ==
  ASSUME IInv, containers' = Append(containers, open), reclaimed' = reclaimed,
         index' = index
  PROVE  TableOfSealed \in [Keys -> Seq(Units')] /\ TableOpen(TableOfSealed)
  <1> DEFINE t == TableOfSealed
  <1>1. Units \subseteq Units'
    BY SealFacts DEF Units, Physical
  <1>2. TypeOK
    BY DEF IInv
  <1>3. CASE ~Physical
    <2>1. t = table
      BY <1>3 DEF TableOfSealed
    <2>2. table \in [Keys -> Seq(Units')]
      <3>1. \A f \in Keys : table[f] \in Seq(Units')
        BY <1>1, <1>2, TableShape, SeqMonotonic
      <3> QED
        BY <1>2, <3>1 DEF TypeOK
    <2> QED
      BY <1>2, <1>3, <2>1, <2>2, TableShape DEF TableOpen
  <1>4. CASE Physical
    <2> DEFINE features == ContainerFeatures(open)
    <2>1. t = Updated(features, Len(containers)) /\ features \subseteq open \union {Placeholder}
      BY <1>4, SampledFeatures DEF TableOfSealed, ContainerFeatures
    <2> HIDE DEF t
    <2>2. Len(containers) \in Units'
      BY <1>2, <1>4, SealFacts, NumberShapes DEF Units, Physical, Ids
    <2> HIDE DEF features
    <2> DEFINE U == Units'
               u == Len(containers)
    <2>3. Units \subseteq U /\ u \in U /\ t = Updated(features, u)
      BY <1>1, <2>1, <2>2
    <2> HIDE DEF U, u
    <2>4. t \in [Keys -> Seq(U)] /\ PutIn(t, features, u)
      <3>1. Updated(features, u) \in [Keys -> Seq(U)] /\ PutIn(Updated(features, u), features, u)
        BY <1>2, <2>3, UpdatedFacts
      <3> QED
        BY <2>3, <3>1
    <2>5. t \in [Keys -> Seq(Units')] /\ PutIn(t, features, Len(containers))
      BY <2>4 DEF U, u
    <2>6. ASSUME NEW f \in Keys, NEW i \in DOMAIN t[f]
          PROVE  \/ \E j \in DOMAIN table[f] : t[f][i] = table[f][j]
                 \/ t[f][i] = Len(containers) /\ (f \in Fps => f \in open)
      <3>1. CASE f \notin features
        BY <2>5, <3>1 DEF PutIn
      <3>2. CASE f \in features /\ i = 1
        BY <2>1, <2>5, <3>2, FpsAreKeys DEF PutIn
      <3>3. CASE f \in features /\ i # 1
        <4>1. i \in 2 .. Len(t[f])
          BY <2>5, <3>3 DEF PutIn
        <4> QED
          BY <2>5, <3>3, <4>1 DEF PutIn
      <3> QED
        BY <3>1, <3>2, <3>3
    <2> QED
      BY <1>4, <2>5, <2>6 DEF PutIn, TableOpen, t
  <1> QED
    BY <1>3, <1>4

\* What the types are made of only grows with the containers.
LEMMA ShapesGrow ==
  ASSUME TypeOK, Ids \subseteq Ids', index' = index
  PROVE  /\ Units \subseteq Units' /\ Length' = Length /\ Physical' = Physical
         /\ recipe \in Seq(Seq(Fps \X Ids')) /\ seg \in Seq(Fps \X Ids')
         /\ sparse \in Seq(SUBSET Ids') /\ table \in [Keys -> Seq(Units')]
         /\ DOMAIN manifest \union reclaimed \subseteq Ids'
         /\ fetched \union todo \subseteq Units' /\ inherited \subseteq Ids'
  <1>1. Units \subseteq Units' /\ Length' = Length /\ Physical' = Physical
    BY DEF Units, Length, Physical
  <1>2. Seq(Fps \X Ids) \subseteq Seq(Fps \X Ids')
    <2> DEFINE P == Fps \X Ids
               Q == Fps \X Ids'
    <2>1. P \subseteq Q
      OBVIOUS
    <2> HIDE DEF P, Q
    <2>2. Seq(P) \subseteq Seq(Q)
      BY <2>1, SeqMonotonic
    <2> QED
      BY <2>2 DEF P, Q
  <1>3. Seq(Seq(Fps \X Ids)) \subseteq Seq(Seq(Fps \X Ids'))
    <2> DEFINE P == Seq(Fps \X Ids)
               Q == Seq(Fps \X Ids')
    <2>1. P \subseteq Q
      BY <1>2
    <2> HIDE DEF P, Q
    <2>2. Seq(P) \subseteq Seq(Q)
      BY <2>1, SeqMonotonic
    <2> QED
      BY <2>2 DEF P, Q
  <1>4. Seq(SUBSET Ids) \subseteq Seq(SUBSET Ids')
    <2> DEFINE P == SUBSET Ids
               Q == SUBSET Ids'
    <2>1. P \subseteq Q
      OBVIOUS
    <2> HIDE DEF P, Q
    <2>2. Seq(P) \subseteq Seq(Q)
      BY <2>1, SeqMonotonic
    <2> QED
      BY <2>2 DEF P, Q
  <1>5. table \in [Keys -> Seq(Units')]
    <2>1. Seq(Units) \subseteq Seq(Units')
      BY <1>1, SeqMonotonic
    <2> QED
      BY <2>1 DEF TypeOK
  <1> QED
    BY <1>1, <1>2, <1>3, <1>4, <1>5 DEF TypeOK

\* The store when the last container has been sealed, if there is one.
LEMMA StoreClosed ==
  ASSUME IInv, reclaimed' = reclaimed, index' = index,
         IF open = {} THEN UNCHANGED <<containers, table>>
         ELSE containers' = Append(containers, open) /\ table' = TableOfSealed
  PROVE  /\ containers' \in Seq(SUBSET Fps) /\ Len(containers') \in Nat
         /\ Len(containers) <= Len(containers')
         /\ Len(containers') = IF open = {} THEN Len(containers) ELSE Len(containers) + 1
         /\ \A id \in 0 .. Len(containers) - 1 : Fingerprints(id)' = Fingerprints(id)
         /\ open # {} => containers'[Len(containers) + 1] = open
         /\ Ids \subseteq Ids'
         /\ \A p \in Fps \X Ids : Held(p) => Live(p)'
         /\ \A p \in Fps \X Ids : Stands(p) => Stands(p)'
         /\ table' \in [Keys -> Seq(Units')] /\ TableOpen(table')
  <1>1. TypeOK /\ Len(containers) \in Nat
    BY NumberShapes DEF IInv
  <1>2. CASE open = {}
    <2>1. containers' = containers /\ table' = table /\ Ids' = Ids
      BY <1>2 DEF Ids
    <2>2. TableOpen(table') /\ table' \in [Keys -> Seq(Units')]
      BY <1>1, <2>1, ShapesGrow, TableShape DEF TableOpen
    <2>5. \A p \in Fps \X Ids : Stands(p) => Stands(p)'
      BY <2>1 DEF Stands, Fingerprints
    <2>3. ASSUME NEW p \in Fps \X Ids, Held(p) PROVE Live(p)'
      BY <1>2, <2>1, <2>3, <2>5, SamePlaceholder DEF Held, Live
    <2>4. ASSUME NEW id \in 0 .. Len(containers) - 1
          PROVE  Fingerprints(id)' = Fingerprints(id)
      BY <2>1 DEF Fingerprints
    <2> QED
      BY <1>1, <1>2, <2>1, <2>2, <2>3, <2>4, <2>5 DEF TypeOK
  <1>3. CASE open # {}
    <2>1. containers' = Append(containers, open) /\ table' = TableOfSealed
      BY <1>3
    <2>2. table' \in [Keys -> Seq(Units')] /\ TableOpen(table')
      BY <2>1, TableOfSealedFacts
    <2>3. Len(containers') = Len(containers) + 1
      BY <2>1, SealFacts
    <2>4. NoPlaceholder' => NoPlaceholder
      BY <2>2, TableOpenPlaceholder
    <2> QED
      BY <1>1, <1>3, <2>1, <2>2, <2>3, <2>4, SealFacts
  <1> QED
    BY <1>2, <1>3

\* A unit that can be read stays so while containers, recipes and their segments
\* only grow.
Grow ==
  /\ UNCHANGED <<index, reclaimed, expired, todo>>
  /\ Len(containers) <= Len(containers') /\ Len(containers') \in Nat
  /\ \A id \in 0 .. Len(containers) - 1 : containers'[id + 1] = containers[id + 1]
  /\ Len(flags') = Len(flags)
  /\ \A v \in 0 .. Len(flags) - 1 :
       /\ ToSet(flags[v + 1]) \subseteq ToSet(flags'[v + 1])
       /\ Len(Recipe(v)) <= Len(recipe'[v + 1])
       /\ \A k \in DOMAIN Recipe(v) : recipe'[v + 1][k] = Recipe(v)[k]

\* A segment that is on record lies in the recipe of its version.
LEMMA SegmentWithin ==
  ASSUME TypeOK, FlagsWithin, ~Physical, NEW u \in Units, Readable(u), Len(recipe) = Len(flags)
  PROVE  /\ u[1] \in 0 .. Len(flags) - 1 /\ u[2] \in Nat /\ u[3] \in Nat /\ u[3] > 0
         /\ Behind(u) \in Nat /\ Behind(u) <= Len(Recipe(u[1]))
         /\ \A k \in u[2] + 1 .. Behind(u) : k \in DOMAIN Recipe(u[1])
  <1>1. u[1] \in Nat /\ u[2] \in Nat /\ u[3] \in Nat
    BY UnitShape
  <1>2. u[1] \in 0 .. Len(flags) - 1 /\ u \in ToSet(flags[u[1] + 1])
    <2>1. Len(flags) \in Nat
      BY NumberShapes
    <2>2. u[1] < Len(flags) /\ u \in ToSet(flags[u[1] + 1])
      BY DEF Readable
    <2> QED
      BY <1>1, <2>1, <2>2
  <1>3. PICK i \in DOMAIN flags[u[1] + 1] : u = flags[u[1] + 1][i]
    BY <1>2 DEF ToSet
  <1>4. u[3] > 0 /\ Behind(u) <= Len(Recipe(u[1]))
    BY <1>2, <1>3 DEF FlagsWithin
  <1>5. Behind(u) \in Nat /\ Behind(u) = u[2] + u[3]
    BY <1>1 DEF Behind
  <1>6. Len(Recipe(u[1])) \in Nat /\ DOMAIN Recipe(u[1]) = 1 .. Len(Recipe(u[1]))
    BY <1>2, RecipeShape
  <1> QED
    BY <1>1, <1>2, <1>4, <1>5, <1>6

\* A unit that can be read stays readable while a backup only adds.
LEMMA GrowKeepsUnits ==
  ASSUME IInv, Grow, NEW u \in Units, Readable(u)
  PROVE  /\ Readable(u)' /\ (Fresh(u) => Fresh(u)')
         /\ \A f : Lists(u, f) => Lists(u, f)'
  <1>1. /\ index' = index /\ reclaimed' = reclaimed /\ expired' = expired /\ todo' = todo
        /\ Physical' = Physical /\ TypeOK /\ FlagsWithin /\ Len(recipe) = Len(flags)
    BY DEF Grow, Physical, IInv, Counted
  <1>2. Fresh(u) => Fresh(u)'
    BY <1>1 DEF Fresh
  <1>3. CASE Physical
    <2>1. u \in 0 .. Len(containers) - 1 /\ u < Len(containers')
      BY <1>1, <1>3, UnitShape, NumberShapes, SMTT(30) DEF Readable, Grow
    <2>2. containers'[u + 1] = containers[u + 1]
      BY <2>1 DEF Grow
    <2> QED
      BY <1>1, <1>2, <1>3, <2>1, <2>2 DEF Readable, Lists, Fingerprints
  <1>4. CASE ~Physical
    <2>1. /\ u[1] \in 0 .. Len(flags) - 1
          /\ \A k \in u[2] + 1 .. Behind(u) : k \in DOMAIN Recipe(u[1])
      BY <1>1, <1>4, SegmentWithin
    <2>2. u \in ToSet(flags'[u[1] + 1]) /\ u[1] < Len(flags')
      BY <1>1, <1>4, <2>1 DEF Grow, Readable
    <2>3. \A k \in u[2] + 1 .. Behind(u) : recipe'[u[1] + 1][k] = Recipe(u[1])[k]
      BY <2>1 DEF Grow
    <2> QED
      BY <1>1, <1>2, <1>4, <2>2, <2>3 DEF Readable, Lists, Behind, Recipe
  <1> QED
    BY <1>3, <1>4

\* The table of a step that seals at most the open container leads to units that
\* can be read.
LEMMA TableLeadsKept ==
  ASSUME IInv, Grow, TableOpen(table'), table' \in [Keys -> Seq(Units')],
         Physical => \/ table' = table
                     \/ /\ Len(containers') = Len(containers) + 1
                        /\ containers'[Len(containers) + 1] = open
  PROVE  EntriesLead'
  <1>1. /\ index' = index /\ reclaimed' = reclaimed /\ expired' = expired /\ todo' = todo
        /\ Physical' = Physical /\ TypeOK /\ Len(containers) \in Nat
    BY NumberShapes DEF Grow, Physical, IInv
  <1>2. \A f \in Keys : \A u \in Units : Leads(u, f) => Leads(u, f)'
    BY GrowKeepsUnits DEF Leads
  <1>3. \A f \in Keys : \A i \in DOMAIN table[f] :
          table[f][i] \in Units /\ Leads(table[f][i], f)
    BY <1>1, TableShape DEF IInv, EntriesLead, TableLeads
  <1>4. ASSUME NEW f \in Keys, NEW u, NEW i \in DOMAIN table'[f], u = table'[f][i]
        PROVE  Leads(u, f)'
    <2>1. CASE \E j \in DOMAIN table[f] : u = table[f][j]
      BY <1>2, <1>3, <2>1
    <2>2. CASE /\ Physical /\ u = Len(containers) /\ (f \in Fps => f \in open)
               /\ ~(\E j \in DOMAIN table[f] : u = table[f][j])
      <3>1. Len(containers') = Len(containers) + 1 /\ containers'[Len(containers) + 1] = open
        BY <1>4, <2>2
      <3>2. u = Len(containers) /\ (f \in Fps => f \in open) /\ u \notin reclaimed
        BY <1>1, <2>2 DEF IInv, Accounted
      <3>3. Readable(u)'
        BY <1>1, <2>2, <3>1, <3>2 DEF Readable
      <3>4. Fresh(u)'
        BY <1>1, <2>2, <3>2 DEF Fresh
      <3>5. f \in Fps => Lists(u, f)'
        BY <1>1, <2>2, <3>1, <3>2 DEF Lists, Fingerprints
      <3> QED
        BY <3>3, <3>4, <3>5 DEF Leads
    <2> QED
      BY <1>4, <2>1, <2>2 DEF TableOpen
  <1> QED
    BY <1>4 DEF EntriesLead

\* The sparse containers are containers that the backup has referred to.
LEMMA TrimmedUsed ==
  ASSUME NEW v, NEW ids \in Trimmed(v)
  PROVE  ids \subseteq Used(v)
  BY DEF Trimmed, SparseContainers

\* When the phases end, every pointer of the job leads to a container in the
\* store, and the manifest tells of each that the job refers to it.
LEMMA StopPhasesIInv ==
  ASSUME IInv, StopPhases
  PROVE  IInv'
  <1>1. /\ phase = "run" /\ left = <<>> /\ open' = {} /\ phase' = "ran"
        /\ index' = index /\ saved' = saved /\ recipe' = recipe /\ flags' = flags
        /\ deleted' = deleted /\ reclaimed' = reclaimed /\ job' = job /\ left' = left
        /\ seg' = seg /\ stored' = stored /\ fetched' = fetched /\ inherited' = inherited
        /\ todo' = todo /\ restoring' = restoring /\ expired' = expired
        /\ backedUp' = backedUp
        /\ IF open = {} THEN UNCHANGED <<containers, table>>
           ELSE containers' = Append(containers, open) /\ table' = TableOfSealed
    BY DEF StopPhases, historyVars
  <1>2. PICK ids \in Trimmed(job) : sparse' = Append(sparse, ids)
    BY DEF StopPhases
  <1>3. manifest' = [id \in Used(job) \union DOMAIN manifest |->
                       IF id \in Used(job) THEN job ELSE manifest[id]]
    BY DEF StopPhases, UpdateManifest
  <1>4. /\ TypeOK /\ Counted /\ ExpiredInTurn /\ Contents /\ PointersLive /\ ManifestTimes
        /\ Accounted /\ FlagsWithin /\ TableInOrder /\ TodoExpired /\ Forsaken
    BY DEF IInv
  <1>5. /\ Len(recipe) = saved + 1 /\ Len(flags) = saved + 1 /\ Len(sparse) = saved
        /\ Len(backedUp) = saved + 1 /\ Len(deleted) = saved + 1
        /\ job = saved /\ saved < MaxVersions /\ seg = <<>> /\ saved \in Nat
        /\ Len(containers) \in Nat /\ expired \in Nat /\ MaxVersions \in Nat /\ todo = {}
    BY <1>1, <1>4, NumberShapes DEF Counted, Running
  <1>6. /\ containers' \in Seq(SUBSET Fps) /\ Len(containers') \in Nat
        /\ Len(containers) <= Len(containers')
        /\ Len(containers') = IF open = {} THEN Len(containers) ELSE Len(containers) + 1
        /\ \A id \in 0 .. Len(containers) - 1 : Fingerprints(id)' = Fingerprints(id)
        /\ open # {} => containers'[Len(containers) + 1] = open
        /\ Ids \subseteq Ids'
        /\ \A p \in Fps \X Ids : Held(p) => Live(p)'
        /\ \A p \in Fps \X Ids : Stands(p) => Stands(p)'
        /\ table' \in [Keys -> Seq(Units')] /\ TableOpen(table')
    BY <1>1, StoreClosed
  <1>7. DOMAIN seg = {}
    BY <1>5, EmptySeq
  <1>8. \A k \in DOMAIN Recipe(job) : Recipe(job)[k] \in Fps \X Ids /\ Held(Recipe(job)[k])
    BY <1>1, <1>4, <1>5, RecipeShape DEF PointersLive, Running
  <1>9. \A id \in Used(job) : id \in Nat /\ id < Len(containers') /\ id \in Ids'
    <2>1. ASSUME NEW p \in Fps \X Ids, Held(p)
          PROVE  p[2] \in Nat /\ p[2] < Len(containers')
      BY <1>4, <1>6, <2>1, PointerShape DEF Live, Stands
    <2>2. \A id \in Used(job) : id \in Nat /\ id < Len(containers')
      BY <1>8, <2>1 DEF Used
    <2> QED
      BY <1>6, <2>2 DEF Ids
  <1>10. ids \subseteq Used(job)
    BY <1>2, TrimmedUsed
  <1>11. /\ sparse' \in Seq(SUBSET Ids') /\ Len(sparse') = saved + 1
         /\ sparse'[saved + 1] = ids /\ DOMAIN sparse' = 1 .. saved + 1
         /\ \A v \in 1 .. saved : sparse'[v] = sparse[v]
    <2>1. sparse \in Seq(SUBSET Ids') /\ ids \in SUBSET Ids'
      BY <1>1, <1>4, <1>6, <1>9, <1>10, ShapesGrow
    <2> QED
      BY <1>2, <1>5, <2>1, AppendFacts
  <1>12. DOMAIN manifest' = Used(job) \union DOMAIN manifest
    BY <1>3
  <1>13. DOMAIN manifest \union reclaimed \subseteq Ids' /\ Used(job) \subseteq Ids'
    BY <1>1, <1>4, <1>6, <1>9, ShapesGrow
  <1>14. TypeOK'
    <2>1. /\ Units' = Units' /\ recipe' \in Seq(Seq(Fps \X Ids')) /\ seg' \in Seq(Fps \X Ids')
          /\ fetched' \union todo' \subseteq Units' /\ inherited' \subseteq Ids'
          /\ Length' = Length
      BY <1>1, <1>4, <1>6, ShapesGrow
    <2>2. /\ DOMAIN manifest' \union reclaimed' \subseteq Ids'
          /\ \A id \in DOMAIN manifest' : manifest'[id] \in 0 .. MaxVersions - 1
      BY <1>1, <1>3, <1>4, <1>5, <1>12, <1>13 DEF TypeOK
    <2>3. stored' \union open' \subseteq Fps
      BY <1>1, <1>4 DEF TypeOK
    <2>4. \A f \in Keys : Len(table'[f]) <= Length'
      BY <1>6, <2>1 DEF TableOpen
    <2> QED
      BY <1>1, <1>4, <1>6, <1>11, <2>1, <2>2, <2>3, <2>4 DEF TypeOK
  <1>15. Counted'
    BY <1>1, <1>4, <1>5, <1>11 DEF Counted, Running, Deleting
  <1>16. ExpiredInTurn'
    BY <1>1, <1>4 DEF ExpiredInTurn
  <1>17. Contents'
    BY <1>1, <1>4 DEF Contents, Running, Recipe
  <1>18. PointersLive'
    <2>1. ASSUME NEW p \in Fps \X Ids, Held(p)
          PROVE  Live(p)' /\ Held(p)'
      BY <1>6, <2>1 DEF Held
    <2>2. \A v \in expired .. saved - 1 : \A k \in DOMAIN Recipe(v) :
            Recipe(v)[k] \in Fps \X Ids /\ Held(Recipe(v)[k])
      BY <1>4, <1>5, RecipeShape DEF PointersLive, Held
    <2>3. ASSUME NEW v \in expired .. saved - 1, NEW k \in DOMAIN Recipe(v),
                 NEW p, p = Recipe(v)[k]
          PROVE  Live(p)'
      BY <2>1, <2>2, <2>3
    <2>4. ASSUME NEW k \in DOMAIN Recipe(job), NEW p, p = Recipe(job)[k]
          PROVE  Held(p)'
      BY <1>8, <2>1, <2>4
    <2>5. /\ \A v \in expired .. saved - 1 : \A k \in DOMAIN Recipe(v) : Live(Recipe(v)[k])'
          /\ \A k \in DOMAIN Recipe(job) : Held(Recipe(job)[k])'
      BY <1>1, <2>3, <2>4 DEF Recipe, Live, Held, Stands, Fingerprints
    <2>6. ASSUME NEW v \in 0 .. saved - 1, NEW k \in DOMAIN Recipe(v), NEW p, p = Recipe(v)[k]
          PROVE  Stands(p)'
      <3>1. p \in Fps \X Ids /\ Stands(p)
        BY <1>4, <1>5, <2>6, RecipeShape DEF PointersLive
      <3> QED
        BY <1>6, <3>1
    <2>7. \A v \in 0 .. saved - 1 : \A k \in DOMAIN Recipe(v) : Stands(Recipe(v)[k])'
      BY <1>1, <2>6 DEF Recipe, Stands, Fingerprints
    <2> QED
      BY <1>1, <1>7, <2>5, <2>7 DEF PointersLive, Recipe
  <1>19. ManifestTimes'
    <2>1. expired <= saved
      BY <1>1, <1>4, <1>5, NumberShapes DEF ExpiredInTurn
    <2>2. ASSUME NEW v \in expired .. saved, NEW k \in DOMAIN Recipe(v)
          PROVE  /\ Recipe(v)[k][2] \in DOMAIN manifest'
                 /\ manifest'[Recipe(v)[k][2]] >= v
      <3>1. CASE Recipe(v)[k][2] \in Used(job)
        BY <1>3, <1>5, <1>12, <3>1
      <3>2. CASE Recipe(v)[k][2] \notin Used(job)
        <4>1. v \in expired .. saved - 1
          BY <1>5, <3>2 DEF Used
        <4>2. Recipe(v)[k][2] \in DOMAIN manifest /\ manifest[Recipe(v)[k][2]] >= v
          BY <1>4, <1>5, <4>1 DEF ManifestTimes
        <4> QED
          BY <1>3, <1>12, <3>2, <4>2
      <3> QED
        BY <3>1, <3>2
    <2>3. ASSUME NEW id \in DOMAIN manifest'
          PROVE  /\ manifest'[id] \in expired .. saved
                 /\ \E k \in DOMAIN Recipe(manifest'[id]) : Recipe(manifest'[id])[k][2] = id
      <3>1. CASE id \in Used(job)
        <4>1. manifest'[id] = job
          BY <1>3, <3>1
        <4> QED
          BY <1>5, <2>1, <3>1, <4>1 DEF Used
      <3>2. CASE id \notin Used(job)
        <4>1. manifest'[id] = manifest[id] /\ id \in DOMAIN manifest
          BY <1>3, <1>12, <3>2
        <4>2. manifest[id] \in expired .. saved - 1
          BY <1>4, <1>5, <4>1 DEF ManifestTimes
        <4>3. \E k \in DOMAIN Recipe(manifest[id]) : Recipe(manifest[id])[k][2] = id
          BY <1>4, <4>1 DEF ManifestTimes
        <4> QED
          BY <1>5, <4>1, <4>2, <4>3
      <3> QED
        BY <3>1, <3>2
    <2> QED
      BY <1>1, <1>5, <1>11, <2>2, <2>3 DEF ManifestTimes, Recipe
  <1>20. Accounted'
    <2>1. \A id : UsedNow(id) => id \in Used(job)
      BY <1>7 DEF UsedNow, Used
    <2>2. ASSUME NEW id \in 0 .. Len(containers') - 1
          PROVE  id \in DOMAIN manifest' \union reclaimed'
      <3>1. CASE id \in 0 .. Len(containers) - 1
        BY <1>1, <1>4, <1>12, <2>1, <3>1 DEF Accounted
      <3>2. CASE id \notin 0 .. Len(containers) - 1
        <4>1. open # {} /\ id = Len(containers)
          BY <1>5, <1>6, <3>2
        <4> QED
          BY <1>4, <1>12, <2>1, <4>1 DEF Accounted
      <3> QED
        BY <3>1, <3>2
    <2>3. \A id \in reclaimed : id < Len(containers')
      <3>1. \A id \in reclaimed : id \in Nat /\ id < Len(containers)
        BY <1>4, NumberShapes DEF TypeOK, Accounted
      <3> QED
        BY <1>5, <1>6, <3>1
    <2> QED
      BY <1>1, <2>2, <2>3 DEF Accounted
  <1>21. FlagsWithin'
    BY <1>1, <1>4 DEF FlagsWithin, Recipe, Behind
  <1>22. TableLeads'
    <2>1. Grow
      <3>1. \A id \in 0 .. Len(containers) - 1 : containers'[id + 1] = containers[id + 1]
        BY <1>6 DEF Fingerprints
      <3>2. \A v \in 0 .. Len(flags) - 1 : Len(Recipe(v)) <= Len(recipe'[v + 1])
        <4>1. \A v \in 0 .. Len(flags) - 1 : Len(Recipe(v)) \in Nat
          BY <1>4, <1>5, RecipeShape
        <4> QED
          BY <1>1, <4>1 DEF Recipe
      <3> QED
        BY <1>1, <1>6, <3>1, <3>2 DEF Grow, Recipe
    <2>2. EntriesLead'
      BY <1>1, <1>6, <2>1, TableLeadsKept
    <2> QED
      BY <1>1, <2>2 DEF IInv, TableLeads
  <1>23. TableInOrder'
    BY <1>1, <1>4, <1>6 DEF TableInOrder, TableOpen, Physical
  <1>24. TodoExpired'
    BY <1>1, <1>5 DEF TodoExpired
  <1>25. Forsaken'
    <2>1. \A v \in 1 .. saved - 1 : \A k \in DOMAIN Recipe(v) : Recipe(v)[k][2] \notin sparse'[v]
      <3>1. \A v \in 1 .. saved - 1 : sparse'[v] = sparse[v]
        BY <1>5, <1>11
      <3> QED
        BY <1>4, <3>1 DEF Forsaken
    <2>2. job > 0 => \A k \in DOMAIN Recipe(job) : Recipe(job)[k][2] \notin sparse'[job]
      BY <1>1, <1>4, <1>5, <1>11 DEF Forsaken, Inherited
    <2>3. \A v \in DOMAIN sparse' : \A id \in sparse'[v] : id < Len(containers')
      <3>1. ASSUME NEW v \in 1 .. saved, NEW id \in sparse[v] PROVE id < Len(containers')
        <4>1. v \in DOMAIN sparse /\ id \in Nat
          BY <1>4, <1>5, SetShapes DEF Ids
        <4>2. id < Len(containers)
          BY <1>4, <4>1 DEF Forsaken
        <4> QED
          BY <1>5, <1>6, <4>1, <4>2
      <3> QED
        BY <1>5, <1>9, <1>10, <1>11, <3>1
    <2> QED
      BY <1>1, <2>1, <2>2, <2>3 DEF Forsaken, Recipe
  <1> QED
    BY <1>14, <1>15, <1>16, <1>17, <1>18, <1>19, <1>20, <1>21, <1>22, <1>23, <1>24, <1>25
       DEF IInv

\* A backup that has ended is a version like the others, with all its pointers in
\* the store; the one that expires with it is the one that is deleted next.
LEMMA CloseBackupIInv ==
  ASSUME IInv, CloseBackup
  PROVE  IInv'
  <1>1. /\ phase = "ran" /\ saved' = job + 1 /\ deleted' = [deleted EXCEPT ![job + 1] = FALSE]
        /\ phase' = IF Retention >= 0 /\ job >= Retention THEN "gc" ELSE "idle"
        /\ index' = index /\ recipe' = recipe /\ flags' = flags /\ sparse' = sparse
        /\ manifest' = manifest /\ reclaimed' = reclaimed /\ table' = table
        /\ containers' = containers /\ job' = job /\ left' = left /\ seg' = seg
        /\ stored' = stored /\ fetched' = fetched /\ inherited' = inherited /\ open' = open
        /\ todo' = todo /\ restoring' = restoring /\ expired' = expired /\ backedUp' = backedUp
    BY DEF CloseBackup, UpdateBackupVersion, jobVars, historyVars
  <1>2. /\ TypeOK /\ Counted /\ ExpiredInTurn /\ Contents /\ PointersLive /\ ManifestTimes
        /\ Accounted /\ FlagsWithin /\ TableInOrder /\ TodoExpired /\ Forsaken /\ TableLeads
    BY DEF IInv
  <1>3. /\ Len(recipe) = saved + 1 /\ Len(flags) = saved + 1 /\ Len(sparse) = saved + 1
        /\ Len(backedUp) = saved + 1 /\ Len(deleted) = saved + 1
        /\ job = saved /\ saved < MaxVersions /\ seg = <<>> /\ left = <<>> /\ open = {}
        /\ saved \in Nat /\ expired \in Nat /\ MaxVersions \in Nat /\ todo = {}
        /\ Retention \in Int
    BY <1>1, <1>2, NumberShapes DEF Counted, Running
  <1>4. /\ ~Running' /\ phase' # "run" /\ phase' # "ran" /\ phase' # "entries"
        /\ Deleting' <=> phase' = "gc"
    BY <1>1 DEF Running, Deleting
  <1>5. DOMAIN seg = {} /\ Len(seg) = 0 /\ Len(left) = 0
    BY <1>3, EmptySeq
  <1>6. deleted' \in Seq(BOOLEAN) /\ Len(deleted') = Len(deleted)
    BY <1>1, <1>2, <1>3, ExceptSeq DEF TypeOK
  <1>7. /\ Ids' = Ids /\ Units' = Units /\ Length' = Length /\ Physical' = Physical
    BY <1>1 DEF Ids, Units, Length, Physical
  <1>8. TypeOK'
    <2>1. saved' \in 0 .. MaxVersions
      BY <1>1, <1>3
    <2>2. phase' \in {"idle", "run", "ran", "gc", "entries", "restore"}
      BY <1>1
    <2> QED
      BY <1>1, <1>2, <1>6, <1>7, <2>1, <2>2 DEF TypeOK
  <1>9. Counted'
    BY <1>1, <1>3, <1>4, <1>6 DEF Counted
  <1>10. ExpiredInTurn'
    BY <1>1, <1>2, <1>3 DEF ExpiredInTurn
  <1>11. Contents'
    <2>1. /\ Len(Recipe(saved)) = Len(backedUp[saved + 1])
          /\ \A k \in DOMAIN Recipe(saved) : Recipe(saved)[k][1] = backedUp[saved + 1][k]
      <3>1. Len(Recipe(saved)) \in Nat
        BY <1>2, <1>3, RecipeShape
      <3> QED
        BY <1>1, <1>2, <1>3, <1>5, <3>1 DEF Contents, Running
    <2>2. \A v \in 0 .. saved : v = saved \/ v \in 0 .. saved - 1
      BY <1>3
    <2>3. saved' - 1 = saved
      BY <1>1, <1>3
    <2> QED
      BY <1>1, <1>2, <1>4, <2>1, <2>2, <2>3 DEF Contents, Recipe
  <1>12. PointersLive'
    <2>1. \A v \in expired .. saved : \A k \in DOMAIN Recipe(v) : Live(Recipe(v)[k])
      <3>1. \A k \in DOMAIN Recipe(saved) : Live(Recipe(saved)[k])
        BY <1>1, <1>2, <1>3 DEF PointersLive, Held, Running
      <3>2. \A v \in expired .. saved : v = saved \/ v \in expired .. saved - 1
        BY <1>3
      <3> QED
        BY <1>2, <3>1, <3>2 DEF PointersLive
    <2>2. saved' - 1 = saved
      BY <1>1, <1>3
    <2>3. \A v \in 0 .. saved : \A k \in DOMAIN Recipe(v) : Stands(Recipe(v)[k])
      <3>1. \A k \in DOMAIN Recipe(saved) : Stands(Recipe(saved)[k])
        BY <1>1, <1>2, <1>3 DEF PointersLive, Held, Live, Running
      <3>2. \A v \in 0 .. saved : v = saved \/ v \in 0 .. saved - 1
        BY <1>3
      <3> QED
        BY <1>2, <3>1, <3>2 DEF PointersLive
    <2> QED
      BY <1>1, <1>4, <1>5, <2>1, <2>2, <2>3, SamePlaceholder
         DEF PointersLive, Live, Stands, Recipe, Fingerprints
  <1>13. ManifestTimes'
    BY <1>1, <1>2 DEF ManifestTimes, Recipe
  <1>14. Accounted'
    BY <1>1, <1>2, <1>3 DEF Accounted
  <1>15. FlagsWithin'
    BY <1>1, <1>2 DEF FlagsWithin, Recipe, Behind
  <1>16. TableLeads'
    BY <1>1, <1>2, <1>4 DEF TableLeads, EntriesLead, Leads, Readable, Fresh, Lists, Recipe,
                             Behind, Physical, Fingerprints
  <1>17. TableInOrder'
    BY <1>1, <1>2 DEF TableInOrder, Physical
  <1>18. TodoExpired'
    BY <1>1, <1>3 DEF TodoExpired
  <1>19. Forsaken'
    <2>1. \A v \in 1 .. saved : (v = saved /\ job > 0) \/ v \in 1 .. saved - 1
      BY <1>3
    <2>2. \A v \in 1 .. saved : \A k \in DOMAIN Recipe(v) : Recipe(v)[k][2] \notin sparse[v]
      BY <1>1, <1>2, <1>3, <2>1 DEF Forsaken
    <2>3. saved' - 1 = saved
      BY <1>1, <1>3
    <2> QED
      BY <1>1, <1>2, <1>4, <2>2, <2>3 DEF Forsaken, Recipe
  <1> QED
    BY <1>8, <1>9, <1>10, <1>11, <1>12, <1>13, <1>14, <1>15, <1>16, <1>17, <1>18, <1>19 DEF IInv

-----------------------------------------------------------------------------
(* A version is deleted.                                                   *)

\* The deletion takes the oldest version, and of the containers those that only
\* this version referred to; the table may still lead to what it has to delete.
LEMMA TruncateIInv ==
  ASSUME IInv, Truncate
  PROVE  IInv'
  <1>1. /\ phase = "gc" /\ phase' = "entries"
        /\ manifest' = [id \in DOMAIN manifest \ Invalid(jobid) |-> manifest[id]]
        /\ reclaimed' = reclaimed \union Invalid(jobid)
        /\ todo' = UnitsOf(jobid) /\ expired' = Max({expired, jobid + 1})
        /\ index' = index /\ saved' = saved /\ recipe' = recipe /\ flags' = flags
        /\ deleted' = deleted /\ sparse' = sparse /\ table' = table
        /\ containers' = containers /\ job' = job /\ left' = left /\ seg' = seg
        /\ stored' = stored /\ fetched' = fetched /\ inherited' = inherited /\ open' = open
        /\ restoring' = restoring /\ backedUp' = backedUp
    BY DEF Truncate, jobVars
  <1>2. /\ TypeOK /\ Counted /\ ExpiredInTurn /\ Contents /\ PointersLive /\ ManifestTimes
        /\ Accounted /\ FlagsWithin /\ TableInOrder /\ TodoExpired /\ Forsaken /\ TableLeads
    BY DEF IInv
  <1>3. /\ Len(recipe) = saved /\ Len(flags) = saved /\ Len(sparse) = saved
        /\ Len(backedUp) = saved /\ Len(deleted) = saved
        /\ job = saved - 1 /\ Retention >= 0 /\ job >= Retention
        /\ seg = <<>> /\ left = <<>> /\ open = {}
        /\ saved \in Nat /\ expired \in Nat /\ MaxVersions \in Nat /\ todo = {}
        /\ Retention \in Int
    BY <1>1, <1>2, NumberShapes DEF Counted, Running, Deleting
  <1>4. jobid = expired /\ expired \in 0 .. saved - 1 /\ expired = saved - 1 - Retention
    BY <1>1, <1>2, <1>3 DEF jobid, ExpiredInTurn
  <1>5. expired' = expired + 1
    <2> DEFINE e == expired + 1
    <2>1. e \in Int /\ expired \in Int /\ ~(expired >= e) /\ jobid + 1 = e
      BY <1>3, <1>4
    <2> HIDE DEF e
    <2>2. Max({expired, e}) = e
      BY <2>1, MinMaxOfTwo
    <2> QED
      BY <1>1, <2>1, <2>2 DEF e
  <1> DEFINE gone == {id \in DOMAIN manifest : manifest[id] = expired}
  <1>6. Invalid(jobid) = gone
    <2>1. \A id \in DOMAIN manifest : manifest[id] \in expired .. saved - 1
      BY <1>2, <1>3 DEF ManifestTimes
    <2>2. \A id \in DOMAIN manifest : manifest[id] <= expired <=> manifest[id] = expired
      BY <1>3, <2>1
    <2> QED
      BY <1>4, <2>2 DEF Invalid
  <1>7. /\ ~Running' /\ phase' # "run" /\ phase' # "ran" /\ phase' # "gc" /\ Deleting'
    BY <1>1 DEF Running, Deleting
  <1>8. DOMAIN seg = {}
    BY <1>3, EmptySeq
  <1>9. /\ manifest' = [id \in DOMAIN manifest \ gone |-> manifest[id]]
        /\ DOMAIN manifest' = DOMAIN manifest \ gone
        /\ \A id \in DOMAIN manifest' : manifest'[id] = manifest[id]
        /\ reclaimed' = reclaimed \union gone
    BY <1>1, <1>6
  <1>10. todo' = IF Physical THEN gone ELSE ToSet(flags[expired + 1])
    BY <1>1, <1>4, <1>6 DEF UnitsOf
  <1>11. \A id \in gone : id \in Nat /\ id < Len(containers)
    <2>1. ASSUME NEW id \in gone PROVE id < Len(containers)
      <3>1. PICK k \in DOMAIN Recipe(expired) : Recipe(expired)[k][2] = id
        BY <1>2 DEF ManifestTimes
      <3>2. Live(Recipe(expired)[k])
        BY <1>2, <1>3, <1>4 DEF PointersLive
      <3> QED
        BY <3>1, <3>2 DEF Live, Stands
    <2>2. gone \subseteq Ids /\ Ids \subseteq Nat
      BY <1>2, NumberShapes DEF TypeOK
    <2> QED
      BY <2>1, <2>2
  <1>12. ~Physical => \A u \in todo' : u[1] = expired /\ u \in (0..MaxVersions) \X Nat \X Nat
    <2>1. ASSUME ~Physical, NEW u \in ToSet(flags[expired + 1])
          PROVE  u[1] = expired /\ u \in (0..MaxVersions) \X Nat \X Nat
      <3>1. PICK i \in DOMAIN flags[expired + 1] : u = flags[expired + 1][i]
        BY <2>1 DEF ToSet
      <3>2. expired \in 0 .. Len(flags) - 1
        BY <1>3, <1>4
      <3> QED
        BY <1>2, <3>1, <3>2, FlagShape DEF FlagsWithin
    <2> QED
      BY <1>10, <2>1
  <1> HIDE DEF gone
  <1>13. /\ Ids' = Ids /\ Units' = Units /\ Length' = Length /\ Physical' = Physical
    BY <1>1 DEF Ids, Units, Length, Physical
  <1>14. TypeOK'
    <2>1. gone \subseteq Ids
      BY <1>2, <1>6 DEF Invalid, TypeOK
    <2>2. todo' \subseteq Units
      BY <1>10, <1>12, <2>1 DEF Units
    <2>3. /\ DOMAIN manifest' \union reclaimed' \subseteq Ids
          /\ \A id \in DOMAIN manifest' : manifest'[id] \in 0 .. MaxVersions - 1
      BY <1>2, <1>9, <2>1 DEF TypeOK
    <2>4. fetched' \union todo' \subseteq Units
      BY <1>1, <1>2, <2>2 DEF TypeOK
    <2> QED
      BY <1>1, <1>2, <1>3, <1>5, <1>13, <2>3, <2>4 DEF TypeOK
  <1>15. Counted'
    BY <1>1, <1>3, <1>7 DEF Counted
  <1>16. ExpiredInTurn'
    BY <1>1, <1>3, <1>4, <1>5 DEF ExpiredInTurn
  <1>17. Contents'
    BY <1>1, <1>2, <1>7 DEF Contents, Recipe
  <1>18. \A v \in expired + 1 .. saved - 1 : \A k \in DOMAIN Recipe(v) :
           /\ Live(Recipe(v)[k]) /\ Recipe(v)[k][2] \in DOMAIN manifest
           /\ manifest[Recipe(v)[k][2]] >= v /\ Recipe(v)[k][2] \notin gone
    <2>1. ASSUME NEW v \in expired + 1 .. saved - 1, NEW k \in DOMAIN Recipe(v)
          PROVE  /\ Live(Recipe(v)[k]) /\ Recipe(v)[k][2] \in DOMAIN manifest
                 /\ manifest[Recipe(v)[k][2]] >= v /\ Recipe(v)[k][2] \notin gone
      <3>1. v \in expired .. saved - 1 /\ v > expired
        BY <1>3
      <3>2. /\ Live(Recipe(v)[k]) /\ Recipe(v)[k][2] \in DOMAIN manifest
            /\ manifest[Recipe(v)[k][2]] >= v
        BY <1>2, <1>3, <3>1 DEF PointersLive, ManifestTimes
      <3> QED
        BY <1>3, <3>1, <3>2 DEF gone
    <2> QED
      BY <2>1
  <1>19. PointersLive'
    <2>1. \A v \in 0 .. saved - 1 : \A k \in DOMAIN Recipe(v)' : Stands(Recipe(v)[k])'
      BY <1>1, <1>2 DEF PointersLive, Stands, Recipe, Fingerprints
    <2>2. \A v \in expired + 1 .. saved - 1 : \A k \in DOMAIN Recipe(v)' : Live(Recipe(v)[k])'
      BY <1>1, <1>9, <1>18, SamePlaceholder DEF Live, Stands, Recipe, Fingerprints
    <2> QED
      BY <1>1, <1>5, <1>7, <1>8, <2>1, <2>2 DEF PointersLive
  <1>20. ManifestTimes'
    <2>1. \A id \in DOMAIN manifest' :
            /\ manifest[id] \in expired + 1 .. saved - 1
            /\ \E k \in DOMAIN Recipe(manifest[id]) : Recipe(manifest[id])[k][2] = id
      <3>1. \A id \in DOMAIN manifest' : manifest[id] \in expired .. saved - 1 /\ manifest[id] # expired
        BY <1>2, <1>3, <1>9 DEF ManifestTimes, gone
      <3>2. \A id \in DOMAIN manifest' :
              \E k \in DOMAIN Recipe(manifest[id]) : Recipe(manifest[id])[k][2] = id
        BY <1>2, <1>9 DEF ManifestTimes
      <3>3. \A id \in DOMAIN manifest' : manifest[id] \in expired + 1 .. saved - 1
        BY <1>3, <3>1
      <3> QED
        BY <3>2, <3>3
    <2> QED
      BY <1>1, <1>3, <1>5, <1>9, <1>18, <2>1, ZenonT(40) DEF ManifestTimes, Recipe
  <1>21. Accounted'
    BY <1>1, <1>2, <1>3, <1>9, <1>11 DEF Accounted
  <1>22. FlagsWithin'
    BY <1>1, <1>2 DEF FlagsWithin, Recipe, Behind
  <1>23. TableLeads'
    <2>1. ASSUME NEW f, NEW u \in Units, Leads(u, f)
          PROVE  Leads(u, f)'
      <3>1. Readable(u)' /\ (f \in Fps => Lists(u, f)')
        BY <1>1, <1>13, <2>1 DEF Leads, Readable, Lists, Fingerprints, Recipe, Behind
      <3>4. CASE f \notin Fps
        BY <3>1, <3>4 DEF Leads
      <3> SUFFICES ASSUME f \in Fps PROVE Readable(u)' /\ Fresh(u)' /\ Lists(u, f)'
        BY <3>4 DEF Leads
      <3>5. Readable(u) /\ Fresh(u)
        BY <2>1 DEF Leads
      <3>2. CASE Physical
        BY <1>3, <1>9, <1>10, <1>13, <3>1, <3>2, <3>5 DEF Fresh
      <3>3. CASE ~Physical
        <4>1. u[1] \in Nat /\ u[1] >= expired /\ u \in ToSet(flags[u[1] + 1])
          BY <1>2, <1>3, <3>3, <3>5, UnitShape DEF Fresh, Readable
        <4>2. CASE u[1] = expired
          BY <1>10, <1>13, <3>1, <3>3, <4>1, <4>2 DEF Fresh
        <4>3. CASE u[1] # expired
          <5>1. u[1] >= expired + 1
            BY <1>3, <4>1, <4>3
          <5> QED
            BY <1>5, <1>13, <3>1, <3>3, <5>1 DEF Fresh
        <4> QED
          BY <4>2, <4>3
      <3> QED
        BY <3>2, <3>3
    <2>2. \A f \in Keys : \A i \in DOMAIN table[f] :
            table[f][i] \in Units /\ Leads(table[f][i], f)
      BY <1>2, TableShape DEF EntriesLead, TableLeads
    <2>3. ASSUME NEW f \in Keys, NEW i \in DOMAIN table[f], NEW u, u = table[f][i]
          PROVE  Leads(u, f)'
      BY <2>1, <2>2, <2>3
    <2> QED
      BY <1>1, <1>2, <1>7, <2>3 DEF TableLeads, EntriesLead
  <1>24. TableInOrder'
    BY <1>1, <1>2, <1>13 DEF TableInOrder
  <1>25. TodoExpired'
    BY <1>1, <1>3, <1>5, <1>9, <1>10, <1>12, <1>13 DEF TodoExpired
  <1>26. Forsaken'
    BY <1>1, <1>2, <1>7 DEF Forsaken, Recipe
  <1> QED
    BY <1>14, <1>15, <1>16, <1>17, <1>19, <1>20, <1>21, <1>22, <1>23, <1>24, <1>25, <1>26
       DEF IInv

\* What the chunk pointers of a unit are.
LEMMA PointersOf ==
  ASSUME TypeOK, FlagsWithin, Len(recipe) = Len(flags), NEW u \in Units, Readable(u),
         NEW p \in Pointers(u)
  PROVE  IF Physical THEN p = <<p[1], u>> /\ p[1] \in Fingerprints(u) /\ p[2] = u
         ELSE /\ u[1] \in 0 .. Len(flags) - 1
              /\ \E k \in u[2] + 1 .. Behind(u) : k \in DOMAIN Recipe(u[1]) /\ p = Recipe(u[1])[k]
  <1>1. CASE Physical
    BY <1>1 DEF Pointers
  <1>2. CASE ~Physical
    <2>1. \E k \in u[2] + 1 .. Behind(u) : p = Recipe(u[1])[k]
      BY <1>2 DEF Pointers
    <2> QED
      BY <1>2, <2>1, SegmentWithin
  <1> QED
    BY <1>1, <1>2

\* A fingerprint that a unit lists has a pointer in it: the last one.
LEMMA ListedIsHeld ==
  ASSUME TypeOK, FlagsWithin, Len(recipe) = Len(flags), NEW u \in Units, Readable(u),
         NEW f, Lists(u, f)
  PROVE  \E p \in Pointers(u) : p[1] = f
  <1>1. CASE Physical
    <2>1. <<f, u>> \in Pointers(u) /\ <<f, u>>[1] = f
      BY <1>1 DEF Pointers, Lists
    <2> QED
      BY <2>1
  <1>2. CASE ~Physical
    <2> DEFINE r == Recipe(u[1])
               T == {k \in u[2] + 1 .. Behind(u) : r[k][1] = f}
    <2>1. u[2] \in Nat /\ Behind(u) \in Nat
      BY <1>2, SegmentWithin
    <2>2. T \in SUBSET (0 .. Behind(u)) /\ T # {}
      BY <1>2, <2>1 DEF Lists
    <2>3. PICK k \in T : \A j \in T : j <= k
      <3> HIDE DEF T
      <3> QED
        BY <2>1, <2>2, LastPlace
    <2>4. \A j \in k + 1 .. Behind(u) : r[j][1] # r[k][1]
      <3>1. ASSUME NEW j \in k + 1 .. Behind(u), r[j][1] = f PROVE FALSE
        <4>1. j \in u[2] + 1 .. Behind(u) /\ j > k
          BY <2>1
        <4> QED
          BY <2>1, <2>3, <3>1, <4>1
      <3> QED
        BY <3>1
    <2>5. k \in {i \in u[2] + 1 .. Behind(u) : \A j \in i + 1 .. Behind(u) : r[j][1] # r[i][1]}
      BY <2>4
    <2>6. r[k] \in Pointers(u)
      BY <1>2, <2>5 DEF Pointers
    <2> QED
      BY <2>6
  <1> QED
    BY <1>1, <1>2

\* What is left of a sequence when u has left it.
Thinned(s, q, u) ==
  /\ Len(s) <= Len(q)
  /\ \A i \in DOMAIN s : s[i] # u /\ \E a \in DOMAIN q : s[i] = q[a]
  /\ \A i, j \in DOMAIN s : i < j => \E a, b \in DOMAIN q : a < b /\ s[i] = q[a] /\ s[j] = q[b]

\* A unit that was there once is gone, and the others keep their order.
LEMMA WithoutFacts ==
  ASSUME NEW S, NEW q \in Seq(S), NEW u, \A i, j \in DOMAIN q : q[i] = q[j] => i = j
  PROVE  Without(q, u) \in Seq(S) /\ Thinned(Without(q, u), q, u)
  <1>1. Len(q) \in Nat /\ DOMAIN q = 1 .. Len(q)
    BY SeqFacts
  <1>2. CASE u \in ToSet(q)
    <2> DEFINE n == CHOOSE i \in DOMAIN q : q[i] = u
               s == RemoveAt(q, n)
    <2>1. n \in DOMAIN q /\ q[n] = u
      BY <1>2 DEF ToSet
    <2>2. Without(q, u) = s
      BY <1>2 DEF Without
    <2> HIDE DEF n
    <2>3. n \in 1 .. Len(q)
      BY <1>1, <2>1
    <2>4. /\ s \in Seq(S) /\ Len(s) = Len(q) - 1
          /\ \A k \in 1 .. Len(q) - 1 : s[k] = IF k < n THEN q[k] ELSE q[k + 1]
      BY <2>3, RemoveFacts
    <2> HIDE DEF s
    <2>5. DOMAIN s = 1 .. Len(q) - 1 /\ Len(s) <= Len(q)
      BY <1>1, <2>4, SeqFacts
    <2> DEFINE at(k) == IF k < n THEN k ELSE k + 1
    <2>6. \A k \in DOMAIN s : at(k) \in DOMAIN q /\ at(k) # n /\ s[k] = q[at(k)]
      BY <1>1, <2>3, <2>4, <2>5
    <2>7. \A i, j \in DOMAIN s : i < j => at(i) < at(j)
      BY <1>1, <2>3, <2>5
    <2> HIDE DEF at
    <2>8. \A i, j \in DOMAIN s : i < j => \E a, b \in DOMAIN q : a < b /\ s[i] = q[a] /\ s[j] = q[b]
      BY <2>6, <2>7
    <2>9. \A i \in DOMAIN s : s[i] # u
      BY <2>1, <2>6
    <2>10. Thinned(s, q, u)
      BY <2>5, <2>6, <2>8, <2>9 DEF Thinned
    <2> QED
      BY <2>2, <2>4, <2>10
  <1>3. CASE u \notin ToSet(q)
    <2>1. Without(q, u) = q
      BY <1>3 DEF Without
    <2>2. Thinned(q, q, u)
      BY <1>1, <1>3 DEF ToSet, Thinned
    <2> QED
      BY <2>1, <2>2
  <1> QED
    BY <1>2, <1>3

\* Later orders the segments.
LEMMA LaterFacts ==
  /\ \A u \in Nat \X Nat \X Nat : ~Later(u, u)
  /\ \A u, v, w \in Nat \X Nat \X Nat : Later(u, v) /\ Later(v, w) => Later(u, w)
  BY DEF Later

\* The fingerprints of a unit, whose entries do_delete deletes; and the units of
\* a fingerprint when it has.
FingerprintsOf(u) == {p[1] : p \in Pointers(u)}
Cleared(s, f, u) ==
  /\ s \in Seq(Units) /\ Len(s) \in Nat /\ DOMAIN s = 1 .. Len(s) /\ Len(s) <= Length
  /\ \A i \in DOMAIN s : s[i] # u /\ \E j \in DOMAIN table[f] : s[i] = table[f][j]
  /\ ~Physical => \A i, j \in DOMAIN s : i < j => Later(s[i], s[j])

\* A unit leaves the table for good, and the others stay as they are.
LEMMA ForgottenFacts ==
  ASSUME IInv, NEW u \in Units, NEW f \in Fps, Readable(u)
  PROVE  Cleared(Forgotten(FingerprintsOf(u), u)[f], f, u)
  <1> DEFINE t == Forgotten(FingerprintsOf(u), u)
  <1> DEFINE fps == FingerprintsOf(u)
             q == table[f]
  <1>1. /\ TypeOK /\ FlagsWithin /\ Len(recipe) = Len(flags) /\ Length \in Nat \ {0}
        /\ EntriesLead /\ TableInOrder
    BY NumberShapes DEF IInv, Counted, TableLeads
  <1>2. /\ q \in Seq(Units) /\ Len(q) \in Nat /\ DOMAIN q = 1 .. Len(q) /\ Len(q) <= Length
        /\ \A i \in DOMAIN q : q[i] \in Units
    BY <1>1, TableShape, FpsAreKeys
  <1>3. t[f] = IF f \in fps THEN Without(q, u) ELSE q
    BY FpsAreKeys DEF Forgotten
  <1>4. u \in ToSet(q) => f \in fps
    <2>1. ASSUME NEW i \in DOMAIN q, q[i] = u
          PROVE  f \in fps
      <3>1. Lists(u, f)
        BY <1>1, <2>1, FpsAreKeys DEF EntriesLead, Leads
      <3>2. PICK p \in Pointers(u) : p[1] = f
        BY <1>1, <3>1, ListedIsHeld
      <3> QED
        BY <3>2 DEF FingerprintsOf
    <2> QED
      BY <2>1 DEF ToSet
  <1>5. ~Physical => \A i, j \in DOMAIN q : i < j => Later(q[i], q[j])
    BY <1>1, FpsAreKeys DEF TableInOrder
  <1>6. \A i, j \in DOMAIN q : q[i] = q[j] => i = j
    <2>1. CASE Physical
      <3>1. Length = 1
        BY <2>1 DEF Length
      <3> QED
        BY <1>2, <3>1
    <2>2. CASE ~Physical
      <3>1. ASSUME NEW i \in DOMAIN q, NEW j \in DOMAIN q, i < j, q[i] = q[j]
            PROVE  FALSE
        <4>1. Later(q[i], q[i])
          BY <1>5, <2>2, <3>1
        <4>2. q[i] \in Nat \X Nat \X Nat
          <5>1. q[i] \in Units
            BY <1>2
          <5> QED
            BY <1>1, <2>2, <5>1, NumberShapes, SMTT(30) DEF Units
        <4> QED
          BY <4>1, <4>2, LaterFacts
      <3> QED
        BY <1>2, <3>1
    <2> QED
      BY <2>1, <2>2
  <1> HIDE DEF q, fps, t
  <1>n. Len(q) \in Nat /\ DOMAIN q = 1 .. Len(q)
    BY <1>2
  <1>7. Without(q, u) \in Seq(Units) /\ Thinned(Without(q, u), q, u)
    BY <1>2, <1>6, WithoutFacts
  <1>8. CASE f \notin fps
    <2>1. t[f] = q /\ u \notin ToSet(q)
      BY <1>3, <1>4, <1>8
    <2> QED
      BY <1>2, <1>5, <2>1 DEF ToSet, q, t, Cleared
  <1>9. CASE f \in fps
    <2> DEFINE s == t[f]
    <2>1. s \in Seq(Units) /\ Thinned(s, q, u)
      BY <1>3, <1>7, <1>9
    <2> HIDE DEF s
    <2>2. Len(s) \in Nat /\ DOMAIN s = 1 .. Len(s)
      BY <2>1, SeqFacts
    <2>3. Len(s) <= Length
      BY <1>1, <1>n, <1>2, <2>1, <2>2 DEF Thinned
    <2>4. ~Physical => \A i, j \in DOMAIN s : i < j => Later(s[i], s[j])
      BY <1>5, <2>1 DEF Thinned, q
    <2>5. \A i \in DOMAIN s : s[i] # u /\ \E j \in DOMAIN q : s[i] = q[j]
      BY <2>1 DEF Thinned
    <2> QED
      BY <2>1, <2>2, <2>3, <2>4, <2>5 DEF s, q, t, Cleared
  <1> QED
    BY <1>8, <1>9

\* What stands under the placeholder stays: it is no fingerprint of a unit.
LEMMA PlaceholderRemains ==
  ASSUME IInv, NEW u \in Units, Readable(u)
  PROVE  Forgotten(FingerprintsOf(u), u)[Placeholder] = table[Placeholder]
  <1>1. TypeOK /\ FlagsWithin /\ Len(recipe) = Len(flags)
    BY DEF IInv, Counted
  <1>2. ASSUME NEW p \in Pointers(u) PROVE p[1] \in Fps
    <2>1. CASE Physical
      <3>1. u \in 0 .. Len(containers) - 1
        BY <1>1, <2>1, UnitShape, NumberShapes, SMTT(30) DEF Readable
      <3> QED
        BY <1>1, <2>1, <3>1, PointersOf, SetShapes
    <2>2. CASE ~Physical
      <3>1. PICK k \in DOMAIN Recipe(u[1]) : p = Recipe(u[1])[k]
        BY <1>1, <2>2, PointersOf
      <3>2. u[1] \in 0 .. Len(recipe) - 1
        BY <1>1, <2>2, SegmentWithin
      <3> QED
        BY <1>1, <3>1, <3>2, RecipeShape, PointerShape
    <2> QED
      BY <2>1, <2>2
  <1>3. Placeholder \notin FingerprintsOf(u)
    BY <1>2, FpsAreKeys DEF FingerprintsOf
  <1> QED
    BY <1>3, FpsAreKeys DEF Forgotten

\* What do_delete still has to delete can be read.
LEMMA TodoReadable ==
  ASSUME IInv, phase = "entries", NEW u \in todo
  PROVE  u \in Units /\ Readable(u)
  <1>1. /\ TypeOK /\ Counted /\ ExpiredInTurn /\ TodoExpired /\ Accounted
        /\ Len(flags) = saved /\ saved \in Nat /\ expired \in Nat
    BY NumberShapes DEF IInv, Counted, Running
  <1>2. expired - 1 \in 0 .. saved - 1
    BY <1>1, NumberShapes, SMTT(30) DEF ExpiredInTurn, Counted, Deleting
  <1>3. u \in Units
    BY <1>1 DEF TypeOK
  <1>4. CASE Physical
    <2>1. u \in reclaimed
      BY <1>1, <1>4 DEF TodoExpired
    <2>2. u < Len(containers)
      BY <1>1, <2>1 DEF Accounted
    <2> QED
      BY <1>3, <1>4, <2>2 DEF Readable
  <1>5. CASE ~Physical
    <2>1. u[1] = expired - 1 /\ u \in ToSet(flags[expired])
      BY <1>1, <1>5 DEF TodoExpired
    <2>2. u[1] < Len(flags) /\ u[1] + 1 = expired
      BY <1>1, <1>2, <2>1
    <2> QED
      BY <1>3, <1>5, <2>1, <2>2 DEF Readable
  <1> QED
    BY <1>4, <1>5

\* Nothing leads to a unit any more when its entries have been deleted.
LEMMA DeleteEntriesIInv ==
  ASSUME IInv, NEW u \in todo, DeleteEntries(u)
  PROVE  IInv'
  <1>1. /\ phase = "entries" /\ NextUnit(u)
        /\ table' = Forgotten(FingerprintsOf(u), u) /\ todo' = todo \ {u}
        /\ index' = index /\ saved' = saved /\ recipe' = recipe /\ flags' = flags
        /\ deleted' = deleted /\ sparse' = sparse /\ manifest' = manifest
        /\ reclaimed' = reclaimed /\ phase' = phase
        /\ containers' = containers /\ job' = job /\ left' = left /\ seg' = seg
        /\ stored' = stored /\ fetched' = fetched /\ inherited' = inherited /\ open' = open
        /\ restoring' = restoring /\ expired' = expired /\ backedUp' = backedUp
    BY DEF DeleteEntries, jobVars, historyVars, FingerprintsOf
  <1>2. /\ TypeOK /\ Counted /\ ExpiredInTurn /\ Contents /\ PointersLive /\ ManifestTimes
        /\ Accounted /\ FlagsWithin /\ TableInOrder /\ TodoExpired /\ Forsaken /\ TableLeads
    BY DEF IInv
  <1>3. /\ Len(recipe) = saved /\ Len(flags) = saved /\ saved \in Nat /\ expired \in Nat
        /\ Running' = Running /\ Deleting' = Deleting
    BY <1>1, <1>2, NumberShapes DEF Counted, Running, Deleting
  <1>4. /\ Ids' = Ids /\ Units' = Units /\ Length' = Length /\ Physical' = Physical
    BY <1>1 DEF Ids, Units, Length, Physical
  <1>5. expired - 1 \in 0 .. saved - 1
    BY <1>1, <1>2, <1>3, NumberShapes, SMTT(30) DEF ExpiredInTurn, Counted, Deleting
  <1>6. u \in Units /\ Readable(u)
    BY <1>1, TodoReadable
  <1>a. table'[Placeholder] = table[Placeholder]
    BY <1>1, <1>6, PlaceholderRemains
  <1>b. NoPlaceholder' <=> NoPlaceholder
    BY <1>1, <1>a DEF NoPlaceholder, BySimilarity, Physical
  <1>7. \A f \in Keys :
          /\ table'[f] \in Seq(Units) /\ Len(table'[f]) \in Nat
          /\ DOMAIN table'[f] = 1 .. Len(table'[f]) /\ Len(table'[f]) <= Length
          /\ \A i \in DOMAIN table'[f] :
               /\ f \in Fps => table'[f][i] # u
               /\ \E j \in DOMAIN table[f] : table'[f][i] = table[f][j]
          /\ ~Physical =>
               \A i, j \in DOMAIN table'[f] : i < j => Later(table'[f][i], table'[f][j])
    <2>1. \A f \in Fps : Cleared(table'[f], f, u)
      BY <1>1, <1>6, ForgottenFacts
    <2>2. /\ table'[Placeholder] \in Seq(Units) /\ Len(table'[Placeholder]) \in Nat
          /\ DOMAIN table'[Placeholder] = 1 .. Len(table'[Placeholder])
          /\ Len(table'[Placeholder]) <= Length
      BY <1>2, <1>a, TableShape, FpsAreKeys
    <2>3. ~Physical => \A i, j \in DOMAIN table'[Placeholder] :
                          i < j => Later(table'[Placeholder][i], table'[Placeholder][j])
      BY <1>2, <1>a, FpsAreKeys DEF TableInOrder
    <2> QED
      BY <1>a, <2>1, <2>2, <2>3, FpsAreKeys DEF Cleared, Keys
  <1>8. table' \in [Keys -> Seq(Units)]
    <2>1. table' = [f \in Keys |-> table'[f]]
      BY <1>1 DEF Forgotten
    <2> QED
      BY <1>7, <2>1
  <1>9. TypeOK'
    BY <1>1, <1>2, <1>4, <1>7, <1>8 DEF TypeOK
  <1>10. Counted'
    BY <1>1, <1>2, <1>3 DEF Counted
  <1>11. ExpiredInTurn'
    BY <1>1, <1>2 DEF ExpiredInTurn
  <1>12. Contents'
    BY <1>1, <1>2, <1>3 DEF Contents, Recipe
  <1>13. PointersLive'
    BY <1>1, <1>2, <1>3, <1>b DEF PointersLive, Live, Held, Stands, Recipe, Fingerprints
  <1>14. ManifestTimes'
    BY <1>1, <1>2 DEF ManifestTimes, Recipe
  <1>15. Accounted'
    BY <1>1, <1>2 DEF Accounted, UsedNow, Recipe
  <1>16. FlagsWithin'
    BY <1>1, <1>2 DEF FlagsWithin, Recipe, Behind
  <1>17. TableLeads'
    <2>1. ASSUME NEW f, NEW w, Leads(w, f), f \in Fps => w # u
          PROVE  Leads(w, f)'
      BY <1>1, <1>4, <2>1 DEF Leads, Readable, Fresh, Lists, Fingerprints, Recipe, Behind
    <2>2. ASSUME NEW f \in Keys, NEW i \in DOMAIN table'[f], NEW w, w = table'[f][i]
          PROVE  Leads(w, f)'
      <3>1. (f \in Fps => w # u) /\ \E j \in DOMAIN table[f] : w = table[f][j]
        BY <1>7, <2>2
      <3>2. Leads(w, f)
        BY <1>2, <3>1 DEF TableLeads, EntriesLead
      <3> QED
        BY <2>1, <3>1, <3>2
    <2> QED
      BY <1>1, <1>2, <2>2 DEF TableLeads, EntriesLead
  <1>18. TableInOrder'
    BY <1>4, <1>7 DEF TableInOrder
  <1>19. TodoExpired'
    BY <1>1, <1>2, <1>4 DEF TodoExpired
  <1>20. Forsaken'
    BY <1>1, <1>2 DEF Forsaken, Recipe, Inherited
  <1> QED
    BY <1>9, <1>10, <1>11, <1>12, <1>13, <1>14, <1>15, <1>16, <1>17, <1>18, <1>19, <1>20
       DEF IInv

-----------------------------------------------------------------------------
(* What the lookup of a chunk finds.                                       *)

\* A unit that the lookup may read.
Sound(u) == u \in Units /\ Trusted(u)

\* What is prefetched with a unit can be read as it can.
LEMMA PrefetchedFacts ==
  ASSUME IInv, todo = {}, NEW u, Sound(u), NEW w \in Prefetched(u)
  PROVE  Sound(w)
  <1>1. TypeOK /\ FlagsWithin /\ Len(recipe) = Len(flags) /\ u \in Units
    BY DEF IInv, Counted, Sound
  <1>2. CASE Physical
    BY <1>2 DEF Prefetched
  <1>3. CASE ~Physical
    <2>1. u[1] \in 0 .. Len(flags) - 1 /\ (NoPlaceholder => u[1] >= expired)
      BY <1>1, <1>3, SegmentWithin DEF Sound, Trusted, Fresh
    <2>2. PICK j \in DOMAIN flags[u[1] + 1] : w = flags[u[1] + 1][j]
      BY <1>3 DEF Prefetched
    <2>3. w[1] = u[1] /\ w \in (0 .. MaxVersions) \X Nat \X Nat
      BY <1>1, <2>1, <2>2, FlagShape DEF FlagsWithin
    <2>4. w \in ToSet(flags[w[1] + 1])
      BY <2>2, <2>3 DEF ToSet
    <2> QED
      BY <1>3, <2>1, <2>3, <2>4 DEF Sound, Trusted, Units, Readable, Fresh
  <1> QED
    BY <1>2, <1>3

\* The table names units that the lookup may read, those under the placeholder
\* included if it looks there.
LEMMA TableSound ==
  ASSUME IInv, NEW f \in Keys, f \in Fps \/ BySimilarity, NEW u \in ToSet(table[f])
  PROVE  Sound(u)
  <1>1. TypeOK /\ EntriesLead
    BY DEF IInv, TableLeads
  <1>2. PICK i \in DOMAIN table[f] : u = table[f][i]
    BY DEF ToSet
  <1>3. u \in Units /\ Leads(u, f)
    BY <1>1, <1>2, TableShape DEF EntriesLead
  <1>4. CASE f \in Fps
    BY <1>3, <1>4 DEF Leads, Sound, Trusted
  <1>5. CASE f \notin Fps
    <2>1. f = Placeholder /\ BySimilarity
      BY <1>5 DEF Keys
    <2>2. ~NoPlaceholder
      BY <1>2, <2>1, EmptySeq DEF NoPlaceholder
    <2> QED
      BY <1>3, <2>2 DEF Leads, Sound, Trusted
  <1> QED
    BY <1>4, <1>5

\* The features that a segment is looked up by are keys of the table.
LEMMA FeaturesAreKeys ==
  ASSUME TypeOK
  PROVE  Features \subseteq Keys
  <1> DEFINE n == Min({SegmentSize, Len(left)})
             q == SubSeq(left, 1, n)
  <1>1. SegmentSize \in Nat \ {0} /\ Len(left) \in Nat /\ left \in Seq(Fps)
    BY NumberShapes DEF TypeOK
  <1>2. n \in 0 .. Len(left)
    BY <1>1, MinMaxOfTwo
  <1> HIDE DEF n
  <1>3. \A i \in 1 .. n : left[i] \in Fps
    BY <1>1, <1>2, ElementOfSeq
  <1>4. q \in Seq(Fps)
    BY <1>2, <1>3, SubSeqProperties
  <1> HIDE DEF q
  <1>5. \A k \in DOMAIN q : q[k] \in Fps
    BY <1>4, SeqFacts
  <1>6. ToSet(q) \subseteq Fps
    BY <1>5 DEF ToSet
  <1>7. Features = Sampling(ToSet(q))
    BY DEF Features, q, n
  <1> QED
    BY <1>6, <1>7, SampledFeatures, FpsAreKeys

\* So are the units that are chosen for the similarity of a segment.
LEMMA SelectedFacts ==
  ASSUME IInv, todo = {}, NEW prefetched \in Selected
  PROVE  \A w \in prefetched : Sound(w)
  <1>1. CASE BySimilarity /\ seg = <<>>
    <2>1. PICK tops \in top_segment_select(Features) :
            prefetched = UNION {Prefetched(tops[i]) : i \in DOMAIN tops}
      BY <1>1 DEF Selected
    <2>2. \A i \in DOMAIN tops : tops[i] \in SimilarUnits(Features)
      BY <2>1 DEF top_segment_select
    <2>3. Features \subseteq Keys
      BY FeaturesAreKeys DEF IInv
    <2>4. \A i \in DOMAIN tops : Sound(tops[i])
      BY <1>1, <2>2, <2>3, TableSound DEF SimilarUnits
    <2>5. ASSUME NEW w \in prefetched
          PROVE  \E i \in DOMAIN tops : w \in Prefetched(tops[i])
      BY <2>1
    <2> QED
      BY <2>4, <2>5, PrefetchedFacts
  <1>2. CASE ~(BySimilarity /\ seg = <<>>)
    BY <1>2 DEF Selected
  <1> QED
    BY <1>1, <1>2

\* A pointer found in a unit leads to a container that is there.
LEMMA PointerHeld ==
  ASSUME IInv, phase = "run", NEW u, Sound(u), NEW p \in Pointers(u)
  PROVE  p \in Fps \X Ids /\ Held(p)
  <1>1. /\ TypeOK /\ FlagsWithin /\ Len(recipe) = Len(flags) /\ PointersLive /\ u \in Units
        /\ Len(recipe) = saved + 1 /\ job = saved /\ todo = {} /\ saved \in Nat
        /\ Running /\ expired \in Nat /\ Len(containers) \in Nat /\ Readable(u)
    BY NumberShapes DEF IInv, Counted, Sound, Trusted, Running
  <1>2. CASE Physical
    <2>1. p = <<p[1], u>> /\ p[1] \in Fingerprints(u) /\ p[2] = u
      BY <1>1, <1>2, PointersOf
    <2>2. u \in 0 .. Len(containers) - 1 /\ (NoPlaceholder => u \notin reclaimed)
      BY <1>1, <1>2, UnitShape DEF Sound, Trusted, Readable, Fresh
    <2>3. Fingerprints(u) \subseteq Fps
      BY <1>1, <2>2, SetShapes
    <2>4. u \in Ids
      BY <1>1, <2>2 DEF Ids
    <2> QED
      BY <1>1, <2>1, <2>2, <2>3, <2>4 DEF Held, Live, Stands
  <1>3. CASE ~Physical
    <2>1. /\ u[1] \in 0 .. Len(flags) - 1
          /\ \E k \in DOMAIN Recipe(u[1]) : p = Recipe(u[1])[k]
      BY <1>1, <1>3, PointersOf
    <2>2. PICK k \in DOMAIN Recipe(u[1]) : p = Recipe(u[1])[k]
      BY <2>1
    <2>3. p \in Fps \X Ids
      BY <1>1, <2>1, <2>2, RecipeShape
    <2>4. NoPlaceholder => u[1] >= expired
      BY <1>1, <1>3 DEF Sound, Trusted, Fresh
    <2>5. CASE u[1] = job
      BY <1>1, <2>2, <2>3, <2>5 DEF PointersLive
    <2>6. CASE u[1] # job
      <3>1. u[1] \in 0 .. saved - 1 /\ (NoPlaceholder => u[1] \in expired .. saved - 1)
        BY <1>1, <2>1, <2>4, <2>6
      <3>2. Stands(p)
        BY <1>1, <2>2, <3>1 DEF PointersLive
      <3>3. NoPlaceholder => Live(p)
        BY <1>1, <2>2, <3>1 DEF PointersLive
      <3> QED
        BY <2>3, <3>2, <3>3 DEF Live, Held
    <2> QED
      BY <2>5, <2>6
  <1> QED
    BY <1>2, <1>3

\* The container that the lookup gives for a chunk holds it.
LEMMA FoundFacts ==
  ASSUME IInv, phase = "run", NEW f \in Fps, NEW cached, \A u \in cached : Sound(u),
         NEW r \in Found(f, cached)
  PROVE  /\ r.id = Nowhere \/ (<<f, r.id>> \in Fps \X Ids /\ Held(<<f, r.id>>))
         /\ \A u \in r.read : Sound(u)
  <1>1. /\ TypeOK /\ PointersLive /\ todo = {} /\ Len(containers) \in Nat
    BY NumberShapes DEF IInv, Counted
  <1>2. ASSUME NEW units, NEW read, \A u \in units : Sound(u), \A u \in read : Sound(u),
               r \in InUnits(f, units, read)
        PROVE  /\ <<f, r.id>> \in Fps \X Ids /\ Held(<<f, r.id>>)
               /\ \A u \in r.read : Sound(u)
    <2> PICK u \in units : \E p \in Pointers(u) : p[1] = f /\ r = [id |-> p[2], read |-> read]
      BY <1>2 DEF InUnits
    <2>1. PICK p \in Pointers(u) : p[1] = f /\ r = [id |-> p[2], read |-> read]
      OBVIOUS
    <2>2. p \in Fps \X Ids /\ Held(p)
      BY <1>2, <2>1, PointerHeld
    <2>3. p = <<f, r.id>> /\ r.read = read
      BY <2>1, <2>2
    <2> QED
      BY <1>2, <2>2, <2>3
  <1>3. ASSUME NEW read, \A u \in read : Sound(u), r \in Miss(read)
        PROVE  r.id = Nowhere /\ \A u \in r.read : Sound(u)
    BY <1>3 DEF Miss
  <1>4. ASSUME r \in InTable(f)
        PROVE  /\ r.id = Nowhere \/ (<<f, r.id>> \in Fps \X Ids /\ Held(<<f, r.id>>))
               /\ \A u \in r.read : Sound(u)
    <2>1. CASE table[f] = <<>>
      BY <1>3, <1>4, <2>1 DEF InTable
    <2>2. CASE table[f] # <<>>
      <3>1. Head(table[f]) \in ToSet(table[f])
        <4>1. table[f] \in Seq(Units)
          BY <1>1, FpsAreKeys, TableShape
        <4>2. Head(table[f]) = table[f][1] /\ 1 \in DOMAIN table[f]
          BY <2>2, <4>1, SeqFacts
        <4> QED
          BY <4>2 DEF ToSet
      <3> DEFINE units == Prefetched(Head(table[f]))
      <3>2. \A u \in units : Sound(u)
        BY <1>1, <3>1, FpsAreKeys, TableSound, PrefetchedFacts
      <3>3. r \in InUnits(f, units, units) \/ r \in Miss(units)
        BY <1>4, <2>2 DEF InTable
      <3> HIDE DEF units
      <3> QED
        BY <1>2, <1>3, <3>2, <3>3
    <2> QED
      BY <2>1, <2>2
  <1>5. CASE f \in open
    <2>1. r = [id |-> Len(containers), read |-> {}]
      BY <1>5 DEF Found
    <2> QED
      BY <1>1, <1>5, <2>1 DEF Held, Ids
  <1>6. CASE f \notin open /\ InBuffer(f) # {}
    <2>1. PICK k \in InBuffer(f) : r = [id |-> seg[k][2], read |-> {}]
      BY <1>6 DEF Found
    <2>2. k \in DOMAIN seg /\ seg[k][1] = f
      BY <2>1 DEF InBuffer
    <2>3. seg[k] \in Fps \X Ids /\ Held(seg[k])
      BY <1>1, <2>2, JobShape DEF PointersLive
    <2>4. seg[k] = <<f, r.id>> /\ r.read = {}
      BY <2>1, <2>2, <2>3
    <2> QED
      BY <2>3, <2>4
  <1>7. CASE f \notin open /\ InBuffer(f) = {}
    <2>1. r \in InUnits(f, cached, {}) \/ r \in InTable(f) \/ r \in Miss({})
      BY <1>7 DEF Found
    <2> QED
      BY <1>2, <1>3, <1>4, <2>1
  <1> QED
    BY <1>5, <1>6, <1>7

-----------------------------------------------------------------------------
(* A chunk gets its container.                                             *)

\* How the store and the table stand when chunk f has got container id, stored
\* or found: the container holds it, and nothing that was there is lost.
Placed(f, id, tbl, new) ==
  /\ UNCHANGED <<index, reclaimed, inherited>>
  /\ id \in Ids' /\ Held(<<f, id>>)' /\ id \notin inherited
  /\ containers' \in Seq(SUBSET Fps) /\ Len(containers') \in Nat
  /\ Len(containers) <= Len(containers')
  /\ \/ Len(containers') = Len(containers)
     \/ /\ Len(containers') = Len(containers) + 1
        /\ containers'[Len(containers) + 1] = open /\ open # {}
  /\ \A c \in 0 .. Len(containers) - 1 : containers'[c + 1] = containers[c + 1]
  /\ Ids \subseteq Ids'
  /\ open' \subseteq Fps
  /\ open' # {} => id = Len(containers') \/ (containers' = containers /\ open' = open)
  /\ NoPlaceholder' => NoPlaceholder
  /\ \A p \in Fps \X Ids : Stands(p) => Stands(p)'
  /\ \A p \in Fps \X Ids : (Live(p) => Live(p)') /\ (Held(p) => Held(p)')
  /\ tbl \in [Keys -> Seq(Units')] /\ TableOpen(tbl)
  /\ Physical => tbl = table \/ Len(containers') = Len(containers) + 1
  /\ new \subseteq stored \union {f}

\* The chunk is stored.
LEMMA StoredPlaced ==
  ASSUME IInv, phase = "run", NEW f \in Fps, Store(f), NEW tbl, NEW id,
         UNCHANGED <<index, reclaimed, inherited>>, NoPlaceholder' => NoPlaceholder,
         id = NewId, tbl = IF Full THEN TableOfSealed ELSE table
  PROVE  Placed(f, id, tbl, stored \union {f})
  <1>1. /\ TypeOK /\ Len(containers) \in Nat /\ Capacity \in Nat \ {0} /\ Accounted
        /\ Forsaken /\ index' = index /\ reclaimed' = reclaimed /\ inherited' = inherited
    BY NumberShapes DEF IInv
  <1>3. \A c \in inherited : c < Len(containers)
    <2>1. inherited = IF job > 0 THEN sparse[job] ELSE {}
      BY <1>1 DEF Forsaken, Inherited
    <2>2. job = saved /\ Len(sparse) = saved /\ saved \in Nat
      BY NumberShapes DEF IInv, Counted, Running
    <2>3. job > 0 => job \in DOMAIN sparse
      BY <1>1, <2>2, SetShapes
    <2> QED
      BY <1>1, <2>1, <2>3 DEF Forsaken
  <1>4. \A c \in reclaimed : c < Len(containers)
    BY <1>1 DEF Accounted
  <1>5. CASE Full
    <2>1. open # {}
      BY <1>1, <1>5, FS_EmptySet DEF Full
    <2>2. Sealed = <<open>> /\ containers' = containers \o <<open>> /\ open' = {f}
      BY <1>5 DEF Sealed, Store
    <2>3. containers' = Append(containers, open)
      BY <1>1, <2>2, AppendIsConcat DEF TypeOK
    <2>4. Len(Sealed) = 1
      BY <2>2
    <2>5. id = Len(containers) + 1 /\ tbl = TableOfSealed
      BY <1>5, <2>4 DEF NewId
    <2>6. /\ containers' \in Seq(SUBSET Fps) /\ Len(containers') = Len(containers) + 1
          /\ \A c \in 0 .. Len(containers) - 1 : Fingerprints(c)' = Fingerprints(c)
          /\ containers'[Len(containers) + 1] = open
          /\ Ids \subseteq Ids'
          /\ \A p \in Fps \X Ids : (Held(p) => Live(p)') /\ (Stands(p) => Stands(p)')
      BY <1>1, <2>3, SealFacts
    <2>7. TableOfSealed \in [Keys -> Seq(Units')] /\ TableOpen(TableOfSealed)
      BY <1>1, <2>3, TableOfSealedFacts
    <2>8. \A c \in 0 .. Len(containers) - 1 : containers'[c + 1] = containers[c + 1]
      BY <2>6 DEF Fingerprints
    <2>9. id \in Ids' /\ Held(<<f, id>>)' /\ id \notin inherited
      BY <1>1, <1>3, <2>2, <2>5, <2>6 DEF Ids, Held
    <2>10. \A p \in Fps \X Ids : (Live(p) => Live(p)') /\ (Held(p) => Held(p)')
      BY <2>6 DEF Held
    <2>11. tbl \in [Keys -> Seq(Units')] /\ TableOpen(tbl)
      BY <2>5, <2>7
    <2>12. /\ Len(containers') \in Nat /\ Len(containers) <= Len(containers')
           /\ open' \subseteq Fps /\ id = Len(containers')
      BY <1>1, <2>2, <2>5, <2>6
    <2> QED
      BY <1>1, <2>1, <2>6, <2>8, <2>9, <2>10, <2>11, <2>12 DEF Placed
  <1>6. CASE ~Full
    <2>1. Sealed = <<>> /\ containers' = containers \o <<>> /\ open' = open \union {f}
      BY <1>6 DEF Sealed, Store
    <2>2. containers' = containers
      BY <1>1, <2>1, ConcatEmptySeq DEF TypeOK
    <2>3. Len(Sealed) = 0
      BY <2>1, EmptySeq
    <2>4. id = Len(containers) /\ tbl = table
      BY <1>1, <1>6, <2>3 DEF NewId
    <2>5. Ids' = Ids /\ Units' = Units
      BY <1>1, <2>2 DEF Ids, Units, Physical
    <2>6. id \in Ids' /\ Held(<<f, id>>)' /\ id \notin inherited
      BY <1>1, <1>3, <2>1, <2>2, <2>4 DEF Ids, Held
    <2>7. ASSUME NEW p \in Fps \X Ids
          PROVE  (Live(p) => Live(p)') /\ (Held(p) => Held(p)') /\ (Stands(p) => Stands(p)')
      BY <1>1, <2>1, <2>2 DEF Held, Live, Stands, Fingerprints
    <2>8. table \in [Keys -> Seq(Units')] /\ TableOpen(table)
      BY <1>1, <2>5, TableShape DEF TableOpen, TypeOK
    <2>9. open' \subseteq Fps /\ containers' \in Seq(SUBSET Fps)
      BY <1>1, <2>1, <2>2 DEF TypeOK
    <2> QED
      BY <1>1, <2>2, <2>4, <2>5, <2>6, <2>7, <2>8, <2>9 DEF Placed
  <1> QED
    BY <1>5, <1>6

\* The chunk is a duplicate and stays one.
LEMMA FoundPlaced ==
  ASSUME IInv, phase = "run", NEW f \in Fps, NEW id \in Ids, Held(<<f, id>>), id \notin inherited,
         UNCHANGED <<index, reclaimed, inherited, containers, open>>,
         NoPlaceholder' => NoPlaceholder
  PROVE  \A tbl, new : tbl = table /\ new = stored => Placed(f, id, tbl, new)
  <1>1. /\ TypeOK /\ Len(containers) \in Nat
        /\ index' = index /\ reclaimed' = reclaimed /\ inherited' = inherited
        /\ containers' = containers /\ open' = open
    BY NumberShapes DEF IInv
  <1>2. Ids' = Ids /\ Units' = Units
    BY <1>1 DEF Ids, Units, Physical
  <1>3. \A p : (Live(p) => Live(p)') /\ (Held(p) => Held(p)') /\ (Stands(p) => Stands(p)')
    BY <1>1 DEF Held, Live, Stands, Fingerprints
  <1>4. table \in [Keys -> Seq(Units')] /\ TableOpen(table)
    BY <1>1, <1>2, TableShape DEF TableOpen, TypeOK
  <1>5. open' \subseteq Fps /\ containers' \in Seq(SUBSET Fps)
    BY <1>1 DEF TypeOK
  <1> QED
    BY <1>1, <1>2, <1>3, <1>4, <1>5 DEF Placed

\* A step of the backup leaves alone what belongs to its beginning and its end.
Rest ==
  UNCHANGED <<saved, deleted, sparse, manifest, phase, job, todo, restoring, expired, backedUp>>

\* The next chunk, and the segment with its pointer.
LEMMA NextChunk ==
  ASSUME IInv, phase = "run", left # <<>>, NEW f, f = Head(left), NEW id, NEW tbl, NEW new,
         Placed(f, id, tbl, new), Rest, left' = Tail(left)
  PROVE  /\ f \in Fps /\ Len(left) \in Nat \ {0} /\ left' \in Seq(Fps)
         /\ Len(left') = Len(left) - 1 /\ DOMAIN left' = 1 .. Len(left) - 1
         /\ \A k \in DOMAIN left' : left'[k] = left[k + 1] /\ k + 1 \in DOMAIN left
         /\ f = left[1] /\ 1 \in DOMAIN left
         /\ f = backedUp[job + 1][Len(Recipe(job)) + Len(seg) + 1]
         /\ Append(seg, <<f, id>>) \in Seq(Fps \X Ids')
         /\ Len(Append(seg, <<f, id>>)) = Len(seg) + 1 /\ Len(seg) \in Nat
         /\ DOMAIN Append(seg, <<f, id>>) = 1 .. Len(seg) + 1
         /\ Append(seg, <<f, id>>)[Len(seg) + 1] = <<f, id>>
         /\ \A k \in 1 .. Len(seg) : Append(seg, <<f, id>>)[k] = seg[k]
         /\ DOMAIN seg = 1 .. Len(seg)
         /\ Len(recipe) = saved + 1 /\ Len(flags) = saved + 1 /\ Len(sparse) = saved
         /\ Len(backedUp) = saved + 1 /\ job = saved /\ saved \in Nat /\ saved < MaxVersions
         /\ todo = {} /\ Len(Recipe(job)) \in Nat /\ DOMAIN Recipe(job) = 1 .. Len(Recipe(job))
         /\ expired \in 0 .. saved /\ Len(containers) \in Nat
  <1>1. /\ TypeOK /\ Counted /\ Contents /\ Running /\ ExpiredInTurn
        /\ index' = index /\ Ids \subseteq Ids' /\ id \in Ids'
    BY DEF IInv, Running, Placed
  <1>2. /\ Len(recipe) = saved + 1 /\ Len(flags) = saved + 1 /\ Len(sparse) = saved
        /\ Len(backedUp) = saved + 1 /\ job = saved /\ saved \in Nat /\ saved < MaxVersions
        /\ todo = {} /\ Len(containers) \in Nat
    BY <1>1, NumberShapes DEF Counted
  <1>3. expired \in 0 .. saved
    BY <1>1, <1>2, NumberShapes, SMTT(30) DEF ExpiredInTurn
  <1>4. Len(Recipe(job)) \in Nat /\ DOMAIN Recipe(job) = 1 .. Len(Recipe(job))
    BY <1>1, <1>2, RecipeShape
  <1>5. left \in Seq(Fps) /\ Len(left) \in Nat /\ Len(left) # 0 /\ DOMAIN left = 1 .. Len(left)
    BY <1>1, SeqFacts DEF TypeOK
  <1>6. /\ f \in Fps /\ left' \in Seq(Fps) /\ Len(left') = Len(left) - 1
        /\ \A k \in 1 .. Len(left') : left'[k] = left[k + 1]
    BY <1>5, HeadTailProperties
  <1>7. f = left[1] /\ 1 \in DOMAIN left
    BY <1>5
  <1>8. DOMAIN left' = 1 .. Len(left')
    BY <1>6, SeqFacts
  <1>9. /\ seg \in Seq(Fps \X Ids') /\ <<f, id>> \in Fps \X Ids'
    BY <1>1, <1>6, ShapesGrow
  <1>10. /\ Append(seg, <<f, id>>) \in Seq(Fps \X Ids')
         /\ Len(Append(seg, <<f, id>>)) = Len(seg) + 1 /\ Len(seg) \in Nat
         /\ DOMAIN Append(seg, <<f, id>>) = 1 .. Len(seg) + 1
         /\ Append(seg, <<f, id>>)[Len(seg) + 1] = <<f, id>>
         /\ \A k \in 1 .. Len(seg) : Append(seg, <<f, id>>)[k] = seg[k]
         /\ DOMAIN seg = 1 .. Len(seg)
    <2> DEFINE P == Fps \X Ids'
               p == <<f, id>>
    <2>1. seg \in Seq(P) /\ p \in P
      BY <1>9
    <2> HIDE DEF P, p
    <2>2. /\ Append(seg, p) \in Seq(P) /\ Len(Append(seg, p)) = Len(seg) + 1
          /\ DOMAIN Append(seg, p) = 1 .. Len(seg) + 1 /\ Append(seg, p)[Len(seg) + 1] = p
          /\ \A k \in 1 .. Len(seg) : Append(seg, p)[k] = seg[k]
          /\ Len(seg) \in Nat /\ DOMAIN seg = 1 .. Len(seg)
      BY <2>1, AppendFacts, SeqFacts
    <2> QED
      BY <2>2 DEF P, p
  <1>11. f = backedUp[job + 1][Len(Recipe(job)) + Len(seg) + 1]
    BY <1>1, <1>7 DEF Contents
  <1>12. \A k \in DOMAIN left' : left'[k] = left[k + 1] /\ k + 1 \in DOMAIN left
    BY <1>5, <1>6, <1>8
  <1> QED
    BY <1>2, <1>3, <1>4, <1>5, <1>6, <1>7, <1>8, <1>10, <1>11, <1>12

\* The parts of the invariant that do not depend on whether the segment is
\* complete.
LEMMA PlacedKeeps ==
  ASSUME IInv, phase = "run", NEW f, NEW id, NEW tbl, NEW new, Placed(f, id, tbl, new), Rest,
         \A u \in fetched' : Sound(u)
  PROVE  /\ ExpiredInTurn' /\ TodoExpired'
         /\ \A v \in DOMAIN sparse' : \A c \in sparse'[v] : c < Len(containers')
         /\ \A c \in reclaimed' : c < Len(containers')
         /\ DOMAIN manifest' \union reclaimed' \subseteq Ids'
         /\ \A c \in DOMAIN manifest' : manifest'[c] \in 0..(MaxVersions - 1)
         /\ inherited' \subseteq Ids' /\ todo' = {} /\ fetched' \subseteq Units'
         /\ sparse' \in Seq(SUBSET Ids') /\ index' \in Indexes /\ Length' = Length
         /\ Physical' = Physical /\ Units \subseteq Units'
         /\ inherited' = Inherited(job)'
  <1>1. /\ TypeOK /\ Counted /\ ExpiredInTurn /\ Forsaken /\ Accounted
        /\ index' = index /\ reclaimed' = reclaimed /\ inherited' = inherited
        /\ saved' = saved /\ sparse' = sparse /\ manifest' = manifest /\ phase' = phase
        /\ job' = job /\ todo' = todo /\ expired' = expired
        /\ Ids \subseteq Ids' /\ Len(containers) <= Len(containers') /\ Len(containers') \in Nat
        /\ Len(containers) \in Nat
    BY NumberShapes DEF IInv, Placed, Rest
  <1>2. todo' = {}
    BY <1>1 DEF Counted
  <1>3. ExpiredInTurn' /\ TodoExpired'
    BY <1>1, <1>2 DEF ExpiredInTurn, TodoExpired
  <1>4. /\ Units \subseteq Units' /\ Length' = Length /\ Physical' = Physical
        /\ sparse \in Seq(SUBSET Ids') /\ DOMAIN manifest \union reclaimed \subseteq Ids'
        /\ inherited \subseteq Ids'
    BY <1>1, ShapesGrow
  <1>5. ASSUME NEW v \in DOMAIN sparse, NEW c \in sparse[v]
        PROVE  c < Len(containers')
    <2>1. c \in Nat /\ c < Len(containers)
      BY <1>1, SetShapes, NumberShapes DEF Forsaken
    <2> QED
      BY <1>1, <2>1
  <1>6. \A c \in reclaimed : c < Len(containers')
    <2>1. \A c \in reclaimed : c \in Nat /\ c < Len(containers)
      BY <1>1, NumberShapes DEF Accounted, TypeOK
    <2> QED
      BY <1>1, <2>1
  <1>7. inherited' = Inherited(job)'
    BY <1>1 DEF Forsaken, Inherited
  <1>8. fetched' \subseteq Units'
    BY <1>4 DEF Sound
  <1>9. \A c \in DOMAIN manifest : manifest[c] \in 0..(MaxVersions - 1)
    BY <1>1 DEF TypeOK
  <1>10. index' \in Indexes
    BY <1>1 DEF TypeOK
  <1> QED
    BY <1>1, <1>2, <1>3, <1>4, <1>5, <1>6, <1>7, <1>8, <1>9, <1>10

\* The units that the cache has had can be read.
LEMMA FetchedKept ==
  ASSUME IInv, Grow, NoPlaceholder' => NoPlaceholder, \A u \in fetched' : Sound(u)
  PROVE  \A u \in fetched' : Trusted(u)'
  <1>1. \A u : Sound(u) => Trusted(u)'
    BY GrowKeepsUnits DEF Sound, Trusted
  <1> QED
    BY <1>1

\* A pointer enters a segment that it does not complete.
LEMMA InSegmentIInv ==
  ASSUME IInv, phase = "run", left # <<>>, NEW f, f = Head(left), NEW id, NEW tbl, NEW new,
         Placed(f, id, tbl, new), Rest, left' = Tail(left), Len(left) # 1,
         \A u \in fetched' : Sound(u),
         seg' = Append(seg, <<f, id>>), stored' = new, table' = tbl, UNCHANGED <<recipe, flags>>
  PROVE  IInv'
  <1>1. /\ saved' = saved /\ deleted' = deleted /\ sparse' = sparse /\ manifest' = manifest
        /\ phase' = phase /\ job' = job /\ todo' = todo /\ restoring' = restoring
        /\ expired' = expired /\ backedUp' = backedUp /\ index' = index
        /\ reclaimed' = reclaimed /\ inherited' = inherited /\ recipe' = recipe /\ flags' = flags
        /\ Running /\ Running' /\ Deleting' = Deleting /\ phase' = "run"
    BY DEF Rest, Placed, Running, Deleting
  <1>2. /\ TypeOK /\ Counted /\ Contents /\ PointersLive /\ ManifestTimes
        /\ Accounted /\ FlagsWithin /\ TableInOrder /\ Forsaken /\ TableLeads
    BY DEF IInv
  <1>3. /\ f \in Fps /\ Len(left) \in Nat \ {0} /\ left' \in Seq(Fps)
        /\ Len(left') = Len(left) - 1 /\ DOMAIN left' = 1 .. Len(left) - 1
        /\ \A k \in DOMAIN left' : left'[k] = left[k + 1] /\ k + 1 \in DOMAIN left
        /\ f = backedUp[job + 1][Len(Recipe(job)) + Len(seg) + 1]
        /\ seg' \in Seq(Fps \X Ids') /\ Len(seg') = Len(seg) + 1 /\ Len(seg) \in Nat
        /\ DOMAIN seg' = 1 .. Len(seg) + 1 /\ seg'[Len(seg) + 1] = <<f, id>>
        /\ \A k \in 1 .. Len(seg) : seg'[k] = seg[k]
        /\ DOMAIN seg = 1 .. Len(seg)
    BY NextChunk, SMTT(30)
  <1>4. /\ Len(recipe) = saved + 1 /\ Len(flags) = saved + 1 /\ Len(sparse) = saved
        /\ Len(backedUp) = saved + 1 /\ job = saved /\ saved \in Nat /\ saved < MaxVersions
        /\ todo = {} /\ Len(Recipe(job)) \in Nat /\ DOMAIN Recipe(job) = 1 .. Len(Recipe(job))
        /\ expired \in 0 .. saved /\ Len(containers) \in Nat
    BY NextChunk
  <1>5. /\ ExpiredInTurn' /\ TodoExpired'
        /\ \A v \in DOMAIN sparse' : \A c \in sparse'[v] : c < Len(containers')
        /\ \A c \in reclaimed' : c < Len(containers')
        /\ DOMAIN manifest' \union reclaimed' \subseteq Ids'
        /\ \A c \in DOMAIN manifest' : manifest'[c] \in 0..(MaxVersions - 1)
        /\ inherited' \subseteq Ids' /\ todo' = {} /\ fetched' \subseteq Units'
        /\ sparse' \in Seq(SUBSET Ids') /\ index' \in Indexes /\ Length' = Length
        /\ Physical' = Physical /\ Units \subseteq Units'
        /\ inherited' = Inherited(job)'
    BY PlacedKeeps
  <1>6. /\ id \in Ids' /\ Held(<<f, id>>)' /\ id \notin inherited
        /\ containers' \in Seq(SUBSET Fps) /\ Len(containers') \in Nat
        /\ Len(containers) <= Len(containers')
        /\ \/ Len(containers') = Len(containers)
           \/ /\ Len(containers') = Len(containers) + 1
              /\ containers'[Len(containers) + 1] = open /\ open # {}
        /\ \A c \in 0 .. Len(containers) - 1 : containers'[c + 1] = containers[c + 1]
        /\ Ids \subseteq Ids' /\ open' \subseteq Fps
        /\ open' # {} => id = Len(containers') \/ (containers' = containers /\ open' = open)
        /\ \A p \in Fps \X Ids : Stands(p) => Stands(p)'
        /\ \A p \in Fps \X Ids : (Live(p) => Live(p)') /\ (Held(p) => Held(p)')
        /\ NoPlaceholder' => NoPlaceholder
        /\ tbl \in [Keys -> Seq(Units')] /\ TableOpen(tbl)
        /\ Physical => tbl = table \/ Len(containers') = Len(containers) + 1
        /\ new \subseteq stored \union {f}
    BY DEF Placed
  <1>7. Len(left') # 0 /\ left' # <<>>
    BY <1>3, EmptySeq
  <1>8. \A k \in DOMAIN seg' : \/ k \in DOMAIN seg /\ seg'[k] = seg[k]
                               \/ k = Len(seg) + 1 /\ seg'[k] = <<f, id>>
    <2>1. \A k \in 1 .. Len(seg) + 1 : k \in 1 .. Len(seg) \/ k = Len(seg) + 1
      BY <1>3
    <2>2. /\ DOMAIN seg' = 1 .. Len(seg) + 1 /\ seg'[Len(seg) + 1] = <<f, id>>
          /\ \A k \in 1 .. Len(seg) : seg'[k] = seg[k]
          /\ DOMAIN seg = 1 .. Len(seg)
      BY <1>3
    <2>3. ASSUME NEW k \in DOMAIN seg'
          PROVE  \/ k \in DOMAIN seg /\ seg'[k] = seg[k]
                 \/ k = Len(seg) + 1 /\ seg'[k] = <<f, id>>
      BY <2>1, <2>2
    <2> QED
      BY <2>3
  <1>9. \A k \in DOMAIN seg : k \in DOMAIN seg' /\ seg'[k] = seg[k]
    BY <1>3
  <1>10. TypeOK'
    <2>1. recipe' \in Seq(Seq(Fps \X Ids'))
      BY <1>1, <1>2, <1>6, ShapesGrow
    <2>2. stored' \subseteq Fps
      BY <1>2, <1>3, <1>6 DEF TypeOK
    <2>3. \A g \in Keys : Len(table'[g]) <= Length'
      BY <1>5, <1>6 DEF TableOpen
    <2> QED
      BY <1>1, <1>2, <1>3, <1>5, <1>6, <2>1, <2>2, <2>3 DEF TypeOK
  <1>11. Counted'
    BY <1>1, <1>2, <1>4, <1>7 DEF Counted, Deleting
  <1>12. Contents'
    <2>1. Len(Recipe(job)) + Len(seg') + Len(left') = Len(backedUp[job + 1])
      BY <1>1, <1>2, <1>3, <1>4, SMTT(30) DEF Contents
    <2>2. \A k \in DOMAIN seg' : seg'[k][1] = backedUp[job + 1][Len(Recipe(job)) + k]
      <3>1. \A k \in DOMAIN seg : seg[k][1] = backedUp[job + 1][Len(Recipe(job)) + k]
        BY <1>1, <1>2 DEF Contents
      <3>2. f = backedUp[job + 1][Len(Recipe(job)) + (Len(seg) + 1)]
        BY <1>3, <1>4
      <3>3. ASSUME NEW k, k = Len(seg) + 1, seg'[k] = <<f, id>>
            PROVE  seg'[k][1] = backedUp[job + 1][Len(Recipe(job)) + k]
        BY <3>2, <3>3
      <3> QED
        BY <1>8, <3>1, <3>3
    <2>3. \A k \in DOMAIN left' : left'[k] = backedUp[job + 1][Len(Recipe(job)) + Len(seg') + k]
      <3>1. \A k \in DOMAIN left' :
              left'[k] = backedUp[job + 1][Len(Recipe(job)) + Len(seg) + (k + 1)]
        BY <1>1, <1>2, <1>3 DEF Contents
      <3>2. \A k \in DOMAIN left' :
              Len(Recipe(job)) + Len(seg) + (k + 1) = Len(Recipe(job)) + Len(seg') + k
        BY <1>3, <1>4
      <3> QED
        BY <3>1, <3>2
    <2>4. /\ \A v \in 0 .. saved - 1 :
               /\ Len(Recipe(v)) = Len(backedUp[v + 1])
               /\ \A k \in DOMAIN Recipe(v) : Recipe(v)[k][1] = backedUp[v + 1][k]
          /\ \A k \in DOMAIN Recipe(job) : Recipe(job)[k][1] = backedUp[job + 1][k]
      BY <1>1, <1>2 DEF Contents
    <2>5. \A v \in 0 .. saved' - 1 :
            /\ Len(recipe'[v + 1]) = Len(backedUp'[v + 1])
            /\ \A k \in DOMAIN recipe'[v + 1] : recipe'[v + 1][k][1] = backedUp'[v + 1][k]
      BY <1>1, <2>4 DEF Recipe
    <2>6. /\ Len(recipe'[job' + 1]) + Len(seg') + Len(left') = Len(backedUp'[job' + 1])
          /\ \A k \in DOMAIN recipe'[job' + 1] :
               recipe'[job' + 1][k][1] = backedUp'[job' + 1][k]
      BY <1>1, <2>1, <2>4 DEF Recipe
    <2>7. \A k \in DOMAIN seg' : seg'[k][1] = backedUp'[job' + 1][Len(recipe'[job' + 1]) + k]
      BY <1>1, <2>2 DEF Recipe
    <2>8. \A k \in DOMAIN left' :
            left'[k] = backedUp'[job' + 1][Len(recipe'[job' + 1]) + Len(seg') + k]
      BY <1>1, <2>3 DEF Recipe
    <2> QED
      BY <2>5, <2>6, <2>7, <2>8 DEF Contents, Recipe
  <1>13. PointersLive'
    <2>1. ASSUME NEW v \in expired .. saved - 1, NEW k \in DOMAIN Recipe(v), NEW p,
                 p = Recipe(v)[k]
          PROVE  Live(p)'
      <3>1. p \in Fps \X Ids
        <4>1. v \in 0 .. Len(recipe) - 1
          BY <1>4
        <4> QED
          BY <1>2, <2>1, <4>1, RecipeShape
      <3> QED
        BY <1>2, <1>6, <2>1, <3>1 DEF PointersLive
    <2>4. ASSUME NEW v \in 0 .. saved - 1, NEW k \in DOMAIN Recipe(v), NEW p,
                 p = Recipe(v)[k]
          PROVE  Stands(p)'
      <3>1. p \in Fps \X Ids
        <4>1. v \in 0 .. Len(recipe) - 1
          BY <1>4
        <4> QED
          BY <1>2, <2>4, <4>1, RecipeShape
      <3> QED
        BY <1>2, <1>6, <2>4, <3>1 DEF PointersLive
    <2>2. ASSUME NEW k \in DOMAIN Recipe(job), NEW p, p = Recipe(job)[k]
          PROVE  Held(p)'
      <3>1. p \in Fps \X Ids
        BY <1>2, <1>4, <2>2, RecipeShape, SMTT(30)
      <3> QED
        BY <1>1, <1>2, <1>6, <2>2, <3>1 DEF PointersLive
    <2>3. ASSUME NEW k \in DOMAIN seg', NEW p, p = seg'[k]
          PROVE  Held(p)'
      <3>1. CASE k \in DOMAIN seg /\ p = seg[k]
        <4>1. p \in Fps \X Ids /\ Held(p)
          BY <1>2, <3>1, JobShape DEF PointersLive
        <4> QED
          BY <1>6, <4>1
      <3>2. CASE p = <<f, id>>
        BY <1>6, <3>2
      <3> QED
        BY <1>8, <2>3, <3>1, <3>2
    <2> QED
      BY <1>1, <2>1, <2>2, <2>3, <2>4 DEF PointersLive, Recipe
  <1>14. ManifestTimes'
    BY <1>1, <1>2 DEF ManifestTimes, Recipe
  <1>15. Accounted'
    <2>1. ASSUME NEW c, UsedNow(c) PROVE UsedNow(c)'
      BY <1>1, <1>9, <2>1 DEF UsedNow, Recipe
    <2>2. ASSUME NEW c \in 0 .. Len(containers') - 1
          PROVE  c \in DOMAIN manifest \union reclaimed \/ UsedNow(c)'
      <3>1. c \in 0 .. Len(containers) - 1 \/ (c = Len(containers) /\ open # {})
        BY <1>4, <1>6
      <3> QED
        BY <1>2, <2>1, <3>1 DEF Accounted
    <2>3. ASSUME open' # {}, NEW c, c = Len(containers') PROVE UsedNow(c)'
      <3>1. CASE id = c
        <4>1. Len(seg) + 1 \in DOMAIN seg' /\ seg'[Len(seg) + 1][2] = c
          BY <1>3, <3>1
        <4> QED
          BY <4>1 DEF UsedNow
      <3>2. CASE containers' = containers /\ open' = open
        BY <1>2, <2>1, <2>3, <3>2 DEF Accounted
      <3> QED
        BY <1>6, <2>3, <3>1, <3>2
    <2>4. open' # {} => UsedNow(Len(containers))'
      BY <2>3 DEF UsedNow
    <2> QED
      BY <1>1, <1>5, <2>2, <2>4 DEF Accounted
  <1>16. FlagsWithin'
    BY <1>1, <1>2 DEF FlagsWithin, Recipe, Behind
  <1>17. TableLeads'
    <2>1. Grow
      <3>1. \A v \in 0 .. Len(flags) - 1 : Len(Recipe(v)) <= Len(recipe'[v + 1])
        <4>1. \A v \in 0 .. Len(flags) - 1 : Len(Recipe(v)) \in Nat
          BY <1>2, <1>4, RecipeShape
        <4> QED
          BY <1>1, <4>1 DEF Recipe
      <3> QED
        BY <1>1, <1>6, <3>1 DEF Grow, Recipe
    <2>2. EntriesLead'
      BY <1>6, <2>1, TableLeadsKept
    <2>3. \A u \in fetched' : Trusted(u)'
      BY <1>6, <2>1, FetchedKept
    <2>4. \A g \in stored' : \E k \in DOMAIN seg' : seg'[k][1] = g
      <3>1. \A g \in stored : \E k \in DOMAIN seg' : seg'[k][1] = g
        BY <1>2, <1>9 DEF TableLeads
      <3>2. Len(seg) + 1 \in DOMAIN seg' /\ seg'[Len(seg) + 1][1] = f
        BY <1>3
      <3> QED
        BY <1>6, <3>1, <3>2
    <2> QED
      BY <2>2, <2>3, <2>4 DEF TableLeads
  <1>18. TableInOrder'
    BY <1>2, <1>5, <1>6 DEF TableInOrder, TableOpen
  <1>19. Forsaken'
    <2>1. \A k \in DOMAIN seg' : seg'[k][2] \notin inherited
      BY <1>1, <1>2, <1>6, <1>8 DEF Forsaken
    <2> QED
      BY <1>1, <1>2, <1>5, <2>1 DEF Forsaken, Recipe
  <1> QED
    BY <1>5, <1>10, <1>11, <1>12, <1>13, <1>14, <1>15, <1>16, <1>17, <1>18, <1>19 DEF IInv

\* A segment is complete: its pointers enter the recipe, and its id the record.
Completes(f, id) ==
  /\ recipe' = [recipe EXCEPT ![job + 1] = @ \o Append(seg, <<f, id>>)]
  /\ flags' = [flags EXCEPT ![job + 1] =
                 Append(@, SegmentId(job, Len(Recipe(job)), Len(Append(seg, <<f, id>>))))]
  /\ seg' = <<>> /\ stored' = {}

\* The recipe of the job when the segment has entered it.
LEMMA RecipeCompleted ==
  ASSUME IInv, phase = "run", left # <<>>, NEW f, f = Head(left), NEW id, NEW tbl, NEW new,
         Placed(f, id, tbl, new), Rest, left' = Tail(left), Completes(f, id)
  PROVE  /\ recipe' \in Seq(Seq(Fps \X Ids')) /\ Len(recipe') = Len(recipe)
         /\ \A v \in 0 .. saved - 1 : recipe'[v + 1] = Recipe(v)
         /\ Len(recipe'[job + 1]) = Len(Recipe(job)) + Len(seg) + 1
         /\ DOMAIN recipe'[job + 1] = 1 .. Len(Recipe(job)) + Len(seg) + 1
         /\ \A k \in DOMAIN Recipe(job) : recipe'[job + 1][k] = Recipe(job)[k]
         /\ \A k \in DOMAIN seg : recipe'[job + 1][Len(Recipe(job)) + k] = seg[k]
         /\ recipe'[job + 1][Len(Recipe(job)) + Len(seg) + 1] = <<f, id>>
  <1> DEFINE q == Append(seg, <<f, id>>)
             P == Fps \X Ids'
             i == job + 1
             r == Recipe(job)
             n == Len(Recipe(job))
             all == r \o q
  <1>1. /\ Len(recipe) = saved + 1 /\ job = saved /\ saved \in Nat
        /\ n \in Nat /\ DOMAIN r = 1 .. n /\ Len(seg) \in Nat /\ DOMAIN seg = 1 .. Len(seg)
        /\ q \in Seq(P) /\ Len(q) = Len(seg) + 1
        /\ q[Len(seg) + 1] = <<f, id>> /\ \A k \in 1 .. Len(seg) : q[k] = seg[k]
    BY NextChunk
  <1>2. recipe \in Seq(Seq(P)) /\ TypeOK
    BY ShapesGrow DEF IInv, Placed
  <1>3. i \in 1 .. Len(recipe) /\ r = recipe[i] /\ n = Len(r)
    BY <1>1 DEF Recipe
  <1>4. recipe' = [recipe EXCEPT ![i] = all]
    BY DEF Completes, Recipe
  <1> HIDE DEF q, P, i, r, n
  <1>5. r \in Seq(P)
    BY <1>2, <1>3, ElementOfSeq
  <1>6. /\ all \in Seq(P) /\ Len(all) = n + Len(q)
        /\ \A k \in 1 .. n + Len(q) : all[k] = IF k <= n THEN r[k] ELSE q[k - n]
    <2>1. /\ r \o q \in Seq(P) /\ Len(r \o q) = Len(r) + Len(q)
          /\ \A k \in 1 .. Len(r) + Len(q) :
               (r \o q)[k] = IF k <= Len(r) THEN r[k] ELSE q[k - Len(r)]
      BY <1>1, <1>5, ConcatProperties
    <2> QED
      BY <1>3, <2>1
  <1> HIDE DEF all
  <1>7. /\ recipe' \in Seq(Seq(P)) /\ Len(recipe') = Len(recipe)
        /\ \A j \in 1 .. Len(recipe) : recipe'[j] = IF j = i THEN all ELSE recipe[j]
    <2> DEFINE S == Seq(P)
    <2>1. recipe \in Seq(S) /\ all \in S
      BY <1>2, <1>6
    <2> HIDE DEF S
    <2>2. /\ [recipe EXCEPT ![i] = all] \in Seq(S)
          /\ Len([recipe EXCEPT ![i] = all]) = Len(recipe)
          /\ \A j \in 1 .. Len(recipe) :
               [recipe EXCEPT ![i] = all][j] = IF j = i THEN all ELSE recipe[j]
      BY <1>3, <2>1, ExceptSeq
    <2> QED
      BY <1>4, <2>2 DEF S
  <1>8. recipe'[i] = all
    BY <1>3, <1>7
  <1>9. \A v \in 0 .. saved - 1 : recipe'[v + 1] = Recipe(v)
    <2>1. \A v \in 0 .. saved - 1 : v + 1 \in 1 .. Len(recipe) /\ v + 1 # i
      BY <1>1 DEF i
    <2> QED
      BY <1>7, <2>1 DEF Recipe
  <1>10. Len(all) = n + Len(seg) + 1 /\ DOMAIN all = 1 .. n + Len(seg) + 1
    <2>1. DOMAIN all = 1 .. Len(all)
      BY <1>6, SeqFacts
    <2> QED
      BY <1>1, <1>6, <2>1
  <1>11. \A k \in DOMAIN r : all[k] = r[k]
    BY <1>1, <1>6
  <1>12. ASSUME NEW k \in 1 .. Len(seg) + 1
         PROVE  all[n + k] = q[k]
    <2>1. n + k \in 1 .. n + Len(q) /\ ~(n + k <= n) /\ (n + k) - n = k
      BY <1>1
    <2> QED
      BY <1>6, <2>1
  <1>13. \A k \in DOMAIN seg : all[n + k] = seg[k]
    BY <1>1, <1>12
  <1>14. all[n + Len(seg) + 1] = <<f, id>>
    <2>1. Len(seg) + 1 \in 1 .. Len(seg) + 1 /\ n + (Len(seg) + 1) = n + Len(seg) + 1
      BY <1>1
    <2>2. all[n + (Len(seg) + 1)] = q[Len(seg) + 1]
      BY <1>12, <2>1
    <2> QED
      BY <1>1, <2>1, <2>2
  <1> QED
    BY <1>7, <1>8, <1>9, <1>10, <1>11, <1>13, <1>14 DEF P, i, r, n

\* The record of the segments.
LEMMA FlagsCompleted ==
  ASSUME IInv, phase = "run", left # <<>>, NEW f, f = Head(left), NEW id, NEW tbl, NEW new,
         Placed(f, id, tbl, new), Rest, left' = Tail(left), Completes(f, id),
         NEW sid, sid = <<job, Len(Recipe(job)), Len(seg) + 1>>
  PROVE  /\ flags' \in Seq(Seq((0..MaxVersions) \X Nat \X Nat)) /\ Len(flags') = Len(flags)
         /\ sid \in (0..MaxVersions) \X Nat \X Nat
         /\ \A v \in 0 .. saved - 1 : flags'[v + 1] = flags[v + 1]
         /\ \A k \in DOMAIN flags'[job + 1] :
              \/ flags'[job + 1][k] = sid
              \/ k \in DOMAIN flags[job + 1] /\ flags'[job + 1][k] = flags[job + 1][k]
         /\ ToSet(flags[job + 1]) \subseteq ToSet(flags'[job + 1]) /\ sid \in ToSet(flags'[job + 1])
  <1> DEFINE P == (0..MaxVersions) \X Nat \X Nat
             i == job + 1
             old == flags[i]
             all == Append(old, sid)
  <1>1. /\ Len(flags) = saved + 1 /\ job = saved /\ saved \in Nat /\ saved < MaxVersions
        /\ Len(Recipe(job)) \in Nat /\ Len(seg) \in Nat
        /\ Len(Append(seg, <<f, id>>)) = Len(seg) + 1
    BY NextChunk
  <1>2. TypeOK /\ MaxVersions \in Nat
    BY NumberShapes DEF IInv
  <1>3. sid \in P
    BY <1>1, <1>2
  <1>4. flags' = [flags EXCEPT ![i] = all]
    BY <1>1 DEF Completes, SegmentId
  <1>5. flags \in Seq(Seq(P)) /\ i \in 1 .. Len(flags)
    BY <1>1, <1>2 DEF TypeOK
  <1> HIDE DEF P, i
  <1>6. old \in Seq(P)
    BY <1>5, ElementOfSeq
  <1> HIDE DEF old
  <1>7. /\ all \in Seq(P) /\ DOMAIN all = 1 .. Len(old) + 1 /\ all[Len(old) + 1] = sid
        /\ \A k \in 1 .. Len(old) : all[k] = old[k]
        /\ Len(old) \in Nat /\ DOMAIN old = 1 .. Len(old)
    BY <1>3, <1>6, AppendFacts, SeqFacts
  <1> HIDE DEF all
  <1>8. /\ flags' \in Seq(Seq(P)) /\ Len(flags') = Len(flags)
        /\ \A j \in 1 .. Len(flags) : flags'[j] = IF j = i THEN all ELSE flags[j]
    <2> DEFINE S == Seq(P)
    <2>1. flags \in Seq(S) /\ all \in S
      BY <1>5, <1>7
    <2> HIDE DEF S
    <2>2. /\ [flags EXCEPT ![i] = all] \in Seq(S)
          /\ Len([flags EXCEPT ![i] = all]) = Len(flags)
          /\ \A j \in 1 .. Len(flags) :
               [flags EXCEPT ![i] = all][j] = IF j = i THEN all ELSE flags[j]
      BY <1>5, <2>1, ExceptSeq
    <2> QED
      BY <1>4, <2>2 DEF S
  <1>9. flags'[i] = all
    BY <1>5, <1>8
  <1>10. \A v \in 0 .. saved - 1 : flags'[v + 1] = flags[v + 1]
    <2>1. \A v \in 0 .. saved - 1 : v + 1 \in 1 .. Len(flags) /\ v + 1 # i
      BY <1>1 DEF i
    <2> QED
      BY <1>8, <2>1
  <1>11. ASSUME NEW k \in DOMAIN all
         PROVE  all[k] = sid \/ (k \in DOMAIN old /\ all[k] = old[k])
    <2>1. k = Len(old) + 1 \/ k \in 1 .. Len(old)
      BY <1>7
    <2> QED
      BY <1>7, <2>1
  <1>12. ToSet(old) \subseteq ToSet(all) /\ sid \in ToSet(all)
    <2>1. Len(old) + 1 \in DOMAIN all /\ \A k \in DOMAIN old : k \in DOMAIN all
      BY <1>7
    <2> QED
      BY <1>7, <2>1 DEF ToSet
  <1> QED
    BY <1>3, <1>8, <1>9, <1>10, <1>11, <1>12 DEF P, i, old

\* What the table is when a segment is complete.
TableCompleted(f, id, tbl, new) ==
  table' = IF Physical THEN tbl
           ELSE Updated(SegmentFeatures(Append(seg, <<f, id>>), new),
                        SegmentId(job, Len(Recipe(job)), Len(Append(seg, <<f, id>>))))

\* The features of a segment are fingerprints of its pointers, or the placeholder.
LEMMA FeaturesInSegment ==
  ASSUME IInv, phase = "run", left # <<>>, NEW f, f = Head(left), NEW id, NEW tbl, NEW new,
         Placed(f, id, tbl, new), Rest, left' = Tail(left),
         NEW g \in SegmentFeatures(Append(seg, <<f, id>>), new)
  PROVE  g \in Fps => g = f \/ \E k \in DOMAIN seg : seg[k][1] = g
  <1> DEFINE q == Append(seg, <<f, id>>)
  <1>1. /\ DOMAIN q = 1 .. Len(seg) + 1 /\ Len(seg) \in Nat /\ DOMAIN seg = 1 .. Len(seg)
        /\ q[Len(seg) + 1] = <<f, id>> /\ \A k \in 1 .. Len(seg) : q[k] = seg[k]
    BY NextChunk
  <1>2. g = Placeholder \/ g \in {q[k][1] : k \in DOMAIN q} \/ g \in new
    BY SampledFeatures DEF SegmentFeatures
  <1> HIDE DEF q
  <1>3. new \subseteq stored \union {f} /\ \A h \in stored : \E k \in DOMAIN seg : seg[k][1] = h
    BY DEF Placed, IInv, TableLeads
  <1>4. ASSUME NEW k \in DOMAIN q, g = q[k][1]
        PROVE  g = f \/ \E j \in DOMAIN seg : seg[j][1] = g
    <2>1. k = Len(seg) + 1 \/ k \in 1 .. Len(seg)
      BY <1>1
    <2> QED
      BY <1>1, <1>4, <2>1
  <1> QED
    BY <1>2, <1>3, <1>4, FpsAreKeys

\* Besides what the table named already, it names the new segment where it lists
\* the fingerprint; the order is that of the segments.
NamesAlso(f, sid) ==
  \A g \in Keys :
    /\ \A i \in DOMAIN table'[g] :
         \/ \E j \in DOMAIN table[g] : table'[g][i] = table[g][j]
         \/ /\ table'[g][i] = sid
            /\ g \in Fps => g = f \/ \E k \in DOMAIN seg : seg[k][1] = g
    /\ \A i, j \in DOMAIN table'[g] : i < j => Later(table'[g][i], table'[g][j])

\* The new segment is the first of its features, and it is later than those that
\* the table names already.
LEMMA TableOfCompleted ==
  ASSUME IInv, phase = "run", left # <<>>, NEW f, f = Head(left), NEW id, NEW tbl, NEW new,
         Placed(f, id, tbl, new), Rest, left' = Tail(left), Completes(f, id),
         TableCompleted(f, id, tbl, new),
         NEW sid, sid = <<job, Len(Recipe(job)), Len(seg) + 1>>
  PROVE  /\ table' \in [Keys -> Seq(Units')] /\ \A g \in Keys : Len(table'[g]) <= Length
         /\ Physical => table' = tbl
         /\ ~Physical => NamesAlso(f, sid)
  <1>1. /\ TypeOK /\ FlagsWithin /\ TableInOrder /\ EntriesLead /\ Len(recipe) = Len(flags)
        /\ index' = index /\ Ids \subseteq Ids'
    BY DEF IInv, Counted, TableLeads, Placed
  <1>2. /\ Units \subseteq Units' /\ Physical' = Physical
    BY <1>1, ShapesGrow
  <1>3. /\ job = saved /\ saved \in Nat /\ Len(flags) = saved + 1
        /\ Len(Recipe(job)) \in Nat /\ Len(seg) \in Nat
        /\ Len(Append(seg, <<f, id>>)) = Len(seg) + 1
    BY NextChunk
  <1>4. sid \in (0..MaxVersions) \X Nat \X Nat
    BY FlagsCompleted
  <1>5. CASE Physical
    BY <1>5 DEF TableCompleted, Placed, TableOpen
  <1>6. CASE ~Physical
    <2> DEFINE features == SegmentFeatures(Append(seg, <<f, id>>), new)
               U == Units'
    <2>1. table' = Updated(features, sid)
      BY <1>3, <1>6 DEF TableCompleted, SegmentId
    <2>2. \A g \in features : g \in Fps => g = f \/ \E k \in DOMAIN seg : seg[k][1] = g
      BY FeaturesInSegment
    <2>3. sid \in U /\ Units \subseteq U
      BY <1>2, <1>4, <1>6 DEF Units
    <2> HIDE DEF features, U
    <2>4. Updated(features, sid) \in [Keys -> Seq(U)] /\ PutIn(Updated(features, sid), features, sid)
      BY <1>1, <2>3, UpdatedFacts
    <2>5. table' \in [Keys -> Seq(Units')] /\ PutIn(table', features, sid)
      BY <2>1, <2>4 DEF U
    <2>6. ASSUME NEW g \in Keys, NEW i \in DOMAIN table[g] PROVE Later(sid, table[g][i])
      <3> DEFINE u == table[g][i]
      <3>1. u \in Units /\ Readable(u)
        BY <1>1, TableShape DEF EntriesLead, Leads
      <3> HIDE DEF u
      <3>2. /\ u[1] \in 0 .. Len(flags) - 1 /\ u[2] \in Nat /\ u[3] \in Nat /\ u[3] > 0
            /\ Behind(u) <= Len(Recipe(u[1])) /\ Behind(u) = u[2] + u[3]
        BY <1>1, <1>6, <3>1, SegmentWithin DEF Behind
      <3>3. sid[1] = job /\ sid[2] = Len(Recipe(job))
        OBVIOUS
      <3>4. CASE u[1] = job
        <4>1. u[2] < Len(Recipe(job))
          BY <1>3, <3>2, <3>4
        <4> QED
          BY <1>3, <3>3, <3>4, <4>1 DEF Later, u
      <3>5. CASE u[1] # job
        <4>1. u[1] < job
          BY <1>3, <3>2, <3>5
        <4> QED
          BY <1>3, <3>2, <3>3, <4>1 DEF Later, u
      <3> QED
        BY <3>4, <3>5
    <2>7. ASSUME NEW g \in Keys
          PROVE  /\ \A i \in DOMAIN table'[g] :
                      \/ \E j \in DOMAIN table[g] : table'[g][i] = table[g][j]
                      \/ table'[g][i] = sid /\ g \in features
                 /\ \A i, j \in DOMAIN table'[g] : i < j => Later(table'[g][i], table'[g][j])
      <3> DEFINE s == table'[g]
                 q == table[g]
      <3>1. /\ Len(s) \in Nat /\ DOMAIN s = 1 .. Len(s)
            /\ g \notin features => s = q
            /\ g \in features =>
                 /\ Len(s) \in 1 .. Len(q) + 1 /\ s[1] = sid
                 /\ \A i \in 2 .. Len(s) : i - 1 \in DOMAIN q /\ s[i] = q[i - 1]
        BY <2>5 DEF PutIn
      <3>2. /\ \A i \in DOMAIN q : Later(sid, q[i])
            /\ \A i, j \in DOMAIN q : i < j => Later(q[i], q[j])
        BY <1>1, <1>6, <2>6 DEF TableInOrder
      <3> HIDE DEF s, q
      <3>3. CASE g \notin features
        BY <3>1, <3>2, <3>3 DEF s, q
      <3>4. CASE g \in features
        <4>1. \A i \in DOMAIN s : i = 1 \/ i \in 2 .. Len(s)
          BY <3>1
        <4>2. \A i \in DOMAIN s : (\E j \in DOMAIN q : s[i] = q[j]) \/ s[i] = sid
          BY <3>1, <3>4, <4>1
        <4>3. ASSUME NEW i \in DOMAIN s, NEW j \in DOMAIN s, i < j PROVE Later(s[i], s[j])
          <5>1. j \in 2 .. Len(s) /\ s[j] = q[j - 1] /\ j - 1 \in DOMAIN q
            BY <3>1, <3>4, <4>3
          <5>2. CASE i = 1
            BY <3>1, <3>2, <3>4, <5>1, <5>2
          <5>3. CASE i # 1
            <6>1. i \in 2 .. Len(s) /\ s[i] = q[i - 1] /\ i - 1 \in DOMAIN q
              BY <3>1, <3>4, <4>1, <5>3
            <6>2. i - 1 < j - 1
              BY <3>1, <4>3
            <6> QED
              BY <3>2, <5>1, <6>1, <6>2
          <5> QED
            BY <5>2, <5>3
        <4> QED
          BY <3>4, <4>2, <4>3 DEF s, q
      <3> QED
        BY <3>3, <3>4
    <2>8. \A g \in Keys : Len(table'[g]) <= Length
      BY <2>5 DEF PutIn
    <2> QED
      BY <1>6, <2>2, <2>5, <2>7, <2>8 DEF NamesAlso
  <1> QED
    BY <1>5, <1>6

\* A pointer completes a segment.
LEMMA CompletedIInv ==
  ASSUME IInv, phase = "run", left # <<>>, NEW f, f = Head(left), NEW id, NEW tbl, NEW new,
         Placed(f, id, tbl, new), Rest, left' = Tail(left), Completes(f, id),
         TableCompleted(f, id, tbl, new), \A u \in fetched' : Sound(u)
  PROVE  IInv'
  <1> DEFINE sid == <<job, Len(Recipe(job)), Len(seg) + 1>>
             r == Recipe(job)
             n == Len(Recipe(job))
             q == recipe'[job + 1]
             m == Len(Recipe(job)) + Len(seg) + 1
  <1>1. /\ saved' = saved /\ deleted' = deleted /\ sparse' = sparse /\ manifest' = manifest
        /\ phase' = phase /\ job' = job /\ todo' = todo /\ restoring' = restoring
        /\ expired' = expired /\ backedUp' = backedUp /\ index' = index
        /\ reclaimed' = reclaimed /\ inherited' = inherited
        /\ Running /\ Running' /\ Deleting' = Deleting /\ phase' = "run"
        /\ seg' = <<>> /\ stored' = {}
    BY DEF Rest, Placed, Running, Deleting, Completes
  <1>2. /\ TypeOK /\ Counted /\ Contents /\ PointersLive /\ ManifestTimes
        /\ Accounted /\ FlagsWithin /\ TableInOrder /\ Forsaken /\ TableLeads
    BY DEF IInv
  <1>3. /\ f \in Fps /\ Len(left) \in Nat \ {0} /\ left' \in Seq(Fps)
        /\ Len(left') = Len(left) - 1 /\ DOMAIN left' = 1 .. Len(left) - 1
        /\ \A k \in DOMAIN left' : left'[k] = left[k + 1] /\ k + 1 \in DOMAIN left
        /\ f = backedUp[job + 1][m] /\ Len(seg) \in Nat /\ DOMAIN seg = 1 .. Len(seg)
    BY NextChunk
  <1>4. /\ Len(recipe) = saved + 1 /\ Len(flags) = saved + 1 /\ Len(sparse) = saved
        /\ Len(backedUp) = saved + 1 /\ job = saved /\ saved \in Nat /\ saved < MaxVersions
        /\ todo = {} /\ n \in Nat /\ DOMAIN r = 1 .. n
        /\ expired \in 0 .. saved /\ Len(containers) \in Nat
    BY NextChunk
  <1>5. /\ ExpiredInTurn' /\ TodoExpired'
        /\ \A v \in DOMAIN sparse' : \A c \in sparse'[v] : c < Len(containers')
        /\ \A c \in reclaimed' : c < Len(containers')
        /\ DOMAIN manifest' \union reclaimed' \subseteq Ids'
        /\ \A c \in DOMAIN manifest' : manifest'[c] \in 0..(MaxVersions - 1)
        /\ inherited' \subseteq Ids' /\ todo' = {} /\ fetched' \subseteq Units'
        /\ sparse' \in Seq(SUBSET Ids') /\ index' \in Indexes /\ Length' = Length
        /\ Physical' = Physical /\ Units \subseteq Units'
        /\ inherited' = Inherited(job)'
    BY PlacedKeeps
  <1>6. /\ id \in Ids' /\ Held(<<f, id>>)' /\ id \notin inherited
        /\ containers' \in Seq(SUBSET Fps) /\ Len(containers') \in Nat
        /\ Len(containers) <= Len(containers')
        /\ \/ Len(containers') = Len(containers)
           \/ /\ Len(containers') = Len(containers) + 1
              /\ containers'[Len(containers) + 1] = open /\ open # {}
        /\ \A c \in 0 .. Len(containers) - 1 : containers'[c + 1] = containers[c + 1]
        /\ Ids \subseteq Ids' /\ open' \subseteq Fps
        /\ open' # {} => id = Len(containers') \/ (containers' = containers /\ open' = open)
        /\ NoPlaceholder' => NoPlaceholder
        /\ \A p \in Fps \X Ids : Stands(p) => Stands(p)'
        /\ \A p \in Fps \X Ids : (Live(p) => Live(p)') /\ (Held(p) => Held(p)')
        /\ tbl \in [Keys -> Seq(Units')] /\ TableOpen(tbl)
        /\ Physical => tbl = table \/ Len(containers') = Len(containers) + 1
    BY DEF Placed
  <1>7. /\ recipe' \in Seq(Seq(Fps \X Ids')) /\ Len(recipe') = Len(recipe)
        /\ \A v \in 0 .. saved - 1 : recipe'[v + 1] = Recipe(v)
        /\ Len(q) = m /\ DOMAIN q = 1 .. m
        /\ \A k \in DOMAIN r : q[k] = r[k]
        /\ \A k \in DOMAIN seg : q[n + k] = seg[k]
        /\ q[m] = <<f, id>>
    BY RecipeCompleted
  <1>8. /\ flags' \in Seq(Seq((0..MaxVersions) \X Nat \X Nat)) /\ Len(flags') = Len(flags)
        /\ sid \in (0..MaxVersions) \X Nat \X Nat
        /\ \A v \in 0 .. saved - 1 : flags'[v + 1] = flags[v + 1]
        /\ \A k \in DOMAIN flags'[job + 1] :
             \/ flags'[job + 1][k] = sid
             \/ k \in DOMAIN flags[job + 1] /\ flags'[job + 1][k] = flags[job + 1][k]
        /\ ToSet(flags[job + 1]) \subseteq ToSet(flags'[job + 1]) /\ sid \in ToSet(flags'[job + 1])
    BY FlagsCompleted
  <1>9. /\ table' \in [Keys -> Seq(Units')] /\ \A g \in Keys : Len(table'[g]) <= Length
        /\ Physical => table' = tbl
        /\ ~Physical => NamesAlso(f, sid)
    BY TableOfCompleted
  <1>10. Len(seg') = 0 /\ DOMAIN seg' = {} /\ seg' \in Seq(Fps \X Ids')
    BY <1>1, EmptySeq
  <1>11. m = n + Len(seg) + 1 /\ m \in Nat
    BY <1>3, <1>4
  <1> HIDE DEF q, m, n, r, sid
  <1>12. \A k \in DOMAIN q : \/ k \in DOMAIN r /\ q[k] = r[k]
                             \/ \E j \in DOMAIN seg : k = n + j /\ q[k] = seg[j]
                             \/ k = m /\ q[k] = <<f, id>>
    <2>1. ASSUME NEW k \in 1 .. m
          PROVE  \/ k \in DOMAIN r
                 \/ \E j \in DOMAIN seg : k = n + j
                 \/ k = m
      <3>1. CASE k <= n
        BY <1>4, <1>11, <3>1
      <3>2. CASE ~(k <= n) /\ k # m
        <4>1. k - n \in 1 .. Len(seg) /\ k = n + (k - n)
          BY <1>3, <1>4, <1>11, <3>2
        <4> QED
          BY <1>3, <4>1
      <3> QED
        BY <3>1, <3>2
    <2> QED
      BY <1>7, <2>1
  <1>13. /\ \A k \in DOMAIN r : k \in DOMAIN q
         /\ \A k \in DOMAIN seg : n + k \in DOMAIN q
         /\ m \in DOMAIN q
    <2>1. \A k \in 1 .. n : k \in 1 .. m
      BY <1>3, <1>4, <1>11
    <2>2. \A k \in 1 .. Len(seg) : n + k \in 1 .. m
      BY <1>3, <1>4, <1>11
    <2>3. m \in 1 .. m
      BY <1>3, <1>4, <1>11
    <2> QED
      BY <1>3, <1>4, <1>7, <2>1, <2>2, <2>3
  <1>14. TypeOK'
    <2>1. stored' \union open' \subseteq Fps
      BY <1>1, <1>6
    <2>2. fetched' \union todo' \subseteq Units'
      BY <1>5
    <2> QED
      BY <1>1, <1>2, <1>3, <1>5, <1>6, <1>7, <1>8, <1>9, <1>10, <2>1, <2>2 DEF TypeOK
  <1>15. Counted'
    BY <1>1, <1>2, <1>4, <1>7, <1>8 DEF Counted, Deleting
  <1>16. r = Recipe(job) /\ n = Len(r) /\ q = recipe'[job' + 1] /\ q = Recipe(job)'
    BY <1>1 DEF r, n, q, Recipe
  <1>17. Contents'
    <2>1. \A v \in 0 .. saved' - 1 :
            /\ Len(recipe'[v + 1]) = Len(backedUp'[v + 1])
            /\ \A k \in DOMAIN recipe'[v + 1] : recipe'[v + 1][k][1] = backedUp'[v + 1][k]
      BY <1>1, <1>2, <1>7, SMTT(30) DEF Contents
    <2>2. Len(q) + Len(seg') + Len(left') = Len(backedUp'[job' + 1])
      <3>1. n + Len(seg) + Len(left) = Len(backedUp[job + 1])
        BY <1>1, <1>2, <1>16 DEF Contents
      <3>2. Len(q) + Len(seg') + Len(left') = m + (Len(left) - 1)
        BY <1>3, <1>7, <1>10, <1>11
      <3>3. m + (Len(left) - 1) = n + Len(seg) + Len(left)
        BY <1>3, <1>4, <1>11
      <3> QED
        BY <1>1, <3>1, <3>2, <3>3
    <2>3. \A k \in DOMAIN q : q[k][1] = backedUp'[job' + 1][k]
      <3>1. \A k \in DOMAIN r : r[k][1] = backedUp[job + 1][k]
        BY <1>1, <1>2, <1>16 DEF Contents
      <3>2. \A k \in DOMAIN seg : seg[k][1] = backedUp[job + 1][n + k]
        BY <1>1, <1>2, <1>16 DEF Contents
      <3> QED
        BY <1>1, <1>3, <1>12, <3>1, <3>2
    <2>4. \A k \in DOMAIN left' : left'[k] = backedUp'[job' + 1][Len(q) + Len(seg') + k]
      <3>1. \A k \in DOMAIN left : left[k] = backedUp[job + 1][n + Len(seg) + k]
        BY <1>1, <1>2, <1>16 DEF Contents
      <3>2. \A k \in DOMAIN left' : n + Len(seg) + (k + 1) = Len(q) + Len(seg') + k
        BY <1>3, <1>4, <1>7, <1>10, <1>11, SMTT(30)
      <3>3. ASSUME NEW k \in DOMAIN left'
            PROVE  left'[k] = backedUp[job + 1][n + Len(seg) + (k + 1)]
        BY <1>3, <3>1
      <3> QED
        BY <1>1, <3>2, <3>3
    <2> QED
      BY <1>10, <1>16, <2>1, <2>2, <2>3, <2>4 DEF Contents, Recipe
  <1>18. PointersLive'
    <2>1. ASSUME NEW v \in expired .. saved - 1, NEW k \in DOMAIN Recipe(v), NEW p,
                 p = Recipe(v)[k]
          PROVE  Live(p)'
      <3>1. p \in Fps \X Ids
        <4>1. v \in 0 .. Len(recipe) - 1
          BY <1>4
        <4> QED
          BY <1>2, <2>1, <4>1, RecipeShape
      <3> QED
        BY <1>2, <1>6, <2>1, <3>1 DEF PointersLive
    <2>2. ASSUME NEW k \in DOMAIN r, NEW p, p = r[k]
          PROVE  Held(p)'
      <3>1. p \in Fps \X Ids
        BY <1>2, <1>4, <1>16, <2>2, RecipeShape
      <3>2. Held(p)
        BY <1>1, <1>2, <1>16, <2>2 DEF PointersLive
      <3> QED
        BY <1>6, <3>1, <3>2
    <2>3. ASSUME NEW k \in DOMAIN seg, NEW p, p = seg[k]
          PROVE  Held(p)'
      <3>1. p \in Fps \X Ids /\ Held(p)
        BY <1>2, <2>3, JobShape DEF PointersLive
      <3> QED
        BY <1>6, <3>1
    <2>4. ASSUME NEW k \in DOMAIN q, NEW p, p = q[k]
          PROVE  Held(p)'
      BY <1>6, <1>12, <2>2, <2>3, <2>4
    <2>5. \A v \in expired' .. saved' - 1 : recipe'[v + 1] = Recipe(v) /\ v \in expired .. saved - 1
      BY <1>1, <1>4, <1>7
    <2>6. ASSUME NEW v \in 0 .. saved - 1, NEW k \in DOMAIN Recipe(v), NEW p,
                 p = Recipe(v)[k]
          PROVE  Stands(p)'
      <3>1. p \in Fps \X Ids
        <4>1. v \in 0 .. Len(recipe) - 1
          BY <1>4
        <4> QED
          BY <1>2, <2>6, <4>1, RecipeShape
      <3> QED
        BY <1>2, <1>6, <2>6, <3>1 DEF PointersLive
    <2>7. \A v \in 0 .. saved' - 1 : recipe'[v + 1] = Recipe(v) /\ v \in 0 .. saved - 1
      BY <1>1, <1>4, <1>7
    <2> QED
      BY <1>10, <1>16, <2>1, <2>4, <2>5, <2>6, <2>7 DEF PointersLive, Recipe
  <1>19. ManifestTimes'
    <2>1. \A v \in expired' .. Len(sparse') - 1 : recipe'[v + 1] = Recipe(v) /\ v \in expired .. Len(sparse) - 1
      <3>1. \A v \in expired' .. Len(sparse') - 1 :
              v \in 0 .. saved - 1 /\ v \in expired .. Len(sparse) - 1
        BY <1>1, <1>4
      <3> QED
        BY <1>7, <3>1
    <2>2. \A v \in expired' .. Len(sparse') - 1 : \A k \in DOMAIN recipe'[v + 1] :
            /\ recipe'[v + 1][k][2] \in DOMAIN manifest
            /\ manifest[recipe'[v + 1][k][2]] >= v
      BY <1>2, <2>1 DEF ManifestTimes
    <2>3. ASSUME NEW c \in DOMAIN manifest, NEW v, v = manifest[c]
          PROVE  /\ v \in expired .. Len(sparse) - 1
                 /\ \E k \in DOMAIN recipe'[v + 1] : recipe'[v + 1][k][2] = c
      <3>1. v \in expired .. Len(sparse) - 1 /\ \E k \in DOMAIN Recipe(v) : Recipe(v)[k][2] = c
        BY <1>2, <2>3 DEF ManifestTimes
      <3>2. recipe'[v + 1] = Recipe(v)
        BY <1>1, <2>1, <3>1
      <3> QED
        BY <3>1, <3>2
    <2> QED
      BY <1>1, <2>2, <2>3 DEF ManifestTimes, Recipe
  <1>20. Accounted'
    <2>1. ASSUME NEW c, UsedNow(c) PROVE UsedNow(c)'
      <3>1. (\E k \in DOMAIN r : r[k][2] = c) \/ (\E k \in DOMAIN seg : seg[k][2] = c)
        BY <1>16, <2>1 DEF UsedNow
      <3>2. \E k \in DOMAIN q : q[k][2] = c
        BY <1>7, <1>13, <3>1
      <3> QED
        BY <1>16, <3>2 DEF UsedNow
    <2>2. ASSUME NEW c \in 0 .. Len(containers') - 1
          PROVE  c \in DOMAIN manifest \union reclaimed \/ UsedNow(c)'
      <3>1. c \in 0 .. Len(containers) - 1 \/ (c = Len(containers) /\ open # {})
        BY <1>4, <1>6
      <3> QED
        BY <1>2, <2>1, <3>1 DEF Accounted
    <2>3. ASSUME open' # {}, NEW c, c = Len(containers') PROVE UsedNow(c)'
      <3>1. CASE id = c
        <4>1. m \in DOMAIN q /\ q[m][2] = c
          BY <1>7, <1>13, <3>1
        <4> QED
          BY <1>16, <4>1 DEF UsedNow
      <3>2. CASE containers' = containers /\ open' = open
        BY <1>2, <2>1, <2>3, <3>2 DEF Accounted
      <3> QED
        BY <1>6, <2>3, <3>1, <3>2
    <2>4. open' # {} => UsedNow(Len(containers))'
      BY <2>3 DEF UsedNow
    <2> QED
      BY <1>1, <1>5, <2>2, <2>4 DEF Accounted
  <1>21. FlagsWithin'
    <2>1. ASSUME NEW v \in 0 .. Len(flags') - 1, NEW i \in DOMAIN flags'[v + 1],
                 NEW u, u = flags'[v + 1][i]
          PROVE  u[1] = v /\ u[3] > 0 /\ Behind(u) <= Len(recipe'[v + 1])
      <3>1. CASE v \in 0 .. saved - 1
        <4>1. flags'[v + 1] = flags[v + 1] /\ recipe'[v + 1] = Recipe(v) /\ v \in 0 .. Len(flags) - 1
          BY <1>4, <1>7, <1>8, <3>1
        <4> QED
          BY <1>2, <2>1, <4>1 DEF FlagsWithin
      <3>2. CASE v = job
        <4>1. CASE u = sid
          BY <1>3, <1>4, <1>7, <1>11, <3>2, <4>1, SMTT(30) DEF sid, q, n, Behind
        <4>2. CASE i \in DOMAIN flags[job + 1] /\ u = flags[job + 1][i]
          <5>1. job \in 0 .. Len(flags) - 1
            BY <1>4
          <5>2. u[1] = job /\ u[3] > 0 /\ Behind(u) <= n
            BY <1>2, <4>2, <5>1 DEF FlagsWithin, n
          <5>3. Behind(u) \in Nat
            <6>1. u[2] \in Nat /\ u[3] \in Nat
              BY <1>2, <4>2, <5>1, FlagShape
            <6> QED
              BY <6>1 DEF Behind
          <5>4. Behind(u) <= m /\ Len(recipe'[v + 1]) = m
            BY <1>3, <1>4, <1>7, <1>11, <3>2, <5>2, <5>3 DEF q
          <5> QED
            BY <3>2, <5>2, <5>4
        <4> QED
          BY <1>8, <2>1, <3>2, <4>1, <4>2
      <3> QED
        BY <1>4, <1>8, <3>1, <3>2
    <2> QED
      BY <2>1 DEF FlagsWithin, Recipe, Behind
  <1>22. Grow
    <2>1. ASSUME NEW v \in 0 .. Len(flags) - 1
          PROVE  /\ ToSet(flags[v + 1]) \subseteq ToSet(flags'[v + 1])
                 /\ Len(Recipe(v)) <= Len(recipe'[v + 1])
                 /\ \A k \in DOMAIN Recipe(v) : recipe'[v + 1][k] = Recipe(v)[k]
      <3>1. CASE v \in 0 .. saved - 1
        <4>1. Len(Recipe(v)) \in Nat
          BY <1>2, <1>4, <3>1, RecipeShape
        <4> QED
          BY <1>7, <1>8, <3>1, <4>1, SMTT(30)
      <3>2. CASE v = job
        <4>1. n <= m
          BY <1>3, <1>4, <1>11
        <4> QED
          BY <1>7, <1>8, <1>16, <3>2, <4>1 DEF q
      <3> QED
        BY <1>4, <3>1, <3>2
    <2> QED
      BY <1>1, <1>6, <1>8, <2>1 DEF Grow
  <1>23. \A u \in Units : \A g \in Keys : Leads(u, g) => Leads(u, g)'
    BY <1>22, GrowKeepsUnits DEF Leads
  <1>24. EntriesLead'
    <2>1. CASE Physical
      BY <1>6, <1>9, <1>22, <2>1, TableLeadsKept
    <2>2. CASE ~Physical
      <3>1. ASSUME NEW u, u = sid PROVE Readable(u)' /\ Fresh(u)'
        <4>1. u[1] = job
          BY <3>1 DEF sid
        <4>2. Readable(u)'
          BY <1>1, <1>4, <1>5, <1>8, <2>2, <3>1, <4>1 DEF Readable
        <4>3. Fresh(u)'
          BY <1>1, <1>4, <1>5, <2>2, <4>1 DEF Fresh
        <4> QED
          BY <4>2, <4>3
      <3>2. ASSUME NEW u, u = sid, NEW g, g = f \/ \E k \in DOMAIN seg : seg[k][1] = g
            PROVE  Lists(u, g)'
        <4>1. u[1] = job /\ u[2] = n /\ u[3] = Len(seg) + 1 /\ Behind(u) = m
          BY <1>3, <1>4, <1>11, <3>2 DEF sid, n, Behind
        <4>2. \E k \in n + 1 .. m : q[k][1] = g
          <5>1. CASE g = f
            <6>1. m \in n + 1 .. m
              BY <1>3, <1>4, <1>11
            <6> QED
              BY <1>7, <5>1, <6>1
          <5>2. CASE \E k \in DOMAIN seg : seg[k][1] = g
            <6>1. PICK k \in DOMAIN seg : seg[k][1] = g
              BY <5>2
            <6>2. n + k \in n + 1 .. m
              BY <1>3, <1>4, <1>11
            <6> QED
              BY <1>7, <6>1, <6>2
          <5> QED
            BY <3>2, <5>1, <5>2
        <4> QED
          BY <1>1, <1>5, <1>16, <2>2, <4>1, <4>2 DEF Lists, Behind, Recipe
      <3>3. ASSUME NEW g \in Keys, NEW i \in DOMAIN table'[g], NEW u, u = table'[g][i]
            PROVE  Leads(u, g)'
        <4>1. CASE \E j \in DOMAIN table[g] : u = table[g][j]
          <5>1. u \in Units /\ Leads(u, g)
            BY <1>2, <4>1, TableShape DEF TableLeads, EntriesLead
          <5> QED
            BY <1>23, <5>1
        <4>2. CASE u = sid /\ (g \in Fps => g = f \/ \E k \in DOMAIN seg : seg[k][1] = g)
          BY <3>1, <3>2, <4>2 DEF Leads
        <4> QED
          BY <1>9, <2>2, <3>3, <4>1, <4>2 DEF NamesAlso
      <3> QED
        BY <3>3 DEF EntriesLead
    <2> QED
      BY <2>1, <2>2
  <1>25. TableLeads'
    BY <1>1, <1>6, <1>22, <1>24, FetchedKept DEF TableLeads
  <1>26. TableInOrder'
    BY <1>5, <1>9 DEF TableInOrder, NamesAlso
  <1>27. Forsaken'
    <2>1. \A v \in 1 .. saved' - 1 : \A k \in DOMAIN recipe'[v + 1] :
            recipe'[v + 1][k][2] \notin sparse'[v]
      <3>1. \A v \in 1 .. saved' - 1 : v \in 1 .. saved - 1 /\ recipe'[v + 1] = Recipe(v)
        <4>1. \A v \in 1 .. saved' - 1 : v \in 1 .. saved - 1 /\ v \in 0 .. saved - 1
          BY <1>1, <1>4
        <4> QED
          BY <1>7, <4>1
      <3> QED
        BY <1>1, <1>2, <3>1 DEF Forsaken
    <2>2. \A k \in DOMAIN q : q[k][2] \notin inherited'
      <3>1. /\ \A k \in DOMAIN r : r[k][2] \notin inherited
            /\ \A k \in DOMAIN seg : seg[k][2] \notin inherited
        BY <1>1, <1>2, <1>16 DEF Forsaken
      <3>2. id \notin inherited /\ inherited' = inherited
        BY <1>1, <1>6
      <3> QED
        BY <1>12, <3>1, <3>2
    <2> QED
      BY <1>1, <1>5, <1>10, <1>16, <2>1, <2>2 DEF Forsaken, Recipe
  <1> QED
    BY <1>5, <1>14, <1>15, <1>17, <1>18, <1>19, <1>20, <1>21, <1>25, <1>26, <1>27 DEF IInv

\* A backup takes no placeholder out of the table.
LEMMA BackupPlaceholder ==
  ASSUME IInv, BackupChunk
  PROVE  NoPlaceholder' => NoPlaceholder
  <1>1. CASE ~BySimilarity
    BY <1>1 DEF NoPlaceholder
  <1>2. CASE BySimilarity
    <2>1. ~Physical /\ BySimilarity' = BySimilarity /\ TableOfSealed = table
      BY <1>2 DEF BySimilarity, Physical, TableOfSealed, BackupChunk
    <2>2. \E f, id, new : Point(f, id, table, new)
      BY <2>1 DEF BackupChunk
    <2>3. PICK f, id, new : Point(f, id, table, new)
      BY <2>2
    <2>4. \/ table' = table
          \/ \E features, sid : table' = Updated(features, sid)
      BY <2>1, <2>3 DEF Point
    <2>5. CASE \E features, sid : table' = Updated(features, sid)
      <3>1. PICK features, sid : table' = Updated(features, sid)
        BY <2>5
      <3> DEFINE U == Units \union {sid}
      <3>2. TypeOK /\ Units \subseteq U /\ sid \in U
        BY DEF IInv
      <3> HIDE DEF U
      <3>3. PutIn(Updated(features, sid), features, sid)
        BY <3>2, UpdatedFacts
      <3> QED
        BY <1>2, <2>1, <3>1, <3>3, PutInKeeps DEF NoPlaceholder
    <2> QED
      BY <1>2, <2>1, <2>4, <2>5 DEF NoPlaceholder
  <1> QED
    BY <1>1, <1>2

\* A chunk of the backup.
LEMMA BackupChunkIInv ==
  ASSUME IInv, BackupChunk
  PROVE  IInv'
  <1>1. PICK f : f = Head(left)
    OBVIOUS
  <1>2. /\ phase = "run" /\ left # <<>> /\ Rest
        /\ index' = index /\ reclaimed' = reclaimed /\ inherited' = inherited
        /\ NoPlaceholder' => NoPlaceholder
    BY BackupPlaceholder DEF BackupChunk, Rest, historyVars
  <1>3. PICK prefetched \in Selected : \E found \in Found(f, fetched \union prefetched) :
           /\ fetched' = fetched \union prefetched \union found.read
           /\ \/ /\ MayStore(f, found.id)
                 /\ Store(f)
                 /\ Point(f, NewId, IF Full THEN TableOfSealed ELSE table,
                          stored \union {f})
              \/ /\ ~MustStore(f, found.id)
                 /\ Point(f, found.id, table, stored)
                 /\ UNCHANGED <<containers, open>>
    BY <1>1 DEF BackupChunk
  <1>4. PICK found \in Found(f, fetched \union prefetched) :
           /\ fetched' = fetched \union prefetched \union found.read
           /\ \/ /\ MayStore(f, found.id)
                 /\ Store(f)
                 /\ Point(f, NewId, IF Full THEN TableOfSealed ELSE table,
                          stored \union {f})
              \/ /\ ~MustStore(f, found.id)
                 /\ Point(f, found.id, table, stored)
                 /\ UNCHANGED <<containers, open>>
    BY <1>3
  <1>5. TypeOK /\ todo = {} /\ f \in Fps
    <2>1. TypeOK /\ todo = {}
      BY <1>2 DEF IInv, Counted
    <2>2. left \in Seq(Fps)
      BY <2>1 DEF TypeOK
    <2> QED
      BY <1>1, <1>2, <2>1, <2>2, HeadTailProperties
  <1>6. \A u \in fetched \union prefetched : Sound(u)
    <2>1. \A u \in prefetched : Sound(u)
      BY <1>5, SelectedFacts
    <2>2. \A u \in fetched : Sound(u)
      BY <1>2, <1>5 DEF IInv, TableLeads, TypeOK, Sound
    <2> QED
      BY <2>1, <2>2
  <1>7. /\ found.id = Nowhere \/ (<<f, found.id>> \in Fps \X Ids /\ Held(<<f, found.id>>))
        /\ \A u \in found.read : Sound(u)
    <2> DEFINE cached == fetched \union prefetched
    <2>1. \A u \in cached : Sound(u)
      BY <1>6
    <2>2. found \in Found(f, cached)
      OBVIOUS
    <2> HIDE DEF cached
    <2> QED
      BY <1>2, <1>5, <2>1, <2>2, FoundFacts
  <1>8. \A u \in fetched' : Sound(u)
    BY <1>4, <1>6, <1>7
  <1>9. \E id, tbl, new : Placed(f, id, tbl, new) /\ Point(f, id, tbl, new)
    <2>1. CASE Store(f) /\ Point(f, NewId, IF Full THEN TableOfSealed ELSE table,
                                 stored \union {f})
      <3>1. PICK id, tbl : id = NewId /\ tbl = IF Full THEN TableOfSealed ELSE table
        OBVIOUS
      <3>2. Placed(f, id, tbl, stored \union {f})
        BY <1>2, <1>5, <2>1, <3>1, StoredPlaced
      <3>3. Point(f, id, tbl, stored \union {f})
        BY <2>1, <3>1
      <3> QED
        BY <3>2, <3>3
    <2>2. CASE /\ ~MustStore(f, found.id) /\ Point(f, found.id, table, stored)
               /\ UNCHANGED <<containers, open>>
      <3>1. PICK id, tbl, new : id = found.id /\ tbl = table /\ new = stored
        OBVIOUS
      <3>2. <<f, id>> \in Fps \X Ids /\ Held(<<f, id>>) /\ id \notin inherited
        BY <1>7, <2>2, <3>1 DEF MustStore
      <3>3. id \in Ids
        BY <3>2
      <3>4. Placed(f, id, tbl, new)
        BY <1>2, <1>5, <2>2, <3>1, <3>2, <3>3, FoundPlaced
      <3>5. Point(f, id, tbl, new)
        BY <2>2, <3>1
      <3> QED
        BY <3>4, <3>5
    <2> QED
      BY <1>4, <2>1, <2>2
  <1>10. PICK id, tbl, new : Placed(f, id, tbl, new) /\ Point(f, id, tbl, new)
    BY <1>9
  <1> DEFINE pointers == Append(seg, <<f, id>>)
             complete == Len(pointers) = SegmentSize \/ Len(left) = 1
  <1>11. left' = Tail(left)
    BY <1>10 DEF Point
  <1>12. CASE complete
    <2>1. Completes(f, id) /\ TableCompleted(f, id, tbl, new)
      BY <1>10, <1>12 DEF Point, Completes, TableCompleted
    <2> QED
      BY <1>1, <1>2, <1>8, <1>10, <1>11, <2>1, CompletedIInv
  <1>13. CASE ~complete
    <2>1. /\ seg' = Append(seg, <<f, id>>) /\ stored' = new /\ table' = tbl
          /\ UNCHANGED <<recipe, flags>> /\ Len(left) # 1
      BY <1>10, <1>13 DEF Point
    <2> QED
      BY <1>1, <1>2, <1>8, <1>10, <1>11, <2>1, InSegmentIInv
  <1> QED
    BY <1>12, <1>13

-----------------------------------------------------------------------------
(* All steps.                                                              *)

\* Every step of the jobs keeps the invariant.
LEMMA NextIInv ==
  ASSUME IInv, [Next]_vars
  PROVE  IInv'
  <1>1. CASE StartBackup
    BY <1>1, StartBackupIInv
  <1>2. CASE BackupChunk
    BY <1>2, BackupChunkIInv
  <1>3. CASE StopPhases
    BY <1>3, StopPhasesIInv
  <1>4. CASE CloseBackup
    BY <1>4, CloseBackupIInv
  <1>5. CASE Truncate
    BY <1>5, TruncateIInv
  <1>6. CASE \E u \in todo : DeleteEntries(u)
    BY <1>6, DeleteEntriesIInv
  <1>7. CASE MarkDeleted
    BY <1>7, MarkDeletedQuiet, QuietIInv
  <1>8. CASE \E v \in 0..(saved - 1) : StartRestore(v)
    BY <1>8, StartRestoreQuiet, QuietIInv
  <1>9. CASE EndRestore
    BY <1>9, EndRestoreQuiet, QuietIInv
  <1>10. CASE UNCHANGED vars
    BY <1>10, StutterQuiet, QuietIInv
  <1> QED
    BY <1>1, <1>2, <1>3, <1>4, <1>5, <1>6, <1>7, <1>8, <1>9, <1>10 DEF Next

\* The invariant holds at every moment.
LEMMA AlwaysIInv == Spec => []IInv
  <1>1. IInv /\ [Next]_vars => IInv'
    BY NextIInv
  <1> QED
    BY InitIInv, <1>1, PTL DEF Spec

-----------------------------------------------------------------------------
(* What the invariant says of the files.                                   *)

\* A version that is kept has a recipe of live pointers, the stream's.
LEMMA KeptVersion ==
  ASSUME IInv, NEW v \in KeptVersions
  PROVE  /\ v \in Nat /\ v \in expired .. saved - 1 /\ v \in 0 .. saved - 1
         /\ v \in 0 .. Len(recipe) - 1 /\ v \in 0 .. Len(backedUp) - 1
         /\ v \in 0 .. Len(sparse) - 1
         /\ \A k \in DOMAIN Recipe(v) : Live(Recipe(v)[k])
         /\ DOMAIN Recipe(v) = DOMAIN backedUp[v + 1]
         /\ \A k \in DOMAIN Recipe(v) : Recipe(v)[k][1] = backedUp[v + 1][k]
  <1>1. /\ saved \in Nat /\ expired \in Nat /\ Len(recipe) \in Nat
        /\ Len(recipe) >= saved /\ Len(backedUp) = Len(recipe) /\ Len(sparse) >= saved
    BY NumberShapes DEF IInv, Counted
  <1>2. /\ v \in Nat /\ v \in expired .. saved - 1 /\ v \in 0 .. saved - 1
        /\ v \in 0 .. Len(recipe) - 1 /\ v \in 0 .. Len(backedUp) - 1
        /\ v \in 0 .. Len(sparse) - 1
    <2>1. v \in Nat /\ v \in expired .. saved - 1
      BY <1>1 DEF KeptVersions
    <2> QED
      BY <1>1, <2>1, NumberShapes, SMTT(30) DEF IInv
  <1>3. \A k \in DOMAIN Recipe(v) : Live(Recipe(v)[k])
    BY <1>2 DEF IInv, PointersLive
  <1>4. /\ Len(Recipe(v)) = Len(backedUp[v + 1])
        /\ \A k \in DOMAIN Recipe(v) : Recipe(v)[k][1] = backedUp[v + 1][k]
    BY <1>2 DEF IInv, Contents
  <1>5. DOMAIN Recipe(v) = 1 .. Len(Recipe(v))
    BY <1>2, RecipeShape DEF IInv
  <1>6. DOMAIN backedUp[v + 1] = 1 .. Len(backedUp[v + 1])
    BY <1>2, StreamShape DEF IInv
  <1> QED
    BY <1>2, <1>3, <1>4, <1>5, <1>6

\* What a restore reads of a kept version is what was backed up.
LEMMA IntactOfInv == IInv => KeptVersionsIntact
  <1> SUFFICES ASSUME IInv, NoPlaceholder, NEW v \in KeptVersions
               PROVE  Restorable(v) = backedUp[v + 1]
    BY DEF KeptVersionsIntact
  <1> DEFINE r == Recipe(v)
             b == backedUp[v + 1]
             read(k) == LET p == Recipe(v)[k]
                        IN  IF /\ p[2] \notin reclaimed /\ p[2] < Len(containers)
                               /\ p[1] \in Fingerprints(p[2])
                            THEN p[1] ELSE Lost
  <1>1. Restorable(v) = [k \in DOMAIN r |-> read(k)]
    BY DEF Restorable
  <1>2. ASSUME NEW k \in DOMAIN r PROVE read(k) = b[k]
    BY KeptVersion DEF Live, Stands
  <1>3. b = [k \in DOMAIN b |-> b[k]]
    <2>1. b \in Seq(Fps) /\ DOMAIN b = 1 .. Len(b)
      BY KeptVersion, StreamShape DEF IInv
    <2> HIDE DEF b
    <2>2. b \in [1 .. Len(b) -> Fps]
      BY <2>1, LenProperties
    <2> QED
      BY <2>1, <2>2
  <1>4. DOMAIN r = DOMAIN b
    BY KeptVersion
  <1> HIDE DEF r, b, read
  <1>5. [k \in DOMAIN r |-> read(k)] = [k \in DOMAIN b |-> b[k]]
    BY <1>2, <1>4
  <1> QED
    BY <1>1, <1>3, <1>5 DEF b

\* Between the jobs, the manifest tells the last use of what is kept.
LEMMA ManifestOfInv == IInv => ManifestExact
  <1> SUFFICES ASSUME IInv, phase = "idle" PROVE ManifestExact
    BY DEF ManifestExact
  <1>1. /\ saved \in Nat /\ expired \in Nat /\ Len(sparse) = saved /\ Len(containers) \in Nat
        /\ KeptVersions = expired .. saved - 1 /\ TypeOK
    BY NumberShapes DEF IInv, Counted, KeptVersions
  <1>2. \A v \in KeptVersions : \A id \in Used(v) : id \in DOMAIN manifest /\ manifest[id] >= v
    BY <1>1 DEF IInv, ManifestTimes, Used
  <1>3. \A id \in DOMAIN manifest : manifest[id] \in KeptVersions /\ id \in Used(manifest[id])
    BY <1>1 DEF IInv, ManifestTimes, Used
  <1>4. DOMAIN manifest = UNION {Used(v) : v \in KeptVersions}
    BY <1>2, <1>3
  <1>5. ASSUME NEW id \in DOMAIN manifest
        PROVE  manifest[id] = Max({v \in KeptVersions : id \in Used(v)})
    <2> DEFINE S == {v \in KeptVersions : id \in Used(v)}
               m == manifest[id]
    <2>1. m \in S /\ \A v \in S : m >= v
      BY <1>2, <1>3
    <2>2. S \subseteq Nat
      BY <1>1
    <2> HIDE DEF S, m
    <2>3. Max(S) \in S /\ \A v \in S : Max(S) >= v
      BY <2>1 DEF Max
    <2>4. Max(S) >= m /\ m >= Max(S) /\ Max(S) \in Nat /\ m \in Nat
      BY <2>1, <2>2, <2>3
    <2> QED
      BY <2>4 DEF S, m
  <1>6. DOMAIN manifest \union reclaimed = 0..(Len(containers) - 1)
    <2>1. ASSUME NEW id \in DOMAIN manifest PROVE id \in 0 .. Len(containers) - 1
      <3>1. PICK v \in KeptVersions : id \in Used(v)
        BY <1>3
      <3>2. PICK k \in DOMAIN Recipe(v) : Recipe(v)[k][2] = id
        BY <3>1 DEF Used
      <3>3. Recipe(v)[k][2] < Len(containers)
        BY <3>2, KeptVersion DEF Live, Stands
      <3>4. id \in Nat
        BY <1>1, NumberShapes DEF TypeOK
      <3> QED
        BY <1>1, <3>2, <3>3, <3>4
    <2>2. ASSUME NEW id \in reclaimed PROVE id \in 0 .. Len(containers) - 1
      <3>1. id \in Nat
        BY <1>1, NumberShapes DEF TypeOK
      <3>2. id < Len(containers)
        BY DEF IInv, Accounted
      <3> QED
        BY <1>1, <3>1, <3>2
    <2>3. \A id \in 0 .. Len(containers) - 1 : id \in DOMAIN manifest \union reclaimed
      BY DEF IInv, Accounted
    <2> QED
      BY <2>1, <2>2, <2>3
  <1> QED
    BY <1>4, <1>5, <1>6 DEF ManifestExact

\* No container that a version found sparse is in the recipe of the next one.
LEMMA ForsakenOfInv == IInv => SparseForsaken
  BY DEF IInv, Forsaken, SparseForsaken, Used

\* Between the jobs, what the table leads to has not been reclaimed.
LEMMA TableLiveOfInv == IInv => TableNamesLive
  <1> SUFFICES ASSUME IInv, phase = "idle", NEW f \in Fps, NEW u \in ToSet(table[f])
               PROVE  /\ Holds(u, f)
                      /\ NoPlaceholder => \A p \in Pointers(u) : p[2] \notin reclaimed
    BY DEF TableNamesLive
  <1>1. /\ TypeOK /\ FlagsWithin /\ Len(recipe) = Len(flags) /\ Len(recipe) = saved
        /\ todo = {} /\ saved \in Nat /\ expired \in Nat
    BY NumberShapes DEF IInv, Counted, Running
  <1>2. PICK i \in DOMAIN table[f] : u = table[f][i]
    BY DEF ToSet
  <1>3. u \in Units
    BY <1>1, <1>2, FpsAreKeys, TableShape
  <1>4. Readable(u) /\ Fresh(u) /\ Lists(u, f)
    BY <1>2, FpsAreKeys DEF IInv, TableLeads, EntriesLead, Leads
  <1>5. Holds(u, f)
    BY <1>1, <1>3, <1>4, ListedIsHeld DEF Holds
  <1>6. ASSUME NoPlaceholder, NEW p \in Pointers(u) PROVE p[2] \notin reclaimed
    <2>1. CASE Physical
      <3>1. p[2] = u
        BY <1>1, <1>3, <1>4, <2>1, PointersOf
      <3> QED
        BY <1>1, <1>4, <2>1, <3>1 DEF Fresh
    <2>2. CASE ~Physical
      <3>1. /\ u[1] \in 0 .. Len(flags) - 1
            /\ \E k \in u[2] + 1 .. Behind(u) : k \in DOMAIN Recipe(u[1]) /\ p = Recipe(u[1])[k]
        BY <1>1, <1>3, <1>4, <2>2, PointersOf
      <3>2. u[1] >= expired
        BY <1>1, <1>4, <2>2 DEF Fresh
      <3>3. u[1] \in KeptVersions
        BY <1>1, <3>1, <3>2 DEF KeptVersions
      <3>4. \A k \in DOMAIN Recipe(u[1]) : Live(Recipe(u[1])[k])
        BY <3>3, KeptVersion
      <3> QED
        BY <1>6, <3>1, <3>4 DEF Live
    <2> QED
      BY <2>1, <2>2
  <1> QED
    BY <1>5, <1>6

\* During a deletion, what goes next stands last.
LEMMA OldestOfInv == IInv => OldestLast
  <1> SUFFICES ASSUME IInv, phase = "entries", NEW u \in todo, NEW f \in Fps,
                      NextUnit(u), u \in ToSet(table[f])
               PROVE  Last(table[f]) = u
    BY DEF OldestLast
  <1> DEFINE q == table[f]
  <1>1. /\ TypeOK /\ EntriesLead /\ TableInOrder /\ TodoExpired /\ expired \in Nat
    BY NumberShapes DEF IInv, TableLeads
  <1>2. /\ Len(q) \in Nat /\ DOMAIN q = 1 .. Len(q) /\ Len(q) <= Length
        /\ \A i \in DOMAIN q : q[i] \in Units
    BY <1>1, FpsAreKeys, TableShape
  <1>3. PICK i \in DOMAIN q : u = q[i]
    BY DEF ToSet
  <1>4. Len(q) \in DOMAIN q /\ i <= Len(q)
    BY <1>2, <1>3
  <1>5. Last(q) = q[Len(q)]
    BY DEF Last
  <1>6. CASE Physical
    <2>1. Len(q) <= 1
      BY <1>2, <1>6 DEF Length
    <2>2. i = Len(q)
      BY <1>2, <1>3, <1>4, <2>1
    <2> QED
      BY <1>3, <1>5, <2>2
  <1>7. CASE ~Physical
    <2>1. PICK w : w = q[Len(q)]
      OBVIOUS
    <2>2. i # Len(q) => Later(u, w)
      BY <1>1, <1>2, <1>3, <1>4, <1>7, <2>1, FpsAreKeys DEF TableInOrder
    <2>3. w \in Units /\ Fresh(w)
      BY <1>1, <1>2, <1>4, <2>1, FpsAreKeys DEF EntriesLead, Leads
    <2>4. /\ w[1] \in Nat /\ w[2] \in Nat /\ u[2] \in Nat
      BY <1>1, <1>2, <1>3, <1>7, <2>3, UnitShape
    <2>5. u[1] = expired - 1
      BY <1>1, <1>7 DEF TodoExpired
    <2>6. \/ w[1] >= expired
          \/ w[1] = expired - 1 /\ u[2] <= w[2]
      BY <1>1, <1>7, <2>3 DEF Fresh, TodoExpired, NextUnit
    <2>7. ~Later(u, w)
      BY <1>1, <2>4, <2>5, <2>6 DEF Later
    <2> QED
      BY <1>3, <1>5, <2>1, <2>2, <2>7
  <1> QED
    BY <1>6, <1>7

-----------------------------------------------------------------------------
(* The jobs implement the abstract versions.                               *)

\* The versions that are kept, as they can be restored.
AsRestored == [v \in KeptVersions |-> Restorable(v)]

\* No version has expired that is not saved.
LEMMA ExpiredSaved ==
  ASSUME IInv
  PROVE  saved \in Nat /\ expired \in 0 .. saved /\ Retention \in Int
  BY NumberShapes, LifecycleAssumption, SMTT(30) DEF IInv, Counted, ExpiredInTurn, Deleting

\* What a version has lost is what it has in containers that were reclaimed.
FromStore(v) ==
  [k \in DOMAIN Recipe(v) |->
     IF Recipe(v)[k][2] \notin reclaimed THEN Recipe(v)[k][1] ELSE Lost]
ReadFromStore == \A v \in 0 .. saved - 1 : Restorable(v) = FromStore(v)
LEMMA RestoredFromStore == IInv => ReadFromStore
  <1> SUFFICES ASSUME IInv, NEW v \in 0 .. saved - 1 PROVE Restorable(v) = FromStore(v)
    BY DEF ReadFromStore
  <1>1. \A k \in DOMAIN Recipe(v) : Stands(Recipe(v)[k])
    BY DEF IInv, PointersLive
  <1> QED
    BY <1>1 DEF Restorable, FromStore, Stands

\* The recipe of a version that is saved is never written again.
LEMMA RecipeStays ==
  ASSUME IInv, [Next]_vars, NEW v \in 0 .. saved - 1
  PROVE  Recipe(v)' = Recipe(v)
  <1>1. /\ TypeOK /\ saved \in Nat /\ Len(recipe) \in Nat /\ Len(recipe) >= saved
        /\ phase = "run" => job = saved
    BY NumberShapes DEF IInv, Counted, Running
  <1>2. v + 1 \in 1 .. Len(recipe) /\ v + 1 # saved + 1
    BY <1>1
  <1>3. CASE StartBackup
    <2>1. recipe' = Append(recipe, <<>>)
      BY <1>3 DEF StartBackup
    <2>2. recipe \in Seq(Seq(Fps \X Ids)) /\ <<>> \in Seq(Fps \X Ids)
      BY <1>1, EmptySeq DEF TypeOK
    <2>3. recipe'[v + 1] = recipe[v + 1]
      BY <1>2, <2>1, <2>2, AppendFacts
    <2> QED
      BY <2>3 DEF Recipe
  <1>4. CASE BackupChunk
    <2>1. \E f, id, tbl, new : Point(f, id, tbl, new)
      BY <1>4 DEF BackupChunk
    <2>2. recipe' = recipe \/ \E q : recipe' = [recipe EXCEPT ![job + 1] = q]
      BY <2>1 DEF Point
    <2>3. job = saved
      BY <1>1, <1>4 DEF BackupChunk
    <2>4. recipe'[v + 1] = recipe[v + 1]
      BY <1>2, <2>2, <2>3
    <2> QED
      BY <2>4 DEF Recipe
  <1>5. CASE recipe' = recipe
    BY <1>5 DEF Recipe
  <1> QED
    BY <1>3, <1>4, <1>5
       DEF Next, StopPhases, CloseBackup, Truncate, DeleteEntries, MarkDeleted,
           StartRestore, EndRestore, vars

\* A deletion reclaims nothing that a version it keeps refers to.
LEMMA ReclaimedStays ==
  ASSUME IInv, [Next]_vars, NEW v \in KeptVersions, v \in KeptVersions',
         NEW k \in DOMAIN Recipe(v), NEW c, c = Recipe(v)[k][2]
  PROVE  c \in reclaimed' <=> c \in reclaimed
  <1>1. CASE reclaimed' = reclaimed
    BY <1>1
  <1>2. CASE Truncate
    <2>1. reclaimed' = reclaimed \union Invalid(jobid) /\ expired' = Max({expired, jobid + 1})
      BY <1>2 DEF Truncate
    <2>2. saved \in Nat /\ expired \in Nat /\ jobid \in Int
      BY NumberShapes DEF IInv, jobid
    <2>3. expired' \in Int /\ expired' >= jobid + 1
      <3>1. \A m, n \in Int : Max({m, n}) = IF m >= n THEN m ELSE n
        BY MinMaxOfTwo
      <3>2. Max({expired, jobid + 1}) = IF expired >= jobid + 1 THEN expired ELSE jobid + 1
        BY <2>2, <3>1
      <3> QED
        BY <2>1, <2>2, <3>2
    <2>4. v \in Nat /\ v > jobid
      <3>1. v >= expired' /\ v \in Nat
        BY <2>2, <2>3, KeptVersion DEF KeptVersions
      <3> QED
        BY <2>2, <2>3, <3>1
    <2>5. c \in DOMAIN manifest /\ manifest[c] >= v /\ manifest[c] \in Nat
      <3>1. v \in expired .. Len(sparse) - 1
        <4>1. v \in 0 .. Len(sparse) - 1 /\ v \in expired .. saved - 1
          BY KeptVersion
        <4> QED
          BY <2>2, <4>1
      <3>2. c \in DOMAIN manifest /\ manifest[c] >= v
        BY <3>1 DEF IInv, ManifestTimes
      <3>3. manifest[c] \in 0..(MaxVersions - 1)
        BY <3>2 DEF IInv, TypeOK
      <3> QED
        BY <3>2, <3>3
    <2>6. c \notin Invalid(jobid)
      BY <2>2, <2>4, <2>5 DEF Invalid
    <2> QED
      BY <2>1, <2>6
  <1> QED
    BY <1>1, <1>2
       DEF Next, StartBackup, BackupChunk, StopPhases, CloseBackup, DeleteEntries,
           MarkDeleted, StartRestore, EndRestore, vars

\* What can be restored of a kept version does not change.
LEMMA RestorableStays ==
  ASSUME IInv, [Next]_vars, NEW v \in KeptVersions, v \in KeptVersions'
  PROVE  Restorable(v)' = Restorable(v)
  <1>1. v \in 0 .. saved - 1 /\ v \in 0 .. saved' - 1
    BY KeptVersion DEF KeptVersions
  <1>2. IInv' => ReadFromStore'
    BY RestoredFromStore, PTL
  <1>3. Restorable(v) = FromStore(v) /\ Restorable(v)' = FromStore(v)'
    BY <1>1, <1>2, RestoredFromStore, NextIInv DEF ReadFromStore
  <1>4. Recipe(v)' = Recipe(v)
    BY <1>1, RecipeStays
  <1>5. \A k \in DOMAIN Recipe(v) : Recipe(v)[k][2] \in reclaimed' <=> Recipe(v)[k][2] \in reclaimed
    BY ReclaimedStays
  <1>6. FromStore(v)' = FromStore(v)
    BY <1>4, <1>5 DEF FromStore
  <1> QED
    BY <1>3, <1>6

\* A placeholder never leaves the table; only a chunk of a backup brings one.
LEMMA PlaceholderStays ==
  ASSUME IInv, [Next]_vars
  PROVE  (NoPlaceholder' => NoPlaceholder) /\ (BackupChunk \/ (NoPlaceholder <=> NoPlaceholder'))
  <1>1. CASE BackupChunk
    BY <1>1, BackupPlaceholder
  <1>2. CASE StopPhases
    <2>1. ~BySimilarity \/ table' = table
      BY <1>2 DEF StopPhases, TableOfSealed, BySimilarity
    <2>2. BySimilarity' = BySimilarity
      BY <1>2 DEF StopPhases, BySimilarity, Physical
    <2> QED
      BY <2>1, <2>2 DEF NoPlaceholder
  <1>3. CASE \E u \in todo : DeleteEntries(u)
    <2>1. PICK u \in todo : DeleteEntries(u)
      BY <1>3
    <2>2. u \in Units /\ Readable(u)
      BY <2>1, TodoReadable DEF DeleteEntries
    <2>3. table'[Placeholder] = table[Placeholder] /\ index' = index
      BY <2>1, <2>2, PlaceholderRemains DEF DeleteEntries, FingerprintsOf
    <2> QED
      BY <2>3 DEF NoPlaceholder, BySimilarity, Physical
  <1>4. CASE UNCHANGED <<index, table>>
    BY <1>4, SamePlaceholder
  <1> QED
    BY <1>1, <1>2, <1>3, <1>4
       DEF Next, StartBackup, CloseBackup, Truncate, MarkDeleted, StartRestore, EndRestore,
           vars

\* In each step, the kept versions stay as they are, or the backup that ends
\* adds one, the stream if no placeholder has misled the index, or the deletion
\* that starts takes the oldest.
Maps ==
  \/ AsRestored' = AsRestored /\ saved' = saved
  \/ \E n \in {saved} :
       /\ saved' = n + 1
       /\ KeptVersions' = KeptVersions \union {n} /\ n \notin KeptVersions
       /\ \A v \in KeptVersions : Restorable(v)' = Restorable(v)
       /\ NoPlaceholder => Restorable(n)' \in Streams
       /\ NoPlaceholder' <=> NoPlaceholder
  \/ /\ saved' = saved /\ Retention >= 0 /\ Cardinality(KeptVersions) > Retention
     /\ expired \in KeptVersions /\ \A v \in KeptVersions : expired <= v
     /\ AsRestored' = [v \in KeptVersions \ {expired} |-> AsRestored[v]]
     /\ NoPlaceholder' <=> NoPlaceholder

\* A step that keeps the numbers of the kept versions.
LEMMA KeepsVersions ==
  ASSUME IInv, [Next]_vars, saved' = saved, expired' = expired
  PROVE  Maps
  <1>1. KeptVersions' = KeptVersions
    BY DEF KeptVersions
  <1>2. \A v \in KeptVersions : Restorable(v)' = Restorable(v)
    BY <1>1, RestorableStays
  <1>3. AsRestored' = AsRestored
    BY <1>1, <1>2 DEF AsRestored
  <1> QED
    BY <1>3 DEF Maps

\* A backup that ends adds the version with its stream.
LEMMA CloseBackupMaps ==
  ASSUME IInv, CloseBackup
  PROVE  Maps
  <1>1. /\ saved' = saved + 1 /\ expired' = expired /\ backedUp' = backedUp
        /\ Len(backedUp) = saved + 1
    BY DEF CloseBackup, historyVars, IInv, Counted, Running
  <1>2. saved \in Nat /\ expired \in 0 .. saved
    BY ExpiredSaved
  <1>3. KeptVersions' = expired .. saved /\ KeptVersions = expired .. saved - 1
    BY <1>1, <1>2 DEF KeptVersions
  <1>4. KeptVersions' = KeptVersions \union {saved} /\ saved \notin KeptVersions
    BY <1>2, <1>3
  <1>5. backedUp'[saved + 1] \in Streams
    BY <1>1, <1>2, StreamShape DEF IInv
  <1>6. \A v \in KeptVersions : Restorable(v)' = Restorable(v)
    BY <1>4, RestorableStays DEF Next
  <1>7. IInv' /\ (NoPlaceholder' <=> NoPlaceholder)
    BY NextIInv, SamePlaceholder DEF Next, CloseBackup
  <1>8. IInv' => KeptVersionsIntact'
    BY IntactOfInv, PTL
  <1>9. \A n \in {saved} : NoPlaceholder => Restorable(n)' \in Streams
    <2>1. saved \in KeptVersions'
      BY <1>4
    <2>2. NoPlaceholder' => \A v \in KeptVersions' : Restorable(v)' = backedUp'[v + 1]
      BY <1>7, <1>8 DEF KeptVersionsIntact
    <2> QED
      BY <1>5, <1>7, <2>1, <2>2
  <1> QED
    BY <1>1, <1>4, <1>5, <1>6, <1>7, <1>9 DEF Maps

\* A deletion takes the oldest version, when one too many is kept.
LEMMA TruncateMaps ==
  ASSUME IInv, Truncate
  PROVE  Maps
  <1>1. /\ saved' = saved /\ phase = "gc"
        /\ expired' = Max({expired, jobid + 1}) /\ job = saved - 1
        /\ Retention >= 0 /\ job >= Retention /\ expired = saved - 1 - Retention
    BY ExpiredSaved DEF Truncate, IInv, Counted, ExpiredInTurn, Deleting
  <1>2. saved \in Nat /\ expired \in Nat /\ Retention \in Nat
    BY <1>1, ExpiredSaved
  <1>3. expired' = expired + 1
    <2>1. jobid = expired
      BY <1>1, <1>2 DEF jobid
    <2>2. \A m, n \in Int : Max({m, n}) = IF m >= n THEN m ELSE n
      BY MinMaxOfTwo
    <2>3. expired' = Max({expired, expired + 1})
      BY <1>1, <2>1
    <2> QED
      BY <1>2, <2>2, <2>3
  <1>4. /\ KeptVersions' = expired + 1 .. saved - 1 /\ KeptVersions = expired .. saved - 1
    BY <1>1, <1>3 DEF KeptVersions
  <1>5. /\ KeptVersions' = KeptVersions \ {expired} /\ expired \in KeptVersions
        /\ \A v \in KeptVersions : expired <= v
    BY <1>1, <1>2, <1>4
  <1>6. Cardinality(KeptVersions) = Retention + 1
    <2>1. Cardinality(expired .. saved - 1) = (saved - 1) - expired + 1
      BY <1>1, <1>2, FS_Interval
    <2> QED
      BY <1>1, <1>2, <1>4, <2>1
  <1>7. \A v \in KeptVersions' : Restorable(v)' = Restorable(v)
    BY <1>5, RestorableStays DEF Next
  <1>8. AsRestored' = [v \in KeptVersions \ {expired} |-> AsRestored[v]]
    BY <1>5, <1>7 DEF AsRestored
  <1>9. NoPlaceholder' <=> NoPlaceholder
    BY SamePlaceholder DEF Truncate
  <1> QED
    BY <1>1, <1>2, <1>5, <1>6, <1>8, <1>9 DEF Maps

\* Every step of the jobs is one of these, or changes no version.
LEMMA NextMaps ==
  ASSUME IInv, [Next]_vars
  PROVE  Maps
  <1>2. CASE CloseBackup
    BY <1>2, CloseBackupMaps
  <1>3. CASE Truncate
    BY <1>3, TruncateMaps
  <1>4. CASE saved' = saved /\ expired' = expired
    BY <1>4, KeepsVersions
  <1>5. CASE StartBackup \/ BackupChunk \/ StopPhases \/ MarkDeleted \/ EndRestore
    BY <1>4, <1>5 DEF StartBackup, BackupChunk, StopPhases, MarkDeleted, EndRestore, historyVars
  <1>6. CASE \E u \in todo : DeleteEntries(u)
    BY <1>4, <1>6 DEF DeleteEntries, historyVars
  <1>7. CASE \E v \in 0..(saved - 1) : StartRestore(v)
    BY <1>4, <1>7 DEF StartRestore, historyVars
  <1>8. CASE UNCHANGED vars
    BY <1>4, <1>8 DEF vars, historyVars
  <1> QED
    BY <1>2, <1>3, <1>5, <1>6, <1>7, <1>8 DEF Next

-----------------------------------------------------------------------------
(* The theorems.                                                           *)

\* The files and the jobs keep to their shapes: in particular no feature of the
\* key-value table ever has more units than its value has room for.
THEOREM TypeCorrect == Spec => []TypeOK
  <1>1. IInv => TypeOK
    BY DEF IInv
  <1> QED
    BY <1>1, AlwaysIInv, PTL

\* A version that has not expired can be restored to what was backed up at any
\* moment of any later backup and of any deletion, as long as no segment of
\* which no chunk was sampled (sampling_method.c:199-205) has left a placeholder
\* where a lookup by similarity looks: with the base lookup, always.
THEOREM VersionsIntact == Spec => []KeptVersionsIntact
  BY IntactOfInv, AlwaysIInv, PTL

\* Between the jobs, the manifest (cma.c) names the containers that the kept
\* versions refer to, each with the last of these versions, and no others.
THEOREM ManifestIsExact == Spec => []ManifestExact
  BY ManifestOfInv, AlwaysIInv, PTL

\* do_delete takes from under the fingerprints all that it reclaims, by finding
\* each segment at the end of its entries, as kvstore_htable.c asserts; what is
\* left leads to its chunk always, and to nothing reclaimed as long as there is
\* no placeholder.
THEOREM DeletionIsClean == Spec => []DeletionClean
  <1>1. IInv => DeletionClean
    BY TableLiveOfInv, OldestOfInv DEF IInv, DeletionClean
  <1> QED
    BY <1>1, AlwaysIInv, PTL

\* No backup refers to a container that the one before recorded as sparse
\* (har_rewrite.c), whatever its limit and the other rewriting.
THEOREM SparseIsForsaken == Spec => []SparseForsaken
  BY ForsakenOfInv, AlwaysIInv, PTL

\* The backups and deletions, with all the files they keep, implement the set of
\* versions of the abstract specification: a step adds a version, takes the
\* oldest one, or changes none, also when a placeholder has made the versions
\* to come doubtful.
THEOREM ImplementsVersions == Spec => IsVersions
  <1>1. Init => V!VInit
    <2> SUFFICES ASSUME Init PROVE V!VInit
      OBVIOUS
    <2>1. saved = 0 /\ expired = 0 /\ table[Placeholder] = <<>>
      BY FpsAreKeys DEF Init
    <2>2. KeptVersions = {}
      BY <2>1 DEF KeptVersions
    <2>3. NoPlaceholder = TRUE
      BY <2>1 DEF NoPlaceholder
    <2> QED
      BY <2>1, <2>2, <2>3 DEF V!VInit
  <1>2. ASSUME IInv, [Next]_vars PROVE [V!VNext]_V!vvars
    <2>1. Maps /\ (NoPlaceholder' => NoPlaceholder)
      BY <1>2, NextMaps, PlaceholderStays
    <2>2. NoPlaceholder \in BOOLEAN /\ NoPlaceholder' \in BOOLEAN
      BY DEF NoPlaceholder
    <2>3. AsRestored = [v \in KeptVersions |-> Restorable(v)]
      BY DEF AsRestored
    <2>4. AsRestored' = [v \in KeptVersions |-> Restorable(v)]'
      BY DEF AsRestored
    <2>5. V!Kept = KeptVersions /\ V!Kept' = KeptVersions'
      BY DEF V!Kept
    <2>6. \A S : V!Cardinality(S) = Cardinality(S)
      BY DEF V!Cardinality, Cardinality
    <2>7. CASE AsRestored' = AsRestored /\ saved' = saved
      <3>1. CASE NoPlaceholder' = NoPlaceholder
        BY <2>3, <2>4, <2>7, <3>1 DEF V!vvars
      <3>2. CASE NoPlaceholder /\ ~NoPlaceholder'
        BY <2>3, <2>4, <2>7, <3>2 DEF V!VNext, V!Spoil
      <3> QED
        BY <2>1, <2>2, <3>1, <3>2
    <2>8. ASSUME NEW n \in {saved}, saved' = n + 1,
                 KeptVersions' = KeptVersions \union {n}, n \notin KeptVersions,
                 \A v \in KeptVersions : Restorable(v)' = Restorable(v),
                 NoPlaceholder => Restorable(n)' \in Streams,
                 NoPlaceholder' <=> NoPlaceholder
          PROVE  V!VNext
      <3>1. DOMAIN AsRestored = KeptVersions /\ DOMAIN AsRestored' = KeptVersions'
        BY <2>3, <2>4
      <3>a. \A v \in KeptVersions' : AsRestored'[v] = Restorable(v)'
        BY <2>4
      <3>2. \A v \in KeptVersions : AsRestored'[v] = AsRestored[v]
        BY <2>3, <2>8, <3>a
      <3>3. AsRestored'[n] = Restorable(n)'
        BY <2>8, <3>a
      <3>4. NoPlaceholder' = NoPlaceholder
        BY <2>2, <2>8
      <3>5. V!Backup
        BY <2>3, <2>4, <2>5, <2>8, <3>1, <3>2, <3>3, <3>4 DEF V!Backup
      <3> QED
        BY <3>5 DEF V!VNext
    <2>9. CASE /\ saved' = saved /\ Retention >= 0 /\ Cardinality(KeptVersions) > Retention
               /\ expired \in KeptVersions /\ \A v \in KeptVersions : expired <= v
               /\ AsRestored' = [v \in KeptVersions \ {expired} |-> AsRestored[v]]
               /\ NoPlaceholder' <=> NoPlaceholder
      <3>1. NoPlaceholder' = NoPlaceholder
        BY <2>2, <2>9
      <3> QED
        BY <2>3, <2>4, <2>5, <2>6, <2>9, <3>1, ZenonT(40) DEF V!VNext, V!Expire
    <2> QED
      BY <2>1, <2>7, <2>8, <2>9 DEF Maps
  <1> QED
    BY <1>1, <1>2, AlwaysIInv, PTL DEF Spec, IsVersions, V!VSpec

-----------------------------------------------------------------------------
(* The ids of segments: two fields, the lower one of width w.              *)

\* Quotient and remainder give the fields back.
LEMMA Fields ==
  ASSUME NEW w \in Nat \ {0}, NEW high \in Int, NEW low \in 0 .. w - 1
  PROVE  (high * w + low) \div w = high /\ (high * w + low) % w = low
  <1>1. (high * w + low) \div w = high
    BY SMT
  <1>2. (high * w + low) % w = low
    BY SMT
  <1> QED
    BY <1>1, <1>2

\* The higher field decides.
LEMMA HighDecides ==
  ASSUME NEW w \in Nat \ {0}, NEW h1 \in Int, NEW h2 \in Int, h1 > h2,
         NEW l1 \in 0 .. w - 1, NEW l2 \in 0 .. w - 1
  PROVE  h1 * w + l1 > h2 * w + l2
  <1>1. PICK d \in Nat : h1 = h2 + 1 + d
    <2>1. h1 - h2 - 1 \in Nat /\ h1 = h2 + 1 + (h1 - h2 - 1)
      OBVIOUS
    <2> QED
      BY <2>1
  <1>2. h1 * w = h2 * w + w + d * w /\ h2 * w \in Int
    BY <1>1, SMT
  <1>3. d * w \in Nat
    BY <1>1, SMT
  <1> QED
    BY <1>2, <1>3, SMT

\* The widths are positive.
LEMMA Widths ==
  /\ SizeRange \in Nat \ {0} /\ OffRange \in Nat \ {0}
  /\ OffRange * SizeRange \in Nat \ {0}
  BY SMT DEF SizeRange, OffRange

\* An id, with its two upper fields or its two lower ones taken together.
LEMMA Grouped ==
  ASSUME NEW bid \in Int, NEW off \in Int, NEW size \in Int
  PROVE  /\ make_segment_id(bid, off, size) = (bid * OffRange + off) * SizeRange + size
         /\ make_segment_id(bid, off, size) = bid * (OffRange * SizeRange) + (off * SizeRange + size)
  <1>1. \A o, s \in Nat : /\ bid * (o * s) + off * s + size = (bid * o + off) * s + size
                          /\ bid * (o * s) + off * s + size = bid * (o * s) + (off * s + size)
    BY SMT
  <1> QED
    BY <1>1, Widths DEF make_segment_id

\* The lower fields together stay below the backup's.
LEMMA LowerFields ==
  ASSUME NEW off \in Offsets, NEW size \in Sizes
  PROVE  /\ off \in Nat /\ off \in 0 .. OffRange - 1
         /\ size \in Nat /\ size \in 0 .. SizeRange - 1
         /\ off * SizeRange + size \in 0 .. OffRange * SizeRange - 1
  <1>1. ASSUME NEW o \in Nat \ {0}, NEW s \in Nat \ {0},
               NEW x \in 0 .. o - 1, NEW y \in 0 .. s - 1
        PROVE  x * s + y \in 0 .. o * s - 1
    <2>1. o > x /\ 0 \in 0 .. s - 1 /\ o \in Int /\ x \in Int
      OBVIOUS
    <2>2. o * s + 0 > x * s + y
      BY <2>1, HighDecides
    <2>3. o * s \in Int /\ x * s \in Nat
      BY SMT
    <2> QED
      BY <2>2, <2>3, SMT
  <1>2. off \in 0 .. OffRange - 1 /\ size \in 0 .. SizeRange - 1
    BY DEF Offsets, Sizes
  <1> QED
    BY <1>1, <1>2, Widths

\* prefetch_segments (recipestore.c:526-531) finds the segment that
\* append_segment_flag wrote, as long as each part fits into its field.
THEOREM Decodes ==
  ASSUME NEW bid \in BackupIds, NEW off \in Offsets, NEW size \in Sizes
  PROVE  LET id == make_segment_id(bid, off, size)
         IN  id_to_bnum(id) = bid /\ id_to_off(id) = off /\ id_to_size(id) = size
  <1> DEFINE id == make_segment_id(bid, off, size)
             upper == bid * OffRange + off
             lower == off * SizeRange + size
  <1>1. bid \in Int /\ off \in Int /\ size \in Int
    BY LowerFields DEF BackupIds
  <1>2. /\ id = upper * SizeRange + size
        /\ id = bid * (OffRange * SizeRange) + lower
    BY <1>1, Grouped
  <1>3. upper \in Int
    BY <1>1, Widths
  <1>4. size \in 0 .. SizeRange - 1 /\ off \in 0 .. OffRange - 1
        /\ lower \in 0 .. OffRange * SizeRange - 1
    BY LowerFields
  <1>5. upper % OffRange = off
    BY <1>1, <1>4, Widths, Fields
  <1> HIDE DEF id, upper, lower
  <1>6. id \div SizeRange = upper /\ id % SizeRange = size
    BY <1>2, <1>3, <1>4, Widths, Fields
  <1>7. id \div (OffRange * SizeRange) = bid
    BY <1>1, <1>2, <1>4, Widths, Fields
  <1> QED
    BY <1>5, <1>6, <1>7 DEF id, id_to_bnum, id_to_off, id_to_size

\* Of two segments, the one with the larger id is that of the later version, or
\* the later one in the same recipe: g_segment_cmp_feature_num
\* (similarity_detection.c:26) prefers it among equally similar ones.
THEOREM Ordered ==
  ASSUME NEW b1 \in BackupIds, NEW o1 \in Offsets, NEW s1 \in Sizes,
         NEW b2 \in BackupIds, NEW o2 \in Offsets, NEW s2 \in Sizes,
         b1 > b2 \/ (b1 = b2 /\ o1 > o2)
  PROVE  make_segment_id(b1, o1, s1) > make_segment_id(b2, o2, s2)
  <1>1. /\ b1 \in Int /\ o1 \in Int /\ s1 \in Int
        /\ b2 \in Int /\ o2 \in Int /\ s2 \in Int
    BY LowerFields DEF BackupIds
  <1>2. CASE b1 > b2
    <2> DEFINE l1 == o1 * SizeRange + s1
               l2 == o2 * SizeRange + s2
    <2>1. l1 \in 0 .. OffRange * SizeRange - 1 /\ l2 \in 0 .. OffRange * SizeRange - 1
      BY LowerFields
    <2>2. /\ make_segment_id(b1, o1, s1) = b1 * (OffRange * SizeRange) + l1
          /\ make_segment_id(b2, o2, s2) = b2 * (OffRange * SizeRange) + l2
      BY <1>1, Grouped
    <2> HIDE DEF l1, l2
    <2>3. b1 * (OffRange * SizeRange) + l1 > b2 * (OffRange * SizeRange) + l2
      BY <1>1, <1>2, <2>1, Widths, HighDecides
    <2> QED
      BY <2>2, <2>3
  <1>3. CASE b1 = b2 /\ o1 > o2
    <2> DEFINE h1 == b1 * OffRange + o1
               h2 == b1 * OffRange + o2
    <2>1. h1 \in Int /\ h2 \in Int /\ h1 > h2
      BY <1>1, <1>3, Widths
    <2>2. s1 \in 0 .. SizeRange - 1 /\ s2 \in 0 .. SizeRange - 1
      BY LowerFields
    <2>3. /\ make_segment_id(b1, o1, s1) = h1 * SizeRange + s1
          /\ make_segment_id(b2, o2, s2) = h2 * SizeRange + s2
      BY <1>1, <1>3, Grouped
    <2> HIDE DEF h1, h2
    <2>4. h1 * SizeRange + s1 > h2 * SizeRange + s2
      BY <2>1, <2>2, Widths, HighDecides
    <2> QED
      BY <2>3, <2>4
  <1> QED
    BY <1>2, <1>3

\* Where it ends, for nothing in append_segment_flag tests for it: a segment of
\* SizeRange chunks and more has the id of a smaller one that starts a byte
\* later, and in a recipe of OffRange bytes an id names the next version.
THEOREM Overflows ==
  ASSUME NEW bid \in Nat, NEW off \in Nat, NEW size \in Nat
  PROVE  /\ make_segment_id(bid, off, SizeRange + size) = make_segment_id(bid, off + 1, size)
         /\ make_segment_id(bid, OffRange + off, size) = make_segment_id(bid + 1, off, size)
  <1>1. \A o, s \in Nat :
          /\ bid * (o * s) + off * s + (s + size) = bid * (o * s) + (off + 1) * s + size
          /\ bid * (o * s) + (o + off) * s + size = (bid + 1) * (o * s) + off * s + size
    BY SMT
  <1> QED
    BY <1>1, Widths DEF make_segment_id
==============================================================================
