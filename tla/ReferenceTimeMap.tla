-------------------------- MODULE ReferenceTimeMap --------------------------
(***************************************************************************)
(* The reference time map (gc/gc_rtm.c) and the collector that reads it    *)
(* (gc/gc.c), over successive jobs.                                        *)
(*                                                                         *)
(* The map holds for each chunk of each container a version that refers to *)
(* the chunk.  A backup marks the chunks it finds in older containers      *)
(* (index/index.c) in a bit array, in which the containers it meets get    *)
(* their ranges one behind the other; at its end it condenses the bits of  *)
(* a container to an attribute in its container bit table: none, part or   *)
(* all of its chunks were referred to, or the container is new.  Only a    *)
(* partial reference updates the times; a full one is left to the          *)
(* collector, which reads the tables from the newest one back.             *)
(*                                                                         *)
(* Ids start at 0 and chunk positions at 0, as in the code; rtm[id + 1] is *)
(* the entry of container id, and cbt[v + 1] the table of version v.       *)
(***************************************************************************)
EXTENDS Integers, Sequences, FiniteSets

CONSTANTS Sizes,          \* the numbers of chunks of a container
          MaxContainers,  \* bound on container_count
          MaxVersions,    \* bound on the number of backups
          MaxNew,         \* bound on the new containers of a backup
          Garbage         \* what chunk_num of a list node may hold: it is not set

ASSUME MapAssumption ==
  /\ Sizes \subseteq Nat \ {0}
  /\ MaxContainers \in Nat /\ MaxVersions \in Nat /\ MaxNew \in Nat
  /\ Garbage \subseteq Nat
  /\ 2 * MaxContainers + 33 <= 32 * 1024   \* CBT holds 1 << 10 integers
  /\ MaxVersions < 2^15                    \* times are 16 bits wide

VARIABLES
  phase,         \* "idle", "backup", "gc", "count" or "done"
  ishead,        \* the list of containers met: [container_id, chunk_shift]
  globle_shift,  \* where the range of the next one starts
  index_bit,     \* the positions set in index_bit
  RTMhead,       \* the map in memory
  rtm,           \* reference_time_map.rtm
  cbt,           \* container_bit_table.cbt: [bv, bits] for each version
  last,          \* the table that the collector reads next, from the newest
  pending,       \* the containers it has no attribute for yet
  counted,       \* the chunks it counted: <<id, position>>
  deleteversion, \* the argument of the collector
  history        \* per version: the chunks referred to, the first new
                 \* container, and the last container of ishead

vars == <<phase, ishead, globle_shift, index_bit, RTMhead, rtm, cbt, last,
          pending, counted, deleteversion, history>>

files == <<rtm, cbt, history>>
collector == <<last, pending, counted, deleteversion>>

container_count_start == Len(rtm)
current_bv == Len(cbt)
Chunks(id, map) == {id} \X (0 .. Len(map[id + 1]) - 1)

Init ==
  /\ phase = "idle"
  /\ ishead = <<>> /\ globle_shift = 1 /\ index_bit = {}
  /\ RTMhead = <<>> /\ rtm = <<>> /\ cbt = <<>>
  /\ last = 1 /\ pending = {} /\ counted = {} /\ deleteversion = 0
  /\ history = <<>>

-----------------------------------------------------------------------------
(* A backup.                                                               *)

\* The entries of the containers that were there when the job began.
read_RTM_from_disk == SubSeq(rtm, 1, container_count_start)

\* Init_RTM reads the map, except for version 0, which has none.  The other
\* variables are those of a new process.
StartBackup ==
  /\ phase = "idle" /\ current_bv < MaxVersions
  /\ phase' = "backup"
  /\ RTMhead' = IF current_bv = 0 THEN <<>> ELSE read_RTM_from_disk
  /\ ishead' = <<>> /\ globle_shift' = 1 /\ index_bit' = {}
  /\ history' = Append(history, [chunks |-> {}, start |-> container_count_start,
                                 last |-> {}])
  /\ UNCHANGED <<rtm, cbt, collector>>

Refer(chunks) ==
  history' = [history EXCEPT ![Len(history)].chunks = @ \cup chunks]

Listed(id) == \E k \in DOMAIN ishead : ishead[k].container_id = id
Place(id) == CHOOSE k \in DOMAIN ishead : ishead[k].container_id = id
get_shift_by_id(id) == ishead[Place(id)].chunk_shift
id_shift_AddEnd(id) == Append(ishead, [container_id |-> id, chunk_shift |-> globle_shift])

set_index_bit(n) == index_bit' = index_bit \cup {n}
get_index_bit(n) == n \in index_bit

\* (mutant) The next range starts at the last chunk of this one.
LookupShort(id, position) ==
  LET shift == IF Listed(id) THEN get_shift_by_id(id) ELSE globle_shift
  IN /\ phase = "backup" /\ id < container_count_start
     /\ <<id, position>> \in Chunks(id, rtm)
     /\ set_index_bit(shift + position)
     /\ ishead' = IF Listed(id) THEN ishead ELSE id_shift_AddEnd(id)
     /\ globle_shift' = IF Listed(id) THEN globle_shift ELSE shift + Len(rtm[id + 1]) - 1
     /\ Refer({<<id, position>>})
     /\ UNCHANGED <<phase, RTMhead, rtm, cbt, collector>>

\* The lookup finds a chunk in the cache, or by the key-value store, in a
\* container that was there before this backup: the container gets a range
\* when it is met first, and the chunk its bit.
Lookup(id, position) ==
  /\ phase = "backup" /\ id < container_count_start
  /\ <<id, position>> \in Chunks(id, rtm)
  /\ IF Listed(id)
       THEN /\ set_index_bit(get_shift_by_id(id) + position)
            /\ UNCHANGED <<ishead, globle_shift>>
       ELSE /\ ishead' = id_shift_AddEnd(id)
            /\ globle_shift' = globle_shift + Len(rtm[id + 1])
            /\ set_index_bit(globle_shift + position)
  /\ Refer({<<id, position>>})
  /\ UNCHANGED <<phase, RTMhead, rtm, cbt, collector>>

\* (mutant) The version is counted from one in the table, from zero in the map.
AppendContainerEarlier(n) ==
  /\ phase = "backup"
  /\ Len(RTMhead) < MaxContainers /\ Len(RTMhead) < container_count_start + MaxNew
  /\ RTMhead' = Append(RTMhead, [i \in 1 .. n |-> current_bv - 1])
  /\ Refer({Len(RTMhead)} \X (0 .. n - 1))
  /\ UNCHANGED <<phase, ishead, globle_shift, index_bit, rtm, cbt, collector>>

\* append_thread adds a container of n chunks, all of this version.
AppendContainer(n) ==
  /\ phase = "backup"
  /\ Len(RTMhead) < MaxContainers /\ Len(RTMhead) < container_count_start + MaxNew
  /\ RTMhead' = Append(RTMhead, [i \in 1 .. n |-> current_bv])
  /\ Refer({Len(RTMhead)} \X (0 .. n - 1))
  /\ UNCHANGED <<phase, ishead, globle_shift, index_bit, rtm, cbt, collector>>

\* The end of a container's range, inclusive: from the next node, and for the
\* last one from its chunk_num, which nobody has set.
RangeEnd(id, g) ==
  IF Place(id) < Len(ishead) THEN ishead[Place(id) + 1].chunk_shift - 1
                             ELSE get_shift_by_id(id) + g - 1

\* 2 if all bits from start to end (exclusive) are set, 0 if none is, else 1.
check_index_bit_equal_one(start, end) ==
  LET range == start .. end - 1
  IN IF start > end THEN 1
     ELSE IF range \subseteq index_bit THEN 2
     ELSE IF range \cap index_bit = {} THEN 0 ELSE 1

\* (mutant) The first chunk is skipped as well.
get_attributeInner(id, g) ==
  check_index_bit_equal_one(get_shift_by_id(id) + 1, RangeEnd(id, g))

get_attribute(id, g) == check_index_bit_equal_one(get_shift_by_id(id), RangeEnd(id, g))

\* The bits of an attribute: 10 for part, 11 for all, 01 for a new container.
AttributeBits(shift, attribute) ==
  CASE attribute = 0 -> {}
    [] attribute = 1 -> {shift}
    [] attribute = 2 -> {shift, shift + 1}
    [] attribute = 3 -> {shift + 1}

\* (mutant) The end is taken as exclusive.
update_reference_time_mapShort(id, g) ==
  LET start == get_shift_by_id(id)
  IN [i \in DOMAIN RTMhead[id + 1] |->
        IF i - 1 < RangeEnd(id, g) - start /\ get_index_bit(start + i - 1)
          THEN current_bv ELSE RTMhead[id + 1][i]]

\* The times of a partly used container, where its bits are set.
update_reference_time_map(id, g) ==
  LET start == get_shift_by_id(id)
  IN [i \in DOMAIN RTMhead[id + 1] |->
        IF i - 1 <= RangeEnd(id, g) - start /\ get_index_bit(start + i - 1)
          THEN current_bv ELSE RTMhead[id + 1][i]]

write_container_bit_table_to_disk(bits) ==
  cbt' = Append(cbt, [bv |-> current_bv, bits |-> bits])

\* The list is freed as it is written.
write_RTM_to_disk(times) == rtm' = times /\ RTMhead' = <<>>

close_id_shift_and_hashtable == ishead' = <<>> /\ globle_shift' = 1 /\ index_bit' = {}

\* update_container_bit_table_and_RTM: the containers met, then the new ones.
Met == {id \in 0 .. container_count_start - 1 : Listed(id)}
New == container_count_start .. Len(RTMhead) - 1

UpdatedTimes(g) ==
  [c \in DOMAIN RTMhead |->
     IF c - 1 \in Met /\ get_attribute(c - 1, g) = 1
       THEN update_reference_time_map(c - 1, g) ELSE RTMhead[c]]

UpdatedBits(g) ==
  (UNION {AttributeBits(id * 2 + 33, get_attribute(id, g)) : id \in Met})
    \cup (UNION {AttributeBits(id * 2 + 33, 3) : id \in New})

LastMet == IF ishead = <<>> THEN {} ELSE {ishead[Len(ishead)].container_id}

\* close_container_store after the append thread has ended, and the files that
\* do_backup writes behind it.
CloseBackup(g) ==
  /\ phase = "backup" /\ history[Len(history)].chunks # {}
  /\ phase' = "idle"
  /\ write_container_bit_table_to_disk(UpdatedBits(g))
  /\ write_RTM_to_disk(UpdatedTimes(g))
  /\ close_id_shift_and_hashtable
  /\ history' = [history EXCEPT ![Len(history)].last = LastMet]
  /\ UNCHANGED collector

-----------------------------------------------------------------------------
(* The collector, a process of its own.  It writes no file.                *)

\* A bit of a table.  The first integer is the version; position 0 is the top
\* bit of the integer before the array, which malloc leaves 0.
get_CBT_array(n, table) ==
  IF n > 32 THEN n \in table.bits
            ELSE n > 0 /\ (table.bv \div 2^(n - 1)) % 2 = 1

\* The table written that many backups ago, the newest at 1.  Before the first
\* one the seek fails, and the first is read again.
get_newest_container_bit_table(times) ==
  cbt[IF times > Len(cbt) THEN 1 ELSE Len(cbt) - times + 1]

\* (mutant) The first chunk is skipped.
update_RTM_to_same_backupversionSkip(entry, bv) ==
  LET same == {i \in DOMAIN entry : entry[i] = bv}
  IN [i \in DOMAIN entry |-> IF i > 1 /\ \A s \in same : i < s THEN bv ELSE entry[i]]

\* All times up to the first one that has that version already.
update_RTM_to_same_backupversion(entry, bv) ==
  LET same == {i \in DOMAIN entry : entry[i] = bv}
  IN [i \in DOMAIN entry |-> IF \A s \in same : i < s THEN bv ELSE entry[i]]

Full(n, table) == get_CBT_array(n, table) /\ get_CBT_array(n + 1, table)
None(n, table) == ~get_CBT_array(n, table) /\ ~get_CBT_array(n + 1, table)

\* The number of containers, as the last backup has written it.
get_container_bit_end == Len(rtm)
read_RTM_from_disk_in_gc(broad) == SubSeq(rtm, 1, broad)

\* The newest table is read by the container's place in it.
get_real_reference_time_map(d) ==
  LET newest == get_newest_container_bit_table(1)
      cce == get_container_bit_end
      map == read_RTM_from_disk_in_gc(cce)
  IN /\ phase = "idle" /\ cbt # <<>>
     /\ phase' = "gc"
     /\ deleteversion' = d
     /\ RTMhead' = [c \in DOMAIN map |->
                      IF Full((c - 1) * 2 + 33, newest)
                        THEN update_RTM_to_same_backupversion(map[c], newest.bv)
                        ELSE map[c]]
     /\ pending' = {id \in 0 .. cce - 1 : None(id * 2 + 33, newest)}
     /\ last' = 2
     /\ UNCHANGED <<ishead, globle_shift, index_bit, files, counted>>

\* The older ones are read at the container's id itself, which for a small id
\* is in the first integer.
check_last_container_bit_table ==
  LET table == get_newest_container_bit_table(last)
      zero == {id \in pending : None(id, table)}
  IN /\ phase = "gc"
     /\ RTMhead' = [c \in DOMAIN RTMhead |->
                      IF c - 1 \in pending /\ Full(c - 1, table)
                        THEN update_RTM_to_same_backupversion(RTMhead[c], table.bv)
                        ELSE RTMhead[c]]
     /\ pending' = zero
     /\ last' = IF last > Len(cbt) THEN last ELSE last + 1
     /\ phase' = IF zero = {} THEN "count" ELSE "gc"
     /\ UNCHANGED <<ishead, globle_shift, index_bit, files, counted, deleteversion>>

\* The entries are walked through and then freed, by Destory_RTM.
gc_reference_time_map_patch ==
  /\ phase = "count" /\ phase' = "done"
  /\ RTMhead' = <<>>
  /\ counted' = {chunk \in UNION {Chunks(c - 1, RTMhead) : c \in DOMAIN RTMhead} :
                   RTMhead[chunk[1] + 1][chunk[2] + 1] <= deleteversion}
  /\ UNCHANGED <<ishead, globle_shift, index_bit, files, last, pending, deleteversion>>

EndCollection ==
  /\ phase = "done" /\ phase' = "idle"
  /\ last' = 1 /\ counted' = {} /\ deleteversion' = 0
  /\ UNCHANGED <<ishead, globle_shift, index_bit, RTMhead, files, pending>>

Next ==
  \/ StartBackup
  \/ \E c \in DOMAIN rtm : \E i \in DOMAIN rtm[c] : Lookup(c - 1, i - 1)
  \/ \E n \in Sizes : AppendContainer(n)
  \/ \E g \in Garbage : CloseBackup(g)
  \/ \E d \in 0 .. Len(cbt) - 1 : get_real_reference_time_map(d)
  \/ check_last_container_bit_table
  \/ gc_reference_time_map_patch
  \/ EndCollection

Spec == Init /\ [][Next]_vars

-----------------------------------------------------------------------------
(* Properties.                                                             *)

\* Type invariant.
TypeOK ==
  /\ phase \in {"idle", "backup", "gc", "count", "done"}
  /\ ishead \in Seq([container_id : Nat, chunk_shift : Nat \ {0}])
  /\ globle_shift \in Nat \ {0} /\ index_bit \subseteq Nat \ {0}
  /\ RTMhead \in Seq(Seq(Nat)) /\ rtm \in Seq(Seq(Nat))
  /\ cbt \in Seq([bv : Nat, bits : SUBSET (Nat \ (0 .. 32))])
  /\ last \in Nat /\ pending \subseteq Nat /\ counted \subseteq Nat \X Nat
  /\ deleteversion \in Nat
  /\ history \in Seq([chunks : SUBSET (Nat \X Nat), start : Nat, last : SUBSET Nat])

\* The ranges of the containers in index_bit do not overlap, so that each set
\* bit stands for one chunk, and these are the chunks found in old containers.
Bits(k) ==
  {ishead[k].chunk_shift + i : i \in 0 .. Len(rtm[ishead[k].container_id + 1]) - 1}
Found == {chunk \in history[Len(history)].chunks : chunk[1] < container_count_start}
BitsFaithful ==
  phase = "backup" =>
    /\ \A j, k \in DOMAIN ishead : j # k => Bits(j) \cap Bits(k) = {}
    /\ index_bit = {get_shift_by_id(chunk[1]) + chunk[2] : chunk \in Found}

Closed(v) == v + 1 \in DOMAIN cbt
Referred(v) == history[v + 1].chunks
Partly(id, v) == id * 2 + 33 \in cbt[v + 1].bits /\ id * 2 + 34 \notin cbt[v + 1].bits

\* A time is always that of a version that refers to the chunk, and no later
\* one is lost, unless its table says that the whole container was referred to
\* or not at all; only the last container met is excepted, of which the end
\* is unknown.
TimesFaithful ==
  \A c \in DOMAIN rtm : \A i \in DOMAIN rtm[c] : \A v \in 0 .. Len(cbt) - 1 :
    LET chunk == <<c - 1, i - 1>>
    IN /\ chunk \in Referred(rtm[c][i])
       /\ chunk \in Referred(v) /\ Partly(c - 1, v) /\ c - 1 \notin history[v + 1].last
            => rtm[c][i] >= v

\* What an attribute says of a container is true of these positions of it.
Truthful(v, id, positions) ==
  LET referred == {i \in positions : <<id, i>> \in Referred(v)}
      table == cbt[v + 1]
      place == id * 2 + 33
  IN /\ None(place, table) => referred = {}
     /\ Full(place, table) => referred = positions
     /\ Partly(id, v) => referred # {} /\ referred # positions

OldContainers(v) == (0 .. history[v + 1].start - 1) \ history[v + 1].last
Positions(id) == 0 .. Len(rtm[id + 1]) - 1

\* get_attribute tells the truth about all chunks of a container but the last
\* one, for every container but the last one met, and exactly the containers of
\* a backup are marked as new.
AttributesButLast ==
  \A v \in 0 .. Len(cbt) - 1 :
    /\ \A id \in OldContainers(v) : Truthful(v, id, Positions(id) \ {Len(rtm[id + 1]) - 1})
    /\ \A id \in 0 .. Len(rtm) - 1 :
         (id * 2 + 33 \notin cbt[v + 1].bits /\ id * 2 + 34 \in cbt[v + 1].bits)
           <=> <<id, 0>> \in Referred(v) /\ id >= history[v + 1].start

\* The comments of gc_rtm.c (424-435): 0 means that no bit of the container is
\* set, 1 that some are, 2 that all are.
AttributesTruthful ==
  \A v \in 0 .. Len(cbt) - 1 : \A id \in OldContainers(v) : Truthful(v, id, Positions(id))

\* The collector never counts a chunk that the newest version refers to, if
\* versions before the newest are deleted: unless the chunk is the last of its
\* container, or the container the last one met.
GcSparesNewest ==
  LET newest == Len(cbt) - 1
  IN phase = "done" /\ deleteversion < newest =>
       \A chunk \in counted \cap Referred(newest) :
         \/ chunk[1] \in history[newest + 1].last
         \/ chunk[2] = Len(rtm[chunk[1] + 1]) - 1
=============================================================================
