----------------------- MODULE ReferenceTimeMapProofs -----------------------
(***************************************************************************)
(* For all sizes of containers, numbers of backups and whatever the unset  *)
(* field of a list node holds: the bits that a backup sets are those of    *)
(* the chunks it found in older containers, and the times that the map     *)
(* keeps in memory and on disk are those of versions that refer to the     *)
(* chunk, none forgotten where the table promises an update; the           *)
(* attributes in the tables are true of all chunks but the last of a       *)
(* container; and the collector counts no chunk that the newest version    *)
(* refers to, outside the gaps that its properties name.                   *)
(*                                                                         *)
(* The ranges of the containers in index_bit follow one another in the     *)
(* order of ishead, and end before globle_shift: that keeps them apart,    *)
(* and lets a set bit be traced back to its chunk when the backup closes.  *)
(***************************************************************************)
EXTENDS ReferenceTimeMap, SequenceTheorems, TLAPS

\* What the files and the phases have to do with one another.
Counted ==
  /\ Len(history) = IF phase = "backup" THEN Len(cbt) + 1 ELSE Len(cbt)
  /\ cbt = <<>> => rtm = <<>>
  /\ phase \in {"gc", "count", "done"} => cbt # <<>>
  /\ last # 0

\* During a backup the map in memory extends the one on disk by containers of
\* which the backup refers to all chunks.
MapGrows ==
  phase = "backup" =>
    /\ Len(RTMhead) >= Len(rtm)
    /\ \A c \in DOMAIN rtm : RTMhead[c] = rtm[c]
    /\ \A c \in DOMAIN RTMhead \ DOMAIN rtm : \A i \in DOMAIN RTMhead[c] :
         /\ RTMhead[c][i] = current_bv
         /\ <<c - 1, i - 1>> \in history[Len(history)].chunks

IdOf(k) == ishead[k].container_id
ShiftOf(k) == ishead[k].chunk_shift
EndOf(k) == ishead[k].chunk_shift + Len(rtm[ishead[k].container_id + 1])

\* The ranges follow one another, one for each container met.
RangesInOrder ==
  phase = "backup" =>
    /\ \A k \in DOMAIN ishead : IdOf(k) < Len(rtm) /\ EndOf(k) <= globle_shift
    /\ \A k \in DOMAIN ishead : \A j \in DOMAIN ishead :
         j < k => IdOf(j) # IdOf(k) /\ EndOf(j) <= ShiftOf(k)

\* A chunk found in an older container has a place in that container's range.
FoundPlaced ==
  phase = "backup" =>
    /\ \A chunk \in Found : /\ \E k \in DOMAIN ishead : IdOf(k) = chunk[1]
                            /\ chunk[2] \in 0 .. Len(rtm[chunk[1] + 1]) - 1
    /\ index_bit = {get_shift_by_id(chunk[1]) + chunk[2] : chunk \in Found}

\* Times are those of closed versions.
TimesOld == \A c \in DOMAIN rtm : \A i \in DOMAIN rtm[c] : rtm[c][i] < Len(cbt)

IInv ==
  /\ TypeOK /\ Counted /\ MapGrows /\ RangesInOrder /\ FoundPlaced
  /\ TimesOld /\ TimesFaithful

-----------------------------------------------------------------------------
(* Sequences.                                                              *)

\* A sequence is a function on 1 .. Len.
LEMMA SeqFacts ==
  ASSUME NEW S, NEW q \in Seq(S)
  PROVE  /\ Len(q) \in Nat /\ DOMAIN q = 1 .. Len(q)
         /\ q = <<>> <=> Len(q) = 0
         /\ \A k \in 1 .. Len(q) : q[k] \in S
  BY EmptySeq, LenProperties, ElementOfSeq

\* A function on 1 .. n is a sequence.
LEMMA FunctionIsSeq ==
  ASSUME NEW S, NEW n \in Nat, NEW f \in [1 .. n -> S]
  PROVE  f \in Seq(S) /\ Len(f) = n
  <1>1. f \in Seq(S)
    BY SeqDef
  <1> QED
    BY <1>1, LenProperties

\* What Append does to a sequence.
LEMMA AppendFacts ==
  ASSUME NEW S, NEW q \in Seq(S), NEW x \in S
  PROVE  /\ Append(q, x) \in Seq(S)
         /\ Len(Append(q, x)) = Len(q) + 1
         /\ DOMAIN Append(q, x) = 1 .. Len(q) + 1
         /\ Append(q, x)[Len(q) + 1] = x
         /\ \A k \in 1 .. Len(q) : Append(q, x)[k] = q[k]
  <1>1. /\ Append(q, x) \in Seq(S) /\ Len(Append(q, x)) = Len(q) + 1
        /\ Append(q, x)[Len(q) + 1] = x
        /\ \A k \in 1 .. Len(q) : Append(q, x)[k] = q[k]
    BY AppendProperties
  <1> QED
    BY <1>1, LenProperties

\* The shapes of the variables that are sequences.
LEMMA Shapes ==
  ASSUME TypeOK
  PROVE  /\ Len(ishead) \in Nat /\ DOMAIN ishead = 1 .. Len(ishead)
         /\ \A k \in DOMAIN ishead :
              ishead[k] \in [container_id : Nat, chunk_shift : Nat \ {0}]
         /\ Len(rtm) \in Nat /\ DOMAIN rtm = 1 .. Len(rtm)
         /\ \A c \in DOMAIN rtm :
              /\ rtm[c] \in Seq(Nat) /\ Len(rtm[c]) \in Nat
              /\ DOMAIN rtm[c] = 1 .. Len(rtm[c])
              /\ \A i \in DOMAIN rtm[c] : rtm[c][i] \in Nat
         /\ Len(RTMhead) \in Nat /\ DOMAIN RTMhead = 1 .. Len(RTMhead)
         /\ \A c \in DOMAIN RTMhead :
              /\ RTMhead[c] \in Seq(Nat) /\ Len(RTMhead[c]) \in Nat
              /\ DOMAIN RTMhead[c] = 1 .. Len(RTMhead[c])
              /\ \A i \in DOMAIN RTMhead[c] : RTMhead[c][i] \in Nat
         /\ Len(cbt) \in Nat /\ DOMAIN cbt = 1 .. Len(cbt)
         /\ (cbt = <<>> <=> Len(cbt) = 0)
         /\ \A k \in DOMAIN cbt : cbt[k] \in [bv : Nat, bits : SUBSET (Nat \ (0 .. 32))]
         /\ Len(history) \in Nat /\ DOMAIN history = 1 .. Len(history)
         /\ \A k \in DOMAIN history :
              history[k] \in [chunks : SUBSET (Nat \X Nat), start : Nat, last : SUBSET Nat]
  <1>1. /\ Len(ishead) \in Nat /\ DOMAIN ishead = 1 .. Len(ishead)
        /\ \A k \in DOMAIN ishead :
              ishead[k] \in [container_id : Nat, chunk_shift : Nat \ {0}]
    <2> DEFINE S == [container_id : Nat, chunk_shift : Nat \ {0}]
    <2>1. ishead \in Seq(S)
      BY DEF TypeOK
    <2> HIDE DEF S
    <2>2. /\ Len(ishead) \in Nat /\ DOMAIN ishead = 1 .. Len(ishead)
          /\ ishead = <<>> <=> Len(ishead) = 0
          /\ \A k \in DOMAIN ishead : ishead[k] \in S
      BY <2>1, SeqFacts
    <2> QED
      BY <2>2 DEF S
  <1>2. /\ Len(rtm) \in Nat /\ DOMAIN rtm = 1 .. Len(rtm)
        /\ \A c \in DOMAIN rtm : rtm[c] \in Seq(Nat)
    BY SeqFacts DEF TypeOK
  <1>3. /\ Len(RTMhead) \in Nat /\ DOMAIN RTMhead = 1 .. Len(RTMhead)
        /\ \A c \in DOMAIN RTMhead : RTMhead[c] \in Seq(Nat)
    BY SeqFacts DEF TypeOK
  <1>4. \A q \in Seq(Nat) : /\ Len(q) \in Nat /\ DOMAIN q = 1 .. Len(q)
                            /\ \A i \in DOMAIN q : q[i] \in Nat
    BY SeqFacts
  <1>5. /\ Len(cbt) \in Nat /\ DOMAIN cbt = 1 .. Len(cbt)
        /\ (cbt = <<>> <=> Len(cbt) = 0)
        /\ \A k \in DOMAIN cbt : cbt[k] \in [bv : Nat, bits : SUBSET (Nat \ (0 .. 32))]
    <2> DEFINE S == [bv : Nat, bits : SUBSET (Nat \ (0 .. 32))]
    <2>1. cbt \in Seq(S)
      BY DEF TypeOK
    <2> HIDE DEF S
    <2>2. /\ Len(cbt) \in Nat /\ DOMAIN cbt = 1 .. Len(cbt)
          /\ cbt = <<>> <=> Len(cbt) = 0
          /\ \A k \in DOMAIN cbt : cbt[k] \in S
      BY <2>1, SeqFacts
    <2> QED
      BY <2>2 DEF S
  <1>6. /\ Len(history) \in Nat /\ DOMAIN history = 1 .. Len(history)
        /\ \A k \in DOMAIN history :
             history[k] \in [chunks : SUBSET (Nat \X Nat), start : Nat, last : SUBSET Nat]
    <2> DEFINE S == [chunks : SUBSET (Nat \X Nat), start : Nat, last : SUBSET Nat]
    <2>1. history \in Seq(S)
      BY DEF TypeOK
    <2> HIDE DEF S
    <2>2. /\ Len(history) \in Nat /\ DOMAIN history = 1 .. Len(history)
          /\ history = <<>> <=> Len(history) = 0
          /\ \A k \in DOMAIN history : history[k] \in S
      BY <2>1, SeqFacts
    <2> QED
      BY <2>2 DEF S
  <1> QED
    BY <1>1, <1>2, <1>3, <1>4, <1>5, <1>6

\* Nothing is backed up yet.
LEMMA InitIInv == Init => IInv
  <1> SUFFICES ASSUME Init PROVE IInv
    OBVIOUS
  <1>1. \A S : <<>> \in Seq(S)
    BY EmptySeq
  <1>2. Len(<<>>) = 0 /\ DOMAIN <<>> = {}
    OBVIOUS
  <1>3. TypeOK
    BY <1>1 DEF Init, TypeOK
  <1>4. Counted
    BY <1>2 DEF Init, Counted
  <1>5. MapGrows /\ RangesInOrder /\ FoundPlaced
    BY DEF Init, MapGrows, RangesInOrder, FoundPlaced
  <1>6. TimesOld /\ TimesFaithful
    BY <1>2 DEF Init, TimesOld, TimesFaithful
  <1> QED
    BY <1>3, <1>4, <1>5, <1>6 DEF IInv

-----------------------------------------------------------------------------
(* Steps that write no file.                                               *)

\* What is said of the files still holds if the closed versions are the same.
LEMMA FilesKept ==
  ASSUME IInv, rtm' = rtm, cbt' = cbt,
         \A k \in 1 .. Len(cbt) : history'[k].chunks = history[k].chunks
                                  /\ history'[k].last = history[k].last
  PROVE  TimesOld' /\ TimesFaithful'
  <1>1. TimesOld'
    BY DEF IInv, TimesOld
  <1>2. ASSUME NEW c \in DOMAIN rtm, NEW i \in DOMAIN rtm[c], NEW v \in 0 .. Len(cbt) - 1
        PROVE  /\ <<c - 1, i - 1>> \in Referred(rtm[c][i])'
               /\ <<c - 1, i - 1>> \in Referred(v)' /\ Partly(c - 1, v)'
                    /\ c - 1 \notin history'[v + 1].last => rtm[c][i] >= v
    <2>1. rtm[c][i] \in Nat /\ rtm[c][i] < Len(cbt) /\ Len(cbt) \in Nat
      BY Shapes DEF IInv, TimesOld
    <2>2. Referred(rtm[c][i])' = Referred(rtm[c][i]) /\ Referred(v)' = Referred(v)
      BY <2>1 DEF Referred
    <2>3. Partly(c - 1, v)' = Partly(c - 1, v)
      BY DEF Partly
    <2> QED
      BY <2>1, <2>2, <2>3 DEF IInv, TimesFaithful
  <1> QED
    BY <1>1, <1>2 DEF TimesFaithful

\* A backup starts with the map as it is on disk.
LEMMA StartBackupIInv ==
  ASSUME IInv, StartBackup
  PROVE  IInv'
  <1> DEFINE version == [chunks |-> {}, start |-> container_count_start, last |-> {}]
  <1>1. RTMhead' = rtm
    <2>1. SubSeq(rtm, 1, Len(rtm)) = rtm
      BY SubSeqFull DEF IInv, TypeOK
    <2>2. current_bv = 0 => rtm = <<>>
      BY Shapes DEF IInv, Counted, current_bv
    <2> QED
      BY <2>1, <2>2 DEF StartBackup, read_RTM_from_disk, container_count_start
  <1>2. version \in [chunks : SUBSET (Nat \X Nat), start : Nat, last : SUBSET Nat]
    BY Shapes DEF IInv, container_count_start
  <1>3. /\ history' \in Seq([chunks : SUBSET (Nat \X Nat), start : Nat, last : SUBSET Nat])
        /\ Len(history') = Len(history) + 1
        /\ history'[Len(history')].chunks = {}
        /\ \A k \in 1 .. Len(history) : history'[k] = history[k]
    BY <1>2, AppendFacts DEF StartBackup, IInv, TypeOK
  <1>4. TypeOK'
    BY <1>1, <1>3, EmptySeq DEF StartBackup, IInv, TypeOK, collector
  <1>5. Counted'
    BY <1>3 DEF StartBackup, IInv, Counted, collector
  <1>6. MapGrows'
    BY <1>1, Shapes DEF StartBackup, IInv, MapGrows
  <1>7. ishead' = <<>> /\ DOMAIN ishead' = {}
    BY DEF StartBackup
  <1>8. RangesInOrder'
    BY <1>7 DEF RangesInOrder
  <1>9. Found' = {} /\ index_bit' = {}
    BY <1>3 DEF StartBackup, Found
  <1>10. FoundPlaced'
    BY <1>9 DEF FoundPlaced
  <1>11. Len(history) = Len(cbt) /\ rtm' = rtm /\ cbt' = cbt
    BY DEF StartBackup, IInv, Counted
  <1>12. TimesOld' /\ TimesFaithful'
    BY <1>3, <1>11, FilesKept
  <1> QED
    BY <1>4, <1>5, <1>6, <1>8, <1>10, <1>12 DEF IInv

-----------------------------------------------------------------------------
(* The ranges in index_bit.                                                *)

\* The place of a container that is listed.
LEMMA PlaceListed ==
  ASSUME NEW id, Listed(id)
  PROVE  Place(id) \in DOMAIN ishead /\ IdOf(Place(id)) = id
  BY DEF Listed, Place, IdOf

\* A container is listed once, so its place is known from any node of its.
LEMMA PlaceOf ==
  ASSUME TypeOK, RangesInOrder, phase = "backup", NEW k \in DOMAIN ishead
  PROVE  /\ Listed(IdOf(k)) /\ Place(IdOf(k)) = k
         /\ get_shift_by_id(IdOf(k)) = ShiftOf(k)
  <1>1. Listed(IdOf(k))
    BY DEF Listed, IdOf
  <1>2. Place(IdOf(k)) \in DOMAIN ishead /\ IdOf(Place(IdOf(k))) = IdOf(k)
    BY <1>1, PlaceListed
  <1>3. Place(IdOf(k)) = k
    BY <1>2, Shapes DEF RangesInOrder
  <1> QED
    BY <1>1, <1>3 DEF get_shift_by_id, ShiftOf

\* Places are numbers, and a range is as long as its container.
LEMMA RangeFacts ==
  ASSUME TypeOK, RangesInOrder, phase = "backup", NEW k \in DOMAIN ishead
  PROVE  /\ IdOf(k) \in Nat /\ ShiftOf(k) \in Nat \ {0} /\ EndOf(k) \in Nat
         /\ IdOf(k) + 1 \in DOMAIN rtm
         /\ Len(rtm[IdOf(k) + 1]) \in Nat
         /\ EndOf(k) = ShiftOf(k) + Len(rtm[IdOf(k) + 1])
         /\ EndOf(k) <= globle_shift
  <1>1. IdOf(k) \in Nat /\ ShiftOf(k) \in Nat \ {0} /\ IdOf(k) < Len(rtm)
    BY Shapes DEF IdOf, ShiftOf, RangesInOrder
  <1>2. IdOf(k) + 1 \in DOMAIN rtm
    BY <1>1, Shapes
  <1>3. Len(rtm[IdOf(k) + 1]) \in Nat
    BY <1>2, Shapes
  <1> QED
    BY <1>1, <1>2, <1>3 DEF EndOf, IdOf, ShiftOf, RangesInOrder

\* A position that lies in the ranges of two nodes shows that they are one.
LEMMA OneRange ==
  ASSUME TypeOK, RangesInOrder, phase = "backup",
         NEW j \in DOMAIN ishead, NEW k \in DOMAIN ishead, NEW x \in Int,
         ShiftOf(j) <= x, x < EndOf(j), ShiftOf(k) <= x, x < EndOf(k)
  PROVE  j = k
  <1>1. /\ ShiftOf(j) \in Nat /\ EndOf(j) \in Nat
        /\ ShiftOf(k) \in Nat /\ EndOf(k) \in Nat
    BY RangeFacts
  <1>2. ~(j < k) /\ ~(k < j)
    BY <1>1 DEF RangesInOrder
  <1> QED
    BY <1>2, Shapes

\* Ranges that follow one another do not overlap.
LEMMA BitsFromRanges == IInv => BitsFaithful
  <1> SUFFICES ASSUME IInv, phase = "backup"
               PROVE  /\ \A j, k \in DOMAIN ishead : j # k => Bits(j) \cap Bits(k) = {}
                      /\ index_bit = {get_shift_by_id(chunk[1]) + chunk[2] : chunk \in Found}
    BY DEF BitsFaithful
  <1>1. ASSUME NEW k \in DOMAIN ishead, NEW x \in Bits(k)
        PROVE  x \in Int /\ ShiftOf(k) <= x /\ x < EndOf(k)
    <2>1. PICK i \in 0 .. Len(rtm[IdOf(k) + 1]) - 1 : x = ShiftOf(k) + i
      BY <1>1 DEF Bits, IdOf, ShiftOf
    <2> QED
      BY <2>1, RangeFacts DEF IInv
  <1>2. \A j, k \in DOMAIN ishead : j # k => Bits(j) \cap Bits(k) = {}
    BY <1>1, OneRange DEF IInv
  <1> QED
    BY <1>2 DEF IInv, FoundPlaced

\* The version that the backup records its references with.
LEMMA OpenVersion ==
  ASSUME IInv, phase = "backup"
  PROVE  /\ Len(history) = Len(cbt) + 1 /\ Len(history) \in DOMAIN history
         /\ history[Len(history)].chunks \subseteq Nat \X Nat
         /\ Found \subseteq Nat \X Nat
  <1>1. Len(history) = Len(cbt) + 1 /\ Len(history) \in DOMAIN history
    BY Shapes DEF IInv, Counted
  <1>2. history[Len(history)] \in [chunks : SUBSET (Nat \X Nat), start : Nat, last : SUBSET Nat]
    BY <1>1, Shapes DEF IInv
  <1>3. history[Len(history)].chunks \subseteq Nat \X Nat
    BY <1>2
  <1> QED
    BY <1>1, <1>3 DEF Found

\* A set bit within a range stands for a chunk of that container.
LEMMA BitTraced ==
  ASSUME IInv, phase = "backup", NEW k \in DOMAIN ishead,
         NEW i \in 0 .. Len(rtm[IdOf(k) + 1]) - 1, ShiftOf(k) + i \in index_bit
  PROVE  <<IdOf(k), i>> \in Found
  <1>1. PICK chunk \in Found : ShiftOf(k) + i = get_shift_by_id(chunk[1]) + chunk[2]
    BY DEF IInv, FoundPlaced
  <1>2. chunk \in Nat \X Nat
    BY OpenVersion
  <1>3. PICK j \in DOMAIN ishead : IdOf(j) = chunk[1]
    BY DEF IInv, FoundPlaced
  <1>4. chunk[2] \in 0 .. Len(rtm[IdOf(j) + 1]) - 1
    BY <1>3 DEF IInv, FoundPlaced
  <1>5. ShiftOf(k) + i = ShiftOf(j) + chunk[2]
    BY <1>1, <1>3, PlaceOf DEF IInv
  <1>6. j = k
    <2>1. /\ ShiftOf(k) \in Nat /\ ShiftOf(j) \in Nat /\ ShiftOf(k) + i \in Int
          /\ EndOf(k) = ShiftOf(k) + Len(rtm[IdOf(k) + 1])
          /\ EndOf(j) = ShiftOf(j) + Len(rtm[IdOf(j) + 1])
          /\ Len(rtm[IdOf(k) + 1]) \in Nat /\ Len(rtm[IdOf(j) + 1]) \in Nat
      BY RangeFacts DEF IInv
    <2>2. /\ ShiftOf(k) <= ShiftOf(k) + i /\ ShiftOf(k) + i < EndOf(k)
          /\ ShiftOf(j) <= ShiftOf(k) + i /\ ShiftOf(k) + i < EndOf(j)
      BY <1>2, <1>4, <1>5, <2>1
    <2> QED
      BY <2>1, <2>2, OneRange DEF IInv
  <1>7. chunk[1] = IdOf(k) /\ chunk[2] = i
    BY <1>3, <1>4, <1>5, <1>6, RangeFacts DEF IInv
  <1> QED
    BY <1>2, <1>7

-----------------------------------------------------------------------------
(* A lookup.                                                               *)

\* The chunk is recorded with the open version, the closed ones stay.
LEMMA ReferFacts ==
  ASSUME IInv, phase = "backup", NEW chunks \in SUBSET (Nat \X Nat), Refer(chunks)
  PROVE  /\ history' \in Seq([chunks : SUBSET (Nat \X Nat), start : Nat, last : SUBSET Nat])
         /\ Len(history') = Len(history) /\ Len(history) = Len(cbt) + 1
         /\ history'[Len(history)].chunks = history[Len(history)].chunks \cup chunks
         /\ \A k \in 1 .. Len(cbt) : history'[k] = history[k]
  <1> DEFINE S == [chunks : SUBSET (Nat \X Nat), start : Nat, last : SUBSET Nat]
             n == Len(history)
             version == [history[n] EXCEPT !.chunks = @ \cup chunks]
  <1>1. n = Len(cbt) + 1 /\ n \in DOMAIN history /\ n \in Nat /\ Len(cbt) \in Nat
    BY Shapes DEF IInv, Counted
  <1>2. history[n] \in S
    BY <1>1, Shapes DEF IInv
  <1>3. version \in S /\ version.chunks = history[n].chunks \cup chunks
    BY <1>2
  <1>4. history' = [history EXCEPT ![n] = version]
    BY <1>1, Shapes DEF Refer, IInv
  <1>5. history \in Seq(S)
    BY DEF IInv, TypeOK
  <1> HIDE DEF S, version, n
  <1>6. /\ history' \in Seq(S) /\ Len(history') = Len(history)
        /\ history'[n] = version
        /\ \A k \in DOMAIN history : k # n => history'[k] = history[k]
    BY <1>1, <1>3, <1>4, <1>5, ExceptSeq
  <1>7. \A k \in 1 .. Len(cbt) : k \in DOMAIN history /\ k # n
    BY <1>1, Shapes DEF IInv, n
  <1> QED
    BY <1>1, <1>3, <1>6, <1>7 DEF S, n

\* A container that is listed already: only a bit is set.
LEMMA LookupListed ==
  ASSUME IInv, NEW id \in Nat, NEW position \in Nat, Lookup(id, position), Listed(id)
  PROVE  /\ ishead' = ishead /\ globle_shift' = globle_shift
         /\ index_bit' = index_bit \cup {get_shift_by_id(id)' + position}
         /\ get_shift_by_id(id)' \in Nat \ {0}
         /\ Listed(id)'
         /\ \A j : Listed(j) => Listed(j)' /\ get_shift_by_id(j)' = get_shift_by_id(j)
         /\ RangesInOrder'
  <1>1. /\ ishead' = ishead /\ globle_shift' = globle_shift /\ rtm' = rtm
        /\ phase = "backup" /\ phase' = phase
        /\ index_bit' = index_bit \cup {get_shift_by_id(id) + position}
    BY DEF Lookup, set_index_bit
  <1>2. \A j : /\ Listed(j)' = Listed(j)
               /\ get_shift_by_id(j)' = get_shift_by_id(j)
    BY <1>1 DEF Listed, get_shift_by_id, Place
  <1>3. get_shift_by_id(id) \in Nat \ {0}
    BY PlaceListed, Shapes DEF IInv, get_shift_by_id
  <1>4. RangesInOrder'
    BY <1>1 DEF IInv, RangesInOrder, IdOf, EndOf, ShiftOf
  <1> QED
    BY <1>1, <1>2, <1>3, <1>4

\* A container met first gets the range behind all others.
LEMMA LookupMet ==
  ASSUME IInv, NEW id \in Nat, NEW position \in Nat, Lookup(id, position), ~Listed(id)
  PROVE  /\ ishead' \in Seq([container_id : Nat, chunk_shift : Nat \ {0}])
         /\ globle_shift' \in Nat \ {0}
         /\ index_bit' = index_bit \cup {get_shift_by_id(id)' + position}
         /\ get_shift_by_id(id)' \in Nat \ {0}
         /\ Listed(id)'
         /\ \A j : Listed(j) => Listed(j)' /\ get_shift_by_id(j)' = get_shift_by_id(j)
         /\ RangesInOrder'
  <1> DEFINE S == [container_id : Nat, chunk_shift : Nat \ {0}]
             n == Len(ishead) + 1
             node == [container_id |-> id, chunk_shift |-> globle_shift]
  <1>1. /\ ishead' = Append(ishead, node)
        /\ globle_shift' = globle_shift + Len(rtm[id + 1])
        /\ index_bit' = index_bit \cup {globle_shift + position}
        /\ phase = "backup" /\ phase' = phase /\ rtm' = rtm /\ id < Len(rtm)
    BY DEF Lookup, set_index_bit, id_shift_AddEnd, container_count_start, files, collector
  <1>2. node \in S /\ ishead \in Seq(S) /\ globle_shift \in Nat \ {0}
    BY DEF IInv, TypeOK
  <1>3. /\ ishead' \in Seq(S) /\ DOMAIN ishead' = 1 .. n
        /\ ishead'[n] = node
        /\ \A k \in 1 .. n - 1 : ishead'[k] = ishead[k]
    <2> HIDE DEF S, node
    <2> QED
      BY <1>1, <1>2, AppendFacts, Shapes DEF IInv
  <1>4. n \in Nat \ {0} /\ DOMAIN ishead = 1 .. n - 1
    BY Shapes DEF IInv
  <1>5. Len(rtm[id + 1]) \in Nat
    BY <1>1, Shapes DEF IInv
  <1>6. globle_shift' \in Nat \ {0} /\ globle_shift <= globle_shift'
    BY <1>1, <1>2, <1>5
  <1>7. \A k \in DOMAIN ishead : IdOf(k) # id
    BY DEF Listed, IdOf
  <1>8. ASSUME NEW k \in 1 .. n
        PROVE  /\ k = n => /\ IdOf(k)' = id /\ ShiftOf(k)' = globle_shift
                           /\ EndOf(k)' = globle_shift'
               /\ k # n => /\ k \in DOMAIN ishead
                           /\ IdOf(k)' = IdOf(k) /\ ShiftOf(k)' = ShiftOf(k)
                           /\ EndOf(k)' = EndOf(k)
    BY <1>1, <1>3, <1>4 DEF IdOf, ShiftOf, EndOf
  <1>9. \A k \in DOMAIN ishead : EndOf(k) \in Nat /\ IdOf(k) < Len(rtm) /\ EndOf(k) <= globle_shift
    BY <1>1, RangeFacts DEF IInv, RangesInOrder
  <1>10. RangesInOrder'
    <2>1. ASSUME NEW k \in 1 .. n
          PROVE  IdOf(k)' < Len(rtm) /\ EndOf(k)' <= globle_shift'
      <3>1. CASE k = n
        BY <1>1, <1>2, <1>6, <1>8, <3>1
      <3>2. CASE k # n
        <4>1. k \in DOMAIN ishead /\ IdOf(k)' = IdOf(k) /\ EndOf(k)' = EndOf(k)
          BY <1>8, <3>2
        <4>2. EndOf(k) \in Nat /\ IdOf(k) < Len(rtm) /\ EndOf(k) <= globle_shift
          BY <1>9, <4>1
        <4> HIDE DEF S, node, n
        <4> QED
          BY <1>2, <1>6, <4>1, <4>2
      <3> QED
        BY <3>1, <3>2
    <2>2. ASSUME NEW k \in 1 .. n, NEW j \in 1 .. n, j < k
          PROVE  IdOf(j)' # IdOf(k)' /\ EndOf(j)' <= ShiftOf(k)'
      <3>1. j \in DOMAIN ishead
        BY <1>4, <2>2
      <3>2. CASE k = n
        <4>1. IdOf(j)' = IdOf(j) /\ EndOf(j)' = EndOf(j)
          BY <1>4, <1>8, <2>2, <3>2
        <4> QED
          BY <1>7, <1>8, <1>9, <3>1, <3>2, <4>1
      <3>3. CASE k # n
        <4>1. k \in DOMAIN ishead /\ IdOf(k)' = IdOf(k) /\ ShiftOf(k)' = ShiftOf(k)
          BY <1>8, <3>3
        <4>2. IdOf(j)' = IdOf(j) /\ EndOf(j)' = EndOf(j)
          BY <1>4, <1>8, <2>2, <3>3
        <4> QED
          BY <1>1, <2>2, <3>1, <4>1, <4>2 DEF IInv, RangesInOrder
      <3> QED
        BY <3>2, <3>3
    <2> QED
      BY <1>1, <1>3, <2>1, <2>2 DEF RangesInOrder
  <1>11. ASSUME NEW k \in 1 .. n, NEW j, j = ishead'[k].container_id
         PROVE  Listed(j)' /\ get_shift_by_id(j)' = ishead'[k].chunk_shift
    <2>1. Listed(j)'
      BY <1>3, <1>11 DEF Listed
    <2>2. Place(j)' \in 1 .. n /\ ishead'[Place(j)'].container_id = j
      BY <1>3, <2>1 DEF Listed, Place
    <2>3. Place(j)' = k
      <3>1. \A i \in 1 .. n : \A m \in 1 .. n :
              m < i => ishead'[m].container_id # ishead'[i].container_id
        BY <1>1, <1>3, <1>10 DEF RangesInOrder, IdOf
      <3> QED
        BY <1>4, <1>11, <2>2, <3>1
    <2> QED
      BY <2>1, <2>3 DEF get_shift_by_id
  <1>12. Listed(id)' /\ get_shift_by_id(id)' = globle_shift
    BY <1>3, <1>4, <1>11
  <1>13. ASSUME NEW j, Listed(j)
         PROVE  Listed(j)' /\ get_shift_by_id(j)' = get_shift_by_id(j)
    <2>1. Place(j) \in DOMAIN ishead /\ ishead[Place(j)].container_id = j
      BY <1>13, PlaceListed DEF IdOf
    <2>2. Place(j) \in 1 .. n /\ ishead'[Place(j)] = ishead[Place(j)]
      BY <1>3, <1>4, <2>1
    <2> QED
      BY <1>11, <2>1, <2>2 DEF get_shift_by_id
  <1> QED
    BY <1>1, <1>2, <1>3, <1>6, <1>10, <1>12, <1>13

LEMMA LookupIInv ==
  ASSUME IInv, NEW id \in Nat, NEW position \in Nat, Lookup(id, position)
  PROVE  IInv'
  <1>1. /\ phase = "backup" /\ phase' = phase /\ rtm' = rtm /\ cbt' = cbt
        /\ RTMhead' = RTMhead /\ UNCHANGED collector
        /\ id < Len(rtm) /\ position \in 0 .. Len(rtm[id + 1]) - 1
        /\ Refer({<<id, position>>})
    BY DEF Lookup, container_count_start, Chunks
  <1>2. /\ ishead' \in Seq([container_id : Nat, chunk_shift : Nat \ {0}])
        /\ globle_shift' \in Nat \ {0}
        /\ index_bit' = index_bit \cup {get_shift_by_id(id)' + position}
        /\ get_shift_by_id(id)' \in Nat \ {0}
        /\ Listed(id)'
        /\ \A j : Listed(j) => Listed(j)' /\ get_shift_by_id(j)' = get_shift_by_id(j)
        /\ RangesInOrder'
    <2>1. ishead \in Seq([container_id : Nat, chunk_shift : Nat \ {0}])
          /\ globle_shift \in Nat \ {0}
      BY DEF IInv, TypeOK
    <2>2. CASE Listed(id)
      BY <2>1, <2>2, LookupListed
    <2>3. CASE ~Listed(id)
      BY <2>3, LookupMet
    <2> QED
      BY <2>2, <2>3
  <1>3. /\ history' \in Seq([chunks : SUBSET (Nat \X Nat), start : Nat, last : SUBSET Nat])
        /\ Len(history') = Len(history) /\ Len(history) = Len(cbt) + 1
        /\ history'[Len(history)].chunks
             = history[Len(history)].chunks \cup {<<id, position>>}
        /\ \A k \in 1 .. Len(cbt) : history'[k] = history[k]
    BY <1>1, ReferFacts
  <1>4. TypeOK'
    <2>1. index_bit' \subseteq Nat \ {0}
      <3>1. get_shift_by_id(id)' + position \in Nat \ {0}
        BY <1>2
      <3> QED
        BY <1>2, <3>1 DEF IInv, TypeOK
    <2> QED
      BY <1>1, <1>2, <1>3, <2>1 DEF IInv, TypeOK, collector
  <1>5. Counted'
    BY <1>1, <1>3 DEF IInv, Counted, collector
  <1>6. MapGrows'
    BY <1>1, <1>3 DEF IInv, MapGrows, current_bv
  <1>7. Found' = Found \cup {<<id, position>>}
    BY <1>1, <1>3 DEF Found, container_count_start
  <1>8. \A chunk \in Found : Listed(chunk[1])
    BY <1>1 DEF IInv, FoundPlaced, Listed, IdOf
  <1>9. FoundPlaced'
    <2>1. ASSUME NEW chunk \in Found'
          PROVE  Listed(chunk[1])' /\ chunk[2] \in 0 .. Len(rtm[chunk[1] + 1]) - 1
      BY <1>1, <1>2, <1>7, <1>8 DEF IInv, FoundPlaced
    <2>2. \A chunk \in Found : get_shift_by_id(chunk[1])' = get_shift_by_id(chunk[1])
      BY <1>2, <1>8
    <2>3. index_bit = {get_shift_by_id(chunk[1]) + chunk[2] : chunk \in Found}
      BY <1>1 DEF IInv, FoundPlaced
    <2>4. index_bit' = {get_shift_by_id(chunk[1])' + chunk[2] : chunk \in Found'}
      <3>1. ASSUME NEW chunk \in Found'
            PROVE  get_shift_by_id(chunk[1])' + chunk[2] \in index_bit'
        <4>1. CASE chunk \in Found
          BY <1>2, <2>2, <2>3, <4>1
        <4>2. CASE chunk = <<id, position>>
          BY <1>2, <4>2
        <4> QED
          BY <1>7, <4>1, <4>2
      <3>2. ASSUME NEW x \in index_bit'
            PROVE  \E chunk \in Found' : x = get_shift_by_id(chunk[1])' + chunk[2]
        <4>1. CASE x \in index_bit
          <5>1. PICK chunk \in Found : x = get_shift_by_id(chunk[1]) + chunk[2]
            BY <2>3, <4>1
          <5> QED
            BY <1>7, <2>2, <5>1
        <4>2. CASE x = get_shift_by_id(id)' + position
          <5>1. /\ <<id, position>> \in Found'
                /\ <<id, position>>[1] = id /\ <<id, position>>[2] = position
            BY <1>7
          <5> QED
            BY <4>2, <5>1
        <4> QED
          BY <1>2, <4>1, <4>2
      <3> QED
        BY <3>1, <3>2
    <2> QED
      BY <1>1, <2>1, <2>4 DEF FoundPlaced, Listed, IdOf
  <1>10. TimesOld' /\ TimesFaithful'
    BY <1>1, <1>3, FilesKept
  <1> QED
    BY <1>2, <1>4, <1>5, <1>6, <1>9, <1>10 DEF IInv

-----------------------------------------------------------------------------
(* A new container.                                                        *)

LEMMA AppendContainerIInv ==
  ASSUME IInv, NEW n \in Sizes, AppendContainer(n)
  PROVE  IInv'
  <1> DEFINE entry == [i \in 1 .. n |-> current_bv]
             chunks == {Len(RTMhead)} \X (0 .. n - 1)
             m == Len(RTMhead) + 1
  <1>1. /\ phase = "backup" /\ phase' = phase /\ rtm' = rtm /\ cbt' = cbt
        /\ RTMhead' = Append(RTMhead, entry) /\ UNCHANGED collector
        /\ ishead' = ishead /\ globle_shift' = globle_shift /\ index_bit' = index_bit
        /\ Refer(chunks)
    BY DEF AppendContainer
  <1>2. n \in Nat /\ Len(RTMhead) \in Nat /\ Len(cbt) \in Nat /\ Len(rtm) \in Nat
        /\ Len(rtm) <= Len(RTMhead) /\ DOMAIN RTMhead = 1 .. Len(RTMhead)
        /\ DOMAIN rtm = 1 .. Len(rtm)
    BY <1>1, MapAssumption, Shapes DEF IInv, MapAssumption, MapGrows
  <1>3. entry \in Seq(Nat) /\ DOMAIN entry = 1 .. n /\ RTMhead \in Seq(Seq(Nat))
    <2>1. entry \in [1 .. n -> Nat]
      BY <1>2 DEF current_bv
    <2> HIDE DEF entry
    <2> QED
      BY <1>2, <2>1, FunctionIsSeq DEF IInv, TypeOK
  <1>4. /\ RTMhead' \in Seq(Seq(Nat)) /\ Len(RTMhead') = m /\ DOMAIN RTMhead' = 1 .. m
        /\ RTMhead'[m] = entry
        /\ \A k \in 1 .. Len(RTMhead) : RTMhead'[k] = RTMhead[k]
    <2> HIDE DEF entry
    <2> QED
      BY <1>1, <1>3, AppendFacts
  <1>5. chunks \in SUBSET (Nat \X Nat)
    BY <1>2
  <1>6. /\ history' \in Seq([chunks : SUBSET (Nat \X Nat), start : Nat, last : SUBSET Nat])
        /\ Len(history') = Len(history) /\ Len(history) = Len(cbt) + 1
        /\ history'[Len(history)].chunks = history[Len(history)].chunks \cup chunks
        /\ \A k \in 1 .. Len(cbt) : history'[k] = history[k]
    <2> HIDE DEF chunks
    <2> QED
      BY <1>1, <1>5, ReferFacts
  <1>7. TypeOK'
    BY <1>1, <1>4, <1>6 DEF IInv, TypeOK, collector
  <1>8. Counted'
    BY <1>1, <1>6 DEF IInv, Counted, collector
  <1>9. MapGrows'
    <2>1. Len(RTMhead') >= Len(rtm') /\ \A c \in DOMAIN rtm' : RTMhead'[c] = rtm'[c]
      BY <1>1, <1>2, <1>4 DEF IInv, MapGrows
    <2>2. ASSUME NEW c \in DOMAIN RTMhead' \ DOMAIN rtm, NEW i \in DOMAIN RTMhead'[c]
          PROVE  /\ RTMhead'[c][i] = Len(cbt)
                 /\ <<c - 1, i - 1>> \in history'[Len(history)].chunks
      <3>1. CASE c = m
        <4>1. i \in 1 .. n /\ RTMhead'[c][i] = Len(cbt)
          BY <1>3, <1>4, <2>2, <3>1 DEF current_bv
        <4>2. c - 1 = Len(RTMhead) /\ i - 1 \in 0 .. n - 1
          BY <1>2, <3>1, <4>1
        <4> QED
          BY <1>6, <4>1, <4>2
      <3>2. CASE c # m
        <4>1. c \in DOMAIN RTMhead \ DOMAIN rtm /\ RTMhead'[c] = RTMhead[c]
          BY <1>2, <1>4, <2>2, <3>2
        <4> QED
          BY <1>1, <1>6, <2>2, <4>1 DEF IInv, MapGrows, current_bv
      <3> QED
        BY <3>1, <3>2
    <2> QED
      BY <1>1, <1>6, <2>1, <2>2 DEF MapGrows, current_bv
  <1>10. RangesInOrder'
    BY <1>1 DEF IInv, RangesInOrder, IdOf, EndOf, ShiftOf
  <1>11. Found' = Found
    <2>1. \A chunk \in chunks : ~(chunk[1] < Len(rtm))
      BY <1>2
    <2> HIDE DEF chunks
    <2> QED
      BY <1>1, <1>6, <2>1 DEF Found, container_count_start
  <1>12. FoundPlaced'
    <2>1. \A id : get_shift_by_id(id)' = get_shift_by_id(id)
      BY <1>1 DEF get_shift_by_id, Place
    <2>2. \A k : IdOf(k)' = IdOf(k)
      BY <1>1 DEF IdOf
    <2> QED
      BY <1>1, <1>11, <2>1, <2>2 DEF IInv, FoundPlaced
  <1>13. TimesOld' /\ TimesFaithful'
    BY <1>1, <1>6, FilesKept
  <1> QED
    BY <1>7, <1>8, <1>9, <1>10, <1>12, <1>13 DEF IInv

-----------------------------------------------------------------------------
(* The end of a backup.                                                    *)

\* An attribute is one of three, and its bits tell which.
LEMMA AttributeFacts ==
  ASSUME NEW id \in Nat, NEW g
  PROVE  /\ get_attribute(id, g) \in {0, 1, 2}
         /\ AttributeBits(id * 2 + 33, get_attribute(id, g)) \subseteq {id * 2 + 33, id * 2 + 34}
         /\ AttributeBits(id * 2 + 33, 3) = {id * 2 + 34}
         /\ id * 2 + 33 \in AttributeBits(id * 2 + 33, get_attribute(id, g))
              /\ id * 2 + 34 \notin AttributeBits(id * 2 + 33, get_attribute(id, g))
              => get_attribute(id, g) = 1
  <1>1. get_attribute(id, g) \in {0, 1, 2}
    BY DEF get_attribute, check_index_bit_equal_one
  <1> QED
    BY <1>1 DEF AttributeBits

\* Each bit of the table is of one container.
LEMMA BitsOfTable ==
  ASSUME IInv, phase = "backup", NEW g
  PROVE  /\ UpdatedBits(g) \subseteq Nat \ (0 .. 32)
         /\ \A id \in Met :
              /\ id * 2 + 33 \in UpdatedBits(g) /\ id * 2 + 34 \notin UpdatedBits(g)
              => get_attribute(id, g) = 1
  <1>1. Met \subseteq Nat /\ New \subseteq Nat /\ \A id \in Met : id \notin New
    BY Shapes DEF IInv, Met, New, container_count_start
  <1>2. ASSUME NEW x \in UpdatedBits(g)
        PROVE  \/ \E id \in Met : x \in AttributeBits(id * 2 + 33, get_attribute(id, g))
               \/ \E id \in New : x \in AttributeBits(id * 2 + 33, 3)
    <2> DEFINE Old == {AttributeBits(id * 2 + 33, get_attribute(id, g)) : id \in Met}
               Added == {AttributeBits(id * 2 + 33, 3) : id \in New}
    <2>1. UpdatedBits(g) = (UNION Old) \cup (UNION Added)
      BY DEF UpdatedBits
    <2>2. ASSUME NEW B \in Old, x \in B
          PROVE  \E id \in Met : x \in AttributeBits(id * 2 + 33, get_attribute(id, g))
      BY <2>2
    <2>3. ASSUME NEW B \in Added, x \in B
          PROVE  \E id \in New : x \in AttributeBits(id * 2 + 33, 3)
      BY <2>3
    <2> HIDE DEF Old, Added
    <2>4. (\E B \in Old : x \in B) \/ (\E B \in Added : x \in B)
      BY <2>1
    <2> QED
      BY <2>2, <2>3, <2>4
  <1>3. UpdatedBits(g) \subseteq Nat \ (0 .. 32)
    <2>1. ASSUME NEW x \in UpdatedBits(g)
          PROVE  \E id \in Nat : x \in {id * 2 + 33, id * 2 + 34}
      BY <1>1, <1>2, AttributeFacts
    <2> QED
      BY <2>1
  <1>4. ASSUME NEW id \in Met, id * 2 + 33 \in UpdatedBits(g), id * 2 + 34 \notin UpdatedBits(g)
        PROVE  get_attribute(id, g) = 1
    <2>1. id * 2 + 33 \in AttributeBits(id * 2 + 33, get_attribute(id, g))
      <3>1. CASE \E j \in Met : id * 2 + 33 \in AttributeBits(j * 2 + 33, get_attribute(j, g))
        <4>1. PICK j \in Met : id * 2 + 33 \in AttributeBits(j * 2 + 33, get_attribute(j, g))
          BY <3>1
        <4>2. id * 2 + 33 \in {j * 2 + 33, j * 2 + 34}
          BY <1>1, <4>1, AttributeFacts
        <4>3. j = id
          BY <1>1, <4>2
        <4> QED
          BY <4>1, <4>3
      <3>2. CASE \E j \in New : id * 2 + 33 \in AttributeBits(j * 2 + 33, 3)
        BY <1>1, <3>2, AttributeFacts
      <3> QED
        BY <1>2, <1>4, <3>1, <3>2
    <2>2. id * 2 + 34 \notin AttributeBits(id * 2 + 33, get_attribute(id, g))
      BY <1>4 DEF UpdatedBits
    <2> QED
      BY <1>1, <2>1, <2>2, AttributeFacts
  <1> QED
    BY <1>3, <1>4

\* A time becomes that of this version for a new chunk and for one whose bit is
\* set, and stays as it is on disk otherwise.
LEMMA TimesOfMap ==
  ASSUME IInv, phase = "backup", NEW g
  PROVE  /\ UpdatedTimes(g) \in Seq(Seq(Nat))
         /\ Len(UpdatedTimes(g)) = Len(RTMhead)
         /\ \A c \in DOMAIN RTMhead : DOMAIN UpdatedTimes(g)[c] = DOMAIN RTMhead[c]
         /\ \A c \in DOMAIN RTMhead \ DOMAIN rtm : \A i \in DOMAIN RTMhead[c] :
              /\ UpdatedTimes(g)[c][i] = Len(cbt)
              /\ <<c - 1, i - 1>> \in history[Len(history)].chunks
         /\ \A c \in DOMAIN rtm : \A i \in DOMAIN RTMhead[c] :
              /\ RTMhead[c] = rtm[c]
              /\ \/ UpdatedTimes(g)[c][i] = rtm[c][i]
                 \/ /\ UpdatedTimes(g)[c][i] = Len(cbt)
                    /\ c - 1 \in Met
                    /\ get_shift_by_id(c - 1) + i - 1 \in index_bit
              /\ /\ c - 1 \in Met /\ get_attribute(c - 1, g) = 1
                 /\ i - 1 <= RangeEnd(c - 1, g) - get_shift_by_id(c - 1)
                 /\ get_shift_by_id(c - 1) + i - 1 \in index_bit
                 => UpdatedTimes(g)[c][i] = Len(cbt)
  <1> DEFINE U == UpdatedTimes(g)
  <1>1. /\ Len(RTMhead) \in Nat /\ DOMAIN RTMhead = 1 .. Len(RTMhead)
        /\ Len(rtm) \in Nat /\ DOMAIN rtm = 1 .. Len(rtm) /\ Len(rtm) <= Len(RTMhead)
        /\ Len(cbt) \in Nat
    BY Shapes DEF IInv, MapGrows
  <1>2. ASSUME NEW c \in DOMAIN RTMhead
        PROVE  /\ U[c] = IF c - 1 \in Met /\ get_attribute(c - 1, g) = 1
                           THEN update_reference_time_map(c - 1, g) ELSE RTMhead[c]
               /\ (c - 1) + 1 = c
    BY <1>1 DEF UpdatedTimes
  <1>3. ASSUME NEW c \in DOMAIN RTMhead
        PROVE  /\ DOMAIN U[c] = DOMAIN RTMhead[c]
               /\ \A i \in DOMAIN RTMhead[c] :
                    U[c][i] = IF /\ c - 1 \in Met /\ get_attribute(c - 1, g) = 1
                                 /\ i - 1 <= RangeEnd(c - 1, g) - get_shift_by_id(c - 1)
                                 /\ get_shift_by_id(c - 1) + i - 1 \in index_bit
                                THEN Len(cbt) ELSE RTMhead[c][i]
    <2>1. update_reference_time_map(c - 1, g)
            = [i \in DOMAIN RTMhead[c] |->
                 IF /\ i - 1 <= RangeEnd(c - 1, g) - get_shift_by_id(c - 1)
                    /\ get_shift_by_id(c - 1) + i - 1 \in index_bit
                   THEN Len(cbt) ELSE RTMhead[c][i]]
      BY <1>2, Zenon DEF update_reference_time_map, get_index_bit, current_bv
    <2> HIDE DEF U
    <2>2. CASE c - 1 \in Met /\ get_attribute(c - 1, g) = 1
      BY <1>2, <2>1, <2>2
    <2>3. CASE ~(c - 1 \in Met /\ get_attribute(c - 1, g) = 1)
      BY <1>2, <2>3
    <2> QED
      BY <2>2, <2>3
  <1>4. ASSUME NEW c \in DOMAIN RTMhead
        PROVE  U[c] \in Seq(Nat)
    <2>1. Len(RTMhead[c]) \in Nat /\ DOMAIN RTMhead[c] = 1 .. Len(RTMhead[c])
          /\ \A i \in DOMAIN RTMhead[c] : RTMhead[c][i] \in Nat
      BY Shapes DEF IInv
    <2>3. CASE c - 1 \in Met /\ get_attribute(c - 1, g) = 1
      <3>1. U[c] = [i \in DOMAIN RTMhead[c] |->
                      IF /\ i - 1 <= RangeEnd(c - 1, g) - get_shift_by_id(c - 1)
                         /\ get_shift_by_id(c - 1) + i - 1 \in index_bit
                        THEN Len(cbt) ELSE RTMhead[c][i]]
        BY <1>2, <2>3, Zenon DEF update_reference_time_map, get_index_bit, current_bv
      <3> HIDE DEF U
      <3>2. U[c] \in [1 .. Len(RTMhead[c]) -> Nat]
        BY <1>1, <2>1, <3>1
      <3> QED
        BY <2>1, <3>2, FunctionIsSeq
    <2>4. CASE ~(c - 1 \in Met /\ get_attribute(c - 1, g) = 1)
      BY <1>2, <2>4, Shapes DEF IInv
    <2> QED
      BY <2>3, <2>4
  <1>5. U \in Seq(Seq(Nat)) /\ Len(U) = Len(RTMhead)
    <2>1. U \in [1 .. Len(RTMhead) -> Seq(Nat)]
      BY <1>1, <1>4 DEF UpdatedTimes
    <2> HIDE DEF U
    <2> QED
      BY <1>1, <2>1, FunctionIsSeq
  <1>6. \A c \in DOMAIN RTMhead \ DOMAIN rtm : c - 1 \notin Met
    BY <1>1 DEF Met, container_count_start
  <1>7. ASSUME NEW c \in DOMAIN RTMhead \ DOMAIN rtm, NEW i \in DOMAIN RTMhead[c]
        PROVE  U[c][i] = Len(cbt) /\ <<c - 1, i - 1>> \in history[Len(history)].chunks
    BY <1>3, <1>6 DEF IInv, MapGrows, current_bv
  <1>8. \A c \in DOMAIN rtm : c \in DOMAIN RTMhead /\ RTMhead[c] = rtm[c]
    BY <1>1 DEF IInv, MapGrows
  <1> HIDE DEF U
  <1>9. ASSUME NEW c \in DOMAIN rtm, NEW i \in DOMAIN RTMhead[c]
        PROVE  /\ \/ U[c][i] = rtm[c][i]
                  \/ /\ U[c][i] = Len(cbt)
                     /\ c - 1 \in Met
                     /\ get_shift_by_id(c - 1) + i - 1 \in index_bit
               /\ /\ c - 1 \in Met /\ get_attribute(c - 1, g) = 1
                  /\ i - 1 <= RangeEnd(c - 1, g) - get_shift_by_id(c - 1)
                  /\ get_shift_by_id(c - 1) + i - 1 \in index_bit
                  => U[c][i] = Len(cbt)
    BY <1>3, <1>8
  <1> QED
    BY <1>3, <1>5, <1>7, <1>8, <1>9 DEF U

\* The closing version becomes the last one of the table and of the history.
LEMMA CloseFacts ==
  ASSUME IInv, NEW g, CloseBackup(g)
  PROVE  /\ phase = "backup" /\ phase' = "idle" /\ UNCHANGED collector
         /\ rtm' = UpdatedTimes(g) /\ RTMhead' = <<>>
         /\ ishead' = <<>> /\ globle_shift' = 1 /\ index_bit' = {}
         /\ cbt' \in Seq([bv : Nat, bits : SUBSET (Nat \ (0 .. 32))])
         /\ Len(cbt') = Len(cbt) + 1
         /\ cbt'[Len(cbt) + 1].bits = UpdatedBits(g)
         /\ \A k \in 1 .. Len(cbt) : cbt'[k] = cbt[k]
         /\ history' \in Seq([chunks : SUBSET (Nat \X Nat), start : Nat, last : SUBSET Nat])
         /\ Len(history') = Len(history)
         /\ history'[Len(history)].chunks = history[Len(history)].chunks
         /\ history'[Len(history)].last = LastMet
         /\ \A k \in 1 .. Len(cbt) : history'[k] = history[k]
  <1> DEFINE T == [bv : Nat, bits : SUBSET (Nat \ (0 .. 32))]
             H == [chunks : SUBSET (Nat \X Nat), start : Nat, last : SUBSET Nat]
             n == Len(history)
             table == [bv |-> current_bv, bits |-> UpdatedBits(g)]
             version == [history[n] EXCEPT !.last = LastMet]
  <1>1. /\ phase = "backup" /\ phase' = "idle" /\ UNCHANGED collector
        /\ rtm' = UpdatedTimes(g) /\ RTMhead' = <<>>
        /\ ishead' = <<>> /\ globle_shift' = 1 /\ index_bit' = {}
        /\ cbt' = Append(cbt, table)
        /\ history' = [history EXCEPT ![n].last = LastMet]
    BY DEF CloseBackup, write_container_bit_table_to_disk, write_RTM_to_disk,
       close_id_shift_and_hashtable
  <1>2. n = Len(cbt) + 1 /\ n \in DOMAIN history /\ Len(cbt) \in Nat
    BY <1>1, OpenVersion, Shapes DEF IInv
  <1>3. table \in T /\ table.bits = UpdatedBits(g)
    BY <1>1, <1>2, BitsOfTable DEF current_bv
  <1>4. /\ cbt' \in Seq(T) /\ Len(cbt') = Len(cbt) + 1 /\ cbt'[Len(cbt) + 1] = table
        /\ \A k \in 1 .. Len(cbt) : cbt'[k] = cbt[k]
    <2>1. cbt \in Seq(T)
      BY DEF IInv, TypeOK
    <2> HIDE DEF T, table
    <2> QED
      BY <1>1, <1>3, <2>1, AppendFacts
  <1>5. LastMet \subseteq Nat
    BY Shapes DEF IInv, LastMet
  <1>6. version \in H /\ version.chunks = history[n].chunks /\ version.last = LastMet
    <2>1. history[n] \in H
      BY <1>2, Shapes DEF IInv
    <2> QED
      BY <1>5, <2>1
  <1>7. /\ history' \in Seq(H) /\ Len(history') = n /\ history'[n] = version
        /\ \A k \in DOMAIN history : k # n => history'[k] = history[k]
    <2>1. history \in Seq(H)
      BY DEF IInv, TypeOK
    <2>2. history' = [history EXCEPT ![n] = version]
      BY <1>1, <1>2, Shapes DEF IInv
    <2> HIDE DEF H, version, n
    <2> QED
      BY <1>2, <1>6, <2>1, <2>2, ExceptSeq DEF n
  <1>8. \A k \in 1 .. Len(cbt) : k \in DOMAIN history /\ k # n
    BY <1>2, Shapes DEF IInv
  <1> QED
    BY <1>1, <1>3, <1>4, <1>6, <1>7, <1>8

\* A chunk of an old container that gets the time of this version was found.
LEMMA UpdatedWasFound ==
  ASSUME IInv, phase = "backup", NEW c \in DOMAIN rtm, NEW i \in DOMAIN rtm[c],
         c - 1 \in Met, get_shift_by_id(c - 1) + i - 1 \in index_bit
  PROVE  <<c - 1, i - 1>> \in Found
  <1> DEFINE k == Place(c - 1)
  <1>1. k \in DOMAIN ishead /\ IdOf(k) = c - 1 /\ get_shift_by_id(c - 1) = ShiftOf(k)
    BY PlaceListed DEF Met, get_shift_by_id, ShiftOf
  <1>2. c \in Nat /\ i \in Nat /\ (c - 1) + 1 = c /\ i - 1 \in 0 .. Len(rtm[c]) - 1
    BY Shapes DEF IInv
  <1> HIDE DEF k
  <1>3. ShiftOf(k) \in Nat
    BY <1>1, RangeFacts DEF IInv
  <1>4. ShiftOf(k) + (i - 1) \in index_bit /\ i - 1 \in 0 .. Len(rtm[IdOf(k) + 1]) - 1
    BY <1>1, <1>2, <1>3
  <1> QED
    BY <1>1, <1>4, BitTraced

\* The range of a container that is not the last one met ends behind its last
\* chunk, and a chunk of it that was found has its bit in it.
LEMMA FoundIsUpdated ==
  ASSUME IInv, phase = "backup", NEW g, NEW c \in DOMAIN rtm, NEW i \in DOMAIN rtm[c],
         <<c - 1, i - 1>> \in Found, c - 1 \notin LastMet
  PROVE  /\ c - 1 \in Met
         /\ i - 1 <= RangeEnd(c - 1, g) - get_shift_by_id(c - 1)
         /\ get_shift_by_id(c - 1) + i - 1 \in index_bit
  <1> DEFINE k == Place(c - 1)
  <1>1. c \in Nat /\ i \in Nat /\ (c - 1) + 1 = c /\ i <= Len(rtm[c]) /\ Len(rtm[c]) \in Nat
        /\ c - 1 \in 0 .. Len(rtm) - 1 /\ Len(ishead) \in Nat /\ DOMAIN ishead = 1 .. Len(ishead)
    BY Shapes DEF IInv
  <1>2. Listed(c - 1)
    BY DEF IInv, FoundPlaced, Listed, IdOf
  <1>3. k \in DOMAIN ishead /\ IdOf(k) = c - 1 /\ get_shift_by_id(c - 1) = ShiftOf(k)
    BY <1>2, PlaceListed DEF get_shift_by_id, ShiftOf
  <1>4. k < Len(ishead)
    <2>1. k # Len(ishead)
      BY <1>1, <1>3 DEF LastMet, IdOf
    <2> QED
      BY <1>1, <1>3, <2>1
  <1>5. RangeEnd(c - 1, g) = ShiftOf(k + 1) - 1
    BY <1>4 DEF RangeEnd, ShiftOf
  <1>6. c - 1 \in Met
    BY <1>1, <1>2 DEF Met, container_count_start
  <1>7. get_shift_by_id(c - 1) + (i - 1) \in index_bit
    BY DEF IInv, FoundPlaced
  <1> HIDE DEF k
  <1>8. /\ ShiftOf(k) \in Nat /\ EndOf(k) = ShiftOf(k) + Len(rtm[c])
        /\ k + 1 \in DOMAIN ishead /\ ShiftOf(k + 1) \in Nat /\ EndOf(k) <= ShiftOf(k + 1)
    <2>1. k + 1 \in DOMAIN ishead /\ k < k + 1
      BY <1>1, <1>3, <1>4
    <2> QED
      BY <1>1, <1>3, <2>1, RangeFacts DEF IInv, RangesInOrder
  <1>9. i - 1 <= RangeEnd(c - 1, g) - get_shift_by_id(c - 1)
    BY <1>1, <1>3, <1>5, <1>8
  <1>10. get_shift_by_id(c - 1) + i - 1 \in index_bit
    <2>1. ShiftOf(k) + (i - 1) = ShiftOf(k) + i - 1
      BY <1>1, <1>8
    <2> QED
      BY <1>3, <1>7, <2>1
  <1> QED
    BY <1>6, <1>9, <1>10

LEMMA CloseBackupIInv ==
  ASSUME IInv, NEW g \in Garbage, CloseBackup(g)
  PROVE  IInv'
  <1>1. /\ phase = "backup" /\ phase' = "idle" /\ UNCHANGED collector
        /\ rtm' = UpdatedTimes(g) /\ RTMhead' = <<>>
        /\ ishead' = <<>> /\ globle_shift' = 1 /\ index_bit' = {}
        /\ cbt' \in Seq([bv : Nat, bits : SUBSET (Nat \ (0 .. 32))])
        /\ Len(cbt') = Len(cbt) + 1
        /\ cbt'[Len(cbt) + 1].bits = UpdatedBits(g)
        /\ \A k \in 1 .. Len(cbt) : cbt'[k] = cbt[k]
        /\ history' \in Seq([chunks : SUBSET (Nat \X Nat), start : Nat, last : SUBSET Nat])
        /\ Len(history') = Len(history)
        /\ history'[Len(history)].chunks = history[Len(history)].chunks
        /\ history'[Len(history)].last = LastMet
        /\ \A k \in 1 .. Len(cbt) : history'[k] = history[k]
    BY CloseFacts
  <1>2. /\ Len(history) = Len(cbt) + 1 /\ Len(cbt) \in Nat
        /\ Len(rtm) \in Nat /\ DOMAIN rtm = 1 .. Len(rtm)
        /\ Len(RTMhead) \in Nat /\ DOMAIN RTMhead = 1 .. Len(RTMhead)
        /\ Len(rtm) <= Len(RTMhead)
    BY <1>1, OpenVersion, Shapes DEF IInv, MapGrows
  <1>3. /\ rtm' \in Seq(Seq(Nat)) /\ DOMAIN rtm' = DOMAIN RTMhead
        /\ \A c \in DOMAIN RTMhead : DOMAIN rtm'[c] = DOMAIN RTMhead[c]
    BY <1>1, <1>2, TimesOfMap, SeqFacts
  <1>4. TypeOK'
    BY <1>1, <1>3, EmptySeq DEF IInv, TypeOK, collector
  <1>5. Counted'
    <2>1. cbt' # <<>>
      BY <1>1, <1>2, <1>4, SeqFacts DEF TypeOK
    <2> QED
      BY <1>1, <1>2, <2>1 DEF IInv, Counted, collector
  <1>6. MapGrows' /\ RangesInOrder' /\ FoundPlaced'
    BY <1>1 DEF MapGrows, RangesInOrder, FoundPlaced
  <1>7. ASSUME NEW c \in DOMAIN rtm' \ DOMAIN rtm, NEW i \in DOMAIN rtm'[c]
        PROVE  rtm'[c][i] = Len(cbt) /\ <<c - 1, i - 1>> \in history[Len(history)].chunks
    BY <1>1, <1>3, TimesOfMap
  <1>8. ASSUME NEW c \in DOMAIN rtm, NEW i \in DOMAIN rtm'[c]
        PROVE  /\ i \in DOMAIN rtm[c] /\ rtm[c][i] \in Nat /\ rtm[c][i] < Len(cbt)
               /\ \/ rtm'[c][i] = rtm[c][i]
                  \/ /\ rtm'[c][i] = Len(cbt)
                     /\ <<c - 1, i - 1>> \in history[Len(history)].chunks
    <2>1. c \in DOMAIN RTMhead /\ i \in DOMAIN RTMhead[c]
      BY <1>2, <1>3
    <2>2. RTMhead[c] = rtm[c] /\ i \in DOMAIN rtm[c]
      BY <1>1, <2>1, TimesOfMap
    <2>3. rtm[c][i] \in Nat /\ rtm[c][i] < Len(cbt)
      BY <2>2, Shapes DEF IInv, TimesOld
    <2>4. \/ rtm'[c][i] = rtm[c][i]
          \/ /\ rtm'[c][i] = Len(cbt) /\ c - 1 \in Met
             /\ get_shift_by_id(c - 1) + i - 1 \in index_bit
      BY <1>1, <2>1, TimesOfMap
    <2>5. c - 1 \in Met /\ get_shift_by_id(c - 1) + i - 1 \in index_bit
            => <<c - 1, i - 1>> \in Found
      BY <1>1, <2>2, UpdatedWasFound
    <2> QED
      BY <2>2, <2>3, <2>4, <2>5 DEF Found
  <1>9. TimesOld'
    <2>1. ASSUME NEW c \in DOMAIN rtm', NEW i \in DOMAIN rtm'[c]
          PROVE  rtm'[c][i] < Len(cbt) + 1
      <3>1. CASE c \in DOMAIN rtm
        <4>1. /\ rtm[c][i] \in Nat /\ rtm[c][i] < Len(cbt)
              /\ rtm'[c][i] = rtm[c][i] \/ rtm'[c][i] = Len(cbt)
          BY <1>8, <3>1
        <4> QED
          BY <1>2, <4>1
      <3>2. CASE c \notin DOMAIN rtm
        <4>1. rtm'[c][i] = Len(cbt)
          BY <1>7, <3>2
        <4> QED
          BY <1>2, <4>1
      <3> QED
        BY <3>1, <3>2
    <2> QED
      BY <1>1, <2>1 DEF TimesOld
  <1>10. ASSUME NEW c \in DOMAIN rtm', NEW i \in DOMAIN rtm'[c]
         PROVE  <<c - 1, i - 1>> \in history'[rtm'[c][i] + 1].chunks
    <2>1. CASE rtm'[c][i] = Len(cbt) /\ <<c - 1, i - 1>> \in history[Len(history)].chunks
      BY <1>1, <1>2, <2>1
    <2>2. CASE c \in DOMAIN rtm /\ rtm'[c][i] = rtm[c][i]
      <3>1. i \in DOMAIN rtm[c] /\ rtm[c][i] \in Nat /\ rtm[c][i] < Len(cbt)
        BY <1>8, <2>2
      <3>2. rtm[c][i] \in 0 .. Len(cbt) - 1 /\ rtm[c][i] + 1 \in 1 .. Len(cbt)
        BY <1>2, <3>1
      <3>3. <<c - 1, i - 1>> \in history[rtm[c][i] + 1].chunks
        BY <2>2, <3>1, <3>2 DEF IInv, TimesFaithful, Referred
      <3> QED
        BY <1>1, <2>2, <3>2, <3>3
    <2>3. c \notin DOMAIN rtm \/ c \in DOMAIN rtm
      OBVIOUS
    <2> QED
      BY <1>7, <1>8, <2>1, <2>2, <2>3
  <1>11. ASSUME NEW c \in DOMAIN rtm', NEW i \in DOMAIN rtm'[c], NEW v \in 0 .. Len(cbt),
                <<c - 1, i - 1>> \in history'[v + 1].chunks,
                (c - 1) * 2 + 33 \in cbt'[v + 1].bits, (c - 1) * 2 + 34 \notin cbt'[v + 1].bits,
                c - 1 \notin history'[v + 1].last
         PROVE  rtm'[c][i] >= v
    <2>1. CASE c \notin DOMAIN rtm
      <3>1. rtm'[c][i] = Len(cbt)
        BY <1>7, <2>1
      <3> QED
        BY <1>2, <3>1
    <2>2. CASE c \in DOMAIN rtm /\ v < Len(cbt)
      <3>1. /\ i \in DOMAIN rtm[c] /\ rtm[c][i] \in Nat /\ rtm[c][i] < Len(cbt)
            /\ rtm'[c][i] = rtm[c][i] \/ rtm'[c][i] = Len(cbt)
        BY <1>8, <2>2
      <3>2. v \in 0 .. Len(cbt) - 1 /\ v + 1 \in 1 .. Len(cbt)
        BY <1>2, <2>2
      <3>3. rtm[c][i] >= v
        BY <1>1, <1>11, <2>2, <3>1, <3>2 DEF IInv, TimesFaithful, Referred, Partly
      <3> QED
        BY <1>2, <3>1, <3>2, <3>3
    <2>3. CASE c \in DOMAIN rtm /\ v = Len(cbt)
      <3>1. i \in DOMAIN rtm[c] /\ i \in DOMAIN RTMhead[c]
        BY <1>3, <1>8, <2>3
      <3>2. <<c - 1, i - 1>> \in Found
        <4>1. c - 1 < Len(rtm)
          BY <1>2, <2>3
        <4> QED
          BY <1>1, <1>2, <1>11, <2>3, <4>1 DEF Found, container_count_start
      <3>3. c - 1 \notin LastMet
        BY <1>1, <1>2, <1>11, <2>3
      <3>4. /\ c - 1 \in Met
            /\ i - 1 <= RangeEnd(c - 1, g) - get_shift_by_id(c - 1)
            /\ get_shift_by_id(c - 1) + i - 1 \in index_bit
        BY <1>1, <2>3, <3>1, <3>2, <3>3, FoundIsUpdated
      <3>5. get_attribute(c - 1, g) = 1
        BY <1>1, <1>11, <2>3, <3>4, BitsOfTable
      <3>6. UpdatedTimes(g)[c][i] = Len(cbt)
        <4> DEFINE T == UpdatedTimes(g)
                   A == get_attribute(c - 1, g)
                   R == RangeEnd(c - 1, g)
        <4>1. /\ c - 1 \in Met /\ A = 1
              /\ i - 1 <= R - get_shift_by_id(c - 1)
              /\ get_shift_by_id(c - 1) + i - 1 \in index_bit
              => T[c][i] = Len(cbt)
          BY <1>1, <2>3, <3>1, TimesOfMap
        <4> QED
          BY <3>4, <3>5, <4>1
      <3> QED
        BY <1>1, <1>2, <2>3, <3>6
    <2> QED
      BY <1>2, <2>1, <2>2, <2>3
  <1>12. TimesFaithful'
    <2>1. ASSUME NEW c \in DOMAIN rtm', NEW i \in DOMAIN rtm'[c], NEW v \in 0 .. Len(cbt') - 1
          PROVE  /\ <<c - 1, i - 1>> \in history'[rtm'[c][i] + 1].chunks
                 /\ /\ <<c - 1, i - 1>> \in history'[v + 1].chunks
                    /\ (c - 1) * 2 + 33 \in cbt'[v + 1].bits
                    /\ (c - 1) * 2 + 34 \notin cbt'[v + 1].bits
                    /\ c - 1 \notin history'[v + 1].last
                    => rtm'[c][i] >= v
      <3>1. v \in 0 .. Len(cbt)
        BY <1>1, <1>2
      <3> QED
        BY <1>10, <1>11, <3>1
    <2> QED
      BY <2>1 DEF TimesFaithful, Referred, Partly
  <1> QED
    BY <1>4, <1>5, <1>6, <1>9, <1>12 DEF IInv

-----------------------------------------------------------------------------
(* The collector.                                                          *)

\* The times that the collector brings up to date are times.
LEMMA UpdatedEntry ==
  ASSUME NEW entry \in Seq(Nat), NEW bv \in Nat
  PROVE  update_RTM_to_same_backupversion(entry, bv) \in Seq(Nat)
  <1>1. Len(entry) \in Nat /\ DOMAIN entry = 1 .. Len(entry)
        /\ \A i \in 1 .. Len(entry) : entry[i] \in Nat
    BY SeqFacts
  <1> DEFINE U == update_RTM_to_same_backupversion(entry, bv)
             Before(i) == \A s \in {j \in DOMAIN entry : entry[j] = bv} : i < s
  <1>2. U = [i \in DOMAIN entry |-> IF Before(i) THEN bv ELSE entry[i]]
    BY DEF update_RTM_to_same_backupversion
  <1> HIDE DEF U, Before
  <1>3. U \in [1 .. Len(entry) -> Nat]
    BY <1>1, <1>2
  <1>4. U \in Seq(Nat)
    BY <1>1, <1>3, FunctionIsSeq
  <1> QED
    BY <1>4 DEF U

\* Whatever the collector does to its own variables leaves the files faithful.
LEMMA CollectorIInv ==
  ASSUME IInv, phase # "backup", phase' \in {"idle", "gc", "count", "done"}, cbt # <<>>,
         UNCHANGED <<ishead, globle_shift, index_bit, files>>,
         RTMhead' \in Seq(Seq(Nat)), last' \in Nat \ {0}, pending' \subseteq Nat,
         counted' \subseteq Nat \X Nat, deleteversion' \in Nat
  PROVE  IInv'
  <1>1. TypeOK'
    BY DEF IInv, TypeOK, files
  <1>2. Counted'
    BY DEF IInv, Counted, files
  <1>3. MapGrows' /\ RangesInOrder' /\ FoundPlaced'
    BY DEF MapGrows, RangesInOrder, FoundPlaced
  <1>4. TimesOld' /\ TimesFaithful'
    BY FilesKept DEF files
  <1> QED
    BY <1>1, <1>2, <1>3, <1>4 DEF IInv

\* A table that the collector reads is one that a backup has written.
LEMMA NewestTable ==
  ASSUME TypeOK, cbt # <<>>, NEW times \in Nat \ {0}
  PROVE  get_newest_container_bit_table(times).bv \in Nat
  <1>1. (IF times > Len(cbt) THEN 1 ELSE Len(cbt) - times + 1) \in DOMAIN cbt
    BY Shapes
  <1>2. get_newest_container_bit_table(times)
          \in [bv : Nat, bits : SUBSET (Nat \ (0 .. 32))]
    BY <1>1, Shapes DEF get_newest_container_bit_table
  <1> QED
    BY <1>2

LEMMA ReadNewestIInv ==
  ASSUME IInv, NEW d \in 0 .. Len(cbt) - 1, get_real_reference_time_map(d)
  PROVE  IInv'
  <1> DEFINE newest == get_newest_container_bit_table(1)
             U == [c \in DOMAIN rtm |->
                     IF Full((c - 1) * 2 + 33, newest)
                       THEN update_RTM_to_same_backupversion(rtm[c], newest.bv)
                       ELSE rtm[c]]
  <1>1. SubSeq(rtm, 1, Len(rtm)) = rtm
    BY SubSeqFull DEF IInv, TypeOK
  <1>2. /\ phase = "idle" /\ phase' = "gc" /\ cbt # <<>> /\ deleteversion' = d
        /\ RTMhead' = U /\ pending' \subseteq 0 .. Len(rtm) - 1 /\ last' = 2
        /\ counted' = counted
        /\ UNCHANGED <<ishead, globle_shift, index_bit, files>>
    BY <1>1 DEF get_real_reference_time_map, read_RTM_from_disk_in_gc, get_container_bit_end
  <1>3. newest.bv \in Nat
    BY <1>2, NewestTable DEF IInv
  <1>4. Len(rtm) \in Nat /\ DOMAIN rtm = 1 .. Len(rtm) /\ Len(cbt) \in Nat
        /\ \A c \in DOMAIN rtm : rtm[c] \in Seq(Nat)
    BY Shapes DEF IInv
  <1>5. U \in Seq(Seq(Nat))
    <2>1. U \in [1 .. Len(rtm) -> Seq(Nat)]
      <3> HIDE DEF newest
      <3> QED
        BY <1>3, <1>4, UpdatedEntry
    <2> HIDE DEF U
    <2> QED
      BY <1>4, <2>1, FunctionIsSeq
  <1>6. pending' \subseteq Nat /\ deleteversion' \in Nat /\ counted' \subseteq Nat \X Nat
    BY <1>2, <1>4 DEF IInv, TypeOK
  <1> HIDE DEF U
  <1> QED
    BY <1>2, <1>5, <1>6, CollectorIInv

LEMMA ReadOlderIInv ==
  ASSUME IInv, check_last_container_bit_table
  PROVE  IInv'
  <1> DEFINE table == get_newest_container_bit_table(last)
             U == [c \in DOMAIN RTMhead |->
                     IF c - 1 \in pending /\ Full(c - 1, table)
                       THEN update_RTM_to_same_backupversion(RTMhead[c], table.bv)
                       ELSE RTMhead[c]]
  <1>1. /\ phase = "gc" /\ phase' \in {"count", "gc"}
        /\ RTMhead' = U /\ pending' \subseteq pending
        /\ last' = IF last > Len(cbt) THEN last ELSE last + 1
        /\ counted' = counted /\ deleteversion' = deleteversion
        /\ UNCHANGED <<ishead, globle_shift, index_bit, files>>
    BY DEF check_last_container_bit_table
  <1>2. cbt # <<>> /\ last \in Nat \ {0} /\ last' \in Nat \ {0}
    BY <1>1, Shapes DEF IInv, Counted, TypeOK
  <1>3. table.bv \in Nat
    BY <1>2, NewestTable DEF IInv
  <1>4. Len(RTMhead) \in Nat /\ DOMAIN RTMhead = 1 .. Len(RTMhead)
        /\ \A c \in DOMAIN RTMhead : RTMhead[c] \in Seq(Nat)
    BY Shapes DEF IInv
  <1>5. U \in Seq(Seq(Nat))
    <2>1. U \in [1 .. Len(RTMhead) -> Seq(Nat)]
      <3> HIDE DEF table
      <3> QED
        BY <1>3, <1>4, UpdatedEntry
    <2> HIDE DEF U
    <2> QED
      BY <1>4, <2>1, FunctionIsSeq
  <1>6. pending' \subseteq Nat /\ deleteversion' \in Nat /\ counted' \subseteq Nat \X Nat
    BY <1>1 DEF IInv, TypeOK
  <1> HIDE DEF U
  <1> QED
    BY <1>1, <1>2, <1>5, <1>6, CollectorIInv

LEMMA CountIInv ==
  ASSUME IInv, gc_reference_time_map_patch
  PROVE  IInv'
  <1>1. /\ phase = "count" /\ phase' = "done" /\ RTMhead' = <<>> /\ last' = last
        /\ pending' = pending /\ deleteversion' = deleteversion
        /\ UNCHANGED <<ishead, globle_shift, index_bit, files>>
        /\ counted' \subseteq UNION {Chunks(c - 1, RTMhead) : c \in DOMAIN RTMhead}
    BY DEF gc_reference_time_map_patch
  <1>2. ASSUME NEW c \in DOMAIN RTMhead
        PROVE  Chunks(c - 1, RTMhead) \subseteq Nat \X Nat
    <2>1. c \in Nat \ {0} /\ (c - 1) + 1 = c /\ Len(RTMhead[c]) \in Nat
      BY Shapes DEF IInv
    <2> QED
      BY <2>1 DEF Chunks
  <1>3. counted' \subseteq Nat \X Nat
    BY <1>1, <1>2
  <1>4. cbt # <<>> /\ last \in Nat \ {0} /\ RTMhead' \in Seq(Seq(Nat))
    BY <1>1, EmptySeq DEF IInv, Counted, TypeOK
  <1> QED
    BY <1>1, <1>3, <1>4, CollectorIInv DEF IInv, TypeOK

LEMMA EndCollectionIInv ==
  ASSUME IInv, EndCollection
  PROVE  IInv'
  <1>1. /\ phase = "done" /\ phase' = "idle" /\ RTMhead' = RTMhead /\ last' = 1
        /\ pending' = pending /\ counted' = {} /\ deleteversion' = 0
        /\ UNCHANGED <<ishead, globle_shift, index_bit, files>>
    BY DEF EndCollection
  <1>2. cbt # <<>> /\ RTMhead' \in Seq(Seq(Nat)) /\ pending' \subseteq Nat
    BY <1>1 DEF IInv, Counted, TypeOK
  <1> QED
    BY <1>1, <1>2, CollectorIInv

-----------------------------------------------------------------------------
(* The theorems.                                                           *)

LEMMA NextIInv == IInv /\ [Next]_vars => IInv'
  <1> SUFFICES ASSUME IInv, [Next]_vars PROVE IInv'
    OBVIOUS
  <1>1. CASE StartBackup
    BY <1>1, StartBackupIInv
  <1>2. CASE \E c \in DOMAIN rtm : \E i \in DOMAIN rtm[c] : Lookup(c - 1, i - 1)
    <2>1. PICK c \in DOMAIN rtm : \E i \in DOMAIN rtm[c] : Lookup(c - 1, i - 1)
      BY <1>2
    <2>2. PICK i \in DOMAIN rtm[c] : Lookup(c - 1, i - 1)
      BY <2>1
    <2>3. c - 1 \in Nat /\ i - 1 \in Nat
      BY Shapes DEF IInv
    <2> QED
      BY <2>2, <2>3, LookupIInv
  <1>3. CASE \E n \in Sizes : AppendContainer(n)
    BY <1>3, AppendContainerIInv
  <1>4. CASE \E g \in Garbage : CloseBackup(g)
    BY <1>4, CloseBackupIInv
  <1>5. CASE \E d \in 0 .. Len(cbt) - 1 : get_real_reference_time_map(d)
    BY <1>5, ReadNewestIInv
  <1>6. CASE check_last_container_bit_table
    BY <1>6, ReadOlderIInv
  <1>7. CASE gc_reference_time_map_patch
    BY <1>7, CountIInv
  <1>8. CASE EndCollection
    BY <1>8, EndCollectionIInv
  <1>9. CASE UNCHANGED vars
    <2>1. /\ TypeOK' = TypeOK /\ Counted' = Counted /\ MapGrows' = MapGrows
          /\ RangesInOrder' = RangesInOrder /\ TimesOld' = TimesOld
      BY <1>9 DEF vars, TypeOK, Counted, MapGrows, current_bv, RangesInOrder, IdOf,
         ShiftOf, EndOf, TimesOld
    <2>2. FoundPlaced' = FoundPlaced
      BY <1>9 DEF vars, FoundPlaced, Found, IdOf, get_shift_by_id, Place,
         container_count_start
    <2>3. TimesFaithful' = TimesFaithful
      BY <1>9 DEF vars, TimesFaithful, Referred, Partly
    <2> QED
      BY <2>1, <2>2, <2>3 DEF IInv
  <1> QED
    BY <1>1, <1>2, <1>3, <1>4, <1>5, <1>6, <1>7, <1>8, <1>9 DEF Next

\* The inductive invariant holds of every backup and collection.
THEOREM Invariant == Spec => []IInv
  BY InitIInv, NextIInv, PTL DEF Spec

\* The lists, files and counters are always well-formed: ids and shifts are
\* numbers, no bit of a table falls in its version, the collector reads a table
\* that exists.
THEOREM TypeCorrect == Spec => []TypeOK
  <1>1. IInv => TypeOK
    BY DEF IInv
  <1> QED
    BY <1>1, Invariant, PTL

\* Whatever the sizes of the containers and the order in which a backup meets
\* them, the bits set in index_bit are those of the chunks it found in older
\* containers, and no bit belongs to two containers.
THEOREM BitsAlwaysFaithful == Spec => []BitsFaithful
  BY Invariant, BitsFromRanges, PTL

\* The map on disk never names a version that does not refer to the chunk, and
\* misses no later reference that the table of its version calls partial, but
\* for the last container that was met.
THEOREM TimesAlwaysFaithful == Spec => []TimesFaithful
  <1>1. IInv => TimesFaithful
    BY DEF IInv
  <1> QED
    BY <1>1, Invariant, PTL

-----------------------------------------------------------------------------
(* The attributes and the collector.  That goes beyond the times: the      *)
(* ranges of the containers must leave no gap, since the range of each     *)
(* ends where that of the next one starts, and the tables must be compared *)
(* with the times in both directions.                                      *)

\* The ranges of the containers met leave no gap between them.
NoGaps ==
  phase = "backup" =>
    \A k \in DOMAIN ishead :
      EndOf(k) = IF k < Len(ishead) THEN ShiftOf(k + 1) ELSE globle_shift

\* Every container has a chunk.
NoneEmpty ==
  /\ \A c \in DOMAIN rtm : Len(rtm[c]) > 0
  /\ phase = "backup" => \A c \in DOMAIN RTMhead : Len(RTMhead[c]) > 0

\* The open version knows where its containers start, and refers to containers
\* of the map only.
OpenFits ==
  phase = "backup" =>
    /\ history[Len(history)].start = Len(rtm)
    /\ \A chunk \in history[Len(history)].chunks : chunk[1] < Len(RTMhead)

\* What a closed version and its table say is of containers that were there.
ClosedFits ==
  \A v \in 0 .. Len(cbt) - 1 :
    /\ cbt[v + 1].bv = v
    /\ history[v + 1].start <= Len(rtm)
    /\ \A chunk \in Referred(v) : chunk[1] < Len(rtm)
    /\ \A id \in Nat : id >= Len(rtm) =>
         id * 2 + 33 \notin cbt[v + 1].bits /\ id * 2 + 34 \notin cbt[v + 1].bits

\* The times of the containers that are new in the newest version are its own,
\* those of a container it found as a whole are older.
Newest == Len(cbt) - 1
NewestTimes ==
  cbt # <<>> =>
    \A c \in DOMAIN rtm : \A i \in DOMAIN rtm[c] :
      /\ c - 1 >= history[Newest + 1].start =>
           /\ rtm[c][i] = Newest
           /\ (c - 1) * 2 + 34 \in cbt[Newest + 1].bits
      /\ Full((c - 1) * 2 + 33, cbt[Newest + 1]) => rtm[c][i] < Newest

\* The chunks that the collector must spare, but for the gaps it has.
Needed(c, i) ==
  /\ <<c - 1, i - 1>> \in Referred(Newest)
  /\ c - 1 \notin history[Newest + 1].last /\ i # Len(rtm[c])

\* While the collector brings its map up to date, what is needed has the time of
\* the newest version, and the containers that wait for an older table have no
\* attribute in the newest one.
Collected ==
  phase \in {"gc", "count"} =>
    /\ DOMAIN RTMhead = DOMAIN rtm
    /\ \A c \in DOMAIN rtm :
         /\ DOMAIN RTMhead[c] = DOMAIN rtm[c]
         /\ \A i \in DOMAIN rtm[c] : Needed(c, i) => RTMhead[c][i] >= Newest
    /\ \A id \in pending : None(id * 2 + 33, cbt[Newest + 1])

\* The invariant that every step preserves, beside that of the map.
JInv ==
  /\ NoGaps /\ NoneEmpty /\ OpenFits /\ ClosedFits /\ NewestTimes
  /\ AttributesButLast /\ Collected /\ GcSparesNewest

-----------------------------------------------------------------------------
(* Steps that write no file.                                               *)

\* The files and what a new container needs of them.
FilesHold == ClosedFits /\ NewestTimes /\ AttributesButLast

\* What AttributesButLast says of one version.
TruthfulButLast(v, id) == Truthful(v, id, Positions(id) \ {Len(rtm[id + 1]) - 1})
ButLast(v) ==
  /\ \A id \in OldContainers(v) : TruthfulButLast(v, id)
  /\ \A id \in 0 .. Len(rtm) - 1 :
       (id * 2 + 33 \notin cbt[v + 1].bits /\ id * 2 + 34 \in cbt[v + 1].bits)
         <=> <<id, 0>> \in Referred(v) /\ id >= history[v + 1].start

\* It is said of each.
LEMMA AttributesOfEach ==
  /\ AttributesButLast <=> \A v \in 0 .. Len(cbt) - 1 : ButLast(v)
  /\ AttributesButLast' <=> \A v \in 0 .. Len(cbt') - 1 : ButLast(v)'
  BY DEF AttributesButLast, ButLast, TruthfulButLast

\* Before the first backup there is nothing to collect.
LEMMA InitJInv == Init => JInv
  <1> SUFFICES ASSUME Init PROVE JInv
    OBVIOUS
  <1>1. Len(<<>>) = 0 /\ DOMAIN <<>> = {}
    OBVIOUS
  <1>2. /\ phase = "idle" /\ rtm = <<>> /\ cbt = <<>>
    BY DEF Init
  <1>3. NoGaps /\ OpenFits /\ Collected /\ GcSparesNewest
    BY <1>2 DEF NoGaps, OpenFits, Collected, GcSparesNewest
  <1>4. NoneEmpty /\ ClosedFits /\ NewestTimes /\ AttributesButLast
    BY <1>1, <1>2 DEF NoneEmpty, ClosedFits, NewestTimes, AttributesButLast
  <1> QED
    BY <1>3, <1>4 DEF JInv

\* A container is named from 0, its entry from 1.
LEMMA EntryOf ==
  ASSUME TypeOK
  PROVE  /\ \A c \in DOMAIN rtm : c - 1 \in 0 .. Len(rtm) - 1 /\ (c - 1) + 1 = c
         /\ \A id \in 0 .. Len(rtm) - 1 : id + 1 \in DOMAIN rtm /\ (id + 1) - 1 = id
         /\ Len(rtm) \in Nat /\ Len(cbt) \in Nat
         /\ (cbt # <<>> <=> Len(cbt) > 0)
  BY Shapes

\* What is said of the files still holds if the closed versions are the same.
LEMMA FilesHoldOn ==
  ASSUME IInv, JInv, rtm' = rtm, cbt' = cbt,
         \A k \in 1 .. Len(cbt) : history'[k] = history[k]
  PROVE  FilesHold'
  <1>1. Len(cbt) \in Nat /\ (cbt # <<>> <=> Len(cbt) > 0)
    BY EntryOf DEF IInv
  <1>2. \A v \in 0 .. Len(cbt) - 1 : history'[v + 1] = history[v + 1]
    BY <1>1
  <1>3. ClosedFits'
    BY <1>2 DEF JInv, ClosedFits, Referred
  <1>4. NewestTimes'
    <2>1. cbt # <<>> => Newest \in 0 .. Len(cbt) - 1 /\ Newest' = Newest
      BY <1>1 DEF Newest
    <2>2. cbt # <<>> => history'[Newest + 1] = history[Newest + 1]
      BY <1>2, <2>1
    <2>3. NewestTimes
      BY DEF JInv
    <2>4. \A n : \A t : Full(n, t)' = Full(n, t)
      BY DEF Full, get_CBT_array
    <2> QED
      BY <2>1, <2>2, <2>3, <2>4 DEF NewestTimes
  <1>5. AttributesButLast'
    <2>1. ASSUME NEW v \in 0 .. Len(cbt) - 1
          PROVE  ButLast(v)'
      <3>1. history'[v + 1] = history[v + 1]
        BY <1>2
      <3>2. /\ \A n, table : None(n, table)' = None(n, table)
            /\ \A n, table : Full(n, table)' = Full(n, table)
        BY DEF None, Full, get_CBT_array
      <3>3. ASSUME NEW id
            PROVE  /\ Partly(id, v)' = Partly(id, v)
                   /\ TruthfulButLast(v, id)' = TruthfulButLast(v, id)
        BY <3>1, <3>2 DEF Partly, TruthfulButLast, Truthful, Positions, Referred
      <3>4. OldContainers(v)' = OldContainers(v) /\ Referred(v)' = Referred(v)
        BY <3>1 DEF OldContainers, Referred
      <3>5. ButLast(v)
        BY AttributesOfEach DEF JInv
      <3> QED
        BY <3>1, <3>3, <3>4, <3>5 DEF ButLast
    <2> QED
      BY <2>1, AttributesOfEach
  <1> QED
    BY <1>3, <1>4, <1>5 DEF FilesHold

\* A backup starts with the map on disk, in which no container is empty.
LEMMA StartBackupJInv ==
  ASSUME IInv, JInv, StartBackup
  PROVE  JInv'
  <1> DEFINE version == [chunks |-> {}, start |-> container_count_start, last |-> {}]
             H == [chunks : SUBSET (Nat \X Nat), start : Nat, last : SUBSET Nat]
  <1>1. /\ phase = "idle" /\ phase' = "backup" /\ rtm' = rtm /\ cbt' = cbt
        /\ ishead' = <<>> /\ history' = Append(history, version)
    BY DEF StartBackup
  <1>2. RTMhead' = rtm
    <2>1. SubSeq(rtm, 1, Len(rtm)) = rtm
      BY SubSeqFull DEF IInv, TypeOK
    <2>2. current_bv = 0 => rtm = <<>>
      BY Shapes DEF IInv, Counted, current_bv
    <2> QED
      BY <2>1, <2>2 DEF StartBackup, read_RTM_from_disk, container_count_start
  <1>3. /\ Len(history') = Len(history) + 1
        /\ history'[Len(history')] = version
        /\ \A k \in 1 .. Len(history) : history'[k] = history[k]
    <2>1. version \in H /\ history \in Seq(H)
      BY Shapes DEF IInv, TypeOK, container_count_start
    <2> HIDE DEF version, H
    <2> QED
      BY <1>1, <2>1, AppendFacts
  <1>4. Len(history) = Len(cbt)
    BY <1>1 DEF IInv, Counted
  <1>5. FilesHold'
    BY <1>1, <1>3, <1>4, FilesHoldOn
  <1>6. NoGaps' /\ Collected' /\ GcSparesNewest'
    BY <1>1 DEF NoGaps, Collected, GcSparesNewest
  <1>7. NoneEmpty'
    BY <1>1, <1>2 DEF JInv, NoneEmpty
  <1>8. OpenFits'
    BY <1>1, <1>3 DEF OpenFits, container_count_start
  <1> QED
    BY <1>5, <1>6, <1>7, <1>8 DEF JInv, FilesHold

-----------------------------------------------------------------------------
(* Steps of a backup.                                                      *)

\* What the open version refers to grows, and its start stays.
LEMMA ReferKeeps ==
  ASSUME IInv, JInv, phase = "backup", phase' = "backup", rtm' = rtm, cbt' = cbt,
         Len(RTMhead) <= Len(RTMhead'), NEW chunks \in SUBSET (Nat \X Nat), Refer(chunks),
         Len(RTMhead') \in Nat, \A chunk \in chunks : chunk[1] < Len(RTMhead')
  PROVE  OpenFits' /\ FilesHold'
  <1> DEFINE n == Len(history)
  <1>1. /\ Len(history') = n /\ n = Len(cbt) + 1
        /\ history'[n].chunks = history[n].chunks \cup chunks
        /\ \A k \in 1 .. Len(cbt) : history'[k] = history[k]
    BY ReferFacts
  <1>2. n \in DOMAIN history /\ history[n].chunks \subseteq Nat \X Nat
    BY OpenVersion
  <1>3. history'[n].start = history[n].start
    BY <1>2, Shapes DEF Refer, IInv
  <1>4. ASSUME NEW chunk \in history'[n].chunks
        PROVE  chunk[1] < Len(RTMhead')
    <2>1. CASE chunk \in chunks
      BY <2>1
    <2>2. CASE chunk \in history[n].chunks
      <3>1. chunk[1] < Len(RTMhead) /\ chunk[1] \in Nat /\ Len(RTMhead) \in Nat
        BY <1>2, <2>2, Shapes DEF IInv, JInv, OpenFits
      <3> QED
        BY <3>1
    <2> QED
      BY <1>1, <2>1, <2>2
  <1>5. history'[n].start = Len(rtm)
    BY <1>3 DEF JInv, OpenFits
  <1>6. OpenFits'
    BY <1>1, <1>4, <1>5 DEF OpenFits
  <1> QED
    BY <1>1, <1>6, FilesHoldOn

\* The range of a container that is met first starts where the last one ends.
LEMMA LookupNoGaps ==
  ASSUME IInv, JInv, NEW id \in Nat, NEW position \in Nat, Lookup(id, position)
  PROVE  NoGaps'
  <1>1. phase = "backup" /\ rtm' = rtm /\ id < Len(rtm)
    BY DEF Lookup, container_count_start
  <1>2. CASE Listed(id)
    <2>1. ishead' = ishead /\ globle_shift' = globle_shift
      BY <1>2 DEF Lookup
    <2>2. \A k : EndOf(k)' = EndOf(k) /\ ShiftOf(k)' = ShiftOf(k)
      BY <1>1, <2>1 DEF EndOf, ShiftOf
    <2> QED
      BY <1>1, <2>1, <2>2 DEF JInv, NoGaps
  <1>3. CASE ~Listed(id)
    <2> DEFINE S == [container_id : Nat, chunk_shift : Nat \ {0}]
               node == [container_id |-> id, chunk_shift |-> globle_shift]
               n == Len(ishead)
    <2>1. /\ ishead' = Append(ishead, node)
          /\ globle_shift' = globle_shift + Len(rtm[id + 1])
      BY <1>3 DEF Lookup, id_shift_AddEnd
    <2>2. n \in Nat /\ DOMAIN ishead = 1 .. n
      BY Shapes DEF IInv
    <2>3. /\ Len(ishead') = n + 1 /\ DOMAIN ishead' = 1 .. n + 1
          /\ ishead'[n + 1] = node
          /\ \A k \in 1 .. n : ishead'[k] = ishead[k]
      <3>1. node \in S /\ ishead \in Seq(S)
        BY DEF IInv, TypeOK
      <3> HIDE DEF S, node
      <3> QED
        BY <2>1, <3>1, AppendFacts
    <2>4. \A k : k = n + 1 => EndOf(k)' = globle_shift' /\ ShiftOf(k)' = globle_shift
      BY <1>1, <2>1, <2>3 DEF EndOf, ShiftOf
    <2>5. \A k \in 1 .. n : EndOf(k)' = EndOf(k) /\ ShiftOf(k)' = ShiftOf(k)
      BY <1>1, <2>3 DEF EndOf, ShiftOf
    <2>6. \A k \in 1 .. n : EndOf(k) = IF k < n THEN ShiftOf(k + 1) ELSE globle_shift
      BY <1>1, <2>2 DEF JInv, NoGaps
    <2> HIDE DEF node, n
    <2>7. ASSUME NEW k \in 1 .. n + 1
          PROVE  /\ k = n + 1 => EndOf(k)' = globle_shift'
                 /\ k # n + 1 => EndOf(k)' = ShiftOf(k + 1)'
      <3>1. CASE k = n + 1
        BY <2>2, <2>4, <3>1
      <3>2. CASE k = n
        BY <2>2, <2>4, <2>5, <2>6, <2>7, <3>2
      <3>3. CASE k < n
        <4>1. k \in 1 .. n /\ k + 1 \in 1 .. n
          BY <2>2, <2>7, <3>3
        <4> QED
          BY <2>2, <2>5, <2>6, <3>3, <4>1
      <3> QED
        BY <2>2, <2>7, <3>1, <3>2, <3>3
    <2> QED
      BY <2>3, <2>7 DEF NoGaps, n
  <1> QED
    BY <1>2, <1>3

\* A lookup refers to a chunk of an old container.
LEMMA LookupJInv ==
  ASSUME IInv, JInv, NEW id \in Nat, NEW position \in Nat, Lookup(id, position)
  PROVE  JInv'
  <1>1. /\ phase = "backup" /\ phase' = "backup" /\ rtm' = rtm /\ cbt' = cbt
        /\ RTMhead' = RTMhead /\ id < Len(rtm) /\ Refer({<<id, position>>})
    BY DEF Lookup, container_count_start
  <1>2. Len(RTMhead) \in Nat /\ Len(rtm) \in Nat /\ Len(rtm) <= Len(RTMhead)
    BY <1>1, Shapes DEF IInv, MapGrows
  <1>3. OpenFits' /\ FilesHold'
    <2> DEFINE chunks == {<<id, position>>}
    <2>1. chunks \in SUBSET (Nat \X Nat) /\ \A chunk \in chunks : chunk[1] < Len(RTMhead')
      BY <1>1, <1>2
    <2> HIDE DEF chunks
    <2> QED
      BY <1>1, <1>2, <2>1, ReferKeeps DEF chunks
  <1>4. NoneEmpty'
    BY <1>1 DEF JInv, NoneEmpty
  <1>5. Collected' /\ GcSparesNewest'
    BY <1>1 DEF Collected, GcSparesNewest
  <1> QED
    BY <1>3, <1>4, <1>5, LookupNoGaps DEF JInv, FilesHold

\* A new container has a chunk.
LEMMA AppendContainerJInv ==
  ASSUME IInv, JInv, NEW n \in Sizes, AppendContainer(n)
  PROVE  JInv'
  <1> DEFINE entry == [i \in 1 .. n |-> current_bv]
             chunks == {Len(RTMhead)} \X (0 .. n - 1)
  <1>1. /\ phase = "backup" /\ phase' = "backup" /\ rtm' = rtm /\ cbt' = cbt
        /\ RTMhead' = Append(RTMhead, entry)
        /\ ishead' = ishead /\ globle_shift' = globle_shift /\ Refer(chunks)
    BY DEF AppendContainer
  <1>2. n \in Nat \ {0} /\ Len(RTMhead) \in Nat /\ DOMAIN RTMhead = 1 .. Len(RTMhead)
        /\ current_bv \in Nat
    BY MapAssumption, Shapes DEF IInv, MapAssumption, current_bv
  <1>3. entry \in Seq(Nat) /\ Len(entry) = n /\ RTMhead \in Seq(Seq(Nat))
    <2>1. entry \in [1 .. n -> Nat]
      BY <1>2
    <2> HIDE DEF entry
    <2> QED
      BY <1>2, <2>1, FunctionIsSeq DEF IInv, TypeOK
  <1>4. /\ Len(RTMhead') = Len(RTMhead) + 1 /\ DOMAIN RTMhead' = 1 .. Len(RTMhead) + 1
        /\ RTMhead'[Len(RTMhead) + 1] = entry
        /\ \A k \in 1 .. Len(RTMhead) : RTMhead'[k] = RTMhead[k]
    <2> HIDE DEF entry
    <2> QED
      BY <1>1, <1>3, AppendFacts
  <1>5. OpenFits' /\ FilesHold'
    <2>1. chunks \in SUBSET (Nat \X Nat) /\ \A chunk \in chunks : chunk[1] < Len(RTMhead')
      BY <1>2, <1>4
    <2>2. Len(RTMhead) <= Len(RTMhead') /\ Len(RTMhead') \in Nat
      BY <1>2, <1>4
    <2> HIDE DEF chunks
    <2> QED
      BY <1>1, <2>1, <2>2, ReferKeeps
  <1>6. NoneEmpty'
    <2>1. \A c \in DOMAIN RTMhead : Len(RTMhead[c]) > 0
      BY <1>1 DEF JInv, NoneEmpty
    <2>2. ASSUME NEW c \in DOMAIN RTMhead' PROVE Len(RTMhead'[c]) > 0
      <3>1. c = Len(RTMhead) + 1 \/ c \in 1 .. Len(RTMhead)
        BY <1>2, <1>4
      <3> HIDE DEF entry
      <3> QED
        BY <1>2, <1>3, <1>4, <2>1, <3>1
    <2> QED
      BY <1>1, <2>2 DEF JInv, NoneEmpty
  <1>7. NoGaps'
    <2>1. \A k : EndOf(k)' = EndOf(k) /\ ShiftOf(k)' = ShiftOf(k)
      BY <1>1 DEF EndOf, ShiftOf
    <2> QED
      BY <1>1, <2>1 DEF JInv, NoGaps
  <1>8. Collected' /\ GcSparesNewest'
    BY <1>1 DEF Collected, GcSparesNewest
  <1> QED
    BY <1>5, <1>6, <1>7, <1>8 DEF JInv, FilesHold

-----------------------------------------------------------------------------
(* The end of a backup.                                                    *)

\* What each bit of the new table says: of a container that was met, of one that
\* was not, of a new one, and of none.
LEMMA BitsOfEach ==
  ASSUME IInv, phase = "backup", NEW g
  PROVE  /\ \A id \in Met :
              /\ get_attribute(id, g) \in {0, 1, 2}
              /\ id * 2 + 33 \in UpdatedBits(g) <=> get_attribute(id, g) \in {1, 2}
              /\ id * 2 + 34 \in UpdatedBits(g) <=> get_attribute(id, g) = 2
         /\ \A id \in Nat : id \notin Met =>
              /\ id * 2 + 33 \notin UpdatedBits(g)
              /\ id * 2 + 34 \in UpdatedBits(g) <=> id \in New
  <1>1. Met \subseteq Nat /\ New \subseteq Nat /\ \A id \in Met : id \notin New
    BY Shapes DEF IInv, Met, New, container_count_start
  <1>2. ASSUME NEW x
        PROVE  x \in UpdatedBits(g) <=>
                 \/ \E id \in Met : x \in AttributeBits(id * 2 + 33, get_attribute(id, g))
                 \/ \E id \in New : x \in AttributeBits(id * 2 + 33, 3)
    <2> DEFINE Old == {AttributeBits(id * 2 + 33, get_attribute(id, g)) : id \in Met}
               Added == {AttributeBits(id * 2 + 33, 3) : id \in New}
    <2>1. UpdatedBits(g) = (UNION Old) \cup (UNION Added)
      BY DEF UpdatedBits
    <2>2. (\E B \in Old : x \in B)
            <=> \E id \in Met : x \in AttributeBits(id * 2 + 33, get_attribute(id, g))
      OBVIOUS
    <2>3. (\E B \in Added : x \in B) <=> \E id \in New : x \in AttributeBits(id * 2 + 33, 3)
      OBVIOUS
    <2> HIDE DEF Old, Added
    <2>4. x \in UpdatedBits(g) <=> (\E B \in Old : x \in B) \/ (\E B \in Added : x \in B)
      BY <2>1
    <2> QED
      BY <2>2, <2>3, <2>4
  <1>3. ASSUME NEW id \in Met
        PROVE  /\ get_attribute(id, g) \in {0, 1, 2}
               /\ AttributeBits(id * 2 + 33, get_attribute(id, g))
                    = IF get_attribute(id, g) = 0 THEN {}
                      ELSE IF get_attribute(id, g) = 1 THEN {id * 2 + 33}
                      ELSE {id * 2 + 33, id * 2 + 34}
    <2>1. get_attribute(id, g) \in {0, 1, 2}
      BY DEF get_attribute, check_index_bit_equal_one
    <2>2. id * 2 + 33 + 1 = id * 2 + 34
      BY <1>1
    <2> QED
      BY <2>1, <2>2 DEF AttributeBits
  <1>4. \A id \in New : AttributeBits(id * 2 + 33, 3) = {id * 2 + 34}
    BY <1>1, AttributeFacts
  <1>5. ASSUME NEW id \in Nat
        PROVE  /\ id * 2 + 33 \in UpdatedBits(g)
                    <=> id \in Met /\ get_attribute(id, g) \in {1, 2}
               /\ id * 2 + 34 \in UpdatedBits(g)
                    <=> (id \in Met /\ get_attribute(id, g) = 2) \/ id \in New
    <2>1. ASSUME NEW j \in Nat
          PROVE  /\ id * 2 + 33 = j * 2 + 33 => id = j
                 /\ id * 2 + 34 = j * 2 + 34 => id = j
                 /\ id * 2 + 33 # j * 2 + 34 /\ id * 2 + 34 # j * 2 + 33
      OBVIOUS
    <2>2. id * 2 + 33 \in UpdatedBits(g) <=> id \in Met /\ get_attribute(id, g) \in {1, 2}
      <3>1. ASSUME NEW j \in Met
            PROVE  id * 2 + 33 \in AttributeBits(j * 2 + 33, get_attribute(j, g))
                     <=> id = j /\ get_attribute(j, g) \in {1, 2}
        <4> DEFINE A == get_attribute(j, g)
                   B == AttributeBits(j * 2 + 33, A)
        <4>1. /\ A \in {0, 1, 2}
              /\ B = IF A = 0 THEN {} ELSE IF A = 1 THEN {j * 2 + 33}
                     ELSE {j * 2 + 33, j * 2 + 34}
          BY <1>3
        <4>2. j \in Nat
          BY <1>1
        <4> HIDE DEF A, B
        <4>3. id * 2 + 33 \in B <=> id = j /\ A \in {1, 2}
          BY <2>1, <4>1, <4>2
        <4> QED
          BY <4>3 DEF A, B
      <3>2. ASSUME NEW j \in New
            PROVE  id * 2 + 33 \notin AttributeBits(j * 2 + 33, 3)
        BY <1>1, <1>4, <2>1
      <3> QED
        BY <1>2, <3>1, <3>2
    <2>3. id * 2 + 34 \in UpdatedBits(g)
            <=> (id \in Met /\ get_attribute(id, g) = 2) \/ id \in New
      <3>1. ASSUME NEW j \in Met
            PROVE  id * 2 + 34 \in AttributeBits(j * 2 + 33, get_attribute(j, g))
                     <=> id = j /\ get_attribute(j, g) = 2
        <4> DEFINE A == get_attribute(j, g)
                   B == AttributeBits(j * 2 + 33, A)
        <4>1. /\ A \in {0, 1, 2}
              /\ B = IF A = 0 THEN {} ELSE IF A = 1 THEN {j * 2 + 33}
                     ELSE {j * 2 + 33, j * 2 + 34}
          BY <1>3
        <4>2. j \in Nat
          BY <1>1
        <4> HIDE DEF A, B
        <4>3. id * 2 + 34 \in B <=> id = j /\ A = 2
          BY <2>1, <4>1, <4>2
        <4> QED
          BY <4>3 DEF A, B
      <3>2. ASSUME NEW j \in New
            PROVE  id * 2 + 34 \in AttributeBits(j * 2 + 33, 3) <=> id = j
        BY <1>1, <1>4, <2>1
      <3> QED
        BY <1>2, <3>1, <3>2
    <2> QED
      BY <2>2, <2>3
  <1> QED
    BY <1>1, <1>3, <1>5

\* The positions of a container but the last.
AllButLast(id) == Positions(id) \ {Len(rtm[id + 1]) - 1}

\* The attribute of a container that is not the last one met: the bits that are
\* looked at are those of all its chunks but the last.
LEMMA AttributeTells ==
  ASSUME IInv, JInv, phase = "backup", NEW g, NEW id \in Met, id \notin LastMet
  PROVE  /\ get_attribute(id, g) = 2 <=> \A i \in AllButLast(id) : <<id, i>> \in Found
         /\ get_attribute(id, g) = 0 => \A i \in AllButLast(id) : <<id, i>> \notin Found
         /\ get_attribute(id, g) = 1 => \E i \in AllButLast(id) : <<id, i>> \in Found
  <1> DEFINE P == AllButLast(id)
             k == Place(id)
             len == Len(rtm[id + 1])
             start == ShiftOf(k)
  <1>1. k \in DOMAIN ishead /\ IdOf(k) = id /\ get_shift_by_id(id) = start
    BY PlaceListed DEF Met, get_shift_by_id, ShiftOf
  <1>2. /\ id \in Nat /\ id + 1 \in DOMAIN rtm
        /\ Len(ishead) \in Nat /\ DOMAIN ishead = 1 .. Len(ishead)
    BY Shapes DEF IInv, Met, container_count_start
  <1>3. k < Len(ishead)
    <2>1. k # Len(ishead)
      BY <1>1, <1>2 DEF LastMet, IdOf
    <2> QED
      BY <1>1, <1>2, <2>1
  <1>4. RangeEnd(id, g) = ShiftOf(k + 1) - 1
    BY <1>3 DEF RangeEnd, ShiftOf
  <1>5. EndOf(k) = ShiftOf(k + 1)
    BY <1>1, <1>3 DEF JInv, NoGaps
  <1>6. len > 0
    BY <1>2 DEF JInv, NoneEmpty
  <1> HIDE DEF k
  <1>7. start \in Nat \ {0} /\ len \in Nat /\ EndOf(k) = start + len
    BY <1>1, RangeFacts DEF IInv
  <1>8. P = 0 .. len - 2
    BY <1>6, <1>7 DEF AllButLast, Positions
  <1>9. ASSUME NEW i \in P
        PROVE  start + i \in index_bit <=> <<id, i>> \in Found
    <2>1. i \in 0 .. Len(rtm[IdOf(k) + 1]) - 1
      BY <1>1, <1>7, <1>8
    <2>2. start + i \in index_bit => <<id, i>> \in Found
      BY <1>1, <2>1, BitTraced
    <2>3. <<id, i>> \in Found => get_shift_by_id(id) + i \in index_bit
      BY DEF IInv, FoundPlaced
    <2> QED
      BY <1>1, <2>2, <2>3
  <1> DEFINE range == start .. start + len - 2
  <1>10. get_attribute(id, g) = IF range \subseteq index_bit THEN 2
                               ELSE IF range \cap index_bit = {} THEN 0 ELSE 1
    <2>1. RangeEnd(id, g) = start + len - 1
      BY <1>4, <1>5, <1>7
    <2>2. ~(start > start + len - 1) /\ start + len - 1 - 1 = start + len - 2
      BY <1>6, <1>7
    <2> DEFINE end == start + len - 1
    <2>3. get_attribute(id, g) = check_index_bit_equal_one(start, end)
      BY <1>1, <2>1 DEF get_attribute
    <2>4. start .. end - 1 = range
      <3>1. end - 1 = start + len - 2
        BY <1>7
      <3> HIDE DEF start, len, end
      <3> QED
        BY <3>1
    <2>5. ~(start > end)
      BY <2>2
    <2> HIDE DEF start, end, range
    <2> QED
      BY <2>3, <2>4, <2>5 DEF check_index_bit_equal_one
  <1>11. range \subseteq index_bit <=> \A i \in P : <<id, i>> \in Found
    <2>1. \A x \in range : x - start \in P /\ x = start + (x - start)
      BY <1>7, <1>8
    <2>2. \A i \in P : start + i \in range
      BY <1>7, <1>8
    <2> HIDE DEF range, start
    <2> QED
      BY <1>9, <2>1, <2>2
  <1>12. range \cap index_bit = {} <=> \A i \in P : <<id, i>> \notin Found
    <2>3. range \cap index_bit = {} <=> \A x \in range : x \notin index_bit
      OBVIOUS
    <2>1. \A x \in range : x - start \in P /\ x = start + (x - start)
      BY <1>7, <1>8
    <2>2. \A i \in P : start + i \in range
      BY <1>7, <1>8
    <2> HIDE DEF range, start
    <2>4. (\E x \in range : x \in index_bit) <=> \E i \in P : <<id, i>> \in Found
      <3>1. ASSUME NEW x \in range, x \in index_bit
            PROVE  \E i \in P : <<id, i>> \in Found
        <4>1. x - start \in P /\ start + (x - start) \in index_bit
          BY <2>1, <3>1
        <4>2. <<id, x - start>> \in Found
          BY <1>9, <4>1
        <4> QED
          BY <4>1, <4>2
      <3>2. ASSUME NEW i \in P, <<id, i>> \in Found
            PROVE  \E x \in range : x \in index_bit
        BY <1>9, <2>2, <3>2
      <3> QED
        BY <3>1, <3>2
    <2> QED
      BY <2>3, <2>4
  <1> HIDE DEF range
  <1> QED
    BY <1>10, <1>11, <1>12

\* What closing leaves of the sizes, and what it adds.
LEMMA CloseAdds ==
  ASSUME IInv, JInv, NEW g, CloseBackup(g)
  PROVE  /\ phase = "backup" /\ phase' = "idle" /\ Len(cbt') = Len(cbt) + 1
         /\ Len(cbt) \in Nat /\ Len(rtm) \in Nat /\ Len(RTMhead) \in Nat
         /\ Len(rtm) <= Len(RTMhead) /\ Len(rtm') = Len(RTMhead)
         /\ DOMAIN rtm = 1 .. Len(rtm) /\ DOMAIN rtm' = 1 .. Len(RTMhead)
         /\ \A c \in DOMAIN rtm : Len(rtm'[c]) = Len(rtm[c]) /\ DOMAIN rtm'[c] = DOMAIN rtm[c]
         /\ \A c \in DOMAIN rtm' : Len(rtm'[c]) > 0 /\ DOMAIN rtm'[c] = 1 .. Len(rtm'[c])
         /\ cbt'[Len(cbt) + 1] = [bv |-> Len(cbt), bits |-> UpdatedBits(g)]
         /\ history'[Len(cbt) + 1] = [chunks |-> history[Len(history)].chunks,
                                      start |-> Len(rtm), last |-> LastMet]
         /\ \A v \in 0 .. Len(cbt) - 1 : cbt'[v + 1] = cbt[v + 1] /\ history'[v + 1] = history[v + 1]
         /\ Len(history) = Len(cbt) + 1
  <1>1. /\ phase = "backup" /\ phase' = "idle" /\ Len(cbt') = Len(cbt) + 1
        /\ rtm' = UpdatedTimes(g)
        /\ \A k \in 1 .. Len(cbt) : cbt'[k] = cbt[k] /\ history'[k] = history[k]
    BY CloseFacts
  <1>2. /\ Len(history) = Len(cbt) + 1 /\ Len(history) \in DOMAIN history
        /\ Len(cbt) \in Nat /\ Len(rtm) \in Nat /\ Len(RTMhead) \in Nat
        /\ DOMAIN rtm = 1 .. Len(rtm) /\ DOMAIN RTMhead = 1 .. Len(RTMhead)
        /\ Len(rtm) <= Len(RTMhead)
    BY <1>1, OpenVersion, Shapes DEF IInv, MapGrows
  <1>3. /\ rtm' \in Seq(Seq(Nat)) /\ Len(rtm') = Len(RTMhead)
        /\ DOMAIN rtm' = 1 .. Len(RTMhead)
        /\ \A c \in DOMAIN RTMhead : DOMAIN rtm'[c] = DOMAIN RTMhead[c]
        /\ \A c \in DOMAIN rtm : RTMhead[c] = rtm[c]
    BY <1>1, <1>2, TimesOfMap, SeqFacts DEF IInv, MapGrows
  <1>4. \A c \in DOMAIN rtm' : Len(rtm'[c]) \in Nat /\ DOMAIN rtm'[c] = 1 .. Len(rtm'[c])
    BY <1>3, SeqFacts
  <1>5. ASSUME NEW c \in DOMAIN RTMhead
        PROVE  Len(rtm'[c]) = Len(RTMhead[c]) /\ Len(RTMhead[c]) > 0
    <2>1. /\ Len(RTMhead[c]) \in Nat /\ DOMAIN RTMhead[c] = 1 .. Len(RTMhead[c])
          /\ Len(RTMhead[c]) > 0
      BY <1>1, Shapes DEF IInv, JInv, NoneEmpty
    <2>2. /\ Len(rtm'[c]) \in Nat /\ 1 .. Len(rtm'[c]) = 1 .. Len(RTMhead[c])
      BY <1>2, <1>3, <1>4, <2>1
    <2>3. Len(RTMhead[c]) \in 1 .. Len(rtm'[c])
      BY <2>1, <2>2
    <2>4. Len(rtm'[c]) \in 1 .. Len(RTMhead[c])
      BY <2>1, <2>2, <2>3
    <2> QED
      BY <2>1, <2>2, <2>3, <2>4
  <1>6. cbt'[Len(cbt) + 1] = [bv |-> Len(cbt), bits |-> UpdatedBits(g)]
    <2> DEFINE T == [bv : Nat, bits : SUBSET (Nat \ (0 .. 32))]
               table == [bv |-> current_bv, bits |-> UpdatedBits(g)]
    <2>1. cbt' = Append(cbt, table)
      BY DEF CloseBackup, write_container_bit_table_to_disk
    <2>2. table \in T /\ cbt \in Seq(T)
      BY <1>1, <1>2, BitsOfTable DEF current_bv, IInv, TypeOK
    <2>3. cbt'[Len(cbt) + 1] = table
      <3> HIDE DEF table, T
      <3> QED
        BY <2>1, <2>2, AppendFacts
    <2> QED
      BY <2>3 DEF current_bv
  <1>7. history'[Len(cbt) + 1] = [chunks |-> history[Len(history)].chunks,
                                  start |-> Len(rtm), last |-> LastMet]
    <2>1. history' = [history EXCEPT ![Len(history)].last = LastMet]
      BY DEF CloseBackup
    <2>2. history[Len(history)] \in [chunks : SUBSET (Nat \X Nat), start : Nat, last : SUBSET Nat]
      BY <1>2, Shapes DEF IInv
    <2>3. history[Len(history)].start = Len(rtm)
      BY <1>1 DEF JInv, OpenFits
    <2> QED
      BY <1>2, <2>1, <2>2, <2>3
  <1>8. \A v \in 0 .. Len(cbt) - 1 : v + 1 \in 1 .. Len(cbt)
    BY <1>2
  <1>9. \A c \in DOMAIN rtm : c \in DOMAIN RTMhead
    BY <1>2
  <1> QED
    BY <1>1, <1>2, <1>3, <1>4, <1>5, <1>6, <1>7, <1>8, <1>9

\* The new table and the new version name containers of the new map only.
LEMMA CloseClosedFits ==
  ASSUME IInv, JInv, NEW g, CloseBackup(g)
  PROVE  ClosedFits'
  <1>1. /\ phase = "backup" /\ Len(cbt') = Len(cbt) + 1
        /\ Len(cbt) \in Nat /\ Len(rtm) \in Nat /\ Len(RTMhead) \in Nat
        /\ Len(rtm) <= Len(RTMhead) /\ Len(rtm') = Len(RTMhead)
        /\ cbt'[Len(cbt) + 1] = [bv |-> Len(cbt), bits |-> UpdatedBits(g)]
        /\ history'[Len(cbt) + 1] = [chunks |-> history[Len(history)].chunks,
                                     start |-> Len(rtm), last |-> LastMet]
        /\ \A v \in 0 .. Len(cbt) - 1 : cbt'[v + 1] = cbt[v + 1] /\ history'[v + 1] = history[v + 1]
        /\ Len(history) = Len(cbt) + 1
    BY CloseAdds
  <1>2. ASSUME NEW v \in 0 .. Len(cbt)
        PROVE  /\ cbt'[v + 1].bv = v
               /\ history'[v + 1].start <= Len(rtm')
               /\ \A chunk \in history'[v + 1].chunks : chunk[1] < Len(rtm')
               /\ \A id \in Nat : id >= Len(rtm') =>
                    id * 2 + 33 \notin cbt'[v + 1].bits /\ id * 2 + 34 \notin cbt'[v + 1].bits
    <2>1. CASE v = Len(cbt)
      <3>1. \A id \in Nat : id >= Len(RTMhead) => id \notin Met /\ id \notin New
        BY <1>1 DEF Met, New, container_count_start
      <3>2. ASSUME NEW id \in Nat, id >= Len(RTMhead)
            PROVE  id * 2 + 33 \notin UpdatedBits(g) /\ id * 2 + 34 \notin UpdatedBits(g)
        BY <1>1, <3>1, <3>2, BitsOfEach
      <3>3. \A chunk \in history[Len(history)].chunks : chunk[1] < Len(RTMhead)
        BY <1>1 DEF JInv, OpenFits
      <3> QED
        BY <1>1, <2>1, <3>2, <3>3
    <2>2. CASE v # Len(cbt)
      <3>1. v \in 0 .. Len(cbt) - 1
        BY <1>1, <2>2
      <3>2. /\ cbt[v + 1].bv = v /\ history[v + 1].start <= Len(rtm)
            /\ \A chunk \in history[v + 1].chunks : chunk[1] < Len(rtm)
            /\ \A id \in Nat : id >= Len(rtm) =>
                 id * 2 + 33 \notin cbt[v + 1].bits /\ id * 2 + 34 \notin cbt[v + 1].bits
        BY <3>1 DEF JInv, ClosedFits, Referred
      <3>3. /\ history[v + 1] \in [chunks : SUBSET (Nat \X Nat), start : Nat, last : SUBSET Nat]
        BY <1>1, <3>1, Shapes DEF IInv
      <3>4. history[v + 1].start \in Nat /\ \A chunk \in history[v + 1].chunks : chunk[1] \in Nat
        BY <3>3
      <3> HIDE DEF JInv
      <3> QED
        BY <1>1, <3>1, <3>2, <3>4
    <2> QED
      BY <2>1, <2>2
  <1> QED
    BY <1>1, <1>2 DEF ClosedFits, Referred

\* The new containers have the times of this version, and a container found as a
\* whole keeps its older ones.
LEMMA CloseNewestTimes ==
  ASSUME IInv, JInv, NEW g, CloseBackup(g)
  PROVE  NewestTimes'
  <1>1. /\ phase = "backup" /\ Len(cbt') = Len(cbt) + 1
        /\ Len(cbt) \in Nat /\ Len(rtm) \in Nat /\ Len(RTMhead) \in Nat
        /\ Len(rtm) <= Len(RTMhead) /\ DOMAIN rtm = 1 .. Len(rtm)
        /\ DOMAIN rtm' = 1 .. Len(RTMhead)
        /\ \A c \in DOMAIN rtm : DOMAIN rtm'[c] = DOMAIN rtm[c]
        /\ cbt'[Len(cbt) + 1] = [bv |-> Len(cbt), bits |-> UpdatedBits(g)]
        /\ history'[Len(cbt) + 1] = [chunks |-> history[Len(history)].chunks,
                                     start |-> Len(rtm), last |-> LastMet]
    BY CloseAdds
  <1>2. rtm' = UpdatedTimes(g)
    BY CloseFacts
  <1>3. Newest' = Len(cbt)
    BY <1>1 DEF Newest
  <1>4. ASSUME NEW c \in DOMAIN rtm', NEW i \in DOMAIN rtm'[c], c - 1 >= Len(rtm)
        PROVE  rtm'[c][i] = Len(cbt) /\ (c - 1) * 2 + 34 \in UpdatedBits(g)
    <2>1. c \in DOMAIN RTMhead \ DOMAIN rtm /\ c - 1 \in Nat
      BY <1>1, <1>4, Shapes DEF IInv
    <2>2. DOMAIN rtm'[c] = DOMAIN RTMhead[c]
      BY <1>1, <1>2, <2>1, TimesOfMap
    <2>3. rtm'[c][i] = Len(cbt)
      <3>1. c - 1 \notin Met
        BY <1>1, <1>4 DEF Met, container_count_start
      <3>2. UpdatedTimes(g)[c] = RTMhead[c]
        BY <2>1, <3>1 DEF UpdatedTimes
      <3>3. RTMhead[c][i] = Len(cbt)
        BY <1>1, <2>1, <2>2 DEF IInv, MapGrows, current_bv
      <3> QED
        BY <1>2, <3>2, <3>3
    <2>4. c - 1 \in New /\ c - 1 \notin Met
      BY <1>1, <1>4 DEF New, Met, container_count_start
    <2> QED
      BY <1>1, <2>1, <2>3, <2>4, BitsOfEach
  <1>5. ASSUME NEW c \in DOMAIN rtm', NEW i \in DOMAIN rtm'[c],
               (c - 1) * 2 + 33 \in UpdatedBits(g), (c - 1) * 2 + 34 \in UpdatedBits(g)
        PROVE  rtm'[c][i] < Len(cbt)
    <2>1. c - 1 \in Nat
      BY <1>1
    <2>2. c - 1 \in Met /\ get_attribute(c - 1, g) = 2
      BY <1>1, <1>5, <2>1, BitsOfEach
    <2>3. c \in DOMAIN rtm /\ c \in DOMAIN RTMhead
      BY <1>1, <2>1, <2>2, Shapes DEF Met, container_count_start, IInv
    <2>4. rtm'[c] = rtm[c]
      <3>1. RTMhead[c] = rtm[c]
        BY <1>1, <2>3 DEF IInv, MapGrows
      <3>2. UpdatedTimes(g)[c] = RTMhead[c]
        BY <2>2, <2>3 DEF UpdatedTimes
      <3> QED
        BY <1>2, <3>1, <3>2
    <2> QED
      BY <1>1, <2>3, <2>4 DEF IInv, TimesOld
  <1>6. ASSUME NEW c \in DOMAIN rtm'
        PROVE  Full((c - 1) * 2 + 33, cbt'[Len(cbt) + 1])
                 => (c - 1) * 2 + 33 \in UpdatedBits(g) /\ (c - 1) * 2 + 34 \in UpdatedBits(g)
    <2>1. c - 1 \in Nat
      BY <1>1
    <2>2. (c - 1) * 2 + 33 > 32 /\ (c - 1) * 2 + 33 + 1 = (c - 1) * 2 + 34
          /\ (c - 1) * 2 + 34 > 32
      BY <2>1
    <2> QED
      BY <1>1, <2>2 DEF Full, get_CBT_array
  <1> DEFINE m == Len(cbt)
             bits == UpdatedBits(g)
             start == Len(rtm)
  <1>7. cbt'[m + 1].bits = bits /\ history'[m + 1].start = start
    BY <1>1
  <1>8. ASSUME NEW c \in DOMAIN rtm', NEW i \in DOMAIN rtm'[c]
        PROVE  /\ c - 1 >= start => /\ rtm'[c][i] = m
                                    /\ (c - 1) * 2 + 34 \in bits
               /\ Full((c - 1) * 2 + 33, cbt'[m + 1]) => rtm'[c][i] < m
    BY <1>4, <1>5, <1>6
  <1> HIDE DEF m, bits, start
  <1>9. Newest' = m
    BY <1>3 DEF m
  <1>10. \A n, t : Full(n, t)' = Full(n, t)
    BY DEF Full, get_CBT_array
  <1> QED
    BY <1>7, <1>8, <1>9, <1>10 DEF NewestTimes

\* The table of the closing version tells the truth of all chunks but the last.
LEMMA CloseAttributes ==
  ASSUME IInv, JInv, NEW g, CloseBackup(g)
  PROVE  AttributesButLast'
  <1>1. /\ phase = "backup" /\ Len(cbt') = Len(cbt) + 1
        /\ Len(cbt) \in Nat /\ Len(rtm) \in Nat /\ Len(RTMhead) \in Nat
        /\ Len(rtm) <= Len(RTMhead) /\ Len(rtm') = Len(RTMhead)
        /\ DOMAIN rtm = 1 .. Len(rtm) /\ DOMAIN rtm' = 1 .. Len(RTMhead)
        /\ \A c \in DOMAIN rtm : Len(rtm'[c]) = Len(rtm[c])
        /\ \A c \in DOMAIN rtm' : Len(rtm'[c]) > 0 /\ DOMAIN rtm'[c] = 1 .. Len(rtm'[c])
        /\ cbt'[Len(cbt) + 1] = [bv |-> Len(cbt), bits |-> UpdatedBits(g)]
        /\ history'[Len(cbt) + 1] = [chunks |-> history[Len(history)].chunks,
                                     start |-> Len(rtm), last |-> LastMet]
        /\ \A v \in 0 .. Len(cbt) - 1 : cbt'[v + 1] = cbt[v + 1] /\ history'[v + 1] = history[v + 1]
        /\ Len(history) = Len(cbt) + 1
    BY CloseAdds
  <1>2. ASSUME NEW id \in 0 .. Len(rtm) - 1
        PROVE  (Positions(id) \ {Len(rtm[id + 1]) - 1})'
                 = Positions(id) \ {Len(rtm[id + 1]) - 1}
    <2>1. id + 1 \in DOMAIN rtm
      BY EntryOf DEF IInv
    <2>2. Len(rtm'[id + 1]) = Len(rtm[id + 1])
      BY <1>1, <2>1
    <2> QED
      BY <2>2 DEF Positions
  <1>3. \A n, t : None(n, t)' = None(n, t) /\ Full(n, t)' = Full(n, t)
    BY DEF None, Full, get_CBT_array
  <1>4. ASSUME NEW v \in 0 .. Len(cbt) - 1
        PROVE  ButLast(v)'
    <2>1. ButLast(v) /\ cbt'[v + 1] = cbt[v + 1] /\ history'[v + 1] = history[v + 1]
      BY <1>1, AttributesOfEach DEF JInv
    <2>2. /\ history[v + 1].start \in Nat /\ history[v + 1].start <= Len(rtm)
          /\ \A chunk \in Referred(v) : chunk[1] < Len(rtm)
          /\ \A id \in Nat : id >= Len(rtm) =>
               id * 2 + 33 \notin cbt[v + 1].bits /\ id * 2 + 34 \notin cbt[v + 1].bits
      <3>1. history[v + 1] \in [chunks : SUBSET (Nat \X Nat), start : Nat, last : SUBSET Nat]
        <4>1. v + 1 \in DOMAIN history
          BY <1>1, Shapes DEF IInv
        <4> QED
          BY <4>1, Shapes DEF IInv
      <3> QED
        BY <3>1 DEF JInv, ClosedFits
    <2>3. Referred(v)' = Referred(v) /\ OldContainers(v)' = OldContainers(v)
      BY <2>1 DEF Referred, OldContainers
    <2>4. ASSUME NEW id \in OldContainers(v)
          PROVE  TruthfulButLast(v, id)'
      <3>1. id \in 0 .. Len(rtm) - 1
        BY <1>1, <2>2 DEF OldContainers
      <3>2. TruthfulButLast(v, id)
        BY <2>1 DEF ButLast
      <3>3. (Positions(id) \ {Len(rtm[id + 1]) - 1})'
                 = Positions(id) \ {Len(rtm[id + 1]) - 1}
        BY <1>2, <3>1
      <3>4. Partly(id, v)' = Partly(id, v)
        BY <2>1 DEF Partly
      <3> QED
        BY <1>3, <2>1, <2>3, <3>2, <3>3, <3>4 DEF TruthfulButLast, Truthful
    <2>5. ASSUME NEW id \in 0 .. Len(RTMhead) - 1
          PROVE  (id * 2 + 33 \notin cbt[v + 1].bits /\ id * 2 + 34 \in cbt[v + 1].bits)
                   <=> <<id, 0>> \in Referred(v) /\ id >= history[v + 1].start
      <3>1. CASE id < Len(rtm)
        <4>1. id \in 0 .. Len(rtm) - 1
          BY <1>1, <3>1
        <4> QED
          BY <2>1, <4>1 DEF ButLast
      <3>2. CASE id >= Len(rtm)
        <4>1. id \in Nat /\ ~(id < Len(rtm))
          BY <1>1, <3>2
        <4>2. <<id, 0>> \notin Referred(v)
          BY <2>2, <4>1
        <4> QED
          BY <2>2, <3>2, <4>1, <4>2
      <3> QED
        BY <1>1, <3>1, <3>2
    <2> QED
      BY <1>1, <2>1, <2>3, <2>4, <2>5 DEF ButLast
  <1>5. ASSUME NEW v, v = Len(cbt)
        PROVE  ButLast(v)'
    <2> DEFINE bits == UpdatedBits(g)
               chunks == history[Len(history)].chunks
    <2>1. /\ cbt'[v + 1].bits = bits /\ history'[v + 1].chunks = chunks
          /\ history'[v + 1].start = Len(rtm) /\ history'[v + 1].last = LastMet
          /\ Referred(v)' = chunks
      BY <1>1, <1>5 DEF Referred
    <2>2. OldContainers(v)' = (0 .. Len(rtm) - 1) \ LastMet
      BY <2>1 DEF OldContainers
    <2>3. ASSUME NEW id \in (0 .. Len(rtm) - 1) \ LastMet
          PROVE  TruthfulButLast(v, id)'
      <3> DEFINE P == Positions(id) \ {Len(rtm[id + 1]) - 1}
                 referred == {i \in P : <<id, i>> \in chunks}
      <3>1. (Positions(id) \ {Len(rtm[id + 1]) - 1})' = P
        BY <1>2
      <3>2. ASSUME NEW i PROVE <<id, i>> \in chunks <=> <<id, i>> \in Found
        BY <1>1 DEF Found, container_count_start
      <3>3. id \in Nat /\ id * 2 + 33 > 32 /\ id * 2 + 33 + 1 = id * 2 + 34 /\ id * 2 + 34 > 32
        BY <1>1
      <3>4. /\ None(id * 2 + 33, cbt'[v + 1]) <=> id * 2 + 33 \notin bits /\ id * 2 + 34 \notin bits
            /\ Full(id * 2 + 33, cbt'[v + 1]) <=> id * 2 + 33 \in bits /\ id * 2 + 34 \in bits
            /\ Partly(id, v)' <=> id * 2 + 33 \in bits /\ id * 2 + 34 \notin bits
        BY <2>1, <3>3 DEF None, Full, Partly, get_CBT_array
      <3>5. /\ None(id * 2 + 33, cbt'[v + 1]) => referred = {}
            /\ Full(id * 2 + 33, cbt'[v + 1]) => referred = P
            /\ Partly(id, v)' => referred # {} /\ referred # P
        <4>1. CASE id \in Met
          <5> DEFINE a == get_attribute(id, g)
          <5>1. /\ a \in {0, 1, 2}
                /\ id * 2 + 33 \in bits <=> a \in {1, 2}
                /\ id * 2 + 34 \in bits <=> a = 2
            BY <1>1, <4>1, BitsOfEach
          <5>2. /\ a = 2 <=> \A i \in P : <<id, i>> \in Found
                /\ a = 0 => \A i \in P : <<id, i>> \notin Found
                /\ a = 1 => \E i \in P : <<id, i>> \in Found
            <6>1. P = AllButLast(id)
              BY DEF AllButLast
            <6>2. phase = "backup" /\ id \notin LastMet
              BY <1>1
            <6>3. /\ get_attribute(id, g) = 2 <=> \A i \in AllButLast(id) : <<id, i>> \in Found
                  /\ get_attribute(id, g) = 0 => \A i \in AllButLast(id) : <<id, i>> \notin Found
                  /\ get_attribute(id, g) = 1 => \E i \in AllButLast(id) : <<id, i>> \in Found
              BY <4>1, <6>2, AttributeTells
            <6> HIDE DEF P
            <6> QED
              BY <6>1, <6>3
          <5> HIDE DEF a, P, bits, chunks
          <5> QED
            BY <3>2, <3>4, <5>1, <5>2
        <4>2. CASE id \notin Met
          <5>1. id * 2 + 33 \notin bits /\ id * 2 + 34 \notin bits
            <6>1. id \notin New
              BY <1>1 DEF New, container_count_start
            <6> QED
              BY <1>1, <3>3, <4>2, <6>1, BitsOfEach
          <5>2. \A i : <<id, i>> \notin Found
            <6>1. ~Listed(id)
              BY <4>2 DEF Met, container_count_start
            <6> QED
              BY <1>1, <6>1 DEF IInv, FoundPlaced, Listed, IdOf
          <5> HIDE DEF P, bits, chunks
          <5> QED
            BY <3>2, <3>4, <5>1, <5>2
        <4> QED
          BY <4>1, <4>2
      <3> HIDE DEF P, bits, chunks
      <3> QED
        BY <1>3, <2>1, <3>1, <3>5 DEF TruthfulButLast, Truthful
    <2>4. ASSUME NEW id \in 0 .. Len(RTMhead) - 1
          PROVE  (id * 2 + 33 \notin bits /\ id * 2 + 34 \in bits)
                   <=> <<id, 0>> \in chunks /\ id >= Len(rtm)
      <3>1. CASE id < Len(rtm)
        <4>1. id \in Nat /\ id \notin New /\ ~(id >= Len(rtm))
          BY <1>1, <3>1 DEF New, container_count_start
        <4>2. id \in Met => (id * 2 + 34 \in bits => id * 2 + 33 \in bits)
          BY <1>1, BitsOfEach
        <4>3. id \notin Met => id * 2 + 34 \notin bits
          BY <1>1, <4>1, BitsOfEach
        <4> QED
          BY <4>1, <4>2, <4>3
      <3>2. CASE id >= Len(rtm)
        <4>1. id \in Nat /\ id \in New /\ id \notin Met
          BY <1>1, <3>2 DEF New, Met, container_count_start
        <4>2. id * 2 + 33 \notin bits /\ id * 2 + 34 \in bits
          BY <1>1, <4>1, BitsOfEach
        <4>3. <<id, 0>> \in chunks
          <5>1. id + 1 \in DOMAIN RTMhead \ DOMAIN rtm /\ (id + 1) - 1 = id
            BY <1>1, <3>2, Shapes DEF IInv
          <5>2. 1 \in DOMAIN RTMhead[id + 1]
            <6>1. Len(RTMhead[id + 1]) > 0 /\ Len(RTMhead[id + 1]) \in Nat
                  /\ DOMAIN RTMhead[id + 1] = 1 .. Len(RTMhead[id + 1])
              BY <1>1, <5>1, Shapes DEF IInv, JInv, NoneEmpty
            <6> QED
              BY <6>1
          <5>3. <<(id + 1) - 1, 1 - 1>> \in history[Len(history)].chunks
            BY <1>1, <5>1, <5>2 DEF IInv, MapGrows
          <5> QED
            BY <5>1, <5>3
        <4> QED
          BY <3>2, <4>2, <4>3
      <3> QED
        BY <1>1, <3>1, <3>2
    <2> HIDE DEF bits, chunks
    <2> QED
      BY <1>1, <2>1, <2>2, <2>3, <2>4 DEF ButLast
  <1>6. \A v \in 0 .. Len(cbt') - 1 : ButLast(v)'
    <2>1. \A v \in 0 .. Len(cbt') - 1 : v \in 0 .. Len(cbt) - 1 \/ v = Len(cbt)
      BY <1>1
    <2> QED
      BY <1>4, <1>5, <2>1
  <1> QED
    BY <1>6, AttributesOfEach

\* The end of a backup keeps the invariant.
LEMMA CloseBackupJInv ==
  ASSUME IInv, JInv, NEW g, CloseBackup(g)
  PROVE  JInv'
  <1>1. phase' = "idle" /\ \A c \in DOMAIN rtm' : Len(rtm'[c]) > 0
    BY CloseAdds
  <1>2. NoGaps' /\ OpenFits' /\ Collected' /\ GcSparesNewest' /\ NoneEmpty'
    BY <1>1 DEF NoGaps, OpenFits, Collected, GcSparesNewest, NoneEmpty
  <1> QED
    BY <1>2, CloseClosedFits, CloseNewestTimes, CloseAttributes DEF JInv

-----------------------------------------------------------------------------
(* The collector.                                                          *)

\* The newest table is that of the newest version.
LEMMA NewestRead ==
  ASSUME IInv, JInv, cbt # <<>>
  PROVE  /\ Newest \in 0 .. Len(cbt) - 1 /\ Newest \in Nat /\ Len(cbt) \in Nat
         /\ get_newest_container_bit_table(1) = cbt[Newest + 1]
         /\ cbt[Newest + 1].bv = Newest
  <1>1. Len(cbt) \in Nat /\ Len(cbt) > 0
    BY EntryOf DEF IInv
  <1>2. Newest \in 0 .. Len(cbt) - 1 /\ Newest \in Nat /\ ~(1 > Len(cbt))
        /\ Len(cbt) - 1 + 1 = Newest + 1
    BY <1>1 DEF Newest
  <1>3. cbt[Newest + 1].bv = Newest
    BY <1>2 DEF JInv, ClosedFits
  <1> QED
    BY <1>1, <1>2, <1>3 DEF get_newest_container_bit_table

\* What the newest table says of a chunk that is needed: its container is not one
\* of those without an attribute, and unless it was found as a whole the chunk has
\* the time of the newest version.
LEMMA NeededTimes ==
  ASSUME IInv, JInv, cbt # <<>>,
         NEW c \in DOMAIN rtm, NEW i \in DOMAIN rtm[c], Needed(c, i)
  PROVE  /\ ~None((c - 1) * 2 + 33, cbt[Newest + 1])
         /\ ~Full((c - 1) * 2 + 33, cbt[Newest + 1]) => rtm[c][i] >= Newest
  <1> DEFINE id == c - 1
             bits == cbt[Newest + 1].bits
             start == history[Newest + 1].start
  <1>1. /\ Newest \in 0 .. Len(cbt) - 1 /\ Newest \in Nat /\ Len(cbt) \in Nat
    BY NewestRead
  <1>2. /\ id \in Nat /\ id \in 0 .. Len(rtm) - 1 /\ id + 1 = c
        /\ Len(rtm[c]) \in Nat /\ i \in 1 .. Len(rtm[c]) /\ rtm[c][i] \in Nat
    BY Shapes DEF IInv
  <1>3. id * 2 + 33 > 32 /\ id * 2 + 33 + 1 = id * 2 + 34 /\ id * 2 + 34 > 32
    BY <1>2
  <1>4. /\ None(id * 2 + 33, cbt[Newest + 1])
             <=> id * 2 + 33 \notin bits /\ id * 2 + 34 \notin bits
        /\ Full(id * 2 + 33, cbt[Newest + 1])
             <=> id * 2 + 33 \in bits /\ id * 2 + 34 \in bits
        /\ Partly(id, Newest) <=> id * 2 + 33 \in bits /\ id * 2 + 34 \notin bits
    BY <1>3 DEF None, Full, Partly, get_CBT_array
  <1>5. start \in Nat
    <2>1. Newest + 1 \in DOMAIN history
      BY <1>1, Shapes DEF IInv, Counted
    <2>2. history[Newest + 1] \in [chunks : SUBSET (Nat \X Nat), start : Nat, last : SUBSET Nat]
      BY <2>1, Shapes DEF IInv
    <2> QED
      BY <2>2
  <1>6. CASE id >= start
    <2>1. rtm[c][i] = Newest /\ id * 2 + 34 \in bits
      BY <1>6 DEF JInv, NewestTimes
    <2> QED
      BY <1>1, <1>4, <2>1
  <1>7. CASE ~(id >= start)
    <2>1. ButLast(Newest)
      BY <1>1, AttributesOfEach DEF JInv
    <2>2. id \in OldContainers(Newest)
      BY <1>2, <1>5, <1>7 DEF Needed, OldContainers
    <2>3. <<id, i - 1>> \in Referred(Newest) /\ id \notin history[Newest + 1].last
      BY DEF Needed
    <2>4. i - 1 \in Positions(id) \ {Len(rtm[id + 1]) - 1}
      BY <1>2 DEF Needed, Positions
    <2>5. ~None(id * 2 + 33, cbt[Newest + 1])
      <3> DEFINE P == Positions(id) \ {Len(rtm[id + 1]) - 1}
      <3>1. Truthful(Newest, id, P)
        BY <2>1, <2>2 DEF ButLast, TruthfulButLast
      <3>2. i - 1 \in P
        BY <2>4
      <3> HIDE DEF P, id
      <3>3. i - 1 \in {k \in P : <<id, k>> \in Referred(Newest)}
        BY <2>3, <3>2
      <3> QED
        BY <3>1, <3>3 DEF Truthful
    <2>6. ~(id * 2 + 33 \notin bits /\ id * 2 + 34 \in bits)
      BY <1>2, <1>7, <2>1 DEF ButLast
    <2>7. Partly(id, Newest) => rtm[c][i] >= Newest
      BY <1>1, <2>3 DEF IInv, TimesFaithful
    <2> HIDE DEF id, bits
    <2>8. ~Full(id * 2 + 33, cbt[Newest + 1]) => rtm[c][i] >= Newest
      BY <1>4, <2>5, <2>6, <2>7
    <2> QED
      BY <2>5, <2>8 DEF id
  <1> QED
    BY <1>6, <1>7

\* What the update of an entry does: with all its times older, it sets them all.
LEMMA UpdateFacts ==
  ASSUME NEW entry, NEW bv
  PROVE  /\ DOMAIN update_RTM_to_same_backupversion(entry, bv) = DOMAIN entry
         /\ (\A k \in DOMAIN entry : entry[k] # bv) =>
              \A i \in DOMAIN entry : update_RTM_to_same_backupversion(entry, bv)[i] = bv
  BY DEF update_RTM_to_same_backupversion

\* The collector leaves what is said of the files, and of a backup.
LEMMA CollectorKeeps ==
  ASSUME IInv, JInv, phase # "backup", phase' # "backup", UNCHANGED files
  PROVE  /\ NoGaps' /\ NoneEmpty' /\ OpenFits' /\ FilesHold'
         /\ Newest' = Newest /\ rtm' = rtm /\ cbt' = cbt /\ history' = history
         /\ \A c, i : Needed(c, i)' = Needed(c, i)
         /\ \A n, t : None(n, t)' = None(n, t)
  <1>1. rtm' = rtm /\ cbt' = cbt /\ history' = history
    BY DEF files
  <1>2. FilesHold'
    BY <1>1, FilesHoldOn
  <1>3. NoGaps' /\ NoneEmpty' /\ OpenFits'
    BY <1>1 DEF JInv, NoGaps, NoneEmpty, OpenFits
  <1>4. Newest' = Newest
    BY <1>1 DEF Newest
  <1>5. \A c, i : Needed(c, i)' = Needed(c, i)
    BY <1>1, <1>4 DEF Needed, Referred
  <1>6. \A n, t : None(n, t)' = None(n, t)
    BY DEF None, get_CBT_array
  <1> QED
    BY <1>1, <1>2, <1>3, <1>4, <1>5, <1>6

\* The newest table brings to its version what was found as a whole.
LEMMA ReadNewestJInv ==
  ASSUME IInv, JInv, NEW d \in 0 .. Len(cbt) - 1, get_real_reference_time_map(d)
  PROVE  JInv'
  <1> DEFINE newest == cbt[Newest + 1]
             U == [c \in DOMAIN rtm |->
                     IF Full((c - 1) * 2 + 33, newest)
                       THEN update_RTM_to_same_backupversion(rtm[c], Newest)
                       ELSE rtm[c]]
  <1>1. SubSeq(rtm, 1, Len(rtm)) = rtm
    BY SubSeqFull DEF IInv, TypeOK
  <1>2. phase = "idle" /\ phase' = "gc" /\ cbt # <<>> /\ UNCHANGED files
    BY DEF get_real_reference_time_map
  <1>3. /\ Newest \in Nat /\ get_newest_container_bit_table(1) = newest
        /\ newest.bv = Newest
    BY <1>2, NewestRead
  <1>4. /\ RTMhead' = U
        /\ pending' = {id \in 0 .. Len(rtm) - 1 : None(id * 2 + 33, newest)}
    BY <1>1, <1>3 DEF get_real_reference_time_map, read_RTM_from_disk_in_gc, get_container_bit_end
  <1>5. /\ NoGaps' /\ NoneEmpty' /\ OpenFits' /\ FilesHold'
        /\ Newest' = Newest /\ rtm' = rtm /\ cbt' = cbt
        /\ \A c, i : Needed(c, i)' = Needed(c, i)
        /\ \A n, t : None(n, t)' = None(n, t)
    BY <1>2, CollectorKeeps
  <1> HIDE DEF newest
  <1>6. ASSUME NEW c \in DOMAIN rtm
        PROVE  /\ DOMAIN U[c] = DOMAIN rtm[c]
               /\ \A i \in DOMAIN rtm[c] : Needed(c, i) => U[c][i] >= Newest
    <2>1. CASE Full((c - 1) * 2 + 33, newest)
      <3>1. U[c] = update_RTM_to_same_backupversion(rtm[c], Newest)
        BY <2>1
      <3>2. \A k \in DOMAIN rtm[c] : rtm[c][k] \in Nat /\ rtm[c][k] < Newest
        BY <1>2, <2>1, Shapes DEF IInv, JInv, NewestTimes, newest
      <3>3. \A k \in DOMAIN rtm[c] : rtm[c][k] # Newest
        BY <1>3, <3>2
      <3> HIDE DEF U
      <3>4. DOMAIN U[c] = DOMAIN rtm[c] /\ \A i \in DOMAIN rtm[c] : U[c][i] = Newest
        BY <3>1, <3>3, UpdateFacts
      <3> QED
        BY <1>3, <3>4
    <2>2. CASE ~Full((c - 1) * 2 + 33, newest)
      <3>1. U[c] = rtm[c]
        BY <2>2
      <3> HIDE DEF U
      <3>2. \A i \in DOMAIN rtm[c] : Needed(c, i) => rtm[c][i] >= Newest
        BY <1>2, <2>2, NeededTimes DEF newest
      <3> QED
        BY <3>1, <3>2
    <2> QED
      BY <2>1, <2>2
  <1>7. DOMAIN U = DOMAIN rtm
    OBVIOUS
  <1> HIDE DEF U
  <1>8. Collected'
    <2>1. /\ DOMAIN RTMhead' = DOMAIN rtm'
          /\ \A c \in DOMAIN rtm' :
               /\ DOMAIN RTMhead'[c] = DOMAIN rtm'[c]
               /\ \A i \in DOMAIN rtm'[c] : Needed(c, i)' => RTMhead'[c][i] >= Newest'
      BY <1>4, <1>5, <1>6, <1>7
    <2>2. (\A id \in pending : None(id * 2 + 33, cbt[Newest + 1]))'
      BY <1>4, <1>5 DEF newest, None, get_CBT_array
    <2> QED
      BY <2>1, <2>2 DEF Collected
  <1>9. GcSparesNewest'
    BY <1>2 DEF GcSparesNewest
  <1> QED
    BY <1>5, <1>8, <1>9 DEF JInv, FilesHold

\* An older table changes nothing that the newest version needs.
LEMMA ReadOlderJInv ==
  ASSUME IInv, JInv, check_last_container_bit_table
  PROVE  JInv'
  <1> DEFINE table == get_newest_container_bit_table(last)
             U == [c \in DOMAIN RTMhead |->
                     IF c - 1 \in pending /\ Full(c - 1, table)
                       THEN update_RTM_to_same_backupversion(RTMhead[c], table.bv)
                       ELSE RTMhead[c]]
  <1>1. /\ phase = "gc" /\ phase' \in {"count", "gc"} /\ UNCHANGED files
        /\ RTMhead' = U /\ pending' \subseteq pending
    BY DEF check_last_container_bit_table
  <1>2. cbt # <<>>
    BY <1>1 DEF IInv, Counted
  <1>3. /\ NoGaps' /\ NoneEmpty' /\ OpenFits' /\ FilesHold'
        /\ Newest' = Newest /\ rtm' = rtm /\ cbt' = cbt
        /\ \A c, i : Needed(c, i)' = Needed(c, i)
        /\ \A n, t : None(n, t)' = None(n, t)
    BY <1>1, CollectorKeeps
  <1>4. /\ DOMAIN RTMhead = DOMAIN rtm
        /\ \A c \in DOMAIN rtm :
             /\ DOMAIN RTMhead[c] = DOMAIN rtm[c]
             /\ \A i \in DOMAIN rtm[c] : Needed(c, i) => RTMhead[c][i] >= Newest
        /\ \A id \in pending : None(id * 2 + 33, cbt[Newest + 1])
    BY <1>1 DEF JInv, Collected
  <1> HIDE DEF table
  <1>5. ASSUME NEW c \in DOMAIN rtm
        PROVE  /\ DOMAIN U[c] = DOMAIN rtm[c]
               /\ \A i \in DOMAIN rtm[c] : Needed(c, i) => U[c][i] >= Newest
    <2>1. CASE c - 1 \in pending /\ Full(c - 1, table)
      <3>1. U[c] = update_RTM_to_same_backupversion(RTMhead[c], table.bv)
        BY <1>4, <2>1
      <3>2. \A i \in DOMAIN rtm[c] : ~Needed(c, i)
        <4>1. None((c - 1) * 2 + 33, cbt[Newest + 1])
          BY <1>4, <2>1
        <4> QED
          BY <1>2, <4>1, NeededTimes
      <3> HIDE DEF U
      <3> QED
        BY <1>4, <3>1, <3>2, UpdateFacts
    <2>2. CASE ~(c - 1 \in pending /\ Full(c - 1, table))
      <3>1. U[c] = RTMhead[c]
        BY <1>4, <2>2
      <3> HIDE DEF U
      <3> QED
        BY <1>4, <3>1
    <2> QED
      BY <2>1, <2>2
  <1>6. DOMAIN U = DOMAIN rtm
    BY <1>4
  <1> HIDE DEF U
  <1>7. Collected'
    <2>1. /\ DOMAIN RTMhead' = DOMAIN rtm'
          /\ \A c \in DOMAIN rtm' :
               /\ DOMAIN RTMhead'[c] = DOMAIN rtm'[c]
               /\ \A i \in DOMAIN rtm'[c] : Needed(c, i)' => RTMhead'[c][i] >= Newest'
      BY <1>1, <1>3, <1>5, <1>6
    <2>2. (\A id \in pending : None(id * 2 + 33, cbt[Newest + 1]))'
      BY <1>1, <1>3, <1>4 DEF None, get_CBT_array
    <2> QED
      BY <2>1, <2>2 DEF Collected
  <1>8. GcSparesNewest'
    BY <1>1 DEF GcSparesNewest
  <1> QED
    BY <1>3, <1>7, <1>8 DEF JInv, FilesHold

\* What is counted has a time before the newest version.
LEMMA CountJInv ==
  ASSUME IInv, JInv, gc_reference_time_map_patch
  PROVE  JInv'
  <1>1. /\ phase = "count" /\ phase' = "done" /\ deleteversion' = deleteversion
        /\ UNCHANGED files
        /\ counted' = {chunk \in UNION {Chunks(c - 1, RTMhead) : c \in DOMAIN RTMhead} :
                         RTMhead[chunk[1] + 1][chunk[2] + 1] <= deleteversion}
    BY DEF gc_reference_time_map_patch
  <1>2. cbt # <<>>
    BY <1>1 DEF IInv, Counted
  <1>3. /\ NoGaps' /\ NoneEmpty' /\ OpenFits' /\ FilesHold'
        /\ Newest' = Newest /\ rtm' = rtm /\ cbt' = cbt /\ history' = history
    BY <1>1, CollectorKeeps
  <1>4. /\ DOMAIN RTMhead = DOMAIN rtm
        /\ \A c \in DOMAIN rtm :
             /\ DOMAIN RTMhead[c] = DOMAIN rtm[c]
             /\ \A i \in DOMAIN rtm[c] : Needed(c, i) => RTMhead[c][i] >= Newest
    BY <1>1 DEF JInv, Collected
  <1>5. Newest \in Nat /\ deleteversion \in Nat
    BY <1>2, NewestRead DEF IInv, TypeOK
  <1>6. ASSUME NEW chunk \in counted' \cap Referred(Newest), deleteversion < Newest
        PROVE  \/ chunk[1] \in history[Newest + 1].last
               \/ chunk[2] = Len(rtm[chunk[1] + 1]) - 1
    <2>1. PICK c \in DOMAIN RTMhead : chunk \in Chunks(c - 1, RTMhead)
      BY <1>1
    <2>2. /\ c \in Nat \ {0} /\ (c - 1) + 1 = c /\ Len(RTMhead[c]) \in Nat
          /\ DOMAIN RTMhead[c] = 1 .. Len(RTMhead[c])
          /\ \A k \in DOMAIN RTMhead[c] : RTMhead[c][k] \in Nat
          /\ Len(rtm[c]) \in Nat /\ DOMAIN rtm[c] = 1 .. Len(rtm[c])
      BY <1>4, Shapes DEF IInv
    <2>3. chunk \in {c - 1} \X (0 .. Len(RTMhead[c]) - 1)
      BY <2>1, <2>2 DEF Chunks
    <2> DEFINE i == chunk[2] + 1
    <2>4. /\ chunk[1] = c - 1 /\ chunk[1] + 1 = c /\ chunk[2] \in Nat
          /\ chunk = <<c - 1, chunk[2]>> /\ i - 1 = chunk[2] /\ i \in DOMAIN RTMhead[c]
      BY <2>2, <2>3
    <2>5. RTMhead[c][i] <= deleteversion /\ RTMhead[c][i] \in Nat
      BY <1>1, <2>2, <2>4
    <2>6. ~(RTMhead[c][i] >= Newest)
      BY <1>5, <1>6, <2>5
    <2>7. ~Needed(c, i)
      BY <1>4, <2>4, <2>6
    <2>8. <<c - 1, i - 1>> \in Referred(Newest)
      BY <1>6, <2>4
    <2>9. i = Len(rtm[c]) => chunk[2] = Len(rtm[c]) - 1
      BY <2>2, <2>4
    <2> QED
      BY <2>4, <2>7, <2>8, <2>9 DEF Needed
  <1>7. GcSparesNewest'
    BY <1>1, <1>3, <1>6 DEF GcSparesNewest, Referred, Newest
  <1>8. Collected'
    BY <1>1 DEF Collected
  <1> QED
    BY <1>3, <1>7, <1>8 DEF JInv, FilesHold

\* A collector that has ended leaves the files to the next backup.
LEMMA EndCollectionJInv ==
  ASSUME IInv, JInv, EndCollection
  PROVE  JInv'
  <1>1. phase = "done" /\ phase' = "idle" /\ UNCHANGED files
    BY DEF EndCollection
  <1>2. NoGaps' /\ NoneEmpty' /\ OpenFits' /\ FilesHold'
    BY <1>1, CollectorKeeps
  <1>3. Collected' /\ GcSparesNewest'
    BY <1>1 DEF Collected, GcSparesNewest
  <1> QED
    BY <1>2, <1>3 DEF JInv, FilesHold

-----------------------------------------------------------------------------
(* The theorems.                                                           *)

\* Every step keeps the invariant.
LEMMA NextJInv == IInv /\ JInv /\ [Next]_vars => JInv'
  <1> SUFFICES ASSUME IInv, JInv, [Next]_vars PROVE JInv'
    OBVIOUS
  <1>1. CASE StartBackup
    BY <1>1, StartBackupJInv
  <1>2. CASE \E c \in DOMAIN rtm : \E i \in DOMAIN rtm[c] : Lookup(c - 1, i - 1)
    <2>1. PICK c \in DOMAIN rtm : \E i \in DOMAIN rtm[c] : Lookup(c - 1, i - 1)
      BY <1>2
    <2>2. PICK i \in DOMAIN rtm[c] : Lookup(c - 1, i - 1)
      BY <2>1
    <2>3. c - 1 \in Nat /\ i - 1 \in Nat
      BY Shapes DEF IInv
    <2> QED
      BY <2>2, <2>3, LookupJInv
  <1>3. CASE \E n \in Sizes : AppendContainer(n)
    BY <1>3, AppendContainerJInv
  <1>4. CASE \E g \in Garbage : CloseBackup(g)
    BY <1>4, CloseBackupJInv
  <1>5. CASE \E d \in 0 .. Len(cbt) - 1 : get_real_reference_time_map(d)
    BY <1>5, ReadNewestJInv
  <1>6. CASE check_last_container_bit_table
    BY <1>6, ReadOlderJInv
  <1>7. CASE gc_reference_time_map_patch
    BY <1>7, CountJInv
  <1>8. CASE EndCollection
    BY <1>8, EndCollectionJInv
  <1>9. CASE UNCHANGED vars
    <2>1. /\ phase' = phase /\ ishead' = ishead /\ globle_shift' = globle_shift
          /\ RTMhead' = RTMhead /\ rtm' = rtm /\ cbt' = cbt /\ pending' = pending
          /\ counted' = counted /\ deleteversion' = deleteversion /\ history' = history
      BY <1>9 DEF vars
    <2>2. FilesHold'
      BY <2>1, FilesHoldOn
    <2>3. NoGaps' /\ NoneEmpty' /\ OpenFits'
      BY <2>1 DEF JInv, NoGaps, NoneEmpty, OpenFits, EndOf, ShiftOf
    <2>4. Collected' /\ GcSparesNewest'
      <3>1. Newest' = Newest /\ \A v : Referred(v)' = Referred(v)
        BY <2>1 DEF Newest, Referred
      <3>2. \A c, i : Needed(c, i)' = Needed(c, i)
        BY <2>1, <3>1 DEF Needed, Referred
      <3>3. \A n, t : None(n, t)' = None(n, t)
        BY DEF None, get_CBT_array
      <3> QED
        BY <2>1, <3>1, <3>2, <3>3 DEF JInv, Collected, GcSparesNewest, Referred
    <2> QED
      BY <2>2, <2>3, <2>4 DEF JInv, FilesHold
  <1> QED
    BY <1>1, <1>2, <1>3, <1>4, <1>5, <1>6, <1>7, <1>8, <1>9 DEF Next

\* The invariant holds of every backup and collection.
LEMMA CollectorInvariant == Spec => []JInv
  BY Invariant, InitJInv, NextJInv, PTL DEF Spec

\* Whatever the sizes of the containers, the order in which a backup meets them
\* and the unset chunk_num of the last one, the attributes that get_attribute
\* writes are true of all chunks of a container but the last.
THEOREM AttributesAlwaysTrue == Spec => []AttributesButLast
  <1>1. JInv => AttributesButLast
    BY DEF JInv
  <1> QED
    BY <1>1, CollectorInvariant, PTL

\* However many tables the collector reads, it never counts a chunk that the
\* newest version refers to, outside the last chunk of a container and the last
\* container met.
THEOREM NewestAlwaysSpared == Spec => []GcSparesNewest
  <1>1. JInv => GcSparesNewest
    BY DEF JInv
  <1> QED
    BY <1>1, CollectorInvariant, PTL
=============================================================================
