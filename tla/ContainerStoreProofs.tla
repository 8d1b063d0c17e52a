------------------------ MODULE ContainerStoreProofs ------------------------
(***************************************************************************)
(* For every set of fingerprints, every size of the buffer and every number*)
(* of containers and jobs: a container that the index names can be read,   *)
(* the reference time map follows the file, nothing is written over, and a *)
(* closed store is complete.                                               *)
(*                                                                         *)
(* The argument follows a container on its way.  Ids are given out in      *)
(* order and each step of the way is a queue, so the containers popped,    *)
(* those in the buffer and the open one are consecutive ranges of ids:     *)
(*     0 .. PoppedCount - 1  |  the buffer  |  the open container, if any  *)
(* append_thread is between two of these ranges when it has written a      *)
(* container that it has not popped.                                       *)
(***************************************************************************)
EXTENDS ContainerStore, SequenceTheorems, FiniteSetTheorems, TLAPS

\* How many containers append_thread has popped: it adds to rtm first.
PoppedCount ==
  IF append \in {"write", "pop"} THEN Len(rtm) - 1 ELSE Len(rtm)

Queued == PoppedCount + Len(buffer)

BufferInOrder == \A k \in 1..Len(buffer) : buffer[k].id = PoppedCount + k - 1

DiskIsPrefix ==
  /\ DOMAIN disk = IF append = "pop" THEN 0..PoppedCount
                                     ELSE 0..(PoppedCount - 1)
  /\ \A i \in DOMAIN disk : disk[i].id = i
  /\ append = "pop" => disk[PoppedCount] = buffer[1]

RtmInOrder ==
  /\ append = "write" => rtm[Len(rtm)].len = Cardinality(buffer[1].fps)
  /\ \A k \in 1..Len(rtm) : rtm[k].id = k - 1
  /\ \A k \in 1..Len(rtm) :
       k - 1 \in DOMAIN disk => rtm[k].len = Cardinality(disk[k - 1].fps)

AppendHasWork ==
  /\ append \in {"write", "pop"} => rtm # <<>>
  /\ append \in {"rtm", "write", "pop"} => buffer # <<>>
  /\ append = "gone" => buffer = <<>> /\ phase # "running"

OpenIsNext ==
  /\ filter \in {"push", "last"} => open # NoContainer
  /\ open # NoContainer /\ filter # "done" => open.id = Queued
  /\ count = IF open # NoContainer /\ filter # "done" THEN Queued + 1
                                                      ELSE Queued

Phases ==
  /\ phase # "running" => filter = "done"
  /\ filter \in {"last", "done"} => reader = "gone"
  /\ phase = "closed" => append = "gone" /\ saved = count

Locked ==
  /\ filter = "push" => lock = "filter"
  /\ reader \in {"find", "read"} => lock = "dedup" /\ target \in known

OnDisk(e) == e[2] \in DOMAIN disk /\ e[1] \in disk[e[2]].fps
InBuffer(e) ==
  \E k \in 1..Len(buffer) : buffer[k].id = e[2] /\ e[1] \in buffer[k].fps
BeingQueued(e) ==
  filter \in {"push", "last"} /\ e[2] = open.id /\ e[1] \in open.fps

KnownAreSomewhere == \A e \in known : OnDisk(e) \/ InBuffer(e) \/ BeingQueued(e)

IInv ==
  /\ TypeOK
  /\ BufferInOrder
  /\ DiskIsPrefix
  /\ RtmInOrder
  /\ AppendHasWork
  /\ OpenIsNext
  /\ Phases
  /\ Locked
  /\ KnownAreSomewhere
  /\ ReaderFinds

\* What Append and Tail do to a sequence.
LEMMA AppendFacts ==
  ASSUME NEW S, NEW q \in Seq(S), NEW x \in S
  PROVE  /\ Append(q, x) \in Seq(S)
         /\ Len(q) \in Nat /\ Len(Append(q, x)) = Len(q) + 1
         /\ Append(q, x) # <<>>
         /\ Append(q, x)[Len(q) + 1] = x
         /\ \A k \in 1..Len(q) : Append(q, x)[k] = q[k]
  <1>1. /\ Append(q, x) \in Seq(S) /\ Len(Append(q, x)) = Len(q) + 1
        /\ Append(q, x)[Len(q) + 1] = x
        /\ \A k \in 1..Len(q) : Append(q, x)[k] = q[k]
    BY AppendProperties
  <1>2. Len(q) \in Nat /\ Len(<<>>) = 0
    BY LenProperties, EmptySeq
  <1> QED
    BY <1>1, <1>2

LEMMA SeqFacts ==
  ASSUME NEW S, NEW q \in Seq(S)
  PROVE  /\ Len(q) \in Nat
         /\ q = <<>> <=> Len(q) = 0
         /\ \A k \in 1..Len(q) : q[k] \in S
         /\ q # <<>> => /\ Head(q) = q[1] /\ Head(q) \in S
                        /\ Tail(q) \in Seq(S)
                        /\ Len(Tail(q)) = Len(q) - 1
                        /\ \A k \in 1..(Len(q) - 1) : Tail(q)[k] = q[k + 1]
  <1>1. Len(q) \in Nat /\ (q = <<>> <=> Len(q) = 0)
    BY EmptySeq, LenProperties
  <1>2. \A k \in 1..Len(q) : q[k] \in S
    BY ElementOfSeq
  <1>3. ASSUME q # <<>>
        PROVE  /\ Head(q) = q[1] /\ Head(q) \in S
               /\ Tail(q) \in Seq(S)
               /\ Len(Tail(q)) = Len(q) - 1
               /\ \A k \in 1..(Len(q) - 1) : Tail(q)[k] = q[k + 1]
    BY <1>3, HeadTailProperties
  <1> QED
    BY <1>1, <1>2, <1>3

\* A container has a number of chunks, as there are finitely many.
LEMMA ChunkNum == \A c \in Containers : Cardinality(c.fps) \in Nat
  BY StoreAssumption, FS_Subset, FS_CardinalityType DEF Containers

\* The lengths that the invariant speaks of.
LEMMA Lengths ==
  ASSUME TypeOK, AppendHasWork
  PROVE  /\ Len(buffer) \in Nat /\ Len(rtm) \in Nat
         /\ PoppedCount \in Nat /\ Queued \in Nat
         /\ Len(buffer) = 0 <=> buffer = <<>>
         /\ \A k \in 1..Len(buffer) : buffer[k] \in Containers
         /\ buffer # <<>> => Head(buffer) = buffer[1] /\ 1 \in 1..Len(buffer)
  <1>1. /\ Len(buffer) \in Nat /\ (buffer = <<>> <=> Len(buffer) = 0)
        /\ \A k \in 1..Len(buffer) : buffer[k] \in Containers
        /\ buffer # <<>> => Head(buffer) = buffer[1]
    BY SeqFacts DEF TypeOK
  <1>2. /\ Len(rtm) \in Nat /\ (rtm = <<>> <=> Len(rtm) = 0)
    BY SeqFacts DEF TypeOK
  <1>3. PoppedCount \in Nat
    BY <1>2 DEF AppendHasWork, PoppedCount
  <1> QED
    BY <1>1, <1>2, <1>3 DEF Queued

\* A closed store starts empty.
LEMMA InitIInv == Init => IInv
  <1> SUFFICES ASSUME Init PROVE IInv
    OBVIOUS
  <1>1. <<>> \in Seq(Containers) /\ Len(<<>>) = 0
        /\ <<>> \in Seq([id : Nat, len : Nat, time : Nat])
    BY EmptySeq
  <1>2. DOMAIN disk = {} /\ 0..(0 - 1) = {}
    BY DEF Init
  <1>3. TypeOK
    BY <1>1, <1>2 DEF Init, TypeOK
  <1>4. PoppedCount = 0 /\ Queued = 0
    BY <1>1 DEF Init, PoppedCount, Queued
  <1>5. BufferInOrder /\ DiskIsPrefix /\ RtmInOrder
    BY <1>1, <1>2, <1>4 DEF Init, BufferInOrder, DiskIsPrefix, RtmInOrder
  <1>6. AppendHasWork /\ OpenIsNext /\ Phases
    BY <1>4 DEF Init, AppendHasWork, OpenIsNext, Phases
  <1>7. Locked /\ KnownAreSomewhere /\ ReaderFinds
    BY DEF Init, Locked, KnownAreSomewhere, ReaderFinds
  <1> QED
    BY <1>3, <1>5, <1>6, <1>7 DEF IInv

-----------------------------------------------------------------------------
(* Steps that touch neither the buffer nor what has been written.          *)

StoreUnchanged ==
  /\ UNCHANGED <<buffer, disk, rtm>>
  /\ append' = append \/ {append, append'} \subseteq {"top", "rtm", "gone"}

LEMMA Untouched ==
  ASSUME IInv, StoreUnchanged
  PROVE  /\ PoppedCount' = PoppedCount /\ Queued' = Queued
         /\ BufferInOrder' /\ DiskIsPrefix' /\ RtmInOrder'
         /\ \A e : OnDisk(e)' = OnDisk(e)
         /\ \A e : InBuffer(e)' = InBuffer(e)
  <1>1. /\ buffer' = buffer /\ disk' = disk /\ rtm' = rtm
        /\ append' = append \/ {append, append'} \subseteq {"top", "rtm", "gone"}
    BY DEF StoreUnchanged
  <1>2. PoppedCount' = PoppedCount /\ Queued' = Queued
    BY <1>1 DEF PoppedCount, Queued
  <1>3. BufferInOrder'
    BY <1>1, <1>2 DEF IInv, BufferInOrder
  <1>4. DiskIsPrefix'
    BY <1>1, <1>2 DEF IInv, DiskIsPrefix
  <1>5. RtmInOrder'
    BY <1>1 DEF IInv, RtmInOrder
  <1>6. \A e : OnDisk(e)' = OnDisk(e)
    BY <1>1 DEF OnDisk
  <1>7. \A e : InBuffer(e)' = InBuffer(e)
    BY <1>1 DEF InBuffer
  <1> QED
    BY <1>2, <1>3, <1>4, <1>5, <1>6, <1>7

\* The filter phase takes and leaves index_lock.
LEMMA FilterLockIInv ==
  ASSUME IInv, FilterLock \/ FilterUnlock
  PROVE  IInv'
  <1>1. StoreUnchanged
    BY DEF FilterLock, FilterUnlock, StoreUnchanged
  <1>2. TypeOK'
    BY DEF IInv, TypeOK, FilterLock, FilterUnlock, storeVars
  <1>3. AppendHasWork' /\ OpenIsNext' /\ Phases'
    BY <1>1, Untouched DEF IInv, AppendHasWork, OpenIsNext, Phases, FilterLock,
       FilterUnlock, storeVars
  <1>4. Locked'
    BY DEF IInv, Locked, FilterLock, FilterUnlock, storeVars
  <1>5. KnownAreSomewhere'
    BY <1>1, Untouched DEF IInv, KnownAreSomewhere, BeingQueued, FilterLock,
       FilterUnlock, storeVars
  <1>6. ReaderFinds'
    BY DEF IInv, ReaderFinds, FilterLock, FilterUnlock, storeVars
  <1> QED
    BY <1>1, <1>2, <1>3, <1>4, <1>5, <1>6, Untouched DEF IInv

\* A chunk goes into the open container, or opens the next one.
LEMMA StoreChunkIInv ==
  ASSUME IInv, NEW f \in Fps, StoreChunk(f)
  PROVE  IInv'
  <1>1. StoreUnchanged
    BY DEF StoreChunk, StoreUnchanged
  <1>2. count \in Nat /\ open \in Containers \union {NoContainer}
    BY DEF IInv, TypeOK
  <1>3. /\ open' \in Containers /\ count' \in Nat /\ open' # NoContainer
        /\ open # NoContainer => open'.id = open.id /\ count' = count
        /\ open = NoContainer => open'.id = count /\ count' = count + 1
    BY <1>2 DEF StoreChunk, Created, Containers, NoContainer
  <1>4. TypeOK'
    BY <1>3 DEF IInv, TypeOK, StoreChunk
  <1>5. OpenIsNext'
    BY <1>1, <1>3, Untouched, Lengths DEF IInv, OpenIsNext, StoreChunk
  <1>6. AppendHasWork' /\ Phases'
    BY DEF IInv, AppendHasWork, Phases, StoreChunk
  <1>7. Locked' /\ ReaderFinds'
    BY DEF IInv, Locked, ReaderFinds, StoreChunk
  <1>8. KnownAreSomewhere'
    BY <1>1, Untouched DEF IInv, KnownAreSomewhere, BeingQueued, StoreChunk
  <1> QED
    BY <1>1, <1>4, <1>5, <1>6, <1>7, <1>8, Untouched DEF IInv

\* The index names the open container, which is about to be queued.
LEMMA PublishedTypes ==
  ASSUME TypeOK, open # NoContainer
  PROVE  /\ Published \subseteq Fps \X Nat
         /\ \A e \in Published : \/ e \in known
                                 \/ e[2] = open.id /\ e[1] \in open.fps
  <1>1. open.id \in Nat /\ open.fps \subseteq Fps
    BY DEF TypeOK, Containers
  <1> QED
    BY <1>1 DEF TypeOK, Published

LEMMA SealContainerIInv ==
  ASSUME IInv, SealContainer
  PROVE  IInv'
  <1>1. StoreUnchanged
    BY DEF SealContainer, StoreUnchanged, storeVars
  <1>2. TypeOK'
    BY PublishedTypes DEF IInv, TypeOK, SealContainer, storeVars
  <1>3. OpenIsNext'
    BY <1>1, Untouched DEF IInv, OpenIsNext, SealContainer, storeVars
  <1>4. AppendHasWork' /\ Phases'
    BY DEF IInv, AppendHasWork, Phases, SealContainer, storeVars
  <1>5. Locked' /\ ReaderFinds'
    BY DEF IInv, TypeOK, Locked, ReaderFinds, SealContainer, storeVars
  <1>6. KnownAreSomewhere'
    <2> SUFFICES ASSUME NEW e \in known'
                 PROVE  (OnDisk(e) \/ InBuffer(e) \/ BeingQueued(e))'
      BY DEF KnownAreSomewhere
    <2>1. CASE e \in known
      BY <1>1, <2>1, Untouched
         DEF IInv, KnownAreSomewhere, BeingQueued, SealContainer
    <2>2. CASE e[2] = open.id /\ e[1] \in open.fps
      BY <2>2 DEF BeingQueued, SealContainer
    <2> QED
      BY <2>1, <2>2, PublishedTypes DEF IInv, SealContainer
  <1> QED
    BY <1>1, <1>2, <1>3, <1>4, <1>5, <1>6, Untouched DEF IInv

LEMMA LastContainerIInv ==
  ASSUME IInv, LastContainer
  PROVE  IInv'
  <1>1. StoreUnchanged
    BY DEF LastContainer, StoreUnchanged, storeVars
  <1>2. TypeOK'
    BY PublishedTypes DEF IInv, TypeOK, LastContainer, storeVars
  <1>3. OpenIsNext'
    BY <1>1, Untouched DEF IInv, OpenIsNext, LastContainer, storeVars
  <1>4. AppendHasWork' /\ Phases'
    BY DEF IInv, AppendHasWork, Phases, LastContainer, storeVars
  <1>5. Locked' /\ ReaderFinds'
    BY DEF IInv, Locked, ReaderFinds, LastContainer, storeVars
  <1>6. KnownAreSomewhere'
    <2> SUFFICES ASSUME NEW e \in known'
                 PROVE  (OnDisk(e) \/ InBuffer(e) \/ BeingQueued(e))'
      BY DEF KnownAreSomewhere
    <2>1. CASE e \in known
      BY <1>1, <2>1, Untouched
         DEF IInv, KnownAreSomewhere, BeingQueued, LastContainer
    <2>2. CASE open # NoContainer /\ e[2] = open.id /\ e[1] \in open.fps
      BY <2>2 DEF BeingQueued, LastContainer
    <2> QED
      BY <2>1, <2>2, PublishedTypes DEF IInv, LastContainer
  <1> QED
    BY <1>1, <1>2, <1>3, <1>4, <1>5, <1>6, Untouched DEF IInv

\* The dedup phase begins a lookup, does not find the container in the
\* buffer, reads it, or ends.
LEMMA LookupIInv ==
  ASSUME IInv, Lookup \/ ReadFromDisk \/ DedupEnds
  PROVE  IInv'
  <1>1. StoreUnchanged
    BY DEF Lookup, ReadFromDisk, DedupEnds, StoreUnchanged, storeVars
  <1>2. TypeOK'
    BY DEF IInv, TypeOK, Lookup, ReadFromDisk, DedupEnds, storeVars
  <1>3. AppendHasWork' /\ OpenIsNext' /\ Phases'
    BY <1>1, Untouched DEF IInv, TypeOK, AppendHasWork, OpenIsNext, Phases,
       Lookup, ReadFromDisk, DedupEnds, storeVars
  <1>4. Locked' /\ ReaderFinds'
    BY DEF IInv, Locked, ReaderFinds, Lookup, ReadFromDisk, DedupEnds, storeVars
  <1>5. KnownAreSomewhere'
    BY <1>1, Untouched DEF IInv, KnownAreSomewhere, BeingQueued, Lookup,
       ReadFromDisk, DedupEnds, storeVars
  <1> QED
    BY <1>1, <1>2, <1>3, <1>4, <1>5, Untouched DEF IInv

LEMMA FindInBufferIInv ==
  ASSUME IInv, FindInBuffer
  PROVE  IInv'
  <1>1. StoreUnchanged
    BY DEF FindInBuffer, StoreUnchanged, storeVars
  <1>2. TypeOK'
    BY DEF IInv, TypeOK, FindInBuffer, storeVars
  <1>3. AppendHasWork' /\ OpenIsNext' /\ Phases'
    BY <1>1, Untouched DEF IInv, TypeOK, AppendHasWork, OpenIsNext, Phases,
       FindInBuffer, storeVars
  <1>4. Locked'
    BY DEF IInv, Locked, FindInBuffer, storeVars
  <1>5. ReaderFinds'
    <2>1. CASE Buffered(target[2])
      BY <2>1 DEF ReaderFinds, FindInBuffer
    <2>2. CASE ~Buffered(target[2])
      <3>1. reader = "find" /\ target \in known /\ lock = "dedup"
        BY DEF IInv, Locked, FindInBuffer
      <3>2. ~BeingQueued(target)
        BY <3>1 DEF IInv, Locked, Phases, BeingQueued
      <3>3. ~InBuffer(target)
        <4>1. DOMAIN buffer = 1..Len(buffer)
          BY LenProperties DEF IInv, TypeOK
        <4> QED
          BY <2>2, <4>1 DEF InBuffer, Buffered
      <3>4. OnDisk(target)
        BY <3>1, <3>2, <3>3 DEF IInv, KnownAreSomewhere
      <3> QED
        BY <3>4 DEF IInv, DiskIsPrefix, OnDisk, ReaderFinds, FindInBuffer
    <2> QED
      BY <2>1, <2>2
  <1>6. KnownAreSomewhere'
    BY <1>1, Untouched DEF IInv, KnownAreSomewhere, BeingQueued, FindInBuffer,
       storeVars
  <1> QED
    BY <1>1, <1>2, <1>3, <1>4, <1>5, <1>6, Untouched DEF IInv

\* append_thread finds a container, or the end; the main thread closes the
\* store and opens the next one.
LEMMA GetTopIInv ==
  ASSUME IInv, GetTop
  PROVE  IInv'
  <1>1. StoreUnchanged
    BY DEF GetTop, StoreUnchanged, storeVars
  <1>2. TypeOK'
    BY DEF IInv, TypeOK, GetTop, storeVars
  <1>3. AppendHasWork' /\ OpenIsNext' /\ Phases'
    BY <1>1, Untouched DEF IInv, TypeOK, AppendHasWork, OpenIsNext, Phases,
       GetTop, storeVars
  <1>4. Locked' /\ ReaderFinds'
    BY DEF IInv, Locked, ReaderFinds, GetTop, storeVars
  <1>5. KnownAreSomewhere'
    BY <1>1, Untouched DEF IInv, KnownAreSomewhere, BeingQueued, GetTop,
       storeVars
  <1> QED
    BY <1>1, <1>2, <1>3, <1>4, <1>5, Untouched DEF IInv

LEMMA MainIInv ==
  ASSUME IInv, Main
  PROVE  IInv'
  <1>1. StoreUnchanged
    BY DEF IInv, Phases, Main, CloseStore, SaveCount, InitStore, StoreUnchanged
  <1>2. TypeOK'
    BY SMTT(60) DEF IInv, TypeOK, Main, CloseStore, SaveCount, InitStore
  <1>3. AppendHasWork'
    BY DEF IInv, AppendHasWork, Main, CloseStore, SaveCount, InitStore
  <1>4. OpenIsNext'
    BY <1>1, Untouched DEF IInv, OpenIsNext, Phases, Main, CloseStore,
       SaveCount, InitStore
  <1>5. Phases'
    BY DEF IInv, Phases, Main, CloseStore, SaveCount, InitStore
  <1>6. Locked' /\ ReaderFinds'
    BY DEF IInv, Phases, Locked, ReaderFinds, Main, CloseStore, SaveCount,
       InitStore
  <1>7. KnownAreSomewhere'
    BY <1>1, Untouched DEF IInv, Phases, KnownAreSomewhere, BeingQueued, Main,
       CloseStore, SaveCount, InitStore
  <1> QED
    BY <1>1, <1>2, <1>3, <1>4, <1>5, <1>6, <1>7, Untouched DEF IInv

-----------------------------------------------------------------------------
(* Steps that move a container on its way.                                 *)

\* A full container, or the last one, enters the buffer behind the others.
LEMMA PushedIInv ==
  ASSUME IInv, buffer' = Append(buffer, open), filter \in {"push", "last"},
         UNCHANGED <<disk, rtm, append>>
  PROVE  /\ buffer' \in Seq(Containers)
         /\ PoppedCount' = PoppedCount /\ Queued' = Queued + 1
         /\ BufferInOrder' /\ DiskIsPrefix' /\ RtmInOrder'
         /\ \A e \in known : OnDisk(e)' \/ InBuffer(e)'
  <1>1. open \in Containers /\ open.id = Queued
    BY DEF IInv, OpenIsNext, TypeOK
  <1>2. /\ buffer \in Seq(Containers) /\ Len(buffer) \in Nat
        /\ PoppedCount \in Nat
    BY Lengths DEF IInv, TypeOK
  <1>3. /\ buffer' \in Seq(Containers)
        /\ Len(buffer') = Len(buffer) + 1
        /\ buffer'[Len(buffer) + 1] = open
        /\ \A k \in 1..Len(buffer) : buffer'[k] = buffer[k]
    BY <1>1, <1>2, AppendFacts
  <1>4. PoppedCount' = PoppedCount /\ Queued' = Queued + 1
    <2>1. PoppedCount' = PoppedCount
      BY DEF PoppedCount
    <2> QED
      BY <1>2, <1>3, <2>1 DEF Queued
  <1>5. BufferInOrder'
    BY <1>1, <1>2, <1>3, <1>4 DEF IInv, BufferInOrder, Queued
  <1>6. append \in {"write", "pop"} => buffer'[1] = buffer[1]
    BY <1>2, <1>3, Lengths DEF IInv, AppendHasWork
  <1>7. DiskIsPrefix'
    BY <1>4, <1>6 DEF IInv, DiskIsPrefix
  <1>8. RtmInOrder'
    BY <1>6 DEF IInv, RtmInOrder
  <1>9. \A e \in known : OnDisk(e)' \/ InBuffer(e)'
    <2> SUFFICES ASSUME NEW e \in known, ~OnDisk(e)
                 PROVE  InBuffer(e)'
      BY DEF OnDisk
    <2>1. CASE InBuffer(e)
      BY <1>2, <1>3, <2>1 DEF InBuffer
    <2>2. CASE BeingQueued(e)
      BY <1>2, <1>3, <2>2 DEF InBuffer, BeingQueued
    <2> QED
      BY <2>1, <2>2 DEF IInv, KnownAreSomewhere
  <1> QED
    BY <1>3, <1>4, <1>5, <1>7, <1>8, <1>9

LEMMA PushContainerIInv ==
  ASSUME IInv, NEW f \in Fps, PushContainer(f)
  PROVE  IInv'
  <1>1. /\ buffer' = Append(buffer, open) /\ filter \in {"push", "last"}
        /\ UNCHANGED <<disk, rtm, append>> /\ known' = known
    BY DEF PushContainer
  <1>2. Queued \in Nat
    BY Lengths DEF IInv
  <1>3. count \in Nat /\ count = Queued + 1
    BY DEF IInv, TypeOK, OpenIsNext, PushContainer
  <1>4. open' \in Containers /\ open'.id = count /\ open' # NoContainer
    BY <1>3 DEF PushContainer, Created, Containers, NoContainer
  <1>5. TypeOK'
    BY <1>1, <1>3, <1>4, PushedIInv DEF IInv, TypeOK, PushContainer
  <1>6. OpenIsNext'
    BY <1>1, <1>2, <1>3, <1>4, PushedIInv DEF OpenIsNext, PushContainer
  <1>7. AppendHasWork'
    <2>1. buffer' # <<>>
      BY <1>1, <1>3, AppendFacts DEF IInv, TypeOK, OpenIsNext, PushContainer
    <2>2. append # "gone"
      BY DEF IInv, AppendHasWork, Phases, PushContainer
    <2> QED
      BY <2>1, <2>2 DEF IInv, AppendHasWork, PushContainer
  <1>8. Phases' /\ Locked' /\ ReaderFinds'
    BY DEF IInv, Phases, Locked, ReaderFinds, PushContainer
  <1>9. KnownAreSomewhere'
    BY <1>1, PushedIInv DEF KnownAreSomewhere
  <1> QED
    BY <1>1, <1>5, <1>6, <1>7, <1>8, <1>9, PushedIInv DEF IInv

LEMMA PushLastIInv ==
  ASSUME IInv, PushLast
  PROVE  IInv'
  <1>1. /\ buffer' = Append(buffer, open) /\ filter \in {"push", "last"}
        /\ UNCHANGED <<disk, rtm, append>> /\ known' = known
    BY DEF PushLast
  <1>2. TypeOK'
    BY <1>1, PushedIInv DEF IInv, TypeOK, PushLast, storeVars
  <1>3. OpenIsNext'
    BY <1>1, PushedIInv DEF IInv, OpenIsNext, PushLast, storeVars
  <1>4. AppendHasWork'
    <2>1. buffer' # <<>>
      BY <1>1, AppendFacts DEF IInv, TypeOK, OpenIsNext, PushLast
    <2>2. append # "gone"
      BY DEF IInv, AppendHasWork, Phases, PushLast
    <2> QED
      BY <2>1, <2>2 DEF IInv, AppendHasWork, PushLast, storeVars
  <1>5. Phases' /\ Locked' /\ ReaderFinds'
    BY DEF IInv, Phases, Locked, ReaderFinds, PushLast, storeVars
  <1>6. KnownAreSomewhere'
    BY <1>1, PushedIInv DEF KnownAreSomewhere
  <1> QED
    BY <1>1, <1>2, <1>3, <1>4, <1>5, <1>6, PushedIInv DEF IInv

\* The parts of the invariant that a step of append_thread leaves alone.
LEMMA AppendStep ==
  ASSUME IInv, append # "gone", append' # "gone", Queued' = Queued,
         UNCHANGED <<storeVars, open, known, lock, filter, reader, target>>
  PROVE  OpenIsNext' /\ Phases' /\ Locked'
  <1>1. OpenIsNext'
    BY DEF IInv, OpenIsNext, storeVars
  <1>2. Phases'
    BY DEF IInv, Phases, storeVars
  <1>3. Locked'
    BY DEF IInv, Locked, storeVars
  <1> QED
    BY <1>1, <1>2, <1>3

\* The entry of the reference time map, before the container is written.
LEMMA AddToRtmIInv ==
  ASSUME IInv, AddToRtm
  PROVE  IInv'
  <1> DEFINE entry == [id |-> Head(buffer).id,
                       len |-> Cardinality(Head(buffer).fps), time |-> job]
             Entries == [id : Nat, len : Nat, time : Nat]
  <1>1. /\ append = "rtm" /\ append' = "write" /\ rtm' = Append(rtm, entry)
        /\ UNCHANGED <<storeVars, open, known, buffer, disk, lock, filter,
                       reader, target>>
    BY DEF AddToRtm
  <1>2. /\ buffer # <<>> /\ Head(buffer) = buffer[1] /\ 1 \in 1..Len(buffer)
        /\ buffer[1] \in Containers /\ Len(buffer) \in Nat
        /\ PoppedCount \in Nat /\ PoppedCount = Len(rtm)
    BY <1>1, Lengths DEF IInv, AppendHasWork, PoppedCount
  <1>3. buffer[1].id = Len(rtm)
    BY <1>2 DEF IInv, BufferInOrder
  <1>4. Cardinality(buffer[1].fps) \in Nat
    BY <1>2, ChunkNum
  <1>5. entry \in Entries /\ rtm \in Seq(Entries)
    BY <1>2, <1>4 DEF IInv, TypeOK, Containers
  <1>6. /\ rtm' \in Seq(Entries) /\ rtm' # <<>>
        /\ Len(rtm') = Len(rtm) + 1 /\ rtm'[Len(rtm) + 1] = entry
        /\ \A k \in 1..Len(rtm) : rtm'[k] = rtm[k]
    BY <1>1, <1>5, AppendFacts
  <1>7. PoppedCount' = PoppedCount /\ Queued' = Queued
    BY <1>1, <1>2, <1>6 DEF PoppedCount, Queued
  <1>8. TypeOK'
    BY <1>1, <1>6 DEF IInv, TypeOK, storeVars
  <1>9. BufferInOrder' /\ DiskIsPrefix'
    BY <1>1, <1>7 DEF IInv, BufferInOrder, DiskIsPrefix
  <1>10. RtmInOrder'
    <2>1. rtm'[Len(rtm')].len = Cardinality(buffer[1].fps)
      BY <1>2, <1>6
    <2>2. ASSUME NEW k \in 1..Len(rtm')
          PROVE  rtm'[k].id = k - 1
      <3>1. CASE k \in 1..Len(rtm)
        BY <1>6, <3>1 DEF IInv, RtmInOrder
      <3>2. CASE k = Len(rtm) + 1
        BY <1>2, <1>3, <1>6, <3>2
      <3> QED
        BY <1>2, <1>6, <3>1, <3>2
    <2>3. Len(rtm) \notin DOMAIN disk
      BY <1>1, <1>2 DEF IInv, DiskIsPrefix
    <2>4. ASSUME NEW k \in 1..Len(rtm'), k - 1 \in DOMAIN disk
          PROVE  rtm'[k].len = Cardinality(disk[k - 1].fps)
      <3>1. k \in 1..Len(rtm)
        BY <1>2, <1>6, <2>3, <2>4
      <3> QED
        BY <1>6, <2>4, <3>1 DEF IInv, RtmInOrder
    <2> QED
      BY <1>1, <2>1, <2>2, <2>4 DEF RtmInOrder
  <1>11. AppendHasWork' /\ KnownAreSomewhere' /\ ReaderFinds'
    BY <1>1, <1>2, <1>6 DEF IInv, AppendHasWork, KnownAreSomewhere, OnDisk,
       InBuffer, BeingQueued, ReaderFinds
  <1> QED
    BY <1>1, <1>7, <1>8, <1>9, <1>10, <1>11, AppendStep DEF IInv

\* The container is written behind the others, and stays in the buffer.
LEMMA WriteContainerIInv ==
  ASSUME IInv, WriteContainer
  PROVE  IInv'
  <1> DEFINE c == buffer[1]
  <1>1. /\ append = "write" /\ append' = "pop"
        /\ UNCHANGED <<storeVars, open, known, buffer, rtm, lock, filter,
                       reader, target>>
    BY DEF WriteContainer
  <1>2. /\ buffer # <<>> /\ Head(buffer) = c /\ 1 \in 1..Len(buffer)
        /\ c \in Containers
        /\ PoppedCount \in Nat /\ PoppedCount = Len(rtm) - 1
        /\ Len(rtm) \in Nat
    BY <1>1, Lengths DEF IInv, AppendHasWork, PoppedCount
  <1>3. c.id = PoppedCount
    BY <1>2 DEF IInv, BufferInOrder
  <1>4. DOMAIN disk = 0..(PoppedCount - 1)
    BY <1>1 DEF IInv, DiskIsPrefix
  <1>5. disk' = [i \in DOMAIN disk \union {PoppedCount} |->
                   IF i = PoppedCount THEN c ELSE disk[i]]
    BY <1>2, <1>3 DEF WriteContainer
  <1>6. /\ DOMAIN disk' = 0..PoppedCount /\ disk'[PoppedCount] = c
        /\ \A i \in DOMAIN disk : i \in DOMAIN disk' /\ disk'[i] = disk[i]
        /\ \A i \in DOMAIN disk' : i = PoppedCount \/ i \in DOMAIN disk
    BY <1>2, <1>4, <1>5
  <1>7. PoppedCount' = PoppedCount /\ Queued' = Queued
    BY <1>1 DEF PoppedCount, Queued
  <1>8. TypeOK'
    BY <1>1, <1>2, <1>6 DEF IInv, TypeOK, storeVars
  <1>9. BufferInOrder'
    BY <1>1, <1>7 DEF IInv, BufferInOrder
  <1>10. DiskIsPrefix'
    BY <1>1, <1>3, <1>6, <1>7 DEF IInv, DiskIsPrefix
  <1>11. RtmInOrder'
    <2>1. rtm[PoppedCount + 1].len = Cardinality(c.fps)
      BY <1>1, <1>2 DEF IInv, RtmInOrder
    <2>2. ASSUME NEW k \in 1..Len(rtm), k - 1 \in DOMAIN disk'
          PROVE  rtm[k].len = Cardinality(disk'[k - 1].fps)
      <3>1. CASE k - 1 \in DOMAIN disk
        BY <1>6, <3>1 DEF IInv, RtmInOrder
      <3>2. CASE k - 1 = PoppedCount
        BY <1>2, <1>6, <2>1, <3>2
      <3> QED
        BY <1>6, <2>2, <3>1, <3>2
    <2> QED
      BY <1>1, <2>2 DEF IInv, RtmInOrder
  <1>12. AppendHasWork'
    BY <1>1 DEF IInv, AppendHasWork
  <1>13. KnownAreSomewhere' /\ ReaderFinds'
    BY <1>1, <1>6 DEF IInv, KnownAreSomewhere, OnDisk, InBuffer, BeingQueued,
       ReaderFinds
  <1> QED
    BY <1>1, <1>7, <1>8, <1>9, <1>10, <1>11, <1>12, <1>13, AppendStep DEF IInv

\* What leaves the buffer is on the disk.
LEMMA PopWrittenIInv ==
  ASSUME IInv, PopWritten
  PROVE  IInv'
  <1>1. /\ append = "pop" /\ append' = "top" /\ buffer' = Tail(buffer)
        /\ UNCHANGED <<storeVars, open, known, disk, rtm, lock, filter, reader,
                       target>>
    BY DEF PopWritten
  <1>2. /\ buffer # <<>> /\ buffer \in Seq(Containers) /\ Len(buffer) \in Nat
        /\ PoppedCount \in Nat /\ PoppedCount = Len(rtm) - 1
        /\ Len(rtm) \in Nat
    BY <1>1, Lengths DEF IInv, AppendHasWork, PoppedCount, TypeOK
  <1>3. /\ buffer' \in Seq(Containers) /\ Len(buffer') = Len(buffer) - 1
        /\ \A k \in 1..(Len(buffer) - 1) : buffer'[k] = buffer[k + 1]
    BY <1>1, <1>2, SeqFacts
  <1>4. PoppedCount' = PoppedCount + 1 /\ Queued' = Queued
    BY <1>1, <1>2, <1>3 DEF PoppedCount, Queued
  <1>5. TypeOK'
    BY <1>1, <1>3 DEF IInv, TypeOK, storeVars
  <1>6. BufferInOrder'
    <2> SUFFICES ASSUME NEW k \in 1..Len(buffer')
                 PROVE  buffer'[k].id = PoppedCount' + k - 1
      BY DEF BufferInOrder
    <2>1. k \in 1..(Len(buffer) - 1) /\ k + 1 \in 1..Len(buffer)
      BY <1>2, <1>3
    <2>2. buffer'[k] = buffer[k + 1]
      BY <1>3, <2>1
    <2>3. buffer[k + 1].id = PoppedCount + (k + 1) - 1
      BY <2>1 DEF IInv, BufferInOrder
    <2> QED
      BY <1>2, <1>4, <2>1, <2>2, <2>3
  <1>7. DiskIsPrefix'
    BY <1>1, <1>2, <1>4 DEF IInv, DiskIsPrefix
  <1>8. RtmInOrder' /\ AppendHasWork' /\ ReaderFinds'
    BY <1>1 DEF IInv, RtmInOrder, AppendHasWork, ReaderFinds
  <1>9. KnownAreSomewhere'
    <2> SUFFICES ASSUME NEW e \in known
                 PROVE  (OnDisk(e) \/ InBuffer(e) \/ BeingQueued(e))'
      BY <1>1 DEF KnownAreSomewhere
    <2>1. CASE OnDisk(e)
      BY <1>1, <2>1 DEF OnDisk
    <2>2. CASE BeingQueued(e)
      BY <1>1, <2>2 DEF BeingQueued
    <2>3. ASSUME NEW k \in 1..Len(buffer),
                 buffer[k].id = e[2], e[1] \in buffer[k].fps
          PROVE  OnDisk(e)' \/ InBuffer(e)'
      <3>1. CASE k = 1
        <4>1. PoppedCount \in DOMAIN disk /\ disk[PoppedCount] = buffer[1]
          BY <1>1, <1>2 DEF IInv, DiskIsPrefix
        <4>2. e[2] = PoppedCount
          BY <1>2, <2>3, <3>1 DEF IInv, BufferInOrder
        <4> QED
          BY <1>1, <2>3, <3>1, <4>1, <4>2 DEF OnDisk
      <3>2. CASE k # 1
        <4>1. k - 1 \in 1..Len(buffer') /\ buffer'[k - 1] = buffer[k]
          BY <1>2, <1>3, <3>2
        <4> QED
          BY <2>3, <4>1 DEF InBuffer
      <3> QED
        BY <3>1, <3>2
    <2> QED
      BY <2>1, <2>2, <2>3 DEF IInv, KnownAreSomewhere, InBuffer
  <1> QED
    BY <1>1, <1>4, <1>5, <1>6, <1>7, <1>8, <1>9, AppendStep DEF IInv

-----------------------------------------------------------------------------
(* The theorems                                                            *)

LEMMA StutterIInv ==
  ASSUME IInv, UNCHANGED vars
  PROVE  IInv'
  <1>1. StoreUnchanged
    BY DEF vars, StoreUnchanged, storeVars
  <1>2. TypeOK'
    BY DEF IInv, TypeOK, vars
  <1>3. AppendHasWork' /\ OpenIsNext' /\ Phases'
    BY <1>1, Untouched DEF IInv, AppendHasWork, OpenIsNext, Phases, vars
  <1>4. Locked' /\ ReaderFinds'
    BY DEF IInv, Locked, ReaderFinds, vars
  <1>5. KnownAreSomewhere'
    BY <1>1, Untouched DEF IInv, KnownAreSomewhere, BeingQueued, vars
  <1> QED
    BY <1>1, <1>2, <1>3, <1>4, <1>5, Untouched DEF IInv

LEMMA NextIInv == IInv /\ [Next]_vars => IInv'
  <1> SUFFICES ASSUME IInv, [Next]_vars PROVE IInv'
    OBVIOUS
  <1>1. CASE Filter
    BY <1>1, FilterLockIInv, StoreChunkIInv, SealContainerIInv,
       PushContainerIInv, LastContainerIInv, PushLastIInv DEF Filter
  <1>2. CASE Dedup
    BY <1>2, LookupIInv, FindInBufferIInv DEF Dedup
  <1>3. CASE AppendThread
    BY <1>3, GetTopIInv, AddToRtmIInv, WriteContainerIInv, PopWrittenIInv
       DEF AppendThread
  <1>4. CASE Main
    BY <1>4, MainIInv
  <1>5. CASE Finished \/ UNCHANGED vars
    BY <1>5, StutterIInv DEF Finished
  <1> QED
    BY <1>1, <1>2, <1>3, <1>4, <1>5 DEF Next

LEMMA AlwaysIInv == Spec => []IInv
  BY InitIInv, NextIInv, PTL DEF Spec

\* The variables of the store keep their types.
THEOREM TypeCorrect == Spec => []TypeOK
  <1>1. IInv => TypeOK
    BY DEF IInv
  <1> QED
    BY <1>1, AlwaysIInv, PTL

\* "We must ensure a container is either in the buffer or written to disks"
\* (containerstore.c:21): the dedup phase never reads the place of a container
\* that is not there, however its lookup meets append_thread.
THEOREM ReaderAlwaysFinds == Spec => []ReaderFinds
  <1>1. IInv => ReaderFinds
    BY DEF IInv
  <1> QED
    BY <1>1, AlwaysIInv, PTL

\* The reference time map lists the containers in the order of their ids, with
\* a time for each chunk that was written.
THEOREM RtmAlwaysFollowsDisk == Spec => []RtmFollowsDisk
  <1>1. IInv => RtmFollowsDisk
    <2> SUFFICES ASSUME IInv PROVE RtmFollowsDisk
      OBVIOUS
    <2>1. DOMAIN rtm = 1..Len(rtm)
      BY LenProperties DEF IInv, TypeOK
    <2> QED
      BY <2>1 DEF IInv, RtmInOrder, RtmFollowsDisk
  <1> QED
    BY <1>1, AlwaysIInv, PTL

\* When a job has closed the store, the header's count, the file, the reference
\* time map and the index agree.
THEOREM ClosedIsComplete == Spec => []ClosedComplete
  <1>1. IInv => ClosedComplete
    <2> SUFFICES ASSUME IInv, phase = "closed" PROVE ClosedComplete
      BY DEF ClosedComplete
    <2>1. /\ filter = "done" /\ append = "gone" /\ saved = count
          /\ buffer = <<>> /\ count = Queued
      BY DEF IInv, Phases, AppendHasWork, OpenIsNext
    <2>2. /\ Len(buffer) = 0 /\ PoppedCount \in Nat /\ PoppedCount = Len(rtm)
          /\ saved = PoppedCount
      BY <2>1, Lengths DEF IInv, Queued, PoppedCount
    <2>3. DOMAIN disk = 0..(saved - 1)
      BY <2>1, <2>2 DEF IInv, DiskIsPrefix
    <2>4. \A e \in known : e[2] < saved /\ e[1] \in disk[e[2]].fps
      <3> SUFFICES ASSUME NEW e \in known
                   PROVE  e[2] < saved /\ e[1] \in disk[e[2]].fps
        OBVIOUS
      <3>1. OnDisk(e)
        BY <2>1, <2>2 DEF IInv, KnownAreSomewhere, InBuffer, BeingQueued
      <3> QED
        BY <2>2, <2>3, <3>1 DEF OnDisk
    <2> QED
      BY <2>2, <2>3, <2>4 DEF ClosedComplete
  <1> QED
    BY <1>1, AlwaysIInv, PTL

\* A container that was written is never written over, in this job or later.
THEOREM WrittenOnce == Spec => NeverOverwritten
  <1> DEFINE Kept == \A i \in DOMAIN disk : i \in DOMAIN disk' /\ disk'[i] = disk[i]
  <1>1. ASSUME IInv, [Next]_vars
        PROVE  [Kept]_disk
    <2>1. CASE WriteContainer
      <3>1. /\ append = "write" /\ buffer # <<>> /\ Head(buffer) = buffer[1]
            /\ 1 \in 1..Len(buffer) /\ PoppedCount \in Nat
        BY <1>1, <2>1, Lengths DEF IInv, AppendHasWork, WriteContainer
      <3>2. Head(buffer).id = PoppedCount
        BY <1>1, <3>1 DEF IInv, BufferInOrder
      <3>3. Head(buffer).id \notin DOMAIN disk
        BY <1>1, <3>1, <3>2 DEF IInv, DiskIsPrefix
      <3> QED
        BY <2>1, <3>3 DEF WriteContainer
    <2>2. CASE UNCHANGED disk
      BY <2>2
    <2>3. WriteContainer \/ UNCHANGED disk
      BY <1>1 DEF Next, Filter, Dedup, AppendThread, Main, FilterLock,
         FilterUnlock, StoreChunk, SealContainer, PushContainer, LastContainer,
         PushLast, Lookup, FindInBuffer, ReadFromDisk, DedupEnds, GetTop,
         AddToRtm, PopWritten, CloseStore, SaveCount, InitStore, Finished, vars
    <2> QED
      BY <2>1, <2>2, <2>3
  <1> QED
    BY <1>1, AlwaysIInv, PTL DEF Spec, NeverOverwritten
=============================================================================
