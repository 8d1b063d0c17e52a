--------------------------- MODULE ContainerStore ---------------------------
(***************************************************************************)
(* storage/containerstore.c: how a container travels from the filter phase *)
(* to container.pool and its reference time map entry, while the dedup     *)
(* phase reads the metadata of containers that the index already names.    *)
(*                                                                         *)
(* Three threads share the store: the filter phase fills the open          *)
(* container and queues full ones, append_thread writes them, the dedup    *)
(* phase looks them up.  Filter and dedup exclude each other with          *)
(* index_lock; append_thread takes only the queue's mutex and the file's.  *)
(* container_buffer is used as the channel that SyncQueue is shown to be.  *)
(* A job of the program opens the store, fills it, closes it; the next job *)
(* starts from what the last one wrote.                                    *)
(***************************************************************************)
EXTENDS Integers, Sequences, FiniteSets

CONSTANTS
  Fps,         \* fingerprints
  Capacity,    \* the chunks a container holds before container_overflow
  BufferSize,  \* the size of container_buffer (25 in the code)
  MaxCount,    \* bound: how many containers are created in all
  MaxJobs      \* bound: how many backup jobs run, one after the other

ASSUME StoreAssumption ==
  /\ IsFiniteSet(Fps)
  /\ Capacity \in Nat \ {0}
  /\ BufferSize \in Nat \ {0}
  /\ MaxCount \in Nat
  /\ MaxJobs \in Nat

NoContainer == [id |-> -1, fps |-> {}]

VARIABLES
  job,     \* the backup version of the running job, CBT[0]
  phase,   \* "running", "closing" (term has been called) or "closed"
  count,   \* container_count
  saved,   \* the container count in the header of container.pool
  open,    \* storage_buffer.container_buffer, the container being filled
  known,   \* what the index tells: the set of <<fingerprint, container id>>
  buffer,  \* container_buffer: the full containers not yet written
  disk,    \* container.pool: what it holds at the place of each id written
  rtm,     \* the reference time map: one entry per container, in list order
  lock,    \* index_lock: "free", or who holds it
  filter,  \* "run", "push" (blocked in write_container_async), "last" (the
           \* same for the last container of the job) or "done"
  reader,  \* the dedup phase in retrieve_container_meta_by_id: "idle",
           \* "find", "read", or "gone" when its input has ended
  target,  \* the <<fingerprint, id>> that the dedup phase looks up
  append   \* append_thread: "top", "rtm", "write", "pop" or "gone"

vars == <<job, phase, count, saved, open, known, buffer, disk, rtm, lock,
          filter, reader, target, append>>

storeVars == <<job, phase, count, saved>>

Containers == [id : Nat, fps : SUBSET Fps]

TypeOK ==
  /\ job \in Nat
  /\ phase \in {"running", "closing", "closed"}
  /\ count \in Nat /\ saved \in Nat
  /\ open \in Containers \union {NoContainer}
  /\ known \subseteq Fps \X Nat
  /\ buffer \in Seq(Containers)
  /\ DOMAIN disk \subseteq Nat /\ \A i \in DOMAIN disk : disk[i] \in Containers
  /\ rtm \in Seq([id : Nat, len : Nat, time : Nat])
  /\ lock \in {"free", "filter", "dedup"}
  /\ filter \in {"run", "push", "last", "done"}
  /\ reader \in {"idle", "find", "read", "gone"}
  /\ target \in Fps \X Nat
  /\ append \in {"top", "rtm", "write", "pop", "gone"}

Init ==
  /\ job = 0
  /\ phase = "running"
  /\ count = 0 /\ saved = 0
  /\ open = NoContainer
  /\ known = {}
  /\ buffer = <<>>
  /\ disk = [i \in {} |-> NoContainer]
  /\ rtm = <<>>
  /\ lock = "free"
  /\ filter = "run"
  /\ reader = "idle"
  /\ target \in Fps \X {0}
  /\ append = "top"

-----------------------------------------------------------------------------
(* The filter phase                                                        *)

FilterLock ==
  /\ filter = "run" /\ lock = "free" /\ phase = "running"
  /\ lock' = "filter"
  /\ UNCHANGED <<storeVars, open, known, buffer, disk, rtm, filter, reader,
                 target, append>>

FilterUnlock ==
  /\ filter = "run" /\ lock = "filter"
  /\ lock' = "free"
  /\ UNCHANGED <<storeVars, open, known, buffer, disk, rtm, filter, reader,
                 target, append>>

\* Mutant of Created: the id is the count before the increment, less one.
CreatedBehind(f) == [id |-> count - 1, fps |-> {f}]

\* create_container takes the next id; the chunk f that needs it comes with it
\* (so no container is ever empty, and write_container_async never takes an id
\* back).
Created(f) == [id |-> count, fps |-> {f}]

Overflow == Cardinality(open.fps) >= Capacity

\* A chunk is stored: into a first container, or into the open one.
StoreChunk(f) ==
  /\ filter = "run" /\ lock = "filter"
  /\ \/ /\ open = NoContainer /\ count < MaxCount
        /\ open' = Created(f)
        /\ count' = count + 1
     \/ /\ open # NoContainer /\ ~Overflow /\ f \notin open.fps
        /\ open' = [open EXCEPT !.fps = @ \union {f}]
        /\ UNCHANGED count
  /\ UNCHANGED <<job, phase, saved, known, buffer, disk, rtm, lock, filter,
                 reader, target, append>>

\* index_update: the index names the container before it has been queued.
Published == known \union {<<f, open.id>> : f \in open.fps}

\* Mutant of SealContainer: index_lock is given up before the container is
\* queued.
SealContainerUnlocked ==
  /\ filter = "run" /\ lock = "filter"
  /\ open # NoContainer /\ Overflow /\ count < MaxCount
  /\ known' = Published
  /\ filter' = "push"
  /\ lock' = "free"
  /\ UNCHANGED <<storeVars, open, buffer, disk, rtm, reader, target, append>>

\* The open container is full and another chunk has to be stored.
SealContainer ==
  /\ filter = "run" /\ lock = "filter"
  /\ open # NoContainer /\ Overflow /\ count < MaxCount
  /\ known' = Published
  /\ filter' = "push"
  /\ UNCHANGED <<storeVars, open, buffer, disk, rtm, lock, reader, target,
                 append>>

\* write_container_async, when container_buffer has room; the next container
\* is created for the chunk f that did not fit.
PushContainer(f) ==
  /\ filter = "push"
  /\ Len(buffer) < BufferSize
  /\ buffer' = Append(buffer, open)
  /\ open' = Created(f)
  /\ count' = count + 1
  /\ filter' = "run"
  /\ UNCHANGED <<job, phase, saved, known, disk, rtm, lock, reader, target,
                 append>>

\* The rewrite queue has ended, so the dedup phase has ended too.  What is
\* left in the open container is published and queued outside index_lock.
LastContainer ==
  /\ filter = "run" /\ lock = "free" /\ reader = "gone"
  /\ IF open = NoContainer
     THEN filter' = "done" /\ UNCHANGED known
     ELSE filter' = "last" /\ known' = Published
  /\ UNCHANGED <<storeVars, open, buffer, disk, rtm, lock, reader, target,
                 append>>

PushLast ==
  /\ filter = "last"
  /\ Len(buffer) < BufferSize
  /\ buffer' = Append(buffer, open)
  /\ filter' = "done"
  /\ UNCHANGED <<storeVars, open, known, disk, rtm, lock, reader, target,
                 append>>

-----------------------------------------------------------------------------
(* The dedup phase: retrieve_container_meta_by_id of an id from the index, *)
(* under index_lock.                                                       *)

Lookup ==
  /\ reader = "idle" /\ lock = "free" /\ phase = "running"
  /\ target' \in known
  /\ lock' = "dedup"
  /\ reader' = "find"
  /\ UNCHANGED <<storeVars, open, known, buffer, disk, rtm, filter, append>>

\* sync_queue_find in container_buffer; a copy is made under its mutex.
Buffered(id) == \E k \in DOMAIN buffer : buffer[k].id = id

FindInBuffer ==
  /\ reader = "find"
  /\ IF Buffered(target[2])
     THEN reader' = "idle" /\ lock' = "free"
     ELSE reader' = "read" /\ UNCHANGED lock
  /\ UNCHANGED <<storeVars, open, known, buffer, disk, rtm, filter, target,
                 append>>

\* The container is read from its place in the file: assert(cm->id == id).
ReadFromDisk ==
  /\ reader = "read"
  /\ target[2] \in DOMAIN disk /\ disk[target[2]].id = target[2]
  /\ reader' = "idle"
  /\ lock' = "free"
  /\ UNCHANGED <<storeVars, open, known, buffer, disk, rtm, filter, target,
                 append>>

DedupEnds ==
  /\ reader = "idle" /\ filter = "run" /\ phase = "running"
  /\ reader' = "gone"
  /\ UNCHANGED <<storeVars, open, known, buffer, disk, rtm, lock, filter,
                 target, append>>

-----------------------------------------------------------------------------
(* append_thread: the container stays in the buffer while it is written.   *)

GetTop ==
  /\ append = "top"
  /\ IF buffer # <<>>
     THEN append' = "rtm"
     ELSE phase = "closing" /\ append' = "gone"
  /\ UNCHANGED <<storeVars, open, known, buffer, disk, rtm, lock, filter,
                 reader, target>>

\* Mutant of AddToRtm: the entry is put in front of the list.
AddToRtmInFront ==
  /\ append = "rtm"
  /\ rtm' = <<[id |-> Head(buffer).id,
               len |-> Cardinality(Head(buffer).fps),
               time |-> job]>> \o rtm
  /\ append' = "write"
  /\ UNCHANGED <<storeVars, open, known, buffer, disk, lock, filter, reader,
                 target>>

\* RTMlist_AddEnd: every chunk of the container gets the version of this job.
AddToRtm ==
  /\ append = "rtm"
  /\ rtm' = Append(rtm, [id |-> Head(buffer).id,
                         len |-> Cardinality(Head(buffer).fps),
                         time |-> job])
  /\ append' = "write"
  /\ UNCHANGED <<storeVars, open, known, buffer, disk, lock, filter, reader,
                 target>>

\* Mutant of WriteContainer: the place in the file comes from the number of
\* containers this job has written, not from the container's id.
WriteContainerAtEnd ==
  /\ append = "write"
  /\ LET c == Head(buffer)
         place == Len(SelectSeq(rtm, LAMBDA e : e.time = job)) - 1
     IN disk' = [i \in DOMAIN disk \union {place} |->
                   IF i = place THEN c ELSE disk[i]]
  /\ append' = "pop"
  /\ UNCHANGED <<storeVars, open, known, buffer, rtm, lock, filter, reader,
                 target>>

\* write_container: to the place of its id in the file, under the mutex.
WriteContainer ==
  /\ append = "write"
  /\ LET c == Head(buffer)
     IN disk' = [i \in DOMAIN disk \union {c.id} |->
                   IF i = c.id THEN c ELSE disk[i]]
  /\ append' = "pop"
  /\ UNCHANGED <<storeVars, open, known, buffer, rtm, lock, filter, reader,
                 target>>

\* Mutant of PopWritten: room is made only when the buffer is to be closed.
PopWhenClosing ==
  /\ append = "pop"
  /\ phase = "closing"
  /\ buffer' = Tail(buffer)
  /\ append' = "top"
  /\ UNCHANGED <<storeVars, open, known, disk, rtm, lock, filter, reader,
                 target>>

PopWritten ==
  /\ append = "pop"
  /\ buffer' = Tail(buffer)
  /\ append' = "top"
  /\ UNCHANGED <<storeVars, open, known, disk, rtm, lock, filter, reader,
                 target>>

-----------------------------------------------------------------------------
(* The main thread                                                         *)

\* close_container_store, after the phases have been joined.
CloseStore ==
  /\ filter = "done" /\ phase = "running"
  /\ phase' = "closing"
  /\ UNCHANGED <<job, count, saved, open, known, buffer, disk, rtm, lock,
                 filter, reader, target, append>>

\* Mutant of SaveCount: append_thread is not joined first.
SaveCountUnjoined ==
  /\ phase = "closing"
  /\ phase' = "closed"
  /\ saved' = count
  /\ UNCHANGED <<job, count, open, known, buffer, disk, rtm, lock, filter,
                 reader, target, append>>

\* append_thread has been joined: the count goes into the file's header.
SaveCount ==
  /\ phase = "closing" /\ append = "gone"
  /\ phase' = "closed"
  /\ saved' = count
  /\ UNCHANGED <<job, count, open, known, buffer, disk, rtm, lock, filter,
                 reader, target, append>>

\* The next job: init_container_store reads the count from the header.
InitStore ==
  /\ phase = "closed" /\ job + 1 < MaxJobs
  /\ job' = job + 1
  /\ phase' = "running"
  /\ count' = saved
  /\ open' = NoContainer
  /\ filter' = "run" /\ reader' = "idle" /\ append' = "top"
  /\ UNCHANGED <<saved, known, buffer, disk, rtm, lock, target>>

\* The last job within the bound is over.
Finished ==
  /\ phase = "closed" /\ job + 1 >= MaxJobs
  /\ UNCHANGED vars

Filter ==
  \/ FilterLock \/ FilterUnlock \/ SealContainer \/ LastContainer \/ PushLast
  \/ \E f \in Fps : StoreChunk(f) \/ PushContainer(f)

Dedup == Lookup \/ FindInBuffer \/ ReadFromDisk \/ DedupEnds

AppendThread == GetTop \/ AddToRtm \/ WriteContainer \/ PopWritten

Main == CloseStore \/ SaveCount \/ InitStore

Next == Filter \/ Dedup \/ AppendThread \/ Main \/ Finished

Spec == Init /\ [][Next]_vars

\* append_thread and the main thread run on while they can; a filter phase
\* that waits for room in container_buffer takes it when it is there.
FairSpec ==
  /\ Spec
  /\ WF_vars(AppendThread)
  /\ WF_vars(SaveCount)
  /\ WF_vars(PushLast \/ \E f \in Fps : PushContainer(f))

-----------------------------------------------------------------------------
\* "We must ensure a container is either in the buffer or written to disks"
\* (containerstore.c:21): when the dedup phase did not find in the buffer a
\* container that the index names, the file holds it, with the chunk.
ReaderFinds ==
  reader = "read" =>
    /\ target[2] \in DOMAIN disk
    /\ disk[target[2]].id = target[2]
    /\ target[1] \in disk[target[2]].fps

\* The k-th entry of the reference time map is that of container k - 1, with
\* one time for each of its chunks: the garbage collector walks the list by
\* position and writes the times by container id.
RtmFollowsDisk ==
  \A k \in DOMAIN rtm :
    /\ rtm[k].id = k - 1
    /\ k - 1 \in DOMAIN disk =>
         rtm[k].len = Cardinality(disk[k - 1].fps)

\* When a job has ended, the file holds exactly the containers below the
\* count in its header, the reference time map has an entry for each, and
\* the index names no other.
ClosedComplete ==
  phase = "closed" =>
    /\ DOMAIN disk = 0..(saved - 1)
    /\ Len(rtm) = saved
    /\ \A e \in known : e[2] < saved /\ e[1] \in disk[e[2]].fps

\* A container that has been written is never written over, in this job or
\* in a later one, although empty jobs and restarts reset container_count.
NeverOverwritten ==
  [][\A i \in DOMAIN disk : i \in DOMAIN disk' /\ disk'[i] = disk[i]]_disk

\* The filter phase waits for room in container_buffer with index_lock held:
\* it is always released, and a close always completes.
WritersProgress ==
  /\ filter \in {"push", "last"} ~> filter \in {"run", "done"}
  /\ phase = "closing" ~> phase = "closed"
=============================================================================
