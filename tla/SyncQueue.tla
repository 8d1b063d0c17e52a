----------------------------- MODULE SyncQueue -----------------------------
(***************************************************************************)
(* utils/sync_queue.c over utils/queue.c: the monitor (one mutex, two      *)
(* condition variables) through which the threads of a job hand items on.  *)
(*                                                                         *)
(* A section of code under the mutex is one action.  pthread_cond_wait     *)
(* splits a call: the thread sleeps, a broadcast (or a spurious wake-up,   *)
(* which POSIX allows) makes it compete for the mutex again, and it then   *)
(* repeats only the test of its while loop.  In particular a woken push    *)
(* does not look at term again.                                            *)
(***************************************************************************)
EXTENDS Integers, Sequences

CONSTANTS
  Producers,  \* the threads that push
  Consumers,  \* the threads that pop
  MaxSize,    \* max_size; the queue is unbounded when it is not positive
  Quota       \* bound: how many items each producer pushes

ASSUME QueueAssumption ==
  /\ Producers \intersect Consumers = {}
  /\ MaxSize \in Int
  /\ Quota \in Nat

VARIABLES
  queue,  \* the Queue inside the SyncQueue, first item first
  term,   \* its term flag
  orderly,  \* does the job call term only after its last push has returned,
            \* as every phase of destor does, or possibly earlier?
  pc,     \* what each thread does
  sent,   \* how many pushes of each producer have returned or taken effect
  log,    \* history: every item that entered the queue, in that order
  got     \* history: every item popped, in that order

vars == <<queue, term, orderly, pc, sent, log, got>>

Threads == Producers \union Consumers

Items == Producers \X (1..Quota)

\* The queue never holds more than max_size items, although several woken
\* producers race for the room that one pop made.
WithinCapacity == MaxSize > 0 => Len(queue) <= MaxSize

\* "ready": not inside a call, or (a consumer) about to test its while loop;
\* "maxwait", "minwait": asleep on max_work, min_work; "woken": a producer
\* back in its while loop; "done": a consumer that received NULL.
TypeOK ==
  /\ queue \in Seq(Items)
  /\ WithinCapacity
  /\ term \in BOOLEAN
  /\ orderly \in BOOLEAN
  /\ pc \in [Threads -> {"ready", "maxwait", "woken", "minwait", "done"}]
  /\ \A p \in Producers : pc[p] \in {"ready", "maxwait", "woken"}
  /\ \A c \in Consumers : pc[c] \in {"ready", "minwait", "done"}
  /\ sent \in [Producers -> 0..Quota]
  /\ log \in Seq(Items)
  /\ got \in Seq(Items)

Init ==
  /\ queue = <<>>
  /\ term = FALSE
  /\ orderly \in BOOLEAN
  /\ pc = [t \in Threads |-> "ready"]
  /\ sent = [p \in Producers |-> 0]
  /\ log = <<>>
  /\ got = <<>>

\* Mutant of HasRoom: the bound is tested with > instead of >=.
HasRoomOneTooMany == MaxSize > 0 => Len(queue) <= MaxSize

HasRoom == MaxSize > 0 => Len(queue) < MaxSize

\* Mutant of WakeConsumers: the broadcast is forgotten.
NoBroadcast(f) == f

\* pthread_cond_broadcast(&min_work), pthread_cond_broadcast(&max_work)
WakeConsumers(f) ==
  [t \in Threads |-> IF f[t] = "minwait" THEN "ready" ELSE f[t]]
WakeProducers(f) ==
  [t \in Threads |-> IF f[t] = "maxwait" THEN "woken" ELSE f[t]]

\* The producer is at the while loop of sync_queue_push.
Pushing(p) ==
  \/ pc[p] = "woken"
  \/ pc[p] = "ready" /\ sent[p] < Quota /\ ~term

\* Mutant of PushItem: the wait stands under an if instead of a while, so a
\* woken producer pushes without testing again.
PushItemIf(p) ==
  /\ Pushing(p)
  /\ pc[p] = "woken" \/ HasRoom
  /\ queue' = Append(queue, <<p, sent[p] + 1>>)
  /\ log' = Append(log, <<p, sent[p] + 1>>)
  /\ sent' = [sent EXCEPT ![p] = @ + 1]
  /\ pc' = WakeConsumers([pc EXCEPT ![p] = "ready"])
  /\ UNCHANGED <<term, orderly, got>>

PushItem(p) ==
  /\ Pushing(p)
  /\ HasRoom
  /\ LET item == <<p, sent[p] + 1>>
     IN  /\ queue' = Append(queue, item)
         /\ log' = Append(log, item)
  /\ sent' = [sent EXCEPT ![p] = @ + 1]
  /\ pc' = WakeConsumers([pc EXCEPT ![p] = "ready"])
  /\ UNCHANGED <<term, orderly, got>>

PushWait(p) ==
  /\ Pushing(p)
  /\ ~HasRoom
  /\ pc' = [pc EXCEPT ![p] = "maxwait"]
  /\ UNCHANGED <<queue, term, orderly, sent, log, got>>

\* A push into a terminated queue returns without queueing its item.
PushRefused(p) ==
  /\ pc[p] = "ready" /\ sent[p] < Quota /\ term
  /\ sent' = [sent EXCEPT ![p] = @ + 1]
  /\ UNCHANGED <<queue, term, orderly, pc, log, got>>

PopItem(c) ==
  /\ pc[c] = "ready"
  /\ queue # <<>>
  /\ queue' = Tail(queue)
  /\ got' = Append(got, Head(queue))
  /\ pc' = WakeProducers(pc)
  /\ UNCHANGED <<term, orderly, sent, log>>

PopWait(c) ==
  /\ pc[c] = "ready"
  /\ queue = <<>>
  /\ ~term
  /\ pc' = [pc EXCEPT ![c] = "minwait"]
  /\ UNCHANGED <<queue, term, orderly, sent, log, got>>

PopNull(c) ==
  /\ pc[c] = "ready"
  /\ queue = <<>>
  /\ term
  /\ pc' = [pc EXCEPT ![c] = "done"]
  /\ UNCHANGED <<queue, term, orderly, sent, log, got>>

AllPushed == \A p \in Producers : pc[p] = "ready" /\ sent[p] = Quota

\* Mutant of Terminate: only the flag is set, nobody is woken.
TerminateSilently ==
  /\ ~term
  /\ orderly => AllPushed
  /\ term' = TRUE
  /\ UNCHANGED <<queue, orderly, pc, sent, log, got>>

\* sync_queue_term, called by the phase that filled the queue when its own
\* input has ended.
Terminate ==
  /\ ~term
  /\ orderly => AllPushed
  /\ term' = TRUE
  /\ pc' = WakeConsumers(pc)
  /\ UNCHANGED <<queue, orderly, sent, log, got>>

\* A wait may return without a broadcast.
SpuriousWakeup(t) ==
  /\ pc[t] \in {"maxwait", "minwait"}
  /\ pc' = [pc EXCEPT ![t] = IF @ = "maxwait" THEN "woken" ELSE "ready"]
  /\ UNCHANGED <<queue, term, orderly, sent, log, got>>

\* The job is over: the stuttering that keeps its end from being a deadlock.
\* Only after an early term may a producer be left asleep.
Over ==
  /\ \A c \in Consumers : pc[c] = "done"
  /\ orderly => AllPushed
  /\ UNCHANGED vars

Push(p) == PushItem(p) \/ PushWait(p) \/ PushRefused(p)
Pop(c)  == PopItem(c) \/ PopWait(c) \/ PopNull(c)

Next ==
  \/ \E p \in Producers : Push(p)
  \/ \E c \in Consumers : Pop(c)
  \/ Terminate
  \/ \E t \in Threads : SpuriousWakeup(t)
  \/ Over

Spec == Init /\ [][Next]_vars

\* Every thread that is awake runs on, and the phase that filled the queue
\* gets to its call of term.
FairSpec ==
  /\ Spec
  /\ \A p \in Producers : WF_vars(Push(p))
  /\ \A c \in Consumers : WF_vars(Pop(c))
  /\ WF_vars(Terminate)

-----------------------------------------------------------------------------
\* No wake-up is lost: a thread sleeps in sync_queue_push only while the
\* queue is full, and in sync_queue_pop only while it is empty and open.
\* (The broadcasts are the only thing that makes this so.)
SleepersHaveCause ==
  /\ \A p \in Producers : pc[p] = "maxwait" => ~HasRoom
  /\ \A c \in Consumers : pc[c] = "minwait" => queue = <<>> /\ ~term

\* A consumer that received NULL has missed nothing: the queue is empty and
\* no producer is still inside a push.
DrainedAtEnd ==
  orderly /\ (\E c \in Consumers : pc[c] = "done")
    => queue = <<>> /\ AllPushed

\* The queue is a closable channel: order, no loss, no duplication, the
\* bound, and the end of the stream only after the last item.  The end is
\* promised only for an orderly term; the rest holds without it.
C == INSTANCE Channel WITH
       Readers <- Consumers, Capacity <- MaxSize,
       accepted <- log, received <- got, closed <- orderly /\ term,
       ended <- {c \in Consumers : orderly /\ pc[c] = "done"}

IsChannel == C!CSpec

\* Every item that is pushed is popped, and every consumer learns that the
\* stream has ended.
Delivered ==
  orderly => <>(/\ \A c \in Consumers : pc[c] = "done"
                /\ \A i \in Items : \E k \in DOMAIN got : got[k] = i)
=============================================================================
