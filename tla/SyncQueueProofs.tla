-------------------------- MODULE SyncQueueProofs --------------------------
(***************************************************************************)
(* For every number of producers, consumers and items, and every bound:    *)
(* SyncQueue keeps its type, loses no wake-up, and implements Channel.     *)
(*                                                                         *)
(* The inductive invariant adds to the two properties of the runs what     *)
(* makes them inductive: the history "log" is what was popped followed by  *)
(* what is queued, a producer inside a push has an item left, and after an *)
(* orderly term, or once a consumer has received NULL, no push is          *)
(* outstanding.                                                            *)
(***************************************************************************)
EXTENDS SyncQueue, SequenceTheorems, TLAPS

Fifo ==
  /\ Len(log) = Len(got) + Len(queue)
  /\ \A k \in 1..Len(got) : log[k] = got[k]
  /\ \A k \in 1..Len(queue) : log[Len(got) + k] = queue[k]

OrderlyTerm == orderly /\ term => AllPushed

InsidePush == \A p \in Producers : pc[p] # "ready" => sent[p] < Quota

IInv ==
  /\ TypeOK
  /\ SleepersHaveCause
  /\ DrainedAtEnd
  /\ Fifo
  /\ OrderlyTerm
  /\ InsidePush

\* A broadcast moves the sleepers of one condition and nobody else.
LEMMA Broadcasts ==
  ASSUME NEW f, NEW t \in Threads
  PROVE  /\ WakeConsumers(f)[t] = IF f[t] = "minwait" THEN "ready" ELSE f[t]
         /\ WakeProducers(f)[t] = IF f[t] = "maxwait" THEN "woken" ELSE f[t]
  BY DEF WakeConsumers, WakeProducers

\* What the queue operations do to sequences of items.
LEMMA SeqFacts ==
  ASSUME NEW q \in Seq(Items)
  PROVE  /\ Len(q) \in Nat
         /\ \A k \in 1..Len(q) : q[k] \in Items
         /\ q = <<>> <=> Len(q) = 0
         /\ \A i \in Items : /\ Append(q, i) \in Seq(Items)
                             /\ Len(Append(q, i)) = Len(q) + 1
                             /\ Append(q, i)[Len(q) + 1] = i
                             /\ \A k \in 1..Len(q) : Append(q, i)[k] = q[k]
         /\ q # <<>> => /\ Head(q) = q[1] /\ Head(q) \in Items
                        /\ Tail(q) \in Seq(Items)
                        /\ Len(Tail(q)) = Len(q) - 1
                        /\ \A k \in 1..(Len(q) - 1) : Tail(q)[k] = q[k + 1]
  <1>1. Len(q) \in Nat /\ (q = <<>> <=> Len(q) = 0)
    BY EmptySeq, LenProperties
  <1>2. \A k \in 1..Len(q) : q[k] \in Items
    BY ElementOfSeq
  <1>3. ASSUME NEW i \in Items
        PROVE  /\ Append(q, i) \in Seq(Items)
               /\ Len(Append(q, i)) = Len(q) + 1
               /\ Append(q, i)[Len(q) + 1] = i
               /\ \A k \in 1..Len(q) : Append(q, i)[k] = q[k]
    BY AppendProperties
  <1>4. ASSUME q # <<>>
        PROVE  /\ Head(q) = q[1] /\ Head(q) \in Items
               /\ Tail(q) \in Seq(Items)
               /\ Len(Tail(q)) = Len(q) - 1
               /\ \A k \in 1..(Len(q) - 1) : Tail(q)[k] = q[k + 1]
    BY <1>4, HeadTailProperties
  <1> QED
    BY <1>1, <1>2, <1>3, <1>4

\* The queue, the flag, and the threads at rest, when the job starts.
LEMMA InitIInv == Init => IInv
  <1> SUFFICES ASSUME Init PROVE IInv
    OBVIOUS
  <1>1. /\ queue = <<>> /\ log = <<>> /\ got = <<>> /\ term = FALSE
        /\ orderly \in BOOLEAN
        /\ pc = [t \in Threads |-> "ready"] /\ sent = [p \in Producers |-> 0]
    BY DEF Init
  <1>2. <<>> \in Seq(Items) /\ Len(<<>>) = 0
    BY EmptySeq
  <1>3. \A t \in Threads : pc[t] = "ready"
    BY <1>1
  <1>4. Producers \subseteq Threads /\ Consumers \subseteq Threads
    BY DEF Threads
  <1>5. sent \in [Producers -> 0..Quota]
    BY <1>1, QueueAssumption
  <1>6. pc \in [Threads -> {"ready", "maxwait", "woken", "minwait", "done"}]
    BY <1>1
  <1>7. TypeOK
    <2>1. WithinCapacity
      BY <1>1, <1>2, QueueAssumption DEF WithinCapacity
    <2> QED
      BY <1>1, <1>2, <1>3, <1>4, <1>5, <1>6, <2>1 DEF TypeOK
  <1>8. SleepersHaveCause /\ DrainedAtEnd /\ InsidePush
    BY <1>3, <1>4 DEF SleepersHaveCause, DrainedAtEnd, InsidePush
  <1>9. Fifo /\ OrderlyTerm
    BY <1>1, <1>2, QueueAssumption DEF Fifo, OrderlyTerm
  <1> QED
    BY <1>7, <1>8, <1>9 DEF IInv

-----------------------------------------------------------------------------
(* One lemma per action.                                                   *)

\* sync_queue_push that finds room.
LEMMA PushItemIInv ==
  ASSUME IInv, NEW p \in Producers, PushItem(p)
  PROVE  IInv'
  <1> DEFINE item == <<p, sent[p] + 1>>
  <1> USE QueueAssumption
  <1>1. /\ TypeOK /\ SleepersHaveCause /\ DrainedAtEnd
        /\ Fifo /\ OrderlyTerm /\ InsidePush
    BY DEF IInv
  <1>2. /\ pc' = WakeConsumers([pc EXCEPT ![p] = "ready"])
        /\ sent' = [sent EXCEPT ![p] = @ + 1]
        /\ queue' = Append(queue, item) /\ log' = Append(log, item)
        /\ term' = term /\ orderly' = orderly /\ got' = got
        /\ HasRoom
    BY DEF PushItem
  <1>3. /\ pc[p] \in {"ready", "woken"} /\ sent[p] \in 0..Quota
        /\ pc[p] = "ready" => sent[p] < Quota /\ ~term
    BY <1>1 DEF PushItem, Pushing, TypeOK
  <1>4. sent[p] < Quota
    BY <1>1, <1>3 DEF InsidePush
  <1>5. item \in Items
    BY <1>3, <1>4 DEF Items
  <1>6. ~AllPushed
    BY <1>4, <1>3 DEF AllPushed
  <1>7. p \in Threads /\ Consumers \subseteq Threads /\ Producers \subseteq Threads
    BY DEF Threads
  <1>8. \A t \in Threads :
          pc'[t] = IF t = p THEN "ready"
                   ELSE IF pc[t] = "minwait" THEN "ready" ELSE pc[t]
    BY <1>1, <1>2, <1>7, Broadcasts DEF TypeOK
  <1>9. /\ Len(queue) \in Nat /\ Len(queue') = Len(queue) + 1
        /\ queue' \in Seq(Items) /\ queue'[Len(queue) + 1] = item
        /\ \A k \in 1..Len(queue) : queue'[k] = queue[k]
    BY <1>1, <1>2, <1>5, SeqFacts DEF TypeOK
  <1>10. /\ Len(log) \in Nat /\ Len(log') = Len(log) + 1
         /\ log' \in Seq(Items) /\ log'[Len(log) + 1] = item
         /\ \A k \in 1..Len(log) : log'[k] = log[k]
    BY <1>1, <1>2, <1>5, SeqFacts DEF TypeOK
  <1>11. Len(got) \in Nat
    BY <1>1, SeqFacts DEF TypeOK
  <1>12. TypeOK'
    <2>1. sent' \in [Producers -> 0..Quota]
      BY <1>1, <1>2, <1>3, <1>4 DEF TypeOK
    <2>2. pc' \in [Threads -> {"ready", "maxwait", "woken", "minwait", "done"}]
      BY <1>1, <1>2, <1>8 DEF TypeOK, WakeConsumers
    <2>3. WithinCapacity'
      BY <1>2, <1>9 DEF WithinCapacity, HasRoom
    <2> QED
      BY <1>1, <1>2, <1>7, <1>8, <1>9, <1>10, <2>1, <2>2, <2>3 DEF TypeOK
  <1>13. SleepersHaveCause'
    BY <1>1, <1>2, <1>7, <1>8 DEF SleepersHaveCause, TypeOK
  <1>14. DrainedAtEnd'
    BY <1>1, <1>2, <1>6, <1>7, <1>8 DEF DrainedAtEnd
  <1>15. Fifo'
    <2>1. Len(log) = Len(got) + Len(queue) /\ got' = got
      BY <1>1, <1>2 DEF Fifo
    <2>2. Len(log') = Len(got') + Len(queue')
      BY <2>1, <1>9, <1>10, <1>11
    <2>3. \A k \in 1..Len(got) : log'[k] = got[k]
      BY <1>1, <2>1, <1>9, <1>10, <1>11 DEF Fifo
    <2>4. ASSUME NEW k \in 1..(Len(queue) + 1)
          PROVE  log'[Len(got) + k] = queue'[k]
      <3>1. CASE k \in 1..Len(queue)
        <4>1. Len(got) + k \in 1..Len(log)
          BY <2>1, <3>1, <1>9, <1>11
        <4>2. log[Len(got) + k] = queue[k]
          BY <1>1, <3>1 DEF Fifo
        <4> QED
          BY <4>1, <4>2, <3>1, <1>9, <1>10
      <3>2. CASE k = Len(queue) + 1
        <4>1. Len(got) + k = Len(log) + 1
          BY <2>1, <3>2, <1>9, <1>11
        <4> QED
          BY <4>1, <3>2, <1>9, <1>10
      <3> QED
        BY <3>1, <3>2, <1>9
    <2> QED
      BY <2>1, <2>2, <2>3, <2>4, <1>9 DEF Fifo
  <1>16. OrderlyTerm'
    BY <1>1, <1>2, <1>6 DEF OrderlyTerm
  <1>17. InsidePush'
    BY <1>1, <1>2, <1>7, <1>8 DEF InsidePush, TypeOK
  <1> QED
    BY <1>12, <1>13, <1>14, <1>15, <1>16, <1>17 DEF IInv

\* An action that leaves the sequences and the count of pushes alone keeps
\* their types, their relation and the bound.
LEMMA SequencesUnchanged ==
  ASSUME IInv, UNCHANGED <<queue, orderly, sent, log, got>>
  PROVE  /\ Fifo' /\ WithinCapacity'
         /\ queue' \in Seq(Items) /\ log' \in Seq(Items) /\ got' \in Seq(Items)
         /\ orderly' \in BOOLEAN /\ sent' \in [Producers -> 0..Quota]
  BY DEF IInv, TypeOK, Fifo, WithinCapacity

\* sync_queue_push that finds the queue full.
LEMMA PushWaitIInv ==
  ASSUME IInv, NEW p \in Producers, PushWait(p)
  PROVE  IInv'
  <1> USE QueueAssumption
  <1>1. /\ TypeOK /\ SleepersHaveCause /\ DrainedAtEnd /\ OrderlyTerm
        /\ InsidePush
    BY DEF IInv
  <1>2. /\ pc' = [pc EXCEPT ![p] = "maxwait"] /\ ~HasRoom
        /\ UNCHANGED <<queue, term, orderly, sent, log, got>>
    BY DEF PushWait
  <1>3. /\ pc[p] \in {"ready", "woken"} /\ sent[p] \in 0..Quota
        /\ pc[p] = "ready" => sent[p] < Quota /\ ~term
    BY <1>1 DEF PushWait, Pushing, TypeOK
  <1>4. sent[p] < Quota
    BY <1>1, <1>3 DEF InsidePush
  <1>5. p \in Threads /\ p \notin Consumers /\ Consumers \subseteq Threads
        /\ Producers \subseteq Threads
    BY DEF Threads
  <1>6. \A t \in Threads : pc'[t] = IF t = p THEN "maxwait" ELSE pc[t]
    BY <1>1, <1>2, <1>5 DEF TypeOK
  <1>7. TypeOK'
    <2>1. pc' \in [Threads -> {"ready", "maxwait", "woken", "minwait", "done"}]
      BY <1>1, <1>2 DEF TypeOK
    <2> QED
      BY <1>1, <1>2, <1>5, <1>6, <2>1, SequencesUnchanged DEF TypeOK
  <1>8. SleepersHaveCause'
    BY <1>1, <1>2, <1>5, <1>6 DEF SleepersHaveCause, HasRoom
  <1>9. ~AllPushed
    BY <1>3, <1>4 DEF AllPushed
  <1>10. DrainedAtEnd' /\ OrderlyTerm'
    BY <1>1, <1>2, <1>5, <1>6, <1>9 DEF DrainedAtEnd, OrderlyTerm
  <1>11. InsidePush'
    BY <1>1, <1>2, <1>4, <1>5, <1>6 DEF InsidePush
  <1> QED
    BY <1>2, <1>7, <1>8, <1>10, <1>11, SequencesUnchanged DEF IInv

\* sync_queue_push into a terminated queue.
LEMMA PushRefusedIInv ==
  ASSUME IInv, NEW p \in Producers, PushRefused(p)
  PROVE  IInv'
  <1> USE QueueAssumption
  <1>1. /\ TypeOK /\ SleepersHaveCause /\ DrainedAtEnd
        /\ Fifo /\ OrderlyTerm /\ InsidePush
    BY DEF IInv
  <1>2. /\ pc[p] = "ready" /\ sent[p] < Quota /\ term
        /\ sent' = [sent EXCEPT ![p] = @ + 1]
        /\ UNCHANGED <<queue, term, orderly, pc, log, got>>
    BY DEF PushRefused
  <1>3. ~AllPushed /\ sent[p] \in 0..Quota
    BY <1>1, <1>2 DEF AllPushed, TypeOK
  <1>4. ~orderly
    BY <1>1, <1>2, <1>3 DEF OrderlyTerm
  <1>5. TypeOK'
    <2>1. sent' \in [Producers -> 0..Quota]
      BY <1>1, <1>2, <1>3 DEF TypeOK
    <2> QED
      BY <1>1, <1>2, <2>1 DEF TypeOK, WithinCapacity
  <1>6. SleepersHaveCause' /\ Fifo'
    BY <1>1, <1>2 DEF SleepersHaveCause, HasRoom, Fifo
  <1>7. DrainedAtEnd' /\ OrderlyTerm'
    BY <1>2, <1>4 DEF DrainedAtEnd, OrderlyTerm
  <1>8. InsidePush'
    BY <1>1, <1>2 DEF InsidePush, TypeOK
  <1> QED
    BY <1>5, <1>6, <1>7, <1>8 DEF IInv

\* sync_queue_pop that finds an item.
LEMMA PopItemIInv ==
  ASSUME IInv, NEW c \in Consumers, PopItem(c)
  PROVE  IInv'
  <1> USE QueueAssumption
  <1>1. /\ TypeOK /\ SleepersHaveCause /\ DrainedAtEnd
        /\ Fifo /\ OrderlyTerm /\ InsidePush
    BY DEF IInv
  <1>2. /\ pc[c] = "ready" /\ queue # <<>>
        /\ queue' = Tail(queue) /\ got' = Append(got, Head(queue))
        /\ pc' = WakeProducers(pc)
        /\ UNCHANGED <<term, orderly, sent, log>>
    BY DEF PopItem
  <1>3. Consumers \subseteq Threads /\ Producers \subseteq Threads
        /\ Consumers \intersect Producers = {}
    BY DEF Threads
  <1>4. \A t \in Threads :
          pc'[t] = IF pc[t] = "maxwait" THEN "woken" ELSE pc[t]
    BY <1>2, Broadcasts
  <1>5. /\ Len(queue) \in Nat /\ Len(queue) # 0 /\ queue' \in Seq(Items)
        /\ Len(queue') = Len(queue) - 1
        /\ Head(queue) = queue[1] /\ Head(queue) \in Items
        /\ \A k \in 1..(Len(queue) - 1) : queue'[k] = queue[k + 1]
    BY <1>1, <1>2, SeqFacts DEF TypeOK
  <1>6. /\ Len(got) \in Nat /\ got' \in Seq(Items)
        /\ Len(got') = Len(got) + 1 /\ got'[Len(got) + 1] = queue[1]
        /\ \A k \in 1..Len(got) : got'[k] = got[k]
    BY <1>1, <1>2, <1>5, SeqFacts DEF TypeOK
  <1>7. TypeOK'
    <2>1. pc' \in [Threads -> {"ready", "maxwait", "woken", "minwait", "done"}]
      BY <1>1, <1>2, <1>4 DEF TypeOK, WakeProducers
    <2>2. WithinCapacity'
      BY <1>1, <1>5 DEF TypeOK, WithinCapacity
    <2> QED
      BY <1>1, <1>2, <1>3, <1>4, <1>5, <1>6, <2>1, <2>2 DEF TypeOK
  <1>8. SleepersHaveCause'
    BY <1>1, <1>2, <1>3, <1>4 DEF SleepersHaveCause, TypeOK
  <1>9. DrainedAtEnd' /\ OrderlyTerm'
    <2>1. (\E d \in Consumers : pc'[d] = "done")
             => \E d \in Consumers : pc[d] = "done"
      BY <1>3, <1>4
    <2>2. ~(orderly /\ \E d \in Consumers : pc[d] = "done")
      BY <1>1, <1>2 DEF DrainedAtEnd
    <2>3. AllPushed => AllPushed'
      BY <1>2, <1>3, <1>4 DEF AllPushed
    <2> QED
      BY <1>1, <1>2, <2>1, <2>2, <2>3 DEF DrainedAtEnd, OrderlyTerm
  <1>10. Fifo'
    <2>1. Len(log) = Len(got) + Len(queue) /\ log' = log
      BY <1>1, <1>2 DEF Fifo
    <2>2. Len(log) = Len(got') + Len(queue')
      BY <2>1, <1>5, <1>6
    <2>3. ASSUME NEW k \in 1..(Len(got) + 1)
          PROVE  log[k] = got'[k]
      <3>1. CASE k \in 1..Len(got)
        BY <1>1, <3>1, <1>6 DEF Fifo
      <3>2. CASE k = Len(got) + 1
        BY <1>1, <3>2, <1>5, <1>6 DEF Fifo
      <3> QED
        BY <3>1, <3>2, <1>6
    <2>4. ASSUME NEW k \in 1..(Len(queue) - 1)
          PROVE  log[Len(got) + 1 + k] = queue'[k]
      <3>1. k + 1 \in 1..Len(queue) /\ Len(got) + (k + 1) = Len(got) + 1 + k
        BY <1>5, <1>6
      <3> QED
        BY <1>1, <3>1, <1>5 DEF Fifo
    <2> QED
      BY <2>1, <2>2, <2>3, <2>4, <1>5, <1>6 DEF Fifo
  <1>11. InsidePush'
    BY <1>1, <1>2, <1>3, <1>4 DEF InsidePush
  <1> QED
    BY <1>7, <1>8, <1>9, <1>10, <1>11 DEF IInv

\* sync_queue_pop on an empty queue that is still open.
LEMMA PopWaitIInv ==
  ASSUME IInv, NEW c \in Consumers, PopWait(c)
  PROVE  IInv'
  <1> USE QueueAssumption
  <1>1. /\ TypeOK /\ SleepersHaveCause /\ DrainedAtEnd /\ OrderlyTerm
        /\ InsidePush
    BY DEF IInv
  <1>2. /\ pc[c] = "ready" /\ queue = <<>> /\ ~term
        /\ pc' = [pc EXCEPT ![c] = "minwait"]
        /\ UNCHANGED <<queue, term, orderly, sent, log, got>>
    BY DEF PopWait
  <1>3. c \in Threads /\ c \notin Producers /\ Consumers \subseteq Threads
        /\ Producers \subseteq Threads
    BY DEF Threads
  <1>4. \A t \in Threads : pc'[t] = IF t = c THEN "minwait" ELSE pc[t]
    BY <1>1, <1>2, <1>3 DEF TypeOK
  <1>5. TypeOK'
    <2>1. pc' \in [Threads -> {"ready", "maxwait", "woken", "minwait", "done"}]
      BY <1>1, <1>2 DEF TypeOK
    <2> QED
      BY <1>1, <1>2, <1>3, <1>4, <2>1, SequencesUnchanged DEF TypeOK
  <1>6. SleepersHaveCause'
    BY <1>1, <1>2, <1>3, <1>4 DEF SleepersHaveCause, HasRoom
  <1>7. AllPushed' <=> AllPushed
    BY <1>2, <1>3, <1>4 DEF AllPushed
  <1>8. DrainedAtEnd' /\ OrderlyTerm' /\ InsidePush'
    BY <1>1, <1>2, <1>3, <1>4, <1>7
       DEF DrainedAtEnd, OrderlyTerm, InsidePush
  <1> QED
    BY <1>2, <1>5, <1>6, <1>8, SequencesUnchanged DEF IInv

\* sync_queue_pop on an empty queue that has been terminated.
LEMMA PopNullIInv ==
  ASSUME IInv, NEW c \in Consumers, PopNull(c)
  PROVE  IInv'
  <1> USE QueueAssumption
  <1>1. /\ TypeOK /\ SleepersHaveCause /\ DrainedAtEnd /\ OrderlyTerm
        /\ InsidePush
    BY DEF IInv
  <1>2. /\ pc[c] = "ready" /\ queue = <<>> /\ term
        /\ pc' = [pc EXCEPT ![c] = "done"]
        /\ UNCHANGED <<queue, term, orderly, sent, log, got>>
    BY DEF PopNull
  <1>3. c \in Threads /\ c \notin Producers /\ Consumers \subseteq Threads
        /\ Producers \subseteq Threads
    BY DEF Threads
  <1>4. \A t \in Threads : pc'[t] = IF t = c THEN "done" ELSE pc[t]
    BY <1>1, <1>2, <1>3 DEF TypeOK
  <1>5. TypeOK'
    <2>1. pc' \in [Threads -> {"ready", "maxwait", "woken", "minwait", "done"}]
      BY <1>1, <1>2 DEF TypeOK
    <2> QED
      BY <1>1, <1>2, <1>3, <1>4, <2>1, SequencesUnchanged DEF TypeOK
  <1>6. SleepersHaveCause'
    BY <1>1, <1>2, <1>3, <1>4 DEF SleepersHaveCause, HasRoom
  <1>7. AllPushed' <=> AllPushed
    BY <1>2, <1>3, <1>4 DEF AllPushed
  <1>8. DrainedAtEnd' /\ OrderlyTerm' /\ InsidePush'
    BY <1>1, <1>2, <1>3, <1>4, <1>7
       DEF DrainedAtEnd, OrderlyTerm, InsidePush
  <1> QED
    BY <1>2, <1>5, <1>6, <1>8, SequencesUnchanged DEF IInv

\* sync_queue_term
LEMMA TerminateIInv ==
  ASSUME IInv, Terminate
  PROVE  IInv'
  <1> USE QueueAssumption
  <1>1. /\ TypeOK /\ SleepersHaveCause /\ DrainedAtEnd /\ OrderlyTerm
        /\ InsidePush
    BY DEF IInv
  <1>2. /\ orderly => AllPushed
        /\ term' = TRUE /\ pc' = WakeConsumers(pc)
        /\ UNCHANGED <<queue, orderly, sent, log, got>>
    BY DEF Terminate
  <1>3. Consumers \subseteq Threads /\ Producers \subseteq Threads
    BY DEF Threads
  <1>4. \A t \in Threads :
          pc'[t] = IF pc[t] = "minwait" THEN "ready" ELSE pc[t]
    BY <1>2, Broadcasts
  <1>5. TypeOK'
    <2>1. pc' \in [Threads -> {"ready", "maxwait", "woken", "minwait", "done"}]
      BY <1>1, <1>2, <1>4 DEF TypeOK, WakeConsumers
    <2> QED
      BY <1>1, <1>2, <1>3, <1>4, <2>1, SequencesUnchanged DEF TypeOK
  <1>6. SleepersHaveCause'
    BY <1>1, <1>2, <1>3, <1>4 DEF SleepersHaveCause, HasRoom
  <1>7. AllPushed => AllPushed'
    BY <1>2, <1>3, <1>4 DEF AllPushed
  <1>8. DrainedAtEnd' /\ OrderlyTerm'
    BY <1>1, <1>2, <1>3, <1>4, <1>7 DEF DrainedAtEnd, OrderlyTerm
  <1>9. InsidePush'
    BY <1>1, <1>2, <1>3, <1>4 DEF InsidePush, TypeOK
  <1> QED
    BY <1>2, <1>5, <1>6, <1>8, <1>9, SequencesUnchanged DEF IInv

\* A wait that returns without a broadcast.
LEMMA SpuriousWakeupIInv ==
  ASSUME IInv, NEW t \in Threads, SpuriousWakeup(t)
  PROVE  IInv'
  <1> USE QueueAssumption
  <1>1. /\ TypeOK /\ SleepersHaveCause /\ DrainedAtEnd /\ OrderlyTerm
        /\ InsidePush
    BY DEF IInv
  <1>2. /\ pc[t] \in {"maxwait", "minwait"}
        /\ pc' = [pc EXCEPT ![t] = IF @ = "maxwait" THEN "woken" ELSE "ready"]
        /\ UNCHANGED <<queue, term, orderly, sent, log, got>>
    BY DEF SpuriousWakeup
  <1>3. Consumers \subseteq Threads /\ Producers \subseteq Threads
    BY DEF Threads
  <1>4. \A u \in Threads :
          pc'[u] = IF u # t THEN pc[u]
                   ELSE IF pc[t] = "maxwait" THEN "woken" ELSE "ready"
    BY <1>1, <1>2 DEF TypeOK
  <1>5. TypeOK'
    <2>1. pc' \in [Threads -> {"ready", "maxwait", "woken", "minwait", "done"}]
      BY <1>1, <1>2 DEF TypeOK
    <2> QED
      BY <1>1, <1>2, <1>3, <1>4, <2>1, SequencesUnchanged DEF TypeOK
  <1>6. SleepersHaveCause'
    BY <1>1, <1>2, <1>3, <1>4 DEF SleepersHaveCause, HasRoom
  <1>7. AllPushed => AllPushed'
    BY <1>1, <1>2, <1>3, <1>4 DEF AllPushed, TypeOK
  <1>8. DrainedAtEnd' /\ OrderlyTerm'
    BY <1>1, <1>2, <1>3, <1>4, <1>7 DEF DrainedAtEnd, OrderlyTerm
  <1>9. InsidePush'
    BY <1>1, <1>2, <1>3, <1>4 DEF InsidePush, TypeOK
  <1> QED
    BY <1>2, <1>5, <1>6, <1>8, <1>9, SequencesUnchanged DEF IInv

\* No step, and no stuttering step, breaks the inductive invariant.
LEMMA NextIInv == IInv /\ [Next]_vars => IInv'
  <1> SUFFICES ASSUME IInv, [Next]_vars PROVE IInv'
    OBVIOUS
  <1>1. ASSUME NEW p \in Producers, Push(p) PROVE IInv'
    BY <1>1, PushItemIInv, PushWaitIInv, PushRefusedIInv DEF Push
  <1>2. ASSUME NEW c \in Consumers, Pop(c) PROVE IInv'
    BY <1>2, PopItemIInv, PopWaitIInv, PopNullIInv DEF Pop
  <1>3. CASE UNCHANGED vars
    BY <1>3 DEF vars, IInv, TypeOK, SleepersHaveCause, HasRoom, WithinCapacity,
         DrainedAtEnd, Fifo, OrderlyTerm, InsidePush, AllPushed
  <1> QED
    BY <1>1, <1>2, <1>3, TerminateIInv, SpuriousWakeupIInv DEF Next, Over

\* The inductive invariant holds in every reachable state.
LEMMA AlwaysIInv == Spec => []IInv
  BY InitIInv, NextIInv, PTL DEF Spec

-----------------------------------------------------------------------------
\* The queue, the flag and the threads keep their types.
THEOREM TypeCorrect == Spec => []TypeOK
  <1>1. IInv => TypeOK
    BY DEF IInv
  <1> QED
    BY <1>1, AlwaysIInv, PTL

\* No wake-up is lost, for any number of producers and consumers: whoever
\* sleeps in sync_queue_push or sync_queue_pop still has a reason to.
THEOREM NoLostWakeup == Spec => []SleepersHaveCause
  <1>1. IInv => SleepersHaveCause
    BY DEF IInv
  <1> QED
    BY <1>1, AlwaysIInv, PTL

\* The bound of the queue holds although woken producers race for the room.
THEOREM BoundKept == Spec => []WithinCapacity
  <1>1. IInv => WithinCapacity
    BY DEF IInv, TypeOK
  <1> QED
    BY <1>1, AlwaysIInv, PTL

\* After an orderly term, NULL is the last thing a consumer hears.
THEOREM NullIsLast == Spec => []DrainedAtEnd
  <1>1. IInv => DrainedAtEnd
    BY DEF IInv
  <1> QED
    BY <1>1, AlwaysIInv, PTL

-----------------------------------------------------------------------------
(* Refinement of Channel.                                                  *)

\* The initial states of the queue are those of the channel.
LEMMA InitImplementsChannel == Init => C!CInit
  <1> SUFFICES ASSUME Init PROVE C!CInit
    OBVIOUS
  <1>1. log = <<>> /\ got = <<>> /\ (orderly /\ term) = FALSE
    BY DEF Init
  <1>2. {c \in Consumers : orderly /\ pc[c] = "done"} = {}
    BY DEF Init, Threads
  <1> QED
    BY <1>1, <1>2 DEF C!CInit

\* The mapped variables of the channel.
ClosedNow == orderly /\ term
EndedNow == {c \in Consumers : orderly /\ pc[c] = "done"}

\* A step that changes neither the histories, nor the flag, nor who is done,
\* is a stutter of the channel.
LEMMA Stutters ==
  ASSUME log' = log, got' = got, orderly' = orderly, ClosedNow' = ClosedNow,
         \A c \in Consumers : pc'[c] = "done" <=> pc[c] = "done"
  PROVE  UNCHANGED C!cvars
  <1>1. EndedNow' = EndedNow
    BY DEF EndedNow
  <1> QED
    BY <1>1 DEF C!cvars, ClosedNow, EndedNow

\* Every step of the queue is a step of the channel, or a stutter.
LEMMA NextImplementsChannel ==
  ASSUME IInv, IInv', [Next]_vars
  PROVE  [C!CNext]_C!cvars
  <1> USE QueueAssumption
  <1>1. /\ TypeOK /\ WithinCapacity /\ DrainedAtEnd /\ Fifo /\ OrderlyTerm
        /\ InsidePush
    BY DEF IInv, TypeOK
  <1>2. Consumers \subseteq Threads /\ Producers \subseteq Threads
        /\ Consumers \intersect Producers = {}
    BY DEF Threads
  <1>3. Len(queue) \in Nat /\ Len(got) \in Nat /\ Len(log) = Len(got) + Len(queue)
        /\ (queue = <<>> <=> Len(queue) = 0)
    BY <1>1, SeqFacts DEF TypeOK, Fifo
  <1>4. ASSUME NEW p \in Producers, PushItem(p)
        PROVE  C!Send
    <2> DEFINE item == <<p, sent[p] + 1>>
    <2>1. /\ queue' = Append(queue, item) /\ log' = Append(log, item)
          /\ pc' = WakeConsumers([pc EXCEPT ![p] = "ready"])
          /\ term' = term /\ orderly' = orderly /\ got' = got /\ HasRoom
      BY <1>4 DEF PushItem
    <2>2. /\ pc[p] \in {"ready", "woken"} /\ sent[p] \in 0..Quota
          /\ pc[p] = "ready" => sent[p] < Quota
      BY <1>1, <1>4 DEF PushItem, Pushing, TypeOK
    <2>3. sent[p] < Quota /\ item \in Items
      BY <1>1, <2>2 DEF InsidePush, Items
    <2>4. ~ClosedNow
      BY <1>1, <2>2, <2>3 DEF OrderlyTerm, AllPushed, ClosedNow
    <2>5. MaxSize > 0 => Len(log) - Len(got) < MaxSize
      BY <1>3, <2>1 DEF HasRoom
    <2>6. \A c \in Consumers : pc'[c] = "done" <=> pc[c] = "done"
      <3> SUFFICES ASSUME NEW c \in Consumers
                   PROVE  pc'[c] = "done" <=> pc[c] = "done"
        OBVIOUS
      <3>1. c \in Threads /\ c # p
        BY <1>2
      <3> QED
        BY <2>1, <3>1, Broadcasts, <1>1 DEF TypeOK
    <2>7. EndedNow' = EndedNow /\ ClosedNow' = ClosedNow
      BY <2>1, <2>6 DEF EndedNow, ClosedNow
    <2> QED
      BY <2>1, <2>3, <2>4, <2>5, <2>7
         DEF C!Send, C!InTransit, EndedNow, ClosedNow
  <1>5. ASSUME NEW c \in Consumers, PopItem(c)
        PROVE  C!Receive
    <2>1. /\ queue # <<>> /\ got' = Append(got, Head(queue))
          /\ pc' = WakeProducers(pc)
          /\ UNCHANGED <<term, orderly, log>>
      BY <1>5 DEF PopItem
    <2>2. Head(queue) = queue[1] /\ Len(queue) # 0
      BY <1>1, <1>3, <2>1, SeqFacts DEF TypeOK
    <2>3. queue[1] = log[Len(got) + 1]
      BY <1>1, <1>3, <2>2 DEF Fifo
    <2>4. Len(log) - Len(got) > 0
      BY <1>3, <2>2
    <2>5. \A d \in Consumers : pc'[d] = "done" <=> pc[d] = "done"
      BY <1>2, <2>1, Broadcasts
    <2>6. EndedNow' = EndedNow /\ ClosedNow' = ClosedNow
      BY <2>1, <2>5 DEF EndedNow, ClosedNow
    <2> QED
      BY <2>1, <2>2, <2>3, <2>4, <2>6
         DEF C!Receive, C!InTransit, EndedNow, ClosedNow
  <1>6. ASSUME NEW c \in Consumers, PopNull(c)
        PROVE  C!End \/ UNCHANGED C!cvars
    <2>1. /\ pc[c] = "ready" /\ queue = <<>> /\ term
          /\ pc' = [pc EXCEPT ![c] = "done"]
          /\ UNCHANGED <<queue, term, orderly, sent, log, got>>
      BY <1>6 DEF PopNull
    <2>2. \A d \in Consumers :
            pc'[d] = "done" <=> (d = c \/ pc[d] = "done")
      BY <1>1, <1>2, <2>1 DEF TypeOK
    <2>3. CASE orderly
      <3>1. EndedNow' = EndedNow \union {c} /\ c \in Consumers \ EndedNow
        BY <2>1, <2>2, <2>3 DEF EndedNow
      <3>2. Len(log) - Len(got) = 0 /\ ClosedNow /\ ClosedNow' = ClosedNow
        BY <1>3, <2>1, <2>3 DEF ClosedNow
      <3> QED
        BY <2>1, <3>1, <3>2 DEF C!End, C!InTransit, EndedNow, ClosedNow
    <2>4. CASE ~orderly
      <3>1. EndedNow' = EndedNow /\ ClosedNow' = ClosedNow
        BY <2>1, <2>4 DEF EndedNow, ClosedNow
      <3> QED
        BY <2>1, <3>1 DEF C!cvars, EndedNow, ClosedNow
    <2> QED
      BY <2>3, <2>4
  <1>7. ASSUME Terminate
        PROVE  C!Close \/ UNCHANGED C!cvars
    <2>1. /\ ~term /\ term' = TRUE /\ pc' = WakeConsumers(pc)
          /\ UNCHANGED <<queue, orderly, sent, log, got>>
      BY <1>7 DEF Terminate
    <2>2. \A d \in Consumers : pc'[d] = "done" <=> pc[d] = "done"
      BY <1>2, <2>1, Broadcasts
    <2>3. EndedNow' = EndedNow
      BY <2>1, <2>2 DEF EndedNow
    <2>4. CASE orderly
      <3>1. ClosedNow' = TRUE /\ ~ClosedNow
        BY <2>1, <2>4 DEF ClosedNow
      <3> QED
        BY <2>1, <2>3, <3>1 DEF C!Close, EndedNow, ClosedNow
    <2>5. CASE ~orderly
      <3>1. ClosedNow' = ClosedNow
        BY <2>1, <2>5 DEF ClosedNow
      <3> QED
        BY <2>1, <2>3, <3>1 DEF C!cvars, EndedNow, ClosedNow
    <2> QED
      BY <2>4, <2>5
  <1>8. ASSUME NEW p \in Producers, PushWait(p) \/ PushRefused(p)
        PROVE  UNCHANGED C!cvars
    <2>1. /\ log' = log /\ got' = got /\ orderly' = orderly /\ term' = term
          /\ pc' = pc \/ pc' = [pc EXCEPT ![p] = "maxwait"]
      BY <1>8 DEF PushWait, PushRefused
    <2>2. \A d \in Consumers : pc'[d] = pc[d]
      BY <1>1, <1>2, <2>1 DEF TypeOK
    <2> QED
      BY <2>1, <2>2, Stutters DEF ClosedNow
  <1>9. ASSUME NEW c \in Consumers, PopWait(c)
        PROVE  UNCHANGED C!cvars
    <2>1. /\ log' = log /\ got' = got /\ orderly' = orderly /\ term' = term
          /\ pc[c] = "ready" /\ pc' = [pc EXCEPT ![c] = "minwait"]
      BY <1>9 DEF PopWait
    <2>2. \A d \in Consumers : pc'[d] = "done" <=> pc[d] = "done"
      BY <1>1, <1>2, <2>1 DEF TypeOK
    <2> QED
      BY <2>1, <2>2, Stutters DEF ClosedNow
  <1>10. ASSUME NEW t \in Threads, SpuriousWakeup(t)
         PROVE  UNCHANGED C!cvars
    <2>1. /\ log' = log /\ got' = got /\ orderly' = orderly /\ term' = term
          /\ pc[t] \in {"maxwait", "minwait"}
          /\ pc' = [pc EXCEPT ![t] = IF @ = "maxwait" THEN "woken" ELSE "ready"]
      BY <1>10 DEF SpuriousWakeup
    <2>2. \A d \in Consumers : pc'[d] = "done" <=> pc[d] = "done"
      BY <1>1, <1>2, <2>1 DEF TypeOK
    <2> QED
      BY <2>1, <2>2, Stutters DEF ClosedNow
  <1>11. ASSUME UNCHANGED vars
         PROVE  UNCHANGED C!cvars
    BY <1>11, Stutters DEF vars, ClosedNow
  <1> QED
    BY <1>4, <1>5, <1>6, <1>7, <1>8, <1>9, <1>10, <1>11
       DEF Next, Push, Pop, Over, C!CNext

\* The monitor of sync_queue.c is a closable channel, whatever the number of
\* its users and whatever its bound: it hands on each item once, in order,
\* within the bound, and reports the end only when everything was received.
THEOREM ImplementsChannel == Spec => IsChannel
  BY InitImplementsChannel, NextImplementsChannel, AlwaysIInv, PTL
     DEF Spec, IsChannel, C!CSpec
=============================================================================
