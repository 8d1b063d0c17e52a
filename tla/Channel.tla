------------------------------ MODULE Channel ------------------------------
(***************************************************************************)
(* What the phases of destor expect of the queue between two of them       *)
(* (utils/sync_queue.c): a first-in first-out channel of bounded capacity  *)
(* that its writers close once, after their last item, and whose readers   *)
(* are told of the end only when every accepted item has been received.    *)
(***************************************************************************)
EXTENDS Integers, Sequences

CONSTANTS
  Items,     \* what a writer may send
  Readers,   \* the threads that receive
  Capacity   \* the most items in transit; no bound when it is not positive

VARIABLES
  accepted,  \* every item sent, in the order in which the channel took it
  received,  \* every item received, in the order in which it was handed out
  closed,    \* the writers have closed the channel
  ended      \* the readers that have been told that nothing will follow

cvars == <<accepted, received, closed, ended>>

InTransit == Len(accepted) - Len(received)

CInit ==
  /\ accepted = <<>>
  /\ received = <<>>
  /\ closed = FALSE
  /\ ended = {}

Send ==
  /\ ~closed
  /\ Capacity > 0 => InTransit < Capacity
  /\ \E i \in Items : accepted' = Append(accepted, i)
  /\ UNCHANGED <<received, closed, ended>>

Receive ==
  /\ InTransit > 0
  /\ received' = Append(received, accepted[Len(received) + 1])
  /\ UNCHANGED <<accepted, closed, ended>>

Close ==
  /\ ~closed
  /\ closed' = TRUE
  /\ UNCHANGED <<accepted, received, ended>>

End ==
  /\ closed
  /\ InTransit = 0
  /\ \E r \in Readers \ ended : ended' = ended \union {r}
  /\ UNCHANGED <<accepted, received, closed>>

CNext == Send \/ Receive \/ Close \/ End

CSpec == CInit /\ [][CNext]_cvars
=============================================================================
