------------------------------ MODULE Playback ------------------------------
(***************************************************************************)
(* What a restore promises: it plays a backed-up stream, a sequence of     *)
(* file starts, chunks and file ends, from its beginning, in its order,    *)
(* each item once, and is done only when it has played all of it.          *)
(***************************************************************************)
EXTENDS Naturals, Sequences

CONSTANT Streams  \* what may have been backed up

VARIABLES
  stream,   \* the stream of the version
  played,   \* what has been written so far
  finished  \* the restore has reported its end

pvars == <<stream, played, finished>>

PInit == stream \in Streams /\ played = <<>> /\ finished = FALSE

Play ==
  /\ Len(played) < Len(stream) /\ ~finished
  /\ played' = Append(played, stream[Len(played) + 1])
  /\ UNCHANGED <<stream, finished>>

Finish ==
  /\ played = stream /\ ~finished
  /\ finished' = TRUE
  /\ UNCHANGED <<stream, played>>

PSpec == PInit /\ [][Play \/ Finish]_pvars
=============================================================================
