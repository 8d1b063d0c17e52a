-------------------------- MODULE MCDedupPipeline --------------------------
(* Small instances of DedupPipeline.                                       *)
EXTENDS DedupPipeline

CONSTANTS a, b

\* The first backup, or one after others that left a, or a and b, in one
\* container or in two.
History == {<<>>, <<{a}>>, <<{a, b}>>, <<{a}, {b}>>}
=============================================================================
