---------------------------- MODULE MCLifecycle ----------------------------
(* Small instances of Lifecycle.                                           *)
EXTENDS Lifecycle

Backups == {<<1, 2>>, <<2>>, <<1, 3, 1>>, <<2, 1, 3>>}

\* The specific indexes of index.c, in small: DDFS, sampled index, block
\* locality caching, sparse index, SiLo.
Index(exact, kind, select, tops, prefetch, sampling) ==
  [exact |-> exact, kind |-> kind, select |-> select, tops |-> tops,
   prefetch |-> prefetch, sampling |-> sampling]
SpecificIndexes ==
  {Index(TRUE, "physical", "base", 1, 1, "random"),
   Index(FALSE, "physical", "base", 1, 1, "random"),
   Index(TRUE, "logical", "base", 1, 2, "random"),
   Index(FALSE, "logical", "top", 2, 1, "random"),
   Index(FALSE, "logical", "top", 1, 2, "min")}
SparseIndex == {i \in SpecificIndexes : i.select = "top" /\ i.sampling = "random"}
=============================================================================
