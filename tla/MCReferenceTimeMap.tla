------------------------ MODULE MCReferenceTimeMap ------------------------
(* Small instances of ReferenceTimeMap.                                   *)
EXTENDS ReferenceTimeMap
=============================================================================
