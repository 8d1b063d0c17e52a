------------------------------ MODULE Versions ------------------------------
(***************************************************************************)
(* What destor promises over many jobs: a backup adds a version with the   *)
(* next number, a version that is kept can be restored to exactly what was *)
(* backed up, and deletion takes the oldest version, once more than        *)
(* Retention of them are kept (destor.h: backup_retention_time).  What the *)
(* index finds is not always there (Lifecycle): from then on a new version *)
(* may be anything, and still none that is kept changes.                   *)
(***************************************************************************)
EXTENDS Integers, FiniteSets

CONSTANTS
  Contents,   \* what may be backed up
  Retention   \* how many versions are kept, all of them if negative

VARIABLES
  versions,   \* the content of each version that is kept
  next,       \* the number of the next version
  sound       \* does the index find only what is there?

vvars == <<versions, next, sound>>

Kept == DOMAIN versions

VInit == versions = [v \in {} |-> {}] /\ next = 0 /\ sound = TRUE

\* A backup: the new version is added, the others are what they were.
Backup ==
  /\ DOMAIN versions' = Kept \union {next}
  /\ \A v \in Kept \ {next} : versions'[v] = versions[v]
  /\ sound => versions'[next] \in Contents
  /\ next' = next + 1
  /\ UNCHANGED sound

\* A deletion: only the oldest version goes.
Expire ==
  /\ Retention >= 0 /\ Cardinality(Kept) > Retention
  /\ \E oldest \in Kept :
       /\ \A v \in Kept : oldest <= v
       /\ versions' = [v \in Kept \ {oldest} |-> versions[v]]
  /\ UNCHANGED <<next, sound>>

\* The index has come to find what is not there, once and for all.
Spoil == sound /\ ~sound' /\ UNCHANGED <<versions, next>>

VNext == Backup \/ Expire \/ Spoil

VSpec == VInit /\ [][VNext]_vvars
=============================================================================
