----------------------------- MODULE MCRestore -----------------------------
(* Small instances of Restore.                                             *)
EXTENDS Restore

CONSTANTS fa, fb, fc, fd, Length

\* Four containers.  The copy of fb in container 0 has been rewritten, so that
\* no recipe points to it any more, and both copies of fc are in use.
Stored == 0 :> {fa, fb} @@ 1 :> {fb, fc} @@ 2 :> {fc} @@ 3 :> {fd}
Pointers == {[fp |-> fa, id |-> 0], [fp |-> fb, id |-> 1], [fp |-> fc, id |-> 1],
             [fp |-> fc, id |-> 2], [fp |-> fd, id |-> 3]}

\* Two files; the first has one chunk, or none if the second has only one.
Backups == {<<<<s[1]>>, Tail(s)>> : s \in [1 .. Length -> Pointers]}
             \cup {<<<<>>, <<p>>>> : p \in Pointers}
=============================================================================
