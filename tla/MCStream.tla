----------------------------- MODULE MCStream -----------------------------
(* Small instances of Stream.                                              *)
EXTENDS Stream

CONSTANT Longest

\* One file of any content and length, with a short one behind it and, for
\* some, an empty one before.
Bytes == {17, 32}
Contents(n) == UNION {[1 .. k -> Bytes] : k \in 0 .. n}
Backups == {<<f, <<17, 32, 32>>>> : f \in [1 .. Longest -> Bytes]}
             \cup {<<<<>>, f>> : f \in Contents(4)}

Setting(job, algorithm, method) == [job |-> job, algorithm |-> algorithm, method |-> method]
AllSettings ==
  {Setting("backup", "rabin", "content"), Setting("backup", "tttd", "fixed"),
   Setting("trace", "normalized", "file"), Setting("backup", "fixed", "content"),
   Setting("backup", "file", "content"), Setting("trace", "ae", "fixed")}
=============================================================================
