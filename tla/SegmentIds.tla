----------------------------- MODULE SegmentIds -----------------------------
(***************************************************************************)
(* The ids of segments under logical locality (recipe/recipestore.c): the  *)
(* number of the backup, the offset of the segment in its recipe and the   *)
(* number of its chunks, packed into 64 bits.  Lifecycle keeps them apart, *)
(* as the triple <<bnum, off, size>>, and compares two of them part by     *)
(* part (Later); LifecycleProofs shows for which numbers it may do so.     *)
(*                                                                         *)
(* An id is a signed integer, and a right shift rounds down, as \div does. *)
(***************************************************************************)
EXTENDS Integers

\* 16-bit backup id, 32-bit off, 16-bit size
SizeRange == 65536
OffRange == 4294967296

make_segment_id(bid, off, size) == bid * (OffRange * SizeRange) + off * SizeRange + size
id_to_size(id) == id % SizeRange
id_to_off(id) == (id \div SizeRange) % OffRange
id_to_bnum(id) == id \div (OffRange * SizeRange)

\* What fits into the fields; the sixteenth bit of the backup is the sign.
BackupIds == 0 .. 32767
Offsets == 0 .. OffRange - 1
Sizes == 0 .. SizeRange - 1
=============================================================================
