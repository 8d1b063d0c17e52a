------------------------------ MODULE Stream ------------------------------
(***************************************************************************)
(* From files to segments: read_thread, chunk_thread and sha1_thread, each *)
(* with its queue, and the segmenting that dedup_thread does with what it  *)
(* pops.  make_trace writes the hashed stream into a file instead, and     *)
(* read_trace_thread brings it back for a backup of simulation level ALL.  *)
(*                                                                         *)
(* A byte is a number, a fingerprint the content it stands for (no two     *)
(* contents collide).  A queue is the channel that SyncQueue implements; a *)
(* thread pops and pushes in one step, as if its queue were a place longer.*)
(***************************************************************************)
EXTENDS Chunking, Segments, TLC

CONSTANTS
  Streams,    \* bound: the backups, sequences of files, sequences of bytes
  Settings,   \* bound: [job, algorithm, method]; job is "backup" or "trace"
  BlockSize,  \* DEFAULT_BLOCK_SIZE
  QueueSize   \* the size of each queue

Methods == {"fixed", "file", "content"}

ASSUME StreamAssumption ==
  /\ {BlockSize, QueueSize} \subseteq Nat \ {0}
  /\ Streams \subseteq Seq(Seq(Nat))
  /\ \A s \in Settings :
       s.job \in {"backup", "trace"} /\ s.algorithm \in Algorithms /\ s.method \in Methods

VARIABLES
  files,    \* the files that read_thread has found and will find, in order
  setting,  \* the configuration
  reader,   \* read_thread in find_one_file: [file, offset, open]
  chunker,  \* chunk_thread: [pc, left, c]: leftbuf from leftoff, and its c
  queues,   \* read, chunk, hash and trace: [items, term]
  trace,    \* the lines of the trace file
  line,     \* read_trace_thread: the lines it has read
  tmp,      \* the static segment of the segmenting function
  segments, \* the segments that dedup_thread has got
  done      \* dedup_thread has met the end of the stream

vars == <<files, setting, reader, chunker, queues, trace, line, tmp, segments, done>>
consumer == <<trace, line, tmp, segments, done>>

Item(mark, data, fp, size) == [mark |-> mark, data |-> data, fp |-> fp, size |-> size]
\* A name has one letter; the item has it with its terminator.
FileStart(name) == Item("start", <<name>>, ZeroFp, 2)
FileEnd == Item("end", <<>>, ZeroFp, 0)
Raw(bytes) == Item("chunk", bytes, ZeroFp, Len(bytes))
NoItem == Item("none", <<>>, ZeroFp, 0)

\* The queues after some of: a pop, a push, a term.
Room(q) == Len(queues[q].items) < QueueSize
Filled(q) == queues[q].items # <<>>
Ended(q) == queues[q].term /\ ~Filled(q)
First(q) == Head(queues[q].items)
Pop(qs, q) == [qs EXCEPT ![q].items = Tail(@)]
Push(qs, q, c) == [qs EXCEPT ![q].items = Append(@, c)]
Term(qs, q) == [qs EXCEPT ![q].term = TRUE]

Init ==
  /\ files \in Streams
  /\ setting \in Settings
  /\ reader = [file |-> 1, offset |-> 0, open |-> FALSE]
  /\ chunker = [pc |-> "start", left |-> <<>>, c |-> NoItem]
  /\ queues = [q \in {"read", "chunk", "hash", "trace"} |-> [items |-> <<>>, term |-> FALSE]]
  /\ trace = <<>> /\ line = 0
  /\ tmp = NewSegment /\ segments = <<>> /\ done = FALSE

-----------------------------------------------------------------------------
(* read_thread.                                                            *)

AllRead == reader.file > Len(files)

OpenFile ==
  /\ ~reader.open /\ ~AllRead /\ Room("read")
  /\ queues' = Push(queues, "read", FileStart(reader.file))
  /\ reader' = [reader EXCEPT !.open = TRUE]
  /\ UNCHANGED <<files, setting, chunker, consumer>>

\* A name that readdir gave, that of the next file or of a directory that
\* begins with it, is gone when stat asks for it: find_one_file returns from the
\* directory with that name, and leaves what is behind it there as well; the
\* directory above goes on.  In which directory a file stands is left open: the
\* ones that are left out are any number of the next ones.
Vanish ==
  /\ ~reader.open /\ ~AllRead
  /\ \E last \in reader.file .. Len(files) :
       files' = SubSeq(files, 1, reader.file - 1) \o SubSeq(files, last + 1, Len(files))
  /\ UNCHANGED <<setting, reader, chunker, queues, consumer>>

Unread == Len(files[reader.file]) - reader.offset

ReadBlock ==
  /\ reader.open /\ Unread > 0 /\ Room("read")
  /\ LET size == Min({BlockSize, Unread})
     IN /\ queues' = Push(queues, "read",
                          Raw(SubSeq(files[reader.file], reader.offset + 1, reader.offset + size)))
        /\ reader' = [reader EXCEPT !.offset = @ + size]
  /\ UNCHANGED <<files, setting, chunker, consumer>>

CloseFile ==
  /\ reader.open /\ Unread = 0 /\ Room("read")
  /\ queues' = Push(queues, "read", FileEnd)
  /\ reader' = [reader EXCEPT !.file = @ + 1, !.offset = 0, !.open = FALSE]
  /\ UNCHANGED <<files, setting, chunker, consumer>>

EndRead ==
  /\ ~reader.open /\ AllRead /\ ~queues["read"].term
  /\ queues' = Term(queues, "read")
  /\ UNCHANGED <<files, setting, reader, chunker, consumer>>

-----------------------------------------------------------------------------
(* chunk_thread.                                                           *)

ChunkFileStart ==
  /\ chunker.pc = "start" /\ Filled("read") /\ Room("chunk")
  /\ Assert(First("read").mark = "start", "CHUNK_FILE_START")
  /\ queues' = Push(Pop(queues, "read"), "chunk", First("read"))
  /\ chunker' = [chunker EXCEPT !.pc = "first"]
  /\ UNCHANGED <<files, setting, reader, consumer>>

\* (mutant) A block is cut up before the next is read.
HungryBlock == chunker.left = <<>> /\ chunker.c = NoItem

\* Fewer than chunk_max_size bytes at hand, and the file has not ended.
Hungry == Len(chunker.left) < chunk_max_size(setting.algorithm) /\ chunker.c = NoItem

\* The first pop after the start is made in any case, the others to fill.
Fill ==
  /\ chunker.pc = "first" \/ (chunker.pc = "cut" /\ Hungry)
  /\ Filled("read")
  /\ LET c == First("read")
     IN chunker' = IF c.mark = "end" THEN [chunker EXCEPT !.pc = "cut", !.c = c]
                   ELSE [chunker EXCEPT !.pc = "cut", !.left = @ \o c.data]
  /\ queues' = Pop(queues, "read")
  /\ UNCHANGED <<files, setting, reader, consumer>>

Cut ==
  /\ chunker.pc = "cut" /\ ~Hungry /\ chunker.left # <<>> /\ Room("chunk")
  /\ LET left == chunker.left
         chunk_size == chunking(setting.algorithm, left)
     IN /\ queues' = Push(queues, "chunk", Raw(SubSeq(left, 1, chunk_size)))
        /\ chunker' = [chunker EXCEPT !.left = SubSeq(left, chunk_size + 1, Len(left))]
  /\ UNCHANGED <<files, setting, reader, consumer>>

\* (mutant) The end of the file overtakes its last chunks.
ChunkFileEndEarly ==
  /\ chunker.pc = "cut" /\ ~Hungry /\ Room("chunk")
  /\ queues' = Push(queues, "chunk", chunker.c)
  /\ chunker' = [chunker EXCEPT !.pc = "start", !.c = NoItem]
  /\ UNCHANGED <<files, setting, reader, consumer>>

ChunkFileEnd ==
  /\ chunker.pc = "cut" /\ ~Hungry /\ chunker.left = <<>> /\ Room("chunk")
  /\ queues' = Push(queues, "chunk", chunker.c)
  /\ chunker' = [chunker EXCEPT !.pc = "start", !.c = NoItem]
  /\ UNCHANGED <<files, setting, reader, consumer>>

EndChunk ==
  /\ chunker.pc = "start" /\ Ended("read") /\ ~queues["chunk"].term
  /\ queues' = Term(queues, "chunk")
  /\ UNCHANGED <<files, setting, reader, chunker, consumer>>

-----------------------------------------------------------------------------
(* sha1_thread.                                                            *)

Hash ==
  /\ Filled("chunk") /\ Room("hash") /\ ~queues["hash"].term
  /\ LET c == First("chunk")
         hashed == IF IsMark(c) THEN c ELSE [c EXCEPT !.fp = c.data]
     IN queues' = Push(Pop(queues, "chunk"), "hash", hashed)
  /\ UNCHANGED <<files, setting, reader, chunker, consumer>>

\* (mutant) term is taken for the end, whatever is left in the queue.
EndHashEager ==
  /\ queues["chunk"].term /\ ~queues["hash"].term
  /\ queues' = Term(queues, "hash")
  /\ UNCHANGED <<files, setting, reader, chunker, consumer>>

EndHash ==
  /\ Ended("chunk") /\ ~queues["hash"].term
  /\ queues' = Term(queues, "hash")
  /\ UNCHANGED <<files, setting, reader, chunker, consumer>>

-----------------------------------------------------------------------------
(* make_trace and read_trace_thread.                                       *)

hash2code(fp) ==
  [k \in 1 .. 2 * Len(fp) |-> IF k % 2 = 1 THEN fp[(k + 1) \div 2] \div 16 ELSE fp[k \div 2] % 16]

code2hash(code) == [k \in 1 .. Len(code) \div 2 |-> 16 * code[2 * k - 1] + code[2 * k]]

Line(c) == [text |-> c.mark, name |-> IF c.mark = "start" THEN c.data ELSE <<>>,
            code |-> hash2code(c.fp), size |-> c.size]
StreamEnd == [text |-> "stream end", name |-> <<>>, code |-> <<>>, size |-> 0]
Traced == trace # <<>> /\ Last(trace) = StreamEnd

WriteLine ==
  /\ setting.job = "trace" /\ Filled("hash")
  /\ trace' = Append(trace, Line(First("hash")))
  /\ queues' = Pop(queues, "hash")
  /\ UNCHANGED <<files, setting, reader, chunker, line, tmp, segments, done>>

WriteStreamEnd ==
  /\ setting.job = "trace" /\ Ended("hash") /\ ~Traced
  /\ trace' = Append(trace, StreamEnd)
  /\ UNCHANGED <<files, setting, reader, chunker, queues, line, tmp, segments, done>>

\* The item that read_trace_thread makes of a line: a chunk has no data, and a
\* name one byte more than it had, for the end of the line.
OfLine(l) ==
  Item(l.text, l.name, code2hash(l.code), IF l.text = "start" THEN Len(l.name) + 2 ELSE l.size)

ReadLine ==
  /\ Traced /\ line < Len(trace)
  /\ IF trace[line + 1] = StreamEnd THEN queues' = Term(queues, "trace")
     ELSE Room("trace") /\ queues' = Push(queues, "trace", OfLine(trace[line + 1]))
  /\ line' = line + 1
  /\ UNCHANGED <<files, setting, reader, chunker, trace, tmp, segments, done>>

-----------------------------------------------------------------------------
(* The loop of dedup_thread, up to the lookup of the segment.              *)

Source == IF setting.job = "trace" THEN "trace" ELSE "hash"

Segment ==
  /\ Filled(Source) /\ ~done
  /\ LET r == segmenting(setting.method, tmp, First(Source))
     IN /\ tmp' = r.tmp
        /\ segments' = IF r.done THEN Append(segments, r.segment) ELSE segments
  /\ queues' = Pop(queues, Source)
  /\ UNCHANGED <<files, setting, reader, chunker, trace, line, done>>

\* segmenting(NULL) returns the rest, which may be empty.
EndSegments ==
  /\ Ended(Source) /\ ~done
  /\ segments' = Append(segments, tmp)
  /\ tmp' = NewSegment
  /\ done' = TRUE
  /\ UNCHANGED <<files, setting, reader, chunker, queues, trace, line>>

-----------------------------------------------------------------------------
ReadThread == OpenFile \/ Vanish \/ ReadBlock \/ CloseFile \/ EndRead
ChunkThread == ChunkFileStart \/ Fill \/ Cut \/ ChunkFileEnd \/ EndChunk
HashThread == Hash \/ EndHash
TraceJob == WriteLine \/ WriteStreamEnd \/ ReadLine
DedupThread == Segment \/ EndSegments

Next == ReadThread \/ ChunkThread \/ HashThread \/ TraceJob \/ DedupThread

Spec == Init /\ [][Next]_vars
FairSpec == Spec /\ WF_vars(ReadThread) /\ WF_vars(ChunkThread) /\ WF_vars(HashThread)
                 /\ WF_vars(TraceJob) /\ WF_vars(DedupThread)
-----------------------------------------------------------------------------
(* Properties.                                                             *)

\* Type invariant.
TypeOK ==
  /\ files \in Seq(Seq(Nat)) /\ setting \in Settings
  /\ reader.file \in 1 .. Len(files) + 1 /\ reader.open \in BOOLEAN
  /\ reader.open => Unread >= 0
  /\ chunker.pc \in {"start", "first", "cut"} /\ chunker.c \in {NoItem, FileEnd}
  /\ chunker.pc = "start" => chunker.left = <<>>
  /\ \A q \in DOMAIN queues : queues[q].term \in BOOLEAN /\ Len(queues[q].items) <= QueueSize
  /\ line \in 0 .. Len(trace) /\ done \in BOOLEAN
  /\ tmp.chunk_num = Len(NormalChunks(tmp.chunks))

\* What dedup_thread has been given so far, in order.
Identity(c) ==
  IF c.mark = "start" THEN [c EXCEPT !.size = 0] ELSE [c EXCEPT !.data = <<>>]
Handed ==
  LET chunks == FlattenSeq([k \in DOMAIN segments |-> segments[k].chunks]) \o tmp.chunks
  IN [k \in DOMAIN chunks |-> Identity(chunks[k])]

\* A file cut with all of its bytes at hand.
Wanted(algorithm, f) ==
  LET chunk(bytes) == Item("chunk", <<>>, bytes, Len(bytes))
      upto[n \in 0 .. Len(f)] ==
        IF n = 0 THEN [pos |-> 0, items |-> <<>>]
        ELSE LET before == upto[n - 1]
                 rest == SubSeq(f, before.pos + 1, Len(f))
                 size == chunking(algorithm, rest)
             IN IF rest = <<>> THEN before
                ELSE [pos |-> before.pos + size,
                      items |-> Append(before.items, chunk(SubSeq(rest, 1, size)))]
  IN upto[Len(f)].items

Files == UNION {ToSet(s) : s \in Streams}
WantedOf == [x \in {t.algorithm : t \in Settings} \X Files |-> Wanted(x[1], x[2])]

WantedStream ==
  FlattenSeq([k \in DOMAIN files |->
    <<Identity(FileStart(k))>> \o WantedOf[<<setting.algorithm, files[k]>>] \o <<FileEnd>>])

\* The bytes of a stream, with its marks.
Spelled(items) ==
  FlattenSeq([k \in DOMAIN items |-> IF IsMark(items[k]) THEN <<items[k].mark>> ELSE items[k].fp])

\* Deduplication rests on it: where a file is cut depends on its bytes alone,
\* not on the blocks it was read in nor on the pace of the threads, and the
\* stream that reaches dedup_thread, directly or from a trace, is that of the
\* files, in order.  Asymmetric extremum keeps the bytes only: how far it
\* looks depends on how much has been read.
CutByContent ==
  IF setting.algorithm = "ae" THEN IsPrefix(Spelled(Handed), Spelled(WantedStream))
  ELSE IsPrefix(Handed, WantedStream)

\* The sizes the configuration promises: no chunk is above the maximum, and
\* only the last of a file is below the minimum.  Asymmetric extremum does not
\* keep the maximum: of its chunks nothing is said but that, whatever it does,
\* leftbuf takes every block that is read.
ChunksBounded ==
  LET limit == chunk_max_size(setting.algorithm)
      least == CASE setting.algorithm = "ae" -> 1
                 [] setting.algorithm \in {"fixed", "file"} -> limit
                 [] OTHER -> MinSize
  IN /\ Len(chunker.left) < limit + BlockSize
     /\ \A k \in DOMAIN Handed :
          Handed[k].mark = "chunk" =>
            /\ setting.algorithm # "ae" => Handed[k].size <= limit
            /\ k < Len(Handed) /\ Handed[k + 1].mark = "chunk" => Handed[k].size >= least

\* What the index buffer's threshold and the similarity lookup count on: a
\* segment has at most the configured number of chunks, all but the last
\* have the least number, and file-defined ones end with their file.
SegmentsBounded ==
  \A k \in DOMAIN segments :
    LET s == segments[k]
        last == done /\ k = Len(segments)
    IN /\ s.chunk_num = Len(NormalChunks(s.chunks))
       /\ setting.method = "fixed" =>
            s.chunk_num <= SegmentLength /\ (~last => s.chunk_num = SegmentLength)
       /\ setting.method = "content" =>
            /\ s.chunk_num <= Max({SegmentMin + 1, SegmentMax, 2})
            /\ ~last => s.chunk_num >= SegmentMin
       /\ setting.method = "file" =>
            IF last THEN s.chunks = <<>>
            ELSE \A j \in DOMAIN s.chunks : (s.chunks[j].mark = "end") <=> (j = Len(s.chunks))

\* What is handed to the deduplication is bounded at both levels.
SizesBounded == ChunksBounded /\ SegmentsBounded

\* The smallest fingerprints of a segment, counted with repetition.
Smallest(chunks, n) ==
  LET normal == NormalChunks(chunks)
      below(k) == {j \in DOMAIN normal :
                     Before(normal[j].fp, normal[k].fp) \/ (normal[j].fp = normal[k].fp /\ j < k)}
  IN {normal[k].fp : k \in {j \in DOMAIN normal : Cardinality(below(j)) < n}}

\* The similarity lookup finds a segment again by its features: the minimal
\* ones are those of its chunks whatever their order, every other one is the
\* fingerprint of one of its chunks, or zero, and there is always one.
FeaturesRepresent ==
  \A k \in DOMAIN segments :
    LET chunks == segments[k].chunks
        n == segments[k].chunk_num
        fps == {c.fp : c \in ToSet(NormalChunks(chunks))}
    IN n > 0 =>
       /\ index_sampling_min(chunks, n) = Smallest(chunks, feature_num(chunks, n))
       /\ index_sampling_optimized_min(chunks, n) \in (SUBSET fps) \ {{}}
       /\ index_sampling_random(chunks, n) \in (SUBSET (fps \cup {ZeroFp})) \ {{}}
       /\ index_sampling_uniform(chunks, n) \in (SUBSET (fps \cup {ZeroFp})) \ {{}}

\* The job ends, and every file has reached dedup_thread as a whole, but for
\* those behind a vanished name in its directory: "ignored!", the warning says
\* of that name alone, and the code leaves them out with it.
StreamCompletes ==
  <>[](done /\ Spelled(Handed) =
         FlattenSeq([k \in DOMAIN files |-> <<"start">> \o files[k] \o <<"end">>]))
=============================================================================
