---------------------------- MODULE RestoreProofs ----------------------------
(***************************************************************************)
(* For every backup, every layout of the containers and every size of the  *)
(* caches, the area, the window, the segments and the queues: a restore    *)
(* plays back the backup and nothing else with each of its three schemes,  *)
(* the access records that the optimal scheme consumes are those of the    *)
(* chunks it meets, it follows Belady's rule in its window, and an LRU     *)
(* restore reads what the backup has simulated.                            *)
(*                                                                         *)
(* The argument: all that is ever pushed is one sequence, the feed.  At    *)
(* every moment it is divided into what is written, in the second queue,   *)
(* issued, in the area, in the first queue and not yet read, in this order *)
(* (Flow), and the number of its chunks that the restore thread has popped *)
(* says which access record is the next and what the simulation has cached.*)
(***************************************************************************)
EXTENDS Restore, SequenceFacts, FiniteSetTheorems, TLAPS

-----------------------------------------------------------------------------
(* The feed: what read_recipe_thread pushes for a backup.                  *)

\* The pointers to a chunk in a container that has it.
Pointers == {p \in [fp : UNION {Containers[c] : c \in DOMAIN Containers}, id : DOMAIN Containers] :
               p.fp \in Containers[p.id]}

\* What the reader pushes for file f of the recipe, and for all of them.
FileFeed(r, f) ==
  [i \in 1 .. Len(r[f]) + 2 |-> IF i = 1 THEN Start(f)
                                ELSE IF i = Len(r[f]) + 2 THEN End ELSE Chunk(r[f][i - 1])]

Feed(r) == FlattenSeq([f \in 1 .. Len(r) |-> FileFeed(r, f)])

FeedItems(r) == {Start(f) : f \in 1 .. Len(r)} \cup {End} \cup {Chunk(p) : p \in Pointers}

\* The items before those of file f.
FeedStart(r, f) == Starts(r)[f] + 2 * (f - 1)

\* What is written of an item that is ready or a mark.
PlayedAs(c) == [kind |-> IF IsMark(c) THEN c.kind ELSE "chunk",
                of |-> IF IsMark(c) THEN {c.id} ELSE c.fp]

\* What the assumption says of a recipe.
LEMMA RecipeFacts ==
  ASSUME NEW r \in Recipes
  PROVE  /\ r \in Seq(Seq(Pointers)) /\ Len(r) \in Nat /\ DOMAIN r = 1 .. Len(r)
         /\ \A f \in 1 .. Len(r) :
              /\ r[f] \in Seq(Pointers) /\ Len(r[f]) \in Nat /\ DOMAIN r[f] = 1 .. Len(r[f])
              /\ \A i \in 1 .. Len(r[f]) : r[f][i] \in Pointers
  <1> DEFINE Whole == [fp : UNION {Containers[c] : c \in DOMAIN Containers}, id : DOMAIN Containers]
  <1>1. /\ r \in Seq(Seq(Whole))
        /\ \A f \in DOMAIN r : \A i \in DOMAIN r[f] : r[f][i].fp \in Containers[r[f][i].id]
    BY RestoreAssumption
  <1>2. \A p \in Whole : p.fp \in Containers[p.id] => p \in Pointers
    BY DEF Pointers
  <1> HIDE DEF Whole
  <1>3. Len(r) \in Nat /\ DOMAIN r = 1 .. Len(r) /\ \A f \in 1 .. Len(r) : r[f] \in Seq(Whole)
    BY <1>1, SeqFacts
  <1>4. ASSUME NEW f \in 1 .. Len(r)
        PROVE  /\ r[f] \in Seq(Pointers) /\ Len(r[f]) \in Nat /\ DOMAIN r[f] = 1 .. Len(r[f])
               /\ \A i \in 1 .. Len(r[f]) : r[f][i] \in Pointers
    <2>1. r[f] \in Seq(Whole)
      BY <1>3
    <2>2. /\ Len(r[f]) \in Nat /\ DOMAIN r[f] = 1 .. Len(r[f])
          /\ \A i \in 1 .. Len(r[f]) : r[f][i] \in Whole
      BY <2>1, SeqFacts
    <2>3. \A i \in 1 .. Len(r[f]) : r[f][i] \in Pointers
      BY <1>1, <1>2, <1>3, <2>2
    <2> QED
      BY <2>1, <2>2, <2>3, SeqOfSubset
  <1>5. r \in Seq(Seq(Pointers))
    <2> DEFINE U == Seq(Pointers)
               V == Seq(Whole)
    <2>1. r \in Seq(V) /\ \A f \in 1 .. Len(r) : r[f] \in U
      BY <1>1, <1>4
    <2> HIDE DEF U, V
    <2>2. r \in Seq(U)
      BY <2>1, SeqOfSubset
    <2> QED
      BY <2>2 DEF U
  <1> QED
    BY <1>3, <1>4, <1>5

\* The pointers of a recipe, all files behind each other.
LEMMA PointerFacts ==
  ASSUME NEW r \in Recipes
  PROVE  /\ FlattenSeq(r) \in Seq(Pointers)
         /\ IsStarts(Starts(r), r) /\ Len(FlattenSeq(r)) = Starts(r)[Len(r) + 1]
         /\ \A f \in 1 .. Len(r) : \A i \in 1 .. Len(r[f]) :
              /\ Starts(r)[f] + i \in 1 .. Len(FlattenSeq(r))
              /\ FlattenSeq(r)[Starts(r)[f] + i] = r[f][i]
         /\ \A n \in 1 .. Len(FlattenSeq(r)) : FlattenSeq(r)[n] \in Pointers
  <1>1. r \in Seq(Seq(Pointers))
    BY RecipeFacts
  <1>2. IsStarts(Starts(r), r)
    BY <1>1, StartsExist
  <1>3. /\ FlattenSeq(r) \in Seq(Pointers) /\ Len(FlattenSeq(r)) = Starts(r)[Len(r) + 1]
        /\ \A f \in 1 .. Len(r) : \A i \in 1 .. Len(r[f]) :
             /\ Starts(r)[f] + i \in 1 .. Starts(r)[Len(r) + 1]
             /\ FlattenSeq(r)[Starts(r)[f] + i] = r[f][i]
    BY <1>1, <1>2, Flattened
  <1>4. \A n \in 1 .. Len(FlattenSeq(r)) : FlattenSeq(r)[n] \in Pointers
    BY <1>3, SeqFacts
  <1> QED
    BY <1>2, <1>3, <1>4

\* The items of one file.
LEMMA FileFeedType ==
  ASSUME NEW r \in Recipes, NEW f \in 1 .. Len(r)
  PROVE  /\ FileFeed(r, f) \in Seq(FeedItems(r)) /\ Len(FileFeed(r, f)) = Len(r[f]) + 2
  <1> DEFINE S == FeedItems(r)
  <1>0. /\ Len(r) \in Nat
        /\ \A g \in 1 .. Len(r) : Len(r[g]) \in Nat /\ \A i \in 1 .. Len(r[g]) : r[g][i] \in Pointers
    BY RecipeFacts
  <1>1. \A i \in 1 .. Len(r[f]) + 2 : FileFeed(r, f)[i] \in S
    <2>1. ASSUME NEW i \in 1 .. Len(r[f]) + 2 PROVE FileFeed(r, f)[i] \in S
      <3>1. i # 1 /\ i # Len(r[f]) + 2 => i - 1 \in 1 .. Len(r[f])
        BY <1>0
      <3>2. CASE i = 1
        BY <3>2 DEF FileFeed, FeedItems
      <3>3. CASE i = Len(r[f]) + 2
        BY <1>0, <3>3 DEF FileFeed, FeedItems
      <3>4. CASE i # 1 /\ i # Len(r[f]) + 2
        BY <1>0, <3>1, <3>4 DEF FileFeed, FeedItems
      <3> QED
        BY <3>2, <3>3, <3>4
    <2> QED
      BY <2>1
  <1>2. Len(r[f]) + 2 \in Nat
    BY <1>0
  <1>3. FileFeed(r, f) = [i \in 1 .. Len(r[f]) + 2 |-> FileFeed(r, f)[i]]
    BY DEF FileFeed
  <1> HIDE DEF S
  <1>4. FileFeed(r, f) \in [1 .. Len(r[f]) + 2 -> S]
    BY <1>1, <1>3
  <1> QED
    BY <1>2, <1>4, SeqDef, LenProperties DEF S

\* What the reader pushes, by its place.
LEMMA FeedFacts ==
  ASSUME NEW r \in Recipes
  PROVE  /\ Feed(r) \in Seq(FeedItems(r)) /\ Len(Feed(r)) = FeedStart(r, Len(r) + 1)
         /\ FeedStart(r, 1) = 0 /\ Len(r) \in Nat
         /\ \A f \in 1 .. Len(r) :
              /\ FeedStart(r, f) \in Nat /\ Len(r[f]) \in Nat
              /\ FeedStart(r, f + 1) = FeedStart(r, f) + Len(r[f]) + 2
              /\ FeedStart(r, f + 1) <= Len(Feed(r))
              /\ Feed(r)[FeedStart(r, f) + 1] = Start(f)
              /\ \A i \in 1 .. Len(r[f]) : Feed(r)[FeedStart(r, f) + 1 + i] = Chunk(r[f][i])
              /\ Feed(r)[FeedStart(r, f) + Len(r[f]) + 2] = End
  <1> DEFINE q == [f \in 1 .. Len(r) |-> FileFeed(r, f)]
             b == [f \in 1 .. Len(r) + 1 |-> FeedStart(r, f)]
             S == FeedItems(r)
  <1>1. /\ Len(r) \in Nat
        /\ \A f \in 1 .. Len(r) : Len(r[f]) \in Nat /\ \A i \in 1 .. Len(r[f]) : r[f][i] \in Pointers
    BY RecipeFacts
  <1>2. /\ \A f \in 1 .. Len(r) + 1 : Starts(r)[f] \in Nat
        /\ Starts(r)[1] = 0
        /\ \A f \in 1 .. Len(r) : Starts(r)[f + 1] = Starts(r)[f] + Len(r[f])
    BY PointerFacts DEF IsStarts
  <1>3. ASSUME NEW f \in 1 .. Len(r)
        PROVE  /\ FileFeed(r, f) \in Seq(S) /\ Len(FileFeed(r, f)) = Len(r[f]) + 2
    BY FileFeedType
  <1>4. q \in Seq(Seq(S)) /\ Len(q) = Len(r) /\ \A f \in 1 .. Len(r) : q[f] = FileFeed(r, f)
    <2> HIDE DEF S
    <2>1. q \in [1 .. Len(r) -> Seq(S)]
      BY <1>3
    <2> QED
      BY <1>1, <2>1, SeqDef, LenProperties
  <1> HIDE DEF S
  <1>5. IsStarts(b, q)
    <2>1. \A f \in 1 .. Len(r) + 1 : FeedStart(r, f) \in Nat
      BY <1>1, <1>2 DEF FeedStart
    <2>2. FeedStart(r, 1) = 0
      BY <1>2 DEF FeedStart
    <2>3. ASSUME NEW f \in 1 .. Len(r)
          PROVE  FeedStart(r, f + 1) = FeedStart(r, f) + (Len(r[f]) + 2)
      <3>1. f \in 1 .. Len(r) + 1 /\ f \in Nat
        BY <1>1
      <3>2. /\ Starts(r)[f] \in Nat /\ Len(r[f]) \in Nat
            /\ Starts(r)[f + 1] = Starts(r)[f] + Len(r[f])
        BY <1>1, <1>2, <3>1
      <3>3. 2 * ((f + 1) - 1) = 2 * (f - 1) + 2
        BY <3>1
      <3> QED
        BY <3>1, <3>2, <3>3 DEF FeedStart
    <2>4. ASSUME NEW f \in 1 .. Len(r) PROVE b[f + 1] = b[f] + Len(q[f])
      <3>1. f \in 1 .. Len(r) + 1 /\ f + 1 \in 1 .. Len(r) + 1
        BY <1>1
      <3>2. b[f + 1] = FeedStart(r, f + 1) /\ b[f] = FeedStart(r, f)
        BY <3>1
      <3> HIDE DEF b, q
      <3>3. Len(q[f]) = Len(r[f]) + 2
        BY <1>3, <1>4
      <3> QED
        BY <2>3, <3>2, <3>3
    <2>5. b \in [1 .. Len(q) + 1 -> Nat] /\ b[1] = 0
      BY <1>1, <1>4, <2>1, <2>2
    <2> HIDE DEF b, q
    <2> QED
      BY <1>4, <2>4, <2>5 DEF IsStarts
  <1>6. \A f \in 1 .. Len(r) + 1 : b[f] = FeedStart(r, f)
    OBVIOUS
  <1>7. Feed(r) = FlattenSeq(q)
    BY DEF Feed
  <1> HIDE DEF b, q
  <1>8. /\ Feed(r) \in Seq(S) /\ Len(Feed(r)) = b[Len(r) + 1]
        /\ \A f \in 1 .. Len(r) : \A i \in 1 .. Len(q[f]) : Feed(r)[b[f] + i] = q[f][i]
    BY <1>4, <1>5, <1>7, Flattened
  <1>9. Len(Feed(r)) = FeedStart(r, Len(r) + 1) /\ FeedStart(r, 1) = 0
    <2>1. Len(r) + 1 \in 1 .. Len(r) + 1
      BY <1>1
    <2> QED
      BY <1>2, <1>6, <1>8, <2>1 DEF FeedStart
  <1>10. ASSUME NEW f \in 1 .. Len(r)
         PROVE  /\ FeedStart(r, f) \in Nat /\ Len(r[f]) \in Nat
                /\ FeedStart(r, f + 1) = FeedStart(r, f) + Len(r[f]) + 2
                /\ FeedStart(r, f + 1) <= Len(Feed(r))
                /\ Feed(r)[FeedStart(r, f) + 1] = Start(f)
                /\ \A i \in 1 .. Len(r[f]) : Feed(r)[FeedStart(r, f) + 1 + i] = Chunk(r[f][i])
                /\ Feed(r)[FeedStart(r, f) + Len(r[f]) + 2] = End
    <2>1. f \in 1 .. Len(r) + 1 /\ f + 1 \in 1 .. Len(r) + 1 /\ f + 1 \in 1 .. Len(r) + 1
      BY <1>1
    <2>2. FeedStart(r, f) \in Nat /\ Len(r[f]) \in Nat
          /\ FeedStart(r, f + 1) = FeedStart(r, f) + Len(r[f]) + 2
      <3>1. f \in Nat /\ 2 * ((f + 1) - 1) = 2 * (f - 1) + 2
        OBVIOUS
      <3>2. /\ Starts(r)[f] \in Nat /\ Len(r[f]) \in Nat
            /\ Starts(r)[f + 1] = Starts(r)[f] + Len(r[f])
        BY <1>1, <1>2, <2>1
      <3> QED
        BY <2>1, <3>1, <3>2 DEF FeedStart
    <2>3. FeedStart(r, f + 1) <= Len(Feed(r))
      <3>1. Len(r) + 1 \in 1 .. Len(q) + 1 /\ f + 1 \in 1 .. Len(r) + 1
        BY <1>1, <1>4
      <3>2. b[f + 1] <= b[Len(r) + 1]
        BY <1>4, <1>5, <3>1, StartsOrder
      <3> QED
        BY <1>6, <1>8, <2>1, <3>2
    <2>4. Len(q[f]) = Len(r[f]) + 2 /\ q[f] = FileFeed(r, f)
      BY <1>3, <1>4
    <2>5. \A i \in 1 .. Len(r[f]) + 2 : Feed(r)[FeedStart(r, f) + i] = FileFeed(r, f)[i]
      BY <1>6, <1>8, <2>1, <2>4
    <2>6. Feed(r)[FeedStart(r, f) + 1] = Start(f)
      <3>1. 1 \in 1 .. Len(r[f]) + 2
        BY <2>2
      <3> QED
        BY <2>5, <3>1 DEF FileFeed
    <2>7. Feed(r)[FeedStart(r, f) + (Len(r[f]) + 2)] = End
      <3>1. Len(r[f]) + 2 \in 1 .. Len(r[f]) + 2 /\ Len(r[f]) + 2 # 1
        BY <2>2
      <3>2. FileFeed(r, f)[Len(r[f]) + 2] = End
        BY <3>1 DEF FileFeed
      <3> QED
        BY <2>5, <3>1, <3>2
    <2>8. ASSUME NEW i \in 1 .. Len(r[f])
          PROVE  Feed(r)[FeedStart(r, f) + 1 + i] = Chunk(r[f][i])
      <3>1. i + 1 \in 1 .. Len(r[f]) + 2 /\ i + 1 # 1 /\ i + 1 # Len(r[f]) + 2
            /\ (i + 1) - 1 = i /\ FeedStart(r, f) + 1 + i = FeedStart(r, f) + (i + 1)
        BY <2>2
      <3>2. FileFeed(r, f)[i + 1] = Chunk(r[f][i])
        BY <3>1 DEF FileFeed
      <3> QED
        BY <2>5, <3>1, <3>2
    <2>9. FeedStart(r, f) + (Len(r[f]) + 2) = FeedStart(r, f) + Len(r[f]) + 2
      BY <2>2
    <2> QED
      BY <2>2, <2>3, <2>6, <2>7, <2>8, <2>9
  <1> QED
    BY <1>1, <1>8, <1>9, <1>10 DEF S

\* The items of a file.
FileItems(r, f) ==
  <<[kind |-> "start", of |-> {f}]>>
    \o [i \in DOMAIN r[f] |-> [kind |-> "chunk", of |-> r[f][i].fp]]
    \o <<[kind |-> "end", of |-> {TEMPORARY_ID}]>>

\* They are what is written of the items that the reader pushes for it.
LEMMA FileItemsFacts ==
  ASSUME NEW r \in Recipes, NEW f \in 1 .. Len(r)
  PROVE  /\ FileItems(r, f) \in Seq({PlayedAs(c) : c \in FeedItems(r)})
         /\ Len(FileItems(r, f)) = Len(r[f]) + 2
         /\ \A i \in 1 .. Len(r[f]) + 2 : FileItems(r, f)[i] = PlayedAs(FileFeed(r, f)[i])
  <1> DEFINE S == {PlayedAs(c) : c \in FeedItems(r)}
             a == <<[kind |-> "start", of |-> {f}]>>
             m == [i \in DOMAIN r[f] |-> [kind |-> "chunk", of |-> r[f][i].fp]]
             z == <<[kind |-> "end", of |-> {TEMPORARY_ID}]>>
             l == Len(r[f])
  <1>1. l \in Nat /\ DOMAIN r[f] = 1 .. l /\ \A i \in 1 .. l : r[f][i] \in Pointers
    BY RecipeFacts
  <1>2. /\ PlayedAs(Start(f)) = [kind |-> "start", of |-> {f}]
        /\ PlayedAs(End) = [kind |-> "end", of |-> {TEMPORARY_ID}]
        /\ \A p \in Pointers : PlayedAs(Chunk(p)) = [kind |-> "chunk", of |-> p.fp]
    BY DEF PlayedAs, Start, End, Chunk, IsMark
  <1>3. /\ Start(f) \in FeedItems(r) /\ End \in FeedItems(r)
        /\ \A p \in Pointers : Chunk(p) \in FeedItems(r)
    BY DEF FeedItems
  <1>4. PlayedAs(Start(f)) \in S /\ PlayedAs(End) \in S /\ \A p \in Pointers : PlayedAs(Chunk(p)) \in S
    BY <1>3
  <1> HIDE DEF S
  <1>5. a \in Seq(S) /\ Len(a) = 1 /\ a[1] = PlayedAs(Start(f))
    BY <1>2, <1>4
  <1>6. z \in Seq(S) /\ Len(z) = 1 /\ z[1] = PlayedAs(End)
    BY <1>2, <1>4
  <1>7. m \in Seq(S) /\ Len(m) = l /\ \A i \in 1 .. l : m[i] = PlayedAs(Chunk(r[f][i]))
    <2>1. \A i \in 1 .. l : [kind |-> "chunk", of |-> r[f][i].fp] = PlayedAs(Chunk(r[f][i]))
      BY <1>1, <1>2
    <2>2. \A i \in 1 .. l : [kind |-> "chunk", of |-> r[f][i].fp] \in S
      BY <1>1, <1>4, <2>1
    <2>3. m \in [1 .. l -> S]
      BY <1>1, <2>2
    <2>4. \A i \in 1 .. l : m[i] = [kind |-> "chunk", of |-> r[f][i].fp]
      BY <1>1
    <2> HIDE DEF m, l
    <2> QED
      BY <1>1, <2>1, <2>3, <2>4, SeqDef, LenProperties
  <1>8. FileItems(r, f) = (a \o m) \o z
    BY DEF FileItems
  <1> HIDE DEF a, m, z, l
  <1>9. /\ a \o m \in Seq(S) /\ Len(a \o m) = l + 1
        /\ (a \o m)[1] = PlayedAs(Start(f))
        /\ \A i \in 2 .. l + 1 : (a \o m)[i] = PlayedAs(Chunk(r[f][i - 1]))
    <2>1. /\ a \o m \in Seq(S) /\ Len(a \o m) = Len(a) + Len(m)
          /\ \A i \in 1 .. Len(a) + Len(m) :
               (a \o m)[i] = IF i <= Len(a) THEN a[i] ELSE m[i - Len(a)]
      BY <1>5, <1>7, ConcatProperties
    <2>2. (a \o m)[1] = a[1]
      BY <1>1, <1>5, <1>7, <2>1
    <2>3. ASSUME NEW i \in 2 .. l + 1 PROVE (a \o m)[i] = PlayedAs(Chunk(r[f][i - 1]))
      <3>1. i \in 1 .. Len(a) + Len(m) /\ ~(i <= Len(a)) /\ i - Len(a) = i - 1 /\ i - 1 \in 1 .. l
        BY <1>1, <1>5, <1>7
      <3> QED
        BY <1>7, <2>1, <3>1
    <2>4. Len(a \o m) = l + 1
      BY <1>1, <1>5, <1>7, <2>1
    <2> QED
      BY <1>5, <2>1, <2>2, <2>3, <2>4
  <1>10. /\ (a \o m) \o z \in Seq(S) /\ Len((a \o m) \o z) = l + 2
         /\ \A i \in 1 .. l + 2 :
              ((a \o m) \o z)[i] = IF i <= l + 1 THEN (a \o m)[i] ELSE PlayedAs(End)
    <2> DEFINE x == a \o m
    <2>1. x \in Seq(S) /\ Len(x) = l + 1
      BY <1>9
    <2> HIDE DEF x
    <2>2. /\ x \o z \in Seq(S) /\ Len(x \o z) = Len(x) + Len(z)
          /\ \A i \in 1 .. Len(x) + Len(z) :
               (x \o z)[i] = IF i <= Len(x) THEN x[i] ELSE z[i - Len(x)]
      BY <1>6, <2>1, ConcatProperties
    <2>3. Len(x) + Len(z) = l + 2 /\ Len(x \o z) = l + 2
      BY <1>1, <1>6, <2>1, <2>2
    <2>4. ASSUME NEW i \in 1 .. l + 2
          PROVE  (x \o z)[i] = IF i <= l + 1 THEN x[i] ELSE PlayedAs(End)
      <3>1. i \in 1 .. Len(x) + Len(z) /\ (~(i <= l + 1) => i - Len(x) = 1)
        BY <1>1, <2>1, <2>3
      <3> QED
        BY <1>6, <2>1, <2>2, <3>1
    <2> QED
      BY <2>2, <2>3, <2>4 DEF x
  <1>11. ASSUME NEW i \in 1 .. l + 2
         PROVE  FileItems(r, f)[i] = PlayedAs(FileFeed(r, f)[i])
    <2>1. FileFeed(r, f)[i] = IF i = 1 THEN Start(f)
                              ELSE IF i = l + 2 THEN End ELSE Chunk(r[f][i - 1])
      BY DEF FileFeed, l
    <2>2. CASE i = 1
      BY <1>1, <1>8, <1>9, <1>10, <2>1, <2>2
    <2>3. CASE i = l + 2
      BY <1>1, <1>8, <1>9, <1>10, <2>1, <2>3
    <2>4. CASE i # 1 /\ i # l + 2
      <3>1. i \in 2 .. l + 1 /\ i <= l + 1
        BY <1>1, <2>4
      <3> QED
        BY <1>8, <1>9, <1>10, <2>1, <2>4, <3>1
    <2> QED
      BY <2>2, <2>3, <2>4
  <1> QED
    BY <1>8, <1>10, <1>11 DEF S, l

\* What is to be written, by its place: what is written of what the reader pushes.
LEMMA ItemsFacts ==
  ASSUME NEW r \in Recipes
  PROVE  /\ Items(r) \in Seq({PlayedAs(c) : c \in FeedItems(r)})
         /\ Len(Items(r)) = Len(Feed(r))
         /\ \A n \in 1 .. Len(Feed(r)) : Items(r)[n] = PlayedAs(Feed(r)[n])
  <1> DEFINE S == {PlayedAs(c) : c \in FeedItems(r)}
             q == [f \in 1 .. Len(r) |-> FileFeed(r, f)]
             p == [f \in 1 .. Len(r) |-> FileItems(r, f)]
  <1>1. /\ Len(r) \in Nat /\ DOMAIN r = 1 .. Len(r) /\ \A f \in 1 .. Len(r) : Len(r[f]) \in Nat
    BY RecipeFacts
  <1>2. Feed(r) = FlattenSeq(q)
    BY DEF Feed
  <1>3. Items(r) = FlattenSeq(p)
    BY <1>1 DEF Items, FileItems
  <1> HIDE DEF S
  <1>4. p \in Seq(Seq(S)) /\ Len(p) = Len(r)
    <2>1. p \in [1 .. Len(r) -> Seq(S)]
      BY FileItemsFacts DEF S
    <2> QED
      BY <1>1, <2>1, SeqDef, LenProperties
  <1>5. \A f \in 1 .. Len(r) : p[f] = FileItems(r, f) /\ q[f] = FileFeed(r, f)
    OBVIOUS
  <1> HIDE DEF p
  <1>6. ASSUME NEW f \in 1 .. Len(r)
        PROVE  /\ FileFeed(r, f) \in Seq(FeedItems(r))
               /\ Len(FileFeed(r, f)) = Len(r[f]) + 2
    BY FileFeedType
  <1>7. q \in Seq(Seq(FeedItems(r))) /\ Len(q) = Len(r)
    <2>1. q \in [1 .. Len(r) -> Seq(FeedItems(r))]
      BY <1>6
    <2> QED
      BY <1>1, <2>1, SeqDef, LenProperties
  <1> HIDE DEF q
  <1> DEFINE b == Starts(q)
  <1>8. IsStarts(b, q)
    BY <1>7, StartsExist
  <1> HIDE DEF b
  <1>9. IsStarts(b, p)
    <2>1. \A f \in 1 .. Len(r) : Len(p[f]) = Len(q[f])
      BY <1>5, <1>6, FileItemsFacts
    <2> QED
      BY <1>4, <1>7, <1>8, <2>1 DEF IsStarts
  <1>10. /\ Items(r) \in Seq(S) /\ Len(Items(r)) = b[Len(r) + 1]
         /\ \A f \in 1 .. Len(r) : \A i \in 1 .. Len(p[f]) : Items(r)[b[f] + i] = p[f][i]
    BY <1>3, <1>4, <1>9, Flattened
  <1>11. /\ Len(Feed(r)) = b[Len(r) + 1]
         /\ \A f \in 1 .. Len(r) : \A i \in 1 .. Len(q[f]) : Feed(r)[b[f] + i] = q[f][i]
    BY <1>2, <1>7, <1>8, Flattened
  <1>12. ASSUME NEW n \in 1 .. Len(Feed(r))
         PROVE  Items(r)[n] = PlayedAs(Feed(r)[n])
    <2>1. PICK f \in 1 .. Len(r) : n - b[f] \in 1 .. Len(q[f]) /\ n = b[f] + (n - b[f])
      <3>1. n \in 1 .. b[Len(q) + 1]
        BY <1>7, <1>11
      <3>2. \E f \in 1 .. Len(q) : n - b[f] \in 1 .. Len(q[f]) /\ n = b[f] + (n - b[f])
        BY <1>7, <1>8, <3>1, StartsCover
      <3> QED
        BY <1>7, <3>2
    <2>2. PICK i \in 1 .. Len(q[f]) : n = b[f] + i
      BY <2>1
    <2>3. i \in 1 .. Len(r[f]) + 2 /\ i \in 1 .. Len(p[f])
      BY <1>5, <1>6, FileItemsFacts
    <2>4. Items(r)[n] = FileItems(r, f)[i] /\ Feed(r)[n] = FileFeed(r, f)[i]
      BY <1>5, <1>10, <1>11, <2>2, <2>3
    <2> QED
      BY <2>3, <2>4, FileItemsFacts
  <1> QED
    BY <1>10, <1>11, <1>12 DEF S

-----------------------------------------------------------------------------
(* Segments of the recipe and their flags.                                 *)

\* The entries of a recipe file: pointers and flags.
Flag(id) == [fp |-> NoFp, id |-> id]
Entries == Pointers \cup {Flag(CHUNK_SEGMENT_START), Flag(CHUNK_SEGMENT_END)}

\* How many segments there are, how many pointers lie before segment s + 1, and
\* that segment with its flags.
SegmentCount(p) == (Len(p) + SegmentSize - 1) \div SegmentSize
Edge(p, s) == IF SegmentSize * s <= Len(p) THEN SegmentSize * s ELSE Len(p)
SegmentOf(p, s) ==
  <<Flag(CHUNK_SEGMENT_START)>>
    \o SubSeq(p, (s - 1) * SegmentSize + 1, Min({s * SegmentSize, Len(p)}))
    \o <<Flag(CHUNK_SEGMENT_END)>>

\* Where the pointer number n stands in the recipe file.
Place(n) == n + 2 * ((n - 1) \div SegmentSize) + 1

\* The last segment ends with the last pointer, and the ones before are full.
LEMMA SegmentEdges ==
  ASSUME NEW p \in Seq(Pointers)
  PROVE  /\ SegmentCount(p) \in Nat /\ Len(p) \in Nat /\ SegmentSize \in Nat \ {0}
         /\ Edge(p, 0) = 0 /\ Edge(p, SegmentCount(p)) = Len(p)
         /\ \A s \in 1 .. SegmentCount(p) :
              /\ Edge(p, s - 1) = SegmentSize * (s - 1)
              /\ Edge(p, s) \in Nat /\ Edge(p, s - 1) \in Nat
              /\ Edge(p, s - 1) <= Edge(p, s) /\ Edge(p, s) <= Len(p)
              /\ Edge(p, s) <= SegmentSize * (s - 1) + SegmentSize
         /\ \A n \in 1 .. Len(p) :
              LET s == (n - 1) \div SegmentSize + 1
              IN s \in 1 .. SegmentCount(p) /\ n \in Edge(p, s - 1) + 1 .. Edge(p, s)
  <1> DEFINE S == SegmentSize
             K == SegmentCount(p)
             L == Len(p)
  <1>1. S \in Nat \ {0} /\ L \in Nat /\ L + S - 1 \in Nat
    BY SeqFacts, RestoreAssumption
  <1>2. K \in Nat /\ S * K <= L + S - 1 /\ L + S - 1 < S * K + S
    BY <1>1, DivFacts DEF SegmentCount
  <1>3. Edge(p, 0) = 0
    BY <1>1 DEF Edge
  <1> HIDE DEF S, K, L
  <1>4. S * K \in Nat /\ L <= S * K
    BY <1>1, <1>2, ProductOrder
  <1>5. Edge(p, K) = L
    BY <1>1, <1>4 DEF Edge, S, L
  <1>6. ASSUME NEW s \in 1 .. K
        PROVE  /\ Edge(p, s - 1) = S * (s - 1)
               /\ Edge(p, s) \in Nat /\ Edge(p, s - 1) \in Nat
               /\ Edge(p, s - 1) <= Edge(p, s) /\ Edge(p, s) <= L
               /\ Edge(p, s) <= S * (s - 1) + S
    <2>1. s - 1 \in Nat /\ s - 1 < K /\ (s - 1) + 1 = s /\ s \in Nat
      BY <1>2
    <2>2. S * (s - 1) \in Nat /\ S * s = S * (s - 1) + S /\ S * (s - 1) + S <= S * K
      BY <1>1, <1>2, <2>1, ProductOrder
    <2>3. S * (s - 1) <= L
      BY <1>1, <1>2, <1>4, <2>2
    <2>4. Edge(p, s - 1) = S * (s - 1)
      BY <2>3 DEF Edge, S, L
    <2>5. Edge(p, s) = IF S * (s - 1) + S <= L THEN S * (s - 1) + S ELSE L
      BY <2>2 DEF Edge, S, L
    <2> QED
      BY <1>1, <2>2, <2>3, <2>4, <2>5
  <1>7. ASSUME NEW n \in 1 .. L
        PROVE  LET s == (n - 1) \div S + 1
               IN s \in 1 .. K /\ n \in Edge(p, s - 1) + 1 .. Edge(p, s)
    <2> DEFINE x == (n - 1) \div S
    <2>1. n - 1 \in Nat /\ n \in Nat
      BY <1>1
    <2>2. x \in Nat /\ S * x <= n - 1 /\ n - 1 < S * x + S
      BY <1>1, <2>1, DivFacts
    <2> HIDE DEF x
    <2>3. S * x \in Nat /\ S * (x + 1) = S * x + S
      BY <1>1, <2>2, ProductOrder
    <2>4. S * x < S * K
      BY <1>1, <1>4, <2>1, <2>2, <2>3
    <2>5. x < K
      BY <1>1, <1>2, <2>2, <2>4, ProductOrder
    <2>6. x + 1 \in 1 .. K /\ (x + 1) - 1 = x
      BY <1>2, <2>2, <2>5
    <2>7. Edge(p, x) = S * x
      BY <1>6, <2>6
    <2>8. Edge(p, x + 1) = IF S * x + S <= L THEN S * x + S ELSE L
      BY <2>3 DEF Edge, S, L
    <2>9. n \in Edge(p, x) + 1 .. Edge(p, x + 1)
      BY <1>1, <2>1, <2>2, <2>3, <2>7, <2>8
    <2> QED
      BY <2>6, <2>9 DEF x
  <1> QED
    BY <1>1, <1>2, <1>3, <1>5, <1>6, <1>7 DEF S, K, L

\* A segment of the recipe file.
LEMMA SegmentFacts ==
  ASSUME NEW p \in Seq(Pointers), NEW s \in 1 .. SegmentCount(p)
  PROVE  /\ SegmentOf(p, s) \in Seq(Entries)
         /\ Len(SegmentOf(p, s)) = Edge(p, s) - Edge(p, s - 1) + 2
         /\ SegmentOf(p, s)[1] = Flag(CHUNK_SEGMENT_START)
         /\ SegmentOf(p, s)[Edge(p, s) - Edge(p, s - 1) + 2] = Flag(CHUNK_SEGMENT_END)
         /\ \A i \in 1 .. Edge(p, s) - Edge(p, s - 1) :
              SegmentOf(p, s)[i + 1] = p[Edge(p, s - 1) + i]
  <1> DEFINE lo == Edge(p, s - 1)
             hi == Edge(p, s)
             m == SubSeq(p, (s - 1) * SegmentSize + 1, Min({s * SegmentSize, Len(p)}))
  <1>1. /\ lo = SegmentSize * (s - 1) /\ lo \in Nat /\ hi \in Nat /\ lo <= hi /\ hi <= Len(p)
        /\ SegmentSize \in Nat \ {0} /\ Len(p) \in Nat /\ SegmentCount(p) \in Nat
    BY SegmentEdges
  <1>2. (s - 1) * SegmentSize = lo
    BY <1>1
  <1>3. Min({s * SegmentSize, Len(p)}) = hi
    <2>1. s * SegmentSize \in Int /\ s * SegmentSize = SegmentSize * s /\ Len(p) \in Int
      BY <1>1
    <2>2. Min({s * SegmentSize, Len(p)}) =
            IF s * SegmentSize <= Len(p) THEN s * SegmentSize ELSE Len(p)
      BY <2>1, MinMaxOfTwo
    <2> QED
      BY <2>1, <2>2 DEF Edge
  <1>4. m = SubSeq(p, lo + 1, hi)
    BY <1>2, <1>3
  <1> HIDE DEF lo, hi, m
  <1>5. \A i \in 1 .. Len(p) : p[i] \in Entries
    BY SeqFacts DEF Entries
  <1>6. m \in Seq(Entries) /\ Len(m) = hi - lo /\ \A i \in 1 .. hi - lo : m[i] = p[lo + i]
    <2>1. \A i \in lo + 1 .. hi : p[i] \in Entries
      BY <1>1, <1>5
    <2>2. lo + 1 \in Int /\ hi \in Int
      BY <1>1
    <2>3. /\ m \in Seq(Entries)
          /\ Len(m) = IF lo + 1 <= hi THEN hi - (lo + 1) + 1 ELSE 0
          /\ \A i \in 1 .. hi - (lo + 1) + 1 : m[i] = p[(lo + 1) + i - 1]
      BY <1>4, <2>1, <2>2, SubSeqProperties
    <2> QED
      BY <1>1, <2>3
  <1>7. Flag(CHUNK_SEGMENT_START) \in Entries /\ Flag(CHUNK_SEGMENT_END) \in Entries
    BY DEF Entries
  <1>8. SegmentOf(p, s) = <<Flag(CHUNK_SEGMENT_START)>> \o m \o <<Flag(CHUNK_SEGMENT_END)>>
    BY DEF SegmentOf, m
  <1>9. /\ SegmentOf(p, s) \in Seq(Entries) /\ Len(SegmentOf(p, s)) = Len(m) + 2
        /\ SegmentOf(p, s)[1] = Flag(CHUNK_SEGMENT_START)
        /\ SegmentOf(p, s)[Len(m) + 2] = Flag(CHUNK_SEGMENT_END)
        /\ \A i \in 1 .. Len(m) : SegmentOf(p, s)[i + 1] = m[i]
    BY <1>6, <1>7, <1>8, Bracketed
  <1> QED
    BY <1>6, <1>9 DEF lo, hi

\* The recipe file is the pointers, in their order, among flags.
LEMMA FlaggedFacts ==
  ASSUME NEW p \in Seq(Pointers)
  PROVE  /\ Flagged(p) \in Seq(Entries)
         /\ \A n \in 1 .. Len(p) :
              Place(n) \in 1 .. Len(Flagged(p)) /\ Flagged(p)[Place(n)] = p[n]
         /\ \A i \in 1 .. Len(Flagged(p)) :
              \/ Flagged(p)[i].id \in {CHUNK_SEGMENT_START, CHUNK_SEGMENT_END}
              \/ \E n \in 1 .. Len(p) : i = Place(n)
  <1> DEFINE K == SegmentCount(p)
             q == [s \in 1 .. K |-> SegmentOf(p, s)]
             b == [s \in 1 .. K + 1 |-> Edge(p, s - 1) + 2 * (s - 1)]
             S == SegmentSize
  <1>1. K \in Nat /\ Len(p) \in Nat /\ S \in Nat \ {0}
    BY SegmentEdges
  <1>2. Flagged(p) = FlattenSeq(q)
    BY DEF Flagged, SegmentOf, Flag, SegmentCount
  <1> HIDE DEF K, S
  <1>3. q \in Seq(Seq(Entries)) /\ Len(q) = K
    <2>1. q \in [1 .. K -> Seq(Entries)]
      BY SegmentFacts DEF K
    <2> QED
      BY <1>1, <2>1, SeqDef, LenProperties
  <1>4. \A s \in 1 .. K : q[s] = SegmentOf(p, s)
    OBVIOUS
  <1>5. \A s \in 1 .. K + 1 : b[s] = Edge(p, s - 1) + 2 * (s - 1)
    OBVIOUS
  <1> HIDE DEF q
  <1>6. ASSUME NEW s \in 1 .. K
        PROVE  /\ Edge(p, s - 1) = S * (s - 1) /\ Edge(p, s - 1) \in Nat /\ Edge(p, s) \in Nat
               /\ Edge(p, s - 1) <= Edge(p, s) /\ Edge(p, s) <= Len(p)
               /\ Edge(p, s) <= S * (s - 1) + S
    BY SegmentEdges DEF K, S
  <1>7. IsStarts(b, q)
    <2>1. ASSUME NEW s \in 1 .. K + 1 PROVE Edge(p, s - 1) + 2 * (s - 1) \in Nat
      <3>1. CASE s = K + 1
        <4>1. s - 1 = K /\ Edge(p, K) = Len(p)
          BY <1>1, <3>1, SegmentEdges DEF K
        <4> QED
          BY <1>1, <4>1
      <3>2. CASE s # K + 1
        <4>1. s \in 1 .. K
          BY <1>1, <3>2
        <4>2. Edge(p, s - 1) \in Nat
          BY <1>6, <4>1
        <4> QED
          BY <4>2
      <3> QED
        BY <3>1, <3>2
    <2>2. b \in [1 .. K + 1 -> Nat]
      BY <2>1
    <2>3. b[1] = 0
      <3>1. 1 \in 1 .. K + 1 /\ Edge(p, 1 - 1) = 0
        BY <1>1, SegmentEdges
      <3> QED
        BY <3>1
    <2> HIDE DEF b
    <2>4. ASSUME NEW s \in 1 .. K PROVE b[s + 1] = b[s] + Len(q[s])
      <3>1. s \in 1 .. K + 1 /\ s + 1 \in 1 .. K + 1 /\ (s + 1) - 1 = s /\ s \in Nat
        BY <1>1
      <3>2. b[s] = Edge(p, s - 1) + 2 * (s - 1) /\ b[s + 1] = Edge(p, s) + 2 * s
        BY <1>5, <3>1
      <3>3. Len(q[s]) = Edge(p, s) - Edge(p, s - 1) + 2
        BY <1>4, SegmentFacts DEF K
      <3>4. Edge(p, s - 1) \in Nat /\ Edge(p, s) \in Nat
        BY <1>6
      <3> QED
        BY <3>1, <3>2, <3>3, <3>4
    <2> QED
      BY <1>3, <2>2, <2>3, <2>4 DEF IsStarts
  <1> HIDE DEF b
  <1>8. /\ Flagged(p) \in Seq(Entries) /\ Len(Flagged(p)) = b[K + 1]
        /\ \A s \in 1 .. K : \A j \in 1 .. Len(q[s]) :
             b[s] + j \in 1 .. b[K + 1] /\ Flagged(p)[b[s] + j] = q[s][j]
    <2>1. /\ FlattenSeq(q) \in Seq(Entries) /\ Len(FlattenSeq(q)) = b[Len(q) + 1]
          /\ \A s \in 1 .. Len(q) : \A j \in 1 .. Len(q[s]) :
               b[s] + j \in 1 .. b[Len(q) + 1] /\ FlattenSeq(q)[b[s] + j] = q[s][j]
      BY <1>3, <1>7, Flattened
    <2> QED
      BY <1>2, <1>3, <2>1
  <1>9. ASSUME NEW n \in 1 .. Len(p)
        PROVE  Place(n) \in 1 .. Len(Flagged(p)) /\ Flagged(p)[Place(n)] = p[n]
    <2> DEFINE x == (n - 1) \div S
    <2>1. x + 1 \in 1 .. K /\ n \in Edge(p, (x + 1) - 1) + 1 .. Edge(p, x + 1)
      BY SegmentEdges DEF K, S
    <2>2. Place(n) = n + 2 * x + 1
      BY DEF Place, S
    <2>0. x \in Nat
      <3>1. n - 1 \in Nat
        BY <1>1
      <3> QED
        BY <1>1, <3>1, DivFacts
    <2> HIDE DEF x
    <2> DEFINE s == x + 1
               lo == Edge(p, s - 1)
               hi == Edge(p, s)
    <2>3. s \in 1 .. K /\ n \in lo + 1 .. hi /\ lo \in Nat /\ hi \in Nat /\ x = s - 1
      <3>1. s \in 1 .. K /\ n \in lo + 1 .. hi
        BY <2>1
      <3> HIDE DEF s
      <3>2. lo \in Nat /\ hi \in Nat
        BY <1>6, <3>1
      <3>3. x \in Int
        BY <2>0
      <3> QED
        BY <3>1, <3>2, <3>3 DEF s
    <2> HIDE DEF s
    <2>4. n - lo \in 1 .. hi - lo /\ (n - lo) + 1 \in 1 .. hi - lo + 2 /\ lo + (n - lo) = n
      BY <2>3
    <2>5. b[s] = lo + 2 * (s - 1)
      <3>1. s \in 1 .. K + 1
        BY <1>1, <2>3
      <3> QED
        BY <1>5, <3>1
    <2>6. Len(q[s]) = hi - lo + 2 /\ q[s][(n - lo) + 1] = p[n]
      BY <1>4, <2>3, <2>4, SegmentFacts DEF K
    <2>7. b[s] + ((n - lo) + 1) \in 1 .. b[K + 1] /\ Flagged(p)[b[s] + ((n - lo) + 1)] = p[n]
      BY <1>8, <2>3, <2>4, <2>6
    <2>8. b[s] + ((n - lo) + 1) = Place(n)
      BY <2>2, <2>3, <2>5
    <2> QED
      BY <1>8, <2>7, <2>8
  <1>10. ASSUME NEW i \in 1 .. Len(Flagged(p)),
                Flagged(p)[i].id \notin {CHUNK_SEGMENT_START, CHUNK_SEGMENT_END}
         PROVE  \E n \in 1 .. Len(p) : i = Place(n)
    <2>1. PICK s \in 1 .. K : i - b[s] \in 1 .. Len(q[s]) /\ i = b[s] + (i - b[s])
      <3>1. i \in 1 .. b[K + 1]
        BY <1>8
      <3>2. \E s \in 1 .. Len(q) : i - b[s] \in 1 .. Len(q[s]) /\ i = b[s] + (i - b[s])
        <4>1. i \in 1 .. b[Len(q) + 1]
          BY <1>3, <3>1
        <4> QED
          BY <1>3, <1>7, <4>1, StartsCover
      <3> QED
        BY <1>3, <3>2
    <2>2. PICK j \in 1 .. Len(q[s]) : i = b[s] + j
      BY <2>1
    <2> DEFINE lo == Edge(p, s - 1)
               hi == Edge(p, s)
    <2>3. /\ lo \in Nat /\ hi \in Nat /\ lo = S * (s - 1) /\ hi <= Len(p)
          /\ hi <= S * (s - 1) + S /\ s \in Nat /\ s - 1 \in Nat /\ s \in 1 .. K + 1
      BY <1>1, <1>6
    <2>4. b[s] = lo + 2 * (s - 1)
      BY <1>5, <2>3
    <2>5. /\ Len(q[s]) = hi - lo + 2 /\ q[s][1] = Flag(CHUNK_SEGMENT_START)
          /\ q[s][hi - lo + 2] = Flag(CHUNK_SEGMENT_END)
      BY <1>4, SegmentFacts DEF K
    <2> HIDE DEF lo, hi
    <2>6. Flagged(p)[i] = q[s][j]
      BY <1>8, <2>2
    <2>7. j # 1 /\ j # hi - lo + 2
      BY <1>10, <2>5, <2>6 DEF Flag
    <2>8. j - 1 \in 1 .. hi - lo
      BY <2>3, <2>5, <2>7
    <2> DEFINE n == lo + (j - 1)
    <2>9. n \in 1 .. Len(p) /\ n - 1 \in Nat /\ S * (s - 1) <= n - 1 /\ n - 1 < S * (s - 1) + S
      BY <1>1, <2>3, <2>8
    <2> HIDE DEF n
    <2>10. (n - 1) \div S = s - 1
      BY <1>1, <2>3, <2>9, DivUnique
    <2>11. Place(n) = n + 2 * (s - 1) + 1
      BY <2>10 DEF Place, S
    <2>12. Place(n) = i
      BY <2>2, <2>3, <2>4, <2>5, <2>11 DEF n
    <2> QED
      BY <2>9, <2>12
  <1> QED
    BY <1>8, <1>9, <1>10

\* The places are in the order of the pointers.
LEMMA PlaceOrder ==
  ASSUME NEW n \in Nat \ {0}, NEW m \in Nat \ {0}, m < n
  PROVE  Place(m) < Place(n) /\ Place(m) \in Nat
  <1> DEFINE S == SegmentSize
             x == (m - 1) \div S
             y == (n - 1) \div S
  <1>1. S \in Nat \ {0}
    BY RestoreAssumption
  <1>2. m - 1 \in Nat /\ n - 1 \in Nat
    OBVIOUS
  <1>3. x \in Nat /\ S * x <= m - 1 /\ y \in Nat /\ n - 1 < S * y + S
    BY <1>1, <1>2, DivFacts
  <1>4. Place(m) = m + 2 * x + 1 /\ Place(n) = n + 2 * y + 1
    BY DEF Place
  <1> HIDE DEF S, x, y
  <1>5. ~(y < x)
    <2>1. y < x => S * y + S <= S * x
      BY <1>1, <1>3, ProductOrder
    <2>2. S * x \in Nat /\ S * y \in Nat
      BY <1>1, <1>3, ProductOrder
    <2> QED
      BY <1>1, <1>2, <1>3, <2>1, <2>2
  <1> QED
    BY <1>3, <1>4, <1>5

\* What the reader finds next.
LEMMA NextPlace ==
  ASSUME NEW p \in Seq(Pointers), NEW n \in 0 .. Len(p) - 1, NEW off,
         off = IF n = 0 THEN 0 ELSE Place(n)
  PROVE  /\ Min({i \in off + 1 .. Len(Flagged(p)) :
                   Flagged(p)[i].id \notin {CHUNK_SEGMENT_START, CHUNK_SEGMENT_END}})
              = Place(n + 1)
         /\ Place(n + 1) \in 1 .. Len(Flagged(p)) /\ Flagged(p)[Place(n + 1)] = p[n + 1]
  <1> DEFINE R == Flagged(p)
             flags == {CHUNK_SEGMENT_START, CHUNK_SEGMENT_END}
             T == {i \in off + 1 .. Len(R) : R[i].id \notin flags}
  <1>1. Len(p) \in Nat /\ n + 1 \in 1 .. Len(p) /\ n \in Nat /\ \A i \in 1 .. Len(p) : p[i] \in Pointers
    BY SeqFacts
  <1>2. /\ Place(n + 1) \in 1 .. Len(R) /\ R[Place(n + 1)] = p[n + 1] /\ Len(R) \in Nat
        /\ \A i \in 1 .. Len(R) : R[i].id \in flags \/ \E m \in 1 .. Len(p) : i = Place(m)
    BY <1>1, FlaggedFacts, SeqFacts
  <1>3. p[n + 1].id \notin flags
    <2>1. p[n + 1].id \in Nat
      BY <1>1, RestoreAssumption DEF Pointers
    <2> QED
      BY <2>1 DEF CHUNK_SEGMENT_START, CHUNK_SEGMENT_END
  <1> HIDE DEF R, flags
  <1>4. off \in Nat /\ off < Place(n + 1)
    <2>1. CASE n = 0
      BY <1>2, <2>1
    <2>2. CASE n # 0
      <3>1. n \in Nat \ {0} /\ n + 1 \in Nat \ {0} /\ n < n + 1
        BY <1>1, <2>2
      <3> QED
        BY <2>2, <3>1, PlaceOrder
    <2> QED
      BY <2>1, <2>2
  <1>5. Place(n + 1) \in T
    BY <1>2, <1>3, <1>4
  <1>6. ASSUME NEW i \in T PROVE Place(n + 1) <= i
    <2>1. i \in 1 .. Len(R) /\ R[i].id \notin flags /\ i > off
      BY <1>2, <1>4
    <2>2. PICK m \in 1 .. Len(p) : i = Place(m)
      BY <1>2, <2>1
    <2>3. m >= n + 1
      <3>1. SUFFICES ASSUME m < n + 1 PROVE FALSE
        BY <1>1
      <3>2. n # 0 /\ off = Place(n) /\ m <= n
        BY <1>1, <3>1
      <3>3. CASE m = n
        BY <2>1, <2>2, <3>2, <3>3, <1>4
      <3>4. CASE m < n
        <4>1. Place(m) < Place(n)
          BY <1>1, <3>4, PlaceOrder
        <4> QED
          BY <2>1, <2>2, <3>2, <4>1, <1>4
      <3> QED
        BY <1>1, <3>2, <3>3, <3>4
    <2>4. CASE m = n + 1
      BY <2>1, <2>2, <2>4
    <2>5. CASE m > n + 1
      <3>1. Place(n + 1) < Place(m)
        BY <1>1, <2>5, PlaceOrder
      <3> QED
        BY <1>2, <2>1, <2>2, <3>1
    <2> QED
      BY <1>1, <2>3, <2>4, <2>5
  <1>7. Min(T) = Place(n + 1)
    <2>1. T \in SUBSET Nat /\ T # {}
      BY <1>4, <1>5
    <2> HIDE DEF T
    <2>2. Min(T) \in T /\ \A j \in T : Min(T) <= j
      BY <2>1, MinOfPlaces
    <2>3. Min(T) <= Place(n + 1) /\ Place(n + 1) <= Min(T) /\ Min(T) \in Nat
      BY <1>5, <1>6, <2>1, <2>2
    <2>4. Place(n + 1) \in Nat
      BY <1>2
    <2> QED
      BY <2>3, <2>4
  <1> QED
    BY <1>2, <1>7 DEF R, flags

-----------------------------------------------------------------------------
(* The way of an item through the queues.                                  *)

\* A pushed item as the restore thread issues it, and what items there are.
Processed(d) == IF IsMark(d) THEN d ELSE [d EXCEPT !.kind = "ready"]
HeldItems(r) == FeedItems(r) \cup {Processed(d) : d \in FeedItems(r)}
WrittenItems(r) == {PlayedAs(d) : d \in FeedItems(r)}

\* The item behind the first n of what is pushed.
Fed(r, n) == Feed(r)[n]

\* What has been pushed lies, in its order, in what has been written, out, issued,
\* the area and the queue: nothing is lost, repeated or out of its place.
Flow(r, n, wr, ou, is, ar, qu) ==
  /\ wr \in Seq(WrittenItems(r)) /\ ou \in Seq(HeldItems(r)) /\ is \in Seq(HeldItems(r))
  /\ ar \in Seq(HeldItems(r)) /\ qu \in Seq(FeedItems(r))
  /\ n = Len(wr) + Len(ou) + Len(is) + Len(ar) + Len(qu) /\ n <= Len(Feed(r))
  /\ \A i \in 1 .. Len(wr) : wr[i] = PlayedAs(Fed(r, i))
  /\ \A i \in 1 .. Len(ou) : ou[i] = Processed(Fed(r, Len(wr) + i))
  /\ \A i \in 1 .. Len(is) : is[i] = Processed(Fed(r, Len(wr) + Len(ou) + i))
  /\ \A i \in 1 .. Len(ar) :
       ar[i] \in {Fed(r, Len(wr) + Len(ou) + Len(is) + i),
                  Processed(Fed(r, Len(wr) + Len(ou) + Len(is) + i))}
  /\ \A i \in 1 .. Len(qu) : qu[i] = Fed(r, Len(wr) + Len(ou) + Len(is) + Len(ar) + i)

\* An item that is pushed is a mark or a chunk with its container.
LEMMA FeedItemFacts ==
  ASSUME NEW r \in Recipes, NEW d \in FeedItems(r)
  PROVE  /\ d.kind \in {"start", "chunk", "end"} /\ (IsMark(d) <=> d.kind # "chunk")
         /\ d = [kind |-> d.kind, fp |-> d.fp, id |-> d.id]
         /\ IsMark(d) => /\ d.fp = NoFp /\ d.id \in {TEMPORARY_ID} \cup 1 .. Len(r)
                         /\ Processed(d) = d /\ PlayedAs(d) = [kind |-> d.kind, of |-> {d.id}]
         /\ ~IsMark(d) => /\ d.id \in DOMAIN Containers /\ d.fp \in Containers[d.id]
                          /\ d.id \in Nat /\ ~IsMark(Processed(d))
                          /\ Processed(d) = [kind |-> "ready", fp |-> d.fp, id |-> d.id]
                          /\ PlayedAs(d) = [kind |-> "chunk", of |-> d.fp]
         /\ Processed(d).id = d.id
  <1>1. CASE \E f \in 1 .. Len(r) : d = Start(f)
    BY <1>1 DEF Start, IsMark, Processed, PlayedAs
  <1>2. CASE d = End
    BY <1>2 DEF End, IsMark, Processed, PlayedAs
  <1>3. CASE \E p \in Pointers : d = Chunk(p)
    <2>1. PICK p \in Pointers : d = Chunk(p)
      BY <1>3
    <2>2. p.id \in DOMAIN Containers /\ p.fp \in Containers[p.id] /\ p.id \in Nat
      BY RestoreAssumption DEF Pointers
    <2>3. d = [kind |-> "chunk", fp |-> p.fp, id |-> p.id]
      BY <2>1 DEF Chunk
    <2> QED
      BY <2>2, <2>3 DEF IsMark, Processed, PlayedAs
  <1> QED
    BY <1>1, <1>2, <1>3 DEF FeedItems

\* The lengths are numbers.
LEMMA FlowLengths ==
  ASSUME NEW r \in Recipes, NEW n, NEW wr, NEW ou, NEW is, NEW ar, NEW qu,
         Flow(r, n, wr, ou, is, ar, qu)
  PROVE  /\ Len(wr) \in Nat /\ Len(ou) \in Nat /\ Len(is) \in Nat /\ Len(ar) \in Nat
         /\ Len(qu) \in Nat /\ n \in Nat /\ Len(Feed(r)) \in Nat
         /\ \A i \in 1 .. Len(Feed(r)) : Fed(r, i) \in FeedItems(r)
  <1>1. /\ Len(wr) \in Nat /\ Len(ou) \in Nat /\ Len(is) \in Nat /\ Len(ar) \in Nat
        /\ Len(qu) \in Nat
    BY SeqFacts DEF Flow
  <1>2. n \in Nat
    BY <1>1 DEF Flow
  <1>3. Feed(r) \in Seq(FeedItems(r))
    BY FeedFacts
  <1> QED
    BY <1>1, <1>2, <1>3, SeqFacts DEF Fed

\* The reader pushes the next item.
LEMMA FlowPush ==
  ASSUME NEW r \in Recipes, NEW n, NEW wr, NEW ou, NEW is, NEW ar, NEW qu,
         Flow(r, n, wr, ou, is, ar, qu), n + 1 <= Len(Feed(r))
  PROVE  Flow(r, n + 1, wr, ou, is, ar, Append(qu, Fed(r, n + 1)))
  <1> DEFINE d == Fed(r, n + 1)
             q == Append(qu, d)
  <1>1. /\ Len(wr) \in Nat /\ Len(ou) \in Nat /\ Len(is) \in Nat /\ Len(ar) \in Nat
        /\ Len(qu) \in Nat /\ n \in Nat
        /\ n = Len(wr) + Len(ou) + Len(is) + Len(ar) + Len(qu) /\ qu \in Seq(FeedItems(r))
    BY FlowLengths DEF Flow
  <1>2. d \in FeedItems(r)
    BY <1>1, FlowLengths
  <1>3. /\ q \in Seq(FeedItems(r)) /\ Len(q) = Len(qu) + 1 /\ q[Len(qu) + 1] = d
        /\ \A k \in 1 .. Len(qu) : q[k] = qu[k]
    BY <1>1, <1>2, AppendFacts
  <1> HIDE DEF q
  <1>4. ASSUME NEW i \in 1 .. Len(q)
        PROVE  q[i] = Fed(r, Len(wr) + Len(ou) + Len(is) + Len(ar) + i)
    <2>1. CASE i = Len(qu) + 1
      <3>1. Len(wr) + Len(ou) + Len(is) + Len(ar) + i = n + 1
        BY <1>1, <2>1
      <3> QED
        BY <1>3, <2>1, <3>1
    <2>2. CASE i # Len(qu) + 1
      <3>1. i \in 1 .. Len(qu)
        BY <1>1, <1>3, <2>2
      <3> QED
        BY <1>3, <3>1 DEF Flow
    <2> QED
      BY <2>1, <2>2
  <1>5. n + 1 = Len(wr) + Len(ou) + Len(is) + Len(ar) + Len(q)
    BY <1>1, <1>3
  <1> QED
    BY <1>3, <1>4, <1>5 DEF Flow, q

\* The item at the head of the queue.
LEMMA FlowHead ==
  ASSUME NEW r \in Recipes, NEW n, NEW wr, NEW ou, NEW is, NEW ar, NEW qu,
         Flow(r, n, wr, ou, is, ar, qu), qu # <<>>
  PROVE  LET w == Len(wr) + Len(ou) + Len(is) + Len(ar)
         IN /\ Head(qu) = Fed(r, w + 1) /\ w + 1 \in 1 .. n
            /\ Head(qu) \in FeedItems(r) /\ n <= Len(Feed(r))
            /\ Tail(qu) \in Seq(FeedItems(r)) /\ Len(Tail(qu)) = Len(qu) - 1
            /\ \A i \in 1 .. Len(qu) - 1 : Tail(qu)[i] = Fed(r, w + 1 + i)
  <1> DEFINE w == Len(wr) + Len(ou) + Len(is) + Len(ar)
  <1>1. /\ w \in Nat /\ Len(qu) \in Nat /\ n \in Nat
        /\ n = w + Len(qu) /\ qu \in Seq(FeedItems(r)) /\ n <= Len(Feed(r))
        /\ \A i \in 1 .. Len(qu) : qu[i] = Fed(r, w + i)
    BY FlowLengths DEF Flow
  <1> HIDE DEF w
  <1>2. /\ Head(qu) = qu[1] /\ Head(qu) \in FeedItems(r) /\ Len(qu) \in Nat \ {0}
        /\ Tail(qu) \in Seq(FeedItems(r)) /\ Len(Tail(qu)) = Len(qu) - 1
        /\ \A k \in 1 .. Len(qu) - 1 : Tail(qu)[k] = qu[k + 1]
    BY <1>1, HeadTailFacts
  <1>3. Head(qu) = Fed(r, w + 1) /\ w + 1 \in 1 .. n
    BY <1>1, <1>2
  <1>4. ASSUME NEW i \in 1 .. Len(qu) - 1 PROVE Tail(qu)[i] = Fed(r, w + 1 + i)
    <2>1. i + 1 \in 1 .. Len(qu) /\ w + (i + 1) = w + 1 + i
      BY <1>1
    <2> QED
      BY <1>1, <1>2, <2>1
  <1> QED
    BY <1>1, <1>2, <1>3, <1>4 DEF w

\* The restore thread pops an item and has it to issue.
LEMMA FlowPop ==
  ASSUME NEW r \in Recipes, NEW n, NEW wr, NEW ou, NEW qu,
         Flow(r, n, wr, ou, <<>>, <<>>, qu), qu # <<>>
  PROVE  Flow(r, n, wr, ou, <<Processed(Head(qu))>>, <<>>, Tail(qu))
  <1> DEFINE w == Len(wr) + Len(ou)
             is == <<Processed(Head(qu))>>
             q == Tail(qu)
  <1>1. /\ Len(wr) \in Nat /\ Len(ou) \in Nat /\ Len(qu) \in Nat /\ n = w + Len(qu)
        /\ Len(<<>>) = 0
    <2>1. n = Len(wr) + Len(ou) + Len(<<>>) + Len(<<>>) + Len(qu)
      BY DEF Flow
    <2>2. Len(<<>>) = 0
      OBVIOUS
    <2> QED
      BY <2>1, <2>2, FlowLengths
  <1>2. /\ Head(qu) = Fed(r, w + 1) /\ Head(qu) \in FeedItems(r)
        /\ q \in Seq(FeedItems(r)) /\ Len(q) = Len(qu) - 1
        /\ \A i \in 1 .. Len(qu) - 1 : q[i] = Fed(r, w + 1 + i)
    <2>1. w + Len(<<>>) + Len(<<>>) = w
      BY <1>1
    <2> QED
      BY <2>1, FlowHead
  <1>3. is \in Seq(HeldItems(r)) /\ Len(is) = 1 /\ is[1] = Processed(Fed(r, w + 1))
    BY <1>2 DEF HeldItems
  <1> HIDE DEF is, q
  <1>4. \A i \in 1 .. Len(is) : is[i] = Processed(Fed(r, Len(wr) + Len(ou) + i))
    BY <1>3
  <1>5. n = Len(wr) + Len(ou) + Len(is) + Len(<<>>) + Len(q)
    BY <1>1, <1>2, <1>3
  <1>6. \A i \in 1 .. Len(q) : q[i] = Fed(r, Len(wr) + Len(ou) + Len(is) + Len(<<>>) + i)
    <2>1. Len(wr) + Len(ou) + Len(is) + Len(<<>>) = w + 1
      BY <1>1, <1>3
    <2> QED
      BY <1>2, <2>1
  <1> QED
    BY <1>2, <1>3, <1>4, <1>5, <1>6 DEF Flow, is, q

\* An item goes from the queue to the end of the area.
LEMMA FlowWait ==
  ASSUME NEW r \in Recipes, NEW n, NEW wr, NEW ou, NEW is, NEW ar, NEW qu,
         Flow(r, n, wr, ou, is, ar, qu), qu # <<>>
  PROVE  Flow(r, n, wr, ou, is, Append(ar, Head(qu)), Tail(qu))
  <1> DEFINE w == Len(wr) + Len(ou) + Len(is)
             a == Append(ar, Head(qu))
             q == Tail(qu)
  <1>1. /\ Len(wr) \in Nat /\ Len(ou) \in Nat /\ Len(is) \in Nat /\ Len(ar) \in Nat
        /\ Len(qu) \in Nat /\ n = w + Len(ar) + Len(qu) /\ ar \in Seq(HeldItems(r)) /\ w \in Nat
    BY FlowLengths DEF Flow
  <1>2. /\ Head(qu) = Fed(r, w + Len(ar) + 1) /\ Head(qu) \in FeedItems(r)
        /\ q \in Seq(FeedItems(r)) /\ Len(q) = Len(qu) - 1
        /\ \A i \in 1 .. Len(qu) - 1 : q[i] = Fed(r, w + Len(ar) + 1 + i)
    BY FlowHead
  <1>3. Head(qu) \in HeldItems(r)
    BY <1>2 DEF HeldItems
  <1>4. /\ a \in Seq(HeldItems(r)) /\ Len(a) = Len(ar) + 1 /\ a[Len(ar) + 1] = Head(qu)
        /\ \A k \in 1 .. Len(ar) : a[k] = ar[k]
    BY <1>1, <1>3, AppendFacts
  <1>5. \A i \in 1 .. Len(ar) : ar[i] \in {Fed(r, w + i), Processed(Fed(r, w + i))}
    BY DEF Flow
  <1> HIDE DEF a, q, w
  <1>6. ASSUME NEW i \in 1 .. Len(a) PROVE a[i] \in {Fed(r, w + i), Processed(Fed(r, w + i))}
    <2>1. CASE i = Len(ar) + 1
      <3>1. w + Len(ar) + 1 = w + i
        BY <1>1, <2>1
      <3> QED
        BY <1>2, <1>4, <2>1, <3>1
    <2>2. CASE i # Len(ar) + 1
      <3>1. i \in 1 .. Len(ar)
        BY <1>1, <1>4, <2>2
      <3> QED
        BY <1>4, <1>5, <3>1
    <2> QED
      BY <2>1, <2>2
  <1>7. n = w + Len(a) + Len(q) /\ w + Len(a) = w + Len(ar) + 1
    BY <1>1, <1>2, <1>4
  <1>8. \A i \in 1 .. Len(q) : q[i] = Fed(r, w + Len(a) + i)
    BY <1>2, <1>7
  <1> QED
    BY <1>2, <1>4, <1>6, <1>7, <1>8 DEF Flow, a, q, w

\* Items at the head of the area have become ready and are issued; x is the area
\* with the chunks that have been assembled.
LEMMA FlowAssemble ==
  ASSUME NEW r \in Recipes, NEW n, NEW wr, NEW ou, NEW ar, NEW qu,
         Flow(r, n, wr, ou, <<>>, ar, qu),
         NEW x \in Seq(HeldItems(r)), Len(x) = Len(ar),
         \A i \in 1 .. Len(x) : x[i] \in {Fed(r, Len(wr) + Len(ou) + i),
                                          Processed(Fed(r, Len(wr) + Len(ou) + i))},
         NEW m \in 0 .. Len(x),
         \A i \in 1 .. m : x[i] = Processed(Fed(r, Len(wr) + Len(ou) + i))
  PROVE  Flow(r, n, wr, ou, SubSeq(x, 1, m), SubSeq(x, m + 1, Len(x)), qu)
  <1> DEFINE w == Len(wr) + Len(ou)
             a == SubSeq(x, 1, m)
             b == SubSeq(x, m + 1, Len(x))
  <1>1. /\ Len(wr) \in Nat /\ Len(ou) \in Nat /\ Len(ar) \in Nat
        /\ Len(qu) \in Nat /\ n = w + Len(ar) + Len(qu) /\ w \in Nat
        /\ \A i \in 1 .. Len(qu) : qu[i] = Fed(r, w + Len(ar) + i)
    <2>1. /\ n = Len(wr) + Len(ou) + Len(<<>>) + Len(ar) + Len(qu) /\ Len(<<>>) = 0
          /\ \A i \in 1 .. Len(qu) : qu[i] = Fed(r, Len(wr) + Len(ou) + Len(<<>>) + Len(ar) + i)
      BY DEF Flow
    <2>2. Len(wr) \in Nat /\ Len(ou) \in Nat /\ Len(ar) \in Nat /\ Len(qu) \in Nat
      BY FlowLengths
    <2>3. Len(wr) + Len(ou) + Len(<<>>) + Len(ar) = w + Len(ar)
      BY <2>1, <2>2
    <2> QED
      BY <2>1, <2>2, <2>3
  <1>2. Len(x) \in Nat /\ \A i \in 1 .. Len(x) : x[i] \in HeldItems(r)
    BY SeqFacts
  <1>3. a \in Seq(HeldItems(r)) /\ Len(a) = m /\ \A i \in 1 .. m : a[i] = x[i]
    BY <1>2, SubSeqFacts
  <1>4. /\ b \in Seq(HeldItems(r)) /\ Len(b) = Len(x) - m
        /\ \A i \in 1 .. Len(x) - m : b[i] = x[m + i]
    BY <1>2, SubSeqFacts
  <1> HIDE DEF a, b, w
  <1>5. \A i \in 1 .. Len(a) : a[i] = Processed(Fed(r, w + i))
    BY <1>3 DEF w
  <1>6. ASSUME NEW i \in 1 .. Len(b)
        PROVE  b[i] \in {Fed(r, w + Len(a) + i), Processed(Fed(r, w + Len(a) + i))}
    <2>1. m + i \in 1 .. Len(x) /\ w + (m + i) = w + Len(a) + i
      BY <1>1, <1>2, <1>3, <1>4
    <2> QED
      BY <1>4, <2>1 DEF w
  <1>7. n = w + Len(a) + Len(b) + Len(qu) /\ w + Len(a) + Len(b) = w + Len(ar)
    BY <1>1, <1>2, <1>3, <1>4
  <1>8. \A i \in 1 .. Len(qu) : qu[i] = Fed(r, w + Len(a) + Len(b) + i)
    BY <1>1, <1>7
  <1> QED
    BY <1>3, <1>4, <1>5, <1>6, <1>7, <1>8 DEF Flow, a, b, w

\* An issued item is pushed to the writer.
LEMMA FlowIssue ==
  ASSUME NEW r \in Recipes, NEW n, NEW wr, NEW ou, NEW is, NEW ar, NEW qu,
         Flow(r, n, wr, ou, is, ar, qu), is # <<>>
  PROVE  Flow(r, n, wr, Append(ou, Head(is)), Tail(is), ar, qu)
  <1> DEFINE w == Len(wr)
             o == Append(ou, Head(is))
             s == Tail(is)
  <1>1. /\ w \in Nat /\ Len(ou) \in Nat /\ Len(is) \in Nat /\ Len(ar) \in Nat
        /\ Len(qu) \in Nat /\ n = w + Len(ou) + Len(is) + Len(ar) + Len(qu)
        /\ is \in Seq(HeldItems(r)) /\ ou \in Seq(HeldItems(r))
    BY FlowLengths DEF Flow
  <1>2. /\ Head(is) = is[1] /\ Head(is) \in HeldItems(r) /\ Len(is) \in Nat \ {0}
        /\ s \in Seq(HeldItems(r)) /\ Len(s) = Len(is) - 1
        /\ \A k \in 1 .. Len(is) - 1 : s[k] = is[k + 1]
    BY <1>1, HeadTailFacts
  <1>3. /\ o \in Seq(HeldItems(r)) /\ Len(o) = Len(ou) + 1 /\ o[Len(ou) + 1] = Head(is)
        /\ \A k \in 1 .. Len(ou) : o[k] = ou[k]
    BY <1>1, <1>2, AppendFacts
  <1>4. /\ \A i \in 1 .. Len(ou) : ou[i] = Processed(Fed(r, w + i))
        /\ \A i \in 1 .. Len(is) : is[i] = Processed(Fed(r, w + Len(ou) + i))
    BY DEF Flow
  <1> HIDE DEF w, o, s
  <1>5. ASSUME NEW i \in 1 .. Len(o) PROVE o[i] = Processed(Fed(r, w + i))
    <2>1. CASE i = Len(ou) + 1
      <3>1. w + Len(ou) + 1 = w + i /\ 1 \in 1 .. Len(is)
        BY <1>1, <1>2, <2>1
      <3>2. is[1] = Processed(Fed(r, w + Len(ou) + 1))
        BY <1>4, <3>1
      <3> QED
        BY <1>2, <1>3, <2>1, <3>1, <3>2
    <2>2. CASE i # Len(ou) + 1
      <3>1. i \in 1 .. Len(ou)
        BY <1>1, <1>3, <2>2
      <3> QED
        BY <1>3, <1>4, <3>1
    <2> QED
      BY <2>1, <2>2
  <1>6. ASSUME NEW i \in 1 .. Len(s) PROVE s[i] = Processed(Fed(r, w + Len(o) + i))
    <2>1. i + 1 \in 1 .. Len(is) /\ i \in 1 .. Len(is) - 1 /\ w + Len(ou) + (i + 1) = w + Len(o) + i
      BY <1>1, <1>2, <1>3
    <2> QED
      BY <1>2, <1>4, <2>1
  <1>7. w + Len(o) + Len(s) = w + Len(ou) + Len(is)
    BY <1>1, <1>2, <1>3
  <1>8. /\ n = w + Len(o) + Len(s) + Len(ar) + Len(qu)
        /\ w + Len(o) + Len(s) + Len(ar) = w + Len(ou) + Len(is) + Len(ar)
    BY <1>1, <1>7
  <1>9. ar \in Seq(HeldItems(r)) /\ \A i \in 1 .. Len(ar) :
           ar[i] \in {Fed(r, w + Len(o) + Len(s) + i), Processed(Fed(r, w + Len(o) + Len(s) + i))}
    BY <1>7 DEF Flow, w
  <1>10. \A i \in 1 .. Len(qu) : qu[i] = Fed(r, w + Len(o) + Len(s) + Len(ar) + i)
    BY <1>8 DEF Flow, w
  <1>11. wr \in Seq(WrittenItems(r)) /\ qu \in Seq(FeedItems(r)) /\ n <= Len(Feed(r))
         /\ \A i \in 1 .. Len(wr) : wr[i] = PlayedAs(Fed(r, i))
    BY DEF Flow
  <1> QED
    BY <1>2, <1>3, <1>5, <1>6, <1>8, <1>9, <1>10, <1>11 DEF Flow, w, o, s

\* The writer writes an item: the next of the items that are to be written.
LEMMA FlowWrite ==
  ASSUME NEW r \in Recipes, NEW n, NEW wr, NEW ou, NEW is, NEW ar, NEW qu,
         Flow(r, n, wr, ou, is, ar, qu), ou # <<>>
  PROVE  /\ Len(wr) + 1 \in 1 .. Len(Feed(r))
         /\ Head(ou) = Processed(Fed(r, Len(wr) + 1)) /\ Fed(r, Len(wr) + 1) \in FeedItems(r)
         /\ Flow(r, n, Append(wr, PlayedAs(Fed(r, Len(wr) + 1))), Tail(ou), is, ar, qu)
  <1> DEFINE w == Len(wr)
             x == PlayedAs(Fed(r, w + 1))
             v == Append(wr, x)
             o == Tail(ou)
  <1>1. /\ w \in Nat /\ Len(ou) \in Nat /\ Len(is) \in Nat /\ Len(ar) \in Nat
        /\ Len(qu) \in Nat /\ n = w + Len(ou) + Len(is) + Len(ar) + Len(qu)
        /\ wr \in Seq(WrittenItems(r)) /\ ou \in Seq(HeldItems(r)) /\ n <= Len(Feed(r))
        /\ Len(Feed(r)) \in Nat /\ \A i \in 1 .. Len(Feed(r)) : Fed(r, i) \in FeedItems(r)
    BY FlowLengths DEF Flow
  <1>2. /\ Head(ou) = ou[1] /\ Len(ou) \in Nat \ {0}
        /\ o \in Seq(HeldItems(r)) /\ Len(o) = Len(ou) - 1
        /\ \A k \in 1 .. Len(ou) - 1 : o[k] = ou[k + 1]
    BY <1>1, HeadTailFacts
  <1>3. w + 1 \in 1 .. Len(Feed(r)) /\ Fed(r, w + 1) \in FeedItems(r)
    <2>1. w + 1 \in 1 .. Len(Feed(r))
      BY <1>1, <1>2
    <2> QED
      BY <1>1, <2>1
  <1>4. x \in WrittenItems(r)
    BY <1>3 DEF WrittenItems
  <1>5. /\ v \in Seq(WrittenItems(r)) /\ Len(v) = w + 1 /\ v[w + 1] = x
        /\ \A k \in 1 .. w : v[k] = wr[k]
    BY <1>1, <1>4, AppendFacts
  <1>6. /\ \A i \in 1 .. w : wr[i] = PlayedAs(Fed(r, i))
        /\ \A i \in 1 .. Len(ou) : ou[i] = Processed(Fed(r, w + i))
    BY DEF Flow
  <1> HIDE DEF w, v, o
  <1>7. ASSUME NEW i \in 1 .. Len(v) PROVE v[i] = PlayedAs(Fed(r, i))
    <2>1. CASE i = w + 1
      BY <1>5, <2>1
    <2>2. CASE i # w + 1
      <3>1. i \in 1 .. w
        BY <1>1, <1>5, <2>2
      <3> QED
        BY <1>5, <1>6, <3>1
    <2> QED
      BY <2>1, <2>2
  <1>8. ASSUME NEW i \in 1 .. Len(o) PROVE o[i] = Processed(Fed(r, Len(v) + i))
    <2>1. i + 1 \in 1 .. Len(ou) /\ i \in 1 .. Len(ou) - 1 /\ w + (i + 1) = Len(v) + i
      BY <1>1, <1>2, <1>5
    <2> QED
      BY <1>2, <1>6, <2>1
  <1>9. Len(v) + Len(o) = w + Len(ou)
    BY <1>1, <1>2, <1>5
  <1>10. Head(ou) = Processed(Fed(r, w + 1))
    <2>1. 1 \in 1 .. Len(ou)
      BY <1>2
    <2> QED
      BY <1>2, <1>6, <2>1
  <1>11. /\ is \in Seq(HeldItems(r)) /\ ar \in Seq(HeldItems(r)) /\ qu \in Seq(FeedItems(r))
         /\ n = Len(v) + Len(o) + Len(is) + Len(ar) + Len(qu) /\ n <= Len(Feed(r))
         /\ \A i \in 1 .. Len(is) : is[i] = Processed(Fed(r, Len(v) + Len(o) + i))
         /\ \A i \in 1 .. Len(ar) :
              ar[i] \in {Fed(r, Len(v) + Len(o) + Len(is) + i),
                         Processed(Fed(r, Len(v) + Len(o) + Len(is) + i))}
         /\ \A i \in 1 .. Len(qu) : qu[i] = Fed(r, Len(v) + Len(o) + Len(is) + Len(ar) + i)
    BY <1>9 DEF Flow, w
  <1>12. Flow(r, n, v, o, is, ar, qu)
    BY <1>2, <1>5, <1>7, <1>8, <1>11 DEF Flow
  <1> QED
    BY <1>3, <1>10, <1>12 DEF w, v, o

-----------------------------------------------------------------------------
(* The caches and the assembly area.                                       *)

\* The first place of some container, if there is one.
LEMMA HitsFacts ==
  ASSUME NEW T, NEW c \in Seq(T), NEW ids
  PROVE  /\ Hits(c, ids) \in 0 .. Len(c)
         /\ Hits(c, ids) > 0 => Hits(c, ids) \in 1 .. Len(c) /\ c[Hits(c, ids)] \in ids
         /\ ~(Hits(c, ids) > 0) => \A i \in 1 .. Len(c) : c[i] \notin ids
  <1> DEFINE I == {i \in 1 .. Len(c) : c[i] \in ids}
  <1>1. Hits(c, ids) = IF I # {} THEN Min(I) ELSE 0
    BY DEF Hits, SelectInSeq
  <1>2. Len(c) \in Nat
    BY SeqFacts
  <1>3. CASE I = {}
    BY <1>1, <1>2, <1>3
  <1>4. CASE I # {}
    <2>1. I \in SUBSET Nat
      OBVIOUS
    <2> HIDE DEF I
    <2>2. Min(I) \in I
      BY <1>4, <2>1, MinOfPlaces
    <2> QED
      BY <1>1, <1>2, <1>4, <2>2 DEF I
  <1> QED
    BY <1>3, <1>4

\* A sequence with an element in front of it, which was not in it.
LEMMA PushedFront ==
  ASSUME NEW T, NEW c \in Seq(T), IsInjective(c), NEW x \in T, \A i \in 1 .. Len(c) : c[i] # x
  PROVE  /\ <<x>> \o c \in Seq(T) /\ Len(<<x>> \o c) = Len(c) + 1 /\ IsInjective(<<x>> \o c)
         /\ Head(<<x>> \o c) = x /\ (<<x>> \o c)[1] = x /\ <<x>> \o c # <<>>
         /\ ToSet(<<x>> \o c) = {x} \cup ToSet(c)
  <1> DEFINE a == <<x>>
             e == a \o c
             l == Len(c)
  <1>1. a \in Seq(T) /\ Len(a) = 1 /\ a[1] = x /\ l \in Nat /\ DOMAIN c = 1 .. l
    BY SeqFacts
  <1> HIDE DEF a, l
  <1>2. /\ e \in Seq(T) /\ Len(e) = l + 1 /\ DOMAIN e = 1 .. l + 1
        /\ \A i \in 1 .. l + 1 : e[i] = IF i <= 1 THEN a[i] ELSE c[i - 1]
    <2>1. /\ e \in Seq(T) /\ Len(e) = Len(a) + Len(c)
          /\ \A i \in 1 .. Len(a) + Len(c) : e[i] = IF i <= Len(a) THEN a[i] ELSE c[i - Len(a)]
      BY <1>1, ConcatProperties
    <2> HIDE DEF e
    <2>2. DOMAIN e = 1 .. Len(e)
      BY <2>1, SeqFacts
    <2> QED
      BY <1>1, <2>1, <2>2 DEF l
  <1> HIDE DEF e
  <1>3. e[1] = x /\ \A i \in 1 .. l : e[i + 1] = c[i] /\ i + 1 \in 1 .. l + 1
    <2>1. 1 \in 1 .. l + 1 /\ \A i \in 1 .. l : i + 1 \in 1 .. l + 1 /\ ~(i + 1 <= 1) /\ (i + 1) - 1 = i
      BY <1>1
    <2> QED
      BY <1>1, <1>2, <2>1
  <1>4. \A i \in 1 .. l + 1 : i = 1 \/ (i - 1 \in 1 .. l /\ e[i] = c[i - 1])
    BY <1>1, <1>2
  <1>5. ASSUME NEW i \in 1 .. l + 1, NEW j \in 1 .. l + 1, e[i] = e[j] PROVE i = j
    <2>1. CASE i = 1 /\ j = 1
      BY <2>1
    <2>2. CASE i = 1 /\ j # 1
      BY <1>3, <1>4, <1>5, <2>2 DEF l
    <2>3. CASE i # 1 /\ j = 1
      BY <1>3, <1>4, <1>5, <2>3 DEF l
    <2>4. CASE i # 1 /\ j # 1
      <3>1. c[i - 1] = c[j - 1] /\ i - 1 \in DOMAIN c /\ j - 1 \in DOMAIN c
        BY <1>1, <1>4, <1>5, <2>4
      <3>2. i - 1 = j - 1
        BY <3>1 DEF IsInjective
      <3> QED
        BY <3>2
    <2> QED
      BY <2>1, <2>2, <2>3, <2>4
  <1>6. IsInjective(e)
    BY <1>2, <1>5 DEF IsInjective
  <1>7. Head(e) = x /\ e # <<>>
    <2>1. e # <<>>
      BY <1>1, <1>2, SeqFacts
    <2> QED
      BY <1>2, <1>3, <2>1, HeadTailFacts
  <1>8. \A y : y \in ToSet(e) <=> y = x \/ y \in ToSet(c)
    <2>1. \A y : y \in ToSet(e) <=> \E i \in 1 .. l + 1 : y = e[i]
      BY <1>2 DEF ToSet
    <2>2. \A y : y \in ToSet(c) <=> \E i \in 1 .. l : y = c[i]
      BY <1>1 DEF ToSet
    <2>3. 1 \in 1 .. l + 1
      BY <1>1
    <2> QED
      BY <1>3, <1>4, <2>1, <2>2, <2>3
  <1> QED
    BY <1>2, <1>3, <1>6, <1>7, <1>8 DEF e, a, l

\* A sequence without one of its places has all but that element, if none is there
\* twice.
LEMMA RemovedPlace ==
  ASSUME NEW T, NEW c \in Seq(T), IsInjective(c), NEW n \in 1 .. Len(c)
  PROVE  /\ RemoveAt(c, n) \in Seq(T) /\ Len(RemoveAt(c, n)) = Len(c) - 1
         /\ IsInjective(RemoveAt(c, n))
         /\ ToSet(RemoveAt(c, n)) = ToSet(c) \ {c[n]}
         /\ \A i \in 1 .. Len(c) - 1 : RemoveAt(c, n)[i] # c[n]
  <1> DEFINE e == RemoveAt(c, n)
             l == Len(c)
             At(i) == IF i < n THEN i ELSE i + 1
  <1>1. l \in Nat /\ DOMAIN c = 1 .. l
    BY SeqFacts
  <1>2. e \in Seq(T) /\ Len(e) = l - 1 /\ \A k \in 1 .. l - 1 : e[k] = IF k < n THEN c[k] ELSE c[k + 1]
    BY RemoveFacts
  <1>3. DOMAIN e = 1 .. l - 1
    BY <1>2, SeqFacts
  <1> HIDE DEF e, l
  <1>4. n \in 1 .. l
    BY DEF l
  <1>5. \A k \in 1 .. l - 1 : At(k) \in 1 .. l /\ At(k) # n /\ e[k] = c[At(k)]
    BY <1>1, <1>2, <1>4
  <1>6. \A i \in 1 .. l - 1, j \in 1 .. l - 1 : At(i) = At(j) => i = j
    BY <1>1, <1>4
  <1>7. \A i \in 1 .. l : i # n => \E k \in 1 .. l - 1 : At(k) = i
    <2>1. ASSUME NEW i \in 1 .. l, i # n PROVE \E k \in 1 .. l - 1 : At(k) = i
      <3>1. CASE i < n
        <4>1. i \in 1 .. l - 1 /\ At(i) = i
          BY <1>1, <1>4, <3>1
        <4> QED
          BY <4>1
      <3>2. CASE i > n
        <4>1. i - 1 \in 1 .. l - 1 /\ At(i - 1) = i
          BY <1>1, <1>4, <3>2
        <4> QED
          BY <4>1
      <3> QED
        BY <1>4, <2>1, <3>1, <3>2
    <2> QED
      BY <2>1
  <1> HIDE DEF At
  <1>8. \A i \in 1 .. l, j \in 1 .. l : c[i] = c[j] => i = j
    BY <1>1 DEF IsInjective
  <1>9. \A i \in 1 .. l - 1, j \in 1 .. l - 1 : e[i] = e[j] => i = j
    BY <1>5, <1>6, <1>8
  <1>10. \A i \in 1 .. l - 1 : e[i] # c[n]
    BY <1>4, <1>5, <1>8
  <1>11. \A y : y \in ToSet(e) <=> y \in ToSet(c) /\ y # c[n]
    <2>1. \A y : y \in ToSet(e) <=> \E i \in 1 .. l - 1 : y = e[i]
      BY <1>3 DEF ToSet
    <2>2. \A y : y \in ToSet(c) <=> \E i \in 1 .. l : y = c[i]
      BY <1>1 DEF ToSet
    <2>3. ASSUME NEW y, y \in ToSet(c), y # c[n] PROVE y \in ToSet(e)
      <3>1. PICK i \in 1 .. l : y = c[i]
        BY <2>2, <2>3
      <3>2. PICK k \in 1 .. l - 1 : At(k) = i
        BY <1>7, <2>3, <3>1
      <3> QED
        BY <1>5, <2>1, <3>1, <3>2
    <2>4. ASSUME NEW y, y \in ToSet(e) PROVE y \in ToSet(c) /\ y # c[n]
      <3>1. PICK i \in 1 .. l - 1 : y = e[i]
        BY <2>1, <2>4
      <3> QED
        BY <1>5, <1>10, <2>2, <3>1
    <2> QED
      BY <2>3, <2>4
  <1>12. IsInjective(e)
    BY <1>3, <1>9 DEF IsInjective
  <1> QED
    BY <1>2, <1>10, <1>11, <1>12 DEF e, l

\* A container that is used comes to the front of the cache.
LEMMA InFrontFacts ==
  ASSUME NEW T, NEW c \in Seq(T), IsInjective(c), NEW k \in 1 .. Len(c)
  PROVE  /\ InFront(c, k) \in Seq(T) /\ Len(InFront(c, k)) = Len(c) /\ IsInjective(InFront(c, k))
         /\ Head(InFront(c, k)) = c[k] /\ InFront(c, k) # <<>>
         /\ ToSet(InFront(c, k)) = ToSet(c)
  <1> DEFINE e == RemoveAt(c, k)
  <1>1. Len(c) \in Nat /\ c[k] \in T
    BY SeqFacts
  <1>2. /\ e \in Seq(T) /\ Len(e) = Len(c) - 1 /\ IsInjective(e)
        /\ ToSet(e) = ToSet(c) \ {c[k]} /\ \A i \in 1 .. Len(c) - 1 : e[i] # c[k]
    BY RemovedPlace
  <1>3. InFront(c, k) = <<c[k]>> \o e
    BY DEF InFront
  <1> HIDE DEF e
  <1>4. /\ <<c[k]>> \o e \in Seq(T) /\ Len(<<c[k]>> \o e) = Len(e) + 1 /\ IsInjective(<<c[k]>> \o e)
        /\ Head(<<c[k]>> \o e) = c[k] /\ <<c[k]>> \o e # <<>>
        /\ ToSet(<<c[k]>> \o e) = {c[k]} \cup ToSet(e)
    BY <1>1, <1>2, PushedFront
  <1>5. c[k] \in ToSet(c)
    BY <1>1, SeqFacts DEF ToSet
  <1> QED
    <2>1. Len(e) + 1 = Len(c)
      BY <1>1, <1>2
    <2>2. {c[k]} \cup ToSet(e) = ToSet(c)
      BY <1>2, <1>5
    <2> QED
      BY <1>3, <1>4, <2>1, <2>2

\* A container that has been read is in front of the cache, which has at most the
\* size that it may have.
LEMMA InsertedFacts ==
  ASSUME NEW T, NEW c \in Seq(T), IsInjective(c), NEW x \in T, \A i \in 1 .. Len(c) : c[i] # x,
         NEW size \in Nat \ {0}, Len(c) <= size
  PROVE  /\ Inserted(c, x, size) \in Seq(T) /\ Len(Inserted(c, x, size)) <= size
         /\ IsInjective(Inserted(c, x, size))
         /\ Head(Inserted(c, x, size)) = x /\ Inserted(c, x, size) # <<>>
         /\ ToSet(Inserted(c, x, size)) \subseteq {x} \cup ToSet(c)
  <1>1. Len(c) \in Nat
    BY SeqFacts
  <1>2. CASE Len(c) = size
    <2> DEFINE e == RemoveAt(c, Len(c))
    <2>1. Len(c) \in 1 .. Len(c)
      BY <1>1, <1>2
    <2>2. /\ e \in Seq(T) /\ Len(e) = Len(c) - 1 /\ IsInjective(e)
          /\ ToSet(e) = ToSet(c) \ {c[Len(c)]}
      BY <2>1, RemovedPlace
    <2>3. \A i \in 1 .. Len(c) - 1 : e[i] = c[i]
      BY <1>1, <2>1, RemoveFacts
    <2>4. Front(c) \in Seq(T) /\ Len(Front(c)) = Len(c) - 1 /\ \A i \in 1 .. Len(c) - 1 : Front(c)[i] = c[i]
      <3>1. Len(c) - 1 \in 0 .. Len(c)
        BY <1>1, <2>1
      <3> QED
        BY <3>1, SubSeqFacts DEF Front
    <2> HIDE DEF e
    <2>5. Front(c) = e
      BY <2>2, <2>3, <2>4, SeqEqual
    <2>6. Inserted(c, x, size) = <<x>> \o e
      BY <1>2, <2>5 DEF Inserted
    <2>7. \A i \in 1 .. Len(e) : e[i] # x
      BY <1>1, <2>2, <2>3
    <2>8. /\ <<x>> \o e \in Seq(T) /\ Len(<<x>> \o e) = Len(e) + 1 /\ IsInjective(<<x>> \o e)
          /\ Head(<<x>> \o e) = x /\ <<x>> \o e # <<>>
          /\ ToSet(<<x>> \o e) = {x} \cup ToSet(e)
      BY <2>2, <2>7, PushedFront
    <2>9. Len(e) + 1 <= size
      BY <1>1, <1>2, <2>2
    <2> QED
      BY <2>2, <2>6, <2>8, <2>9
  <1>3. CASE Len(c) # size
    <2>1. Inserted(c, x, size) = <<x>> \o c
      BY <1>3 DEF Inserted
    <2>2. /\ <<x>> \o c \in Seq(T) /\ Len(<<x>> \o c) = Len(c) + 1 /\ IsInjective(<<x>> \o c)
          /\ Head(<<x>> \o c) = x /\ <<x>> \o c # <<>>
          /\ ToSet(<<x>> \o c) = {x} \cup ToSet(c)
      BY PushedFront
    <2>3. Len(c) + 1 <= size
      BY <1>1, <1>3
    <2> QED
      BY <2>1, <2>2, <2>3
  <1> QED
    BY <1>2, <1>3

\* What is retrieved from a container that has the fingerprint.
LEMMA RetrievedRecord ==
  ASSUME NEW k, NEW f, NEW i, NEW id, f \in Containers[id]
  PROVE  Retrieved([kind |-> k, fp |-> f, id |-> i], id) = [kind |-> "ready", fp |-> f, id |-> i]
  <1>1. Retrieved([kind |-> k, fp |-> f, id |-> i], id) =
          [[kind |-> k, fp |-> f, id |-> i]
             EXCEPT !.kind = "ready", !.fp = IF f \in Containers[id] THEN f ELSE NoFp]
    BY DEF Retrieved
  <1> QED
    BY <1>1

\* A chunk that is retrieved from a container that has it is ready.
LEMMA RetrievedFacts ==
  ASSUME NEW r \in Recipes, NEW d \in FeedItems(r), ~IsMark(d), NEW id, d.fp \in Containers[id]
  PROVE  /\ Retrieved(d, id) = Processed(d)
         /\ Retrieved(Processed(d), id) = Processed(d)
  <1>1. /\ d = [kind |-> d.kind, fp |-> d.fp, id |-> d.id]
        /\ Processed(d) = [kind |-> "ready", fp |-> d.fp, id |-> d.id]
    BY FeedItemFacts
  <1>2. Retrieved(d, id) = [kind |-> "ready", fp |-> d.fp, id |-> d.id]
    <2> DEFINE k == d.kind
               f == d.fp
               i == d.id
    <2>1. f \in Containers[id]
      OBVIOUS
    <2> HIDE DEF k, f, i
    <2>2. Retrieved([kind |-> k, fp |-> f, id |-> i], id) = [kind |-> "ready", fp |-> f, id |-> i]
      BY <2>1, RetrievedRecord
    <2> QED
      BY <1>1, <2>2 DEF k, f, i
  <1>3. Retrieved([kind |-> "ready", fp |-> d.fp, id |-> d.id], id)
          = [kind |-> "ready", fp |-> d.fp, id |-> d.id]
    BY RetrievedRecord
  <1> QED
    BY <1>1, <1>2, <1>3

\* Assembly makes chunks of the area ready, and only ready items are issued.
LEMMA AssembledFacts ==
  ASSUME NEW r \in Recipes, NEW a \in Seq(HeldItems(r)), NEW F,
         \A i \in 1 .. Len(a) : F[i] \in FeedItems(r) /\ a[i] \in {F[i], Processed(F[i])}
  PROVE  /\ Assembled(a) \in Seq(HeldItems(r)) /\ Len(Assembled(a)) = Len(a)
         /\ \A i \in 1 .. Len(a) : Assembled(a)[i] \in {F[i], Processed(F[i])}
         /\ Issuable(Assembled(a)) \in 0 .. Len(a)
         /\ \A i \in 1 .. Issuable(Assembled(a)) : Assembled(a)[i] = Processed(F[i])
  <1> DEFINE x == Assembled(a)
  <1>1. Len(a) \in Nat /\ DOMAIN a = 1 .. Len(a) /\ \A i \in 1 .. Len(a) : a[i] \in HeldItems(r)
    BY SeqFacts
  <1>2. \A i \in 1 .. Len(a) : Processed(F[i]) \in HeldItems(r) /\ F[i] \in HeldItems(r)
    BY DEF HeldItems
  <1>3. /\ x \in Seq(HeldItems(r)) /\ Len(x) = Len(a)
        /\ \A i \in 1 .. Len(a) : x[i] \in {F[i], Processed(F[i])}
    <2>1. CASE \A i \in DOMAIN a : IsMark(a[i])
      BY <2>1 DEF Assembled
    <2>2. CASE ~(\A i \in DOMAIN a : IsMark(a[i]))
      <3> DEFINE id == a[Min({i \in DOMAIN a : ~IsMark(a[i])})].id
      <3>1. x = [i \in DOMAIN a |-> IF ~IsMark(a[i]) /\ a[i].id = id THEN Retrieved(a[i], id) ELSE a[i]]
        BY <2>2 DEF Assembled
      <3> HIDE DEF id, x
      <3>2. ASSUME NEW i \in 1 .. Len(a) PROVE x[i] \in {F[i], Processed(F[i])}
        <4>1. x[i] = IF ~IsMark(a[i]) /\ a[i].id = id THEN Retrieved(a[i], id) ELSE a[i]
          BY <1>1, <3>1
        <4>2. F[i] \in FeedItems(r) /\ a[i] \in {F[i], Processed(F[i])}
          OBVIOUS
        <4>3. CASE ~IsMark(a[i]) /\ a[i].id = id
          <5>1. ~IsMark(F[i])
            BY <4>2, <4>3, FeedItemFacts
          <5>2. F[i].fp \in Containers[F[i].id] /\ Processed(F[i]).id = F[i].id
            BY <4>2, <5>1, FeedItemFacts
          <5>3. a[i].id = F[i].id
            BY <4>2, <5>2
          <5>4. F[i].fp \in Containers[id]
            BY <4>3, <5>2, <5>3
          <5>5. /\ Retrieved(F[i], id) = Processed(F[i])
                /\ Retrieved(Processed(F[i]), id) = Processed(F[i])
            BY <4>2, <5>1, <5>4, RetrievedFacts
          <5> QED
            BY <4>1, <4>2, <4>3, <5>5
        <4>4. CASE ~(~IsMark(a[i]) /\ a[i].id = id)
          BY <4>1, <4>2, <4>4
        <4> QED
          BY <4>3, <4>4
      <3>3. \A i \in 1 .. Len(a) : x[i] \in HeldItems(r)
        BY <1>2, <3>2
      <3>4. x \in [1 .. Len(a) -> HeldItems(r)]
        <4>1. x = [i \in 1 .. Len(a) |-> x[i]]
          BY <1>1, <3>1
        <4> QED
          BY <3>3, <4>1
      <3>5. x \in Seq(HeldItems(r)) /\ Len(x) = Len(a)
        BY <1>1, <3>4, SeqDef, LenProperties
      <3> QED
        BY <3>2, <3>5
    <2> QED
      BY <2>1, <2>2
  <1> HIDE DEF x
  <1> DEFINE N == {n \in 0 .. Len(x) : \A i \in 1 .. n : IsMark(x[i]) \/ x[i].kind = "ready"}
  <1>4. Issuable(x) = Max(N)
    BY DEF Issuable
  <1>5. Max(N) \in N
    <2>1. N \in SUBSET (0 .. Len(x)) /\ 0 \in N /\ Len(x) \in Nat
      BY <1>1, <1>3
    <2> HIDE DEF N
    <2> QED
      BY <2>1, MaxOfPlaces
  <1>6. ASSUME NEW i \in 1 .. Issuable(x) PROVE x[i] = Processed(F[i])
    <2>1. i \in 1 .. Len(a) /\ (IsMark(x[i]) \/ x[i].kind = "ready")
      BY <1>1, <1>3, <1>4, <1>5
    <2>2. F[i] \in FeedItems(r) /\ x[i] \in {F[i], Processed(F[i])}
      BY <1>3, <2>1
    <2>3. CASE x[i] = F[i]
      <3>1. IsMark(F[i])
        BY <2>1, <2>2, <2>3, FeedItemFacts
      <3> QED
        BY <2>2, <2>3, <3>1, FeedItemFacts
    <2>4. CASE x[i] = Processed(F[i])
      BY <2>4
    <2> QED
      BY <2>2, <2>3, <2>4
  <1> QED
    BY <1>3, <1>4, <1>5, <1>6 DEF x

-----------------------------------------------------------------------------
(* Numbers in ascending order, and the access records.                     *)

\* How many numbers of a set are below a number.
Below(S, n) == {m \in S : m < n}
Rank(S, n) == Cardinality(Below(S, n))

\* Ranks count up.
LEMMA RankFacts ==
  ASSUME NEW S \in SUBSET Nat, IsFiniteSet(S)
  PROVE  /\ Cardinality(S) \in Nat
         /\ \A n \in Nat : Rank(S, n) \in 0 .. Cardinality(S)
         /\ \A n \in S : Rank(S, n) \in 0 .. Cardinality(S) - 1
         /\ \A n, m \in Nat : n <= m => Rank(S, n) <= Rank(S, m)
         /\ \A n \in S : \A m \in Nat : n < m => Rank(S, n) < Rank(S, m)
  <1>1. Cardinality(S) \in Nat
    BY FS_CardinalityType
  <1>2. ASSUME NEW n PROVE /\ IsFiniteSet(Below(S, n)) /\ Rank(S, n) \in Nat
                           /\ Rank(S, n) <= Cardinality(S)
                           /\ Rank(S, n) = Cardinality(S) => Below(S, n) = S
    <2>1. Below(S, n) \in SUBSET S
      BY DEF Below
    <2>2. /\ IsFiniteSet(Below(S, n)) /\ Cardinality(Below(S, n)) <= Cardinality(S)
          /\ Cardinality(S) = Cardinality(Below(S, n)) => S = Below(S, n)
      BY <2>1, FS_Subset
    <2> QED
      BY <2>2, FS_CardinalityType DEF Rank
  <1>3. ASSUME NEW n \in Nat PROVE Rank(S, n) \in 0 .. Cardinality(S)
    BY <1>1, <1>2
  <1>4. ASSUME NEW n \in S PROVE Rank(S, n) \in 0 .. Cardinality(S) - 1
    <2>1. n \notin Below(S, n)
      BY DEF Below
    <2>2. Rank(S, n) # Cardinality(S)
      BY <1>2, <2>1
    <2> QED
      BY <1>1, <1>2, <2>2
  <1>5. ASSUME NEW n \in Nat, NEW m \in Nat, n <= m
        PROVE  /\ Rank(S, n) <= Rank(S, m)
               /\ Rank(S, n) = Rank(S, m) => Below(S, n) = Below(S, m)
    <2>1. Below(S, n) \in SUBSET Below(S, m)
      <3>1. ASSUME NEW x \in S, x < n PROVE x < m
        <4>1. x \in Nat
          OBVIOUS
        <4> QED
          BY <1>5, <3>1, <4>1
      <3> QED
        BY <3>1 DEF Below
    <2> QED
      BY <1>2, <2>1, FS_Subset DEF Rank
  <1>6. ASSUME NEW n \in S, NEW m \in Nat, n < m PROVE Rank(S, n) < Rank(S, m)
    <2>1. n \in Nat
      OBVIOUS
    <2>2. n \in Below(S, m) /\ n \notin Below(S, n)
      BY <1>6 DEF Below
    <2> QED
      BY <1>2, <1>5, <1>6, <2>1, <2>2
  <1> QED
    BY <1>1, <1>3, <1>4, <1>5, <1>6

\* Every rank below the size is that of an element.
LEMMA RankExists ==
  ASSUME NEW S \in SUBSET Nat, IsFiniteSet(S), NEW k \in 1 .. Cardinality(S)
  PROVE  \E n \in S : Rank(S, n) = k - 1
  <1> DEFINE c == Cardinality(S)
             T == 0 .. c - 1
             f == [n \in S |-> Rank(S, n)]
  <1>1. c \in Nat /\ \A n \in S : Rank(S, n) \in T
    BY RankFacts
  <1>2. ASSUME NEW n \in S, NEW m \in S, Rank(S, n) = Rank(S, m) PROVE n = m
    <2>1. n \in Nat /\ m \in Nat
      OBVIOUS
    <2>2. Rank(S, n) \in Int /\ ~(n < m) /\ ~(m < n)
      <3>1. n < m => Rank(S, n) < Rank(S, m)
        BY <2>1, RankFacts
      <3>2. m < n => Rank(S, m) < Rank(S, n)
        BY <2>1, RankFacts
      <3>3. Rank(S, n) \in Int
        BY <1>1
      <3> QED
        BY <1>2, <3>1, <3>2, <3>3
    <2> QED
      BY <2>1, <2>2
  <1>3. IsFiniteSet(T) /\ Cardinality(T) = c
    <2>1. 0 \in Int /\ c - 1 \in Int /\ (0 > c - 1 <=> c = 0) /\ (c - 1) - 0 + 1 = c
      BY <1>1
    <2> HIDE DEF c
    <2>2. /\ IsFiniteSet(0 .. c - 1)
          /\ Cardinality(0 .. c - 1) = IF 0 > c - 1 THEN 0 ELSE (c - 1) - 0 + 1
      BY <2>1, FS_Interval
    <2> QED
      BY <2>1, <2>2
  <1> HIDE DEF T
  <1>4. f \in Injection(S, T)
    BY <1>1, <1>2 DEF Injection, IsInjective
  <1> HIDE DEF f
  <1>5. f \in Surjection(S, T)
    BY <1>3, <1>4, FS_Injection DEF c
  <1>6. k - 1 \in T
    BY <1>1 DEF T, c
  <1>7. \E n \in S : f[n] = k - 1
    BY <1>5, <1>6 DEF Surjection
  <1> QED
    BY <1>7 DEF f

\* What Ascending returns.
LEMMA AscendingFacts ==
  ASSUME NEW S \in SUBSET Nat, IsFiniteSet(S)
  PROVE  /\ Ascending(S) \in Seq(S) /\ Len(Ascending(S)) = Cardinality(S)
         /\ Cardinality(S) \in Nat
         /\ \A k \in 1 .. Cardinality(S) :
              Ascending(S)[k] \in S /\ Rank(S, Ascending(S)[k]) = k - 1
         /\ \A n \in S : /\ Rank(S, n) + 1 \in 1 .. Cardinality(S)
                         /\ Ascending(S)[Rank(S, n) + 1] = n
  <1> DEFINE c == Cardinality(S)
             q == Ascending(S)
  <1>1. c \in Nat
    BY RankFacts
  <1>2. q = [k \in 1 .. c |-> CHOOSE n \in S : Rank(S, n) = k - 1]
    BY DEF Ascending, Rank, Below
  <1>3. ASSUME NEW k \in 1 .. c PROVE q[k] \in S /\ Rank(S, q[k]) = k - 1
    <2>1. \E n \in S : Rank(S, n) = k - 1
      BY RankExists
    <2>2. q[k] = CHOOSE n \in S : Rank(S, n) = k - 1
      BY <1>2
    <2> QED
      BY <2>1, <2>2
  <1>4. q \in Seq(S) /\ Len(q) = c
    BY <1>1, <1>2, <1>3, SeqDef, LenProperties
  <1>5. ASSUME NEW n \in S PROVE Rank(S, n) + 1 \in 1 .. c /\ q[Rank(S, n) + 1] = n
    <2> DEFINE k == Rank(S, n) + 1
    <2>1. k \in 1 .. c /\ k - 1 = Rank(S, n) /\ Rank(S, n) \in Int
      <3>1. Rank(S, n) \in 0 .. c - 1
        BY RankFacts
      <3> QED
        BY <1>1, <3>1
    <2>2. q[k] \in S /\ Rank(S, q[k]) = Rank(S, n)
      BY <1>3, <2>1
    <2> DEFINE m == q[k]
    <2>3. m \in Nat /\ n \in Nat
      BY <2>2
    <2>4. ~(n < m) /\ ~(m < n)
      <3> HIDE DEF m
      <3>1. m \in S /\ Rank(S, m) = Rank(S, n)
        BY <2>2 DEF m
      <3>2. n < m => Rank(S, n) < Rank(S, m)
        BY <2>3, RankFacts
      <3>3. m < n => Rank(S, m) < Rank(S, n)
        BY <2>3, <3>1, RankFacts
      <3> QED
        BY <2>1, <3>1, <3>2, <3>3
    <2> QED
      BY <2>1, <2>3, <2>4
  <1> QED
    BY <1>1, <1>3, <1>4, <1>5

\* The empty set has no numbers.
LEMMA AscendingEmpty ==
  /\ Ascending({}) = <<>>
  /\ \A S \in SUBSET Nat : IsFiniteSet(S) => (Ascending(S) = <<>> <=> S = {})
  <1>1. ASSUME NEW S \in SUBSET Nat, IsFiniteSet(S) PROVE Ascending(S) = <<>> <=> S = {}
    <2>1. Ascending(S) \in Seq(S) /\ Len(Ascending(S)) = Cardinality(S)
      BY <1>1, AscendingFacts
    <2>2. Cardinality(S) = 0 <=> S = {}
      BY <1>1, FS_EmptySet
    <2>3. Ascending(S) = <<>> <=> Len(Ascending(S)) = 0
      BY <2>1, SeqFacts
    <2> QED
      BY <2>1, <2>2, <2>3
  <1> QED
    BY <1>1, FS_EmptySet

\* Without its least number a set has the rest of them.
LEMMA AscendingTail ==
  ASSUME NEW S \in SUBSET Nat, IsFiniteSet(S), NEW n \in S, \A m \in S : n <= m
  PROVE  /\ Ascending(S) # <<>> /\ Head(Ascending(S)) = n
         /\ Tail(Ascending(S)) = Ascending(S \ {n})
  <1> DEFINE q == Ascending(S)
             U == S \ {n}
             c == Cardinality(S)
  <1>0. n \in Nat
    OBVIOUS
  <1>1. /\ q \in Seq(S) /\ Len(q) = c /\ c \in Nat
        /\ \A k \in 1 .. c : q[k] \in S /\ Rank(S, q[k]) = k - 1
        /\ Rank(S, n) + 1 \in 1 .. c /\ q[Rank(S, n) + 1] = n
    BY AscendingFacts
  <1>2. Rank(S, n) = 0
    <2>1. Below(S, n) = {}
      <3>1. ASSUME NEW x \in S, x < n PROVE FALSE
        <4>1. x \in Nat /\ n <= x
          OBVIOUS
        <4> QED
          BY <1>0, <3>1, <4>1
      <3> QED
        BY <3>1 DEF Below
    <2> QED
      BY <2>1, FS_EmptySet DEF Rank
  <1>3. q # <<>> /\ q[1] = n /\ c >= 1
    <2>1. c >= 1 /\ q[1] = n
      BY <1>1, <1>2
    <2> QED
      BY <1>1, <2>1, SeqFacts
  <1>4. IsFiniteSet(U) /\ Cardinality(U) = c - 1 /\ U \in SUBSET Nat
    BY FS_RemoveElement
  <1>5. /\ Ascending(U) \in Seq(U) /\ Len(Ascending(U)) = c - 1
        /\ \A m \in U : Ascending(U)[Rank(U, m) + 1] = m
    BY <1>4, AscendingFacts
  <1> HIDE DEF q, U
  <1>6. ASSUME NEW k \in 1 .. c - 1 PROVE q[k + 1] = Ascending(U)[k]
    <2> DEFINE m == q[k + 1]
    <2>1. k + 1 \in 1 .. c /\ (k + 1) - 1 = k
      BY <1>1
    <2>2. m \in S /\ Rank(S, m) = k
      BY <1>1, <2>1
    <2> HIDE DEF m
    <2>3. m \in U /\ m \in Nat
      BY <1>1, <1>2, <2>2 DEF U
    <2>4. Below(U, m) = Below(S, m) \ {n} /\ n \in Below(S, m)
      BY <1>0, <2>3 DEF Below, U
    <2>5. IsFiniteSet(Below(S, m))
      BY FS_Subset DEF Below
    <2>6. Rank(U, m) = k - 1
      <3> DEFINE B == Below(S, m)
      <3>1. IsFiniteSet(B) /\ n \in B /\ Below(U, m) = B \ {n} /\ Cardinality(B) = k
        BY <2>2, <2>4, <2>5 DEF Rank
      <3> HIDE DEF B
      <3>2. Cardinality(B \ {n}) = Cardinality(B) - 1
        BY <3>1, FS_RemoveElement
      <3> QED
        BY <3>1, <3>2 DEF Rank
    <2>7. Rank(U, m) + 1 = k
      BY <2>6
    <2> QED
      BY <1>5, <2>3, <2>7 DEF m
  <1>7. /\ Head(q) = q[1] /\ Tail(q) \in Seq(S) /\ Len(Tail(q)) = c - 1
        /\ \A k \in 1 .. c - 1 : Tail(q)[k] = q[k + 1]
    BY <1>1, <1>3, HeadTailFacts
  <1>8. Tail(q) = Ascending(U)
    BY <1>5, <1>6, <1>7, SeqEqual
  <1> QED
    BY <1>3, <1>7, <1>8 DEF q, U

\* The numbers of a set behind the smaller ones of another.
LEMMA AscendingJoin ==
  ASSUME NEW S \in SUBSET Nat, IsFiniteSet(S), NEW T \in SUBSET Nat, IsFiniteSet(T),
         \A s \in S : \A t \in T : s < t
  PROVE  Ascending(S) \o Ascending(T) = Ascending(S \cup T)
  <1> DEFINE U == S \cup T
             a == Cardinality(S)
             b == Cardinality(T)
             x == Ascending(S)
             y == Ascending(T)
             z == Ascending(U)
  <1>1. U \in SUBSET Nat /\ IsFiniteSet(U) /\ Cardinality(U) = a + b /\ a \in Nat /\ b \in Nat
    <2>1. S \cap T = {}
      <3>1. ASSUME NEW s \in S, s \in T PROVE FALSE
        <4>1. s < s /\ s \in Nat
          BY <3>1
        <4> QED
          BY <4>1
      <3> QED
        BY <3>1
    <2>2. /\ IsFiniteSet(S \cup T)
          /\ Cardinality(S \cup T) = Cardinality(S) + Cardinality(T) - Cardinality(S \cap T)
      BY FS_Union
    <2>3. Cardinality(S \cap T) = 0
      BY <2>1, FS_EmptySet
    <2> QED
      BY <2>2, <2>3, FS_CardinalityType
  <1>2. /\ x \in Seq(S) /\ Len(x) = a
        /\ \A k \in 1 .. a : x[k] \in S /\ Rank(S, x[k]) = k - 1
    BY AscendingFacts
  <1>3. /\ y \in Seq(T) /\ Len(y) = b
        /\ \A k \in 1 .. b : y[k] \in T /\ Rank(T, y[k]) = k - 1
    BY AscendingFacts
  <1>4. /\ z \in Seq(U) /\ Len(z) = a + b
        /\ \A n \in U : z[Rank(U, n) + 1] = n
    BY <1>1, AscendingFacts
  <1>5. /\ x \o y \in Seq(U) /\ Len(x \o y) = a + b
        /\ \A k \in 1 .. a + b : (x \o y)[k] = IF k <= a THEN x[k] ELSE y[k - a]
    <2>1. x \in Seq(U) /\ y \in Seq(U)
      BY <1>2, <1>3, SeqOfSubset
    <2> HIDE DEF x, y, U
    <2>2. /\ x \o y \in Seq(U) /\ Len(x \o y) = Len(x) + Len(y)
          /\ \A k \in 1 .. Len(x) + Len(y) :
               (x \o y)[k] = IF k <= Len(x) THEN x[k] ELSE y[k - Len(x)]
      BY <2>1, ConcatProperties
    <2> QED
      BY <1>2, <1>3, <2>2
  <1> HIDE DEF x, y, z
  <1>6. ASSUME NEW k \in 1 .. a + b PROVE (x \o y)[k] = z[k]
    <2>1. CASE k <= a
      <3> DEFINE n == x[k]
      <3>1. k \in 1 .. a
        BY <1>1, <2>1
      <3>2. n \in S /\ Rank(S, n) = k - 1
        BY <1>2, <3>1
      <3> HIDE DEF n
      <3>3. n \in Nat /\ Below(U, n) = Below(S, n)
        <4>1. ASSUME NEW t \in T, t < n PROVE FALSE
          <5>1. n < t /\ n \in Nat /\ t \in Nat
            BY <3>2
          <5> QED
            BY <4>1, <5>1
        <4> QED
          BY <3>2, <4>1 DEF Below
      <3>4. Rank(U, n) + 1 = k
        BY <3>2, <3>3 DEF Rank
      <3> QED
        BY <1>4, <1>5, <2>1, <3>2, <3>4 DEF n
    <2>2. CASE ~(k <= a)
      <3> DEFINE n == y[k - a]
      <3>1. k - a \in 1 .. b
        BY <1>1, <2>2
      <3>2. n \in T /\ Rank(T, n) = k - a - 1
        BY <1>3, <3>1
      <3> HIDE DEF n
      <3>3. n \in Nat /\ Below(U, n) = S \cup Below(T, n)
        BY <3>2 DEF Below
      <3>4. IsFiniteSet(Below(T, n)) /\ S \cap Below(T, n) = {}
        <4>1. Below(T, n) \in SUBSET T
          BY DEF Below
        <4>2. ASSUME NEW s \in S, s \in T PROVE FALSE
          <5>1. s < s /\ s \in Nat
            BY <4>2
          <5> QED
            BY <5>1
        <4> QED
          BY <4>1, <4>2, FS_Subset
      <3>5. Cardinality(S \cap Below(T, n)) = 0
        BY <3>4, FS_EmptySet
      <3>6. Rank(U, n) = a + (k - a - 1) - 0
        BY <3>2, <3>3, <3>4, <3>5, FS_Union DEF Rank
      <3>7. Rank(U, n) + 1 = k
        BY <1>1, <3>6
      <3> QED
        BY <1>4, <1>5, <2>2, <3>2, <3>7 DEF n
    <2> QED
      BY <2>1, <2>2
  <1>7. x \o y = z
    BY <1>1, <1>4, <1>5, <1>6, SeqEqual
  <1> QED
    BY <1>7 DEF x, y, z

\* Where an access record is written, and the number of the record of a pointer.
Changes(p) == {i \in 1 .. Len(p) : i = Len(p) \/ p[i].id # p[i + 1].id}
Run(p, n) == Rank(Changes(p), n) + 1

\* Pointers without a change between them are to the same container.
LEMMA SameContainer ==
  ASSUME NEW p, NEW n \in Nat, NEW j \in Nat, n <= j,
         \A i \in n .. j - 1 : p[i].id = p[i + 1].id
  PROVE  p[j].id = p[n].id
  <1> DEFINE A == {d \in Nat : n + d <= j => p[n + d].id = p[n].id}
  <1>1. 0 \in A
    <2>1. n + 0 = n
      OBVIOUS
    <2> QED
      BY <2>1
  <1>2. ASSUME NEW d \in A PROVE d + 1 \in A
    <2>1. d \in Nat /\ d + 1 \in Nat /\ (n + d <= j => p[n + d].id = p[n].id)
      OBVIOUS
    <2>2. ASSUME n + (d + 1) <= j PROVE p[n + (d + 1)].id = p[n].id
      <3>1. n + d \in n .. j - 1 /\ n + (d + 1) = (n + d) + 1 /\ n + d <= j
        BY <2>1, <2>2
      <3>2. p[n + d].id = p[(n + d) + 1].id
        BY <3>1
      <3> QED
        BY <2>1, <3>1, <3>2
    <2> QED
      BY <2>1, <2>2
  <1> HIDE DEF A
  <1>3. A \in SUBSET Nat
    BY DEF A
  <1>4. \A d \in Nat : d \in A
    BY <1>1, <1>2, <1>3, NumbersByInduction
  <1>5. j - n \in Nat /\ n + (j - n) = j
    OBVIOUS
  <1>6. j - n \in A
    BY <1>4, <1>5
  <1> QED
    BY <1>5, <1>6 DEF A

\* The access records: each pointer belongs to the record of its container, the
\* first to the first one, and a pointer to another container to the next one.
LEMMA RecordsFacts ==
  ASSUME NEW p \in Seq(Pointers), NEW K, K = Cardinality(Changes(p)),
         NEW R, R = AccessRecords(p)
  PROVE  /\ K \in Nat /\ R \in Seq(Ids) /\ Len(R) = K + 1 /\ R[K + 1] = TEMPORARY_ID
         /\ \A k \in 1 .. K : R[k] \in DOMAIN Containers /\ R[k] \in Nat
         /\ \A n \in 1 .. Len(p) : Run(p, n) \in 1 .. K /\ R[Run(p, n)] = p[n].id
         /\ Len(p) > 0 => Run(p, 1) = 1
         /\ \A n \in 1 .. Len(p) - 1 :
              Run(p, n + 1) = IF p[n].id = p[n + 1].id THEN Run(p, n) ELSE Run(p, n) + 1
  <1> DEFINE C == Changes(p)
             L == Len(p)
             order == Ascending(C)
             ids == [k \in 1 .. K |-> p[order[k]].id]
  <1>1. /\ L \in Nat /\ DOMAIN p = 1 .. L
        /\ \A i \in 1 .. L : p[i] \in Pointers /\ p[i].id \in DOMAIN Containers /\ p[i].id \in Nat
    <2>1. L \in Nat /\ DOMAIN p = 1 .. L /\ \A i \in 1 .. L : p[i] \in Pointers
      BY SeqFacts
    <2> QED
      BY <2>1, RestoreAssumption DEF Pointers
  <1>2. C \in SUBSET (1 .. L) /\ C \in SUBSET Nat /\ IsFiniteSet(C)
    <2>1. C \in SUBSET (1 .. L)
      BY DEF Changes
    <2>2. IsFiniteSet(1 .. L)
      BY <1>1, FS_Interval
    <2>3. IsFiniteSet(C)
      BY <2>1, <2>2, FS_Subset
    <2> QED
      BY <1>1, <2>1, <2>3
  <1>3. /\ order \in Seq(C) /\ Len(order) = K /\ K \in Nat /\ DOMAIN order = 1 .. K
        /\ \A k \in 1 .. K : order[k] \in C
        /\ \A n \in C : Rank(C, n) + 1 \in 1 .. K /\ order[Rank(C, n) + 1] = n
    <2>1. /\ order \in Seq(C) /\ Len(order) = K /\ K \in Nat
          /\ \A k \in 1 .. K : order[k] \in C
          /\ \A n \in C : Rank(C, n) + 1 \in 1 .. K /\ order[Rank(C, n) + 1] = n
      BY <1>2, AscendingFacts
    <2> QED
      BY <2>1, SeqFacts
  <1>4. R = Append(ids, TEMPORARY_ID)
    <2>1. C = {i \in DOMAIN p : i = Len(p) \/ p[i].id # p[i + 1].id}
      BY <1>1 DEF Changes
    <2>2. R = Append([k \in DOMAIN order |-> p[order[k]].id], TEMPORARY_ID)
      BY <2>1 DEF AccessRecords
    <2> QED
      BY <1>3, <2>2
  <1> HIDE DEF order, C, L
  <1>5. \A k \in 1 .. K : order[k] \in 1 .. L /\ ids[k] = p[order[k]].id /\ ids[k] \in Ids
    <2>1. \A k \in 1 .. K : order[k] \in 1 .. L
      BY <1>2, <1>3
    <2> QED
      BY <1>1, <2>1 DEF Ids
  <1>6. ids \in Seq(Ids) /\ Len(ids) = K
    <2>1. ids \in [1 .. K -> Ids] /\ DOMAIN ids = 1 .. K
      BY <1>5
    <2> HIDE DEF ids
    <2>2. ids \in Seq(Ids)
      BY <1>3, <2>1, SeqDef
    <2>3. DOMAIN ids = 1 .. Len(ids) /\ Len(ids) \in Nat
      BY <2>2, SeqFacts
    <2> QED
      BY <1>3, <2>1, <2>2, <2>3
  <1> HIDE DEF ids
  <1>7. TEMPORARY_ID \in Ids
    BY DEF Ids
  <1>8. /\ R \in Seq(Ids) /\ Len(R) = K + 1 /\ R[K + 1] = TEMPORARY_ID
        /\ \A k \in 1 .. K : R[k] = ids[k]
    BY <1>4, <1>6, <1>7, AppendFacts
  <1>9. ASSUME NEW k \in 1 .. K PROVE R[k] \in DOMAIN Containers /\ R[k] \in Nat
    BY <1>1, <1>5, <1>8
  <1>10. ASSUME NEW n \in 1 .. L PROVE Run(p, n) \in 1 .. K /\ R[Run(p, n)] = p[n].id
    <2> DEFINE T == {i \in C : n <= i}
               j == Min(T)
    <2>0. n \in Nat
      BY <1>1
    <2>1. L \in T
      <3>1. L \in 1 .. L /\ n <= L
        BY <1>1
      <3>2. L \in C
        BY <3>1 DEF Changes, C, L
      <3> QED
        BY <3>1, <3>2
    <2>2. T \in SUBSET Nat /\ T # {}
      BY <1>2, <2>1
    <2> HIDE DEF T
    <2>3. j \in T /\ \A i \in T : j <= i
      BY <2>2, MinOfPlaces
    <2> HIDE DEF j
    <2>4. j \in C /\ n <= j /\ j \in Nat /\ j <= L
      BY <1>1, <1>2, <2>3 DEF T
    <2>5. ASSUME NEW i \in n .. j - 1 PROVE i \notin C /\ i \in 1 .. L - 1
      <3>1. i \in Nat /\ n <= i /\ ~(j <= i) /\ i \in 1 .. L - 1
        BY <1>1, <2>0, <2>4
      <3> QED
        BY <2>3, <3>1 DEF T
    <2>6. \A i \in n .. j - 1 : p[i].id = p[i + 1].id
      <3>1. ASSUME NEW i \in n .. j - 1 PROVE p[i].id = p[i + 1].id
        <4>1. i \notin C /\ i \in 1 .. L
          BY <1>1, <2>5
        <4> QED
          BY <4>1 DEF C, Changes, L
      <3> QED
        BY <3>1
    <2>7. p[j].id = p[n].id
      BY <2>0, <2>4, <2>6, SameContainer
    <2>8. Below(C, j) = Below(C, n)
      <3>1. ASSUME NEW i \in C, i < j PROVE i < n
        <4>1. i \in Nat /\ (n <= i => i \in n .. j - 1)
          BY <1>2, <2>0, <2>4, <3>1
        <4>2. ~(n <= i)
          BY <2>5, <4>1
        <4> QED
          BY <2>0, <4>1, <4>2
      <3>2. ASSUME NEW i \in C, i < n PROVE i < j
        <4>1. i \in Nat
          BY <1>2
        <4> QED
          BY <2>0, <2>4, <3>2, <4>1
      <3> QED
        BY <3>1, <3>2 DEF Below
    <2>9. Run(p, n) = Rank(C, j) + 1
      BY <2>8 DEF Run, Rank, C
    <2>10. Run(p, n) \in 1 .. K /\ order[Run(p, n)] = j
      BY <1>3, <2>4, <2>9
    <2> QED
      BY <1>5, <1>8, <2>7, <2>10
  <1>11. ASSUME L > 0 PROVE Run(p, 1) = 1
    <2>1. Below(C, 1) = {}
      <3>1. ASSUME NEW i \in C, i < 1 PROVE FALSE
        <4>1. i \in 1 .. L
          BY <1>2
        <4> QED
          BY <1>1, <3>1, <4>1
      <3> QED
        BY <3>1 DEF Below
    <2>2. Cardinality(Below(C, 1)) = 0
      BY <2>1, FS_EmptySet
    <2> QED
      BY <2>2 DEF Run, Rank, C
  <1>12. ASSUME NEW n \in 1 .. L - 1
         PROVE  Run(p, n + 1) = IF p[n].id = p[n + 1].id THEN Run(p, n) ELSE Run(p, n) + 1
    <2>0. n \in Nat /\ n \in 1 .. L /\ n # L
      BY <1>1
    <2>1. n \in C <=> p[n].id # p[n + 1].id
      BY <2>0 DEF C, Changes, L
    <2>2. Below(C, n + 1) = IF n \in C THEN Below(C, n) \cup {n} ELSE Below(C, n)
      <3>1. ASSUME NEW i \in C PROVE i < n + 1 <=> i < n \/ i = n
        <4>1. i \in Nat
          BY <1>2
        <4> QED
          BY <2>0, <4>1
      <3> QED
        BY <3>1 DEF Below
    <2>3. IsFiniteSet(Below(C, n)) /\ n \notin Below(C, n)
      <3>1. Below(C, n) \in SUBSET C /\ n \notin Below(C, n)
        BY <2>0 DEF Below
      <3> QED
        BY <1>2, <3>1, FS_Subset
    <2>4. Cardinality(Below(C, n) \cup {n}) = Cardinality(Below(C, n)) + 1
      BY <2>3, FS_AddElement
    <2> QED
      BY <2>1, <2>2, <2>4 DEF Run, Rank, C
  <1> QED
    BY <1>3, <1>8, <1>9, <1>10, <1>11, <1>12 DEF L

-----------------------------------------------------------------------------
(* The window of access records and its table.                             *)

\* The records of a backup: containers, and a mark at the end.
IsRecords(r) ==
  /\ r \in Seq(Ids) /\ Len(r) >= 1 /\ r[Len(r)] = TEMPORARY_ID
  /\ \A k \in 1 .. Len(r) - 1 : r[k] # TEMPORARY_ID

\* The numbers of the accesses of a container among the records behind lo up to hi.
Accesses(r, id, lo, hi) == {i - 1 : i \in {j \in lo + 1 .. hi : r[j] = id}}

\* The window w and the table t of records r, of which lo have been consumed.
WindowOf(r, w) ==
  /\ w \in [read : Nat, end : BOOLEAN, num : 0 .. WindowSize, no : Nat]
  /\ w.no = w.read /\ w.num <= w.read /\ w.read <= Len(r)
  /\ w.end <=> w.read = Len(r)

TableOf(r, t, lo, hi) ==
  /\ t = [id \in DOMAIN t |-> Ascending(Accesses(r, id, lo, hi))] /\ DOMAIN t \subseteq Ids
  /\ \A k \in lo + 1 .. hi : r[k] \in DOMAIN t

\* Accesses are numbers, and those of two ranges are together those of both.
LEMMA AccessesFacts ==
  ASSUME NEW r, NEW id, NEW lo \in Nat, NEW hi \in Nat
  PROVE  /\ Accesses(r, id, lo, hi) \in SUBSET Nat /\ IsFiniteSet(Accesses(r, id, lo, hi))
         /\ \A n \in Accesses(r, id, lo, hi) : n \in lo .. hi - 1 /\ r[n + 1] = id
         /\ \A n \in lo .. hi - 1 : r[n + 1] = id => n \in Accesses(r, id, lo, hi)
  <1> DEFINE A == Accesses(r, id, lo, hi)
  <1>1. ASSUME NEW n \in A PROVE n \in lo .. hi - 1 /\ r[n + 1] = id
    <2>1. PICK i \in lo + 1 .. hi : r[i] = id /\ n = i - 1
      BY DEF Accesses
    <2>2. n \in lo .. hi - 1 /\ n + 1 = i
      BY <2>1
    <2> QED
      BY <2>1, <2>2
  <1>2. ASSUME NEW n \in lo .. hi - 1, r[n + 1] = id PROVE n \in A
    <2>1. n + 1 \in lo + 1 .. hi /\ n = (n + 1) - 1
      OBVIOUS
    <2> QED
      BY <1>2, <2>1 DEF Accesses
  <1> HIDE DEF A
  <1>3. A \in SUBSET (lo .. hi - 1) /\ \A n \in lo .. hi - 1 : n \in Nat
    BY <1>1
  <1>4. IsFiniteSet(lo .. hi - 1)
    BY FS_Interval
  <1>5. IsFiniteSet(A)
    BY <1>3, <1>4, FS_Subset
  <1> QED
    BY <1>1, <1>2, <1>3, <1>5 DEF A

\* The accesses of two adjacent stretches of records, one after the other.
LEMMA AccessesJoin ==
  ASSUME NEW r, NEW id, NEW lo \in Nat, NEW m \in Nat, NEW hi \in Nat, lo <= m, m <= hi
  PROVE  Ascending(Accesses(r, id, lo, m)) \o Ascending(Accesses(r, id, m, hi))
           = Ascending(Accesses(r, id, lo, hi))
  <1> DEFINE A == Accesses(r, id, lo, m)
             B == Accesses(r, id, m, hi)
             C == Accesses(r, id, lo, hi)
  <1>1. /\ A \in SUBSET Nat /\ IsFiniteSet(A) /\ B \in SUBSET Nat /\ IsFiniteSet(B)
        /\ \A n \in A : n \in lo .. m - 1 /\ r[n + 1] = id
        /\ \A n \in lo .. m - 1 : r[n + 1] = id => n \in A
        /\ \A n \in B : n \in m .. hi - 1 /\ r[n + 1] = id
        /\ \A n \in m .. hi - 1 : r[n + 1] = id => n \in B
    BY AccessesFacts
  <1>2. /\ \A n \in C : n \in lo .. hi - 1 /\ r[n + 1] = id
        /\ \A n \in lo .. hi - 1 : r[n + 1] = id => n \in C
    BY AccessesFacts
  <1> HIDE DEF A, B, C
  <1>3. A \cup B = C
    <2>1. ASSUME NEW n \in A PROVE n \in C
      <3>1. n \in lo .. hi - 1 /\ r[n + 1] = id
        BY <1>1
      <3> QED
        BY <1>2, <3>1
    <2>2. ASSUME NEW n \in B PROVE n \in C
      <3>1. n \in lo .. hi - 1 /\ r[n + 1] = id
        BY <1>1
      <3> QED
        BY <1>2, <3>1
    <2>3. ASSUME NEW n \in C PROVE n \in A \cup B
      <3>1. n \in lo .. hi - 1 /\ r[n + 1] = id
        BY <1>2
      <3>2. n \in lo .. m - 1 \/ n \in m .. hi - 1
        BY <3>1
      <3> QED
        BY <1>1, <3>1, <3>2
    <2> QED
      BY <2>1, <2>2, <2>3
  <1>4. ASSUME NEW s \in A, NEW u \in B PROVE s < u
    <2>1. s \in lo .. m - 1 /\ u \in m .. hi - 1
      BY <1>1
    <2> QED
      BY <2>1
  <1>5. Ascending(A) \o Ascending(B) = Ascending(A \cup B)
    BY <1>1, <1>4, AscendingJoin
  <1> QED
    BY <1>3, <1>5 DEF A, B, C

\* optimal_cache_window_fill: more records, none of them consumed, and at least one
\* that is not, or the end.
LEMMA FillWindow ==
  ASSUME IsRecords(records), NEW w, WindowOf(records, w)
  PROVE  /\ WindowOf(records, Filled(w)) /\ w.read <= Filled(w).read
         /\ Filled(w).read - Filled(w).num = w.read - w.num
         /\ w.num < WindowSize => Filled(w).num >= 1 \/ Filled(w).read = Len(records)
         /\ (w.num = 0 /\ w.read < Len(records)) => Filled(w).num >= 1
  <1> DEFINE M == Len(records)
             k == Min({WindowSize - w.num, M - w.read})
             x == Filled(w)
  <1>1. /\ M \in Nat /\ w.read \in 0 .. M /\ w.num \in 0 .. w.read /\ w.num <= WindowSize
        /\ w.no = w.read /\ WindowSize \in Nat \ {0} /\ w.end \in BOOLEAN
        /\ w.end <=> w.read = M
    BY SeqFacts, RestoreAssumption DEF IsRecords, WindowOf
  <1>2. CASE w.end
    <2>1. x = w
      BY <1>2 DEF Filled
    <2> QED
      BY <1>1, <1>2, <2>1
  <1>3. CASE ~w.end
    <2>1. x = [read |-> w.read + k, end |-> records[w.read + k] = TEMPORARY_ID,
               num |-> w.num + k, no |-> w.no + k]
      BY <1>3 DEF Filled
    <2>2. k = IF WindowSize - w.num <= M - w.read THEN WindowSize - w.num ELSE M - w.read
      <3>1. WindowSize - w.num \in Int /\ M - w.read \in Int
        BY <1>1
      <3> HIDE DEF M
      <3> QED
        BY <3>1, MinMaxOfTwo
    <2> HIDE DEF k
    <2>3. k \in Nat /\ w.read + k <= M /\ w.num + k <= WindowSize /\ w.read < M
      BY <1>1, <1>3, <2>2
    <2>4. /\ x.read = w.read + k /\ x.num = w.num + k /\ x.no = w.no + k
          /\ x.end = (records[w.read + k] = TEMPORARY_ID) /\ x.end \in BOOLEAN
      BY <2>1
    <2>5. (w.read + k = M => x.end) /\ (w.read + k # M /\ w.read + k >= 1 => ~x.end)
      <3>1. records[M] = TEMPORARY_ID /\ \A j \in 1 .. M - 1 : records[j] # TEMPORARY_ID
        BY DEF IsRecords
      <3>2. w.read + k # M /\ w.read + k >= 1 => w.read + k \in 1 .. M - 1
        BY <1>1, <2>3
      <3> HIDE DEF M, x
      <3> QED
        BY <2>4, <3>1, <3>2
    <2>6. w.read + k >= 1
      <3>1. CASE w.num = WindowSize
        BY <1>1, <2>3, <3>1
      <3>2. CASE w.num # WindowSize
        BY <1>1, <1>3, <2>2, <2>3, <3>2
      <3> QED
        BY <3>1, <3>2
    <2>7. x \in [read : Nat, end : BOOLEAN, num : 0 .. WindowSize, no : Nat]
      <3>1. /\ w.read + k \in Nat /\ w.num + k \in 0 .. WindowSize /\ w.no + k \in Nat
            /\ (records[w.read + k] = TEMPORARY_ID) \in BOOLEAN
        BY <1>1, <2>3
      <3> QED
        BY <2>1, <3>1
    <2> HIDE DEF x
    <2>8. /\ x.no = x.read /\ x.num <= x.read /\ x.read <= M /\ w.read <= x.read
          /\ x.read - x.num = w.read - w.num
      BY <1>1, <2>3, <2>4
    <2>9. x.end <=> x.read = M
      BY <2>4, <2>5, <2>6
    <2>10. w.num < WindowSize => k >= 1
      BY <1>1, <1>3, <2>2
    <2>11. w.num < WindowSize => x.num >= 1
      BY <1>1, <2>3, <2>4, <2>10
    <2>12. w.num = 0 => w.num < WindowSize
      BY <1>1
    <2> QED
      BY <2>7, <2>8, <2>9, <2>11, <2>12 DEF WindowOf, M, x
  <1> QED
    BY <1>1, <1>2, <1>3

\* The table has the numbers of the new records behind the old ones.
LEMMA FillTable ==
  ASSUME IsRecords(records), NEW w, WindowOf(records, w),
         NEW t, NEW lo \in Nat, lo <= w.read, TableOf(records, t, lo, w.read)
  PROVE  /\ TableOf(records, TableFilled(t, w), lo, Filled(w).read)
         /\ DOMAIN t \subseteq DOMAIN TableFilled(t, w)
  <1> DEFINE m == w.read
             hi == Filled(w).read
             new == m + 1 .. hi
             x == TableFilled(t, w)
  <1>1. m \in Nat /\ hi \in Nat /\ m <= hi /\ hi <= Len(records) /\ w.no = m
    <2>1. WindowOf(records, Filled(w)) /\ w.read <= Filled(w).read
      BY FillWindow
    <2> QED
      BY <2>1 DEF WindowOf
  <1>2. \A k \in 1 .. Len(records) : records[k] \in Ids
    BY SeqFacts DEF IsRecords
  <1>3. /\ t = [id \in DOMAIN t |-> Ascending(Accesses(records, id, lo, m))]
        /\ DOMAIN t \subseteq Ids /\ \A k \in lo + 1 .. m : records[k] \in DOMAIN t
    BY DEF TableOf
  <1> DEFINE Numbers(id) == {w.no + i - w.read - 1 : i \in {j \in new : records[j] = id}}
             Queue(id) == IF id \in DOMAIN t THEN t[id] ELSE <<>>
             D == DOMAIN t \cup {records[i] : i \in new}
  <1>4. x = [id \in D |-> Queue(id) \o Ascending(Numbers(id))]
    BY DEF TableFilled
  <1> HIDE DEF x, m, hi
  <1>5. ASSUME NEW id PROVE Numbers(id) = Accesses(records, id, m, hi)
    <2>1. \A i \in new : w.no + i - w.read - 1 = i - 1
      BY <1>1 DEF m
    <2> QED
      BY <2>1 DEF Accesses
  <1>6. ASSUME NEW id PROVE Queue(id) = Ascending(Accesses(records, id, lo, m))
    <2>1. CASE id \in DOMAIN t
      BY <1>3, <2>1
    <2>2. CASE id \notin DOMAIN t
      <3>1. Accesses(records, id, lo, m) = {}
        BY <1>3, <2>2 DEF Accesses
      <3> QED
        BY <2>2, <3>1, AscendingEmpty
    <2> QED
      BY <2>1, <2>2
  <1> HIDE DEF Queue, Numbers, D, new
  <1>7. ASSUME NEW id
        PROVE  Queue(id) \o Ascending(Numbers(id)) = Ascending(Accesses(records, id, lo, hi))
    <2>1. Ascending(Accesses(records, id, lo, m)) \o Ascending(Accesses(records, id, m, hi))
            = Ascending(Accesses(records, id, lo, hi))
      BY <1>1, AccessesJoin DEF m
    <2> QED
      BY <1>5, <1>6, <2>1
  <1>8. DOMAIN x = D /\ x = [id \in D |-> Ascending(Accesses(records, id, lo, hi))]
    BY <1>4, <1>7
  <1>9. D \subseteq Ids
    <2>1. \A i \in new : i \in 1 .. Len(records)
      BY <1>1 DEF new
    <2> QED
      BY <1>2, <1>3, <2>1 DEF D
  <1>10. ASSUME NEW k \in lo + 1 .. hi PROVE records[k] \in D
    <2>1. k \in lo + 1 .. m \/ k \in m + 1 .. hi
      BY <1>1
    <2> QED
      BY <1>3, <2>1 DEF D, new
  <1>11. DOMAIN t \subseteq D
    BY DEF D
  <1> QED
    BY <1>8, <1>9, <1>10, <1>11 DEF TableOf, x, hi

\* A record is consumed: its number leaves the queue of its container.
LEMMA SlideTable ==
  ASSUME NEW r, NEW t, NEW lo \in Nat, NEW hi \in Nat, lo + 1 <= hi,
         TableOf(r, t, lo, hi), NEW id, id = r[lo + 1]
  PROVE  /\ id \in DOMAIN t /\ t[id] # <<>>
         /\ TableOf(r, [t EXCEPT ![id] = Tail(@)], lo + 1, hi)
  <1> DEFINE x == [t EXCEPT ![id] = Tail(@)]
             A(i) == Accesses(r, i, lo, hi)
             B(i) == Accesses(r, i, lo + 1, hi)
  <1>1. /\ t = [i \in DOMAIN t |-> Ascending(A(i))] /\ DOMAIN t \subseteq Ids
        /\ \A k \in lo + 1 .. hi : r[k] \in DOMAIN t
    BY DEF TableOf
  <1>2. lo + 1 \in lo + 1 .. hi /\ lo + 1 \in Nat /\ lo \in lo .. hi - 1
    OBVIOUS
  <1>3. id \in DOMAIN t
    BY <1>1, <1>2
  <1>4. ASSUME NEW i
        PROVE  /\ A(i) \in SUBSET Nat /\ IsFiniteSet(A(i))
               /\ B(i) = A(i) \ {lo} /\ (lo \in A(i) <=> i = id)
               /\ \A n \in A(i) : lo <= n
    <2>1. /\ A(i) \in SUBSET Nat /\ IsFiniteSet(A(i))
          /\ \A n \in A(i) : n \in lo .. hi - 1 /\ r[n + 1] = i
          /\ \A n \in lo .. hi - 1 : r[n + 1] = i => n \in A(i)
      BY AccessesFacts
    <2>2. /\ \A n \in B(i) : n \in lo + 1 .. hi - 1 /\ r[n + 1] = i
          /\ \A n \in lo + 1 .. hi - 1 : r[n + 1] = i => n \in B(i)
      BY <1>2, AccessesFacts
    <2> HIDE DEF A, B
    <2>3. ASSUME NEW n \in B(i) PROVE n \in A(i) \ {lo}
      <3>1. n \in lo + 1 .. hi - 1 /\ r[n + 1] = i
        BY <2>2
      <3>2. n \in lo .. hi - 1 /\ n # lo
        BY <3>1
      <3> QED
        BY <2>1, <3>1, <3>2
    <2>4. ASSUME NEW n \in A(i) \ {lo} PROVE n \in B(i)
      <3>1. n \in lo .. hi - 1 /\ r[n + 1] = i /\ n # lo
        BY <2>1
      <3>2. n \in lo + 1 .. hi - 1
        BY <3>1
      <3> QED
        BY <2>2, <3>1, <3>2
    <2>5. B(i) = A(i) \ {lo}
      BY <2>3, <2>4
    <2>6. lo \in A(i) <=> i = id
      BY <1>2, <2>1
    <2>7. \A n \in A(i) : lo <= n
      BY <2>1
    <2> QED
      BY <2>1, <2>5, <2>6, <2>7
  <1> HIDE DEF A, B
  <1>5. t[id] = Ascending(A(id)) /\ t[id] # <<>> /\ Tail(t[id]) = Ascending(B(id))
    <2>1. lo \in A(id) /\ B(id) = A(id) \ {lo}
      BY <1>4
    <2>2. Ascending(A(id)) # <<>> /\ Tail(Ascending(A(id))) = Ascending(A(id) \ {lo})
      BY <1>4, <2>1, AscendingTail
    <2> QED
      BY <1>1, <1>3, <2>1, <2>2
  <1>6. ASSUME NEW i \in DOMAIN t, i # id PROVE t[i] = Ascending(B(i))
    <2>1. lo \notin A(i) /\ B(i) = A(i) \ {lo}
      BY <1>4, <1>6
    <2>2. B(i) = A(i)
      BY <2>1
    <2> QED
      BY <1>1, <2>2
  <1>7. DOMAIN x = DOMAIN t /\ x = [i \in DOMAIN t |-> IF i = id THEN Tail(t[i]) ELSE t[i]]
    <2>1. x = [i \in DOMAIN t |-> IF i = id THEN Tail(t[id]) ELSE t[i]]
      BY <1>1
    <2> QED
      BY <2>1
  <1> HIDE DEF x
  <1>8. x = [i \in DOMAIN x |-> Ascending(B(i))]
    BY <1>5, <1>6, <1>7
  <1>9. \A k \in (lo + 1) + 1 .. hi : r[k] \in DOMAIN x
    BY <1>1, <1>7
  <1> QED
    BY <1>1, <1>3, <1>5, <1>7, <1>8, <1>9 DEF TableOf, x, B

\* A container that is not asked for any more leaves the table.
LEMMA DropTable ==
  ASSUME NEW r, NEW t, NEW lo \in Nat, NEW hi \in Nat, TableOf(r, t, lo, hi), NEW id
  PROVE  LET D == DOMAIN t \ {i \in {id} : t[i] = <<>>}
         IN TableOf(r, [i \in D |-> t[i]], lo, hi)
  <1> DEFINE D == DOMAIN t \ {i \in {id} : t[i] = <<>>}
             x == [i \in D |-> t[i]]
  <1>1. /\ t = [i \in DOMAIN t |-> Ascending(Accesses(r, i, lo, hi))] /\ DOMAIN t \subseteq Ids
        /\ \A k \in lo + 1 .. hi : r[k] \in DOMAIN t
    BY DEF TableOf
  <1>2. ASSUME NEW k \in lo + 1 .. hi PROVE r[k] \in D
    <2>1. r[k] \in DOMAIN t
      BY <1>1
    <2>2. t[r[k]] # <<>>
      <3> DEFINE A == Accesses(r, r[k], lo, hi)
      <3>1. A \in SUBSET Nat /\ IsFiniteSet(A)
        BY AccessesFacts
      <3>2. k - 1 \in A
        BY DEF Accesses
      <3> HIDE DEF A
      <3>3. Ascending(A) # <<>>
        BY <3>1, <3>2, AscendingEmpty
      <3> QED
        BY <1>1, <2>1, <3>3 DEF A
    <2> QED
      BY <2>1, <2>2
  <1>3. DOMAIN x = D /\ x = [i \in D |-> Ascending(Accesses(r, i, lo, hi))] /\ D \subseteq Ids
    BY <1>1
  <1> QED
    BY <1>2, <1>3 DEF TableOf

\* The number at the head of the queue of a container is that of its next access.
LEMMA NextAccessFacts ==
  ASSUME NEW t, NEW lo \in Nat, NEW hi \in Nat, hi <= Len(records), IsRecords(records),
         TableOf(records, t, lo, hi), NEW id \in DOMAIN t
  PROVE  /\ t[id] \in Seq(Nat) /\ NextAccess(t, id) \in 0 .. Len(records)
         /\ Min({i \in lo + 1 .. hi : records[i] = id} \cup {Len(records) + 1})
              = NextAccess(t, id) + 1
  <1> DEFINE A == Accesses(records, id, lo, hi)
             I == {i \in lo + 1 .. hi : records[i] = id}
             M == Len(records)
             U == I \cup {M + 1}
  <1>1. M \in Nat /\ t[id] = Ascending(A)
    BY SeqFacts DEF IsRecords, TableOf
  <1>2. /\ A \in SUBSET Nat /\ IsFiniteSet(A)
        /\ \A n \in A : n \in lo .. hi - 1 /\ records[n + 1] = id
        /\ \A n \in lo .. hi - 1 : records[n + 1] = id => n \in A
    BY AccessesFacts
  <1>3. U \in SUBSET Nat /\ U # {}
    BY <1>1
  <1> HIDE DEF A, M
  <1>4. Ascending(A) \in Seq(A) /\ (Ascending(A) = <<>> <=> A = {})
    BY <1>2, AscendingFacts, AscendingEmpty
  <1>5. t[id] \in Seq(Nat)
    <2>1. \A k \in 1 .. Len(Ascending(A)) : Ascending(A)[k] \in Nat
      BY <1>2, <1>4, SeqFacts
    <2> QED
      BY <1>1, <1>4, <2>1, SeqOfSubset
  <1>6. Min(U) \in U /\ \A j \in U : Min(U) <= j
    BY <1>3, MinOfPlaces
  <1>7. CASE A = {}
    <2>1. NextAccess(t, id) = M
      BY <1>1, <1>4, <1>7 DEF NextAccess, M
    <2>2. I = {}
      <3>1. ASSUME NEW i \in I PROVE FALSE
        <4>1. i - 1 \in lo .. hi - 1 /\ (i - 1) + 1 = i /\ records[i] = id
          OBVIOUS
        <4> QED
          BY <1>2, <1>7, <4>1
      <3> QED
        BY <3>1
    <2>3. U = {M + 1}
      BY <2>2
    <2> QED
      BY <1>1, <1>5, <1>6, <2>1, <2>3 DEF M
  <1>8. CASE A # {}
    <2> DEFINE n == Min(A)
    <2>1. n \in A /\ \A m \in A : n <= m
      BY <1>2, <1>8, MinOfPlaces
    <2> HIDE DEF n
    <2>2. Head(Ascending(A)) = n
      BY <1>2, <2>1, AscendingTail
    <2>3. NextAccess(t, id) = n
      BY <1>1, <1>4, <1>8, <2>2 DEF NextAccess
    <2>4. n \in lo .. hi - 1 /\ records[n + 1] = id
      BY <1>2, <2>1
    <2>5. n + 1 \in I /\ n + 1 \in U
      BY <2>4
    <2>6. \A j \in U : n + 1 <= j
      <3>1. ASSUME NEW j \in I PROVE n + 1 <= j
        <4>1. j - 1 \in lo .. hi - 1 /\ (j - 1) + 1 = j /\ records[j] = id
          OBVIOUS
        <4>2. j - 1 \in A
          BY <1>2, <4>1
        <4> QED
          BY <2>1, <2>4, <4>1, <4>2
      <3>2. n + 1 <= M + 1
        BY <1>1, <2>4 DEF M
      <3> QED
        BY <3>1, <3>2
    <2>7. Min(U) \in Nat /\ n + 1 \in Nat /\ Min(U) <= n + 1 /\ n + 1 <= Min(U)
      BY <1>3, <1>6, <2>4, <2>5, <2>6
    <2>8. Min(U) = n + 1
      BY <2>7
    <2>9. n \in 0 .. M
      BY <1>1, <2>4 DEF M
    <2> QED
      BY <1>5, <2>3, <2>8, <2>9 DEF M
  <1> QED
    BY <1>7, <1>8

\* What may go is cached, and nothing that is cached is asked for later.
LEMMA CandidatesFacts ==
  ASSUME NEW t, NEW lo \in Nat, NEW hi \in Nat, hi <= Len(records), IsRecords(records),
         TableOf(records, t, lo, hi), sorted \subseteq DOMAIN t, IsFiniteSet(sorted),
         sorted # {}, NEW ht \in Candidates(t)
  PROVE  /\ ht \subseteq sorted /\ ht # {}
         /\ \A v \in ht : \A o \in sorted : NextAccess(t, o) <= NextAccess(t, v)
  <1> DEFINE M == Len(records)
             unused == {id \in sorted : t[id] = <<>>}
             Latest(id) == \A o \in sorted : NextAccess(t, o) <= NextAccess(t, id)
  <1>1. M \in Nat
    BY SeqFacts DEF IsRecords
  <1>2. \A id \in sorted : NextAccess(t, id) \in 0 .. M
    BY NextAccessFacts
  <1> HIDE DEF M
  <1>3. CASE unused # {}
    <2>1. ht \in SUBSET unused /\ Cardinality(ht) = Min({11, Cardinality(unused)})
      BY <1>3 DEF Candidates
    <2>2. IsFiniteSet(unused) /\ Cardinality(unused) \in Nat /\ Cardinality(unused) # 0
      <3>1. unused \in SUBSET sorted
        OBVIOUS
      <3>2. IsFiniteSet(unused)
        BY <3>1, FS_Subset
      <3> QED
        BY <1>3, <3>2, FS_CardinalityType, FS_EmptySet
    <2>3. Min({11, Cardinality(unused)}) # 0
      BY <2>2, MinMaxOfTwo
    <2>4. ht # {}
      BY <2>1, <2>3, FS_EmptySet
    <2>5. \A v \in ht : NextAccess(t, v) = M
      BY <2>1 DEF NextAccess, M
    <2>6. ASSUME NEW v \in ht, NEW o \in sorted PROVE NextAccess(t, o) <= NextAccess(t, v)
      BY <1>1, <1>2, <2>5
    <2> QED
      BY <2>1, <2>4, <2>6
  <1>4. CASE unused = {}
    <2>1. ht = {CHOOSE id \in sorted : Latest(id)}
      BY <1>4 DEF Candidates
    <2>2. \E id \in sorted : Latest(id)
      <3> DEFINE T == {NextAccess(t, id) : id \in sorted}
      <3>1. T \in SUBSET (0 .. M) /\ T # {}
        BY <1>2
      <3>2. PICK m \in T : \A j \in T : j <= m
        BY <1>1, <3>1, LastPlace
      <3>3. PICK id \in sorted : m = NextAccess(t, id)
        BY <3>2
      <3> QED
        BY <3>2, <3>3
    <2>3. \E id \in sorted : ht = {id} /\ Latest(id)
      BY <2>1, <2>2
    <2> QED
      BY <2>3
  <1> QED
    BY <1>3, <1>4

\* The state of the optimal scheme when n of the pointers p have been retrieved: the
\* records of the runs so far are consumed.
OptAt(p, n, w, t, last, srt, c) ==
  /\ WindowOf(records, w) /\ TableOf(records, t, w.read - w.num, w.read)
  /\ IF n = 0 THEN w.read - w.num = 0 /\ last = TEMPORARY_ID
     ELSE /\ w.read - w.num = Run(p, n) /\ last = p[n].id
          /\ c # <<>> /\ c[1] = last
  /\ c \in Seq(DOMAIN Containers) /\ IsInjective(c) /\ Len(c) <= CacheSize
  /\ srt = ToSet(c) /\ srt \subseteq DOMAIN t

\* The window and the table when a chunk in container id is asked for: filled if a
\* new run starts and half of the window is free, and without the record of the run.
FilledWindow(w, id, last) ==
  IF id # last /\ w.num * 2 <= WindowSize THEN Filled(w) ELSE w

FilledTable(t, w, id, last) ==
  IF id # last /\ w.num * 2 <= WindowSize THEN TableFilled(t, w) ELSE t

SlidWindow(w, id, last) ==
  IF id # last THEN [FilledWindow(w, id, last) EXCEPT !.num = @ - 1] ELSE FilledWindow(w, id, last)

SlidTable(t, w, id, last) ==
  IF id # last /\ FilledTable(t, w, id, last)[id] # <<>>
    THEN [FilledTable(t, w, id, last) EXCEPT ![id] = Tail(@)] ELSE FilledTable(t, w, id, last)

\* What the next pointer does to the window and the table.
LEMMA OptSlides ==
  ASSUME NEW p \in Seq(Pointers), records = AccessRecords(p), NEW n \in 0 .. Len(p) - 1,
         NEW w, NEW t, NEW last, NEW srt, NEW c, OptAt(p, n, w, t, last, srt, c),
         NEW id, id = p[n + 1].id,
         NEW y, y = SlidTable(t, w, id, last), NEW z, z = SlidWindow(w, id, last)
  PROVE  /\ WindowOf(records, z) /\ TableOf(records, y, z.read - z.num, z.read)
         /\ z.read - z.num = Run(p, n + 1) /\ Run(p, n + 1) \in Nat
         /\ srt \subseteq DOMAIN y /\ id \in DOMAIN y
         /\ z.read \in Nat /\ z.read <= Len(records)
  <1> DEFINE K == Cardinality(Changes(p))
             lo == w.read - w.num
             fills == id # last /\ w.num * 2 <= WindowSize
             x == FilledWindow(w, id, last)
             full == FilledTable(t, w, id, last)
  <1>0. /\ x = IF fills THEN Filled(w) ELSE w
        /\ full = IF fills THEN TableFilled(t, w) ELSE t
        /\ y = IF id # last /\ full[id] # <<>> THEN [full EXCEPT ![id] = Tail(@)] ELSE full
        /\ z = IF id # last THEN [x EXCEPT !.num = @ - 1] ELSE x
    BY DEF FilledWindow, FilledTable, SlidWindow, SlidTable
  <1> HIDE DEF x, full
  <1>1. /\ K \in Nat /\ records \in Seq(Ids) /\ Len(records) = K + 1
        /\ records[K + 1] = TEMPORARY_ID
        /\ \A k \in 1 .. K : records[k] \in DOMAIN Containers /\ records[k] \in Nat
        /\ \A i \in 1 .. Len(p) : Run(p, i) \in 1 .. K /\ records[Run(p, i)] = p[i].id
        /\ Len(p) > 0 => Run(p, 1) = 1
        /\ \A i \in 1 .. Len(p) - 1 :
             Run(p, i + 1) = IF p[i].id = p[i + 1].id THEN Run(p, i) ELSE Run(p, i) + 1
    BY RecordsFacts
  <1> HIDE DEF K
  <1>2. IsRecords(records)
    <2>1. \A k \in 1 .. K : records[k] # TEMPORARY_ID
      BY <1>1 DEF TEMPORARY_ID
    <2> QED
      BY <1>1, <2>1 DEF IsRecords
  <1>3. /\ Len(p) \in Nat /\ n \in Nat /\ n + 1 \in 1 .. Len(p) /\ id \in Nat /\ id # TEMPORARY_ID
        /\ \A i \in 1 .. Len(p) : p[i].id \in Nat
    <2>1. Len(p) \in Nat /\ \A i \in 1 .. Len(p) : p[i] \in Pointers
      BY SeqFacts
    <2>2. \A q \in Pointers : q.id \in Nat
      BY RestoreAssumption DEF Pointers
    <2>3. Len(p) \in Nat /\ n \in Nat /\ n + 1 \in 1 .. Len(p) /\ \A i \in 1 .. Len(p) : p[i].id \in Nat
      BY <2>1, <2>2
    <2>4. id \in Nat
      BY <2>3
    <2> QED
      BY <2>3, <2>4 DEF TEMPORARY_ID
  <1>4. /\ WindowOf(records, w) /\ TableOf(records, t, lo, w.read) /\ srt \subseteq DOMAIN t
        /\ n = 0 => lo = 0 /\ last = TEMPORARY_ID
        /\ n # 0 => /\ lo = Run(p, n) /\ last = p[n].id /\ c # <<>> /\ c[1] = last
        /\ c \in Seq(DOMAIN Containers) /\ srt = ToSet(c)
    BY DEF OptAt
  <1>5. /\ w.read \in 0 .. K + 1 /\ w.num \in 0 .. w.read /\ w.num <= WindowSize
        /\ WindowSize \in Nat \ {0} /\ lo \in Nat /\ lo <= w.read
        /\ w \in [read : Nat, end : BOOLEAN, num : 0 .. WindowSize, no : Nat]
    BY <1>1, <1>4, RestoreAssumption, SMTT(60) DEF WindowOf
  <1>6. IF id # last THEN Run(p, n + 1) = lo + 1 ELSE Run(p, n + 1) = lo
    <2>1. CASE n = 0
      <3>1. id # last /\ lo = 0 /\ Run(p, 1) = 1
        BY <1>1, <1>3, <1>4, <2>1
      <3> QED
        BY <2>1, <3>1
    <2>2. CASE n # 0
      <3>1. n \in 1 .. Len(p) - 1
        BY <1>3, <2>2
      <3> QED
        BY <1>1, <1>4, <2>2, <3>1
    <2> QED
      BY <2>1, <2>2
  <1>7. Run(p, n + 1) \in 1 .. K /\ records[Run(p, n + 1)] = id
    BY <1>1, <1>3
  <1>8. CASE id = last
    <2>1. z = w /\ y = t
      BY <1>0, <1>8
    <2>2. n # 0 /\ c # <<>> /\ c[1] = id
      BY <1>3, <1>4, <1>8
    <2>3. id \in srt
      <3>1. 1 \in DOMAIN c
        BY <1>4, <2>2, SeqFacts
      <3> QED
        BY <1>4, <2>2, <3>1 DEF ToSet
    <2>4. Run(p, n + 1) = lo
      BY <1>6, <1>8
    <2>5. z.read = w.read /\ z.num = w.num /\ lo \in Nat /\ w.read \in Nat /\ w.read <= Len(records)
      <3>1. z.read = w.read /\ z.num = w.num
        BY <2>1
      <3> HIDE DEF lo
      <3> QED
        BY <1>1, <1>5, <3>1
    <2>6. WindowOf(records, z) /\ TableOf(records, y, z.read - z.num, z.read)
      BY <1>4, <2>1
    <2>7. z.read - z.num = Run(p, n + 1) /\ Run(p, n + 1) \in Nat
      BY <2>4, <2>5
    <2>8. srt \subseteq DOMAIN y /\ id \in DOMAIN y
      BY <1>4, <2>1, <2>3
    <2> QED
      BY <2>5, <2>6, <2>7, <2>8
  <1>9. CASE id # last
    <2>1. /\ WindowOf(records, x) /\ w.read <= x.read /\ x.read - x.num = lo
          /\ TableOf(records, full, lo, x.read) /\ DOMAIN t \subseteq DOMAIN full
          /\ lo + 1 <= x.read
      <3>1. CASE fills
        <4>1. /\ WindowOf(records, x) /\ w.read <= x.read /\ x.read - x.num = lo
              /\ w.num < WindowSize => x.num >= 1 \/ x.read = Len(records)
          BY <1>0, <1>2, <1>4, <3>1, FillWindow
        <4>2. TableOf(records, full, lo, x.read) /\ DOMAIN t \subseteq DOMAIN full
          BY <1>0, <1>2, <1>4, <1>5, <3>1, FillTable
        <4>3. w.num < WindowSize
          BY <1>5, <3>1
        <4>4. x.num \in Nat /\ x.read \in Nat
          BY <4>1 DEF WindowOf
        <4>5. lo + 1 <= x.read
          <5>1. CASE x.num >= 1
            BY <1>5, <4>1, <4>4, <5>1
          <5>2. CASE x.read = Len(records)
            <6>1. lo + 1 \in 1 .. K
              BY <1>6, <1>7, <1>9
            <6> QED
              BY <1>1, <5>2, <6>1
          <5> QED
            BY <4>1, <4>3, <5>1, <5>2
        <4> QED
          BY <4>1, <4>2, <4>5
      <3>2. CASE ~fills
        <4>1. x = w /\ full = t /\ w.num >= 1
          BY <1>0, <1>5, <1>9, <3>2
        <4> QED
          BY <1>4, <1>5, <4>1
      <3> QED
        BY <3>1, <3>2
    <2>2. /\ x \in [read : Nat, end : BOOLEAN, num : 0 .. WindowSize, no : Nat]
          /\ x.no = x.read /\ x.num <= x.read /\ x.read <= Len(records)
          /\ x.end <=> x.read = Len(records)
      BY <2>1 DEF WindowOf
    <2>3. x.read \in Nat /\ x.num \in 1 .. WindowSize
      <3>1. x.num \in 0 .. WindowSize /\ x.read \in Nat
        BY <2>2
      <3>2. x.num # 0
        <4> HIDE DEF lo
        <4> QED
          BY <1>5, <2>1, <3>1
      <3>3. WindowSize \in Nat
        BY <1>5
      <3> QED
        BY <3>1, <3>2, <3>3
    <2>4. id = records[lo + 1] /\ Run(p, n + 1) = lo + 1
      BY <1>6, <1>7, <1>9
    <2>5. /\ id \in DOMAIN full /\ full[id] # <<>>
          /\ TableOf(records, [full EXCEPT ![id] = Tail(@)], lo + 1, x.read)
      BY <1>5, <2>1, <2>3, <2>4, SlideTable
    <2>6. y = [full EXCEPT ![id] = Tail(@)] /\ DOMAIN y = DOMAIN full
      BY <1>0, <1>9, <2>5
    <2>7. z = [x EXCEPT !.num = @ - 1]
      BY <1>0, <1>9
    <2>8. z.read = x.read /\ z.num = x.num - 1 /\ z.no = x.no /\ z.end = x.end
      BY <2>2, <2>7
    <2>9. z \in [read : Nat, end : BOOLEAN, num : 0 .. WindowSize, no : Nat]
      <3>1. x.num - 1 \in 0 .. WindowSize
        BY <1>5, <2>3
      <3> QED
        BY <2>2, <2>7, <3>1
    <2>10. z.read - z.num = lo + 1 /\ z.num <= z.read
      <3>1. x.read - x.num = lo /\ x.num <= x.read /\ x.read \in Nat /\ x.num \in Nat
        BY <2>1, <2>2, <2>3
      <3>2. \A a, b \in Nat : a - (b - 1) = (a - b) + 1 /\ (b <= a => b - 1 <= a)
        OBVIOUS
      <3>3. x.read - (x.num - 1) = (x.read - x.num) + 1 /\ x.num - 1 <= x.read
        BY <3>1, <3>2
      <3>4. z.read - z.num = x.read - (x.num - 1)
        BY <2>8
      <3> HIDE DEF lo
      <3> QED
        BY <2>8, <3>1, <3>3, <3>4
    <2>11. WindowOf(records, z)
      BY <2>2, <2>8, <2>9, <2>10 DEF WindowOf
    <2>12. TableOf(records, y, z.read - z.num, z.read)
      BY <2>5, <2>6, <2>8, <2>10
    <2>13. Run(p, n + 1) \in Nat
      BY <1>7
    <2>14. srt \subseteq DOMAIN y /\ id \in DOMAIN y
      BY <1>4, <2>1, <2>5, <2>6
    <2>15. z.read - z.num = Run(p, n + 1) /\ z.read \in Nat /\ z.read <= Len(records)
      BY <2>2, <2>3, <2>4, <2>8, <2>10
    <2> QED
      BY <2>11, <2>12, <2>13, <2>14, <2>15
  <1> QED
    BY <1>8, <1>9

-----------------------------------------------------------------------------
(* The reader.                                                             *)

\* How many chunks are among the first n items, and which pointers they are.
Count(r, n) == Cardinality({j \in 1 .. n : ~IsMark(Fed(r, j))})

Counted(r, n) ==
  \A k \in 1 .. n : ~IsMark(Fed(r, k)) =>
    Count(r, k) \in 1 .. Len(FlattenSeq(r)) /\ Fed(r, k) = Chunk(FlattenSeq(r)[Count(r, k)])

\* How many items have been pushed, and how many pointers have been read, when the
\* reader is at item i of file f.
PushedTo(r, f, i) == FeedStart(r, f) + i
ReadTo(r, f, i) == Starts(r)[f] + (IF i = 0 THEN 0 ELSE i - 1)

\* The place of the reader in the files and, at offset o, in the recipe.
Reading(r, f, i, o) ==
  /\ f \in 1 .. Len(r) + 1 /\ i \in Nat
  /\ IF f = Len(r) + 1 THEN i = 0 ELSE i <= Len(r[f]) + 1
  /\ o = IF ReadTo(r, f, i) = 0 THEN 0 ELSE Place(ReadTo(r, f, i))
  /\ Count(r, PushedTo(r, f, i)) = ReadTo(r, f, i) /\ Counted(r, PushedTo(r, f, i))

\* One item more is a chunk more, or not.
LEMMA CountFacts ==
  ASSUME NEW r, NEW n \in Nat
  PROVE  /\ Count(r, 0) = 0 /\ Count(r, n) \in Nat
         /\ Count(r, n + 1) = IF IsMark(Fed(r, n + 1)) THEN Count(r, n) ELSE Count(r, n) + 1
  <1> DEFINE S(k) == {j \in 1 .. k : ~IsMark(Fed(r, j))}
  <1>1. S(0) = {}
    OBVIOUS
  <1>2. IsFiniteSet(S(n)) /\ n + 1 \notin S(n)
    <2>1. S(n) \in SUBSET (1 .. n) /\ IsFiniteSet(1 .. n)
      BY FS_Interval
    <2>2. n + 1 \notin 1 .. n
      OBVIOUS
    <2> HIDE DEF S
    <2> QED
      BY <2>1, <2>2, FS_Subset
  <1>3. S(n + 1) = IF IsMark(Fed(r, n + 1)) THEN S(n) ELSE S(n) \cup {n + 1}
    <2>1. \A j : j \in 1 .. n + 1 <=> j \in 1 .. n \/ j = n + 1
      OBVIOUS
    <2> QED
      BY <2>1
  <1>4. Count(r, 0) = Cardinality(S(0)) /\ Count(r, n) = Cardinality(S(n))
        /\ Count(r, n + 1) = Cardinality(S(n + 1))
    BY DEF Count
  <1> HIDE DEF S
  <1>5. Cardinality(S(n)) \in Nat /\ Cardinality(S(n) \cup {n + 1}) = Cardinality(S(n)) + 1
    BY <1>2, FS_CardinalityType, FS_AddElement
  <1> QED
    BY <1>1, <1>3, <1>4, <1>5, FS_EmptySet

\* One more item is counted.
LEMMA CountedNext ==
  ASSUME NEW r, NEW n \in Nat, Counted(r, n),
         IsMark(Fed(r, n + 1))
           \/ (/\ Count(r, n) + 1 \in 1 .. Len(FlattenSeq(r))
               /\ Fed(r, n + 1) = Chunk(FlattenSeq(r)[Count(r, n) + 1]))
  PROVE  Counted(r, n + 1)
  <1>1. ASSUME NEW k \in 1 .. n + 1, ~IsMark(Fed(r, k))
        PROVE  /\ Count(r, k) \in 1 .. Len(FlattenSeq(r))
               /\ Fed(r, k) = Chunk(FlattenSeq(r)[Count(r, k)])
    <2>1. CASE k = n + 1
      BY <1>1, <2>1, CountFacts
    <2>2. CASE k # n + 1
      <3>1. k \in 1 .. n
        BY <2>2
      <3> QED
        BY <1>1, <3>1 DEF Counted
    <2> QED
      BY <2>1, <2>2
  <1> QED
    BY <1>1 DEF Counted

\* Where the files start.
LEMMA FileStarts ==
  ASSUME NEW r \in Recipes, NEW f \in 1 .. Len(r)
  PROVE  /\ Len(r) \in Nat /\ f \in Nat /\ f + 1 \in 1 .. Len(r) + 1 /\ f # Len(r) + 1
         /\ Len(r[f]) \in Nat /\ Starts(r)[f] \in Nat /\ FeedStart(r, f) \in Nat
         /\ Starts(r)[f + 1] = Starts(r)[f] + Len(r[f])
         /\ FeedStart(r, f + 1) = FeedStart(r, f) + Len(r[f]) + 2
         /\ FeedStart(r, f + 1) <= Len(Feed(r)) /\ Len(Feed(r)) \in Nat
  <1>1. Len(r) \in Nat /\ Len(r[f]) \in Nat
    BY RecipeFacts
  <1>2. Starts(r)[f] \in Nat /\ Starts(r)[f + 1] = Starts(r)[f] + Len(r[f])
    <2>1. f \in 1 .. Len(r) + 1 /\ IsStarts(Starts(r), r)
      BY <1>1, PointerFacts
    <2> QED
      BY <2>1 DEF IsStarts
  <1>3. /\ FeedStart(r, f) \in Nat
        /\ FeedStart(r, f + 1) = FeedStart(r, f) + Len(r[f]) + 2
        /\ FeedStart(r, f + 1) <= Len(Feed(r)) /\ Len(Feed(r)) \in Nat
    BY FeedFacts, SeqFacts
  <1> QED
    BY <1>1, <1>2, <1>3

\* The reader is at the first file.
LEMMA ReadingInit ==
  ASSUME NEW r \in Recipes
  PROVE  Reading(r, 1, 0, 0) /\ PushedTo(r, 1, 0) = 0
  <1>1. /\ Len(r) \in Nat /\ FeedStart(r, 1) = 0
        /\ \A f \in 1 .. Len(r) : Len(r[f]) \in Nat
    BY RecipeFacts, FeedFacts
  <1>2. Starts(r)[1] = 0
    BY PointerFacts DEF IsStarts
  <1>3. PushedTo(r, 1, 0) = 0 /\ ReadTo(r, 1, 0) = 0
    BY <1>1, <1>2 DEF PushedTo, ReadTo
  <1>4. Count(r, 0) = 0 /\ Counted(r, 0)
    BY CountFacts DEF Counted
  <1>5. 1 \in 1 .. Len(r) + 1 /\ (1 # Len(r) + 1 => 0 <= Len(r[1]) + 1)
    BY <1>1
  <1> QED
    BY <1>3, <1>4, <1>5 DEF Reading

\* It pushes the start of a file.
LEMMA ReadingStart ==
  ASSUME NEW r \in Recipes, NEW f, NEW o, Reading(r, f, 0, o), f <= Len(r)
  PROVE  /\ PushedTo(r, f, 1) = PushedTo(r, f, 0) + 1 /\ PushedTo(r, f, 1) <= Len(Feed(r))
         /\ Fed(r, PushedTo(r, f, 0) + 1) = Start(f) /\ Reading(r, f, 1, o)
  <1> DEFINE n == PushedTo(r, f, 0)
  <1>1. f \in 1 .. Len(r)
    BY RecipeFacts DEF Reading
  <1>2. /\ Len(r) \in Nat /\ f # Len(r) + 1 /\ Len(r[f]) \in Nat /\ Starts(r)[f] \in Nat
        /\ FeedStart(r, f) \in Nat /\ FeedStart(r, f + 1) = FeedStart(r, f) + Len(r[f]) + 2
        /\ FeedStart(r, f + 1) <= Len(Feed(r)) /\ Len(Feed(r)) \in Nat
    BY <1>1, FileStarts
  <1>3. /\ n = FeedStart(r, f) /\ n \in Nat /\ PushedTo(r, f, 1) = n + 1
        /\ n + 1 <= Len(Feed(r)) /\ ReadTo(r, f, 1) = ReadTo(r, f, 0)
    BY <1>2 DEF PushedTo, ReadTo
  <1>4. Fed(r, n + 1) = Start(f)
    BY <1>1, <1>3, FeedFacts DEF Fed
  <1> HIDE DEF n
  <1>5. IsMark(Fed(r, n + 1))
    BY <1>4 DEF Start, IsMark
  <1>6. Count(r, n + 1) = ReadTo(r, f, 1) /\ Counted(r, n + 1)
    BY <1>3, <1>5, CountFacts, CountedNext DEF Reading, n
  <1>7. 1 <= Len(r[f]) + 1
    BY <1>2
  <1> QED
    BY <1>2, <1>3, <1>4, <1>6, <1>7 DEF Reading, n

\* It pushes the chunk of the next pointer of the recipe, a chunk of the file.
LEMMA ReadingPointer ==
  ASSUME NEW r \in Recipes, NEW f, NEW i, NEW o, Reading(r, f, i, o), f <= Len(r),
         i \in 1 .. Len(r[f]), NEW F, F = Flagged(FlattenSeq(r)),
         NEW m, m = Min({k \in o + 1 .. Len(F) :
                           F[k].id \notin {CHUNK_SEGMENT_START, CHUNK_SEGMENT_END}})
  PROVE  /\ PushedTo(r, f, i + 1) = PushedTo(r, f, i) + 1 /\ PushedTo(r, f, i + 1) <= Len(Feed(r))
         /\ Fed(r, PushedTo(r, f, i) + 1) = Chunk(F[m]) /\ Reading(r, f, i + 1, m)
  <1> DEFINE n == PushedTo(r, f, i)
             c == ReadTo(r, f, i)
             p == FlattenSeq(r)
  <1>1. f \in 1 .. Len(r)
    BY RecipeFacts DEF Reading
  <1>2. /\ Len(r) \in Nat /\ f # Len(r) + 1 /\ Len(r[f]) \in Nat /\ Starts(r)[f] \in Nat
        /\ FeedStart(r, f) \in Nat /\ FeedStart(r, f + 1) = FeedStart(r, f) + Len(r[f]) + 2
        /\ FeedStart(r, f + 1) <= Len(Feed(r)) /\ Len(Feed(r)) \in Nat
    BY <1>1, FileStarts
  <1>3. /\ n = FeedStart(r, f) + i /\ n \in Nat /\ PushedTo(r, f, i + 1) = n + 1
        /\ n + 1 <= Len(Feed(r)) /\ n + 1 = FeedStart(r, f) + 1 + i
        /\ c \in Nat /\ c + 1 = Starts(r)[f] + i /\ ReadTo(r, f, i + 1) = c + 1
    <2>1. i \in Nat /\ i # 0 /\ i <= Len(r[f]) /\ i + 1 # 0 /\ (i + 1) - 1 = i
      BY <1>2
    <2>2. n = FeedStart(r, f) + i /\ PushedTo(r, f, i + 1) = FeedStart(r, f) + (i + 1)
      BY DEF PushedTo
    <2>3. c = Starts(r)[f] + (i - 1) /\ ReadTo(r, f, i + 1) = Starts(r)[f] + i
      BY <2>1 DEF ReadTo
    <2> HIDE DEF n, c
    <2>4. n \in Nat /\ PushedTo(r, f, i + 1) = n + 1 /\ n + 1 = FeedStart(r, f) + 1 + i
      BY <1>2, <2>1, <2>2, SMTT(30)
    <2>5. n + 1 <= Len(Feed(r))
      <3>1. FeedStart(r, f) + i + 1 <= FeedStart(r, f) + Len(r[f]) + 2
        BY <1>2, <2>1, SMTT(30)
      <3>2. FeedStart(r, f) + i + 1 <= Len(Feed(r))
        BY <1>2, <2>1, <3>1, SMTT(30)
      <3> QED
        BY <2>2, <3>2
    <2>6. c \in Nat /\ c + 1 = Starts(r)[f] + i
      <3>1. \A x, y \in Nat : y # 0 => x + (y - 1) \in Nat /\ x + (y - 1) + 1 = x + y
        OBVIOUS
      <3> QED
        BY <1>2, <2>1, <2>3, <3>1
    <2>7. ReadTo(r, f, i + 1) = c + 1
      BY <2>3, <2>6, Zenon
    <2> QED
      BY <2>2, <2>4, <2>5, <2>6, <2>7, Zenon
  <1>4. Fed(r, n + 1) = Chunk(r[f][i])
    BY <1>1, <1>3, FeedFacts DEF Fed
  <1>5. p \in Seq(Pointers) /\ Len(p) \in Nat /\ c + 1 \in 1 .. Len(p) /\ p[c + 1] = r[f][i]
    <2>1. /\ p \in Seq(Pointers) /\ Starts(r)[f] + i \in 1 .. Len(p)
          /\ p[Starts(r)[f] + i] = r[f][i]
      BY <1>1, PointerFacts
    <2> QED
      BY <1>3, <2>1, SeqFacts
  <1>6. /\ o = IF c = 0 THEN 0 ELSE Place(c)
        /\ Count(r, n) = c /\ Counted(r, n)
    BY DEF Reading
  <1> HIDE DEF n, c, p
  <1>7. m = Place(c + 1) /\ F[m] = p[c + 1]
    <2>1. c \in 0 .. Len(p) - 1
      BY <1>3, <1>5
    <2> QED
      BY <1>5, <1>6, <2>1, NextPlace DEF p
  <1>8. Count(r, n + 1) = c + 1 /\ Counted(r, n + 1)
    <2>1. Chunk(r[f][i]).kind = "chunk"
      BY DEF Chunk
    <2>2. ~IsMark(Fed(r, n + 1))
      BY <1>4, <2>1 DEF IsMark
    <2>3. Count(r, n + 1) = c + 1
      BY <1>3, <1>6, <2>2, CountFacts
    <2>4. Counted(r, n + 1)
      BY <1>3, <1>4, <1>5, <1>6, CountedNext DEF p
    <2> QED
      BY <2>3, <2>4
  <1>9. i + 1 <= Len(r[f]) + 1 /\ i + 1 \in Nat /\ c + 1 # 0
    BY <1>2, <1>3
  <1>10. Reading(r, f, i + 1, m)
    BY <1>1, <1>2, <1>3, <1>7, <1>8, <1>9 DEF Reading
  <1> QED
    BY <1>3, <1>4, <1>5, <1>7, <1>10 DEF n

\* It pushes the end of a file, and is at the next file.
LEMMA ReadingEnd ==
  ASSUME NEW r \in Recipes, NEW f, NEW i, NEW o, Reading(r, f, i, o), f <= Len(r),
         i = Len(r[f]) + 1
  PROVE  /\ PushedTo(r, f + 1, 0) = PushedTo(r, f, i) + 1
         /\ PushedTo(r, f + 1, 0) <= Len(Feed(r))
         /\ Fed(r, PushedTo(r, f, i) + 1) = End /\ Reading(r, f + 1, 0, o)
  <1> DEFINE n == PushedTo(r, f, i)
             c == ReadTo(r, f, i)
  <1>1. f \in 1 .. Len(r)
    BY RecipeFacts DEF Reading
  <1>2. /\ Len(r) \in Nat /\ f # Len(r) + 1 /\ Len(r[f]) \in Nat /\ Starts(r)[f] \in Nat
        /\ Starts(r)[f + 1] = Starts(r)[f] + Len(r[f]) /\ f + 1 \in 1 .. Len(r) + 1
        /\ FeedStart(r, f) \in Nat /\ FeedStart(r, f + 1) = FeedStart(r, f) + Len(r[f]) + 2
        /\ FeedStart(r, f + 1) <= Len(Feed(r)) /\ Len(Feed(r)) \in Nat
    BY <1>1, FileStarts
  <1>3. /\ n = FeedStart(r, f) + i /\ n \in Nat /\ PushedTo(r, f + 1, 0) = n + 1
        /\ n + 1 <= Len(Feed(r)) /\ n + 1 = FeedStart(r, f) + Len(r[f]) + 2
        /\ ReadTo(r, f + 1, 0) = c
    <2>1. i \in Nat /\ i # 0 /\ i - 1 = Len(r[f])
      BY <1>2
    <2>2. n = FeedStart(r, f) + i /\ PushedTo(r, f + 1, 0) = FeedStart(r, f + 1) + 0
      BY DEF PushedTo
    <2>3. c = Starts(r)[f] + Len(r[f]) /\ ReadTo(r, f + 1, 0) = Starts(r)[f + 1] + 0
      BY <2>1 DEF ReadTo
    <2> HIDE DEF n, c
    <2>4. n \in Nat /\ n + 1 = FeedStart(r, f) + Len(r[f]) + 2
      BY <1>2, <2>1, <2>2, SMTT(60)
    <2>5. PushedTo(r, f + 1, 0) = n + 1 /\ n + 1 <= Len(Feed(r))
      BY <1>2, <2>2, <2>4
    <2>6. ReadTo(r, f + 1, 0) = c
      BY <1>2, <2>3
    <2> QED
      BY <2>2, <2>4, <2>5, <2>6
  <1>4. Fed(r, n + 1) = End
    BY <1>1, <1>3, FeedFacts DEF Fed
  <1>5. /\ o = IF c = 0 THEN 0 ELSE Place(c)
        /\ Count(r, n) = c /\ Counted(r, n)
    BY DEF Reading
  <1> HIDE DEF n, c
  <1>6. IsMark(Fed(r, n + 1))
    BY <1>4 DEF End, IsMark
  <1>7. Count(r, n + 1) = c /\ Counted(r, n + 1)
    BY <1>3, <1>5, <1>6, CountFacts, CountedNext
  <1>8. f + 1 # Len(r) + 1 => 0 <= Len(r[f + 1]) + 1
    <2>1. f + 1 # Len(r) + 1 => f + 1 \in 1 .. Len(r)
      BY <1>1, <1>2
    <2>2. \A g \in 1 .. Len(r) : Len(r[g]) \in Nat
      BY RecipeFacts
    <2> QED
      BY <2>1, <2>2
  <1> QED
    BY <1>2, <1>3, <1>4, <1>5, <1>7, <1>8 DEF Reading, n

\* At the end all has been pushed.
LEMMA ReadingDone ==
  ASSUME NEW r \in Recipes, NEW f, NEW i, NEW o, Reading(r, f, i, o)
  PROVE  /\ f \in 1 .. Len(r) + 1 /\ i \in Nat /\ Len(r) \in Nat
         /\ f > Len(r) => PushedTo(r, f, i) = Len(Feed(r))
  <1>1. Len(r) \in Nat /\ Len(Feed(r)) = FeedStart(r, Len(r) + 1) /\ Len(Feed(r)) \in Nat
    BY FeedFacts, SeqFacts
  <1>2. f \in 1 .. Len(r) + 1 /\ i \in Nat /\ (f = Len(r) + 1 => i = 0)
    BY DEF Reading
  <1>3. ASSUME f > Len(r) PROVE PushedTo(r, f, i) = Len(Feed(r))
    <2>1. f = Len(r) + 1 /\ i = 0
      BY <1>1, <1>2, <1>3
    <2> QED
      BY <1>1, <2>1 DEF PushedTo
  <1> QED
    BY <1>1, <1>2, <1>3

-----------------------------------------------------------------------------
(* The inductive invariant.                                                *)

\* How many items have been pushed, how many of them the restore thread has popped,
\* and how many of these were chunks.
Pushed == PushedTo(files, file, item)
Popped == Len(written) + Len(out) + Len(issued) + Len(area)
Asked == Count(files, Popped)

\* What the backup has left does not change.
Given ==
  /\ files \in Recipes /\ scheme \in Schemes
  /\ recipe = Flagged(FlattenSeq(files)) /\ records = AccessRecords(FlattenSeq(files))

\* The reader is at its place.
ReaderInv ==
  /\ Reading(files, file, item, offset) /\ ended \in BOOLEAN
  /\ ended => file > Len(files)

\* What it has pushed is on its way.
FlowInv ==
  /\ Flow(files, Pushed, written, out, issued, area, queue)
  /\ Len(queue) <= QueueSize /\ Len(out) <= QueueSize

\* The threads end one after the other.
EndInv ==
  /\ scheme # "asm" => area = <<>>
  /\ closed \in BOOLEAN
  /\ closed => ended /\ queue = <<>> /\ issued = <<>> /\ area = <<>>
  /\ status \in {"running", "done"} /\ fp \in BOOLEAN
  /\ status = "done" => closed /\ out = <<>>

\* No container is cached twice.
CacheInv ==
  /\ cache \in Seq(DOMAIN Containers) /\ IsInjective(cache) /\ Len(cache) <= CacheSize
  /\ reads \in Nat

\* The records of the optimal scheme go along with the chunks.
OptInv ==
  IF scheme = "opt" THEN OptAt(FlattenSeq(files), Asked, window, table, last_id, sorted, cache)
  ELSE window = EmptyWindow /\ table = EmptyTable /\ sorted = {} /\ last_id = TEMPORARY_ID

Inv == Given /\ ReaderInv /\ FlowInv /\ EndInv /\ CacheInv /\ OptInv

-----------------------------------------------------------------------------
(* Every action keeps it.                                                  *)

\* What an action leaves alone.
LEMMA GivenStays ==
  ASSUME Given, UNCHANGED source
  PROVE  Given'
  BY DEF Given, source

\* The reader is where it was.
LEMMA ReaderStays ==
  ASSUME ReaderInv, UNCHANGED <<source, reader, ended>>
  PROVE  ReaderInv' /\ Pushed' = Pushed
  BY DEF ReaderInv, Pushed, source, reader

\* The cache is what it was.
LEMMA CacheStays ==
  ASSUME CacheInv, UNCHANGED <<cache, reads>>
  PROVE  CacheInv'
  BY DEF CacheInv

\* So are window and table, if no item is popped.
LEMMA OptStays ==
  ASSUME OptInv, UNCHANGED <<source, opt, cache>>, scheme = "opt" => Popped' = Popped
  PROVE  OptInv'
  <1>1. CASE scheme = "opt"
    <2>1. Asked' = Asked
      BY <1>1 DEF Asked, source
    <2> QED
      BY <1>1, <2>1 DEF OptInv, OptAt, source, opt
  <1>2. CASE scheme # "opt"
    BY <1>2 DEF OptInv, source, opt, EmptyWindow, EmptyTable
  <1> QED
    BY <1>1, <1>2

\* The invariant holds at the beginning.
LEMMA InvInit ==
  ASSUME Init
  PROVE  Inv
  <1> DEFINE p == FlattenSeq(files)
  <1>1. Given
    BY DEF Init, Given
  <1>2. /\ files \in Recipes /\ file = 1 /\ item = 0 /\ offset = 0 /\ ended = FALSE
        /\ queue = <<>> /\ out = <<>> /\ closed = FALSE /\ cache = <<>> /\ area = <<>>
        /\ reads = 0 /\ issued = <<>> /\ sorted = {} /\ last_id = TEMPORARY_ID
        /\ fp = FALSE /\ written = <<>> /\ status = "running"
        /\ records = AccessRecords(p)
    BY DEF Init
  <1>3. ReaderInv /\ Pushed = 0
    BY <1>2, ReadingInit DEF ReaderInv, Pushed
  <1>4. Len(<<>>) = 0 /\ \A S : <<>> \in Seq(S)
    OBVIOUS
  <1>5. FlowInv
    <2>1. Len(Feed(files)) \in Nat
      BY <1>2, FeedFacts, SeqFacts
    <2>2. Flow(files, 0, <<>>, <<>>, <<>>, <<>>, <<>>)
      BY <1>4, <2>1 DEF Flow
    <2>3. 0 <= QueueSize
      BY RestoreAssumption
    <2> QED
      BY <1>2, <1>3, <1>4, <2>2, <2>3 DEF FlowInv
  <1>6. EndInv
    BY <1>2 DEF EndInv
  <1>7. CacheInv
    <2>1. IsInjective(<<>>) /\ CacheSize \in Nat
      BY RestoreAssumption DEF IsInjective
    <2> QED
      BY <1>2, <1>4, <2>1 DEF CacheInv
  <1>8. OptInv
    <2>1. CASE scheme # "opt"
      BY <1>2, <2>1 DEF OptInv, Init
    <2>2. CASE scheme = "opt"
      <3>1. window = Filled(EmptyWindow) /\ table = TableFilled(EmptyTable, EmptyWindow)
        BY <2>2 DEF Init
      <3>2. IsRecords(records)
        <4> DEFINE K == Cardinality(Changes(p))
        <4>1. p \in Seq(Pointers)
          BY <1>2, PointerFacts
        <4>2. /\ K \in Nat /\ records \in Seq(Ids) /\ Len(records) = K + 1
              /\ records[K + 1] = TEMPORARY_ID
              /\ \A k \in 1 .. K : records[k] \in DOMAIN Containers /\ records[k] \in Nat
          BY <1>2, <4>1, RecordsFacts
        <4> HIDE DEF K
        <4>3. \A k \in 1 .. K : records[k] # TEMPORARY_ID
          BY <4>2 DEF TEMPORARY_ID
        <4> QED
          BY <4>2, <4>3 DEF IsRecords
      <3>3. Len(records) \in Nat /\ Len(records) >= 1
        BY <3>2, SeqFacts DEF IsRecords
      <3>4. WindowOf(records, EmptyWindow) /\ EmptyWindow.read = 0 /\ EmptyWindow.num = 0
        <4>1. 0 \in 0 .. WindowSize
          BY RestoreAssumption
        <4> QED
          BY <3>3, <4>1 DEF WindowOf, EmptyWindow
      <3>5. TableOf(records, EmptyTable, 0, 0)
        BY DEF TableOf, EmptyTable
      <3>6. WindowOf(records, window) /\ window.read - window.num = 0
        BY <3>1, <3>2, <3>4, FillWindow
      <3>7. TableOf(records, table, 0, window.read)
        BY <3>1, <3>2, <3>4, <3>5, FillTable
      <3>8. Asked = 0
        <4>1. Popped = 0
          BY <1>2, <1>4 DEF Popped
        <4> QED
          BY <4>1, CountFacts DEF Asked
      <3>9. ToSet(<<>>) = {}
        BY <1>4 DEF ToSet
      <3>10. OptAt(p, 0, window, table, last_id, sorted, cache)
        BY <1>2, <1>7, <3>6, <3>7, <3>9 DEF OptAt, CacheInv
      <3> QED
        BY <2>2, <3>8, <3>10 DEF OptInv
    <2> QED
      BY <2>1, <2>2
  <1> QED
    BY <1>1, <1>3, <1>5, <1>6, <1>7, <1>8 DEF Inv

\* The reader pushes the next item.
LEMMA InvPush ==
  ASSUME Inv, NEW d, Push(d), d = Fed(files, Pushed + 1), Pushed' = Pushed + 1,
         Pushed + 1 <= Len(Feed(files)), ReaderInv', file <= Len(files)
  PROVE  Inv'
  <1> USE DEF Inv
  <1>1. /\ queue' = Append(queue, d) /\ Len(queue) < QueueSize /\ files' = files /\ scheme' = scheme
        /\ UNCHANGED <<source, ended, cache, area, opt, reads, issued, out, closed, writer>>
        /\ UNCHANGED <<area, issued, out, closed, fp, written, status>>
    BY DEF Push, source, writer
  <1>2. Given'
    BY <1>1, GivenStays
  <1>3. FlowInv'
    <2>1. files \in Recipes /\ Flow(files, Pushed, written, out, issued, area, queue)
      BY DEF Given, FlowInv
    <2>2. Flow(files, Pushed + 1, written, out, issued, area, queue')
      BY <1>1, <2>1, FlowPush
    <2>3. Len(queue') = Len(queue) + 1 /\ Len(queue) \in Nat
      <3>1. queue \in Seq(FeedItems(files)) /\ queue' \in Seq(FeedItems(files))
        BY <2>1, <2>2 DEF Flow
      <3>2. d \in FeedItems(files)
        <4>1. Pushed + 1 \in 1 .. Len(Feed(files)) /\ Feed(files) \in Seq(FeedItems(files))
          BY <2>1, FlowLengths, FeedFacts
        <4> QED
          BY <4>1, SeqFacts DEF Fed
      <3> QED
        BY <1>1, <3>1, <3>2, AppendFacts, SeqFacts
    <2>4. Len(queue') <= QueueSize
      BY <1>1, <2>3, RestoreAssumption
    <2> QED
      BY <1>1, <2>2, <2>4 DEF FlowInv
  <1>4. EndInv'
    <2>1. ~ended /\ ~closed
      <3>1. ended => file > Len(files)
        BY DEF ReaderInv
      <3>2. file \in Nat /\ Len(files) \in Nat
        BY ReadingDone DEF ReaderInv, Given
      <3> QED
        BY <3>1, <3>2 DEF EndInv
    <2> QED
      BY <1>1, <2>1 DEF EndInv
  <1>5. CacheInv'
    BY <1>1, CacheStays
  <1>6. OptInv'
    BY <1>1, OptStays DEF Popped
  <1> QED
    BY <1>2, <1>3, <1>4, <1>5, <1>6

\* The start of a file is pushed.
LEMMA InvStartFile ==
  ASSUME Inv, StartFile
  PROVE  Inv'
  <1>1. /\ files \in Recipes /\ Reading(files, file, 0, offset) /\ file <= Len(files) /\ item = 0
        /\ file' = file /\ offset' = offset /\ item' = 1 /\ files' = files /\ ended' = ended
        /\ ended \in BOOLEAN /\ (ended => file > Len(files)) /\ Push(Start(file))
    BY DEF Inv, Given, ReaderInv, StartFile, Push, source
  <1>2. /\ PushedTo(files, file, 1) = Pushed + 1 /\ Pushed + 1 <= Len(Feed(files))
        /\ Fed(files, Pushed + 1) = Start(file) /\ Reading(files, file, 1, offset)
    BY <1>1, ReadingStart DEF Pushed
  <1>3. ReaderInv' /\ Pushed' = Pushed + 1
    BY <1>1, <1>2 DEF ReaderInv, Pushed
  <1> QED
    BY <1>1, <1>2, <1>3, InvPush

\* The next pointer behind the flags is pushed.
LEMMA InvReadPointer ==
  ASSUME Inv, ReadPointer
  PROVE  Inv'
  <1>1. /\ files \in Recipes /\ Reading(files, file, item, offset) /\ file <= Len(files)
        /\ item \in 1 .. Len(files[file]) /\ recipe = Flagged(FlattenSeq(files))
        /\ file' = file /\ offset' = NextPointer /\ item' = item + 1 /\ files' = files
        /\ ended' = ended /\ ended \in BOOLEAN /\ (ended => file > Len(files))
        /\ Push(Chunk(recipe[NextPointer]))
    BY DEF Inv, Given, ReaderInv, ReadPointer, Push, source
  <1>2. /\ PushedTo(files, file, item + 1) = Pushed + 1 /\ Pushed + 1 <= Len(Feed(files))
        /\ Fed(files, Pushed + 1) = Chunk(recipe[NextPointer])
        /\ Reading(files, file, item + 1, NextPointer)
    BY <1>1, ReadingPointer DEF Pushed, NextPointer
  <1>3. ReaderInv' /\ Pushed' = Pushed + 1
    BY <1>1, <1>2 DEF ReaderInv, Pushed
  <1> QED
    BY <1>1, <1>2, <1>3, InvPush

\* The end of a file is pushed.
LEMMA InvEndFile ==
  ASSUME Inv, EndFile
  PROVE  Inv'
  <1>1. /\ files \in Recipes /\ Reading(files, file, item, offset) /\ file <= Len(files)
        /\ item = Len(files[file]) + 1
        /\ file' = file + 1 /\ offset' = offset /\ item' = 0 /\ files' = files
        /\ ended' = ended /\ ended \in BOOLEAN /\ (ended => file > Len(files))
        /\ Push(End)
    BY DEF Inv, Given, ReaderInv, EndFile, Push, source
  <1>2. /\ PushedTo(files, file + 1, 0) = Pushed + 1 /\ Pushed + 1 <= Len(Feed(files))
        /\ Fed(files, Pushed + 1) = End /\ Reading(files, file + 1, 0, offset)
    BY <1>1, ReadingEnd DEF Pushed
  <1>3. ReaderInv' /\ Pushed' = Pushed + 1
    <2>1. file \in Nat /\ Len(files) \in Nat
      BY <1>1, ReadingDone
    <2>2. ~ended
      BY <1>1, <2>1
    <2> QED
      BY <1>1, <1>2, <2>2 DEF ReaderInv, Pushed
  <1> QED
    BY <1>1, <1>2, <1>3, InvPush

\* The recipe queue is closed behind the last file.
LEMMA InvTermRecipe ==
  ASSUME Inv, TermRecipe
  PROVE  Inv'
  <1> USE DEF Inv
  <1>1. /\ file > Len(files) /\ ended' = TRUE
        /\ UNCHANGED <<source, reader, queue, cache, area, opt, reads, issued, out, closed, writer>>
        /\ UNCHANGED <<files, scheme, file, item, offset, fp, written, status>>
    BY DEF TermRecipe, source, reader, writer
  <1>2. ReaderInv' /\ Pushed' = Pushed
    BY <1>1 DEF ReaderInv, Pushed
  <1>3. Given' /\ CacheInv'
    BY <1>1, GivenStays, CacheStays
  <1>4. OptInv'
    BY <1>1, OptStays DEF Popped
  <1>5. FlowInv'
    BY <1>1, <1>2 DEF FlowInv
  <1>6. EndInv'
    BY <1>1 DEF EndInv
  <1> QED
    BY <1>2, <1>3, <1>4, <1>5, <1>6

\* What is issued goes to the second queue.
LEMMA InvPushChunk ==
  ASSUME Inv, PushChunk
  PROVE  Inv'
  <1> USE DEF Inv
  <1>1. /\ issued # <<>> /\ Len(out) < QueueSize /\ out' = Append(out, Head(issued))
        /\ issued' = Tail(issued)
        /\ UNCHANGED <<source, reader, queue, ended, cache, area, opt, reads, closed, writer>>
        /\ UNCHANGED <<files, scheme, area, queue, closed, ended, fp, written, status>>
    BY DEF PushChunk, source, writer
  <1>2. ReaderInv' /\ Pushed' = Pushed
    BY <1>1, ReaderStays
  <1>3. Given' /\ CacheInv'
    BY <1>1, GivenStays, CacheStays
  <1>4. /\ files \in Recipes /\ Flow(files, Pushed, written, out, issued, area, queue)
        /\ Flow(files, Pushed, written, out', issued', area, queue)
    BY <1>1, FlowIssue DEF Given, FlowInv
  <1>5. Len(out') = Len(out) + 1 /\ Len(issued') = Len(issued) - 1 /\ Len(issued) \in Nat /\ Len(out) \in Nat
    <2>1. out \in Seq(HeldItems(files)) /\ issued \in Seq(HeldItems(files))
      BY <1>4 DEF Flow
    <2> QED
      BY <1>1, <2>1, HeadTailFacts, AppendFacts, SeqFacts
  <1>6. OptInv'
    <2>1. Len(written) \in Nat /\ Len(area) \in Nat
      BY <1>4, FlowLengths
    <2>2. Popped' = Popped
      BY <1>1, <1>5, <2>1 DEF Popped
    <2> QED
      BY <1>1, <2>2, OptStays
  <1>7. FlowInv'
    <2>1. Len(out') <= QueueSize
      BY <1>1, <1>5, RestoreAssumption
    <2> QED
      BY <1>1, <1>2, <1>4, <2>1 DEF FlowInv
  <1>8. EndInv'
    BY <1>1 DEF EndInv
  <1> QED
    BY <1>2, <1>3, <1>6, <1>7, <1>8

\* The chunk queue is closed behind the last item.
LEMMA InvTermChunks ==
  ASSUME Inv, TermChunks
  PROVE  Inv'
  <1> USE DEF Inv
  <1>1. /\ ended /\ queue = <<>> /\ issued = <<>> /\ area = <<>> /\ ~closed /\ closed' = TRUE
        /\ UNCHANGED <<source, reader, queue, ended, cache, area, opt, reads, issued, out, writer>>
        /\ UNCHANGED <<files, scheme, fp, written, status>>
    BY DEF TermChunks, source, writer
  <1>2. ReaderInv' /\ Pushed' = Pushed
    BY <1>1, ReaderStays
  <1>3. Given' /\ CacheInv'
    BY <1>1, GivenStays, CacheStays
  <1>4. OptInv'
    BY <1>1, OptStays DEF Popped
  <1>5. FlowInv'
    BY <1>1, <1>2 DEF FlowInv
  <1>6. EndInv'
    BY <1>1 DEF EndInv
  <1> QED
    BY <1>2, <1>3, <1>4, <1>5, <1>6

\* What the writer does with an item: it writes the next of the items.
LEMMA WrittenNext ==
  ASSUME Inv, WriteItem
  PROVE  /\ Len(written) + 1 \in 1 .. Len(Feed(files)) /\ Len(written) \in Nat
         /\ written' = Append(written, PlayedAs(Fed(files, Len(written) + 1)))
         /\ Flow(files, Pushed, written', out', issued, area, queue)
         /\ Len(written') = Len(written) + 1 /\ Len(out') = Len(out) - 1
         /\ Len(out) \in Nat
  <1> DEFINE c == Head(out)
             d == Fed(files, Len(written) + 1)
  <1>1. /\ files \in Recipes /\ Flow(files, Pushed, written, out, issued, area, queue)
        /\ out # <<>> /\ out' = Tail(out)
        /\ written' = Append(written, [kind |-> IF IsMark(c) THEN c.kind ELSE "chunk",
                                       of |-> CASE IsMark(c) -> {c.id}
                                                [] c.kind = "ready" -> c.fp
                                                [] OTHER -> NoFp])
    BY DEF Inv, Given, FlowInv, WriteItem
  <1>2. /\ Len(written) + 1 \in 1 .. Len(Feed(files)) /\ c = Processed(d)
        /\ d \in FeedItems(files)
        /\ Flow(files, Pushed, Append(written, PlayedAs(d)), Tail(out), issued, area, queue)
    BY <1>1, FlowWrite
  <1> HIDE DEF d
  <1>3. [kind |-> IF IsMark(c) THEN c.kind ELSE "chunk",
         of |-> CASE IsMark(c) -> {c.id} [] c.kind = "ready" -> c.fp [] OTHER -> NoFp] = PlayedAs(d)
    <2>1. CASE IsMark(d)
      <3>1. c = d
        BY <1>1, <1>2, <2>1, FeedItemFacts
      <3>2. IsMark(c) /\ PlayedAs(d) = [kind |-> c.kind, of |-> {c.id}]
        BY <1>1, <1>2, <2>1, <3>1, FeedItemFacts
      <3> HIDE DEF c
      <3>3. c.kind # "ready"
        BY <3>2 DEF IsMark
      <3> QED
        BY <3>2, <3>3
    <2>2. CASE ~IsMark(d)
      <3>1. /\ c = [kind |-> "ready", fp |-> d.fp, id |-> d.id]
            /\ PlayedAs(d) = [kind |-> "chunk", of |-> d.fp]
        BY <1>1, <1>2, <2>2, FeedItemFacts
      <3>2. c.kind = "ready" /\ c.fp = d.fp
        BY <3>1
      <3>3. ~IsMark(c)
        BY <3>2 DEF IsMark
      <3> QED
        BY <3>1, <3>2, <3>3
    <2> QED
      BY <2>1, <2>2
  <1>4. written' = Append(written, PlayedAs(d))
    BY <1>1, <1>3
  <1>5. Flow(files, Pushed, written', out', issued, area, queue)
    BY <1>1, <1>2, <1>4
  <1>6. /\ written \in Seq(WrittenItems(files)) /\ PlayedAs(d) \in WrittenItems(files)
        /\ out \in Seq(HeldItems(files))
    BY <1>1, <1>2 DEF Flow, WrittenItems
  <1>7. Len(written') = Len(written) + 1 /\ Len(written) \in Nat
    BY <1>4, <1>6, AppendFacts, SeqFacts
  <1>8. Len(out') = Len(out) - 1 /\ Len(out) \in Nat
    BY <1>1, <1>6, HeadTailFacts, SeqFacts
  <1> QED
    BY <1>2, <1>4, <1>5, <1>7, <1>8 DEF d

\* An item is written.
LEMMA InvWriteItem ==
  ASSUME Inv, WriteItem
  PROVE  Inv'
  <1> USE DEF Inv
  <1>1. /\ out # <<>> /\ status = "running" /\ out' = Tail(out)
        /\ UNCHANGED <<source, reader, queue, ended, cache, area, opt, reads, issued, closed, status>>
        /\ UNCHANGED <<files, scheme>> /\ (fp' = TRUE \/ fp' = FALSE \/ fp' = fp)
    BY DEF WriteItem, source, writer
  <1>2. /\ Flow(files, Pushed, written', out', issued, area, queue)
        /\ Len(written') = Len(written) + 1 /\ Len(out') = Len(out) - 1
        /\ Len(out) \in Nat /\ Len(written) \in Nat
    BY WrittenNext
  <1>3. ReaderInv' /\ Pushed' = Pushed
    BY <1>1, ReaderStays
  <1>4. Given' /\ CacheInv'
    BY <1>1, GivenStays, CacheStays
  <1>5. FlowInv'
    <2>1. Len(out') <= QueueSize
      BY <1>2, RestoreAssumption DEF FlowInv
    <2> QED
      BY <1>1, <1>2, <1>3, <2>1 DEF FlowInv
  <1>6. OptInv'
    <2>1. Len(issued) \in Nat /\ Len(area) \in Nat
      BY FlowLengths DEF FlowInv, Given
    <2>2. Popped' = Popped
      BY <1>1, <1>2, <2>1 DEF Popped
    <2> QED
      BY <1>1, <2>2, OptStays
  <1>7. EndInv'
    BY <1>1 DEF EndInv
  <1> QED
    BY <1>3, <1>4, <1>5, <1>6, <1>7

\* The restore is reported done.
LEMMA InvWriteEnd ==
  ASSUME Inv, WriteEnd
  PROVE  Inv'
  <1> USE DEF Inv
  <1>1. /\ closed /\ out = <<>> /\ status' = "done"
        /\ UNCHANGED <<source, reader, queue, ended, cache, area, opt, reads, issued, out,
                 closed, fp, written>>
        /\ UNCHANGED <<files, scheme>>
    BY DEF WriteEnd, source
  <1>2. ReaderInv' /\ Pushed' = Pushed
    BY <1>1, ReaderStays
  <1>3. Given' /\ CacheInv'
    BY <1>1, GivenStays, CacheStays
  <1>4. OptInv'
    BY <1>1, OptStays DEF Popped
  <1>5. FlowInv'
    BY <1>1, <1>2 DEF FlowInv
  <1>6. EndInv'
    BY <1>1 DEF EndInv
  <1> QED
    BY <1>2, <1>3, <1>4, <1>5, <1>6

\* Nothing changes.
LEMMA InvStays ==
  ASSUME Inv, UNCHANGED vars
  PROVE  Inv'
  <1> USE DEF Inv
  <1>1. /\ UNCHANGED <<source, reader, queue, ended, cache, area, opt, reads, issued, out,
                 closed, fp, written, status>>
        /\ UNCHANGED <<files, scheme>>
    BY DEF vars, source, writer
  <1>2. ReaderInv' /\ Pushed' = Pushed
    BY <1>1, ReaderStays
  <1>3. Given' /\ CacheInv'
    BY <1>1, GivenStays, CacheStays
  <1>4. OptInv'
    BY <1>1, OptStays DEF Popped
  <1>5. FlowInv'
    BY <1>1, <1>2 DEF FlowInv
  <1>6. EndInv'
    BY <1>1 DEF EndInv
  <1> QED
    BY <1>2, <1>3, <1>4, <1>5, <1>6

\* The other schemes leave window and table empty.
LEMMA OptOther ==
  ASSUME OptInv, scheme # "opt", UNCHANGED <<source, opt>>
  PROVE  OptInv'
  BY DEF OptInv, source, opt, EmptyWindow, EmptyTable

\* The item that the restore thread pops.
LEMMA PopFacts ==
  ASSUME Inv, NEW s, Pop(s)
  PROVE  /\ files \in Recipes /\ scheme = s /\ issued = <<>> /\ queue # <<>> /\ queue' = Tail(queue)
         /\ Flow(files, Pushed, written, out, issued, area, queue) /\ Head(queue) \in FeedItems(files)
         /\ Popped \in Nat /\ Head(queue) = Fed(files, Popped + 1) /\ Asked \in Nat
         /\ Count(files, Popped + 1) = IF IsMark(Head(queue)) THEN Asked ELSE Asked + 1
         /\ ~IsMark(Head(queue)) => /\ Asked + 1 \in 1 .. Len(FlattenSeq(files))
                                    /\ Head(queue).id = FlattenSeq(files)[Asked + 1].id
         /\ Given' /\ ReaderInv' /\ Pushed' = Pushed /\ files' = files /\ scheme' = scheme
         /\ written' = written /\ out' = out /\ ~closed /\ closed' = closed
         /\ status' = status /\ fp' = fp /\ Len(queue') <= QueueSize
  <1>1. /\ files \in Recipes /\ scheme = s /\ issued = <<>> /\ queue # <<>> /\ queue' = Tail(queue)
        /\ Flow(files, Pushed, written, out, issued, area, queue) /\ Len(queue) <= QueueSize
        /\ Counted(files, Pushed)
        /\ UNCHANGED <<source, reader, ended>>
        /\ files' = files /\ scheme' = scheme /\ written' = written /\ out' = out
        /\ closed' = closed /\ status' = status /\ fp' = fp /\ ~closed
    BY DEF Inv, Given, FlowInv, ReaderInv, Reading, Pushed, EndInv, Pop, source, writer
  <1>2. /\ Head(queue) \in FeedItems(files) /\ Head(queue) = Fed(files, Popped + 1)
        /\ Popped + 1 \in 1 .. Pushed /\ Popped \in Nat /\ Len(Tail(queue)) = Len(queue) - 1
        /\ Len(queue) \in Nat
    <2>1. /\ Len(written) \in Nat /\ Len(out) \in Nat /\ Len(issued) \in Nat /\ Len(area) \in Nat
          /\ Len(queue) \in Nat
      BY <1>1, FlowLengths
    <2> QED
      BY <1>1, <2>1, FlowHead DEF Popped
  <1>3. /\ Asked \in Nat
        /\ Count(files, Popped + 1) = IF IsMark(Head(queue)) THEN Asked ELSE Asked + 1
    BY <1>2, CountFacts DEF Asked
  <1>4. ASSUME ~IsMark(Head(queue))
        PROVE  /\ Asked + 1 \in 1 .. Len(FlattenSeq(files))
               /\ Head(queue).id = FlattenSeq(files)[Asked + 1].id
    <2>1. /\ Asked + 1 \in 1 .. Len(FlattenSeq(files))
          /\ Head(queue) = Chunk(FlattenSeq(files)[Asked + 1])
      BY <1>1, <1>2, <1>3, <1>4 DEF Counted
    <2> QED
      BY <2>1 DEF Chunk
  <1>5. Given' /\ ReaderInv' /\ Pushed' = Pushed
    BY <1>1, GivenStays, ReaderStays DEF Inv
  <1>6. Len(queue') <= QueueSize
    BY <1>1, <1>2, RestoreAssumption
  <1> QED
    BY <1>1, <1>2, <1>3, <1>4, <1>5, <1>6

\* It has the item to issue.
LEMMA InvPopped ==
  ASSUME Inv, NEW s, Pop(s), s # "asm", area' = area,
         issued' = <<Processed(Head(queue))>>, CacheInv', OptInv'
  PROVE  Inv'
  <1>1. area = <<>> /\ area' = <<>>
    BY PopFacts DEF Inv, EndInv
  <1>2. Flow(files, Pushed, written, out, issued', area', queue')
    BY <1>1, PopFacts, FlowPop
  <1>3. FlowInv'
    BY <1>2, PopFacts DEF FlowInv, Inv
  <1>4. EndInv'
    BY <1>1, PopFacts DEF EndInv, Inv
  <1> QED
    BY <1>3, <1>4, PopFacts DEF Inv

\* A chunk is in its container, and the retrieved chunk is ready.
LEMMA InvLruRestore ==
  ASSUME Inv, LruRestore
  PROVE  Inv'
  <1> DEFINE c == Head(queue)
             k == Hits(cache, Holders(c))
             T == DOMAIN Containers
  <1>1. /\ Pop("lru") /\ UNCHANGED <<area, opt>>
        /\ IsMark(c) => issued' = <<c>> /\ UNCHANGED <<cache, reads>>
        /\ ~IsMark(c) =>
             /\ cache' = IF k > 0 THEN InFront(cache, k) ELSE Inserted(cache, c.id, CacheSize)
             /\ reads' = IF k > 0 THEN reads ELSE reads + 1
             /\ issued' = <<Retrieved(c, Head(cache'))>>
    BY DEF LruRestore
  <1>2. files \in Recipes /\ c \in FeedItems(files) /\ scheme = "lru"
    BY <1>1, PopFacts
  <1>3. cache \in Seq(T) /\ IsInjective(cache) /\ Len(cache) <= CacheSize /\ reads \in Nat
    BY DEF Inv, CacheInv
  <1>4. CASE IsMark(c)
    <2>1. issued' = <<Processed(c)>>
      BY <1>1, <1>2, <1>4, FeedItemFacts
    <2>2. CacheInv'
      BY <1>1, <1>4, CacheStays DEF Inv
    <2>3. OptInv'
      BY <1>1, <1>2, OptOther DEF Inv, Pop
    <2> QED
      BY <1>1, <2>1, <2>2, <2>3, InvPopped
  <1>5. CASE ~IsMark(c)
    <2>1. c.id \in T /\ c.fp \in Containers[c.id]
      BY <1>2, <1>5, FeedItemFacts
    <2>2. /\ k \in 0 .. Len(cache)
          /\ k > 0 => k \in 1 .. Len(cache) /\ cache[k] \in Holders(c)
          /\ ~(k > 0) => \A i \in 1 .. Len(cache) : cache[i] \notin Holders(c)
      BY <1>3, HitsFacts
    <2>3. /\ cache' \in Seq(T) /\ IsInjective(cache') /\ Len(cache') <= CacheSize
          /\ c.fp \in Containers[Head(cache')] /\ reads' \in Nat
      <3>1. CASE k > 0
        <4>1. cache' = InFront(cache, k) /\ reads' = reads /\ k \in 1 .. Len(cache)
              /\ cache[k] \in Holders(c)
          BY <1>1, <1>5, <2>2, <3>1
        <4> HIDE DEF k
        <4>2. /\ InFront(cache, k) \in Seq(T) /\ Len(InFront(cache, k)) = Len(cache)
              /\ IsInjective(InFront(cache, k)) /\ Head(InFront(cache, k)) = cache[k]
          BY <1>3, <4>1, InFrontFacts
        <4>3. c.fp \in Containers[cache[k]]
          BY <4>1 DEF Holders
        <4> QED
          BY <1>3, <4>1, <4>2, <4>3
      <3>2. CASE ~(k > 0)
        <4>1. /\ cache' = Inserted(cache, c.id, CacheSize) /\ reads' = reads + 1
              /\ \A i \in 1 .. Len(cache) : cache[i] # c.id
          BY <1>1, <1>5, <2>1, <2>2, <3>2 DEF Holders
        <4>2. CacheSize \in Nat \ {0}
          BY RestoreAssumption
        <4>3. /\ Inserted(cache, c.id, CacheSize) \in Seq(T)
              /\ Len(Inserted(cache, c.id, CacheSize)) <= CacheSize
              /\ IsInjective(Inserted(cache, c.id, CacheSize))
              /\ Head(Inserted(cache, c.id, CacheSize)) = c.id
          BY <1>3, <2>1, <4>1, <4>2, InsertedFacts
        <4> QED
          BY <1>3, <2>1, <4>1, <4>3
      <3> QED
        BY <3>1, <3>2
    <2>4. issued' = <<Processed(c)>>
      BY <1>1, <1>2, <1>5, <2>3, RetrievedFacts
    <2>5. CacheInv'
      BY <2>3 DEF CacheInv
    <2>6. OptInv'
      BY <1>1, <1>2, OptOther DEF Inv, Pop
    <2> QED
      BY <1>1, <2>4, <2>5, <2>6, InvPopped
  <1> QED
    BY <1>4, <1>5

\* What is ready in the area is issued.
LEMMA FlowAssembled ==
  ASSUME NEW r \in Recipes, NEW n, NEW wr, NEW ou, NEW a, NEW qu,
         Flow(r, n, wr, ou, <<>>, a, qu),
         NEW x, x = Assembled(a), NEW m, m = Issuable(x)
  PROVE  Flow(r, n, wr, ou, SubSeq(x, 1, m), SubSeq(x, m + 1, Len(x)), qu)
  <1> DEFINE w == Len(wr) + Len(ou)
             F == [i \in 1 .. Len(a) |-> Fed(r, w + i)]
  <1>1. /\ w \in Nat /\ Len(a) \in Nat /\ w + Len(a) <= Len(Feed(r)) /\ Len(Feed(r)) \in Nat
        /\ a \in Seq(HeldItems(r)) /\ \A i \in 1 .. Len(Feed(r)) : Fed(r, i) \in FeedItems(r)
        /\ \A i \in 1 .. Len(a) : a[i] \in {Fed(r, w + i), Processed(Fed(r, w + i))}
    <2>1. /\ Len(wr) \in Nat /\ Len(ou) \in Nat /\ Len(a) \in Nat /\ Len(qu) \in Nat
          /\ Len(Feed(r)) \in Nat /\ \A i \in 1 .. Len(Feed(r)) : Fed(r, i) \in FeedItems(r)
      BY FlowLengths
    <2>2. /\ n = Len(wr) + Len(ou) + Len(<<>>) + Len(a) + Len(qu) /\ n <= Len(Feed(r))
          /\ a \in Seq(HeldItems(r)) /\ Len(<<>>) = 0
          /\ \A i \in 1 .. Len(a) : a[i] \in {Fed(r, Len(wr) + Len(ou) + Len(<<>>) + i),
                                              Processed(Fed(r, Len(wr) + Len(ou) + Len(<<>>) + i))}
      BY DEF Flow
    <2>3. Len(wr) + Len(ou) + Len(<<>>) = w
      BY <2>1, <2>2
    <2> QED
      BY <2>1, <2>2, <2>3
  <1>2. ASSUME NEW i \in 1 .. Len(a)
        PROVE  F[i] \in FeedItems(r) /\ a[i] \in {F[i], Processed(F[i])}
    <2>1. w + i \in 1 .. Len(Feed(r))
      BY <1>1
    <2> QED
      BY <1>1, <2>1
  <1>3. \A i \in 1 .. Len(a) : F[i] = Fed(r, w + i)
    OBVIOUS
  <1> HIDE DEF F
  <1>4. /\ x \in Seq(HeldItems(r)) /\ Len(x) = Len(a)
        /\ \A i \in 1 .. Len(a) : x[i] \in {F[i], Processed(F[i])}
        /\ m \in 0 .. Len(a) /\ \A i \in 1 .. m : x[i] = Processed(F[i])
    BY <1>1, <1>2, AssembledFacts
  <1>5. \A i \in 1 .. Len(x) : x[i] \in {Fed(r, w + i), Processed(Fed(r, w + i))}
    BY <1>3, <1>4
  <1>6. m \in 0 .. Len(x) /\ \A i \in 1 .. m : x[i] = Processed(Fed(r, w + i))
    BY <1>1, <1>3, <1>4
  <1> QED
    BY <1>4, <1>5, <1>6, FlowAssemble

\* An item goes into the area, which may be assembled.
LEMMA InvAssemblyPush ==
  ASSUME Inv, AssemblyPush
  PROVE  Inv'
  <1> DEFINE a == Append(area, Head(queue))
             x == Assembled(a)
             m == Issuable(x)
  <1>1. /\ Pop("asm") /\ UNCHANGED <<cache, opt>>
        /\ \/ /\ issued' = SubSeq(x, 1, m) /\ area' = SubSeq(x, m + 1, Len(x))
              /\ reads' = reads + (IF AreaLoad(a) = 0 THEN 0 ELSE 1)
           \/ area' = a /\ issued' = issued /\ reads' = reads
    BY DEF AssemblyPush, AssembleArea
  <1>2. /\ files \in Recipes /\ scheme = "asm" /\ issued = <<>>
        /\ Flow(files, Pushed, written, out, issued, a, Tail(queue))
    BY <1>1, PopFacts, FlowWait
  <1>3. Flow(files, Pushed, written, out, issued', area', queue')
    <2>1. CASE issued' = SubSeq(x, 1, m) /\ area' = SubSeq(x, m + 1, Len(x))
      <3>1. Flow(files, Pushed, written, out, <<>>, a, Tail(queue))
        BY <1>2
      <3> HIDE DEF a, x, m
      <3>2. Flow(files, Pushed, written, out, SubSeq(x, 1, m), SubSeq(x, m + 1, Len(x)), Tail(queue))
        BY <1>2, <3>1, FlowAssembled DEF x, m
      <3> QED
        BY <1>1, <2>1, <3>2, PopFacts
    <2>2. CASE area' = a /\ issued' = issued
      BY <1>1, <1>2, <2>2, PopFacts
    <2> QED
      BY <1>1, <2>1, <2>2
  <1> HIDE DEF a, x, m
  <1>4. FlowInv'
    BY <1>1, <1>3, PopFacts DEF FlowInv, Inv
  <1>5. EndInv'
    BY <1>1, <1>2, PopFacts DEF EndInv, Inv
  <1>6. CacheInv'
    BY <1>1 DEF CacheInv, Inv
  <1>7. OptInv'
    BY <1>1, <1>2, OptOther DEF Inv, Pop
  <1> QED
    BY <1>1, <1>4, <1>5, <1>6, <1>7, PopFacts DEF Inv

\* The rest of the area is assembled.
LEMMA InvAssembleRest ==
  ASSUME Inv, AssembleRest
  PROVE  Inv'
  <1> DEFINE x == Assembled(area)
             m == Issuable(x)
  <1>1. /\ scheme = "asm" /\ issued = <<>> /\ area # <<>>
        /\ issued' = SubSeq(x, 1, m) /\ area' = SubSeq(x, m + 1, Len(x))
        /\ reads' = reads + (IF AreaLoad(area) = 0 THEN 0 ELSE 1)
        /\ UNCHANGED <<source, reader, queue, ended, cache, opt, out, closed, writer>>
        /\ UNCHANGED <<files, scheme, written, fp, status>>
    BY DEF AssembleRest, AssembleArea, source, writer
  <1>2. Flow(files, Pushed, written, out, issued', area', queue)
    <2>1. files \in Recipes /\ Flow(files, Pushed, written, out, <<>>, area, queue)
      BY <1>1 DEF Inv, Given, FlowInv
    <2> HIDE DEF x, m
    <2>2. Flow(files, Pushed, written, out, SubSeq(x, 1, m), SubSeq(x, m + 1, Len(x)), queue)
      BY <2>1, FlowAssembled DEF x, m
    <2> QED
      BY <1>1, <2>2
  <1> HIDE DEF x, m
  <1>3. ReaderInv' /\ Pushed' = Pushed /\ Given'
    BY <1>1, ReaderStays, GivenStays DEF Inv
  <1>4. FlowInv'
    BY <1>1, <1>2, <1>3 DEF FlowInv, Inv
  <1>5. EndInv'
    BY <1>1 DEF EndInv, Inv
  <1>6. CacheInv'
    BY <1>1 DEF CacheInv, Inv
  <1>7. OptInv'
    BY <1>1, OptOther DEF Inv
  <1> QED
    BY <1>3, <1>4, <1>5, <1>6, <1>7 DEF Inv

\* The container of the candidates that was used before the others.
Oldest(q, ht) == Max({i \in DOMAIN q : q[i] \in ht})

\* What a full cache gives up, and what it has then.
LEMMA Evicted ==
  ASSUME NEW T, NEW q \in Seq(T), IsInjective(q), NEW ht, ht \subseteq ToSet(q), ht # {},
         NEW v, v = Oldest(q, ht), NEW x \in T,
         \A i \in 1 .. Len(q) : q[i] # x
  PROVE  /\ v \in 1 .. Len(q) /\ q[v] \in ht /\ q[v] # x
         /\ <<x>> \o RemoveAt(q, v) \in Seq(T) /\ IsInjective(<<x>> \o RemoveAt(q, v))
         /\ Len(<<x>> \o RemoveAt(q, v)) = Len(q)
         /\ Head(<<x>> \o RemoveAt(q, v)) = x /\ <<x>> \o RemoveAt(q, v) # <<>>
         /\ ToSet(<<x>> \o RemoveAt(q, v)) = {x} \cup (ToSet(q) \ {q[v]})
  <1> DEFINE I == {i \in DOMAIN q : q[i] \in ht}
             e == RemoveAt(q, v)
  <1>1. Len(q) \in Nat /\ DOMAIN q = 1 .. Len(q)
    BY SeqFacts
  <1>2. I \in SUBSET (0 .. Len(q)) /\ I # {}
    <2>1. PICK y : y \in ht
      OBVIOUS
    <2>2. \E i \in DOMAIN q : q[i] = y
      BY <2>1 DEF ToSet
    <2> QED
      BY <1>1, <2>1, <2>2
  <1>3. v \in 1 .. Len(q) /\ q[v] \in ht /\ q[v] # x
    <2>1. v \in I
      BY <1>1, <1>2, MaxOfPlaces DEF Oldest
    <2> QED
      BY <1>1, <2>1
  <1>4. /\ e \in Seq(T) /\ Len(e) = Len(q) - 1 /\ IsInjective(e)
        /\ ToSet(e) = ToSet(q) \ {q[v]}
    BY <1>3, RemovedPlace
  <1>5. \A i \in 1 .. Len(e) : e[i] # x
    <2> HIDE DEF e
    <2>1. \A i \in 1 .. Len(e) : e[i] \in ToSet(e)
      <3>1. DOMAIN e = 1 .. Len(e)
        BY <1>4, SeqFacts
      <3> QED
        BY <3>1 DEF ToSet
    <2>2. x \notin ToSet(q)
      BY <1>1 DEF ToSet
    <2> QED
      BY <1>4, <2>1, <2>2
  <1> HIDE DEF e, I
  <1>6. /\ <<x>> \o e \in Seq(T) /\ Len(<<x>> \o e) = Len(e) + 1 /\ IsInjective(<<x>> \o e)
        /\ Head(<<x>> \o e) = x /\ <<x>> \o e # <<>> /\ ToSet(<<x>> \o e) = {x} \cup ToSet(e)
    BY <1>4, <1>5, PushedFront
  <1>7. Len(<<x>> \o e) = Len(q)
    <2>1. Len(<<x>> \o e) = Len(e) + 1 /\ Len(e) = Len(q) - 1
      BY <1>4, <1>6
    <2> HIDE DEF e
    <2>2. \A a \in Nat : (a - 1) + 1 = a
      OBVIOUS
    <2> QED
      BY <1>1, <2>1, <2>2
  <1>8. ToSet(<<x>> \o e) = {x} \cup (ToSet(q) \ {q[v]})
    BY <1>4, <1>6
  <1> QED
    BY <1>3, <1>6, <1>7, <1>8 DEF e

\* An optimal restore of a chunk: its container comes to the front of the cache, which
\* keeps what is asked for before what it gives up.
LEMMA OptRetrieves ==
  ASSUME Inv, OptRestore, ~IsMark(Head(queue))
  PROVE  /\ CacheInv' /\ OptInv' /\ issued' = <<Processed(Head(queue))>>
         /\ \A v \in ToSet(cache) \ ToSet(cache') : \A kept \in ToSet(cache) \cap ToSet(cache') :
              NextUse(v)' >= NextUse(kept)'
  <1> DEFINE c == Head(queue)
             id == c.id
             T == DOMAIN Containers
             p == FlattenSeq(files)
             n == Asked
             slides == id # last_id
             fills == slides /\ window.num * 2 <= WindowSize
             w == IF fills THEN Filled(window) ELSE window
             full == IF fills THEN TableFilled(table, window) ELSE table
             t == IF slides /\ full[id] # <<>> THEN [full EXCEPT ![id] = Tail(@)] ELSE full
             k == Hits(cache, {id})
             z == IF slides THEN [w EXCEPT !.num = @ - 1] ELSE w
             lo == z.read - z.num
  <1>1. /\ Pop("opt") /\ area' = area /\ window' = z /\ last_id' = id
        /\ k > 0 => /\ cache' = InFront(cache, k) /\ table' = t /\ sorted' = sorted
                    /\ reads' = reads
        /\ ~(k > 0) =>
             /\ reads' = reads + 1
             /\ \/ /\ Len(cache) < CacheSize /\ cache' = <<id>> \o cache
                   /\ sorted' = sorted \cup {id} /\ table' = t
                \/ /\ ~(Len(cache) < CacheSize)
                   /\ \E ht \in Candidates(t) :
                        LET v == Max({i \in DOMAIN cache : cache[i] \in ht})
                        IN /\ cache' = <<id>> \o RemoveAt(cache, v)
                           /\ sorted' = (sorted \ {cache[v]}) \cup {id}
                           /\ table' = [i \in DOMAIN t \ {j \in {cache[v]} : t[j] = <<>>} |-> t[i]]
        /\ issued' = <<Retrieved(c, Head(cache'))>>
    BY DEF OptRestore
  <1>2. /\ files \in Recipes /\ c \in FeedItems(files) /\ scheme = "opt" /\ issued = <<>>
        /\ n \in Nat /\ n + 1 \in 1 .. Len(p) /\ id = p[n + 1].id
        /\ Count(files, Popped + 1) = n + 1 /\ Popped \in Nat
        /\ files' = files /\ written' = written /\ out' = out /\ scheme' = scheme
    BY <1>1, PopFacts
  <1>3. id \in T /\ c.fp \in Containers[id]
    BY <1>2, FeedItemFacts
  <1>4. p \in Seq(Pointers) /\ records = AccessRecords(p) /\ records' = records /\ Len(p) \in Nat
    <2>1. records' = records
      BY <1>1 DEF Pop, source
    <2> QED
      BY <1>2, <2>1, PointerFacts, SeqFacts DEF Inv, Given
  <1>5. OptAt(p, n, window, table, last_id, sorted, cache)
    BY <1>2 DEF Inv, OptInv
  <1>6. /\ cache \in Seq(T) /\ IsInjective(cache) /\ Len(cache) <= CacheSize /\ sorted = ToSet(cache)
        /\ reads \in Nat /\ Len(cache) \in Nat /\ DOMAIN cache = 1 .. Len(cache)
        /\ CacheSize \in Nat \ {0}
    BY <1>5, SeqFacts, RestoreAssumption DEF OptAt, Inv, CacheInv
  <1>7. /\ WindowOf(records, z) /\ TableOf(records, t, lo, z.read)
        /\ lo = Run(p, n + 1) /\ lo \in Nat /\ sorted \subseteq DOMAIN t /\ id \in DOMAIN t
        /\ z.read \in Nat /\ z.read <= Len(records)
    <2>1. n \in 0 .. Len(p) - 1 /\ fills \in BOOLEAN
      BY <1>2, <1>4
    <2>2. t = SlidTable(table, window, id, last_id) /\ z = SlidWindow(window, id, last_id)
      BY DEF SlidTable, SlidWindow, FilledTable, FilledWindow
    <2> HIDE DEF n, p, id, fills, w, full, t, z
    <2>3. /\ WindowOf(records, z) /\ TableOf(records, t, z.read - z.num, z.read)
          /\ z.read - z.num = Run(p, n + 1) /\ Run(p, n + 1) \in Nat
          /\ sorted \subseteq DOMAIN t /\ id \in DOMAIN t
          /\ z.read \in Nat /\ z.read <= Len(records)
      BY <1>2, <1>4, <1>5, <2>1, <2>2, OptSlides
    <2> QED
      BY <2>3
  <1> HIDE DEF t, z, k, n, p, w, full, fills, slides, lo, T
  <1>8. IsRecords(records)
    <2> DEFINE K == Cardinality(Changes(p))
    <2>1. /\ K \in Nat /\ records \in Seq(Ids) /\ Len(records) = K + 1
          /\ records[K + 1] = TEMPORARY_ID
          /\ \A i \in 1 .. K : records[i] \in DOMAIN Containers /\ records[i] \in Nat
      BY <1>4, RecordsFacts
    <2> HIDE DEF K
    <2>2. \A i \in 1 .. K : records[i] # TEMPORARY_ID
      BY <2>1 DEF TEMPORARY_ID
    <2> QED
      BY <2>1, <2>2 DEF IsRecords
  <1>9. /\ k \in 0 .. Len(cache)
        /\ k > 0 => k \in 1 .. Len(cache) /\ cache[k] = id
        /\ ~(k > 0) => \A i \in 1 .. Len(cache) : cache[i] # id
    <2>1. /\ k \in 0 .. Len(cache)
          /\ k > 0 => k \in 1 .. Len(cache) /\ cache[k] \in {id}
          /\ ~(k > 0) => \A i \in 1 .. Len(cache) : cache[i] \notin {id}
      BY <1>6, HitsFacts DEF k
    <2> QED
      BY <2>1
  <1> DEFINE Kept == /\ cache' \in Seq(T) /\ IsInjective(cache') /\ Len(cache') <= CacheSize
                     /\ Head(cache') = id /\ cache' # <<>> /\ sorted' = ToSet(cache')
                     /\ TableOf(records, table', lo, z.read) /\ sorted' \subseteq DOMAIN table'
                     /\ reads' \in Nat
             Later == \A v \in ToSet(cache) \ ToSet(cache') : \A kept \in ToSet(cache) \cap ToSet(cache') :
                        NextUse(v)' >= NextUse(kept)'
  <1>10. Kept /\ Later
    <2>1. CASE k > 0
      <3>1. /\ cache' = InFront(cache, k) /\ table' = t /\ sorted' = sorted /\ reads' = reads
            /\ k \in 1 .. Len(cache) /\ cache[k] = id
        BY <1>1, <1>9, <2>1
      <3>2. /\ InFront(cache, k) \in Seq(T) /\ Len(InFront(cache, k)) = Len(cache)
            /\ IsInjective(InFront(cache, k)) /\ Head(InFront(cache, k)) = cache[k]
            /\ InFront(cache, k) # <<>> /\ ToSet(InFront(cache, k)) = ToSet(cache)
        BY <1>6, <3>1, InFrontFacts
      <3>3. Kept
        BY <1>6, <1>7, <3>1, <3>2
      <3>4. Later
        BY <3>1, <3>2
      <3> QED
        BY <3>3, <3>4
    <2>2. CASE ~(k > 0) /\ Len(cache) < CacheSize
      <3>1. /\ cache' = <<id>> \o cache /\ table' = t /\ sorted' = sorted \cup {id}
            /\ reads' = reads + 1 /\ \A i \in 1 .. Len(cache) : cache[i] # id
        BY <1>1, <1>9, <2>2
      <3>2. /\ <<id>> \o cache \in Seq(T) /\ Len(<<id>> \o cache) = Len(cache) + 1
            /\ IsInjective(<<id>> \o cache) /\ Head(<<id>> \o cache) = id
            /\ <<id>> \o cache # <<>> /\ ToSet(<<id>> \o cache) = {id} \cup ToSet(cache)
        BY <1>3, <1>6, <3>1, PushedFront DEF T
      <3>3. Len(cache') <= CacheSize /\ reads' \in Nat
        BY <1>6, <2>2, <3>1, <3>2
      <3>4. Kept
        BY <1>6, <1>7, <3>1, <3>2, <3>3
      <3>5. Later
        BY <3>1, <3>2
      <3> QED
        BY <3>4, <3>5
    <2>3. CASE ~(k > 0) /\ ~(Len(cache) < CacheSize)
      <3>1. reads' = reads + 1 /\ (\A i \in 1 .. Len(cache) : cache[i] # id)
        BY <1>1, <1>9, <2>3
      <3>2. PICK ht \in Candidates(t) :
              LET v == Max({i \in DOMAIN cache : cache[i] \in ht})
              IN /\ cache' = <<id>> \o RemoveAt(cache, v)
                 /\ sorted' = (sorted \ {cache[v]}) \cup {id}
                 /\ table' = [i \in DOMAIN t \ {j \in {cache[v]} : t[j] = <<>>} |-> t[i]]
        BY <1>1, <2>3
      <3> DEFINE v == Max({i \in DOMAIN cache : cache[i] \in ht})
                 x == cache[v]
      <3>3. /\ cache' = <<id>> \o RemoveAt(cache, v) /\ sorted' = (sorted \ {x}) \cup {id}
            /\ table' = [i \in DOMAIN t \ {j \in {x} : t[j] = <<>>} |-> t[i]]
        BY <3>2
      <3>4. Len(cache) = CacheSize /\ Len(cache) # 0
        <4> DEFINE l == Len(cache)
        <4>1. l \in Nat /\ CacheSize \in Nat \ {0} /\ l <= CacheSize /\ ~(l < CacheSize)
          BY <1>6, <2>3
        <4> HIDE DEF l
        <4>2. l = CacheSize
          BY <4>1
        <4> QED
          BY <4>1, <4>2 DEF l
      <3>5. IsFiniteSet(sorted) /\ sorted # {}
        <4>1. 1 \in DOMAIN cache
          BY <1>6, <3>4
        <4>2. sorted # {}
          BY <1>6, <4>1 DEF ToSet
        <4>3. IsFiniteSet(DOMAIN cache)
          BY <1>6, FS_Interval
        <4>4. IsFiniteSet(sorted)
          <5>1. cache \in Surjection(DOMAIN cache, ToSet(cache))
            <6>1. cache = [i \in DOMAIN cache |-> cache[i]]
              BY <1>6
            <6> QED
              BY <6>1 DEF Surjection, ToSet
          <5> QED
            BY <1>6, <4>3, <5>1, FS_Surjection
        <4> QED
          BY <4>2, <4>4
      <3>6. /\ ht \subseteq sorted /\ ht # {}
            /\ \A u \in ht : \A o \in sorted : NextAccess(t, o) <= NextAccess(t, u)
        BY <1>7, <1>8, <3>5, CandidatesFacts
      <3>7. /\ v \in 1 .. Len(cache) /\ x \in ht /\ x # id
            /\ cache' \in Seq(T) /\ IsInjective(cache') /\ Len(cache') = Len(cache)
            /\ Head(cache') = id /\ cache' # <<>>
            /\ ToSet(cache') = {id} \cup (ToSet(cache) \ {x})
        <4>1. /\ cache \in Seq(T) /\ IsInjective(cache) /\ ht \subseteq ToSet(cache) /\ ht # {}
              /\ v = Oldest(cache, ht) /\ id \in T
              /\ \A i \in 1 .. Len(cache) : cache[i] # id
          BY <1>3, <1>6, <3>1, <3>6 DEF T, Oldest
        <4> HIDE DEF v
        <4>2. /\ v \in 1 .. Len(cache) /\ cache[v] \in ht /\ cache[v] # id
              /\ <<id>> \o RemoveAt(cache, v) \in Seq(T) /\ IsInjective(<<id>> \o RemoveAt(cache, v))
              /\ Len(<<id>> \o RemoveAt(cache, v)) = Len(cache)
              /\ Head(<<id>> \o RemoveAt(cache, v)) = id /\ <<id>> \o RemoveAt(cache, v) # <<>>
              /\ ToSet(<<id>> \o RemoveAt(cache, v)) = {id} \cup (ToSet(cache) \ {cache[v]})
          BY <4>1, Evicted
        <4> QED
          BY <3>3, <4>2
      <3> HIDE DEF v, x
      <3>8. TableOf(records, table', lo, z.read)
        BY <1>7, <3>3, DropTable
      <3>9. sorted' = ToSet(cache') /\ reads' \in Nat
        BY <1>6, <3>1, <3>3, <3>7
      <3>10. sorted' \subseteq DOMAIN table'
        BY <1>7, <3>3, <3>7
      <3>11. Kept
        BY <1>6, <3>7, <3>8, <3>9, <3>10
      <3>12. ASSUME NEW i \in DOMAIN t PROVE NextUse(i)' = NextAccess(t, i) + 1
        <4>1. Min({j \in lo + 1 .. z.read : records[j] = i} \cup {Len(records) + 1})
                = NextAccess(t, i) + 1
          BY <1>7, <1>8, NextAccessFacts, ZenonT(60)
        <4>2. Outstanding' = lo + 1 .. z.read
          BY <1>1, <1>7 DEF Outstanding, Consumed, WindowOf, lo
        <4> QED
          BY <1>4, <4>1, <4>2 DEF NextUse
      <3>13. Later
        <4>1. ASSUME NEW u \in ToSet(cache) \ ToSet(cache'),
                     NEW kept \in ToSet(cache) \cap ToSet(cache')
              PROVE  NextUse(u)' >= NextUse(kept)'
          <5>1. u = x
            BY <3>7
          <5>2. u \in sorted /\ kept \in sorted /\ u \in ht
            BY <1>6, <3>6, <3>7, <5>1
          <5>3. NextAccess(t, kept) <= NextAccess(t, u)
            BY <3>6, <5>2
          <5>4. NextAccess(t, kept) \in Nat /\ NextAccess(t, u) \in Nat
            <6>1. \A i \in sorted : NextAccess(t, i) \in 0 .. Len(records)
              BY <1>7, <1>8, NextAccessFacts
            <6> QED
              BY <5>2, <6>1
          <5>5. NextUse(u)' = NextAccess(t, u) + 1 /\ NextUse(kept)' = NextAccess(t, kept) + 1
            BY <1>7, <3>12, <5>2
          <5> QED
            BY <5>3, <5>4, <5>5
        <4> QED
          BY <4>1
      <3> QED
        BY <3>11, <3>13
    <2> QED
      BY <2>1, <2>2, <2>3
  <1>11. issued' = <<Processed(c)>>
    BY <1>1, <1>2, <1>3, <1>10, RetrievedFacts
  <1>12. Asked' = n + 1
    <2>1. Len(written) \in Nat /\ Len(out) \in Nat /\ Len(area) \in Nat
      BY <1>2, FlowLengths DEF Inv, FlowInv
    <2>2. Len(issued) = 0 /\ Len(issued') = 1
      BY <1>2, <1>11
    <2>3. Popped' = Popped + 1
      BY <1>1, <1>2, <2>1, <2>2 DEF Popped
    <2> QED
      BY <1>2, <2>3 DEF Asked
  <1>13. CacheInv'
    BY <1>10 DEF CacheInv, T
  <1>14. cache'[1] = id
    BY <1>10, HeadTailFacts
  <1>15. n + 1 # 0
    BY <1>2
  <1>16. OptInv'
    <2>1. FlattenSeq(files)' = p
      BY <1>2 DEF p
    <2> QED
      BY <1>1, <1>2, <1>4, <1>7, <1>10, <1>12, <1>14, <1>15, <2>1 DEF OptInv, OptAt, lo, T
  <1> QED
    BY <1>10, <1>11, <1>13, <1>16

\* The optimal scheme serves an item.
LEMMA InvOptRestore ==
  ASSUME Inv, OptRestore
  PROVE  Inv'
  <1> DEFINE c == Head(queue)
  <1>1. /\ Pop("opt") /\ area' = area
        /\ IsMark(c) => issued' = <<c>> /\ UNCHANGED <<cache, opt, reads>>
    BY DEF OptRestore
  <1>2. CASE ~IsMark(c)
    BY <1>1, <1>2, OptRetrieves, InvPopped
  <1>3. CASE IsMark(c)
    <2>1. /\ files \in Recipes /\ c \in FeedItems(files) /\ files' = files /\ scheme' = scheme
          /\ written' = written /\ out' = out /\ issued = <<>> /\ scheme = "opt"
          /\ Count(files, Popped + 1) = Asked
          /\ Flow(files, Pushed, written, out, issued, area, queue)
      BY <1>1, <1>3, PopFacts
    <2>2. issued' = <<Processed(c)>>
      BY <1>1, <1>3, <2>1, FeedItemFacts
    <2>3. Asked' = Asked
      <3>1. Len(written) \in Nat /\ Len(out) \in Nat /\ Len(area) \in Nat
        BY <2>1, FlowLengths
      <3>2. Len(issued) = 0 /\ Len(issued') = 1
        BY <2>1, <2>2
      <3>3. Popped' = Popped + 1
        BY <1>1, <2>1, <3>1, <3>2 DEF Popped
      <3> QED
        BY <2>1, <3>3 DEF Asked
    <2>4. CacheInv'
      BY <1>1, <1>3, CacheStays DEF Inv
    <2>5. OptInv'
      <3>1. records' = records
        BY <1>1 DEF Pop, source
      <3> QED
        BY <1>1, <1>3, <2>1, <2>3, <3>1 DEF Inv, OptInv, OptAt, opt
    <2> QED
      BY <1>1, <2>2, <2>4, <2>5, InvPopped
  <1> QED
    BY <1>2, <1>3

-----------------------------------------------------------------------------
(* The theorems.                                                           *)

\* Every step keeps the invariant.
LEMMA InvNext ==
  ASSUME Inv, [Next]_vars
  PROVE  Inv'
  <1>1. CASE StartFile
    BY <1>1, InvStartFile
  <1>2. CASE ReadPointer
    BY <1>2, InvReadPointer
  <1>3. CASE EndFile
    BY <1>3, InvEndFile
  <1>4. CASE TermRecipe
    BY <1>4, InvTermRecipe
  <1>5. CASE LruRestore
    BY <1>5, InvLruRestore
  <1>6. CASE AssemblyPush
    BY <1>6, InvAssemblyPush
  <1>7. CASE AssembleRest
    BY <1>7, InvAssembleRest
  <1>8. CASE OptRestore
    BY <1>8, InvOptRestore
  <1>9. CASE PushChunk
    BY <1>9, InvPushChunk
  <1>10. CASE TermChunks
    BY <1>10, InvTermChunks
  <1>11. CASE WriteItem
    BY <1>11, InvWriteItem
  <1>12. CASE WriteEnd
    BY <1>12, InvWriteEnd
  <1>13. CASE UNCHANGED vars
    BY <1>13, InvStays
  <1>14. CASE Done
    BY <1>14, InvStays DEF Done
  <1> QED
    BY <1>1, <1>2, <1>3, <1>4, <1>5, <1>6, <1>7, <1>8, <1>9, <1>10, <1>11, <1>12,
       <1>13, <1>14 DEF Next, ReadRecipe, RestoreChunks, WriteData

\* The inductive invariant holds of every restore.
THEOREM InductiveInvariant == Spec => []Inv
  <1>1. Init => Inv
    BY InvInit
  <1>2. Inv /\ [Next]_vars => Inv'
    BY InvNext
  <1> QED
    BY <1>1, <1>2, PTL DEF Spec

-----------------------------------------------------------------------------

\* What WriteItem writes is the next item of the files.
LEMMA PlaysItem ==
  ASSUME Inv, WriteItem
  PROVE  Player!Play
  <1>1. files \in Recipes /\ files' = files
    BY DEF Inv, Given, WriteItem, source
  <1> DEFINE n == Len(written) + 1
  <1>2. /\ n \in 1 .. Len(Feed(files)) /\ written' = Append(written, PlayedAs(Fed(files, n)))
        /\ Len(written) \in Nat
    BY WrittenNext
  <1>3. Len(Items(files)) = Len(Feed(files)) /\ Items(files)[n] = PlayedAs(Fed(files, n))
    BY <1>1, <1>2, ItemsFacts DEF Fed
  <1>4. Len(written) < Len(Items(files))
    BY <1>2, <1>3
  <1>5. status = "running" /\ status' = status
    BY DEF WriteItem
  <1> QED
    BY <1>1, <1>2, <1>3, <1>4, <1>5 DEF Player!Play

\* The restore is done when everything is written.
LEMMA PlaysAll ==
  ASSUME Inv, WriteEnd
  PROVE  Player!Finish
  <1>1. /\ files \in Recipes /\ files' = files /\ status = "running" /\ status' = "done"
        /\ closed /\ out = <<>> /\ written' = written
    BY DEF Inv, Given, WriteEnd, source
  <1>2. ended /\ queue = <<>> /\ issued = <<>> /\ area = <<>>
    BY <1>1 DEF Inv, EndInv
  <1>3. Pushed = Len(Feed(files))
    BY <1>1, <1>2, ReadingDone DEF Inv, ReaderInv, Pushed
  <1>4. Flow(files, Pushed, written, out, issued, area, queue)
    BY DEF Inv, FlowInv
  <1>5. /\ written \in Seq(WrittenItems(files)) /\ Len(written) \in Nat
        /\ Pushed = Len(written) + Len(out) + Len(issued) + Len(area) + Len(queue)
        /\ \A i \in 1 .. Len(written) : written[i] = PlayedAs(Fed(files, i))
    BY <1>1, <1>4, FlowLengths DEF Flow
  <1>6. Len(<<>>) = 0
    OBVIOUS
  <1>7. Len(written) = Len(Feed(files))
    BY <1>1, <1>2, <1>3, <1>5, <1>6
  <1>8. /\ Items(files) \in Seq(WrittenItems(files)) /\ Len(Items(files)) = Len(Feed(files))
        /\ \A i \in 1 .. Len(Feed(files)) : Items(files)[i] = PlayedAs(Fed(files, i))
    BY <1>1, ItemsFacts DEF WrittenItems, Fed
  <1>9. written = Items(files)
    BY <1>5, <1>7, <1>8, SeqEqual
  <1> QED
    BY <1>1, <1>9 DEF Player!Finish

\* Everything else is not seen.
LEMMA PlaysNothing ==
  ASSUME UNCHANGED <<files, written, status>>
  PROVE  UNCHANGED Player!pvars
  BY DEF Player!pvars

\* A restore plays back its backup: the start of each file, its chunks with the
\* fingerprints the backup has asked for and its end, each once, in their order,
\* and is done only when all is written, whichever of the three schemes retrieves
\* the containers, however the three threads interleave, for every backup, every
\* layout of the containers, every cache, area, window, segment and queue size.
THEOREM Plays == Spec => IsPlayback
  <1>1. Init => Player!PInit
    BY DEF Init, Player!PInit
  <1>2. Inv /\ [Next]_vars => [Player!Play \/ Player!Finish]_(Player!pvars)
    <2> SUFFICES ASSUME Inv, [Next]_vars
                 PROVE  [Player!Play \/ Player!Finish]_(Player!pvars)
      OBVIOUS
    <2>1. CASE WriteItem
      BY <2>1, PlaysItem
    <2>2. CASE WriteEnd
      BY <2>2, PlaysAll
    <2>3. ASSUME ReadRecipe PROVE UNCHANGED <<files, written, status>>
      BY <2>3 DEF ReadRecipe, StartFile, ReadPointer, EndFile, TermRecipe, Push, source, writer
    <2>4. ASSUME RestoreChunks PROVE UNCHANGED <<files, written, status>>
      BY <2>4 DEF RestoreChunks, LruRestore, AssemblyPush, AssembleRest, OptRestore, PushChunk,
         TermChunks, Pop, source, writer
    <2>5. ASSUME Done \/ UNCHANGED vars PROVE UNCHANGED <<files, written, status>>
      BY <2>5 DEF Done, vars, source, writer
    <2> QED
      BY <2>1, <2>2, <2>3, <2>4, <2>5, PlaysNothing DEF Next, WriteData
  <1> QED
    BY <1>1, <1>2, InductiveInvariant, PTL DEF Spec, IsPlayback, Player!PSpec

-----------------------------------------------------------------------------

\* No step but a retrieval of the optimal scheme changes its cache.
LEMMA CacheOf ==
  ASSUME Inv, [Next]_vars, scheme = "opt", cache' # cache
  PROVE  OptRestore /\ ~IsMark(Head(queue))
  <1>1. CASE ReadRecipe
    BY <1>1 DEF ReadRecipe, StartFile, ReadPointer, EndFile, TermRecipe, Push
  <1>2. CASE PushChunk \/ TermChunks \/ AssembleRest
    BY <1>2 DEF AssembleRest, PushChunk, TermChunks
  <1>3. CASE LruRestore \/ AssemblyPush
    BY <1>3 DEF LruRestore, AssemblyPush, Pop
  <1>4. CASE OptRestore
    <2>1. IsMark(Head(queue)) => UNCHANGED cache
      BY <1>4 DEF OptRestore
    <2> QED
      BY <1>4, <2>1
  <1>5. CASE WriteData \/ Done \/ UNCHANGED vars
    BY <1>5 DEF WriteData, WriteItem, WriteEnd, Done, vars
  <1> QED
    BY <1>1, <1>2, <1>3, <1>4, <1>5 DEF Next, RestoreChunks

\* The optimal scheme never gives up a container that is asked for, as far as the
\* window of access records shows, before one that it keeps.
THEOREM Belady == Spec => EvictsFurthest
  <1> DEFINE Rule == scheme = "opt" =>
               \A v \in ToSet(cache) \ ToSet(cache') :
                 \A kept \in ToSet(cache) \cap ToSet(cache') : NextUse(v)' >= NextUse(kept)'
  <1>1. Inv /\ [Next]_vars => Rule
    <2> SUFFICES ASSUME Inv, [Next]_vars, scheme = "opt"
                 PROVE  \A v \in ToSet(cache) \ ToSet(cache') :
                          \A kept \in ToSet(cache) \cap ToSet(cache') : NextUse(v)' >= NextUse(kept)'
      OBVIOUS
    <2>1. CASE cache' = cache
      BY <2>1
    <2>2. CASE cache' # cache
      BY <2>2, CacheOf, OptRetrieves
    <2> QED
      BY <2>1, <2>2
  <1>2. Inv /\ [Next]_vars => [Rule]_vars
    BY <1>1
  <1> HIDE DEF Rule
  <1>3. Spec => [][Rule]_vars
    BY <1>2, InductiveInvariant, PTL DEF Spec
  <1> QED
    BY <1>3 DEF EvictsFurthest, Rule

\* No more pointers are read than there are.
LEMMA ReadingBound ==
  ASSUME NEW r \in Recipes, NEW f, NEW i, NEW o, Reading(r, f, i, o)
  PROVE  ReadTo(r, f, i) \in 0 .. Len(FlattenSeq(r)) /\ o \in 0 .. Len(Flagged(FlattenSeq(r)))
  <1> DEFINE p == FlattenSeq(r)  n == ReadTo(r, f, i)
  <1>1. f \in 1 .. Len(r) + 1 /\ i \in Nat /\ Len(r) \in Nat
    BY ReadingDone
  <1>2. /\ p \in Seq(Pointers) /\ r \in Seq(Seq(Pointers)) /\ IsStarts(Starts(r), r)
        /\ Len(p) = Starts(r)[Len(r) + 1] /\ Len(p) \in Nat
    BY RecipeFacts, PointerFacts, SeqFacts
  <1>3. n \in 0 .. Len(p)
    <2>1. CASE f = Len(r) + 1
      <3>1. i = 0
        BY <2>1 DEF Reading
      <3>2. n = Starts(r)[Len(r) + 1] + 0
        BY <2>1, <3>1 DEF ReadTo
      <3> QED
        BY <3>2, <1>2
    <2>2. CASE f # Len(r) + 1
      <3>1. f \in 1 .. Len(r) /\ f + 1 \in 1 .. Len(r) + 1 /\ Len(r) + 1 \in 1 .. Len(r) + 1
            /\ f + 1 \in 1 .. Len(r) + 1
        BY <1>1, <2>2
      <3>2. Starts(r)[f] \in Nat /\ Len(r[f]) \in Nat /\ Starts(r)[f + 1] = Starts(r)[f] + Len(r[f])
        BY <3>1, FileStarts
      <3>3. Starts(r)[f + 1] <= Starts(r)[Len(r) + 1]
        BY <1>2, <3>1, StartsOrder
      <3>4. i <= Len(r[f]) + 1
        BY <2>2 DEF Reading
      <3>5. n = Starts(r)[f] + (IF i = 0 THEN 0 ELSE i - 1)
        BY DEF ReadTo
      <3> DEFINE a == Starts(r)[f]  b == Starts(r)[f + 1]  l == Len(r[f])  z == Len(p)
      <3>6. a \in Nat /\ l \in Nat /\ z \in Nat /\ b = a + l /\ b <= z /\ i <= l + 1 /\ i \in Nat
            /\ n = a + (IF i = 0 THEN 0 ELSE i - 1)
        BY <1>1, <1>2, <3>2, <3>3, <3>4, <3>5
      <3> HIDE DEF a, b, l, z, n
      <3>7. n \in 0 .. z
        BY <3>6
      <3> QED
        BY <3>7 DEF z
    <2> QED
      BY <2>1, <2>2
  <1>4. o \in 0 .. Len(Flagged(p))
    <2>1. Flagged(p) \in Seq(Entries) /\ \A m \in 1 .. Len(p) : Place(m) \in 1 .. Len(Flagged(p))
      BY <1>2, FlaggedFacts
    <2>2. Len(Flagged(p)) \in Nat
      BY <2>1, SeqFacts
    <2>3. o = IF n = 0 THEN 0 ELSE Place(n)
      BY DEF Reading
    <2>4. n # 0 => n \in 1 .. Len(p)
      BY <1>3, <1>2
    <2>5. n # 0 => o \in 1 .. Len(Flagged(p))
      BY <2>1, <2>3, <2>4
    <2> QED
      BY <2>2, <2>3, <2>5
  <1> QED
    BY <1>3, <1>4

\* What is on its way is an item.
LEMMA ItemTypes ==
  ASSUME NEW r \in Recipes
  PROVE  HeldItems(r) \subseteq Item({"start", "chunk", "ready", "end"}, Ids \cup DOMAIN r)
         /\ FeedItems(r) \subseteq HeldItems(r)
  <1> DEFINE T == Item({"start", "chunk", "ready", "end"}, Ids \cup DOMAIN r)
  <1>1. ASSUME NEW d \in FeedItems(r) PROVE d \in T /\ Processed(d) \in T
    <2>1. d.kind \in {"start", "chunk", "end"} /\ d = [kind |-> d.kind, fp |-> d.fp, id |-> d.id]
      BY FeedItemFacts
    <2>2. DOMAIN r = 1 .. Len(r)
      BY RecipeFacts
    <2>3. CASE IsMark(d)
      <3>1. d.fp = NoFp /\ d.id \in {TEMPORARY_ID} \cup 1 .. Len(r) /\ Processed(d) = d
        BY <2>3, FeedItemFacts
      <3>2. d.id \in Ids \cup DOMAIN r
        BY <2>2, <3>1 DEF Ids
      <3>3. [kind |-> d.kind, fp |-> d.fp, id |-> d.id] \in T
        BY <2>1, <3>1, <3>2 DEF Item
      <3> QED
        BY <2>1, <3>1, <3>3
    <2>4. CASE ~IsMark(d)
      <3>1. d.id \in DOMAIN Containers /\ d.fp \in Containers[d.id]
            /\ Processed(d) = [kind |-> "ready", fp |-> d.fp, id |-> d.id]
        BY <2>4, FeedItemFacts
      <3>2. d.id \in Ids \cup DOMAIN r
        BY <3>1 DEF Ids
      <3>3. d.fp \in UNION {Containers[i] : i \in DOMAIN Containers}
        BY <3>1
      <3>4. [kind |-> d.kind, fp |-> d.fp, id |-> d.id] \in T
            /\ [kind |-> "ready", fp |-> d.fp, id |-> d.id] \in T
        BY <2>1, <3>2, <3>3 DEF Item
      <3> QED
        BY <2>1, <3>1, <3>4
    <2> QED
      BY <2>3, <2>4
  <1> QED
    BY <1>1 DEF HeldItems

\* The table has sequences of numbers.
LEMMA TableTypes ==
  ASSUME NEW r, NEW t, NEW lo \in Nat, NEW hi \in Nat, TableOf(r, t, lo, hi), NEW id \in DOMAIN t
  PROVE  t[id] \in Seq(Nat)
  <1>1. t[id] = Ascending(Accesses(r, id, lo, hi))
    BY DEF TableOf
  <1>2. Accesses(r, id, lo, hi) \in SUBSET Nat /\ IsFiniteSet(Accesses(r, id, lo, hi))
    BY AccessesFacts
  <1>3. Ascending(Accesses(r, id, lo, hi)) \in Seq(Accesses(r, id, lo, hi))
    BY <1>2, AscendingFacts
  <1> DEFINE q == Ascending(Accesses(r, id, lo, hi))
  <1>4. \A i \in 1 .. Len(q) : q[i] \in Nat
    BY <1>2, <1>3, SeqFacts
  <1> QED
    BY <1>1, <1>3, <1>4, SeqOfSubset

\* Everything is of its type.
LEMMA InvTypes ==
  ASSUME Inv
  PROVE  TypeOK
  <1>1. /\ files \in Recipes /\ scheme \in Schemes /\ recipe = Flagged(FlattenSeq(files))
        /\ Reading(files, file, item, offset) /\ ended \in BOOLEAN
        /\ Flow(files, Pushed, written, out, issued, area, queue)
        /\ Len(queue) <= QueueSize /\ Len(out) <= QueueSize
        /\ closed \in BOOLEAN /\ status \in {"running", "done"} /\ fp \in BOOLEAN
        /\ cache \in Seq(DOMAIN Containers) /\ IsInjective(cache) /\ Len(cache) <= CacheSize
        /\ reads \in Nat
    BY DEF Inv, Given, ReaderInv, FlowInv, EndInv, CacheInv
  <1>2. file \in 1 .. Len(files) + 1 /\ item \in Nat /\ offset \in 0 .. Len(recipe)
    BY <1>1, ReadingDone, ReadingBound
  <1> DEFINE T == Item({"start", "chunk", "ready", "end"}, Ids \cup DOMAIN files)
  <1>3. \A s \in {queue, out, area, issued} : s \in Seq(T)
    <2>1. HeldItems(files) \subseteq T /\ FeedItems(files) \subseteq HeldItems(files)
      BY <1>1, ItemTypes
    <2>2. /\ out \in Seq(HeldItems(files)) /\ issued \in Seq(HeldItems(files))
          /\ area \in Seq(HeldItems(files)) /\ queue \in Seq(FeedItems(files))
      BY <1>1 DEF Flow
    <2>3. ASSUME NEW U, U \subseteq T, NEW s \in Seq(U) PROVE s \in Seq(T)
      <3>1. \A i \in 1 .. Len(s) : s[i] \in T
        BY <2>3, SeqFacts
      <3> HIDE DEF T
      <3> QED
        BY <2>3, <3>1, SeqOfSubset
    <2> HIDE DEF T
    <2>4. FeedItems(files) \subseteq T
      BY <2>1
    <2>5. queue \in Seq(T) /\ out \in Seq(T) /\ area \in Seq(T) /\ issued \in Seq(T)
      BY <2>1, <2>2, <2>3, <2>4
    <2> QED
      BY <2>5
  <1>4. /\ DOMAIN table \subseteq Ids /\ \A id \in DOMAIN table : table[id] \in Seq(Nat)
        /\ window \in [read : Nat, end : BOOLEAN, num : 0 .. WindowSize, no : Nat]
        /\ sorted \subseteq DOMAIN Containers /\ last_id \in Ids
    <2>1. CASE scheme = "opt"
      <3> DEFINE p == FlattenSeq(files)
      <3>1. OptAt(p, Asked, window, table, last_id, sorted, cache)
        BY <2>1 DEF Inv, OptInv
      <3>2. WindowOf(records, window) /\ TableOf(records, table, window.read - window.num, window.read)
        BY <3>1 DEF OptAt
      <3>3. window \in [read : Nat, end : BOOLEAN, num : 0 .. WindowSize, no : Nat]
            /\ window.num <= window.read
        BY <3>2 DEF WindowOf
      <3>4. window.read - window.num \in Nat /\ window.read \in Nat
        BY <3>3
      <3>5. \A id \in DOMAIN table : table[id] \in Seq(Nat)
        BY <3>2, <3>4, TableTypes
      <3>6. DOMAIN table \subseteq Ids
        BY <3>2 DEF TableOf
      <3>7. sorted = ToSet(cache)
        BY <3>1 DEF OptAt
      <3>8. sorted \subseteq DOMAIN Containers
        BY <1>1, <3>7, SeqFacts DEF ToSet
      <3>9. last_id \in Ids
        <4>1. CASE Asked = 0
          BY <3>1, <4>1 DEF OptAt, Ids
        <4>2. CASE Asked # 0
          <5>1. cache # <<>> /\ cache[1] = last_id
            BY <3>1, <4>2 DEF OptAt
          <5>2. cache[1] \in DOMAIN Containers
            BY <1>1, <5>1, HeadTailFacts
          <5> QED
            BY <5>1, <5>2 DEF Ids
        <4> QED
          BY <4>1, <4>2
      <3> QED
        BY <3>3, <3>5, <3>6, <3>8, <3>9
    <2>2. CASE scheme # "opt"
      <3>1. window = EmptyWindow /\ table = EmptyTable /\ sorted = {} /\ last_id = TEMPORARY_ID
        BY <2>2 DEF Inv, OptInv
      <3>2. DOMAIN table = {}
        BY <3>1 DEF EmptyTable
      <3>3. 0 \in 0 .. WindowSize
        BY RestoreAssumption
      <3>4. window \in [read : Nat, end : BOOLEAN, num : 0 .. WindowSize, no : Nat]
        BY <3>1, <3>3 DEF EmptyWindow
      <3> QED
        BY <3>1, <3>2, <3>4 DEF Ids
    <2> QED
      BY <2>1, <2>2
  <1>5. {ended, closed, fp} \subseteq BOOLEAN
    BY <1>1
  <1> HIDE DEF T
  <1> QED
    BY <1>1, <1>2, <1>3, <1>4, <1>5 DEF TypeOK, T

\* Type correctness.
THEOREM TypeCorrect == Spec => []TypeOK
  BY InductiveInvariant, InvTypes, PTL

\* After n chunks all of the last run's container, cons records are consumed.
AtRun(p, n, cons, last) ==
  /\ n \in 0 .. Len(p)
  /\ IF n = 0 THEN cons = 0 /\ last = TEMPORARY_ID ELSE cons = Run(p, n) /\ last = p[n].id

\* A chunk of the same container does not consume a record.
LEMMA RunGoesOn ==
  ASSUME NEW p \in Seq(Pointers), NEW n, NEW cons, NEW last, AtRun(p, n, cons, last),
         n + 1 \in 1 .. Len(p), p[n + 1].id = last
  PROVE  AtRun(p, n + 1, cons, last)
  <1>1. n \in Nat /\ Len(p) \in Nat /\ n + 1 \in Nat /\ n + 1 # 0 /\ n + 1 \in 0 .. Len(p)
    BY SeqFacts DEF AtRun
  <1>2. CASE n = 0
    <2>1. p[n + 1] \in Pointers
      BY SeqFacts
    <2>2. p[n + 1].id \in Nat
      BY <2>1, RestoreAssumption DEF Pointers
    <2>3. last = -1
      BY <1>2 DEF AtRun, TEMPORARY_ID
    <2> QED
      BY <2>2, <2>3
  <1>3. CASE n # 0
    <2>1. n \in 1 .. Len(p) - 1
      BY <1>1, <1>3
    <2>2. cons = Run(p, n) /\ p[n].id = p[n + 1].id
      BY <1>3 DEF AtRun
    <2>3. Run(p, n + 1) = Run(p, n)
      BY <2>1, <2>2, RecordsFacts
    <2> QED
      BY <1>1, <2>2, <2>3 DEF AtRun
  <1> QED
    BY <1>2, <1>3

\* One of another container consumes the next record, which is its own.
LEMMA RunEnds ==
  ASSUME NEW p \in Seq(Pointers), NEW n, NEW cons, NEW last, AtRun(p, n, cons, last),
         n + 1 \in 1 .. Len(p), p[n + 1].id # last
  PROVE  AccessRecords(p)[cons + 1] = p[n + 1].id
  <1>1. n \in Nat /\ Len(p) \in Nat
    BY SeqFacts DEF AtRun
  <1>2. Run(p, n + 1) = cons + 1
    <2>1. CASE n = 0
      <3>1. Len(p) > 0
        BY <1>1
      <3>2. Run(p, 1) = 1
        BY <3>1, RecordsFacts
      <3> QED
        BY <2>1, <3>2 DEF AtRun
    <2>2. CASE n # 0
      <3>1. n \in 1 .. Len(p) - 1
        BY <1>1, <2>2
      <3>2. cons = Run(p, n) /\ p[n].id # p[n + 1].id
        BY <2>2 DEF AtRun
      <3> QED
        BY <3>1, <3>2, RecordsFacts
    <2> QED
      BY <2>1, <2>2
  <1>3. AccessRecords(p)[Run(p, n + 1)] = p[n + 1].id
    BY RecordsFacts
  <1> QED
    BY <1>2, <1>3

\* So does the first chunk in the queue that is of another container.
LEMMA RunAhead ==
  ASSUME NEW r \in Recipes, NEW n \in Nat, NEW lo \in Nat, NEW cons, NEW last,
         AtRun(FlattenSeq(r), Count(r, lo), cons, last), Counted(r, lo + n),
         \A m \in 1 .. n : IsMark(Fed(r, lo + m)) \/ Fed(r, lo + m).id = last
  PROVE  AtRun(FlattenSeq(r), Count(r, lo + n), cons, last)
  <1> DEFINE p == FlattenSeq(r)
             A == {m \in Nat : m <= n => AtRun(p, Count(r, lo + m), cons, last)}
  <1>1. p \in Seq(Pointers)
    BY PointerFacts
  <1>2. 0 \in A
    OBVIOUS
  <1>3. ASSUME NEW m \in A PROVE m + 1 \in A
    <2>1. m \in Nat /\ m + 1 \in Nat
      BY <1>3
    <2> SUFFICES ASSUME m + 1 <= n PROVE AtRun(p, Count(r, lo + (m + 1)), cons, last)
      BY <2>1
    <2>2. AtRun(p, Count(r, lo + m), cons, last)
      BY <1>3, <2>1
    <2>3. lo + (m + 1) = (lo + m) + 1 /\ lo + m \in Nat /\ m + 1 \in 1 .. n
          /\ lo + (m + 1) \in 1 .. lo + n
      BY <2>1
    <2> DEFINE d == Fed(r, lo + (m + 1))
    <2>4. Count(r, lo + (m + 1)) = IF IsMark(d) THEN Count(r, lo + m) ELSE Count(r, lo + m) + 1
      BY <2>3, CountFacts
    <2>5. CASE IsMark(d)
      BY <2>2, <2>4, <2>5
    <2>6. CASE ~IsMark(d)
      <3>1. Count(r, lo + (m + 1)) \in 1 .. Len(p) /\ d = Chunk(p[Count(r, lo + (m + 1))])
        BY <2>3, <2>6 DEF Counted
      <3>2. d.id = last
        BY <2>3, <2>6
      <3>3. d.id = p[Count(r, lo + (m + 1))].id
        BY <3>1 DEF Chunk
      <3>4. Count(r, lo + (m + 1)) = Count(r, lo + m) + 1
        BY <2>4, <2>6
      <3> HIDE DEF p, d
      <3> QED
        BY <1>1, <2>2, <3>1, <3>2, <3>3, <3>4, RunGoesOn
    <2> QED
      BY <2>5, <2>6
  <1>4. A \in SUBSET Nat
    OBVIOUS
  <1> HIDE DEF A
  <1>5. n \in A
    BY <1>2, <1>3, <1>4, NumbersByInduction
  <1> QED
    BY <1>5 DEF A

\* The next record is that of the next run of chunks.
LEMMA InvAligned ==
  ASSUME Inv
  PROVE  RecordsAligned
  <1> SUFFICES ASSUME scheme = "opt"
               PROVE  /\ \A id \in DOMAIN table :
                           table[id] = Ascending({i - 1 : i \in {j \in Outstanding : records[j] = id}})
                      /\ \A n \in DOMAIN queue :
                           (~IsMark(queue[n]) /\ queue[n].id # last_id
                              /\ \A m \in 1 .. n - 1 : IsMark(queue[m]) \/ queue[m].id = last_id)
                             => records[Consumed + 1] = queue[n].id
                      /\ sorted = ToSet(cache) /\ sorted \subseteq DOMAIN table
    BY DEF RecordsAligned
  <1> DEFINE p == FlattenSeq(files)
  <1>1. /\ files \in Recipes /\ records = AccessRecords(p)
        /\ Reading(files, file, item, offset) /\ Flow(files, Pushed, written, out, issued, area, queue)
        /\ OptAt(p, Asked, window, table, last_id, sorted, cache)
    BY DEF Inv, Given, ReaderInv, FlowInv, OptInv
  <1>2. /\ WindowOf(records, window)
        /\ TableOf(records, table, window.read - window.num, window.read)
        /\ sorted = ToSet(cache) /\ sorted \subseteq DOMAIN table
    BY <1>1 DEF OptAt
  <1>3. Consumed = window.read - window.num /\ window.read - window.num \in Nat /\ window.read \in Nat
    <2>1. window.no = window.read /\ window.num <= window.read
          /\ window \in [read : Nat, end : BOOLEAN, num : 0 .. WindowSize, no : Nat]
      BY <1>2 DEF WindowOf
    <2> QED
      BY <2>1 DEF Consumed
  <1>4. ASSUME NEW id \in DOMAIN table
        PROVE  table[id] = Ascending({i - 1 : i \in {j \in Outstanding : records[j] = id}})
    <2>1. table[id] = Ascending(Accesses(records, id, window.read - window.num, window.read))
      BY <1>2, <1>4 DEF TableOf
    <2>2. Accesses(records, id, window.read - window.num, window.read)
            = {i - 1 : i \in {j \in Outstanding : records[j] = id}}
      BY <1>3 DEF Accesses, Outstanding
    <2> QED
      BY <2>1, <2>2
  <1>5. ASSUME NEW n \in DOMAIN queue, ~IsMark(queue[n]), queue[n].id # last_id,
               \A m \in 1 .. n - 1 : IsMark(queue[m]) \/ queue[m].id = last_id
        PROVE  records[Consumed + 1] = queue[n].id
    <2>1. /\ Popped \in Nat /\ Pushed = Popped + Len(queue) /\ Len(queue) \in Nat
          /\ \A i \in 1 .. Len(queue) : queue[i] = Fed(files, Popped + i)
      <3>1. /\ Len(written) \in Nat /\ Len(out) \in Nat /\ Len(issued) \in Nat /\ Len(area) \in Nat
            /\ Len(queue) \in Nat
        BY <1>1, FlowLengths
      <3>2. Popped = Len(written) + Len(out) + Len(issued) + Len(area)
        BY DEF Popped
      <3>3. Pushed = Len(written) + Len(out) + Len(issued) + Len(area) + Len(queue)
        BY <1>1 DEF Flow
      <3>4. \A i \in 1 .. Len(queue) :
              queue[i] = Fed(files, Len(written) + Len(out) + Len(issued) + Len(area) + i)
        BY <1>1 DEF Flow
      <3> QED
        BY <3>1, <3>2, <3>3, <3>4
    <2>2. DOMAIN queue = 1 .. Len(queue)
      BY <1>1, SeqFacts DEF Flow
    <2>3. /\ n \in 1 .. Len(queue) /\ n \in Nat /\ n - 1 \in Nat /\ Popped + (n - 1) \in Nat
          /\ Popped + n = (Popped + (n - 1)) + 1 /\ Popped + n \in 1 .. Pushed
          /\ Popped + (n - 1) <= Pushed
          /\ \A m \in 1 .. n - 1 : m \in 1 .. Len(queue)
          /\ \A k \in 1 .. Popped + (n - 1) : k \in 1 .. Pushed
      <3>1. n \in 1 .. Len(queue)
        BY <2>2
      <3>2. \A a, l \in Nat : \A i \in 1 .. l :
              /\ i \in Nat /\ i - 1 \in Nat /\ a + (i - 1) \in Nat
              /\ a + i = (a + (i - 1)) + 1 /\ a + i \in 1 .. a + l
              /\ a + (i - 1) <= a + l
              /\ \A m \in 1 .. i - 1 : m \in 1 .. l
              /\ \A k \in 1 .. a + (i - 1) : k \in 1 .. a + l
        OBVIOUS
      <3>3. Popped \in Nat /\ Len(queue) \in Nat /\ Pushed = Popped + Len(queue)
        BY <2>1
      <3> HIDE DEF Popped, Pushed
      <3> QED
        BY <3>1, <3>2, <3>3
    <2>4. Counted(files, Pushed)
      BY <1>1 DEF Reading, Pushed
    <2>5. Counted(files, Popped + (n - 1))
      BY <2>3, <2>4 DEF Counted
    <2>6. p \in Seq(Pointers) /\ Len(p) \in Nat
      BY <1>1, PointerFacts, SeqFacts
    <2>7. Asked \in 0 .. Len(p)
      <3>1. Asked \in Nat
        BY <2>1, CountFacts DEF Asked
      <3>2. Count(files, Popped) <= Len(p)
        <4>1. Count(files, Popped + n) \in 1 .. Len(p)
          BY <1>5, <2>1, <2>3, <2>4 DEF Counted
        <4> DEFINE B == {m \in Nat : Count(files, Popped) <= Count(files, Popped + m)}
        <4>2. 0 \in B
          BY <2>1, CountFacts
        <4>3. ASSUME NEW m \in B PROVE m + 1 \in B
          <5>1. Popped + m \in Nat /\ Popped + (m + 1) = (Popped + m) + 1 /\ m + 1 \in Nat
            BY <2>1
          <5>2. /\ Count(files, Popped + m) \in Nat /\ Count(files, Popped) \in Nat
                /\ \/ Count(files, Popped + (m + 1)) = Count(files, Popped + m)
                   \/ Count(files, Popped + (m + 1)) = Count(files, Popped + m) + 1
            BY <2>1, <5>1, CountFacts
          <5>3. Count(files, Popped) <= Count(files, Popped + m)
            OBVIOUS
          <5>4. \A a, b, c \in Nat : a <= b /\ (c = b \/ c = b + 1) => a <= c
            OBVIOUS
          <5> QED
            BY <5>1, <5>2, <5>3, <5>4
        <4>4. B \in SUBSET Nat
          OBVIOUS
        <4> HIDE DEF B
        <4>5. n \in B
          BY <2>3, <4>2, <4>3, <4>4, NumbersByInduction
        <4>6. Count(files, Popped) <= Count(files, Popped + n)
          BY <4>5 DEF B
        <4>7. Count(files, Popped) \in Nat
          BY <2>1, CountFacts
        <4> HIDE DEF p
        <4> QED
          BY <2>6, <4>1, <4>6, <4>7
      <3> QED
        BY <2>6, <3>1, <3>2 DEF Asked
    <2>8. AtRun(p, Count(files, Popped), Consumed, last_id)
      BY <1>1, <1>3, <2>7 DEF OptAt, AtRun, Asked
    <2>9. \A m \in 1 .. n - 1 : IsMark(Fed(files, Popped + m)) \/ Fed(files, Popped + m).id = last_id
      BY <1>5, <2>1, <2>3
    <2>10. AtRun(p, Count(files, Popped + (n - 1)), Consumed, last_id)
      BY <1>1, <2>1, <2>3, <2>5, <2>8, <2>9, RunAhead
    <2>11. queue[n] = Fed(files, Popped + n) /\ ~IsMark(Fed(files, Popped + n))
      BY <1>5, <2>1, <2>3
    <2>12. /\ Count(files, Popped + n) \in 1 .. Len(p)
           /\ Fed(files, Popped + n) = Chunk(p[Count(files, Popped + n)])
      BY <2>3, <2>4, <2>11 DEF Counted
    <2>13. Count(files, Popped + n) = Count(files, Popped + (n - 1)) + 1
      BY <2>3, <2>11, CountFacts
    <2>14. queue[n].id = p[Count(files, Popped + n)].id
      BY <2>11, <2>12 DEF Chunk
    <2> HIDE DEF p
    <2> QED
      BY <1>1, <1>5, <2>6, <2>10, <2>12, <2>13, <2>14, RunEnds
  <1> QED
    BY <1>2, <1>4, <1>5

\* The access records stay aligned with the recipe.
THEOREM Aligned == Spec => []RecordsAligned
  BY InductiveInvariant, InvAligned, PTL

-----------------------------------------------------------------------------
(* The LRU cache and the monitor of restore_aware.c.                       *)

\* The containers of a backup, and the states of its monitor.
Used(p) == {p[i].id : i \in 1 .. Len(p)}
Monitors(p) ==
  {m \in [cache : Seq(Used(p)), ccf : Nat] : IsInjective(m.cache) /\ Len(m.cache) <= CacheSize}

\* The monitor after each of the chunks.
MonitorSteps(p) ==
  [n \in Nat |-> [m \in Monitors(p) |->
                    IF n + 1 \in 1 .. Len(p) THEN restore_aware_update(m, p[n + 1].id) ELSE m]]
Simulation(p) == CHOOSE g : IsRecursion(g, Monitors(p), init_restore_aware, MonitorSteps(p))

\* The monitor keeps to its states.
LEMMA UpdateFacts ==
  ASSUME NEW p, NEW m \in Monitors(p), NEW id \in Used(p)
  PROVE  restore_aware_update(m, id) \in Monitors(p)
  <1>1. m \in [cache : Seq(Used(p)), ccf : Nat] /\ IsInjective(m.cache) /\ Len(m.cache) <= CacheSize
    BY DEF Monitors
  <1>2. m.cache \in Seq(Used(p)) /\ m.ccf \in Nat /\ m = [cache |-> m.cache, ccf |-> m.ccf]
    BY <1>1
  <1> DEFINE k == Hits(m.cache, {id})
  <1>3. CASE k > 0
    <2>1. k \in 1 .. Len(m.cache)
      BY <1>2, <1>3, HitsFacts
    <2>2. /\ InFront(m.cache, k) \in Seq(Used(p)) /\ Len(InFront(m.cache, k)) = Len(m.cache)
          /\ IsInjective(InFront(m.cache, k))
      BY <1>1, <1>2, <2>1, InFrontFacts
    <2>3. restore_aware_update(m, id) = [cache |-> InFront(m.cache, k), ccf |-> m.ccf]
      BY <1>2, <1>3 DEF restore_aware_update
    <2> HIDE DEF k
    <2> QED
      BY <1>1, <1>2, <2>2, <2>3 DEF Monitors
  <1>4. CASE ~(k > 0)
    <2>1. \A i \in 1 .. Len(m.cache) : m.cache[i] # id
      BY <1>2, <1>4, HitsFacts
    <2>2. CacheSize \in Nat \ {0}
      BY RestoreAssumption
    <2> DEFINE c == Inserted(m.cache, id, CacheSize)
    <2>3. c \in Seq(Used(p)) /\ Len(c) <= CacheSize /\ IsInjective(c)
      BY <1>1, <1>2, <2>1, <2>2, InsertedFacts
    <2>4. restore_aware_update(m, id) = [cache |-> c, ccf |-> m.ccf + 1]
      BY <1>4 DEF restore_aware_update
    <2> HIDE DEF c
    <2> QED
      BY <1>2, <2>3, <2>4 DEF Monitors
  <1> QED
    BY <1>3, <1>4

\* There is such a sequence of states.
LEMMA SimulationFacts ==
  ASSUME NEW p \in Seq(Pointers)
  PROVE  /\ Simulation(p)[0] = init_restore_aware
         /\ \A n \in Nat : Simulation(p)[n] \in Monitors(p)
         /\ \A n \in 0 .. Len(p) - 1 :
              Simulation(p)[n + 1] = restore_aware_update(Simulation(p)[n], p[n + 1].id)
  <1>1. init_restore_aware \in Monitors(p)
    <2>1. <<>> \in Seq(Used(p)) /\ Len(<<>>) = 0 /\ IsInjective(<<>>)
      BY DEF IsInjective
    <2>2. 0 <= CacheSize
      BY RestoreAssumption
    <2> QED
      BY <2>1, <2>2 DEF init_restore_aware, Monitors
  <1>2. Len(p) \in Nat
    BY SeqFacts
  <1>3. MonitorSteps(p) \in [Nat -> [Monitors(p) -> Monitors(p)]]
    <2>1. ASSUME NEW n \in Nat, NEW m \in Monitors(p)
          PROVE (IF n + 1 \in 1 .. Len(p) THEN restore_aware_update(m, p[n + 1].id) ELSE m) \in Monitors(p)
      BY <2>1, UpdateFacts DEF Used
    <2> QED
      BY <2>1 DEF MonitorSteps
  <1>4. IsRecursion(Simulation(p), Monitors(p), init_restore_aware, MonitorSteps(p))
    <2>1. \E g : IsRecursion(g, Monitors(p), init_restore_aware, MonitorSteps(p))
      BY <1>1, <1>3, RecursionExists
    <2> QED
      BY <2>1 DEF Simulation
  <1>5. /\ Simulation(p) \in [Nat -> Monitors(p)] /\ Simulation(p)[0] = init_restore_aware
        /\ \A n \in Nat : Simulation(p)[n + 1] = MonitorSteps(p)[n][Simulation(p)[n]]
    BY <1>4 DEF IsRecursion
  <1>6. \A n \in Nat : Simulation(p)[n] \in Monitors(p)
    BY <1>5
  <1>7. ASSUME NEW n \in 0 .. Len(p) - 1
        PROVE Simulation(p)[n + 1] = restore_aware_update(Simulation(p)[n], p[n + 1].id)
    <2>1. n \in Nat /\ n + 1 \in 1 .. Len(p)
      BY <1>2
    <2>2. Simulation(p)[n + 1] = MonitorSteps(p)[n][Simulation(p)[n]]
      BY <1>5, <2>1
    <2> QED
      BY <1>6, <2>1, <2>2 DEF MonitorSteps
  <1> QED
    BY <1>5, <1>6, <1>7

\* The recursive definition of Monitor is the last of these states.
LEMMA MonitorLast ==
  ASSUME NEW p \in Seq(Pointers)
  PROVE  Monitor(p) = Simulation(p)[Len(p)]
  <1> DEFINE Def(f) == [n \in 0 .. Len(p) |->
                         IF n = 0 THEN init_restore_aware
                         ELSE restore_aware_update(f[n - 1], p[n].id)]
             after == CHOOSE f : f = Def(f)
             g == [n \in 0 .. Len(p) |-> Simulation(p)[n]]
  <1>1. Monitor(p) = after[Len(p)]
    BY DEF Monitor
  <1>2. Len(p) \in Nat
    BY SeqFacts
  <1>3. g = Def(g)
    <2>1. ASSUME NEW n \in 0 .. Len(p)
          PROVE g[n] = IF n = 0 THEN init_restore_aware ELSE restore_aware_update(g[n - 1], p[n].id)
      <3>1. CASE n = 0
        BY <3>1, SimulationFacts
      <3>2. CASE n # 0
        <4>1. n - 1 \in 0 .. Len(p) - 1 /\ (n - 1) + 1 = n /\ n - 1 \in 0 .. Len(p)
          BY <1>2, <3>2
        <4>2. Simulation(p)[(n - 1) + 1] = restore_aware_update(Simulation(p)[n - 1], p[(n - 1) + 1].id)
          BY <4>1, SimulationFacts
        <4> QED
          BY <3>2, <4>1, <4>2
      <3> QED
        BY <3>1, <3>2
    <2> QED
      BY <2>1
  <1>4. after = Def(after)
    <2> HIDE DEF g, Def
    <2> QED
      BY <1>3
  <1>5. \A n \in 0 .. Len(p) : after[n] = IF n = 0 THEN init_restore_aware
                                           ELSE restore_aware_update(after[n - 1], p[n].id)
    <2> HIDE DEF after
    <2> QED
      BY <1>4
  <1> DEFINE A == {n \in Nat : n <= Len(p) => after[n] = Simulation(p)[n]}
  <1> HIDE DEF after
  <1>6. 0 \in A
    BY <1>2, <1>5, SimulationFacts
  <1>7. ASSUME NEW n \in A PROVE n + 1 \in A
    <2>1. n \in Nat /\ n + 1 \in Nat /\ n + 1 # 0 /\ (n + 1) - 1 = n
      BY <1>7
    <2> SUFFICES ASSUME n + 1 <= Len(p) PROVE after[n + 1] = Simulation(p)[n + 1]
      BY <2>1
    <2>2. n \in 0 .. Len(p) - 1 /\ n + 1 \in 0 .. Len(p) /\ n <= Len(p)
      BY <1>2, <2>1
    <2>3. after[n] = Simulation(p)[n]
      BY <1>7, <2>2
    <2>4. after[n + 1] = restore_aware_update(after[n], p[n + 1].id)
      BY <1>5, <2>1, <2>2
    <2> QED
      BY <2>2, <2>3, <2>4, SimulationFacts
  <1>8. A \in SUBSET Nat
    OBVIOUS
  <1> HIDE DEF A
  <1>9. Len(p) \in A
    BY <1>2, <1>6, <1>7, <1>8, NumbersByInduction
  <1> QED
    BY <1>1, <1>9 DEF A

\* A cache is searched for the same containers.
LEMMA HitsSame ==
  ASSUME NEW c, NEW S, NEW T, \A i \in 1 .. Len(c) : c[i] \in S <=> c[i] \in T
  PROVE  Hits(c, S) = Hits(c, T)
  <1> DEFINE I == {i \in 1 .. Len(c) : c[i] \in S}  J == {i \in 1 .. Len(c) : c[i] \in T}
  <1>1. Hits(c, S) = IF I # {} THEN Min(I) ELSE 0
    BY DEF Hits, SelectInSeq
  <1>2. Hits(c, T) = IF J # {} THEN Min(J) ELSE 0
    BY DEF Hits, SelectInSeq
  <1>3. I = J
    OBVIOUS
  <1> HIDE DEF I, J
  <1> QED
    BY <1>1, <1>2, <1>3

\* No fingerprint is in two of the containers of the backup.
Disjoint(p) == \A i, j \in Used(p) : i # j => Containers[i] \cap Containers[j] = {}

\* After n chunks the cache is the monitor's, and as many containers have been read
\* as the monitor has counted.
Simulated(p, n, c, k) == n \in 0 .. Len(p) /\ Simulation(p)[n] = [cache |-> c, ccf |-> k]

LruInv == scheme = "lru" /\ Disjoint(FlattenSeq(files)) =>
            Simulated(FlattenSeq(files), Asked, cache, reads)

\* The next chunk is found in the container from which the monitor takes it.
LEMMA LruRetrieves ==
  ASSUME NEW p \in Seq(Pointers), Disjoint(p), NEW n, NEW c, NEW m, Simulated(p, n, c, m),
         n + 1 \in 1 .. Len(p), NEW d, d.fp \in Containers[d.id], d.id = p[n + 1].id,
         NEW k, k = Hits(c, Holders(d))
  PROVE  Simulated(p, n + 1, IF k > 0 THEN InFront(c, k) ELSE Inserted(c, d.id, CacheSize),
                   IF k > 0 THEN m ELSE m + 1)
  <1>1. n \in Nat /\ Len(p) \in Nat /\ n \in 0 .. Len(p) - 1 /\ n + 1 \in 0 .. Len(p)
    BY SeqFacts DEF Simulated
  <1>2. Simulation(p)[n] = [cache |-> c, ccf |-> m] /\ Simulation(p)[n] \in Monitors(p)
    BY <1>1, SimulationFacts DEF Simulated
  <1>3. c \in Seq(Used(p)) /\ m \in Nat
    BY <1>2 DEF Monitors
  <1>4. d.id \in Used(p) /\ d.id \in DOMAIN Containers
    <2>1. p[n + 1] \in Pointers
      BY SeqFacts
    <2> QED
      BY <2>1 DEF Used, Pointers
  <1>5. \A i \in 1 .. Len(c) : c[i] \in Holders(d) <=> c[i] \in {d.id}
    <2>1. ASSUME NEW i \in 1 .. Len(c), c[i] \in Holders(d) PROVE c[i] = d.id
      <3>1. c[i] \in Used(p)
        BY <1>3, SeqFacts
      <3>2. d.fp \in Containers[c[i]]
        BY <2>1 DEF Holders
      <3> QED
        BY <1>4, <3>1, <3>2 DEF Disjoint
    <2>2. d.id \in Holders(d)
      BY <1>4 DEF Holders
    <2> QED
      BY <2>1, <2>2
  <1>6. k = Hits(c, {d.id})
    BY <1>5, HitsSame
  <1>7. Simulation(p)[n + 1] = restore_aware_update([cache |-> c, ccf |-> m], d.id)
    BY <1>1, <1>2, SimulationFacts
  <1>8. restore_aware_update([cache |-> c, ccf |-> m], d.id)
          = [cache |-> IF k > 0 THEN InFront(c, k) ELSE Inserted(c, d.id, CacheSize),
             ccf |-> IF k > 0 THEN m ELSE m + 1]
    BY <1>6 DEF restore_aware_update
  <1> QED
    BY <1>1, <1>7, <1>8 DEF Simulated

\* Nothing is popped, cached or read.
LEMMA LruInit ==
  ASSUME Init
  PROVE  LruInv
  <1>1. /\ files \in Recipes /\ cache = <<>> /\ reads = 0
        /\ written = <<>> /\ out = <<>> /\ issued = <<>> /\ area = <<>>
    BY DEF Init
  <1>2. Len(<<>>) = 0
    OBVIOUS
  <1>3. Popped = 0
    BY <1>1, <1>2 DEF Popped
  <1>4. Asked = 0
    BY <1>3, CountFacts DEF Asked
  <1>5. FlattenSeq(files) \in Seq(Pointers)
    BY <1>1, PointerFacts
  <1>6. 0 \in 0 .. Len(FlattenSeq(files))
    BY <1>5, SeqFacts
  <1>7. Simulation(FlattenSeq(files))[0] = init_restore_aware
    BY <1>5, SimulationFacts
  <1> QED
    BY <1>1, <1>4, <1>6, <1>7 DEF LruInv, Simulated, init_restore_aware

\* No other step pops an item or retrieves a container.
LEMMA LruWaits ==
  ASSUME Inv, [Next]_vars, scheme = "lru", ~LruRestore
  PROVE  UNCHANGED <<files, scheme, cache, reads>> /\ Popped' = Popped
  <1>1. CASE StartFile \/ ReadPointer \/ EndFile \/ TermRecipe
    BY <1>1 DEF StartFile, ReadPointer, EndFile, TermRecipe, Push, source, writer, Popped
  <1>2. CASE AssemblyPush \/ AssembleRest \/ OptRestore
    BY <1>2 DEF AssemblyPush, AssembleRest, OptRestore, Pop
  <1>3. CASE PushChunk
    <2>1. /\ UNCHANGED <<files, scheme, cache, reads, written, area>>
          /\ issued # <<>> /\ out' = Append(out, Head(issued)) /\ issued' = Tail(issued)
      BY <1>3 DEF PushChunk, source, writer
    <2>2. /\ out \in Seq(HeldItems(files)) /\ issued \in Seq(HeldItems(files))
          /\ files \in Recipes /\ Flow(files, Pushed, written, out, issued, area, queue)
      BY DEF Inv, Given, FlowInv, Flow
    <2>3. Len(issued') = Len(issued) - 1 /\ Len(issued) \in Nat /\ Head(issued) \in HeldItems(files)
      BY <2>1, <2>2, HeadTailFacts
    <2>4. Len(out') = Len(out) + 1 /\ Len(out) \in Nat
      BY <2>1, <2>2, <2>3, SeqFacts
    <2>5. Len(written) \in Nat /\ Len(area) \in Nat
      BY <2>2, FlowLengths
    <2>6. Len(written)' = Len(written) /\ Len(area)' = Len(area)
      BY <2>1
    <2> QED
      BY <2>1, <2>3, <2>4, <2>5, <2>6 DEF Popped
  <1>4. CASE TermChunks
    BY <1>4 DEF TermChunks, source, writer, Popped
  <1>5. CASE WriteItem
    <2>1. UNCHANGED <<files, scheme, cache, reads, issued, area>>
      BY <1>5 DEF WriteItem, source
    <2>2. Len(written') = Len(written) + 1 /\ Len(out') = Len(out) - 1 /\ Len(written) \in Nat
          /\ Len(out) \in Nat
      BY <1>5, WrittenNext
    <2>3. files \in Recipes /\ Flow(files, Pushed, written, out, issued, area, queue)
      BY DEF Inv, Given, FlowInv
    <2>4. Len(issued) \in Nat /\ Len(area) \in Nat
      BY <2>3, FlowLengths
    <2> QED
      BY <2>1, <2>2, <2>4 DEF Popped
  <1>6. CASE WriteEnd
    BY <1>6 DEF WriteEnd, source, Popped
  <1>7. CASE Done \/ UNCHANGED vars
    BY <1>7 DEF Done, vars, source, writer, Popped
  <1> QED
    BY <1>1, <1>2, <1>3, <1>4, <1>5, <1>6, <1>7
    DEF Next, ReadRecipe, RestoreChunks, WriteData

\* Every step keeps the cache the monitor's.
LEMMA LruNext ==
  ASSUME Inv, [Next]_vars, LruInv
  PROVE  LruInv'
  <1> DEFINE p == FlattenSeq(files)
  <1>1. CASE LruRestore
    <2> DEFINE d == Head(queue)  k == Hits(cache, Holders(d))
    <2>1. Pop("lru") /\ area' = area
      BY <1>1 DEF LruRestore
    <2>2. /\ files \in Recipes /\ scheme = "lru" /\ issued = <<>> /\ files' = files /\ scheme' = scheme
          /\ d \in FeedItems(files) /\ Popped \in Nat
          /\ Count(files, Popped + 1) = IF IsMark(d) THEN Asked ELSE Asked + 1
          /\ ~IsMark(d) => Asked + 1 \in 1 .. Len(p) /\ d.id = p[Asked + 1].id
          /\ written' = written /\ out' = out
          /\ Flow(files, Pushed, written, out, issued, area, queue)
      BY <2>1, PopFacts
    <2>3. Popped' = Popped + 1
      <3>1. \E x : issued' = <<x>>
        BY <1>1 DEF LruRestore
      <3>2. Len(issued') = 1 /\ Len(issued) = 0
        <4>1. \A x : Len(<<x>>) = 1 /\ Len(<<>>) = 0
          OBVIOUS
        <4> QED
          BY <2>2, <3>1, <4>1
      <3>3. Len(written) \in Nat /\ Len(out) \in Nat /\ Len(area) \in Nat
        BY <2>2, FlowLengths
      <3> QED
        BY <2>1, <2>2, <3>2, <3>3 DEF Popped
    <2>4. Asked' = IF IsMark(d) THEN Asked ELSE Asked + 1
      BY <2>2, <2>3 DEF Asked
    <2> SUFFICES ASSUME Disjoint(p)
                 PROVE  Simulated(p, Asked', cache', reads')
      BY <2>2 DEF LruInv
    <2>5. Simulated(p, Asked, cache, reads)
      BY <2>2 DEF LruInv
    <2>6. CASE IsMark(d)
      <3>1. UNCHANGED <<cache, reads>>
        BY <1>1, <2>6 DEF LruRestore
      <3> QED
        BY <2>4, <2>5, <2>6, <3>1
    <2>7. CASE ~IsMark(d)
      <3>1. /\ cache' = IF k > 0 THEN InFront(cache, k) ELSE Inserted(cache, d.id, CacheSize)
            /\ reads' = IF k > 0 THEN reads ELSE reads + 1
        BY <1>1, <2>7 DEF LruRestore
      <3>2. d.fp \in Containers[d.id]
        BY <2>2, <2>7, FeedItemFacts
      <3>3. p \in Seq(Pointers)
        BY <2>2, PointerFacts
      <3>4. Asked + 1 \in 1 .. Len(p) /\ d.id = p[Asked + 1].id
        BY <2>2, <2>7
      <3> HIDE DEF p, d
      <3>5. Simulated(p, Asked + 1, cache', reads')
        BY <2>5, <3>1, <3>2, <3>3, <3>4, LruRetrieves
      <3> QED
        BY <2>4, <2>7, <3>5
    <2> QED
      BY <2>6, <2>7
  <1>2. CASE scheme = "lru" /\ ~LruRestore
    <2>1. UNCHANGED <<files, scheme, cache, reads>> /\ Popped' = Popped
      BY <1>2, LruWaits
    <2>2. Asked' = Asked
      BY <2>1 DEF Asked
    <2> QED
      BY <2>1, <2>2 DEF LruInv
  <1>3. CASE scheme # "lru"
    <2>1. scheme' = scheme
      <3>1. CASE ReadRecipe
        BY <3>1 DEF ReadRecipe, StartFile, ReadPointer, EndFile, TermRecipe, Push, source
      <3>2. CASE RestoreChunks
        BY <3>2 DEF RestoreChunks, LruRestore, AssemblyPush, AssembleRest, OptRestore, PushChunk,
           TermChunks, Pop, source
      <3>3. CASE WriteData \/ Done \/ UNCHANGED vars
        BY <3>3 DEF WriteData, WriteItem, WriteEnd, Done, vars, source
      <3> QED
        BY <3>1, <3>2, <3>3 DEF Next
    <2> QED
      BY <1>3, <2>1 DEF LruInv
  <1> QED
    BY <1>1, <1>2, <1>3

\* In the end every chunk has been popped.
LEMMA DoneAgrees ==
  ASSUME Inv, LruInv
  PROVE  SimulationAgrees
  <1> DEFINE p == FlattenSeq(files)
  <1> SUFFICES ASSUME scheme = "lru", status = "done",
                      \A i, j \in {p[n].id : n \in DOMAIN p} :
                        i # j => Containers[i] \cap Containers[j] = {}
               PROVE  reads = Monitor(p).ccf
    BY DEF SimulationAgrees
  <1>1. /\ files \in Recipes /\ Reading(files, file, item, offset)
        /\ Flow(files, Pushed, written, out, issued, area, queue)
    BY DEF Inv, Given, ReaderInv, FlowInv
  <1>2. queue = <<>> /\ file > Len(files)
    BY DEF Inv, EndInv, ReaderInv
  <1>3. p \in Seq(Pointers) /\ DOMAIN p = 1 .. Len(p) /\ Len(p) = Starts(files)[Len(files) + 1]
        /\ Len(p) \in Nat
    BY <1>1, PointerFacts, SeqFacts
  <1>4. Disjoint(p)
    BY <1>3 DEF Disjoint, Used
  <1>5. Simulated(p, Asked, cache, reads)
    BY <1>4 DEF LruInv
  <1>6. Popped = Pushed
    <2>1. /\ Len(written) \in Nat /\ Len(out) \in Nat /\ Len(issued) \in Nat /\ Len(area) \in Nat
      BY <1>1, FlowLengths
    <2>2. Len(queue) = 0
      BY <1>2
    <2>3. Pushed = Len(written) + Len(out) + Len(issued) + Len(area) + Len(queue)
      BY <1>1 DEF Flow
    <2> QED
      BY <2>1, <2>2, <2>3 DEF Popped
  <1>7. Asked = Len(p)
    <2>1. file \in 1 .. Len(files) + 1 /\ Len(files) \in Nat
      BY <1>1, ReadingDone
    <2>2. file = Len(files) + 1
      BY <1>2, <2>1
    <2>3. item = 0 /\ Count(files, Pushed) = ReadTo(files, file, item)
      BY <1>1, <2>2 DEF Reading, Pushed
    <2> HIDE DEF p
    <2> QED
      BY <1>3, <1>6, <2>2, <2>3 DEF Asked, ReadTo
  <1> HIDE DEF p
  <1>8. Simulation(p)[Len(p)] = [cache |-> cache, ccf |-> reads]
    BY <1>5, <1>7 DEF Simulated
  <1>9. Monitor(p) = [cache |-> cache, ccf |-> reads]
    BY <1>3, <1>8, MonitorLast
  <1> QED
    BY <1>9

\* An LRU restore reads as many containers as the backup has counted in its simulation,
\* when no fingerprint is in two of the containers of the backup.
THEOREM Simulates == Spec => []SimulationAgrees
  <1>1. Init => LruInv
    BY LruInit
  <1>2. Inv /\ [Next]_vars /\ LruInv => LruInv'
    BY LruNext
  <1>3. Inv /\ LruInv => SimulationAgrees
    BY DoneAgrees
  <1> QED
    BY <1>1, <1>2, <1>3, InductiveInvariant, PTL DEF Spec
=============================================================================
