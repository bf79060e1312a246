------------------------- MODULE MemoryTraceProofs -------------------------
(***************************************************************************)
(* Lemmas about the operators of MemoryTrace, for every access and every   *)
(* pair of sets: which words and lanes an access names, what a store       *)
(* leaves in each lane of the write set, and their types.                  *)
(***************************************************************************)
EXTENDS MemoryTrace, TLAPS

\* The access has a size that the trace knows and names in it every word it
\* touches: it does not straddle two words of which the trace would see one.
Whole(acc) == acc.size \in TracedSizes /\ SpannedWords(acc) \subseteq TracedWords(acc)

\* w is the address of a word.
Aligned(w) == w \in Nat /\ WordOf(w) = w

-----------------------------------------------------------------------------
(* Words and lanes.                                                        *)

\* An access to a pair of words starts on the first.
LEMMA PairStart ==
    ASSUME NEW a \in Nat, (a + 7) - ((a + 7) % 4) = a - (a % 4) + 4
    PROVE  a % 4 = 0
OBVIOUS

\* Its last byte lies beyond the word of the first.
LEMMA LaterWord ==
    ASSUME NEW a \in Nat
    PROVE  (a + 7) - ((a + 7) % 4) # a - (a % 4)
OBVIOUS

LEMMA AccessParts ==
    ASSUME NEW acc \in Access
    PROVE  /\ acc.addr \in Nat
           /\ acc.size \in Nat \ {0}
           /\ OffsetOf(acc.addr) \in Lane
<1>1. acc.addr \in Nat /\ acc.size \in Nat \ {0}
  BY DEF Access
<1>2. OffsetOf(acc.addr) \in Lane
  BY <1>1 DEF OffsetOf, Lane
<1> QED
  BY <1>1, <1>2

LEMMA WholeSizes ==
    ASSUME NEW acc, Whole(acc) \/ ~StoreAsserts(acc)
    PROVE  acc.size \in {1, 2, 4, 8}
BY DEF Whole, StoreAsserts, TracedSizes

\* The words that the trace names are words.
LEMMA TracedAligned ==
    ASSUME NEW acc \in Access, NEW w \in TracedWords(acc)
    PROVE  Aligned(w)
<1>1. acc.addr \in Nat
  BY AccessParts
<1>2. Aligned(WordOf(acc.addr))
  BY <1>1 DEF WordOf, Aligned
<1>3. Aligned(WordOf(acc.addr) + 4)
  BY <1>1 DEF WordOf, Aligned
<1> QED
  BY <1>2, <1>3 DEF TracedWords

\* The word of the last byte of an access.
LEMMA LastWord ==
    ASSUME NEW acc \in Access, Whole(acc)
    PROVE  WordOf(acc.addr + acc.size - 1) =
              IF acc.size = 8 THEN WordOf(acc.addr) + 4 ELSE WordOf(acc.addr)
<1>1. acc.addr \in Nat /\ acc.size \in {1, 2, 4, 8}
  BY AccessParts, WholeSizes
<1>2. WordOf(acc.addr + acc.size - 1) \in TracedWords(acc)
  <2>1. acc.addr + acc.size - 1 \in acc.addr .. acc.addr + acc.size - 1
    BY <1>1
  <2> QED
    BY <2>1 DEF Whole, SpannedWords
<1>3. CASE acc.size = 8
  <2>1. acc.addr + 8 - 1 = acc.addr + 7
    BY <1>1
  <2>2. WordOf(acc.addr + 8 - 1) # WordOf(acc.addr)
    BY <1>1, <2>1, LaterWord DEF WordOf
  <2> QED
    BY <1>2, <1>3, <2>2 DEF TracedWords
<1>4. CASE acc.size # 8
  BY <1>2, <1>4 DEF TracedWords
<1> QED
  BY <1>3, <1>4

\* A pair of words starts on the first.
LEMMA PairWords ==
    ASSUME NEW acc \in Access, Whole(acc), acc.size = 8
    PROVE  /\ WordOf(acc.addr) = acc.addr
           /\ TracedWords(acc) = {acc.addr, acc.addr + 4}
<1>1. acc.addr \in Nat
  BY AccessParts
<1>2. WordOf(acc.addr + 8 - 1) = WordOf(acc.addr) + 4
  BY LastWord
<1>3. acc.addr + 8 - 1 = acc.addr + 7
  BY <1>1
<1>4. acc.addr % 4 = 0
  BY <1>1, <1>2, <1>3, PairStart DEF WordOf
<1>5. WordOf(acc.addr) = acc.addr
  BY <1>1, <1>4 DEF WordOf
<1> QED
  BY <1>5 DEF TracedWords

\* A word of which an access covers a lane is one of the words it spans.
LEMMA CoveredSpanned ==
    ASSUME NEW acc \in Access, NEW w, Aligned(w), NEW l \in CoveredLanes(acc, w)
    PROVE  w \in SpannedWords(acc)
<1>1. acc.addr \in Nat /\ acc.size \in Nat
  BY AccessParts
<1>2. w \in Nat /\ w % 4 = 0
  <2>1. w \in Nat /\ w - (w % 4) = w
    BY DEF Aligned, WordOf
  <2> QED
    BY <2>1
<1>3. l \in 0 .. 3 /\ acc.addr <= w + l /\ w + l < acc.addr + acc.size
  BY DEF CoveredLanes, Lane
<1>4. w + l \in acc.addr .. acc.addr + acc.size - 1
  BY <1>1, <1>2, <1>3
<1>5. WordOf(w + l) = w
  BY <1>2, <1>3 DEF WordOf
<1> QED
  BY <1>4, <1>5 DEF SpannedWords

\* The chunk of a narrow access inside a word starts at its offset, ...
LEMMA ChunkOffset ==
    ASSUME NEW a \in Nat, NEW n \in {1, 2, 4},
           (a + n - 1) - ((a + n - 1) % 4) = a - (a % 4)
    PROVE  ChunkStart(a % 4, n) = a % 4
<1>1. a % 4 \in 0 .. 3
  OBVIOUS
<1>2. CASE n = 1
  BY <1>2 DEF ChunkStart
<1>3. CASE n = 2
  <2>1. a % 4 < 3
    BY <1>3
  <2> QED
    BY <1>1, <1>3, <2>1 DEF ChunkStart
<1>4. CASE n = 4
  <2>1. a % 4 = 0
    BY <1>4
  <2> QED
    BY <1>4, <2>1 DEF ChunkStart
<1> QED
  BY <1>2, <1>3, <1>4

\* ... so the access covers exactly the lanes that setChunk overwrites, ...
LEMMA ChunkCovered ==
    ASSUME NEW acc \in Access, Whole(acc), acc.size # 8, NEW l \in Lane
    PROVE  LET start == ChunkStart(OffsetOf(acc.addr), acc.size)
           IN  /\ l \in CoveredLanes(acc, WordOf(acc.addr))
                     <=> l \in start .. start + acc.size - 1
               /\ l - start = WordOf(acc.addr) + l - acc.addr
               /\ start = OffsetOf(acc.addr)
<1> DEFINE start == ChunkStart(OffsetOf(acc.addr), acc.size)
           off == acc.addr % 4
<1>1. acc.addr \in Nat /\ acc.size \in {1, 2, 4} /\ l \in 0 .. 3
  BY AccessParts, WholeSizes DEF Lane
<1>2. off \in 0 .. 3
  BY <1>1
<1>3. WordOf(acc.addr + acc.size - 1) = WordOf(acc.addr)
  BY LastWord
<1>4. start = off
  BY <1>1, <1>3, ChunkOffset DEF WordOf, OffsetOf
<1>5. WordOf(acc.addr) = acc.addr - off
  BY DEF WordOf
<1>6. ASSUME NEW o \in 0 .. 3
      PROVE  /\ (acc.addr <= acc.addr - o + l /\ acc.addr - o + l < acc.addr + acc.size)
                   <=> l \in o .. o + acc.size - 1
             /\ l - o = acc.addr - o + l - acc.addr
  BY <1>1
<1> HIDE DEF off, start
<1>7. /\ l \in CoveredLanes(acc, WordOf(acc.addr)) <=> l \in off .. off + acc.size - 1
      /\ l - off = WordOf(acc.addr) + l - acc.addr
  BY <1>5, <1>6, <1>2 DEF CoveredLanes
<1> QED
  BY <1>4, <1>7 DEF start, off, OffsetOf

\* ... and a load of a half word passes the assertion of getData.
LEMMA HalfWordPasses ==
    ASSUME NEW acc \in Access, Whole(acc)
    PROVE  ~GetDataAsserts(OffsetOf(acc.addr), acc.size)
<1> SUFFICES ASSUME acc.size = 2, OffsetOf(acc.addr) > 2 PROVE FALSE
  BY DEF GetDataAsserts
<1>1. OffsetOf(acc.addr) \in Lane
  BY AccessParts
<1>2. ChunkStart(OffsetOf(acc.addr), 2) = OffsetOf(acc.addr)
  BY <1>1, ChunkCovered
<1>3. OffsetOf(acc.addr) \in 0 .. 3
  BY <1>1 DEF Lane
<1> QED
  BY <1>2, <1>3 DEF ChunkStart

\* An access of a word or more covers the words it names.
LEMMA WideCovers ==
    ASSUME NEW acc \in Access, Whole(acc), acc.size \in {4, 8},
           NEW w \in TracedWords(acc)
    PROVE  CoveredLanes(acc, w) = Lane
<1>1. acc.addr \in Nat
  BY AccessParts
<1>2. CASE acc.size = 4
  <2>1. WordOf(acc.addr + 4 - 1) = WordOf(acc.addr) /\ w = WordOf(acc.addr)
    BY <1>2, LastWord DEF TracedWords
  <2>2. acc.addr % 4 = 0
    BY <1>1, <2>1 DEF WordOf
  <2>3. w = acc.addr
    BY <1>1, <2>1, <2>2 DEF WordOf
  <2> QED
    BY <1>1, <1>2, <2>3 DEF CoveredLanes, Lane
<1>3. CASE acc.size = 8
  <2>1. w = acc.addr \/ w = acc.addr + 4
    BY <1>3, PairWords
  <2> QED
    BY <1>1, <1>3, <2>1 DEF CoveredLanes, Lane
<1> QED
  BY <1>2, <1>3

\* Every word that an access names has a covered lane.
LEMMA TracedCovered ==
    ASSUME NEW acc \in Access, Whole(acc), NEW w \in TracedWords(acc)
    PROVE  CoveredLanes(acc, w) # {}
<1>1. acc.addr \in Nat /\ acc.size \in {1, 2, 4, 8} /\ OffsetOf(acc.addr) \in Lane
  BY AccessParts, WholeSizes
<1>2. CASE acc.size \in {4, 8}
  BY <1>2, WideCovers DEF Lane
<1>3. CASE acc.size \in {1, 2}
  <2>1. w = WordOf(acc.addr)
    BY <1>3 DEF TracedWords
  <2> DEFINE o == OffsetOf(acc.addr)
  <2>2. ChunkStart(o, acc.size) = o
           /\ (o \in CoveredLanes(acc, w) <=> o \in o .. o + acc.size - 1)
    BY <1>1, <1>3, <2>1, ChunkCovered
  <2>3. o \in o .. o + acc.size - 1
    BY <1>1, <1>3 DEF Lane
  <2> QED
    BY <2>2, <2>3
<1> QED
  BY <1>1, <1>2, <1>3

\* A scan for a word finds it in the read set and nothing else.
LEMMA HasReadWord ==
    ASSUME NEW w, Aligned(w), NEW STATE R
    PROVE  HasRead(R, w, 4) <=> w \in R
BY DEF HasRead, Aligned

-----------------------------------------------------------------------------
(* The write set.                                                          *)

\* A chunk overwrites lanes of a word with bytes of the data.
LEMMA SetChunkType ==
    ASSUME NEW word \in WordValue, NEW offset \in Lane, NEW size \in {1, 2, 4},
           NEW data \in [0 .. size - 1 -> Byte]
    PROVE  SetChunk(word, offset, size, data) \in WordValue
<1> DEFINE start == ChunkStart(offset, size)
<1>1. start \in Int
  BY DEF ChunkStart, Lane
<1>2. ASSUME NEW l \in Lane, l \in start .. start + size - 1
      PROVE  data[l - start] \in Byte
  BY <1>1, <1>2 DEF Lane
<1>3. ASSUME NEW l \in Lane PROVE word[l] \in Byte
  BY DEF WordValue
<1> HIDE DEF start
<1> QED
  BY <1>2, <1>3 DEF SetChunk, WordValue, start

LEMMA StoreWriteSetType ==
    ASSUME NEW acc \in Access, ~StoreAsserts(acc), NEW data \in Data(acc),
           NEW STATE W, NEW STATE M,
           \A w \in DOMAIN W : W[w] \in WordValue,
           \A w \in TracedWords(acc) : M[w] \in WordValue
    PROVE  StoreWriteSet(W, M, acc, data) \in [DOMAIN W \cup TracedWords(acc) -> WordValue]
<1> DEFINE base(w) == IF w \in DOMAIN W THEN W[w] ELSE M[w]
           half(i) == [l \in Lane |-> data[4 * i + l]]
           word(w) == IF acc.size = 8
                      THEN IF w = WordOf(acc.addr) THEN half(0) ELSE half(1)
                      ELSE SetChunk(base(w), OffsetOf(acc.addr), acc.size, data)
           new == [w \in DOMAIN W \cup TracedWords(acc) |->
                      IF w \in TracedWords(acc) THEN word(w) ELSE W[w]]
<1>1. ASSUME NEW w \in TracedWords(acc) PROVE base(w) \in WordValue
  BY <1>1
<1>2. ASSUME acc.size = 8 PROVE half(0) \in WordValue /\ half(1) \in WordValue
  BY <1>2 DEF Data, WordValue, Lane
<1>3. ASSUME NEW w \in TracedWords(acc) PROVE word(w) \in WordValue
  <2>1. CASE acc.size = 8
    BY <1>2, <2>1
  <2>2. CASE acc.size # 8
    <3>1. acc.size \in {1, 2, 4} /\ OffsetOf(acc.addr) \in Lane
      BY <2>2, AccessParts, WholeSizes
    <3> QED
      BY <1>1, <1>3, <2>2, <3>1, SetChunkType DEF Data
  <2> QED
    BY <2>1, <2>2
<1>4. new \in [DOMAIN W \cup TracedWords(acc) -> WordValue]
  <2> HIDE DEF word
  <2> QED
    BY <1>3
<1> QED
  BY <1>4 DEF StoreWriteSet

\* A store buffers its bytes in the lanes it covers, and leaves of the others
\* what was buffered, or memory's where nothing was.
LEMMA StoreLane ==
    ASSUME NEW acc \in Access, Whole(acc), NEW STATE data, NEW STATE W, NEW STATE M,
           NEW w \in DOMAIN W \cup TracedWords(acc), Aligned(w), NEW l \in Lane
    PROVE  StoreWriteSet(W, M, acc, data)[w][l] =
              IF l \in CoveredLanes(acc, w) THEN data[w + l - acc.addr]
              ELSE IF w \in DOMAIN W THEN W[w][l] ELSE M[w][l]
<1> DEFINE base(v) == IF v \in DOMAIN W THEN W[v] ELSE M[v]
           half(i) == [k \in Lane |-> data[4 * i + k]]
           word(v) == IF acc.size = 8
                      THEN IF v = WordOf(acc.addr) THEN half(0) ELSE half(1)
                      ELSE SetChunk(base(v), OffsetOf(acc.addr), acc.size, data)
<1>1. StoreWriteSet(W, M, acc, data)[w] =
         IF w \in TracedWords(acc) THEN word(w) ELSE W[w]
  BY DEF StoreWriteSet
<1>2. acc.addr \in Nat /\ acc.size \in {1, 2, 4, 8} /\ l \in 0 .. 3
  BY AccessParts, WholeSizes DEF Lane
<1>3. CASE w \notin TracedWords(acc)
  <2>1. w \in DOMAIN W /\ l \notin CoveredLanes(acc, w)
    BY <1>3, CoveredSpanned DEF Whole
  <2> QED
    BY <1>1, <1>3, <2>1
<1>4. CASE w \in TracedWords(acc) /\ acc.size = 8
  <2>1. WordOf(acc.addr) = acc.addr /\ (w = acc.addr \/ w = acc.addr + 4)
    BY <1>4, PairWords
  <2>2. l \in CoveredLanes(acc, w)
    BY <1>4, WideCovers
  <2>3. CASE w = acc.addr
    <3>1. word(w)[l] = data[4 * 0 + l] /\ 4 * 0 + l = w + l - acc.addr
      BY <1>2, <1>4, <2>1, <2>3
    <3> QED
      BY <1>1, <1>4, <2>2, <3>1
  <2>4. CASE w = acc.addr + 4
    <3>1. w # acc.addr /\ 4 * 1 + l = w + l - acc.addr
      BY <1>2, <2>4
    <3>2. word(w)[l] = data[4 * 1 + l]
      BY <1>4, <2>1, <3>1
    <3> QED
      BY <1>1, <1>4, <2>2, <3>1, <3>2
  <2> QED
    BY <2>1, <2>3, <2>4
<1>5. CASE w \in TracedWords(acc) /\ acc.size # 8
  <2> DEFINE start == ChunkStart(OffsetOf(acc.addr), acc.size)
  <2>1. w = WordOf(acc.addr)
    BY <1>5 DEF TracedWords
  <2>2. /\ l \in CoveredLanes(acc, w) <=> l \in start .. start + acc.size - 1
        /\ l - start = w + l - acc.addr
    BY <1>5, <2>1, ChunkCovered
  <2>3. word(w) = SetChunk(base(w), OffsetOf(acc.addr), acc.size, data)
    BY <1>5
  <2>4. word(w)[l] = IF l \in start .. start + acc.size - 1 THEN data[l - start]
                                                            ELSE base(w)[l]
    <3> HIDE DEF base
    <3> QED
      BY <2>3 DEF SetChunk
  <2> HIDE DEF start
  <2> QED
    BY <1>1, <1>5, <2>2, <2>4
<1> QED
  BY <1>3, <1>4, <1>5

-----------------------------------------------------------------------------
(* The load.                                                               *)

\* A byte of the access lies in a word that the trace names.
LEMMA ByteOf ==
    ASSUME NEW acc \in Access, Whole(acc), NEW i \in 0 .. acc.size - 1
    PROVE  /\ WordOf(acc.addr + i) \in TracedWords(acc)
           /\ OffsetOf(acc.addr + i) \in Lane
           /\ acc.addr + i = WordOf(acc.addr + i) + OffsetOf(acc.addr + i)
<1>1. acc.addr \in Nat /\ acc.size \in {1, 2, 4, 8} /\ i \in 0 .. acc.size - 1
  BY AccessParts, WholeSizes
<1>2. acc.addr + i \in acc.addr .. acc.addr + acc.size - 1
  BY <1>1
<1>3. OffsetOf(acc.addr + i) \in Lane
  BY <1>1 DEF OffsetOf, Lane
<1>4. acc.addr + i = WordOf(acc.addr + i) + OffsetOf(acc.addr + i)
  BY <1>1 DEF WordOf, OffsetOf
<1> QED
  BY <1>2, <1>3, <1>4 DEF Whole, SpannedWords

\* A load returns what is buffered, or memory where nothing is, byte by byte,
\* unless it is a load of a pair of which one word is buffered.
LEMMA LoadByte ==
    ASSUME NEW acc \in Access, Whole(acc), NEW STATE W, NEW STATE M,
           acc.size = 8 =>
              (WordOf(acc.addr) \in DOMAIN W <=> WordOf(acc.addr) + 4 \in DOMAIN W),
           NEW i \in 0 .. acc.size - 1
    PROVE  LoadValue(W, M, acc)[i] =
              LET w == WordOf(acc.addr + i)
              IN  (IF w \in DOMAIN W THEN W[w] ELSE M[w])[OffsetOf(acc.addr + i)]
<1> DEFINE w == WordOf(acc.addr + i)
           v == WordOf(acc.addr)
           off == OffsetOf(acc.addr + i)
<1>1. /\ acc.addr \in Nat /\ acc.size \in {1, 2, 4, 8} /\ i \in 0 .. acc.size - 1
      /\ OffsetOf(acc.addr) \in Lane
  BY AccessParts, WholeSizes
<1>2. w \in TracedWords(acc) /\ off \in Lane /\ acc.addr + i = w + off
  BY ByteOf
<1>3. CASE v \notin DOMAIN W
  <2>1. w \notin DOMAIN W
    BY <1>2, <1>3 DEF TracedWords
  <2>2. LoadValue(W, M, acc)[i] = M[w][off]
    BY <1>3 DEF LoadValue
  <2> QED
    BY <2>1, <2>2
<1>4. CASE v \in DOMAIN W /\ acc.size = 8
  <2>1. v = acc.addr /\ w \in DOMAIN W /\ (w = v \/ w = v + 4)
    BY <1>2, <1>4, PairWords
  <2>2. LoadValue(W, M, acc)[i] = IF i < 4 THEN W[v][i] ELSE W[v + 4][i - 4]
    <3>1. i \in 0 .. 7
      BY <1>1, <1>4
    <3> QED
      BY <1>4, <3>1 DEF LoadValue
  <2>3. i = w + off - v /\ off \in 0 .. 3
    BY <1>1, <1>2, <2>1 DEF Lane
  <2>4. CASE w = v
    <3>1. i = off /\ i < 4
      BY <1>1, <2>1, <2>3, <2>4
    <3> QED
      BY <2>1, <2>2, <2>4, <3>1
  <2>5. CASE w = v + 4
    <3>1. i - 4 = off /\ ~(i < 4)
      BY <1>1, <2>1, <2>3, <2>5
    <3> QED
      BY <2>1, <2>2, <2>5, <3>1
  <2> QED
    BY <2>1, <2>4, <2>5
<1>5. CASE v \in DOMAIN W /\ acc.size # 8
  <2> DEFINE start == IF acc.size = 4 THEN 0 ELSE OffsetOf(acc.addr)
  <2>1. w = v
    BY <1>2, <1>5 DEF TracedWords
  <2>2. start = OffsetOf(acc.addr)
    <3>1. acc.size = 4 => ChunkStart(OffsetOf(acc.addr), acc.size) = 0
      BY DEF ChunkStart
    <3> QED
      BY <1>1, <1>5, <3>1, ChunkCovered
  <2>3. LoadValue(W, M, acc)[i] = W[v][start + i]
    BY <1>5 DEF LoadValue, GetChunk
  <2>4. OffsetOf(acc.addr) + i = off
    <3>1. acc.addr = v + OffsetOf(acc.addr) /\ v \in Int
      BY <1>1 DEF WordOf, OffsetOf
    <3>2. OffsetOf(acc.addr) \in Int /\ off \in Int
      BY <1>1, <1>2 DEF Lane
    <3> HIDE DEF off, w, v
    <3> QED
      BY <1>1, <1>2, <2>1, <3>1, <3>2
  <2> QED
    BY <1>5, <2>1, <2>2, <2>3, <2>4
<1> QED
  BY <1>3, <1>4, <1>5
==============================================================================
