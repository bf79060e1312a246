------------------------- MODULE WriteBufferProofs -------------------------
(***************************************************************************)
(* Theorems about WriteBuffer: the write set is the overlay it stands for, *)
(* for any memory, any data and any accesses that the trace knows and that *)
(* do not straddle words.                                                  *)
(***************************************************************************)
EXTENDS WriteBuffer, MemoryTraceProofs

WholeStores == \A acc \in Stores : Whole(acc)
WholeLoads == \A acc \in Loads : Whole(acc)

\* Whatever buffers one word of a pair that is loaded buffers the other.
PairedLoads ==
    \A acc \in Loads : acc.size = 8 => \A st \in Stores :
        WordOf(acc.addr) \in TracedWords(st) <=> WordOf(acc.addr) + 4 \in TracedWords(st)

LEMMA AccessFacts ==
    /\ \A acc \in Loads \cup Stores : acc \in Access /\ TracedWords(acc) \subseteq Words
    /\ \A acc \in Stores : \A data \in StoreData(acc) : data \in Data(acc)
    /\ \A w \in Words : Aligned(w)
BY AccessAssumption, WordAssumption DEF Aligned

\* An access that does not straddle covers lanes of the words it names only.
LEMMA NoneCovered ==
    ASSUME NEW acc \in Stores, Whole(acc), NEW w \in Words, w \notin TracedWords(acc)
    PROVE  CoveredLanes(acc, w) = {}
BY AccessFacts, CoveredSpanned DEF Whole

-----------------------------------------------------------------------------
(* Type correctness.                                                       *)

LEMMA TypeStep == TypeOK /\ [Next]_vars => TypeOK'
<1> SUFFICES ASSUME TypeOK, [Next]_vars PROVE TypeOK'
  OBVIOUS
<1>1. ASSUME NEW acc \in Stores, NEW data \in StoreData(acc), Store(acc, data)
      PROVE  TypeOK'
  <2>1. acc \in Access /\ data \in Data(acc) /\ TracedWords(acc) \subseteq Words
    BY AccessFacts
  <2>1a. ~StoreAsserts(acc)
    BY <1>1 DEF Store
  <2>2. /\ \A w \in DOMAIN write_set : write_set[w] \in WordValue
        /\ \A w \in TracedWords(acc) : mem[w] \in WordValue
    BY <2>1 DEF TypeOK
  <2>3. write_set' \in [DOMAIN write_set \cup TracedWords(acc) -> WordValue]
    <3>1. StoreWriteSet(write_set, mem, acc, data)
             \in [DOMAIN write_set \cup TracedWords(acc) -> WordValue]
      BY <2>1, <2>1a, <2>2, StoreWriteSetType
    <3> QED
      BY <1>1, <3>1 DEF Store
  <2>4. read_set' \in SUBSET Words
    BY <1>1, <2>1 DEF Store, StoreReadSet, ImpliedReads, TypeOK
  <2>5. DOMAIN own' = Words /\ \A w \in Words : DOMAIN own'[w] \subseteq Lane
    BY <1>1 DEF Store, TypeOK, CoveredLanes
  <2> QED
    BY <1>1, <2>1, <2>3, <2>4, <2>5 DEF Store, TypeOK
<1>2. ASSUME NEW acc \in Loads, Load(acc) PROVE TypeOK'
  BY <1>2, AccessFacts DEF Load, LoadReadSet, TypeOK
<1>3. ASSUME read_set' = {}, write_set' = NoWrites, own' = NothingStored,
             mem' \in [Words -> WordValue]
      PROVE  TypeOK'
  BY <1>3 DEF TypeOK, NoWrites, NothingStored
<1>4. ASSUME Commit PROVE TypeOK'
  BY <1>3, <1>4 DEF Commit, CommitWrites, TypeOK
<1>5. ASSUME Clear PROVE TypeOK'
  BY <1>3, <1>5 DEF Clear, TypeOK
<1>6. ASSUME NEW w \in Words, NEW value \in OtherValues, OtherWrite(w, value) PROVE TypeOK'
  BY <1>6, AccessAssumption DEF OtherWrite, TypeOK
<1>7. CASE UNCHANGED vars
  BY <1>7 DEF vars, TypeOK
<1> QED
  BY <1>1, <1>2, <1>4, <1>5, <1>6, <1>7 DEF Next

LEMMA TypeInit == Init => TypeOK
BY AccessAssumption DEF Init, TypeOK, NoWrites, NothingStored

\* Every buffered word is a whole word of memory, whatever part was stored.
THEOREM TypeCorrect == Spec => []TypeOK
BY TypeInit, TypeStep, PTL DEF Spec

-----------------------------------------------------------------------------
(* The write set and the overlay.                                          *)

\* A buffered word holds the overlay, and memory's part of it cannot change,
\* because the word is in the read set or has no such part; a word that is
\* not buffered has not been stored to.
Buffered(w) ==
    IF w \in DOMAIN write_set
    THEN /\ w \in read_set \/ DOMAIN own[w] = Lane
         /\ \A l \in Lane : write_set[w][l] = Overlay[w][l]
    ELSE DOMAIN own[w] = {}
BInv == TypeOK /\ \A w \in Words : Buffered(w)

LEMMA OverlayLane ==
    ASSUME NEW w \in Words, NEW l \in Lane
    PROVE  /\ Overlay[w][l] = IF l \in DOMAIN own[w] THEN own[w][l] ELSE mem[w][l]
           /\ Overlay'[w][l] = IF l \in DOMAIN own'[w] THEN own'[w][l] ELSE mem'[w][l]
BY DEF Overlay

\* A store overlays the lanes it covers, in the write set and in the overlay.
LEMMA StoreBuffers ==
    ASSUME WholeStores, BInv, NEW acc \in Stores, NEW data \in StoreData(acc),
           Store(acc, data), NEW w \in Words
    PROVE  Buffered(w)'
<1>1. /\ acc \in Access /\ acc.size \in {1, 2, 4, 8} /\ Whole(acc) /\ Aligned(w)
      /\ TracedWords(acc) \subseteq Words
  BY AccessFacts, WholeSizes DEF WholeStores
<1>2. /\ write_set' = StoreWriteSet(write_set, mem, acc, data) /\ mem' = mem
      /\ read_set' = read_set \cup ImpliedReads(write_set, acc)
      /\ DOMAIN own'[w] = DOMAIN own[w] \cup CoveredLanes(acc, w)
      /\ \A l \in DOMAIN own'[w] :
            own'[w][l] = IF l \in CoveredLanes(acc, w) THEN data[w + l - acc.addr]
                                                       ELSE own[w][l]
  BY DEF Store, StoreReadSet
<1>3. /\ DOMAIN own[w] \subseteq Lane /\ CoveredLanes(acc, w) \subseteq Lane
      /\ Buffered(w)
  BY DEF BInv, TypeOK, CoveredLanes
<1>4. DOMAIN write_set' = DOMAIN write_set \cup TracedWords(acc)
  BY <1>2 DEF StoreWriteSet
<1>5. CASE w \notin DOMAIN write_set \cup TracedWords(acc)
  BY <1>1, <1>2, <1>3, <1>4, <1>5, NoneCovered DEF Buffered
<1>6. CASE w \in DOMAIN write_set \cup TracedWords(acc)
  <2>1. w \in read_set' \/ DOMAIN own'[w] = Lane
    <3>1. CASE w \in DOMAIN write_set
      BY <1>2, <1>3, <3>1 DEF Buffered
    <3>2. CASE w \notin DOMAIN write_set /\ acc.size \in {4, 8}
      BY <1>1, <1>2, <1>3, <1>6, <3>2, WideCovers
    <3>3. CASE w \notin DOMAIN write_set /\ acc.size \in {1, 2}
      BY <1>2, <1>6, <3>3 DEF ImpliedReads
    <3> QED
      BY <1>1, <3>1, <3>2, <3>3
  <2>2. ASSUME NEW l \in Lane PROVE write_set'[w][l] = Overlay'[w][l]
    <3>1. write_set'[w][l] =
             IF l \in CoveredLanes(acc, w) THEN data[w + l - acc.addr]
             ELSE IF w \in DOMAIN write_set THEN write_set[w][l] ELSE mem[w][l]
      <4>1. StoreWriteSet(write_set, mem, acc, data)[w][l] =
               IF l \in CoveredLanes(acc, w) THEN data[w + l - acc.addr]
               ELSE IF w \in DOMAIN write_set THEN write_set[w][l] ELSE mem[w][l]
        BY <1>1, <1>6, StoreLane
      <4> QED
        BY <1>2, <4>1
    <3>2. Overlay'[w][l] =
             IF l \in CoveredLanes(acc, w) THEN data[w + l - acc.addr] ELSE Overlay[w][l]
      BY <1>2, OverlayLane
    <3>3. w \in DOMAIN write_set => write_set[w][l] = Overlay[w][l]
      BY <1>3 DEF Buffered
    <3>4. w \notin DOMAIN write_set => mem[w][l] = Overlay[w][l]
      BY <1>3, OverlayLane DEF Buffered
    <3> QED
      BY <3>1, <3>2, <3>3, <3>4
  <2> QED
    BY <1>4, <1>6, <2>1, <2>2 DEF Buffered
<1> QED
  BY <1>5, <1>6

LEMMA BStep == WholeStores /\ BInv /\ [Next]_vars => BInv'
<1> SUFFICES ASSUME WholeStores, BInv, [Next]_vars PROVE \A w \in Words : Buffered(w)'
  BY TypeStep DEF BInv
<1>1. TypeOK /\ \A w \in Words : Buffered(w)
  BY DEF BInv
<1>2. ASSUME NEW acc \in Stores, NEW data \in StoreData(acc), Store(acc, data)
      PROVE  \A w \in Words : Buffered(w)'
  BY <1>2, StoreBuffers
<1>3. ASSUME UNCHANGED <<mem, write_set, own>>, read_set \subseteq read_set'
      PROVE  \A w \in Words : Buffered(w)'
  BY <1>1, <1>3 DEF Buffered, Overlay
<1>4. ASSUME NEW acc \in Loads, Load(acc) PROVE \A w \in Words : Buffered(w)'
  BY <1>3, <1>4 DEF Load, LoadReadSet
<1>5. ASSUME Commit \/ Clear PROVE \A w \in Words : Buffered(w)'
  BY <1>5 DEF Commit, Clear, NoWrites, NothingStored, Buffered
<1>6. ASSUME NEW v \in Words, NEW value \in OtherValues, OtherWrite(v, value),
             NEW w \in Words
      PROVE  Buffered(w)'
  <2>1. /\ write_set' = write_set /\ read_set' = read_set /\ own' = own
        /\ v \notin read_set /\ (w # v => mem'[w] = mem[w])
    BY <1>1, <1>6 DEF OtherWrite, TypeOK
  <2>2. CASE w \notin DOMAIN write_set
    BY <1>1, <2>1, <2>2 DEF Buffered
  <2>3. CASE w \in DOMAIN write_set
    <3>1. \A l \in Lane : Overlay'[w][l] = Overlay[w][l]
      BY <1>1, <2>1, <2>3, OverlayLane DEF Buffered
    <3> QED
      BY <1>1, <2>1, <2>3, <3>1 DEF Buffered
  <2> QED
    BY <2>2, <2>3
<1>7. CASE UNCHANGED vars
  BY <1>3, <1>7 DEF vars
<1> QED
  BY <1>2, <1>4, <1>5, <1>6, <1>7 DEF Next

LEMMA BInit == Init => BInv
BY TypeInit DEF Init, BInv, Buffered, NoWrites, NothingStored

LEMMA BInvHolds == WholeStores => (Spec => []BInv)
<1> SUFFICES ASSUME WholeStores PROVE Spec => []BInv
  OBVIOUS
<1>1. BInv /\ [Next]_vars => BInv'
  BY BStep
<1> QED
  BY <1>1, BInit, PTL DEF Spec

\* A commit writes whole words, yet it changes the stored bytes only, however
\* the stores overlapped and whatever others wrote in the meantime.
THEOREM CommitPublishesOwnBytesHolds ==
    WholeStores => (Spec => []CommitPublishesOwnBytes)
<1> SUFFICES ASSUME WholeStores PROVE Spec => []CommitPublishesOwnBytes
  OBVIOUS
<1>1. BInv => CommitPublishesOwnBytes
  <2> SUFFICES ASSUME BInv PROVE CommitWrites(write_set, mem) = Overlay
    BY DEF CommitPublishesOwnBytes
  <2>1. DOMAIN mem = Words
    BY DEF BInv, TypeOK
  <2>2. ASSUME NEW w \in Words
        PROVE  (IF w \in DOMAIN write_set THEN write_set[w] ELSE mem[w]) = Overlay[w]
    <3>1. /\ Overlay[w] = [l \in Lane |-> Overlay[w][l]]
          /\ mem[w] = [l \in Lane |-> mem[w][l]]
          /\ w \in DOMAIN write_set => write_set[w] = [l \in Lane |-> write_set[w][l]]
      BY DEF Overlay, BInv, TypeOK, WordValue
    <3>2. \A l \in Lane : w \in DOMAIN write_set => write_set[w][l] = Overlay[w][l]
      BY DEF BInv, Buffered
    <3>3. \A l \in Lane : w \notin DOMAIN write_set => mem[w][l] = Overlay[w][l]
      BY OverlayLane DEF BInv, Buffered
    <3> QED
      BY <3>1, <3>2, <3>3
  <2>3. Overlay = [w \in Words |-> Overlay[w]]
    BY DEF Overlay
  <2> QED
    BY <2>1, <2>2, <2>3 DEF CommitWrites
<1> QED
  BY <1>1, BInvHolds, PTL

-----------------------------------------------------------------------------
(* Loads.                                                                  *)

\* The words of a pair that is loaded are buffered together.
Paired ==
    \A acc \in Loads : acc.size = 8 =>
        (WordOf(acc.addr) \in DOMAIN write_set <=> WordOf(acc.addr) + 4 \in DOMAIN write_set)

LEMMA PairedHolds == PairedLoads => (Spec => []Paired)
<1> SUFFICES ASSUME PairedLoads PROVE Spec => []Paired
  OBVIOUS
<1>1. Init => Paired
  BY DEF Init, Paired, NoWrites
<1>2. Paired /\ [Next]_vars => Paired'
  <2> SUFFICES ASSUME Paired, [Next]_vars PROVE Paired'
    OBVIOUS
  <2>1. ASSUME NEW acc \in Stores, NEW data \in StoreData(acc), Store(acc, data)
        PROVE  Paired'
    <3>1. DOMAIN write_set' = DOMAIN write_set \cup TracedWords(acc)
      BY <2>1 DEF Store, StoreWriteSet
    <3> QED
      BY <3>1 DEF Paired, PairedLoads
  <2>2. ASSUME write_set' = write_set \/ write_set' = NoWrites PROVE Paired'
    BY <2>2 DEF Paired, NoWrites
  <2> QED
    BY <2>1, <2>2 DEF Next, Load, Commit, Clear, OtherWrite, vars
<1> QED
  BY <1>1, <1>2, PTL DEF Spec

\* No load of a program that stores the pairs it loads whole trips an assertion
\* of the trace.
THEOREM LoadsDoNotAssertHolds ==
    WholeLoads /\ PairedLoads => (Spec => []LoadsDoNotAssert)
<1> SUFFICES ASSUME WholeLoads, PairedLoads PROVE Spec => []LoadsDoNotAssert
  OBVIOUS
<1>1. Paired => LoadsDoNotAssert
  <2> SUFFICES ASSUME Paired, NEW acc \in Loads, LoadAsserts(write_set, acc) PROVE FALSE
    BY DEF LoadsDoNotAssert
  <2>1. GetDataAsserts(OffsetOf(acc.addr), acc.size)
    BY DEF LoadAsserts, Paired, WholeLoads, Whole
  <2> QED
    BY <2>1, AccessFacts, HalfWordPasses DEF WholeLoads
<1> QED
  BY <1>1, PairedHolds, PTL

\* Every load returns the transaction's own bytes and memory's elsewhere, if
\* no access straddles words and the pairs that are loaded are stored whole.
THEOREM ReadsOwnWritesHolds ==
    WholeStores /\ WholeLoads /\ PairedLoads => (Spec => []ReadsOwnWrites)
<1> SUFFICES ASSUME WholeStores, WholeLoads, PairedLoads PROVE Spec => []ReadsOwnWrites
  OBVIOUS
<1>1. BInv /\ Paired => ReadsOwnWrites
  <2> SUFFICES ASSUME BInv, Paired, NEW acc \in Loads
               PROVE  LoadValue(write_set, mem, acc) = Expected(acc)
    BY DEF ReadsOwnWrites
  <2>1. acc \in Access /\ Whole(acc) /\ TracedWords(acc) \subseteq Words
    BY AccessFacts DEF WholeLoads
  <2>2. ASSUME NEW i \in 0 .. acc.size - 1
        PROVE  LoadValue(write_set, mem, acc)[i] = Expected(acc)[i]
    <3> DEFINE w == WordOf(acc.addr + i)
               l == OffsetOf(acc.addr + i)
    <3>1. w \in Words /\ l \in Lane
      BY <2>1, ByteOf
    <3>2. LoadValue(write_set, mem, acc)[i] =
             (IF w \in DOMAIN write_set THEN write_set[w] ELSE mem[w])[l]
      BY <2>1, LoadByte DEF Paired
    <3>3. Expected(acc)[i] = Overlay[w][l]
      BY DEF Expected
    <3> HIDE DEF w, l
    <3>4. w \in DOMAIN write_set => write_set[w][l] = Overlay[w][l]
      BY <3>1 DEF BInv, Buffered
    <3>5. w \notin DOMAIN write_set => mem[w][l] = Overlay[w][l]
      BY <3>1, OverlayLane DEF BInv, Buffered
    <3> QED
      BY <3>2, <3>3, <3>4, <3>5
  <2>3. /\ Expected(acc) = [i \in 0 .. acc.size - 1 |-> Expected(acc)[i]]
        /\ LoadValue(write_set, mem, acc) =
              [i \in 0 .. acc.size - 1 |-> LoadValue(write_set, mem, acc)[i]]
    <3>1. acc.size = 8 => acc.size - 1 = 7
      OBVIOUS
    <3> QED
      BY <3>1 DEF Expected, LoadValue, GetChunk
  <2> QED
    BY <2>2, <2>3
<1> QED
  BY <1>1, BInvHolds, PairedHolds, PTL
==============================================================================
