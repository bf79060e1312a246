-------------------------- MODULE RefinementProofs --------------------------
(***************************************************************************)
(* The module implements SerialMemory, for any number of cores and any     *)
(* memory.                                                                 *)
(***************************************************************************)
EXTENDS TransmemRefines, TransmemBlockProofs

-----------------------------------------------------------------------------
(* What a store buffers.                                                   *)

\* The stored lanes are lanes of buffered words.
StoredBuffered ==
    \A c \in Core : \A w \in Words : stored[c][w] # {} => w \in DOMAIN write_set[c]

LEMMA StoredBufferedStep ==
    TypeOK /\ WholeWords /\ OnlyVanilla /\ StoredBuffered /\ [Next]_vars => StoredBuffered'
<1> SUFFICES ASSUME TypeOK, WholeWords, OnlyVanilla, StoredBuffered, [Next]_vars
             PROVE  StoredBuffered'
  OBVIOUS
<1>1. ASSUME UNCHANGED <<write_set, stored>> PROVE StoredBuffered'
  BY <1>1 DEF StoredBuffered
<1>2. ASSUME NEW c \in Core, NEW acc \in Stores, NEW data \in StoreData(acc),
             Store(c, acc, data, "vanilla")
      PROVE  StoredBuffered'
  <2>1. ~StoreAsserts(acc)
    BY StoresTraced
  <2>2. ASSUME NEW w \in Words, stored'[c][w] # {} PROVE w \in DOMAIN write_set'[c]
    <3>1. stored'[c][w] = stored[c][w] \cup CoveredLanes(acc, w)
          /\ DOMAIN write_set'[c] = DOMAIN write_set[c] \cup TracedWords(acc)
      BY <1>2, <2>1, StoreEffect
    <3>2. CoveredLanes(acc, w) # {} => w \in TracedWords(acc)
      BY AccessFacts, WordsAligned, CoveredSpanned DEF WholeWords
    <3> QED
      BY <2>2, <3>1, <3>2 DEF StoredBuffered
  <2> QED
    BY <1>2, <2>1, <2>2, StoreEffect DEF StoredBuffered
<1>3. ASSUME NEW c \in Core, Emptied(c) PROVE StoredBuffered'
  BY <1>3 DEF Emptied, EmptiedTo, TypeOK, StoredBuffered, NoStores
<1>4. ASSUME NEW c \in Core, Callbacks(c) PROVE StoredBuffered'
  BY <1>1, <1>3, <1>4 DEF Callbacks, CommitTransactionIdx, AbortTransactionIdx,
     AbortRequested, trace
<1>5. ASSUME NEW c \in Core, Instruction(c) PROVE StoredBuffered'
  <2>1. ASSUME \A acc \in Stores, type \in StoreTypes : \A data \in StoreData(acc) :
                  ~Store(c, acc, data, type)
        PROVE  UNCHANGED <<write_set, stored>>
    BY <1>5, <2>1 DEF Instruction, BeginTransaction, CommitTransaction, AbortTransaction,
       EarlyRelease, Erases, LoadStalls, Load, PlainStore, OtherInstruction, CoreExceptionReturn,
       CoreBreakpoint, trace
  <2> QED
    BY <1>1, <1>2, <2>1 DEF OnlyVanilla
<1> QED
  BY <1>1, <1>4, <1>5 DEF Next, vars, trace

-----------------------------------------------------------------------------
(* The steps.                                                              *)

RInv == IInv /\ FInv /\ SnapshotsCurrent /\ OneCheckpoint /\ StoredBuffered

\* The mapped state, core by core.
LEMMA WrittenSame ==
    ASSUME NEW d \in Core, stored'[d] = stored[d], write_set'[d] = write_set[d]
    PROVE  Written'[d] = Written[d]
BY DEF Written

\* A step that leaves the histories and the running transactions alone.
LEMMA SerialStutter ==
    ASSUME UNCHANGED <<mem, mStatus, seen, stored, write_set>>
    PROVE  UNCHANGED Serial!vars
BY DEF Serial!vars, OpenBlocks, Written, Running

LEMMA SerialBegin ==
    ASSUME RInv, NEW c \in Core, BeginTransaction(c)
    PROVE  Serial!Begin(c) \/ UNCHANGED Serial!vars
<1>1. UNCHANGED <<mem, seen, stored, write_set>> /\ Written' = Written
  BY DEF BeginTransaction, trace, Written
<1>2. CASE nesting[c] = 0
  <2>1. ~Running(c)
    BY <1>2 DEF RInv, OneCheckpoint
  <2>2. mStatus' = [mStatus EXCEPT ![c] = "ON"] /\ DOMAIN mStatus = Core
    BY <1>2 DEF BeginTransaction, Begun, RInv, IInv, TypeOK
  <2>3. OpenBlocks' = OpenBlocks \cup {c}
    BY <2>2 DEF OpenBlocks, Running
  <2> QED
    BY <1>1, <2>1, <2>3 DEF Serial!Begin, OpenBlocks
<1>3. CASE nesting[c] # 0
  BY <1>1, <1>3, SerialStutter DEF BeginTransaction
<1> QED
  BY <1>2, <1>3

LEMMA SerialRead ==
    ASSUME RInv, NEW c \in Core, NEW acc \in Loads, NEW type, Load(c, acc, type)
    PROVE  Serial!Read(c, acc)
<1>1. /\ Running(c)
      /\ UNCHANGED <<mem, mStatus, write_set, stored>>
      /\ seen' = [seen EXCEPT ![c] = Depend(@, SpannedWords(acc))]
  BY DEF Load, transaction
<1>2. OpenBlocks' = OpenBlocks /\ Written' = Written /\ c \in OpenBlocks
  BY <1>1 DEF OpenBlocks, Written, Running
<1>3. Depend(seen[c], SpannedWords(acc)) = Serial!Learn(seen[c], Serial!SpannedWords(acc))
  BY DEF Depend, Serial!Learn, SpannedWords, Serial!SpannedWords, WordOf, Serial!WordOf
<1> QED
  BY <1>1, <1>2, <1>3 DEF Serial!Read

LEMMA SerialWrite ==
    ASSUME WholeWords, RInv, NEW c \in Core, NEW acc \in Stores,
           NEW data \in StoreData(acc), Store(c, acc, data, "vanilla")
    PROVE  Serial!Write(c, acc, data)
<1>1. /\ TypeOK /\ Running(c) /\ StoredBuffered /\ ~StoreAsserts(acc)
      /\ UNCHANGED <<mem, mStatus>>
      /\ seen' = [seen EXCEPT ![c] = Depend(@, ImpliedReads(write_set[c], acc))]
  BY StoresTraced DEF Store, transaction, RInv, IInv
<1>2. OpenBlocks' = OpenBlocks /\ c \in OpenBlocks
  BY <1>1 DEF OpenBlocks, Running
<1>3. \E words \in SUBSET Serial!SpannedWords(acc) :
         seen' = [seen EXCEPT ![c] = Serial!Learn(@, words)]
  <2>1. ImpliedReads(write_set[c], acc) \in SUBSET Serial!SpannedWords(acc)
    BY DEF ImpliedReads, WholeWords, SpannedWords, Serial!SpannedWords, WordOf,
       Serial!WordOf
  <2>2. Depend(seen[c], ImpliedReads(write_set[c], acc))
           = Serial!Learn(seen[c], ImpliedReads(write_set[c], acc))
    BY DEF Depend, Serial!Learn
  <2> QED
    BY <1>1, <2>1, <2>2
<1> DEFINE added(w) ==
             [l \in DOMAIN Written[c][w] \cup CoveredLanes(acc, w) |->
                 IF l \in CoveredLanes(acc, w) THEN data[w + l - acc.addr]
                                               ELSE Written[c][w][l]]
<1>4. ASSUME NEW w \in Words
      PROVE  [l \in stored'[c][w] |-> write_set'[c][w][l]] = added(w)
  <2>1. /\ stored'[c][w] = stored[c][w] \cup CoveredLanes(acc, w)
        /\ write_set'[c] = StoreWriteSet(write_set[c], mem, acc, data)
    BY <1>1, StoreEffect
  <2>2. stored[c][w] \subseteq Lane /\ CoveredLanes(acc, w) \subseteq Lane
    BY <1>1 DEF TypeOK, CoveredLanes
  <2>3. Written[c][w] = [l \in stored[c][w] |-> write_set[c][w][l]]
    BY DEF Written
  <2>4. Whole(acc)
    BY DEF Whole, WholeWords
  <2>5. ASSUME NEW l \in CoveredLanes(acc, w)
        PROVE  write_set'[c][w][l] = data[w + l - acc.addr]
    <3>1. w \in TracedWords(acc) /\ l \in Lane
      BY <2>2, AccessFacts, WordsAligned, CoveredSpanned DEF WholeWords
    <3> QED
      BY <2>1, <2>4, <3>1, AccessFacts, WordsAligned, StoreLane
  <2>6. ASSUME NEW l \in stored[c][w] \ CoveredLanes(acc, w)
        PROVE  write_set'[c][w][l] = write_set[c][w][l]
    <3>1. w \in DOMAIN write_set[c] /\ l \in Lane
      BY <1>1, <2>2, <2>6 DEF StoredBuffered
    <3> QED
      BY <2>1, <2>4, <2>6, <3>1, AccessFacts, WordsAligned, StoreLane
  <2> QED
    BY <2>1, <2>3, <2>5, <2>6
<1>5. Written' = [Written EXCEPT ![c] = [w \in Words |-> added(w)]]
  <2>1. \A d \in Core \ {c} : Written'[d] = Written[d]
    BY <1>1, StoreEffect, WrittenSame
  <2>2. Written'[c] = [w \in Words |-> added(w)]
    <3>1. Written'[c] = [w \in Words |-> [l \in stored'[c][w] |-> write_set'[c][w][l]]]
      BY DEF Written
    <3> HIDE DEF added
    <3> QED
      BY <1>4, <3>1
  <2>3. /\ Written = [d \in Core |-> Written[d]]
        /\ Written' = [d \in Core |-> Written'[d]]
    BY DEF Written
  <2> HIDE DEF added
  <2> QED
    BY <2>1, <2>2, <2>3
<1>6. \A w \in Words : Serial!CoveredLanes(acc, w) = CoveredLanes(acc, w)
  BY DEF CoveredLanes, Serial!CoveredLanes, Lane, Serial!Lane
<1>7. Written' = [Written EXCEPT ![c] =
         [w \in Words |-> [l \in DOMAIN @[w] \cup Serial!CoveredLanes(acc, w) |->
            IF l \in Serial!CoveredLanes(acc, w) THEN data[w + l - acc.addr] ELSE @[w][l]]]]
  BY <1>5, <1>6
<1> QED
  BY <1>1, <1>2, <1>3, <1>7 DEF Serial!Write

\* The end of a block.
LEMMA SerialClose ==
    ASSUME TypeOK, NEW c \in Core, Emptied(c)
    PROVE  /\ OpenBlocks' = OpenBlocks \ {c}
           /\ seen' = [seen EXCEPT ![c] = Serial!NoReads]
           /\ Written' = [Written EXCEPT ![c] = Serial!NothingWritten]
<1>1. /\ mStatus' = [mStatus EXCEPT ![c] = "OFF"] /\ DOMAIN mStatus = Core
      /\ seen' = [seen EXCEPT ![c] = Fresh]
      /\ stored' = [stored EXCEPT ![c] = NoStores] /\ DOMAIN stored = Core
      /\ write_set' = [write_set EXCEPT ![c] = NoWrites] /\ DOMAIN write_set = Core
  BY DEF Emptied, EmptiedTo, TypeOK
<1>2. OpenBlocks' = OpenBlocks \ {c}
  BY <1>1 DEF OpenBlocks, Running
<1>3. \A d \in Core \ {c} : Written'[d] = Written[d]
  BY <1>1, WrittenSame
<1>4. Written'[c] = Serial!NothingWritten
  <2>1. Written'[c] = [w \in Words |-> [l \in stored'[c][w] |-> write_set'[c][w][l]]]
    BY DEF Written
  <2>2. \A w \in Words : stored'[c][w] = {}
    BY <1>1 DEF NoStores
  <2>3. ASSUME NEW w \in Words
        PROVE  [l \in stored'[c][w] |-> write_set'[c][w][l]] = [l \in {} |-> {}]
    BY <2>2
  <2> QED
    BY <2>1, <2>3 DEF Serial!NothingWritten
<1>5. /\ Written = [d \in Core |-> Written[d]]
      /\ Written' = [d \in Core |-> Written'[d]]
  BY DEF Written
<1>6. Written' = [Written EXCEPT ![c] = Serial!NothingWritten]
  BY <1>3, <1>4, <1>5
<1>7. Fresh = Serial!NoReads
  BY DEF Fresh, Serial!NoReads
<1> QED
  BY <1>1, <1>2, <1>6, <1>7

LEMMA SerialCommit ==
    ASSUME RInv, NEW c \in Core, CommitTransactionIdx(c)
    PROVE  Serial!Commit(c) \/ UNCHANGED Serial!vars
<1>1. /\ posted[c]["commit_transaction_idx"] > 0
      /\ mem' = CommitWrites(write_set[c], mem)
      /\ Emptied(c)
  BY DEF CommitTransactionIdx, Delivered
<1>2. /\ TypeOK /\ CommitReady /\ Opacity /\ SnapshotsCurrent /\ StoredBuffered
      /\ DOMAIN mem = Words /\ write_set[c] \in WordMap
  BY DEF RInv, IInv, TypeOK
<1>3. CASE Running(c)
  <2>1. ~Doomed(c)
    BY <1>1, <1>2 DEF CommitReady
  <2>2. Serial!Current(c)
    BY <1>2, <1>3, <2>1 DEF Opacity, Serial!Current
  <2>3. mem' = [w \in Words |-> [l \in Lane |->
                   IF l \in stored[c][w] THEN write_set[c][w][l] ELSE mem[w][l]]]
    <3>1. ASSUME NEW w \in Words
          PROVE  (IF w \in DOMAIN write_set[c] THEN write_set[c][w] ELSE mem[w]) =
                 [l \in Lane |-> IF l \in stored[c][w] THEN write_set[c][w][l] ELSE mem[w][l]]
      <4>1. mem[w] = [l \in Lane |-> mem[w][l]]
        BY <1>2 DEF TypeOK, WordValue
      <4>2. CASE w \in DOMAIN write_set[c]
        <5>1. write_set[c][w] \in WordValue
          BY <1>2, <4>2, WordMapElim
        <5>2. write_set[c][w] = [l \in Lane |-> write_set[c][w][l]]
          BY <5>1 DEF WordValue
        <5>3. \A l \in Lane \ stored[c][w] : write_set[c][w][l] = mem[w][l]
          BY <1>2, <1>3, <2>1, <4>2 DEF SnapshotsCurrent
        <5> QED
          BY <4>2, <5>2, <5>3
      <4>3. CASE w \notin DOMAIN write_set[c]
        <5>1. stored[c][w] = {}
          BY <1>2, <4>3 DEF StoredBuffered
        <5> QED
          BY <4>1, <4>3, <5>1
      <4> QED
        BY <4>2, <4>3
    <3> QED
      BY <1>1, <1>2, <3>1 DEF CommitWrites
  <2>4. \A w \in Words : DOMAIN Written[c][w] = stored[c][w]
                       /\ \A l \in stored[c][w] : Written[c][w][l] = write_set[c][w][l]
    BY DEF Written
  <2>5. mem' = [w \in Words |-> [l \in Serial!Lane |->
                   IF l \in DOMAIN Written[c][w] THEN Written[c][w][l] ELSE mem[w][l]]]
    BY <2>3, <2>4 DEF Serial!Lane, Lane
  <2>6. c \in OpenBlocks
    BY <1>3 DEF OpenBlocks
  <2> QED
    BY <1>1, <1>2, <2>2, <2>5, <2>6, SerialClose DEF Serial!Commit, Serial!Close
<1>4. CASE ~Running(c)
  <2>1. /\ DOMAIN write_set[c] = {} /\ DOMAIN seen[c] = {}
        /\ \A w \in Words : stored[c][w] = {}
    BY <1>2, <1>4 DEF RInv, IInv, IdleDependsOnNothing, FInv, Footprint, StoredBuffered
  <2>2. mem' = mem
    BY <1>1, <1>2, <2>1 DEF CommitWrites, TypeOK
  <2>3. OpenBlocks' = OpenBlocks
    BY <1>1, <1>2, <1>4, SerialClose DEF OpenBlocks
  <2>4. seen' = seen
    <3>1. seen[c] = Fresh /\ seen \in [Core -> WordMap]
      <4>1. seen \in [Core -> WordMap] /\ seen[c] \in WordMap
        BY <1>2 DEF TypeOK
      <4> QED
        BY <2>1, <4>1, WordMapElim DEF Fresh
    <3> QED
      BY <1>1, <3>1 DEF Emptied, EmptiedTo
  <2>5. Written' = Written
    <3>1. Written[c] = Serial!NothingWritten
      <4>1. ASSUME NEW w \in Words
            PROVE  [l \in stored[c][w] |-> write_set[c][w][l]] = [l \in {} |-> {}]
        BY <2>1
      <4> QED
        BY <4>1 DEF Written, Serial!NothingWritten
    <3>2. Written' = [Written EXCEPT ![c] = Serial!NothingWritten]
      BY <1>1, <1>2, SerialClose
    <3>3. Written = [d \in Core |-> Written[d]]
      BY DEF Written
    <3> QED
      BY <3>1, <3>2, <3>3
  <2> QED
    BY <2>2, <2>3, <2>4, <2>5 DEF Serial!vars
<1> QED
  BY <1>3, <1>4

LEMMA SerialAbort ==
    ASSUME RInv, NEW c \in Core, AbortTransactionIdx(c)
    PROVE  Serial!Abort(c) \/ UNCHANGED Serial!vars
<1>1. CASE Running(c)
  <2>1. Emptied(c) /\ mem' = mem /\ TypeOK /\ c \in OpenBlocks
    BY <1>1 DEF AbortTransactionIdx, RInv, IInv, OpenBlocks
  <2> QED
    BY <2>1, SerialClose DEF Serial!Abort, Serial!Close
<1>2. CASE ~Running(c)
  BY <1>2, SerialStutter DEF AbortTransactionIdx, transaction, trace
<1> QED
  BY <1>1, <1>2

LEMMA SerialPlainStore ==
    ASSUME NEW c \in Core, NEW acc \in Stores, NEW data, NEW mode,
           PlainStore(c, acc, data, mode)
    PROVE  Serial!PlainStore(c, acc, data)
<1>1. /\ mem' = WriteThrough(acc, data)
      /\ seen' = [seen EXCEPT ![c] = [w \in DOMAIN @ \ SpannedWords(acc) |-> @[w]]]
      /\ UNCHANGED <<mStatus, write_set, stored>>
  BY DEF PlainStore, transaction
<1>2. OpenBlocks' = OpenBlocks /\ Written' = Written
  BY <1>1 DEF OpenBlocks, Written, Running
<1>3. SpannedWords(acc) = Serial!SpannedWords(acc)
  BY DEF SpannedWords, Serial!SpannedWords, WordOf, Serial!WordOf
<1>4. mem' = [w \in Words |-> Serial!StoredWord(acc, data, w, mem[w])]
  BY <1>1 DEF WriteThrough, StoredWord, Serial!StoredWord, CoveredLanes,
     Serial!CoveredLanes, Lane, Serial!Lane
<1> QED
  BY <1>1, <1>2, <1>3, <1>4 DEF Serial!PlainStore, Serial!Forget

-----------------------------------------------------------------------------
(* The refinement.                                                         *)

LEMMA SerialInit == StartsNotOn /\ Init => Serial!Init
<1> SUFFICES ASSUME StartsNotOn, Init PROVE Serial!Init
  OBVIOUS
<1>1. mem \in [Words -> Serial!WordValue]
  BY DEF Init, Serial!WordValue, Serial!Lane, Lane
<1>2. OpenBlocks = {}
  BY DEF Init, StartsNotOn, OpenBlocks, Running
<1>3. seen = [c \in Core |-> Serial!NoReads]
  BY DEF Init, Fresh, Serial!NoReads
<1>4. Written = [c \in Core |-> Serial!NothingWritten]
  <2>1. ASSUME NEW c \in Core, NEW w \in Words
        PROVE  [l \in stored[c][w] |-> write_set[c][w][l]] = [l \in {} |-> {}]
    <3>1. stored[c][w] = {}
      BY DEF Init, NoStores
    <3> QED
      BY <3>1
  <2> QED
    BY <2>1 DEF Written, Serial!NothingWritten
<1> QED
  BY <1>1, <1>2, <1>3, <1>4 DEF Serial!Init

LEMMA SerialStep ==
    KeepsReads /\ RInv /\ [Next]_vars => [Serial!Next]_(Serial!vars)
<1> SUFFICES ASSUME KeepsReads, RInv, [Next]_vars
             PROVE  Serial!Next \/ UNCHANGED Serial!vars
  OBVIOUS
<1>1. WholeWords /\ OnlyVanilla /\ ReleaseVars = {}
  BY DEF KeepsReads, UserStores, TracedGuest
<1>2. CASE UNCHANGED vars
  BY <1>2, SerialStutter DEF vars, transaction, trace
<1>3. ASSUME NEW c \in Core, Callbacks(c)
      PROVE  Serial!Next \/ UNCHANGED Serial!vars
  <2>1. CASE AbortRequested(c)
    BY <2>1, SerialStutter DEF AbortRequested, transaction, trace
  <2> QED
    BY <1>3, <2>1, SerialCommit, SerialAbort DEF Callbacks, Serial!Next
<1>4. ASSUME NEW c \in Core, Instruction(c)
      PROVE  Serial!Next \/ UNCHANGED Serial!vars
  <2>1. CASE \/ CommitTransaction(c) \/ AbortTransaction(c) \/ CoreExceptionReturn(c)
             \/ CoreBreakpoint(c) \/ OtherInstruction(c)
             \/ \E acc \in Loads : LoadStalls(c, acc)
    BY <2>1, SerialStutter DEF CommitTransaction, AbortTransaction, CoreExceptionReturn,
       CoreBreakpoint, OtherInstruction, LoadStalls, transaction, trace
  <2>2. CASE BeginTransaction(c)
    BY <2>2, SerialBegin DEF Serial!Next
  <2>3. CASE \E acc \in Loads, type \in LoadTypes : Load(c, acc, type)
    BY <2>3, SerialRead DEF Serial!Next
  <2>4. CASE \E acc \in Stores, type \in StoreTypes :
                \E data \in StoreData(acc) : Store(c, acc, data, type)
    BY <1>1, <2>4, SerialWrite DEF Serial!Next, OnlyVanilla
  <2>5. CASE \E acc \in Stores, mode \in Modes :
                \E data \in StoreData(acc) : PlainStore(c, acc, data, mode)
    BY <2>5, SerialPlainStore DEF Serial!Next
  <2> QED
    BY <1>1, <1>4, <2>1, <2>2, <2>3, <2>4, <2>5 DEF Instruction
<1> QED
  BY <1>2, <1>3, <1>4 DEF Next

\* Every behaviour of the module, for guests that make vanilla accesses within
\* words, release nothing early and whose kernel does not store inside a
\* transaction, is one of atomic blocks over one memory (controller.cpp:57-131,
\* transaction.cpp:89-180, memory_trace.cpp:57-256).
THEOREM Refinement == KeepsReads /\ StartsNotOn => (Spec => ImplementsSerialMemory)
<1> SUFFICES ASSUME KeepsReads, StartsNotOn PROVE Spec => ImplementsSerialMemory
  OBVIOUS
<1>1. Init => Serial!Init
  BY SerialInit
<1>2. Init => StoredBuffered
  BY DEF Init, NoStores, StoredBuffered
<1>3. TypeOK /\ StoredBuffered /\ [Next]_vars => StoredBuffered'
  BY StoredBufferedStep DEF KeepsReads, UserStores, TracedGuest
<1>4. Spec => [](IInv /\ FInv) /\ [](IInv /\ SnapshotsCurrent)
  BY FootprintInductive, SnapshotsInductive DEF KeepsReads
<1>5. Spec => []OneCheckpoint
  BY OneCheckpointHolds
<1>6. (IInv /\ FInv /\ SnapshotsCurrent) /\ OneCheckpoint /\ StoredBuffered /\ [Next]_vars
         => [Serial!Next]_(Serial!vars)
  BY SerialStep DEF RInv
<1> QED
  BY <1>1, <1>2, <1>3, <1>4, <1>5, <1>6, TypeCorrect, PTL
     DEF Spec, ImplementsSerialMemory, Serial!Spec
=============================================================================
