--------------------------- MODULE TransmemProofs ---------------------------
(***************************************************************************)
(* Theorems about Transmem, for any number of cores, any memory and any    *)
(* bounds.                                                                 *)
(***************************************************************************)
EXTENDS Transmem, MemoryTraceProofs

\* The guest's accesses have sizes that the trace knows and name in it exactly
\* the words they touch: none straddles two words of which the trace would see
\* one.
WholeWords ==
    \A acc \in Loads \cup Stores :
        acc.size \in TracedSizes /\ SpannedWords(acc) = TracedWords(acc)

LEMMA StoresTraced == WholeWords => \A acc \in Stores : ~StoreAsserts(acc)
BY DEF WholeWords, StoreAsserts

LEMMA WordsAligned == \A w \in Words : Aligned(w)
BY WordAssumption DEF Aligned

-----------------------------------------------------------------------------
(* Type correctness.                                                       *)

LEMMA WordMapElim ==
    ASSUME NEW f \in WordMap
    PROVE  /\ DOMAIN f \subseteq Words
           /\ f = [w \in DOMAIN f |-> f[w]]
           /\ \A w \in DOMAIN f : f[w] \in WordValue
BY DEF WordMap

LEMMA WordMapIntro ==
    ASSUME NEW D \in SUBSET Words, NEW f \in [D -> WordValue]
    PROVE  f \in WordMap
BY DEF WordMap

LEMMA EmptyMaps == NoWrites \in WordMap /\ Fresh \in WordMap
<1>1. NoWrites \in [{} -> WordValue] /\ Fresh \in [{} -> WordValue]
  BY DEF NoWrites, Fresh
<1> QED
  BY <1>1, WordMapIntro

LEMMA AccessFacts ==
    ASSUME NEW acc \in Loads \cup Stores
    PROVE  /\ acc \in Access
           /\ acc.addr \in Nat
           /\ acc.size \in Nat
           /\ OffsetOf(acc.addr) \in Lane
           /\ TracedWords(acc) \subseteq Words
           /\ SpannedWords(acc) \subseteq Words
BY AccessAssumption, AccessParts

LEMMA StoreDataType ==
    ASSUME NEW acc \in Stores, NEW data \in StoreData(acc)
    PROVE  data \in [0 .. acc.size - 1 -> Byte]
BY DEF StoreData

LEMMA StoreWordMap ==
    ASSUME NEW STATE W, W \in WordMap, NEW STATE M, M \in [Words -> WordValue],
           NEW acc \in Stores, ~StoreAsserts(acc), NEW data \in [0 .. acc.size - 1 -> Byte]
    PROVE  /\ StoreWriteSet(W, M, acc, data) \in WordMap
           /\ DOMAIN StoreWriteSet(W, M, acc, data) = DOMAIN W \cup TracedWords(acc)
<1>1. /\ acc \in Access /\ TracedWords(acc) \subseteq Words
      /\ DOMAIN W \subseteq Words /\ \A w \in DOMAIN W : W[w] \in WordValue
      /\ \A w \in TracedWords(acc) : M[w] \in WordValue
  BY AccessFacts, WordMapElim
<1>2. StoreWriteSet(W, M, acc, data) \in [DOMAIN W \cup TracedWords(acc) -> WordValue]
  BY <1>1, StoreWriteSetType DEF Data
<1> QED
  BY <1>1, <1>2, WordMapIntro

LEMMA CommitWritesType ==
    ASSUME NEW W \in WordMap, NEW M \in [Words -> WordValue]
    PROVE  CommitWrites(W, M) \in [Words -> WordValue]
BY WordMapElim DEF CommitWrites

LEMMA WriteThroughType ==
    ASSUME mem \in [Words -> WordValue], NEW acc \in Stores,
           NEW data \in [0 .. acc.size - 1 -> Byte]
    PROVE  WriteThrough(acc, data) \in [Words -> WordValue]
<1>1. acc.addr \in Nat /\ acc.size \in Nat
  BY AccessFacts
<1>2. ASSUME NEW w \in Words, NEW l \in Lane
      PROVE  (IF l \in CoveredLanes(acc, w) THEN data[w + l - acc.addr]
                                            ELSE mem[w][l]) \in Byte
  <2>1. CASE l \in CoveredLanes(acc, w)
    <3>1. w + l - acc.addr \in 0 .. acc.size - 1
      BY <1>1, <2>1, WordAssumption DEF CoveredLanes, Lane
    <3> QED
      BY <2>1, <3>1
  <2>2. CASE l \notin CoveredLanes(acc, w)
    BY <2>2 DEF WordValue
  <2> QED
    BY <2>1, <2>2
<1> QED
  BY <1>2 DEF WriteThrough, StoredWord, WordValue

LEMMA PostType ==
    ASSUME NEW Q \in [Core -> [Callback -> Nat]], NEW C, NEW cb \in Callback
    PROVE  Post(Q, C, cb) \in [Core -> [Callback -> Nat]]
BY DEF Post

LEMMA TakenType ==
    ASSUME posted \in [Core -> [Callback -> Nat]], NEW c \in Core,
           NEW cb \in Callback, posted[c][cb] > 0
    PROVE  Taken(c, cb) \in [Core -> [Callback -> Nat]]
<1>1. posted[c][cb] - 1 \in Nat
  <2>1. posted[c][cb] \in Nat
    OBVIOUS
  <2> QED
    BY <2>1
<1> QED
  BY <1>1 DEF Taken

LEMMA CallbackNames ==
    /\ "commit_transaction_idx" \in Callback
    /\ "abort_transaction_idx" \in Callback
    /\ "abort_transaction" \in Callback
    /\ "resume_transaction" \in Callback
BY DEF Callback

LEMMA DependType ==
    ASSUME TypeOK, NEW c \in Core, NEW S \in SUBSET Words
    PROVE  Depend(seen[c], S) \in WordMap
<1>1. seen[c] \in WordMap /\ mem \in [Words -> WordValue]
  BY DEF TypeOK
<1>2. DOMAIN seen[c] \cup S \in SUBSET Words
  BY <1>1, WordMapElim
<1>3. Depend(seen[c], S) \in [DOMAIN seen[c] \cup S -> WordValue]
  BY <1>1, WordMapElim DEF Depend
<1> QED
  BY <1>2, <1>3, WordMapIntro

LEMMA ForgetType ==
    ASSUME TypeOK, NEW c \in Core, NEW S
    PROVE  [w \in DOMAIN seen[c] \ S |-> seen[c][w]] \in WordMap
<1>1. seen[c] \in WordMap
  BY DEF TypeOK
<1>2. DOMAIN seen[c] \ S \in SUBSET Words
  BY <1>1, WordMapElim
<1>3. [w \in DOMAIN seen[c] \ S |-> seen[c][w]] \in [DOMAIN seen[c] \ S -> WordValue]
  BY <1>1, WordMapElim
<1> QED
  BY <1>2, <1>3, WordMapIntro

LEMMA ImpliedReadsWords ==
    ASSUME NEW acc \in Stores, NEW W
    PROVE  ImpliedReads(W, acc) \in SUBSET Words
BY AccessFacts DEF ImpliedReads

LEMMA EmptiedType ==
    ASSUME TypeOK, NEW c \in Core, Emptied(c)
    PROVE  /\ mStatus' \in [Core -> Status]
           /\ nesting' \in [Core -> {0, 1}]
           /\ registers' \in [Core -> Nat]
           /\ read_set' \in [Core -> SUBSET Words]
           /\ write_set' \in [Core -> WordMap]
           /\ seen' \in [Core -> WordMap]
           /\ stored' \in [Core -> [Words -> SUBSET Lane]]
<1>1. NoStores \in [Words -> SUBSET Lane]
  BY DEF NoStores
<1> QED
  BY <1>1, EmptyMaps DEF TypeOK, Emptied, EmptiedTo, Status

LEMMA TypeOKInit == Init => TypeOK
<1> SUFFICES ASSUME Init PROVE TypeOK
  OBVIOUS
<1>1. mem \in [Words -> WordValue]
  BY DEF Init, WordValue
<1>2. mStatus \in [Core -> Status]
  BY EnvironmentAssumption DEF Init
<1>3. stored \in [Core -> [Words -> SUBSET Lane]]
  BY DEF Init, NoStores
<1>4. write_set \in [Core -> WordMap] /\ seen \in [Core -> WordMap]
  BY EmptyMaps DEF Init
<1>5. posted \in [Core -> [Callback -> Nat]]
  BY DEF Init
<1>6. failed \in BOOLEAN
  BY DEF Init
<1>7. /\ nesting \in [Core -> {0, 1}]
      /\ mPauseDepth \in [Core -> Int]
      /\ mLastLoad \in [Core -> Int]
      /\ registers \in [Core -> Nat]
      /\ read_set \in [Core -> SUBSET Words]
      /\ current \in Core
  BY DEF Init
<1> QED
  BY <1>1, <1>2, <1>3, <1>4, <1>5, <1>6, <1>7 DEF TypeOK

LEMMA TypeOKStep == TypeOK /\ [Next]_vars => TypeOK'
<1> SUFFICES ASSUME TypeOK, [Next]_vars PROVE TypeOK'
  OBVIOUS
<1> USE DEF TypeOK, Executes, Delivered, transaction, trace
<1>1. ASSUME NEW c \in Core, BeginTransaction(c) PROVE TypeOK'
  <2>1. mStatus' \in [Core -> Status]
    BY <1>1 DEF BeginTransaction, Begun, Status
  <2>2. nesting' \in [Core -> {0, 1}]
    BY <1>1 DEF BeginTransaction, Begun
  <2>3. registers' \in [Core -> Nat]
    <3>1. registers[c] + 1 \in Nat
      OBVIOUS
    <3> QED
      BY <1>1, <3>1 DEF BeginTransaction, Begun
  <2> QED
    BY <1>1, <2>1, <2>2, <2>3 DEF BeginTransaction, Begun
<1>2. ASSUME NEW c \in Core, CommitTransaction(c) PROVE TypeOK'
  BY <1>2, PostType, CallbackNames DEF CommitTransaction
<1>3. ASSUME NEW c \in Core, AbortTransaction(c) PROVE TypeOK'
  BY <1>3, PostType, CallbackNames DEF AbortTransaction
<1>4. ASSUME NEW c \in Core, NEW var, EarlyRelease(c, var) PROVE TypeOK'
  <2>1. read_set' \in [Core -> SUBSET Words]
    BY <1>4 DEF EarlyRelease, Erases
  <2>2. seen' \in [Core -> WordMap]
    BY <1>4, ForgetType DEF EarlyRelease, Erases
  <2> QED
    BY <1>4, <2>1, <2>2 DEF EarlyRelease, Erases
<1>5. ASSUME NEW c \in Core, NEW acc \in Loads, LoadStalls(c, acc) PROVE TypeOK'
  BY <1>5, AccessFacts DEF LoadStalls
<1>6. ASSUME NEW c \in Core, NEW acc \in Loads, NEW type, Load(c, acc, type)
      PROVE  TypeOK'
  <2>1. read_set' \in [Core -> SUBSET Words]
    <3>1. LoadReadSet(read_set[c], acc) \in SUBSET Words
      BY AccessFacts DEF LoadReadSet
    <3> QED
      BY <1>6, <3>1 DEF Load
  <2>2. seen' \in [Core -> WordMap]
    <3>1. Depend(seen[c], SpannedWords(acc)) \in WordMap
      BY DependType, AccessFacts
    <3> QED
      BY <1>6, <3>1 DEF Load
  <2>3. mLastLoad' \in [Core -> Int]
    BY <1>6 DEF Load, NoLoad
  <2>4. failed' \in BOOLEAN
    BY <1>6 DEF Load
  <2> QED
    BY <1>6, <2>1, <2>2, <2>3, <2>4 DEF Load
<1>7. ASSUME NEW c \in Core, NEW acc \in Stores, NEW type,
             NEW data \in StoreData(acc), Store(c, acc, data, type)
      PROVE  TypeOK'
  <2>1. CASE type = "vanilla" /\ ~StoreAsserts(acc)
    <3>1. write_set' \in [Core -> WordMap]
      <4>1. StoreWriteSet(write_set[c], mem, acc, data) \in WordMap
        BY <2>1, StoreWordMap, StoreDataType
      <4> QED
        BY <1>7, <2>1, <4>1 DEF Store
    <3>2. read_set' \in [Core -> SUBSET Words]
      <4>1. StoreReadSet(read_set[c], write_set[c], acc) \in SUBSET Words
        BY ImpliedReadsWords DEF StoreReadSet
      <4> QED
        BY <1>7, <2>1, <4>1 DEF Store
    <3>3. seen' \in [Core -> WordMap]
      <4>1. Depend(seen[c], ImpliedReads(write_set[c], acc)) \in WordMap
        BY DependType, ImpliedReadsWords
      <4> QED
        BY <1>7, <2>1, <4>1 DEF Store
    <3>4. stored' \in [Core -> [Words -> SUBSET Lane]]
      <4>1. [w \in Words |-> stored[c][w] \cup StoredBy(acc)[w]] \in [Words -> SUBSET Lane]
        BY DEF StoredBy, CoveredLanes
      <4> QED
        BY <1>7, <2>1, <4>1 DEF Store
    <3> QED
      BY <1>7, <2>1, <3>1, <3>2, <3>3, <3>4 DEF Store
  <2>2. CASE ~(type = "vanilla" /\ ~StoreAsserts(acc))
    <3>1. mem' \in [Words -> WordValue]
      <4>1. WriteThrough(acc, data) \in [Words -> WordValue]
        BY WriteThroughType, StoreDataType
      <4> QED
        BY <1>7, <2>2, <4>1 DEF Store
    <3> QED
      BY <1>7, <2>2, <3>1 DEF Store
  <2> QED
    BY <2>1, <2>2
<1>8. ASSUME NEW c \in Core, NEW acc \in Stores, NEW mode,
             NEW data \in StoreData(acc), PlainStore(c, acc, data, mode)
      PROVE  TypeOK'
  <2>1. mem' \in [Words -> WordValue]
    BY <1>8, WriteThroughType, StoreDataType DEF PlainStore
  <2>2. seen' \in [Core -> WordMap]
    BY <1>8, ForgetType DEF PlainStore
  <2>3. posted' \in [Core -> [Callback -> Nat]]
    BY <1>8, PostType, CallbackNames DEF PlainStore
  <2> QED
    BY <1>8, <2>1, <2>2, <2>3 DEF PlainStore
<1>9. ASSUME NEW c \in Core, CoreExceptionReturn(c) PROVE TypeOK'
  <2>1. mPauseDepth' \in [Core -> Int]
    BY <1>9 DEF CoreExceptionReturn
  <2>2. posted' \in [Core -> [Callback -> Nat]]
    BY <1>9, PostType, CallbackNames DEF CoreExceptionReturn
  <2>3. failed' \in BOOLEAN
    BY <1>9 DEF CoreExceptionReturn, InExceptionAsserts
  <2> QED
    BY <1>9, <2>1, <2>2, <2>3 DEF CoreExceptionReturn
<1>10. ASSUME NEW c \in Core, CoreBreakpoint(c) PROVE TypeOK'
  BY <1>10, PostType, CallbackNames DEF CoreBreakpoint
<1>11. ASSUME NEW c \in Core, CommitTransactionIdx(c) PROVE TypeOK'
  <2>1. mem' \in [Words -> WordValue]
    BY <1>11, CommitWritesType DEF CommitTransactionIdx
  <2>2. posted' \in [Core -> [Callback -> Nat]]
    BY <1>11, TakenType, CallbackNames DEF CommitTransactionIdx
  <2> QED
    BY <1>11, <2>1, <2>2, EmptiedType DEF CommitTransactionIdx
<1>12. ASSUME NEW c \in Core, AbortTransactionIdx(c) PROVE TypeOK'
  <2>1. posted' \in [Core -> [Callback -> Nat]]
    BY <1>12, TakenType, CallbackNames DEF AbortTransactionIdx
  <2>2. failed' \in BOOLEAN
    BY <1>12 DEF AbortTransactionIdx, InExceptionAsserts
  <2>3. CASE Running(c)
    <3>1. mPauseDepth' \in [Core -> Int]
      BY <1>12, <2>3 DEF AbortTransactionIdx
    <3> QED
      BY <1>12, <2>1, <2>2, <2>3, <3>1, EmptiedType DEF AbortTransactionIdx
  <2>4. CASE ~Running(c)
    BY <1>12, <2>1, <2>2, <2>4 DEF AbortTransactionIdx
  <2> QED
    BY <2>3, <2>4
<1>13. ASSUME NEW c \in Core, AbortRequested(c) PROVE TypeOK'
  BY <1>13, PostType, TakenType, CallbackNames DEF AbortRequested
<1>14. ASSUME NEW c \in Core, OtherInstruction(c) PROVE TypeOK'
  BY <1>14 DEF OtherInstruction
<1>15. CASE UNCHANGED vars
  BY <1>15 DEF vars
<1> QED
  BY <1>1, <1>2, <1>3, <1>4, <1>5, <1>6, <1>7, <1>8, <1>9, <1>10, <1>11, <1>12,
     <1>13, <1>14, <1>15 DEF Next, Instruction, Callbacks

\* Every variable of the module keeps its type, for any number of cores, any
\* memory and any guest: in particular nesting never leaves {0, 1}, whatever
\* begins and commits the guest issues (transaction.cpp:61-87, 124-129).
THEOREM TypeCorrect == Spec => []TypeOK
<1>1. Init => TypeOK
  BY TypeOKInit
<1>2. TypeOK /\ [Next]_vars => TypeOK'
  BY TypeOKStep
<1> QED
  BY <1>1, <1>2, PTL DEF Spec

-----------------------------------------------------------------------------
(* What waits for the cores.                                               *)

LEMMA PostValue ==
    ASSUME NEW Q \in [Core -> [Callback -> Nat]], NEW C, NEW cb \in Callback,
           NEW d \in Core, NEW k \in Callback
    PROVE  Post(Q, C, cb)[d][k] = IF d \in C /\ k = cb THEN Q[d][k] + 1 ELSE Q[d][k]
BY DEF Post

LEMMA TakenValue ==
    ASSUME TypeOK, NEW c \in Core, NEW cb \in Callback,
           NEW d \in Core, NEW k \in Callback
    PROVE  Taken(c, cb)[d][k] =
              IF d = c /\ k = cb THEN posted[d][k] - 1 ELSE posted[d][k]
BY DEF Taken, TypeOK

\* When and for whom commits and abort requests may wait; no hypothesis about
\* the guest is needed for it.
Scheduled == TypeOK /\ RequestsOnCurrent /\ CommitReady

\* When an instruction executes, no commit and no abort request is waiting
\* anywhere, and no abort is waiting for the core that executes.
LEMMA NothingPending ==
    ASSUME Scheduled, NEW c \in Core, Executes(c)
    PROVE  /\ \A d \in Core : posted[d]["commit_transaction_idx"] = 0
           /\ \A d \in Core : posted[d]["abort_transaction"] = 0
           /\ ~Doomed(c)
           /\ current' = c
<1> USE CallbackNames DEF Scheduled, TypeOK
<1>1. \A d \in Core, cb \in Callback : posted[d][cb] \in Nat
  OBVIOUS
<1>2. ASSUME NEW d \in Core PROVE posted[d]["commit_transaction_idx"] = 0
  <2>1. posted[d]["commit_transaction_idx"] > 0 => d = current
    BY DEF CommitReady
  <2> QED
    BY <1>1, <2>1 DEF Executes, Idle
<1>3. ASSUME NEW d \in Core PROVE posted[d]["abort_transaction"] = 0
  <2>1. posted[d]["abort_transaction"] > 0 => d = current
    BY DEF RequestsOnCurrent
  <2> QED
    BY <1>1, <2>1 DEF Executes, Idle
<1>4. ~Doomed(c) /\ current' = c
  BY DEF Executes, Idle, Doomed
<1> QED
  BY <1>2, <1>3, <1>4

\* An instruction that posts neither leaves the two conditions with nothing to
\* say.
LEMMA NeitherPosted ==
    ASSUME Scheduled, NEW c \in Core, Executes(c),
           \A d \in Core :
              /\ posted'[d]["commit_transaction_idx"] = posted[d]["commit_transaction_idx"]
              /\ posted'[d]["abort_transaction"] = posted[d]["abort_transaction"]
    PROVE  RequestsOnCurrent' /\ CommitReady'
BY NothingPending DEF RequestsOnCurrent, CommitReady

\* What the instruction TX_COMMIT posts.
LEMMA CommitPosts ==
    ASSUME TypeOK, NEW c \in Core, CommitTransaction(c), NEW d \in Core
    PROVE  /\ posted[d]["abort_transaction_idx"] \in Nat
           /\ posted'[d]["abort_transaction_idx"] =
                 IF d \in Conflicting(c) THEN posted[d]["abort_transaction_idx"] + 1
                                         ELSE posted[d]["abort_transaction_idx"]
           /\ posted'[d]["abort_transaction"] = posted[d]["abort_transaction"]
           /\ d # c => posted'[d]["commit_transaction_idx"]
                          = posted[d]["commit_transaction_idx"]
<1> DEFINE Q == Post(posted, Conflicting(c), "abort_transaction_idx")
<1>1. posted' = Post(Q, {c}, "commit_transaction_idx")
  BY DEF CommitTransaction
<1>2. posted \in [Core -> [Callback -> Nat]] /\ Q \in [Core -> [Callback -> Nat]]
  BY PostType, CallbackNames DEF TypeOK
<1>3. \A k \in Callback : Q[d][k] = IF d \in Conflicting(c) /\ k = "abort_transaction_idx"
                                    THEN posted[d][k] + 1 ELSE posted[d][k]
  BY <1>2, PostValue, CallbackNames
<1>4. \A k \in Callback : posted'[d][k] = IF d = c /\ k = "commit_transaction_idx"
                                          THEN Q[d][k] + 1 ELSE Q[d][k]
  <2> HIDE DEF Q
  <2> QED
    BY <1>1, <1>2, PostValue, CallbackNames
<1> HIDE DEF Q
<1> QED
  BY <1>2, <1>3, <1>4, CallbackNames

LEMMA CommitScheduled ==
    ASSUME Scheduled, NEW c \in Core, CommitTransaction(c)
    PROVE  RequestsOnCurrent' /\ CommitReady'
<1>1. Executes(c) /\ UNCHANGED <<mStatus, read_set, write_set>> /\ TypeOK
  BY DEF CommitTransaction, trace, transaction, Scheduled
<1>2. \A d \in Core : posted[d]["commit_transaction_idx"] = 0
                      /\ posted[d]["abort_transaction"] = 0
  BY <1>1, NothingPending
<1>3. c \notin Conflicting(c) /\ ~Doomed(c) /\ current' = c
  BY <1>1, NothingPending DEF Conflicting, Readers
<1>4. RequestsOnCurrent'
  BY <1>1, <1>2, CommitPosts DEF RequestsOnCurrent
<1>5. CommitReady'
  <2>1. Conflicting(c)' = Conflicting(c)
    BY <1>1 DEF Conflicting, Readers, Running
  <2>2. \A i \in Conflicting(c) : Doomed(i)'
    BY <1>1, CommitPosts DEF Conflicting, Readers, Doomed
  <2>3. ~Doomed(c)'
    BY <1>1, <1>3, CommitPosts DEF Doomed
  <2>4. \A d \in Core : posted'[d]["commit_transaction_idx"] > 0 => d = c
    BY <1>1, <1>2, CommitPosts
  <2> QED
    BY <1>3, <2>1, <2>2, <2>3, <2>4 DEF CommitReady, Conflicting
<1> QED
  BY <1>4, <1>5

LEMMA BreakpointScheduled ==
    ASSUME Scheduled, NEW c \in Core, CoreBreakpoint(c)
    PROVE  RequestsOnCurrent' /\ CommitReady'
<1>1. Executes(c) /\ posted' = Post(posted, {c}, "abort_transaction")
  BY DEF CoreBreakpoint
<1>2. posted \in [Core -> [Callback -> Nat]]
  BY DEF Scheduled, TypeOK
<1>3. \A d \in Core, k \in Callback :
          posted'[d][k] = IF d \in {c} /\ k = "abort_transaction"
                          THEN posted[d][k] + 1 ELSE posted[d][k]
  BY <1>1, <1>2, PostValue, CallbackNames
<1>4. /\ \A d \in Core : posted'[d]["commit_transaction_idx"] = 0
      /\ \A d \in Core : d # c => posted'[d]["abort_transaction"] = 0
      /\ current' = c
  BY <1>1, <1>3, CallbackNames, NothingPending
<1> QED
  BY <1>4 DEF RequestsOnCurrent, CommitReady

LEMMA CommitCallbackScheduled ==
    ASSUME Scheduled, NEW c \in Core, CommitTransactionIdx(c)
    PROVE  RequestsOnCurrent' /\ CommitReady'
<1>1. /\ posted[c]["commit_transaction_idx"] > 0
      /\ current' = current
      /\ posted' = Taken(c, "commit_transaction_idx")
      /\ DOMAIN write_set'[c] = {}
  BY DEF CommitTransactionIdx, Delivered, Emptied, EmptiedTo, Scheduled, TypeOK, NoWrites
<1>2. ASSUME NEW d \in Core
      PROVE  /\ posted'[d]["abort_transaction_idx"] = posted[d]["abort_transaction_idx"]
             /\ posted'[d]["abort_transaction"] = posted[d]["abort_transaction"]
             /\ d # c => posted'[d]["commit_transaction_idx"]
                            = posted[d]["commit_transaction_idx"]
  BY <1>1, TakenValue, CallbackNames DEF Scheduled
<1>3. c = current /\ ~Doomed(c)
  BY <1>1 DEF Scheduled, CommitReady
<1>4. RequestsOnCurrent'
  BY <1>1, <1>2, <1>3 DEF Scheduled, RequestsOnCurrent
<1>5. CommitReady'
  <2> SUFFICES ASSUME NEW d \in Core, posted'[d]["commit_transaction_idx"] > 0
               PROVE  d = current' /\ ~Doomed(d)' /\ \A i \in Conflicting(d)' : Doomed(i)'
    BY DEF CommitReady, Conflicting
  <2>1. d = c
    BY <1>2, <1>3 DEF Scheduled, CommitReady
  <2>2. Conflicting(d)' = {}
    BY <1>1, <2>1 DEF Conflicting, Readers
  <2> QED
    BY <1>1, <1>2, <1>3, <2>1, <2>2 DEF Doomed
<1> QED
  BY <1>4, <1>5

LEMMA AbortCallbackScheduled ==
    ASSUME Scheduled, NEW c \in Core, AbortTransactionIdx(c)
    PROVE  RequestsOnCurrent' /\ CommitReady'
<1>1. /\ posted[c]["abort_transaction_idx"] > 0
      /\ current' = current
      /\ posted' = Taken(c, "abort_transaction_idx")
  BY DEF AbortTransactionIdx, Delivered
<1>2. /\ \A d \in Core \ {c} : /\ mStatus'[d] = mStatus[d]
                               /\ read_set'[d] = read_set[d]
                               /\ write_set'[d] = write_set[d]
      /\ ~Running(c)'
  <2>1. CASE Running(c)
    BY <2>1 DEF AbortTransactionIdx, Emptied, EmptiedTo, Scheduled, TypeOK, Running
  <2>2. CASE ~Running(c)
    BY <2>2 DEF AbortTransactionIdx, transaction, trace, Running
  <2> QED
    BY <2>1, <2>2
<1>3. ASSUME NEW d \in Core
      PROVE  /\ d # c => posted'[d]["abort_transaction_idx"]
                            = posted[d]["abort_transaction_idx"]
             /\ posted'[d]["abort_transaction"] = posted[d]["abort_transaction"]
             /\ posted'[d]["commit_transaction_idx"] = posted[d]["commit_transaction_idx"]
  BY <1>1, TakenValue, CallbackNames DEF Scheduled
<1>4. RequestsOnCurrent'
  BY <1>1, <1>3 DEF Scheduled, RequestsOnCurrent
<1>5. CommitReady'
  <2> SUFFICES ASSUME NEW d \in Core, posted'[d]["commit_transaction_idx"] > 0
               PROVE  d = current' /\ ~Doomed(d)' /\ \A i \in Conflicting(d)' : Doomed(i)'
    BY DEF CommitReady, Conflicting
  <2>1. d = current /\ ~Doomed(d) /\ \A i \in Conflicting(d) : Doomed(i)
    BY <1>3 DEF Scheduled, CommitReady, Conflicting
  <2>2. d # c
    BY <1>1, <2>1 DEF Doomed
  <2>3. ASSUME NEW i \in Conflicting(d)' PROVE i \in Conflicting(d) /\ i # c
    BY <1>2, <2>2 DEF Conflicting, Readers, Running
  <2>4. \A i \in Conflicting(d)' : i \in Core /\ Doomed(i)'
    BY <1>3, <2>1, <2>3 DEF Conflicting, Readers, Doomed
  <2> QED
    BY <1>1, <1>3, <2>1, <2>2, <2>4 DEF Doomed
<1> QED
  BY <1>4, <1>5

\* What an abort request posts, which waits for the current core.
LEMMA RequestPosts ==
    ASSUME TypeOK, NEW c \in Core, AbortRequested(c), NEW d \in Core
    PROVE  /\ posted[d]["abort_transaction_idx"] \in Nat
           /\ posted'[d]["abort_transaction_idx"] =
                 IF d = current THEN posted[d]["abort_transaction_idx"] + 1
                                ELSE posted[d]["abort_transaction_idx"]
           /\ posted'[d]["commit_transaction_idx"] = posted[d]["commit_transaction_idx"]
           /\ d # c => posted'[d]["abort_transaction"] = posted[d]["abort_transaction"]
<1> DEFINE Q == Taken(c, "abort_transaction")
<1>1. posted' = Post(Q, {current}, "abort_transaction_idx")
      /\ posted[c]["abort_transaction"] > 0
  BY DEF AbortRequested, Delivered
<1>2. posted \in [Core -> [Callback -> Nat]] /\ Q \in [Core -> [Callback -> Nat]]
  BY <1>1, TakenType, CallbackNames DEF TypeOK
<1>3. \A k \in Callback : Q[d][k] = IF d = c /\ k = "abort_transaction"
                                    THEN posted[d][k] - 1 ELSE posted[d][k]
  BY TakenValue, CallbackNames
<1>4. \A k \in Callback : posted'[d][k] = IF d \in {current} /\ k = "abort_transaction_idx"
                                          THEN Q[d][k] + 1 ELSE Q[d][k]
  <2> HIDE DEF Q
  <2> QED
    BY <1>1, <1>2, PostValue, CallbackNames
<1> HIDE DEF Q
<1> QED
  BY <1>2, <1>3, <1>4, CallbackNames

LEMMA AbortRequestedScheduled ==
    ASSUME Scheduled, NEW c \in Core, AbortRequested(c)
    PROVE  RequestsOnCurrent' /\ CommitReady'
<1>1. /\ posted[c]["abort_transaction"] > 0
      /\ current' = current
      /\ TypeOK
  BY DEF AbortRequested, Delivered, Scheduled
<1>2. c = current /\ posted[c]["commit_transaction_idx"] = 0
  BY <1>1 DEF Scheduled, RequestsOnCurrent
<1>3. RequestsOnCurrent'
  BY <1>1, <1>2, RequestPosts DEF Scheduled, RequestsOnCurrent
<1>4. CommitReady'
  <2>1. \A d \in Core : posted[d]["commit_transaction_idx"] > 0 => d = current
    BY DEF Scheduled, CommitReady
  <2>2. \A d \in Core : ~(posted'[d]["commit_transaction_idx"] > 0)
    <3>1. \A d \in Core : posted[d]["commit_transaction_idx"] \in Nat
      BY <1>1, CallbackNames DEF TypeOK
    <3> QED
      BY <1>1, <1>2, <2>1, <3>1, RequestPosts
  <2> QED
    BY <2>2 DEF CommitReady
<1> QED
  BY <1>3, <1>4

\* Posting one more callback takes no abort back.
LEMMA PostGrows ==
    ASSUME TypeOK, NEW C, NEW cb \in Callback, posted' = Post(posted, C, cb),
           NEW d \in Core
    PROVE  /\ posted[d]["abort_transaction_idx"] \in Nat
           /\ posted'[d]["abort_transaction_idx"] \in Nat
           /\ posted'[d]["abort_transaction_idx"] >= posted[d]["abort_transaction_idx"]
<1>1. posted[d]["abort_transaction_idx"] \in Nat
  BY CallbackNames DEF TypeOK
<1>2. \/ posted'[d]["abort_transaction_idx"] = posted[d]["abort_transaction_idx"]
      \/ posted'[d]["abort_transaction_idx"] = posted[d]["abort_transaction_idx"] + 1
  <2>1. posted \in [Core -> [Callback -> Nat]]
    BY DEF TypeOK
  <2>2. \A k \in Callback :
            posted'[d][k] = IF d \in C /\ k = cb THEN posted[d][k] + 1 ELSE posted[d][k]
    BY <2>1, PostValue
  <2> QED
    BY <2>2, CallbackNames
<1> QED
  BY <1>1, <1>2

\* Only the callback that aborts a core takes its abort from the queue.
LEMMA DoomLasts ==
    ASSUME TypeOK, NEW c \in Core, Instruction(c) \/ AbortRequested(c),
           NEW d \in Core, Doomed(d)
    PROVE  Doomed(d)'
<1>1. CASE posted' = posted
  BY <1>1 DEF Doomed
<1>2. CASE \E C : \E cb \in Callback : posted' = Post(posted, C, cb)
  BY <1>2, PostGrows DEF Doomed
<1>3. CASE CommitTransaction(c)
  BY <1>3, CommitPosts DEF Doomed
<1>4. CASE AbortRequested(c)
  BY <1>4, RequestPosts DEF Doomed
<1>5. CASE AbortTransaction(c) \/ CoreBreakpoint(c) \/ CoreExceptionReturn(c)
  BY <1>1, <1>2, <1>5, CallbackNames DEF AbortTransaction, CoreBreakpoint,
     CoreExceptionReturn
<1>6. ASSUME NEW acc, NEW data, NEW mode, PlainStore(c, acc, data, mode)
      PROVE  Doomed(d)'
  BY <1>2, <1>6, CallbackNames DEF PlainStore
<1>7. ASSUME NEW acc, NEW data, NEW type, Load(c, acc, type) \/ Store(c, acc, data, type)
      PROVE  Doomed(d)'
  BY <1>1, <1>7 DEF Load, Store
<1>8. CASE BeginTransaction(c) \/ (\E var \in ReleaseVars : EarlyRelease(c, var))
           \/ (\E acc \in Loads : LoadStalls(c, acc)) \/ OtherInstruction(c)
  BY <1>1, <1>8 DEF BeginTransaction, EarlyRelease, Erases, LoadStalls, OtherInstruction
<1> QED
  BY <1>3, <1>4, <1>5, <1>6, <1>7, <1>8 DEF Instruction

LEMMA ScheduledInit == Init => Scheduled
<1> SUFFICES ASSUME Init PROVE Scheduled
  OBVIOUS
<1>1. \A c \in Core, cb \in Callback : ~(posted[c][cb] > 0)
  BY DEF Init
<1> QED
  BY <1>1, TypeOKInit, CallbackNames DEF Scheduled, RequestsOnCurrent, CommitReady

LEMMA ScheduledStep == Scheduled /\ [Next]_vars => Scheduled'
<1> SUFFICES ASSUME Scheduled, [Next]_vars PROVE Scheduled'
  OBVIOUS
<1>1. TypeOK' /\ posted \in [Core -> [Callback -> Nat]]
  BY TypeOKStep DEF Scheduled, TypeOK
<1>2. ASSUME NEW c \in Core, Executes(c),
             \/ posted' = posted
             \/ \E C : posted' = Post(posted, C, "abort_transaction_idx")
             \/ \E C : posted' = Post(posted, C, "resume_transaction")
      PROVE  RequestsOnCurrent' /\ CommitReady'
  <2>1. \A d \in Core :
            /\ posted'[d]["commit_transaction_idx"] = posted[d]["commit_transaction_idx"]
            /\ posted'[d]["abort_transaction"] = posted[d]["abort_transaction"]
    BY <1>1, <1>2, PostValue, CallbackNames
  <2> QED
    BY <1>2, <2>1, NeitherPosted
<1>3. CASE UNCHANGED vars
  BY <1>1, <1>3 DEF vars, transaction, trace, Scheduled, RequestsOnCurrent, CommitReady,
     Running, Doomed, Readers
<1>4. CASE Next
  <2>1. PICK c \in Core : Instruction(c) \/ Callbacks(c)
    BY <1>4 DEF Next
  <2>2. ASSUME \/ BeginTransaction(c) \/ AbortTransaction(c) \/ CoreExceptionReturn(c)
               \/ OtherInstruction(c)
               \/ \E var \in ReleaseVars : EarlyRelease(c, var)
               \/ \E acc \in Loads : LoadStalls(c, acc)
               \/ \E acc \in Loads, type \in LoadTypes : Load(c, acc, type)
               \/ \E acc \in Stores, type \in StoreTypes :
                     \E data \in StoreData(acc) : Store(c, acc, data, type)
               \/ \E acc \in Stores, mode \in Modes :
                     \E data \in StoreData(acc) : PlainStore(c, acc, data, mode)
        PROVE  RequestsOnCurrent' /\ CommitReady'
    BY <1>2, <2>2 DEF BeginTransaction, AbortTransaction, CoreExceptionReturn,
       EarlyRelease, Erases, LoadStalls, Load, Store, PlainStore, OtherInstruction
  <2>3. CASE Instruction(c)
    BY <1>1, <2>2, <2>3, CommitScheduled, BreakpointScheduled DEF Instruction, Scheduled
  <2>4. CASE Callbacks(c)
    BY <1>1, <2>4, CommitCallbackScheduled, AbortCallbackScheduled,
       AbortRequestedScheduled DEF Callbacks, Scheduled
  <2> QED
    BY <2>1, <2>3, <2>4
<1> QED
  BY <1>3, <1>4

LEMMA ScheduledAlways == Spec => []Scheduled
<1>1. Init => Scheduled
  BY ScheduledInit
<1>2. Scheduled /\ [Next]_vars => Scheduled'
  BY ScheduledStep
<1> QED
  BY <1>1, <1>2, PTL DEF Spec

\* The scan of TX_COMMIT is still right when the commit it posted runs,
\* whatever the guest does (controller.cpp:57-106).
THEOREM CommitReadyHolds == Spec => []CommitReady
<1>1. Scheduled => CommitReady
  BY DEF Scheduled
<1> QED
  BY <1>1, ScheduledAlways, PTL

-----------------------------------------------------------------------------
(* Opacity.                                                                *)

\* The comparison of a plain store's address sees the address itself.
AddressesFitInt == \A acc \in Stores : NarrowToInt(acc.addr) = acc.addr

\* Transactions make vanilla accesses only.
OnlyVanilla == LoadTypes \cup StoreTypes \subseteq {"vanilla"}

\* The guest code under which the module keeps its promises.
TracedGuest == WholeWords /\ AddressesFitInt /\ OnlyVanilla

\* The words in which memory differs after a store are words it spans.
LEMMA WriteThroughOutside ==
    ASSUME TypeOK, NEW acc \in Stores, NEW data,
           NEW w \in Words, w \notin SpannedWords(acc)
    PROVE  WriteThrough(acc, data)[w] = mem[w]
<1>1. \A l \in Lane : l \notin CoveredLanes(acc, w)
  BY CoveredSpanned, AccessFacts, WordsAligned
<1>2. mem[w] = [l \in Lane |-> mem[w][l]]
  BY DEF TypeOK, WordValue
<1> QED
  BY <1>1, <1>2 DEF WriteThrough, StoredWord

\* A commit changes memory only in the words it buffered.
LEMMA CommitWritesOutside ==
    ASSUME TypeOK, NEW W, NEW w \in Words, w \notin DOMAIN W
    PROVE  CommitWrites(W, mem)[w] = mem[w]
BY DEF CommitWrites, TypeOK

\* The comparison finds every running transaction that read a stored word.
LEMMA OverwrittenReaders ==
    ASSUME NEW c \in Core, NEW acc \in Stores, NarrowToInt(acc.addr) = acc.addr,
           NEW i \in Core \ {c}, Running(i), NEW w \in TracedWords(acc), w \in read_set[i]
    PROVE  i \in Overwritten(c, acc)
<1>1. HasRead(read_set[i], acc.addr, acc.size)
  <2>1. CASE acc.size = 8
    BY <2>1 DEF HasRead, TracedWords
  <2>2. CASE acc.size # 8
    BY <2>2 DEF HasRead, TracedWords
  <2> QED
    BY <2>1, <2>2
<1> QED
  BY <1>1 DEF Overwritten

\* What IInv asks of the state besides Scheduled.
Safe == DependencesTracked /\ IdleDependsOnNothing /\ Opacity

LEMMA Parts == IInv <=> Scheduled /\ Safe
BY DEF IInv, Scheduled, Safe

\* A step that leaves memory and the trace alone, and takes no abort back.
LEMMA QuietStep ==
    ASSUME IInv, UNCHANGED <<mem, mStatus, read_set, seen>>,
           \A d \in Core :
              /\ posted[d]["abort_transaction_idx"] \in Nat
              /\ posted'[d]["abort_transaction_idx"] \in Nat
              /\ posted'[d]["abort_transaction_idx"] >= posted[d]["abort_transaction_idx"]
    PROVE  Safe'
<1>1. DependencesTracked' /\ IdleDependsOnNothing'
  BY DEF IInv, DependencesTracked, IdleDependsOnNothing, Running
<1>2. Opacity'
  <2> SUFFICES ASSUME NEW i \in Core, Running(i)', ~Doomed(i)',
                      NEW w \in (DOMAIN seen[i])'
               PROVE  (seen[i][w] = mem[w])'
    BY DEF Opacity
  <2>1. Running(i) /\ ~Doomed(i)
    BY DEF Running, Doomed
  <2> QED
    BY <2>1 DEF IInv, Opacity
<1> QED
  BY <1>1, <1>2 DEF Safe

LEMMA BeginStep ==
    ASSUME IInv, NEW c \in Core, BeginTransaction(c)
    PROVE  Safe'
<1>1. Executes(c) /\ UNCHANGED <<mem, read_set, write_set, seen, posted>>
  BY DEF BeginTransaction, Begun, trace
<1>2. /\ \A d \in Core \ {c} : mStatus'[d] = mStatus[d]
      /\ mStatus'[c] = mStatus[c] \/ mStatus'[c] = "ON"
  BY DEF BeginTransaction, Begun, IInv, TypeOK
<1>3. DependencesTracked' /\ IdleDependsOnNothing'
  BY <1>1, <1>2 DEF IInv, DependencesTracked, IdleDependsOnNothing, Running
<1>4. Opacity'
  BY <1>1, <1>2 DEF IInv, Opacity, IdleDependsOnNothing, Running, Doomed
<1> QED
  BY <1>3, <1>4 DEF Safe

LEMMA CommitStep ==
    ASSUME IInv, NEW c \in Core, CommitTransaction(c)
    PROVE  Safe'
<1>1. UNCHANGED <<mem, mStatus, read_set, seen>> /\ TypeOK
  BY DEF CommitTransaction, trace, transaction, IInv
<1>2. ASSUME NEW d \in Core
      PROVE  /\ posted[d]["abort_transaction_idx"] \in Nat
             /\ posted'[d]["abort_transaction_idx"] \in Nat
             /\ posted'[d]["abort_transaction_idx"] >= posted[d]["abort_transaction_idx"]
  <2>1. /\ posted[d]["abort_transaction_idx"] \in Nat
        /\ posted'[d]["abort_transaction_idx"] =
              IF d \in Conflicting(c) THEN posted[d]["abort_transaction_idx"] + 1
                                      ELSE posted[d]["abort_transaction_idx"]
    BY <1>1, CommitPosts
  <2> QED
    BY <2>1
<1> QED
  BY <1>1, <1>2, QuietStep

\* An instruction that leaves memory, the running transactions and the posted
\* callbacks alone, and extends or shrinks what its own block depends on: what
\* it keeps was current and what it adds is memory's.
LEMMA DependenceStep ==
    ASSUME IInv, NEW c \in Core, UNCHANGED <<mem, mStatus, posted>>,
           \A d \in Core \ {c} : read_set'[d] = read_set[d] /\ seen'[d] = seen[d],
           DOMAIN seen'[c] \subseteq read_set'[c],
           ~Running(c) => DOMAIN seen'[c] = {},
           \A w \in DOMAIN seen'[c] :
              \/ seen'[c][w] = mem[w]
              \/ w \in DOMAIN seen[c] /\ seen'[c][w] = seen[c][w]
    PROVE  Safe'
<1>1. DependencesTracked'
  BY DEF IInv, DependencesTracked
<1>2. IdleDependsOnNothing'
  BY DEF IInv, IdleDependsOnNothing, Running
<1>3. Opacity'
  BY DEF IInv, Opacity, Running, Doomed
<1> QED
  BY <1>1, <1>2, <1>3 DEF Safe

LEMMA ReleaseStep ==
    ASSUME IInv, NEW c \in Core, NEW var, EarlyRelease(c, var)
    PROVE  Safe'
<1>1. /\ UNCHANGED <<mem, mStatus, posted>>
      /\ read_set' = [read_set EXCEPT ![c] = @ \ Released(var)]
      /\ seen' = [seen EXCEPT ![c] = [w \in DOMAIN @ \ Released(var) |-> @[w]]]
  BY DEF EarlyRelease, Erases, transaction
<1>2. /\ DOMAIN seen = Core /\ DOMAIN read_set = Core
      /\ DOMAIN seen[c] \subseteq read_set[c]
      /\ ~Running(c) => DOMAIN seen[c] = {}
  BY DEF IInv, TypeOK, DependencesTracked, IdleDependsOnNothing
<1>3. /\ read_set'[c] = read_set[c] \ Released(var)
      /\ seen'[c] = [w \in DOMAIN seen[c] \ Released(var) |-> seen[c][w]]
      /\ \A d \in Core \ {c} : read_set'[d] = read_set[d] /\ seen'[d] = seen[d]
  BY <1>1, <1>2
<1> QED
  BY <1>1, <1>2, <1>3, DependenceStep

LEMMA LoadStep ==
    ASSUME TracedGuest, IInv, NEW c \in Core, NEW acc \in Loads,
           NEW type \in LoadTypes, Load(c, acc, type)
    PROVE  Safe'
<1>1. /\ Running(c)
      /\ UNCHANGED <<mem, mStatus, posted>>
      /\ read_set' = [read_set EXCEPT ![c] =
                        IF type = "vanilla" THEN LoadReadSet(@, acc) ELSE @]
      /\ seen' = [seen EXCEPT ![c] = Depend(@, SpannedWords(acc))]
  BY DEF Load, transaction
<1>2. type = "vanilla" /\ SpannedWords(acc) = TracedWords(acc)
  BY DEF TracedGuest, OnlyVanilla, WholeWords
<1>3. /\ DOMAIN seen = Core /\ DOMAIN read_set = Core
      /\ DOMAIN seen[c] \subseteq read_set[c]
  BY DEF IInv, TypeOK, DependencesTracked
<1>4. /\ read_set'[c] = read_set[c] \cup TracedWords(acc)
      /\ seen'[c] = [w \in DOMAIN seen[c] \cup TracedWords(acc) |->
                        IF w \in DOMAIN seen[c] THEN seen[c][w] ELSE mem[w]]
      /\ \A d \in Core \ {c} : read_set'[d] = read_set[d] /\ seen'[d] = seen[d]
  BY <1>1, <1>2, <1>3 DEF LoadReadSet, Depend
<1>5. /\ DOMAIN seen'[c] \subseteq read_set'[c]
      /\ \A w \in DOMAIN seen'[c] :
            \/ seen'[c][w] = mem[w]
            \/ w \in DOMAIN seen[c] /\ seen'[c][w] = seen[c][w]
  BY <1>3, <1>4
<1> QED
  BY <1>1, <1>4, <1>5, DependenceStep

LEMMA StoreStep ==
    ASSUME TracedGuest, IInv, NEW c \in Core, NEW acc \in Stores,
           NEW type \in StoreTypes, NEW data, Store(c, acc, data, type)
    PROVE  Safe'
<1> DEFINE implied == ImpliedReads(write_set[c], acc)
<1>1. type = "vanilla" /\ ~StoreAsserts(acc)
  BY StoresTraced DEF TracedGuest, OnlyVanilla
<1>2. /\ Running(c)
      /\ UNCHANGED <<mem, mStatus, posted>>
      /\ read_set' = [read_set EXCEPT ![c] = StoreReadSet(@, write_set[c], acc)]
      /\ seen' = [seen EXCEPT ![c] = Depend(@, implied)]
  BY <1>1 DEF Store, transaction
<1>3. /\ DOMAIN seen = Core /\ DOMAIN read_set = Core
      /\ DOMAIN seen[c] \subseteq read_set[c]
  BY DEF IInv, TypeOK, DependencesTracked
<1>4. /\ read_set'[c] = read_set[c] \cup implied
      /\ seen'[c] = [w \in DOMAIN seen[c] \cup implied |->
                        IF w \in DOMAIN seen[c] THEN seen[c][w] ELSE mem[w]]
      /\ \A d \in Core \ {c} : read_set'[d] = read_set[d] /\ seen'[d] = seen[d]
  BY <1>2, <1>3 DEF StoreReadSet, Depend
<1> HIDE DEF implied
<1>5. /\ DOMAIN seen'[c] \subseteq read_set'[c]
      /\ \A w \in DOMAIN seen'[c] :
            \/ seen'[c][w] = mem[w]
            \/ w \in DOMAIN seen[c] /\ seen'[c][w] = seen[c][w]
  BY <1>3, <1>4
<1> QED
  BY <1>2, <1>4, <1>5, DependenceStep

LEMMA PlainStoreStep ==
    ASSUME TracedGuest, IInv, NEW c \in Core, NEW acc \in Stores,
           NEW mode, NEW data, PlainStore(c, acc, data, mode)
    PROVE  Safe'
<1>1. /\ UNCHANGED <<mStatus, read_set>>
      /\ mem' = WriteThrough(acc, data)
      /\ posted' = Post(posted, Overwritten(c, acc), "abort_transaction_idx")
      /\ seen' = [seen EXCEPT ![c] =
                    [w \in DOMAIN @ \ SpannedWords(acc) |-> @[w]]]
  BY DEF PlainStore, transaction
<1>2. /\ DOMAIN seen = Core
      /\ SpannedWords(acc) = TracedWords(acc)
      /\ posted \in [Core -> [Callback -> Nat]]
      /\ \A d \in Core : DOMAIN seen[d] \subseteq read_set[d]
      /\ \A d \in Core : DOMAIN seen[d] \subseteq Words
  BY WordMapElim DEF TracedGuest, WholeWords, IInv, TypeOK, DependencesTracked
<1>3. /\ \A d \in Core \ {c} : seen'[d] = seen[d]
      /\ seen'[c] = [w \in DOMAIN seen[c] \ TracedWords(acc) |-> seen[c][w]]
  BY <1>1, <1>2
<1>4. ASSUME NEW d \in Core, NEW k \in Callback
      PROVE  posted'[d][k] = IF d \in Overwritten(c, acc) /\ k = "abort_transaction_idx"
                             THEN posted[d][k] + 1 ELSE posted[d][k]
  BY <1>1, <1>2, PostValue, CallbackNames
<1>5. DependencesTracked' /\ IdleDependsOnNothing'
  BY <1>1, <1>3 DEF IInv, DependencesTracked, IdleDependsOnNothing, Running
<1>6. Opacity'
  <2> SUFFICES ASSUME NEW i \in Core, Running(i)', ~Doomed(i)',
                      NEW w \in (DOMAIN seen[i])'
               PROVE  (seen[i][w] = mem[w])'
    BY DEF Opacity
  <2>1. w \in DOMAIN seen[i] /\ seen'[i][w] = seen[i][w]
    BY <1>3
  <2>2. Running(i) /\ ~Doomed(i)
    <3>1. posted[i]["abort_transaction_idx"] \in Nat
      BY <1>2, CallbackNames
    <3> QED
      BY <1>1, <1>4, <3>1, CallbackNames DEF Running, Doomed
  <2>3. w \notin TracedWords(acc)
    <3>1. CASE i = c
      BY <1>3, <3>1
    <3>2. CASE i # c
      <4> SUFFICES ASSUME w \in TracedWords(acc) PROVE FALSE
        OBVIOUS
      <4>1. i \in Overwritten(c, acc)
        BY <1>2, <2>1, <2>2, <3>2, OverwrittenReaders DEF TracedGuest, AddressesFitInt
      <4>2. posted[i]["abort_transaction_idx"] \in Nat
        BY <1>2, CallbackNames
      <4>3. posted'[i]["abort_transaction_idx"] = posted[i]["abort_transaction_idx"] + 1
        BY <1>4, <4>1, CallbackNames
      <4> QED
        BY <4>2, <4>3 DEF Doomed
    <3> QED
      BY <3>1, <3>2
  <2>4. mem'[w] = mem[w]
    BY <1>1, <1>2, <2>1, <2>3, WriteThroughOutside DEF IInv
  <2> QED
    BY <2>1, <2>2, <2>4 DEF IInv, Opacity
<1> QED
  BY <1>5, <1>6 DEF Safe

LEMMA CommitCallbackStep ==
    ASSUME IInv, NEW c \in Core, CommitTransactionIdx(c)
    PROVE  Safe'
<1>1. /\ posted[c]["commit_transaction_idx"] > 0
      /\ posted' = Taken(c, "commit_transaction_idx")
      /\ mem' = CommitWrites(write_set[c], mem)
      /\ Emptied(c)
  BY DEF CommitTransactionIdx, Delivered
<1>2. /\ \A d \in Core \ {c} : /\ mStatus'[d] = mStatus[d]
                               /\ read_set'[d] = read_set[d]
                               /\ seen'[d] = seen[d]
      /\ mStatus'[c] = "OFF" /\ DOMAIN seen'[c] = {}
  BY <1>1 DEF Emptied, EmptiedTo, IInv, TypeOK, Fresh
<1>3. \A d \in Core : posted'[d]["abort_transaction_idx"] = posted[d]["abort_transaction_idx"]
  BY <1>1, TakenValue, CallbackNames DEF IInv
<1>4. \A i \in Conflicting(c) : Doomed(i)
  BY <1>1 DEF IInv, CommitReady, Conflicting
<1>5. DependencesTracked' /\ IdleDependsOnNothing'
  BY <1>2 DEF IInv, DependencesTracked, IdleDependsOnNothing, Running
<1>6. Opacity'
  <2> SUFFICES ASSUME NEW i \in Core, Running(i)', ~Doomed(i)',
                      NEW w \in (DOMAIN seen[i])'
               PROVE  (seen[i][w] = mem[w])'
    BY DEF Opacity
  <2>1. i # c /\ w \in DOMAIN seen[i] /\ seen'[i][w] = seen[i][w]
    BY <1>2 DEF Running
  <2>2. Running(i) /\ ~Doomed(i)
    BY <1>2, <1>3, <2>1 DEF Running, Doomed
  <2>3. w \in Words /\ w \in read_set[i]
    BY <2>1, WordMapElim DEF IInv, TypeOK, DependencesTracked
  <2>4. w \notin DOMAIN write_set[c]
    BY <1>4, <2>1, <2>2, <2>3, HasReadWord, WordsAligned DEF Conflicting, Readers
  <2>5. mem'[w] = mem[w]
    BY <1>1, <2>3, <2>4, CommitWritesOutside DEF IInv
  <2> QED
    BY <2>1, <2>2, <2>5 DEF IInv, Opacity
<1> QED
  BY <1>5, <1>6 DEF Safe

LEMMA AbortCallbackStep ==
    ASSUME IInv, NEW c \in Core, AbortTransactionIdx(c)
    PROVE  Safe'
<1>1. posted' = Taken(c, "abort_transaction_idx") /\ mem' = mem
  BY DEF AbortTransactionIdx, Delivered
<1>2. /\ \A d \in Core \ {c} : /\ mStatus'[d] = mStatus[d]
                               /\ read_set'[d] = read_set[d]
                               /\ seen'[d] = seen[d]
      /\ ~Running(c)'
      /\ DOMAIN seen'[c] = {}
  <2>1. CASE Running(c)
    BY <2>1 DEF AbortTransactionIdx, Emptied, EmptiedTo, IInv, TypeOK, Fresh, Running
  <2>2. CASE ~Running(c)
    BY <2>2 DEF AbortTransactionIdx, transaction, trace, IInv,
                IdleDependsOnNothing, Running
  <2> QED
    BY <2>1, <2>2
<1>3. \A d \in Core \ {c} :
         posted'[d]["abort_transaction_idx"] = posted[d]["abort_transaction_idx"]
  BY <1>1, TakenValue, CallbackNames DEF IInv
<1>4. DependencesTracked' /\ IdleDependsOnNothing'
  BY <1>2 DEF IInv, DependencesTracked, IdleDependsOnNothing, Running
<1>5. Opacity'
  BY <1>1, <1>2, <1>3 DEF IInv, Opacity, Running, Doomed
<1> QED
  BY <1>4, <1>5 DEF Safe

LEMMA AbortRequestedStep ==
    ASSUME IInv, NEW c \in Core, AbortRequested(c)
    PROVE  Safe'
<1>1. UNCHANGED <<mem, mStatus, read_set, seen>> /\ TypeOK
  BY DEF AbortRequested, transaction, trace, IInv
<1>2. ASSUME NEW d \in Core
      PROVE  /\ posted[d]["abort_transaction_idx"] \in Nat
             /\ posted'[d]["abort_transaction_idx"] \in Nat
             /\ posted'[d]["abort_transaction_idx"] >= posted[d]["abort_transaction_idx"]
  <2>1. /\ posted[d]["abort_transaction_idx"] \in Nat
        /\ posted'[d]["abort_transaction_idx"] =
              IF d = current THEN posted[d]["abort_transaction_idx"] + 1
                             ELSE posted[d]["abort_transaction_idx"]
    BY <1>1, RequestPosts
  <2> QED
    BY <2>1
<1> QED
  BY <1>1, <1>2, QuietStep

LEMMA IInvInit == Init => IInv
<1> SUFFICES ASSUME Init PROVE IInv
  OBVIOUS
<1>1. \A c \in Core : DOMAIN seen[c] = {}
  BY DEF Init, Fresh
<1>2. Safe
  BY <1>1 DEF Safe, DependencesTracked, IdleDependsOnNothing, Opacity
<1> QED
  BY <1>2, ScheduledInit, Parts

\* The actions that leave memory and the trace alone and post at most one
\* callback.
LEMMA PostStep ==
    ASSUME IInv, UNCHANGED <<mem, mStatus, read_set, seen>>,
           \/ posted' = posted
           \/ \E C : \E cb \in Callback : posted' = Post(posted, C, cb)
    PROVE  Safe'
<1>1. TypeOK
  BY DEF IInv
<1>2. CASE posted' = posted
  <2>1. \A d \in Core : posted[d]["abort_transaction_idx"] \in Nat
    BY <1>1, CallbackNames DEF TypeOK
  <2>2. \A n \in Nat : n >= n
    OBVIOUS
  <2> QED
    BY <1>2, <2>1, <2>2, QuietStep
<1>3. CASE \E C : \E cb \in Callback : posted' = Post(posted, C, cb)
  BY <1>1, <1>3, PostGrows, QuietStep
<1> QED
  BY <1>2, <1>3

LEMMA IInvStep == TracedGuest /\ IInv /\ [Next]_vars => IInv'
<1> SUFFICES ASSUME TracedGuest, IInv, [Next]_vars PROVE IInv'
  OBVIOUS
<1>1. Scheduled'
  BY ScheduledStep, Parts
<1>2. ASSUME UNCHANGED vars PROVE Safe'
  BY <1>2, PostStep DEF vars, transaction, trace
<1>3. ASSUME NEW c \in Core, Instruction(c) PROVE Safe'
  <2>1. CASE AbortTransaction(c)
    BY <2>1, PostStep, CallbackNames DEF AbortTransaction, transaction, trace
  <2>2. CASE CoreBreakpoint(c)
    BY <2>2, PostStep, CallbackNames DEF CoreBreakpoint, transaction, trace
  <2>3. CASE CoreExceptionReturn(c)
    BY <2>3, PostStep, CallbackNames DEF CoreExceptionReturn, transaction, trace
  <2>4. CASE \E acc \in Loads : LoadStalls(c, acc)
    BY <2>4, PostStep DEF LoadStalls, transaction, trace
  <2>5. CASE OtherInstruction(c)
    BY <2>5, PostStep DEF OtherInstruction, transaction, trace
  <2> QED
    BY <1>3, <2>1, <2>2, <2>3, <2>4, <2>5, BeginStep, CommitStep, ReleaseStep, LoadStep,
       StoreStep, PlainStoreStep DEF Instruction
<1>4. ASSUME NEW c \in Core, Callbacks(c) PROVE Safe'
  BY <1>4, CommitCallbackStep, AbortCallbackStep, AbortRequestedStep DEF Callbacks
<1>5. Safe'
  BY <1>2, <1>3, <1>4 DEF Next
<1> QED
  BY <1>1, <1>5 DEF IInv, Scheduled, Safe

\* The inductive invariant, for guests that make vanilla accesses within
\* words and store below the range of int.
THEOREM Inductive == TracedGuest => (Spec => []IInv)
<1> SUFFICES ASSUME TracedGuest PROVE Spec => []IInv
  OBVIOUS
<1>1. Init => IInv
  BY IInvInit
<1>2. IInv /\ [Next]_vars => IInv'
  BY IInvStep
<1> QED
  BY <1>1, <1>2, PTL DEF Spec

\* No transaction runs on with a stale view: as long as no abort is on its way
\* to it, every word it depends on is still as it found it, whatever the other
\* cores commit or store (controller.cpp:57-77, 193-206).
THEOREM OpacityHolds == TracedGuest => (Spec => []Opacity)
<1>1. IInv => Opacity
  BY DEF IInv
<1> QED
  BY <1>1, Inductive, PTL
=============================================================================
