------------------------- MODULE TransmemBlockProofs -------------------------
(***************************************************************************)
(* Theorems about what becomes of one atomic block of Transmem: its        *)
(* checkpoint, its exceptions, its abort and its commit.                   *)
(***************************************************************************)
EXTENDS TransmemProofs

-----------------------------------------------------------------------------
(* The checkpoint.                                                         *)

\* The constructor finds no running transaction in the memory of mStatus.
StartsNotOn == "ON" \notin InitialStatus

LEMMA EmptiedCheckpoint ==
    ASSUME TypeOK, OneCheckpoint, NEW c \in Core, Emptied(c)
    PROVE  OneCheckpoint'
<1>1. \A d \in Core \ {c} : /\ registers'[d] = registers[d]
                            /\ nesting'[d] = nesting[d]
                            /\ mStatus'[d] = mStatus[d]
                            /\ read_set'[d] = read_set[d]
                            /\ write_set'[d] = write_set[d]
  BY DEF TypeOK, Emptied, EmptiedTo
<1>2. /\ registers'[c] = 0 /\ nesting'[c] = 0 /\ mStatus'[c] = "OFF"
      /\ read_set'[c] = {} /\ write_set'[c] = NoWrites
  BY DEF TypeOK, Emptied, EmptiedTo
<1> QED
  BY <1>1, <1>2 DEF OneCheckpoint, Running

LEMMA OneCheckpointStep == TypeOK /\ OneCheckpoint /\ [Next]_vars => OneCheckpoint'
<1> SUFFICES ASSUME TypeOK, OneCheckpoint, [Next]_vars PROVE OneCheckpoint'
  OBVIOUS
<1>1. ASSUME NEW c \in Core, BeginTransaction(c) PROVE OneCheckpoint'
  <2>1. CASE nesting[c] = 0
    <3>1. \A d \in Core \ {c} : /\ registers'[d] = registers[d]
                                /\ nesting'[d] = nesting[d]
                                /\ mStatus'[d] = mStatus[d]
      BY <1>1, <2>1 DEF BeginTransaction, Begun, TypeOK
    <3>2. registers'[c] = 1 /\ nesting'[c] = 1 /\ mStatus'[c] = "ON"
      <4>1. registers[c] = 0
        BY <2>1 DEF OneCheckpoint
      <4> QED
        BY <1>1, <2>1, <4>1 DEF BeginTransaction, Begun, TypeOK
    <3>3. UNCHANGED <<read_set, write_set>>
      BY <1>1 DEF BeginTransaction, trace
    <3> QED
      BY <3>1, <3>2, <3>3 DEF OneCheckpoint, Running
  <2>2. CASE nesting[c] # 0
    BY <1>1, <2>2 DEF BeginTransaction, trace, OneCheckpoint, Running
  <2> QED
    BY <2>1, <2>2
<1>2. ASSUME NEW c \in Core, NEW var, EarlyRelease(c, var) PROVE OneCheckpoint'
  BY <1>2 DEF EarlyRelease, Erases, transaction, OneCheckpoint, Running, TypeOK
<1>3. ASSUME NEW c \in Core, NEW acc, NEW type, Load(c, acc, type) PROVE OneCheckpoint'
  <2>1. Running(c) /\ UNCHANGED <<mStatus, nesting, registers, write_set>>
    BY <1>3 DEF Load, transaction
  <2>2. \A d \in Core \ {c} : read_set'[d] = read_set[d]
    BY <1>3 DEF Load, TypeOK
  <2> QED
    BY <2>1, <2>2 DEF OneCheckpoint, Running
<1>4. ASSUME NEW c \in Core, NEW acc, NEW data, NEW type, Store(c, acc, data, type)
      PROVE  OneCheckpoint'
  <2>1. Running(c) /\ UNCHANGED <<mStatus, nesting, registers>>
    BY <1>4 DEF Store, transaction
  <2>2. \A d \in Core \ {c} : read_set'[d] = read_set[d] /\ write_set'[d] = write_set[d]
    BY <1>4 DEF Store, trace, TypeOK
  <2> QED
    BY <2>1, <2>2 DEF OneCheckpoint, Running
<1>5. ASSUME NEW c \in Core, AbortTransactionIdx(c) PROVE OneCheckpoint'
  <2>1. CASE Running(c)
    BY <1>5, <2>1, EmptiedCheckpoint DEF AbortTransactionIdx
  <2>2. CASE ~Running(c)
    BY <1>5, <2>2 DEF AbortTransactionIdx, transaction, trace, OneCheckpoint, Running
  <2> QED
    BY <2>1, <2>2
<1>6. ASSUME NEW c \in Core, CommitTransactionIdx(c) PROVE OneCheckpoint'
  BY <1>6, EmptiedCheckpoint DEF CommitTransactionIdx
<1>7. ASSUME UNCHANGED <<mStatus, nesting, registers, read_set, write_set>>
      PROVE  OneCheckpoint'
  BY <1>7 DEF OneCheckpoint, Running
<1>8. CASE UNCHANGED vars
  BY <1>7, <1>8 DEF vars, transaction, trace
<1>9. CASE Next
  <2>1. PICK c \in Core : Instruction(c) \/ Callbacks(c)
    BY <1>9 DEF Next
  <2>2. ASSUME \/ CommitTransaction(c) \/ AbortTransaction(c) \/ CoreBreakpoint(c)
               \/ CoreExceptionReturn(c) \/ AbortRequested(c)
               \/ \E acc \in Loads : LoadStalls(c, acc)
               \/ \E acc, data, mode : PlainStore(c, acc, data, mode)
               \/ OtherInstruction(c)
        PROVE  OneCheckpoint'
    BY <1>7, <2>2 DEF CommitTransaction, AbortTransaction, CoreBreakpoint,
       CoreExceptionReturn, AbortRequested, LoadStalls, PlainStore, OtherInstruction,
       transaction, trace
  <2> QED
    BY <1>1, <1>2, <1>3, <1>4, <1>5, <1>6, <2>1, <2>2 DEF Instruction, Callbacks
<1> QED
  BY <1>8, <1>9

\* Every abort restores the one checkpoint of the block it aborts, and nothing
\* that a block traced is left for the next, whatever the guest nests, repeats
\* or leaves out (transaction.cpp:61-87, 123-180, 300-353).
THEOREM OneCheckpointHolds == StartsNotOn => (Spec => []OneCheckpoint)
<1> SUFFICES ASSUME StartsNotOn PROVE Spec => []OneCheckpoint
  OBVIOUS
<1>1. Init => OneCheckpoint
  BY DEF Init, StartsNotOn, OneCheckpoint, Running
<1>2. TypeOK /\ OneCheckpoint /\ [Next]_vars => OneCheckpoint'
  BY OneCheckpointStep
<1> QED
  BY <1>1, <1>2, TypeCorrect, PTL DEF Spec

-----------------------------------------------------------------------------
(* Exceptions.                                                             *)

\* mPauseDepth is counted down only, from 0, and so never meets 0 again.
PausesCountDown == \A c \in Core : mPauseDepth[c] <= 0 /\ mPauseDepth[c] \in Int

LEMMA ResumeStep ==
    TypeOK /\ PausesCountDown /\ ResumeNeverPosted /\ [Next]_vars
        => PausesCountDown' /\ ResumeNeverPosted'
<1> SUFFICES ASSUME TypeOK, PausesCountDown, ResumeNeverPosted, [Next]_vars
             PROVE  PausesCountDown' /\ ResumeNeverPosted'
  OBVIOUS
<1>1. posted \in [Core -> [Callback -> Nat]]
  BY DEF TypeOK
<1>2. ASSUME NEW Q \in [Core -> [Callback -> Nat]],
             \A d \in Core : Q[d]["resume_transaction"] = 0,
             NEW C, NEW cb \in Callback, cb # "resume_transaction"
      PROVE  \A d \in Core : Post(Q, C, cb)[d]["resume_transaction"] = 0
  BY <1>2, PostValue, CallbackNames
<1>3. ASSUME NEW c \in Core, NEW cb \in Callback, cb # "resume_transaction"
      PROVE  \A d \in Core : Taken(c, cb)[d]["resume_transaction"] = 0
  BY <1>3, TakenValue, CallbackNames DEF ResumeNeverPosted
<1>4. ASSUME NEW c \in Core, CoreExceptionReturn(c)
      PROVE  PausesCountDown' /\ ResumeNeverPosted'
  <2>1. mPauseDepth[c] - 1 < 0 /\ mPauseDepth[c] - 1 \in Int
    BY DEF PausesCountDown
  <2>2. posted' = posted
    BY <1>4, <2>1 DEF CoreExceptionReturn, ClearingException
  <2>3. PausesCountDown'
    BY <1>4, <2>1 DEF CoreExceptionReturn, PausesCountDown, TypeOK
  <2> QED
    BY <2>2, <2>3 DEF ResumeNeverPosted
<1>5. ASSUME NEW c \in Core, AbortTransactionIdx(c)
      PROVE  PausesCountDown' /\ ResumeNeverPosted'
  <2>1. ResumeNeverPosted'
    BY <1>3, <1>5, CallbackNames DEF AbortTransactionIdx, ResumeNeverPosted
  <2>2. PausesCountDown'
    <3>1. mPauseDepth' = mPauseDepth \/ mPauseDepth' = [mPauseDepth EXCEPT ![c] = 0]
      BY <1>5 DEF AbortTransactionIdx, transaction
    <3>2. mPauseDepth \in [Core -> Int]
      BY DEF TypeOK
    <3> QED
      BY <3>1, <3>2 DEF PausesCountDown
  <2> QED
    BY <2>1, <2>2
<1>6. ASSUME UNCHANGED mPauseDepth PROVE PausesCountDown'
  BY <1>6 DEF PausesCountDown
<1>7. ASSUME NEW c \in Core, CommitTransaction(c) PROVE ResumeNeverPosted'
  <2> DEFINE Q == Post(posted, Conflicting(c), "abort_transaction_idx")
  <2>1. posted' = Post(Q, {c}, "commit_transaction_idx")
    BY <1>7 DEF CommitTransaction
  <2>2. Q \in [Core -> [Callback -> Nat]]
    BY <1>1, PostType, CallbackNames
  <2>3. \A d \in Core : Q[d]["resume_transaction"] = 0
    BY <1>1, <1>2, CallbackNames DEF ResumeNeverPosted
  <2> HIDE DEF Q
  <2> QED
    BY <1>2, <2>1, <2>2, <2>3, CallbackNames DEF ResumeNeverPosted
<1>8. ASSUME NEW c \in Core, AbortRequested(c) PROVE ResumeNeverPosted'
  <2>1. posted' = Post(Taken(c, "abort_transaction"), {current}, "abort_transaction_idx")
    BY <1>8 DEF AbortRequested
  <2>2. Taken(c, "abort_transaction") \in [Core -> [Callback -> Nat]]
    BY <1>1, <1>8, TakenType, CallbackNames DEF AbortRequested, Delivered
  <2> QED
    BY <1>2, <1>3, <2>1, <2>2, CallbackNames DEF ResumeNeverPosted
<1>9. ASSUME NEW C, NEW cb \in Callback, cb # "resume_transaction",
             posted' = Post(posted, C, cb)
      PROVE  ResumeNeverPosted'
  BY <1>1, <1>2, <1>9 DEF ResumeNeverPosted
<1>10. ASSUME UNCHANGED posted PROVE ResumeNeverPosted'
  BY <1>10 DEF ResumeNeverPosted
<1>11. CASE UNCHANGED vars
  BY <1>6, <1>10, <1>11 DEF vars, transaction
<1>12. CASE Next
  <2>1. PICK c \in Core : Instruction(c) \/ Callbacks(c)
    BY <1>12 DEF Next
  <2>2. CASE Instruction(c) /\ ~CoreExceptionReturn(c)
    <3>1. UNCHANGED mPauseDepth
      BY <2>2 DEF Instruction, BeginTransaction, CommitTransaction, AbortTransaction,
         EarlyRelease, Erases, LoadStalls, Load, Store, PlainStore, OtherInstruction,
         CoreBreakpoint, transaction
    <3>2. ResumeNeverPosted'
      BY <1>7, <1>9, <1>10, <2>2, CallbackNames
         DEF Instruction, BeginTransaction, AbortTransaction, EarlyRelease, Erases, LoadStalls,
         Load, Store, PlainStore, OtherInstruction, CoreBreakpoint
    <3> QED
      BY <1>6, <3>1, <3>2
  <2>3. CASE CommitTransactionIdx(c)
    <3>1. ResumeNeverPosted'
      BY <1>3, <2>3, CallbackNames DEF CommitTransactionIdx, ResumeNeverPosted
    <3> QED
      BY <1>6, <2>3, <3>1 DEF CommitTransactionIdx
  <2>4. CASE AbortRequested(c)
    BY <1>6, <1>8, <2>4 DEF AbortRequested, transaction
  <2> QED
    BY <1>4, <1>5, <2>1, <2>2, <2>3, <2>4 DEF Callbacks
<1> QED
  BY <1>11, <1>12

\* resume_transaction, which would fail the assertion of ResumeTransaction, is
\* never posted, however many exceptions return during a transaction
\* (transmem.c:138-154, transaction.cpp:403-421).
THEOREM ResumeNeverPostedHolds == Spec => []ResumeNeverPosted
<1>1. Init => PausesCountDown /\ ResumeNeverPosted
  BY CallbackNames DEF Init, PausesCountDown, ResumeNeverPosted
<1>2. TypeOK /\ (PausesCountDown /\ ResumeNeverPosted) /\ [Next]_vars
         => (PausesCountDown /\ ResumeNeverPosted)'
  BY ResumeStep
<1> QED
  BY <1>1, <1>2, TypeCorrect, PTL DEF Spec

-----------------------------------------------------------------------------
(* The abort.                                                              *)

\* Once an abort is posted to a running transaction, the step that ends the
\* transaction leaves memory as it is: no commit overtakes the abort, whatever
\* the guest does (controller.cpp:57-106, 122-131).
THEOREM DoomedNeverPublishHolds == Spec => DoomedNeverPublish
<1> DEFINE Step == \A c \in Core :
                      Running(c) /\ Doomed(c) /\ mStatus'[c] # "ON" => mem' = mem
<1>1. ASSUME Scheduled, [Next]_vars PROVE Step
  <2> SUFFICES ASSUME NEW d \in Core, Running(d), Doomed(d), mStatus'[d] # "ON"
               PROVE  mem' = mem
    OBVIOUS
  <2>1. PICK c \in Core : Instruction(c) \/ Callbacks(c)
    BY <1>1 DEF Next, vars, transaction, Running
  <2>2. CASE Instruction(c)
    <3>1. mStatus'[d] = "ON"
      BY <1>1, <2>2 DEF Instruction, BeginTransaction, Begun, CommitTransaction,
         AbortTransaction, EarlyRelease, Erases, LoadStalls, Load, Store, PlainStore,
         OtherInstruction, CoreExceptionReturn, CoreBreakpoint, transaction, Running, Scheduled, TypeOK
    <3> QED
      BY <3>1
  <2>3. CASE CommitTransactionIdx(c)
    <3>1. d = c
      BY <1>1, <2>3 DEF CommitTransactionIdx, Emptied, EmptiedTo, Running, Scheduled, TypeOK
    <3>2. ~Doomed(c)
      BY <1>1, <2>3 DEF CommitTransactionIdx, Delivered, Scheduled, CommitReady
    <3> QED
      BY <3>1, <3>2
  <2>4. CASE AbortTransactionIdx(c) \/ AbortRequested(c)
    BY <2>4 DEF AbortTransactionIdx, AbortRequested
  <2> QED
    BY <2>1, <2>2, <2>3, <2>4 DEF Callbacks
<1>2. Scheduled /\ [Next]_vars => [Step]_vars
  BY <1>1
<1> QED
  BY <1>2, ScheduledAlways, PTL DEF Spec, DoomedNeverPublish

-----------------------------------------------------------------------------
(* Snapshots and the commit.                                               *)

\* No kernel stores inside a transaction, where a store is not compared with
\* what its own core has read.
UserStores == TracedGuest /\ Modes \subseteq {"user"}

\* And no early release, which would drop the implied read of a narrow store:
\* the guest code under which the bytes around such a store stay protected.
KeepsReads == UserStores /\ ReleaseVars = {}

\* What the sets of core c say of its block: each buffered word has a stored
\* lane, and is in the read set unless all its lanes are stored or the block
\* released it; the block depends on every word of the read set; and only a
\* running block buffers.
Footprint(c) ==
    /\ \A w \in DOMAIN write_set[c] :
          /\ stored[c][w] # {}
          /\ ReleaseVars = {} => w \in read_set[c] \/ stored[c][w] = Lane
    /\ read_set[c] \subseteq DOMAIN seen[c]
    /\ ~Running(c) => DOMAIN write_set[c] = {}

FInv == \A c \in Core : Footprint(c)

LEMMA EmptiedFootprint ==
    ASSUME TypeOK, FInv, NEW c \in Core, Emptied(c)
    PROVE  FInv'
<1>1. \A d \in Core \ {c} : /\ read_set'[d] = read_set[d]
                            /\ write_set'[d] = write_set[d]
                            /\ seen'[d] = seen[d]
                            /\ stored'[d] = stored[d]
                            /\ mStatus'[d] = mStatus[d]
  BY DEF TypeOK, Emptied, EmptiedTo
<1>2. read_set'[c] = {} /\ DOMAIN write_set'[c] = {}
  BY DEF TypeOK, Emptied, EmptiedTo, NoWrites
<1> QED
  BY <1>1, <1>2 DEF FInv, Footprint, Running

\* A transactional store seen by its own block.
LEMMA StoreEffect ==
    ASSUME TypeOK, NEW c \in Core, NEW acc \in Stores,
           NEW data \in StoreData(acc), Store(c, acc, data, "vanilla"),
           ~StoreAsserts(acc)
    PROVE  /\ Executes(c) /\ Running(c)
           /\ UNCHANGED <<mem, mStatus, posted>>
           /\ \A d \in Core \ {c} : /\ read_set'[d] = read_set[d]
                                    /\ write_set'[d] = write_set[d]
                                    /\ seen'[d] = seen[d]
                                    /\ stored'[d] = stored[d]
           /\ read_set'[c] = read_set[c] \cup ImpliedReads(write_set[c], acc)
           /\ DOMAIN seen'[c] = DOMAIN seen[c] \cup ImpliedReads(write_set[c], acc)
           /\ \A w \in DOMAIN seen'[c] :
                 seen'[c][w] = IF w \in DOMAIN seen[c] THEN seen[c][w] ELSE mem[w]
           /\ write_set'[c] = StoreWriteSet(write_set[c], mem, acc, data)
           /\ DOMAIN write_set'[c] = DOMAIN write_set[c] \cup TracedWords(acc)
           /\ DOMAIN write_set'[c] \subseteq Words
           /\ \A w \in Words : stored'[c][w] = stored[c][w] \cup CoveredLanes(acc, w)
<1>2. /\ Executes(c) /\ Running(c)
      /\ UNCHANGED <<mem, mStatus, posted>>
      /\ write_set' = [write_set EXCEPT ![c] = StoreWriteSet(@, mem, acc, data)]
      /\ read_set' = [read_set EXCEPT ![c] = StoreReadSet(@, write_set[c], acc)]
      /\ seen' = [seen EXCEPT ![c] = Depend(@, ImpliedReads(write_set[c], acc))]
      /\ stored' = [stored EXCEPT ![c] = [w \in Words |-> @[w] \cup StoredBy(acc)[w]]]
  BY DEF Store, transaction
<1>3. /\ DOMAIN write_set = Core /\ DOMAIN read_set = Core
      /\ DOMAIN seen = Core /\ DOMAIN stored = Core
      /\ write_set[c] \in WordMap /\ mem \in [Words -> WordValue]
  BY DEF TypeOK
<1>4. \A d \in Core \ {c} : /\ read_set'[d] = read_set[d]
                            /\ write_set'[d] = write_set[d]
                            /\ seen'[d] = seen[d]
                            /\ stored'[d] = stored[d]
  BY <1>2, <1>3
<1>5. read_set'[c] = read_set[c] \cup ImpliedReads(write_set[c], acc)
  BY <1>2, <1>3 DEF StoreReadSet
<1>6. /\ DOMAIN seen'[c] = DOMAIN seen[c] \cup ImpliedReads(write_set[c], acc)
      /\ \A w \in DOMAIN seen'[c] :
            seen'[c][w] = IF w \in DOMAIN seen[c] THEN seen[c][w] ELSE mem[w]
  BY <1>2, <1>3 DEF Depend
<1>7. write_set'[c] = StoreWriteSet(write_set[c], mem, acc, data)
  BY <1>2, <1>3
<1>8. DOMAIN write_set'[c] = DOMAIN write_set[c] \cup TracedWords(acc)
  <2>1. data \in [0 .. acc.size - 1 -> Byte]
    BY StoreDataType
  <2>2. DOMAIN StoreWriteSet(write_set[c], mem, acc, data) =
            DOMAIN write_set[c] \cup TracedWords(acc)
    BY <1>3, <2>1, StoreWordMap
  <2> QED
    BY <1>7, <2>2
<1>9. DOMAIN write_set'[c] \subseteq Words
  BY <1>3, <1>8, WordMapElim, AccessFacts
<1>10. \A w \in Words : stored'[c][w] = stored[c][w] \cup CoveredLanes(acc, w)
  BY <1>2, <1>3 DEF StoredBy
<1> QED
  BY <1>2, <1>4, <1>5, <1>6, <1>7, <1>8, <1>9, <1>10

LEMMA StoreFootprint ==
    ASSUME WholeWords, TypeOK, FInv, NEW c \in Core, NEW acc \in Stores,
           NEW data \in StoreData(acc), Store(c, acc, data, "vanilla")
    PROVE  FInv'
<1>1. ~StoreAsserts(acc)
  BY StoresTraced
<1>2. \A d \in Core \ {c} : Footprint(d)'
  BY <1>1, StoreEffect DEF FInv, Footprint, Running
<1>3. read_set'[c] \subseteq DOMAIN seen'[c]
  BY <1>1, StoreEffect DEF FInv, Footprint
<1>4. ASSUME NEW w \in DOMAIN write_set'[c]
      PROVE  /\ stored'[c][w] # {}
             /\ ReleaseVars = {} => w \in read_set'[c] \/ stored'[c][w] = Lane
  <2>1. /\ w \in DOMAIN write_set[c] \cup TracedWords(acc)
        /\ w \in Words
        /\ stored'[c][w] = stored[c][w] \cup CoveredLanes(acc, w)
        /\ read_set'[c] = read_set[c] \cup ImpliedReads(write_set[c], acc)
    BY <1>1, StoreEffect
  <2>2. stored[c][w] \subseteq Lane /\ CoveredLanes(acc, w) \subseteq Lane
    BY <2>1 DEF TypeOK, CoveredLanes
  <2>3. CASE w \in DOMAIN write_set[c]
    BY <2>1, <2>2, <2>3 DEF FInv, Footprint
  <2>4. CASE w \notin DOMAIN write_set[c]
    <3>1. w \in TracedWords(acc) /\ acc.size \in {1, 2, 4, 8}
      BY <2>1, <2>4 DEF WholeWords, TracedSizes
    <3>2. CoveredLanes(acc, w) # {}
      BY <3>1, AccessFacts, TracedCovered DEF Whole, WholeWords
    <3>3. CASE acc.size \in {4, 8}
      BY <2>1, <2>2, <3>1, <3>2, <3>3, AccessFacts, WideCovers DEF Whole, WholeWords
    <3>4. CASE acc.size \in {1, 2}
      BY <2>1, <2>4, <3>1, <3>2, <3>4 DEF ImpliedReads
    <3> QED
      BY <3>1, <3>3, <3>4
  <2> QED
    BY <2>3, <2>4
<1>5. Running(c)'
  BY <1>1, StoreEffect DEF Running
<1> QED
  BY <1>2, <1>3, <1>4, <1>5 DEF FInv, Footprint

LEMMA ReleaseFootprint ==
    ASSUME TypeOK, FInv, NEW c \in Core, NEW var \in ReleaseVars, EarlyRelease(c, var)
    PROVE  FInv'
<1>1. UNCHANGED <<mStatus, write_set, stored>> /\ ReleaseVars # {}
  BY DEF EarlyRelease, Erases, transaction
<1>2. /\ read_set'[c] = read_set[c] \ Released(var)
      /\ DOMAIN seen'[c] = DOMAIN seen[c] \ Released(var)
      /\ \A d \in Core \ {c} : read_set'[d] = read_set[d] /\ seen'[d] = seen[d]
  BY DEF EarlyRelease, Erases, TypeOK
<1> QED
  BY <1>1, <1>2 DEF FInv, Footprint, Running

LEMMA FootprintStep == UserStores /\ IInv /\ FInv /\ [Next]_vars => FInv'
<1> SUFFICES ASSUME UserStores, IInv, FInv, [Next]_vars PROVE FInv'
  OBVIOUS
<1>1. TypeOK /\ WholeWords /\ OnlyVanilla /\ Modes \subseteq {"user"}
  BY DEF IInv, UserStores, TracedGuest
<1>2. ASSUME UNCHANGED <<mStatus, read_set, write_set, seen, stored>> PROVE FInv'
  BY <1>2 DEF FInv, Footprint, Running
<1>3. ASSUME NEW c \in Core, BeginTransaction(c) PROVE FInv'
  <2>1. UNCHANGED <<read_set, write_set, seen, stored>>
    BY <1>3 DEF BeginTransaction, trace
  <2>2. \A d \in Core : Running(d) => Running(d)'
    BY <1>1, <1>3 DEF BeginTransaction, Begun, Running, TypeOK
  <2> QED
    BY <2>1, <2>2 DEF FInv, Footprint
<1>4. ASSUME NEW c \in Core, NEW acc \in Loads, NEW type \in LoadTypes, Load(c, acc, type)
      PROVE  FInv'
  <2>1. type = "vanilla" /\ SpannedWords(acc) = TracedWords(acc)
    BY <1>1 DEF OnlyVanilla, WholeWords
  <2>2. /\ UNCHANGED <<mStatus, write_set, stored>>
        /\ \A d \in Core \ {c} : read_set'[d] = read_set[d] /\ seen'[d] = seen[d]
        /\ read_set'[c] = read_set[c] \cup TracedWords(acc)
        /\ DOMAIN seen'[c] = DOMAIN seen[c] \cup TracedWords(acc)
    BY <1>1, <1>4, <2>1 DEF Load, transaction, LoadReadSet, Depend, TypeOK
  <2> QED
    BY <2>2 DEF FInv, Footprint, Running
<1>5. ASSUME NEW c \in Core, NEW acc \in Stores, NEW data, NEW mode \in Modes,
             PlainStore(c, acc, data, mode)
      PROVE  FInv'
  <2>1. ~Running(c)
    BY <1>1, <1>5 DEF PlainStore
  <2>2. read_set[c] = {}
    BY <2>1 DEF IInv, IdleDependsOnNothing, FInv, Footprint
  <2>3. /\ UNCHANGED <<mStatus, read_set, write_set, stored>>
        /\ \A d \in Core \ {c} : seen'[d] = seen[d]
    BY <1>1, <1>5 DEF PlainStore, transaction, TypeOK
  <2> QED
    BY <2>2, <2>3 DEF FInv, Footprint, Running
<1>6. ASSUME NEW c \in Core, CommitTransactionIdx(c) PROVE FInv'
  BY <1>1, <1>6, EmptiedFootprint DEF CommitTransactionIdx
<1>7. ASSUME NEW c \in Core, AbortTransactionIdx(c) PROVE FInv'
  <2>1. CASE Running(c)
    BY <1>1, <1>7, <2>1, EmptiedFootprint DEF AbortTransactionIdx
  <2>2. CASE ~Running(c)
    BY <1>2, <1>7, <2>2 DEF AbortTransactionIdx, transaction, trace
  <2> QED
    BY <2>1, <2>2
<1>8. ASSUME NEW c \in Core, NEW acc \in Stores, NEW type \in StoreTypes,
             NEW data \in StoreData(acc), Store(c, acc, data, type)
      PROVE  FInv'
  BY <1>1, <1>8, StoreFootprint DEF OnlyVanilla
<1>9. CASE UNCHANGED vars
  BY <1>2, <1>9 DEF vars, transaction, trace
<1>10. CASE Next
  <2>1. PICK c \in Core : Instruction(c) \/ Callbacks(c)
    BY <1>10 DEF Next
  <2>2. ASSUME \/ CommitTransaction(c) \/ AbortTransaction(c) \/ CoreBreakpoint(c)
               \/ CoreExceptionReturn(c) \/ AbortRequested(c)
               \/ \E acc \in Loads : LoadStalls(c, acc)
               \/ OtherInstruction(c)
        PROVE  FInv'
    BY <1>2, <2>2 DEF CommitTransaction, AbortTransaction, CoreBreakpoint,
       CoreExceptionReturn, AbortRequested, LoadStalls, OtherInstruction, transaction, trace
  <2> QED
    BY <1>1, <1>3, <1>4, <1>5, <1>6, <1>7, <1>8, <2>1, <2>2, ReleaseFootprint
       DEF Instruction, Callbacks
<1> QED
  BY <1>9, <1>10

\* A step that leaves memory and the buffers alone, ends no doom and starts
\* only blocks that have buffered nothing.
LEMMA SnapshotsKept ==
    ASSUME SnapshotsCurrent, FInv, UNCHANGED <<mem, write_set, stored>>,
           \A d \in Core : Doomed(d) => Doomed(d)'
    PROVE  SnapshotsCurrent'
BY DEF SnapshotsCurrent, FInv, Footprint

\* A step that empties one buffer and changes memory only outside what every
\* other block that is not doomed has read.
LEMMA SnapshotsSpared ==
    ASSUME SnapshotsCurrent, FInv, ReleaseVars = {}, NEW c \in Core,
           DOMAIN write_set'[c] = {} \/ ~Running(c)',
           \A d \in Core \ {c} : /\ write_set'[d] = write_set[d]
                                 /\ stored'[d] = stored[d]
                                 /\ Running(d)' => Running(d)
                                 /\ Doomed(d) => Doomed(d)',
           \A d \in Core \ {c} : Running(d) /\ ~Doomed(d)' =>
              \A w \in DOMAIN write_set[d] \cap read_set[d] : mem'[w] = mem[w]
    PROVE  SnapshotsCurrent'
<1> SUFFICES ASSUME NEW i \in Core, Running(i)', ~Doomed(i)',
                    NEW w \in DOMAIN write_set'[i], NEW l \in Lane \ stored'[i][w]
             PROVE  write_set'[i][w][l] = mem'[w][l]
  BY DEF SnapshotsCurrent
<1>1. i # c
  OBVIOUS
<1>2. /\ Running(i) /\ ~Doomed(i)
      /\ w \in DOMAIN write_set[i] /\ l \notin stored[i][w]
      /\ write_set'[i][w] = write_set[i][w]
  BY <1>1
<1>3. w \in read_set[i]
  BY <1>2 DEF FInv, Footprint
<1>4. mem'[w] = mem[w]
  BY <1>1, <1>2, <1>3
<1> QED
  BY <1>2, <1>4 DEF SnapshotsCurrent

LEMMA StoreSnapshots ==
    ASSUME WholeWords, IInv, FInv, SnapshotsCurrent, NEW c \in Core,
           NEW acc \in Stores, NEW data \in StoreData(acc), Store(c, acc, data, "vanilla")
    PROVE  SnapshotsCurrent'
<1> SUFFICES ASSUME NEW i \in Core, Running(i)', ~Doomed(i)',
                    NEW w \in DOMAIN write_set'[i], NEW l \in Lane \ stored'[i][w]
             PROVE  write_set'[i][w][l] = mem[w][l]
  BY StoreEffect, StoresTraced DEF SnapshotsCurrent, IInv
<1>1. TypeOK /\ ~StoreAsserts(acc)
  BY StoresTraced DEF IInv
<1>2. Running(i) /\ ~Doomed(i)
  BY <1>1, StoreEffect DEF Running, Doomed
<1>3. CASE i # c
  BY <1>1, <1>2, <1>3, StoreEffect DEF SnapshotsCurrent
<1>4. CASE i = c
  <2>1. /\ w \in DOMAIN write_set[c] \cup TracedWords(acc)
        /\ w \in Words
        /\ write_set'[c] = StoreWriteSet(write_set[c], mem, acc, data)
        /\ stored'[c][w] = stored[c][w] \cup CoveredLanes(acc, w)
    BY <1>1, <1>4, StoreEffect
  <2>2. l \in Lane \ CoveredLanes(acc, w) /\ l \notin stored[c][w]
    BY <1>4, <2>1
  <2>3. write_set'[c][w][l] =
           IF w \in DOMAIN write_set[c] THEN write_set[c][w][l] ELSE mem[w][l]
    <3>1. StoreWriteSet(write_set[c], mem, acc, data)[w][l] =
             IF w \in DOMAIN write_set[c] THEN write_set[c][w][l] ELSE mem[w][l]
      BY <1>1, <2>1, <2>2, AccessFacts, WordsAligned, StoreLane DEF Whole, WholeWords
    <3> QED
      BY <2>1, <3>1
  <2>4. w \in DOMAIN write_set[c] => write_set[c][w][l] = mem[w][l]
    BY <1>2, <1>4, <2>2 DEF SnapshotsCurrent
  <2> QED
    BY <1>4, <2>3, <2>4
<1> QED
  BY <1>3, <1>4

LEMMA PlainStoreSnapshots ==
    ASSUME KeepsReads, IInv, FInv, SnapshotsCurrent, NEW c \in Core,
           NEW acc \in Stores, NEW data, NEW mode \in Modes,
           PlainStore(c, acc, data, mode)
    PROVE  SnapshotsCurrent'
<1>1. TracedGuest /\ WholeWords /\ TypeOK /\ Modes \subseteq {"user"} /\ ReleaseVars = {}
  BY DEF IInv, KeepsReads, UserStores, TracedGuest
<1>2. /\ ~Running(c)
      /\ UNCHANGED <<mStatus, write_set, stored>>
      /\ mem' = WriteThrough(acc, data)
      /\ posted' = Post(posted, Overwritten(c, acc), "abort_transaction_idx")
  BY <1>1 DEF PlainStore, transaction
<1>3. ASSUME NEW d \in Core
      PROVE  /\ posted[d]["abort_transaction_idx"] \in Nat
             /\ posted'[d]["abort_transaction_idx"] =
                   IF d \in Overwritten(c, acc) THEN posted[d]["abort_transaction_idx"] + 1
                                                ELSE posted[d]["abort_transaction_idx"]
  <2>1. posted \in [Core -> [Callback -> Nat]]
    BY <1>1 DEF TypeOK
  <2>2. \A k \in Callback : posted'[d][k] =
            IF d \in Overwritten(c, acc) /\ k = "abort_transaction_idx"
            THEN posted[d][k] + 1 ELSE posted[d][k]
    BY <1>2, <2>1, PostValue, CallbackNames
  <2> QED
    BY <2>1, <2>2, CallbackNames
<1>4. \A d \in Core : Doomed(d) => Doomed(d)'
  BY <1>3 DEF Doomed
<1>5. ASSUME NEW d \in Core \ {c}, Running(d), ~Doomed(d)',
             NEW w \in DOMAIN write_set[d] \cap read_set[d]
      PROVE  mem'[w] = mem[w]
  <2>1. d \notin Overwritten(c, acc)
    <3> SUFFICES ASSUME d \in Overwritten(c, acc) PROVE FALSE
      OBVIOUS
    <3>1. posted[d]["abort_transaction_idx"] \in Nat
      BY <1>3
    <3>2. posted'[d]["abort_transaction_idx"] = posted[d]["abort_transaction_idx"] + 1
      BY <1>3
    <3> QED
      BY <1>5, <3>1, <3>2 DEF Doomed
  <2>2. w \notin TracedWords(acc)
    BY <1>1, <1>5, <2>1, OverwrittenReaders DEF TracedGuest, AddressesFitInt
  <2>3. w \in Words /\ SpannedWords(acc) = TracedWords(acc)
    BY <1>1 DEF TypeOK, WholeWords
  <2> QED
    BY <1>1, <1>2, <2>2, <2>3, WriteThroughOutside
<1>6. ~Running(c)' /\ \A d \in Core : Running(d)' => Running(d)
  BY <1>2 DEF Running
<1> QED
  BY <1>1, <1>2, <1>4, <1>5, <1>6, SnapshotsSpared

LEMMA CommitSnapshots ==
    ASSUME KeepsReads, IInv, FInv, SnapshotsCurrent, NEW c \in Core,
           CommitTransactionIdx(c)
    PROVE  SnapshotsCurrent'
<1>1. /\ posted[c]["commit_transaction_idx"] > 0
      /\ posted' = Taken(c, "commit_transaction_idx")
      /\ mem' = CommitWrites(write_set[c], mem)
      /\ Emptied(c)
      /\ TypeOK
      /\ ReleaseVars = {}
  BY DEF CommitTransactionIdx, Delivered, IInv, KeepsReads
<1>2. /\ \A d \in Core \ {c} : /\ mStatus'[d] = mStatus[d]
                               /\ write_set'[d] = write_set[d]
                               /\ stored'[d] = stored[d]
      /\ DOMAIN write_set'[c] = {}
  BY <1>1 DEF Emptied, EmptiedTo, TypeOK, NoWrites
<1>3. \A d \in Core : Doomed(d)' <=> Doomed(d)
  BY <1>1, TakenValue, CallbackNames DEF Doomed
<1>4. ASSUME NEW d \in Core \ {c}, Running(d), ~Doomed(d)',
             NEW w \in DOMAIN write_set[d] \cap read_set[d]
      PROVE  mem'[w] = mem[w]
  <2>1. w \in Words
    BY <1>1 DEF TypeOK
  <2>2. d \notin Readers(Core \ {c}, DOMAIN write_set[c])
    BY <1>1, <1>3, <1>4 DEF IInv, CommitReady
  <2>3. w \notin DOMAIN write_set[c]
    BY <1>4, <2>1, <2>2, HasReadWord, WordsAligned DEF Readers
  <2> QED
    BY <1>1, <2>1, <2>3, CommitWritesOutside
<1> QED
  BY <1>1, <1>2, <1>3, <1>4, SnapshotsSpared DEF Running

LEMMA AbortSnapshots ==
    ASSUME ReleaseVars = {}, IInv, FInv, SnapshotsCurrent, NEW c \in Core, AbortTransactionIdx(c)
    PROVE  SnapshotsCurrent'
<1>1. /\ posted' = Taken(c, "abort_transaction_idx")
      /\ mem' = mem
      /\ TypeOK
  BY DEF AbortTransactionIdx, IInv
<1>2. /\ \A d \in Core \ {c} : /\ mStatus'[d] = mStatus[d]
                               /\ write_set'[d] = write_set[d]
                               /\ stored'[d] = stored[d]
      /\ ~Running(c)'
  <2>1. CASE Running(c)
    BY <1>1, <2>1 DEF AbortTransactionIdx, Emptied, EmptiedTo, TypeOK, Running
  <2>2. CASE ~Running(c)
    BY <2>2 DEF AbortTransactionIdx, transaction, trace, Running
  <2> QED
    BY <2>1, <2>2
<1>3. \A d \in Core \ {c} : Doomed(d)' <=> Doomed(d)
  BY <1>1, TakenValue, CallbackNames DEF Doomed
<1> QED
  BY <1>1, <1>2, <1>3, SnapshotsSpared DEF Running

LEMMA SnapshotsStep ==
    KeepsReads /\ IInv /\ FInv /\ SnapshotsCurrent /\ [Next]_vars => SnapshotsCurrent'
<1> SUFFICES ASSUME KeepsReads, IInv, FInv, SnapshotsCurrent, [Next]_vars
             PROVE  SnapshotsCurrent'
  OBVIOUS
<1>1. TypeOK /\ WholeWords /\ OnlyVanilla /\ ReleaseVars = {}
  BY DEF IInv, KeepsReads, UserStores, TracedGuest
<1>2. CASE UNCHANGED vars
  BY <1>2, SnapshotsKept DEF vars, trace, Doomed
<1>3. ASSUME NEW c \in Core, NEW acc \in Stores, NEW data \in StoreData(acc),
             NEW type \in StoreTypes, Store(c, acc, data, type)
      PROVE  SnapshotsCurrent'
  BY <1>1, <1>3, StoreSnapshots DEF OnlyVanilla
<1>4. ASSUME NEW c \in Core, Instruction(c) \/ AbortRequested(c),
             UNCHANGED <<mem, write_set, stored>>
      PROVE  SnapshotsCurrent'
  BY <1>1, <1>4, DoomLasts, SnapshotsKept
<1>5. ASSUME NEW c \in Core,
             \/ BeginTransaction(c) \/ CommitTransaction(c) \/ AbortTransaction(c)
             \/ \E acc \in Loads : LoadStalls(c, acc)
             \/ \E acc \in Loads, type \in LoadTypes : Load(c, acc, type)
             \/ CoreExceptionReturn(c) \/ CoreBreakpoint(c) \/ AbortRequested(c)
             \/ OtherInstruction(c)
      PROVE  SnapshotsCurrent'
  <2>1. UNCHANGED <<mem, write_set, stored>>
    BY <1>5 DEF BeginTransaction, CommitTransaction, AbortTransaction, LoadStalls, Load,
       OtherInstruction, CoreExceptionReturn, CoreBreakpoint, AbortRequested, trace
  <2> QED
    BY <1>4, <1>5, <2>1 DEF Instruction
<1>6. ASSUME NEW c \in Core, Instruction(c) PROVE SnapshotsCurrent'
  BY <1>1, <1>3, <1>5, <1>6, PlainStoreSnapshots DEF Instruction
<1>7. ASSUME NEW c \in Core, Callbacks(c) PROVE SnapshotsCurrent'
  BY <1>1, <1>5, <1>7, CommitSnapshots, AbortSnapshots DEF Callbacks
<1> QED
  BY <1>2, <1>6, <1>7 DEF Next

LEMMA FootprintInductive == UserStores => (Spec => [](IInv /\ FInv))
<1> SUFFICES ASSUME UserStores PROVE Spec => [](IInv /\ FInv)
  OBVIOUS
<1>1. Init => FInv
  BY DEF Init, FInv, Footprint, NoWrites
<1>2. IInv /\ FInv /\ [Next]_vars => FInv'
  BY FootprintStep
<1>3. Spec => []IInv
  BY Inductive DEF UserStores
<1> QED
  BY <1>1, <1>2, <1>3, PTL DEF Spec

LEMMA SnapshotsInductive == KeepsReads => (Spec => [](IInv /\ SnapshotsCurrent))
<1> SUFFICES ASSUME KeepsReads PROVE Spec => [](IInv /\ SnapshotsCurrent)
  OBVIOUS
<1>1. Init => SnapshotsCurrent
  BY DEF Init, SnapshotsCurrent, NoWrites
<1>2. (IInv /\ FInv) /\ SnapshotsCurrent /\ [Next]_vars => SnapshotsCurrent'
  BY SnapshotsStep
<1>3. Spec => [](IInv /\ FInv)
  BY FootprintInductive DEF KeepsReads
<1> QED
  BY <1>1, <1>2, <1>3, PTL DEF Spec

\* The bytes that a narrow store copied from memory, and that the commit will
\* write back, are still memory's while no abort is on its way: the implied
\* read keeps them so (memory_trace.cpp:58-70, controller.cpp:62-77).
THEOREM SnapshotsCurrentHolds == KeepsReads => (Spec => []SnapshotsCurrent)
BY SnapshotsInductive, PTL

\* A commit is one serializable step: all that the block depends on is current
\* when its buffer reaches memory, and only the bytes it stored change
\* (controller.cpp:95-106, memory_trace.cpp:170-179).
THEOREM CommitsAreSerializableHolds == KeepsReads => (Spec => CommitsAreSerializable)
<1> SUFFICES ASSUME KeepsReads PROVE Spec => CommitsAreSerializable
  OBVIOUS
<1> DEFINE Step == \A c \in Core : SerializableCommit(c)
<1>1. ASSUME IInv, SnapshotsCurrent PROVE Step
  <2> SUFFICES ASSUME NEW c \in Core, CommitTransactionIdx(c), Running(c)
               PROVE  /\ \A w \in DOMAIN seen[c] : seen[c][w] = mem[w]
                      /\ \A w \in Words : \A l \in Lane \ stored[c][w] :
                            mem'[w][l] = mem[w][l]
    BY DEF SerializableCommit
  <2>1. posted[c]["commit_transaction_idx"] > 0 /\ mem' = CommitWrites(write_set[c], mem)
    BY DEF CommitTransactionIdx, Delivered
  <2>2. ~Doomed(c)
    BY <1>1, <2>1 DEF IInv, CommitReady
  <2>3. \A w \in DOMAIN seen[c] : seen[c][w] = mem[w]
    BY <1>1, <2>2 DEF IInv, Opacity
  <2>4. ASSUME NEW w \in Words, NEW l \in Lane \ stored[c][w]
        PROVE  mem'[w][l] = mem[w][l]
    <3>1. mem'[w] = IF w \in DOMAIN write_set[c] THEN write_set[c][w] ELSE mem[w]
      BY <1>1, <2>1 DEF CommitWrites, IInv, TypeOK
    <3>2. w \in DOMAIN write_set[c] => write_set[c][w][l] = mem[w][l]
      BY <1>1, <2>2 DEF SnapshotsCurrent
    <3> QED
      BY <3>1, <3>2
  <2> QED
    BY <2>3, <2>4
<1>2. (IInv /\ SnapshotsCurrent) /\ [Next]_vars => [Step]_vars
  BY <1>1
<1> QED
  BY <1>2, SnapshotsInductive, PTL DEF Spec, CommitsAreSerializable

\* A commit aborts nobody without cause: whoever its scan dooms was running and
\* depends on a word of which the committing block stored a byte, and which it
\* has not released since (controller.cpp:62-77, memory_trace.cpp:233-247).
THEOREM CommitDoomsOnlyDependentsHolds ==
    UserStores => (Spec => CommitDoomsOnlyDependents)
<1> SUFFICES ASSUME UserStores PROVE Spec => CommitDoomsOnlyDependents
  OBVIOUS
<1> DEFINE Step == \A c, d \in Core : CommitTransaction(c) /\ Doomed(d)' /\ ~Doomed(d) =>
                      Running(d) /\ \E w \in DOMAIN seen[d] : stored[c][w] # {}
<1>1. ASSUME IInv, FInv PROVE Step
  <2> SUFFICES ASSUME NEW c \in Core, NEW d \in Core, CommitTransaction(c),
                      Doomed(d)', ~Doomed(d)
               PROVE  Running(d) /\ \E w \in DOMAIN seen[d] : stored[c][w] # {}
    OBVIOUS
  <2> DEFINE Q == Post(posted, Conflicting(c), "abort_transaction_idx")
  <2>1. posted \in [Core -> [Callback -> Nat]] /\ write_set[c] \in WordMap
    BY <1>1 DEF IInv, TypeOK
  <2>2. Q \in [Core -> [Callback -> Nat]]
    BY <2>1, PostType, CallbackNames
  <2>3. d \in Conflicting(c)
    <3>1. Q[d]["abort_transaction_idx"] =
             IF d \in Conflicting(c) THEN posted[d]["abort_transaction_idx"] + 1
                                     ELSE posted[d]["abort_transaction_idx"]
      BY <2>1, PostValue, CallbackNames
    <3>2. posted' = Post(Q, {c}, "commit_transaction_idx")
      BY DEF CommitTransaction
    <3> HIDE DEF Q
    <3>3. posted'[d]["abort_transaction_idx"] = Q[d]["abort_transaction_idx"]
      BY <2>2, <3>2, PostValue, CallbackNames
    <3> QED
      BY <3>1, <3>3 DEF Doomed
  <2>4. PICK w \in DOMAIN write_set[c] : Running(d) /\ HasRead(read_set[d], w, 4)
    BY <2>3 DEF Conflicting, Readers
  <2>5. w \in Words
    BY <2>1, <2>4, WordMapElim
  <2>6. w \in read_set[d]
    BY <2>4, <2>5, HasReadWord, WordsAligned
  <2>7. w \in DOMAIN seen[d] /\ stored[c][w] # {}
    BY <1>1, <2>4, <2>6 DEF FInv, Footprint
  <2> QED
    BY <2>4, <2>7
<1>2. (IInv /\ FInv) /\ [Next]_vars => [Step]_vars
  BY <1>1
<1> QED
  BY <1>2, FootprintInductive, PTL DEF Spec, CommitDoomsOnlyDependents

-----------------------------------------------------------------------------
(* The assertions.                                                         *)

\* A store that buffers the first word of a pair that is loaded whole buffers
\* the second too.
PairsStored ==
    \A load \in Loads, store \in Stores :
        load.size = 8 /\ WordOf(load.addr) \in TracedWords(store)
            => WordOf(load.addr) + 4 \in TracedWords(store)
StartsUnpaused == "PAUSE" \notin InitialStatus

\* Nothing has failed, nothing is paused, and pairs are buffered whole.
AInv ==
    /\ NothingAsserts
    /\ mStatus \in [Core -> Status \ {"PAUSE"}]
    /\ \A c \in Core, acc \in Loads :
          acc.size = 8 /\ WordOf(acc.addr) \in DOMAIN write_set[c]
              => WordOf(acc.addr) + 4 \in DOMAIN write_set[c]

LEMMA AInvStep ==
    WholeWords /\ OnlyVanilla /\ PairsStored /\ TypeOK /\ AInv /\ [Next]_vars => AInv'
<1> SUFFICES ASSUME WholeWords, OnlyVanilla, PairsStored, TypeOK, AInv, [Next]_vars
             PROVE  AInv'
  OBVIOUS
<1>1. /\ failed = FALSE /\ DOMAIN write_set = Core
      /\ mStatus \in [Core -> Status \ {"PAUSE"}]
  BY DEF AInv, NothingAsserts, TypeOK
<1>2. ASSUME UNCHANGED <<failed, mStatus, write_set>> PROVE AInv'
  BY <1>2 DEF AInv, NothingAsserts
<1>3. ASSUME NEW c \in Core, Emptied(c), failed' = FALSE PROVE AInv'
  BY <1>1, <1>3 DEF Emptied, EmptiedTo, AInv, NothingAsserts, NoWrites, Status
<1>4. ASSUME NEW c \in Core PROVE InExceptionAsserts(c) = FALSE
  BY <1>1 DEF InExceptionAsserts
<1>5. ASSUME NEW c \in Core, BeginTransaction(c) PROVE AInv'
  BY <1>1, <1>5 DEF BeginTransaction, Begun, trace, AInv, NothingAsserts, Status
<1>6. ASSUME NEW c \in Core, NEW acc \in Loads, NEW type, Load(c, acc, type)
      PROVE  AInv'
  <2>1. Whole(acc) /\ acc \in Access
    BY AccessAssumption DEF WholeWords, Whole
  <2>2. ~LoadAsserts(write_set[c], acc)
    BY <2>1, HalfWordPasses DEF LoadAsserts, AInv, Whole
  <2> QED
    BY <1>2, <1>1, <1>6, <2>2 DEF Load, transaction
<1>7. ASSUME NEW c \in Core, NEW acc \in Stores, NEW data \in StoreData(acc),
             Store(c, acc, data, "vanilla")
      PROVE  AInv'
  <2>1. /\ \A d \in Core \ {c} : write_set'[d] = write_set[d]
        /\ DOMAIN write_set'[c] = DOMAIN write_set[c] \cup TracedWords(acc)
        /\ mStatus' = mStatus
    BY <1>7, StoreEffect, StoresTraced
  <2>2. failed' = failed
    BY <1>7, StoresTraced DEF Store
  <2> QED
    BY <2>1, <2>2 DEF AInv, NothingAsserts, PairsStored
<1>8. ASSUME NEW c \in Core, CoreExceptionReturn(c) PROVE AInv'
  BY <1>1, <1>2, <1>4, <1>8 DEF CoreExceptionReturn, trace
<1>9. ASSUME NEW c \in Core, AbortTransactionIdx(c) PROVE AInv'
  BY <1>1, <1>2, <1>3, <1>4, <1>9 DEF AbortTransactionIdx, transaction, trace
<1>10. ASSUME NEW c \in Core, CommitTransactionIdx(c) PROVE AInv'
  BY <1>1, <1>3, <1>10 DEF CommitTransactionIdx
<1>11. CASE UNCHANGED vars
  BY <1>2, <1>11 DEF vars, transaction, trace
<1>12. CASE Next
  <2>1. PICK c \in Core : Instruction(c) \/ Callbacks(c)
    BY <1>12 DEF Next
  <2>2. ASSUME \/ CommitTransaction(c) \/ AbortTransaction(c) \/ CoreBreakpoint(c)
               \/ OtherInstruction(c) \/ AbortRequested(c)
               \/ \E var \in ReleaseVars : EarlyRelease(c, var)
               \/ \E acc \in Loads : LoadStalls(c, acc)
               \/ \E acc, data, mode : PlainStore(c, acc, data, mode)
        PROVE  AInv'
    BY <1>2, <2>2 DEF CommitTransaction, AbortTransaction, CoreBreakpoint,
       OtherInstruction, AbortRequested, EarlyRelease, Erases, LoadStalls, PlainStore,
       transaction, trace
  <2>3. ASSUME Instruction(c) PROVE AInv'
    BY <1>5, <1>6, <1>7, <1>8, <2>2, <2>3 DEF Instruction, OnlyVanilla
  <2> QED
    BY <1>9, <1>10, <2>1, <2>2, <2>3 DEF Callbacks
<1> QED
  BY <1>11, <1>12

\* No assertion of the module fails under vanilla accesses of 1, 2, 4 or 8
\* bytes within words whose loaded pairs are stored whole, whatever aborts,
\* releases and exceptions come between, if no core finds TRANS_PAUSE in the
\* memory of its mStatus (memory_trace.cpp:79-82, 106, 138-165, 271,
\* transaction.cpp:423-428).
THEOREM NothingAssertsHolds ==
    WholeWords /\ OnlyVanilla /\ PairsStored /\ StartsUnpaused => (Spec => []NothingAsserts)
<1> SUFFICES ASSUME WholeWords, OnlyVanilla, PairsStored, StartsUnpaused
             PROVE  Spec => []NothingAsserts
  OBVIOUS
<1>1. Init => AInv
  <2> SUFFICES ASSUME Init PROVE AInv
    OBVIOUS
  <2>1. InitialStatus \subseteq Status \ {"PAUSE"}
    BY EnvironmentAssumption DEF StartsUnpaused
  <2> QED
    BY <2>1 DEF Init, AInv, NothingAsserts, NoWrites
<1>2. TypeOK /\ AInv /\ [Next]_vars => AInv'
  BY AInvStep
<1>3. AInv => NothingAsserts
  BY DEF AInv
<1> QED
  BY <1>1, <1>2, <1>3, TypeCorrect, PTL DEF Spec
==============================================================================
