---------------------------- MODULE MachineProofs ----------------------------
(***************************************************************************)
(* Theorems about TransmemMachine: what the module does see it gets right, *)
(* for any guest, any devices and any kernel.                              *)
(***************************************************************************)
EXTENDS TransmemMachine, TransmemBlockProofs

-----------------------------------------------------------------------------
(* The invariant.                                                          *)

\* What the sets of core c say of its block, outside the words that escaped:
\* every dependence is in the read set, and so is every buffered word unless
\* all its lanes are stored; a block that is over depends on nothing.
Covered(c) ==
    /\ DOMAIN seen[c] \ blind[c] \subseteq read_set[c]
    /\ \A w \in DOMAIN write_set[c] \ blind[c] : w \in read_set[c] \/ stored[c][w] = Lane
    /\ ~Running(c) => Held(c) = {}

\* What its block then knows of memory.
Current(c) ==
    Running(c) /\ ~Doomed(c) =>
        /\ \A w \in DOMAIN seen[c] \ blind[c] : seen[c][w] = mem[w]
        /\ \A w \in DOMAIN write_set[c] \ blind[c] : \A l \in Lane \ stored[c][w] :
              write_set[c][w][l] = mem[w][l]

Blocks == DOMAIN blind = Core /\ \A c \in Core : Covered(c) /\ Current(c)

MInv == Scheduled /\ Blocks

LEMMA HeldWords ==
    ASSUME TypeOK, NEW c \in Core
    PROVE  Held(c) \subseteq Words
<1>1. seen[c] \in WordMap /\ write_set[c] \in WordMap
  BY DEF TypeOK
<1> QED
  BY <1>1, WordMapElim DEF Held

\* A step of the others: the block of core i stays as it is, and memory changes
\* in none of its words that the trace names, unless they escape or it is
\* doomed.
LEMMA Bystander ==
    ASSUME Blocks, NEW i \in Core,
           mStatus'[i] = mStatus[i], read_set'[i] = read_set[i],
           write_set'[i] = write_set[i], seen'[i] = seen[i], stored'[i] = stored[i],
           blind[i] \subseteq blind'[i],
           Doomed(i) => Doomed(i)',
           Running(i) /\ ~Doomed(i)' =>
              \A w \in (read_set[i] \cap Held(i)) \ blind'[i] : mem'[w] = mem[w]
    PROVE  Covered(i)' /\ Current(i)'
<1>1. Covered(i) /\ Current(i)
  BY DEF Blocks
<1>2. Covered(i)'
  BY <1>1 DEF Covered, Running, Held
<1>3. Current(i)'
  <2> SUFFICES ASSUME Running(i)', ~Doomed(i)'
               PROVE  /\ \A w \in DOMAIN seen[i] \ blind'[i] : seen[i][w] = mem'[w]
                      /\ \A w \in DOMAIN write_set[i] \ blind'[i] :
                            \A l \in Lane \ stored[i][w] : write_set[i][w][l] = mem'[w][l]
    BY DEF Current
  <2>1. Running(i) /\ ~Doomed(i)
    BY DEF Running
  <2>2. ASSUME NEW w \in DOMAIN seen[i] \ blind'[i] PROVE seen[i][w] = mem'[w]
    <3>1. w \in read_set[i] \cap Held(i)
      BY <1>1, <2>2 DEF Covered, Held
    <3> QED
      BY <1>1, <2>1, <2>2, <3>1 DEF Current
  <2>3. ASSUME NEW w \in DOMAIN write_set[i] \ blind'[i], NEW l \in Lane \ stored[i][w]
        PROVE  write_set[i][w][l] = mem'[w][l]
    <3>1. w \in read_set[i] \cap Held(i)
      BY <1>1, <2>3 DEF Covered, Held
    <3> QED
      BY <1>1, <2>1, <2>3, <3>1 DEF Current
  <2> QED
    BY <2>2, <2>3
<1> QED
  BY <1>2, <1>3

-----------------------------------------------------------------------------
(* Steps that leave memory alone.                                          *)

LEMMA QuietBlocks ==
    ASSUME MInv, NEW c \in Core, MachineQuiet(c)
    PROVE  Blocks'
<1>1. UNCHANGED <<mem, read_set, write_set, seen, stored, blind>>
  BY DEF MachineQuiet, BeginTransaction, CommitTransaction, AbortTransaction, LoadStalls,
     OtherInstruction, CoreExceptionReturn, CoreBreakpoint, AbortRequested, trace
<1>2. \A d \in Core : Doomed(d) => Doomed(d)'
  BY DoomLasts DEF MInv, Scheduled, MachineQuiet, Instruction
<1>3. \A d \in Core : mStatus'[d] = mStatus[d] \/ ~Running(d)
  BY DEF MachineQuiet, BeginTransaction, Begun, CommitTransaction, AbortTransaction,
     LoadStalls, OtherInstruction, CoreExceptionReturn, CoreBreakpoint, AbortRequested,
     transaction, Running, MInv, Scheduled, TypeOK
<1>4. ASSUME NEW d \in Core PROVE Covered(d)' /\ Current(d)'
  <2>1. CASE mStatus'[d] = mStatus[d]
    BY <1>1, <1>2, <2>1, Bystander DEF MInv
  <2>2. CASE ~Running(d)
    BY <1>1, <2>2 DEF MInv, Blocks, Covered, Current, Held
  <2> QED
    BY <1>3, <2>1, <2>2
<1> QED
  BY <1>1, <1>4 DEF MInv, Blocks

LEMMA LoadBlocks ==
    ASSUME MInv, NEW c \in Core, NEW acc \in Loads, NEW type, MachineLoad(c, acc, type)
    PROVE  Blocks'
<1>1. /\ Running(c)
      /\ UNCHANGED <<mem, mStatus, write_set, stored, posted>>
      /\ read_set' = [read_set EXCEPT ![c] =
                        IF type = "vanilla" THEN LoadReadSet(@, acc) ELSE @]
      /\ seen' = [seen EXCEPT ![c] = Depend(@, SpannedWords(acc))]
      /\ blind' = [blind EXCEPT ![c] = @ \cup Unentered(c, acc, type)]
  BY DEF MachineLoad, Load, transaction
<1>2. /\ DOMAIN read_set = Core /\ DOMAIN seen = Core /\ DOMAIN blind = Core
      /\ Covered(c) /\ Current(c)
  BY DEF MInv, Scheduled, TypeOK, Blocks
<1>3. \A d \in Core \ {c} : /\ read_set'[d] = read_set[d]
                            /\ seen'[d] = seen[d]
                            /\ blind'[d] = blind[d]
  BY <1>1, <1>2
<1>4. /\ read_set'[c] = read_set[c] \cup Entered(acc, type)
      /\ seen'[c] = Depend(seen[c], SpannedWords(acc))
      /\ blind'[c] = blind[c] \cup Unentered(c, acc, type)
  BY <1>1, <1>2 DEF LoadReadSet, Entered
<1>5. \A d \in Core \ {c} : Covered(d)' /\ Current(d)'
  BY <1>1, <1>3, Bystander DEF MInv, Doomed
<1>6. Covered(c)'
  <2>1. DOMAIN seen'[c] \ blind'[c] \subseteq read_set'[c]
    BY <1>2, <1>4 DEF Covered, Depend, Unentered
  <2> QED
    BY <1>1, <1>2, <1>4, <2>1 DEF Covered, Running
<1>7. Current(c)'
  BY <1>1, <1>2, <1>4 DEF Current, Depend, Running, Doomed
<1> QED
  BY <1>1, <1>2, <1>5, <1>6, <1>7 DEF Blocks

LEMMA ReleaseBlocks ==
    ASSUME MInv, NEW c \in Core, NEW var, MachineRelease(c, var)
    PROVE  Blocks'
<1>1. /\ UNCHANGED <<mem, mStatus, write_set, stored, posted>>
      /\ read_set' = [read_set EXCEPT ![c] = @ \ Released(var)]
      /\ seen' = [seen EXCEPT ![c] = [w \in DOMAIN @ \ Released(var) |-> @[w]]]
      /\ blind' = [blind EXCEPT ![c] = @ \cup (Released(var) \cap DOMAIN write_set[c])]
  BY DEF MachineRelease, EarlyRelease, Erases, transaction
<1>2. /\ DOMAIN read_set = Core /\ DOMAIN seen = Core /\ DOMAIN blind = Core
      /\ Covered(c) /\ Current(c)
  BY DEF MInv, Scheduled, TypeOK, Blocks
<1>3. \A d \in Core \ {c} : /\ read_set'[d] = read_set[d]
                            /\ seen'[d] = seen[d]
                            /\ blind'[d] = blind[d]
  BY <1>1, <1>2
<1>4. /\ read_set'[c] = read_set[c] \ Released(var)
      /\ seen'[c] = [w \in DOMAIN seen[c] \ Released(var) |-> seen[c][w]]
      /\ blind'[c] = blind[c] \cup (Released(var) \cap DOMAIN write_set[c])
  BY <1>1, <1>2
<1>5. \A d \in Core \ {c} : Covered(d)' /\ Current(d)'
  BY <1>1, <1>3, Bystander DEF MInv, Doomed
<1>6. Covered(c)'
  BY <1>1, <1>2, <1>4 DEF Covered, Running, Held
<1>7. Current(c)'
  BY <1>1, <1>2, <1>4 DEF Current, Running, Doomed
<1> QED
  BY <1>1, <1>2, <1>5, <1>6, <1>7 DEF Blocks

\* A buffered store.
LEMMA StoreBlocks ==
    ASSUME MInv, NEW c \in Core, NEW acc \in Stores, NEW data \in StoreData(acc),
           MachineStore(c, acc, data, "vanilla"), ~StoreAsserts(acc)
    PROVE  Blocks'
<1>1. /\ TypeOK /\ Store(c, acc, data, "vanilla")
      /\ Covered(c) /\ Current(c)
      /\ \A d \in Core \ {c} : blind'[d] = blind[d]
      /\ blind'[c] = blind[c] \cup Misplaced(acc)
      /\ DOMAIN blind' = Core
  BY DEF MInv, Scheduled, MachineStore, Blocks
<1>2. \A d \in Core \ {c} : Covered(d)' /\ Current(d)'
  BY <1>1, StoreEffect, Bystander DEF MInv, Doomed
<1>3. ASSUME NEW w \in DOMAIN write_set'[c] \ blind'[c]
      PROVE  /\ w \in read_set'[c] \/ stored'[c][w] = Lane
             /\ Running(c) /\ ~Doomed(c) =>
                   \A l \in Lane \ stored'[c][w] : write_set'[c][w][l] = mem[w][l]
  <2>1. /\ w \in DOMAIN write_set[c] \cup TracedWords(acc)
        /\ w \in Words
        /\ w \notin blind[c] /\ w \notin Misplaced(acc)
        /\ stored'[c][w] = stored[c][w] \cup CoveredLanes(acc, w)
        /\ read_set'[c] = read_set[c] \cup ImpliedReads(write_set[c], acc)
        /\ write_set'[c] = StoreWriteSet(write_set[c], mem, acc, data)
    BY <1>1, StoreEffect
  <2>2. stored[c][w] \subseteq Lane /\ CoveredLanes(acc, w) \subseteq Lane
    BY <1>1, <2>1 DEF TypeOK, CoveredLanes
  <2>3. CASE w \notin TracedWords(acc)
    <3>1. w \in DOMAIN write_set[c] /\ write_set'[c][w] = write_set[c][w]
      BY <2>1, <2>3 DEF StoreWriteSet
    <3> QED
      BY <1>1, <2>1, <2>2, <3>1 DEF Covered, Current
  <2>4. CASE w \in TracedWords(acc)
    <3>1. Whole(acc) /\ acc.size \in {1, 2, 4, 8}
      BY <2>1, <2>4 DEF Misplaced, Whole, StoreAsserts, TracedSizes
    <3>2. ASSUME NEW l \in Lane \ stored'[c][w]
          PROVE  write_set'[c][w][l] =
                    IF w \in DOMAIN write_set[c] THEN write_set[c][w][l] ELSE mem[w][l]
      BY <2>1, <3>1, <3>2, AccessFacts, WordsAligned, StoreLane
    <3>3. CASE w \in DOMAIN write_set[c]
      BY <1>1, <2>1, <2>2, <3>2, <3>3 DEF Covered, Current
    <3>4. CASE w \notin DOMAIN write_set[c]
      <4>1. w \in read_set'[c] \/ stored'[c][w] = Lane
        <5>1. CASE acc.size \in {4, 8}
          BY <2>1, <2>2, <2>4, <3>1, <5>1, AccessFacts, WideCovers
        <5>2. CASE acc.size \in {1, 2}
          BY <2>1, <2>4, <3>4, <5>2 DEF ImpliedReads
        <5> QED
          BY <3>1, <5>1, <5>2
      <4> QED
        BY <3>2, <3>4, <4>1
    <3> QED
      BY <3>3, <3>4
  <2> QED
    BY <2>3, <2>4
<1>4. Covered(c)'
  <2>1. DOMAIN seen'[c] \ blind'[c] \subseteq read_set'[c] /\ Running(c)'
    BY <1>1, StoreEffect DEF Covered, Running
  <2> QED
    BY <1>3, <2>1 DEF Covered
<1>5. Current(c)'
  <2> SUFFICES ASSUME ~Doomed(c)'
               PROVE  \A w \in DOMAIN seen'[c] \ blind'[c] : seen'[c][w] = mem'[w]
    BY <1>1, <1>3, StoreEffect DEF Current, Running, Doomed
  <2>1. Running(c) /\ ~Doomed(c) /\ mem' = mem
    BY <1>1, StoreEffect DEF Doomed
  <2> QED
    BY <1>1, <2>1, StoreEffect DEF Current
<1> QED
  BY <1>1, <1>2, <1>4, <1>5 DEF Blocks

-----------------------------------------------------------------------------
(* Steps that change memory.                                               *)

\* A change of memory behind the hooks.
LEMMA EscapeBlocks ==
    ASSUME TypeOK, Blocks, NEW acc \in Stores, NEW data,
           mem' = WriteThrough(acc, data), Escapes(Core, SpannedWords(acc)),
           UNCHANGED <<mStatus, trace, posted>>
    PROVE  Blocks'
<1>1. DOMAIN blind' = Core
  BY DEF Escapes
<1>2. ASSUME NEW i \in Core PROVE Covered(i)' /\ Current(i)'
  <2>1. blind'[i] = IF Running(i) THEN blind[i] \cup (SpannedWords(acc) \cap Held(i))
                                  ELSE blind[i]
    BY DEF Escapes
  <2>2. ASSUME Running(i), NEW w \in Held(i) \ blind'[i] PROVE mem'[w] = mem[w]
    <3>1. w \in Words /\ w \notin SpannedWords(acc)
      BY <2>1, <2>2, HeldWords
    <3> QED
      BY <3>1, WriteThroughOutside
  <2> QED
    BY <2>1, <2>2, Bystander DEF trace, Doomed
<1> QED
  BY <1>1, <1>2 DEF Blocks

LEMMA PlainStoreBlocks ==
    ASSUME MInv, NEW c \in Core, NEW acc \in Stores, NEW data, NEW mode,
           MachinePlainStore(c, acc, data, mode), Instruction(c)
    PROVE  Blocks'
<1>1. /\ UNCHANGED <<mStatus, read_set, write_set, stored>>
      /\ mem' = WriteThrough(acc, data)
      /\ posted' = Post(posted, Overwritten(c, acc), "abort_transaction_idx")
      /\ seen' = [seen EXCEPT ![c] = [w \in DOMAIN @ \ SpannedWords(acc) |-> @[w]]]
      /\ \A i \in Core : blind'[i] =
            IF ~Running(i) THEN blind[i]
            ELSE blind[i] \cup (IF i = c THEN SpannedWords(acc) \cap DOMAIN write_set[i]
                                ELSE (SpannedWords(acc) \ Compared(acc)) \cap Held(i))
      /\ DOMAIN blind' = Core
  BY DEF MachinePlainStore, PlainStore, transaction
<1>2. TypeOK /\ DOMAIN seen = Core /\ Covered(c) /\ Current(c)
  BY DEF MInv, Scheduled, TypeOK, Blocks
<1>3. /\ \A d \in Core \ {c} : seen'[d] = seen[d]
      /\ seen'[c] = [w \in DOMAIN seen[c] \ SpannedWords(acc) |-> seen[c][w]]
  BY <1>1, <1>2
<1>4. \A d \in Core : Doomed(d) => Doomed(d)'
  BY <1>2, DoomLasts
<1>5. \A w \in Words : w \notin SpannedWords(acc) => mem'[w] = mem[w]
  BY <1>1, <1>2, WriteThroughOutside
<1>6. ASSUME NEW i \in Core \ {c} PROVE Covered(i)' /\ Current(i)'
  <2>1. ASSUME Running(i), ~Doomed(i)', NEW w \in (read_set[i] \cap Held(i)) \ blind'[i],
               w \in SpannedWords(acc)
        PROVE  FALSE
    <3>1. w \in Compared(acc)
      BY <1>1, <2>1
    <3>2. NarrowToInt(acc.addr) = acc.addr /\ HasRead(read_set[i], acc.addr, acc.size)
      BY <2>1, <3>1 DEF Compared, HasRead
    <3>3. i \in Overwritten(c, acc)
      BY <2>1, <3>2 DEF Overwritten
    <3>4. /\ posted[i]["abort_transaction_idx"] \in Nat
          /\ posted'[i]["abort_transaction_idx"] = posted[i]["abort_transaction_idx"] + 1
      <4>1. posted \in [Core -> [Callback -> Nat]]
        BY <1>2 DEF TypeOK
      <4>2. \A k \in Callback :
                posted'[i][k] = IF i \in Overwritten(c, acc) /\ k = "abort_transaction_idx"
                                THEN posted[i][k] + 1 ELSE posted[i][k]
        BY <1>1, <4>1, PostValue, CallbackNames
      <4> QED
        BY <3>3, <4>1, <4>2, CallbackNames
    <3> QED
      BY <2>1, <3>4 DEF Doomed
  <2>2. Held(i) \subseteq Words
    BY <1>2, HeldWords
  <2> QED
    BY <1>1, <1>3, <1>4, <1>5, <2>1, <2>2, Bystander DEF MInv
<1>7. Covered(c)'
  BY <1>1, <1>2, <1>3 DEF Covered, Running, Held
<1>8. Current(c)'
  <2> SUFFICES ASSUME Running(c)', ~Doomed(c)'
               PROVE  /\ \A w \in DOMAIN seen'[c] \ blind'[c] : seen'[c][w] = mem'[w]
                      /\ \A w \in DOMAIN write_set'[c] \ blind'[c] :
                            \A l \in Lane \ stored'[c][w] : write_set'[c][w][l] = mem'[w][l]
    BY DEF Current
  <2>1. Running(c) /\ ~Doomed(c) /\ Held(c) \subseteq Words
    BY <1>1, <1>2, <1>4, HeldWords DEF Running
  <2>2. \A w \in DOMAIN seen'[c] \ blind'[c] : seen'[c][w] = mem'[w]
    BY <1>1, <1>2, <1>3, <1>5, <2>1 DEF Current, Held
  <2>3. ASSUME NEW w \in DOMAIN write_set'[c] \ blind'[c]
        PROVE  \A l \in Lane \ stored'[c][w] : write_set'[c][w][l] = mem'[w][l]
    <3>1. /\ w \in DOMAIN write_set[c] \ blind[c]
          /\ w \in Words /\ w \notin SpannedWords(acc)
      BY <1>1, <2>1, <2>3 DEF Held
    <3> QED
      BY <1>1, <1>2, <1>5, <2>1, <3>1 DEF Current
  <2> QED
    BY <2>2, <2>3
<1> QED
  BY <1>1, <1>6, <1>7, <1>8 DEF Blocks

LEMMA CommitBlocks ==
    ASSUME MInv, NEW c \in Core, CommitTransactionIdx(c),
           blind' = [blind EXCEPT ![c] = {}]
    PROVE  Blocks'
<1>1. /\ posted[c]["commit_transaction_idx"] > 0
      /\ posted' = Taken(c, "commit_transaction_idx")
      /\ mem' = CommitWrites(write_set[c], mem)
      /\ Emptied(c)
  BY DEF CommitTransactionIdx, Delivered
<1>2. TypeOK /\ DOMAIN blind = Core /\ CommitReady
  BY DEF MInv, Scheduled, Blocks
<1>3. /\ \A d \in Core \ {c} : /\ mStatus'[d] = mStatus[d]
                               /\ read_set'[d] = read_set[d]
                               /\ write_set'[d] = write_set[d]
                               /\ seen'[d] = seen[d]
                               /\ stored'[d] = stored[d]
                               /\ blind'[d] = blind[d]
      /\ ~Running(c)' /\ DOMAIN seen'[c] = {} /\ DOMAIN write_set'[c] = {}
  BY <1>1, <1>2 DEF Emptied, EmptiedTo, TypeOK, Fresh, NoWrites, Running
<1>4. \A d \in Core : posted'[d]["abort_transaction_idx"] = posted[d]["abort_transaction_idx"]
  BY <1>1, <1>2, TakenValue, CallbackNames
<1>5. ASSUME NEW i \in Core \ {c} PROVE Covered(i)' /\ Current(i)'
  <2>1. ASSUME Running(i), ~Doomed(i)', NEW w \in read_set[i] \cap Held(i)
        PROVE  mem'[w] = mem[w]
    <3>1. w \in Words /\ w \in read_set[i] /\ ~Doomed(i)
      BY <1>2, <1>4, <2>1, HeldWords DEF Doomed
    <3>2. w \notin DOMAIN write_set[c]
      BY <1>1, <1>2, <2>1, <3>1, HasReadWord, WordsAligned DEF CommitReady, Readers
    <3> QED
      BY <1>1, <1>2, <3>1, <3>2, CommitWritesOutside
  <2> QED
    BY <1>3, <1>4, <2>1, Bystander DEF MInv, Doomed
<1>6. Covered(c)' /\ Current(c)'
  BY <1>3 DEF Covered, Current, Held
<1> QED
  BY <1>2, <1>5, <1>6 DEF Blocks

LEMMA AbortBlocks ==
    ASSUME MInv, NEW c \in Core, AbortTransactionIdx(c),
           blind' = [blind EXCEPT ![c] = {}]
    PROVE  Blocks'
<1>1. posted' = Taken(c, "abort_transaction_idx") /\ mem' = mem
  BY DEF AbortTransactionIdx
<1>2. TypeOK /\ DOMAIN blind = Core /\ Covered(c)
  BY DEF MInv, Scheduled, Blocks
<1>3. /\ \A d \in Core \ {c} : /\ mStatus'[d] = mStatus[d]
                               /\ read_set'[d] = read_set[d]
                               /\ write_set'[d] = write_set[d]
                               /\ seen'[d] = seen[d]
                               /\ stored'[d] = stored[d]
      /\ ~Running(c)' /\ DOMAIN seen'[c] = {} /\ DOMAIN write_set'[c] = {}
  <2>1. CASE Running(c)
    BY <1>2, <2>1 DEF AbortTransactionIdx, Emptied, EmptiedTo, TypeOK, Fresh, NoWrites,
       Running
  <2>2. CASE ~Running(c)
    BY <1>2, <2>2 DEF AbortTransactionIdx, transaction, trace, Covered, Held, Running
  <2> QED
    BY <2>1, <2>2
<1>4. \A d \in Core \ {c} :
         posted'[d]["abort_transaction_idx"] = posted[d]["abort_transaction_idx"]
  BY <1>1, <1>2, TakenValue, CallbackNames
<1>5. ASSUME NEW i \in Core \ {c} PROVE Covered(i)' /\ Current(i)'
  BY <1>1, <1>2, <1>3, <1>4, Bystander DEF MInv, Doomed
<1>6. Covered(c)' /\ Current(c)'
  BY <1>3 DEF Covered, Current, Held
<1> QED
  BY <1>2, <1>5, <1>6 DEF Blocks

-----------------------------------------------------------------------------
(* The machine.                                                            *)

\* A device's store schedules nothing.
LEMMA DeviceScheduled ==
    ASSUME Scheduled, NEW acc \in Stores, NEW data \in StoreData(acc),
           DeviceStore(acc, data)
    PROVE  Scheduled'
<1>1. /\ mem' = WriteThrough(acc, data)
      /\ UNCHANGED <<transaction, mLastLoad, trace, posted, current, failed>>
  BY DEF DeviceStore
<1>2. TypeOK'
  <2>1. mem' \in [Words -> WordValue]
    BY <1>1, WriteThroughType, StoreDataType DEF Scheduled, TypeOK
  <2> QED
    BY <1>1, <2>1 DEF Scheduled, TypeOK, transaction, trace
<1> QED
  BY <1>1, <1>2 DEF Scheduled, RequestsOnCurrent, CommitReady, Doomed, Readers, Running,
     transaction, trace

LEMMA MInvInit == MachineInit => MInv
<1> SUFFICES ASSUME MachineInit PROVE MInv
  OBVIOUS
<1>1. \A c \in Core : DOMAIN seen[c] = {} /\ DOMAIN write_set[c] = {} /\ Held(c) = {}
  BY DEF MachineInit, Init, Fresh, NoWrites, Held
<1>2. Blocks
  BY <1>1 DEF MachineInit, Blocks, Covered, Current
<1> QED
  BY <1>2, ScheduledInit DEF MachineInit, MInv

LEMMA MInvStep == MInv /\ [MachineNext]_machineVars => MInv'
<1> SUFFICES ASSUME MInv, [MachineNext]_machineVars PROVE MInv'
  OBVIOUS
<1>1. TypeOK /\ Scheduled /\ Blocks
  BY DEF MInv, Scheduled
<1>2. ASSUME UNCHANGED machineVars PROVE MInv'
  <2>1. Scheduled'
    BY <1>1, <1>2, ScheduledStep DEF machineVars
  <2>2. Blocks'
    BY <1>1, <1>2 DEF machineVars, vars, transaction, trace, Blocks, Covered, Current, Held,
       Running, Doomed
  <2> QED
    BY <2>1, <2>2 DEF MInv
<1>3. ASSUME NEW c \in Core, Instruction(c) \/ Callbacks(c) PROVE Scheduled'
  BY <1>1, <1>3, ScheduledStep DEF Next
<1>4. ASSUME NEW c \in Core, MachineQuiet(c) PROVE MInv'
  BY <1>3, <1>4, QuietBlocks DEF MachineQuiet, Instruction, Callbacks, MInv
<1>5. ASSUME NEW c \in Core, MachineEnd(c) PROVE MInv'
  BY <1>3, <1>5, CommitBlocks, AbortBlocks DEF MachineEnd, Callbacks, MInv
<1>6. ASSUME NEW c \in Core, NEW acc \in Loads, NEW type \in LoadTypes,
             MachineLoad(c, acc, type)
      PROVE  MInv'
  BY <1>3, <1>6, LoadBlocks DEF MachineLoad, Instruction, MInv
<1>7. ASSUME NEW c \in Core, NEW acc \in BlockStores, NEW type \in StoreTypes,
             NEW data \in StoreData(acc), MachineStore(c, acc, data, type)
      PROVE  MInv'
  <2>1. acc \in Stores
    BY MachineAssumption
  <2>2. Scheduled'
    BY <1>3, <1>7, <2>1 DEF MachineStore, Instruction
  <2>3. CASE type = "vanilla" /\ ~StoreAsserts(acc)
    BY <1>7, <2>1, <2>2, <2>3, StoreBlocks DEF MInv
  <2>4. CASE type = "vanilla" /\ StoreAsserts(acc)
    <3>1. UNCHANGED <<mem, mStatus, read_set, write_set, seen, stored, posted>>
      BY <1>7, <2>4 DEF MachineStore, Store, transaction, trace
    <3>2. DOMAIN blind' = Core /\ \A d \in Core : blind'[d] = blind[d]
      <4>1. Misplaced(acc) = {}
        BY <2>4 DEF Misplaced
      <4> QED
        BY <1>1, <1>7, <2>4, <4>1 DEF MachineStore, Blocks
    <3>3. Blocks'
      BY <1>1, <3>1, <3>2 DEF Blocks, Covered, Current, Held, Running, Doomed
    <3> QED
      BY <2>2, <3>3 DEF MInv
  <2>5. CASE type # "vanilla"
    BY <1>1, <1>7, <2>1, <2>2, <2>5, EscapeBlocks
       DEF MachineStore, Store, transaction, MInv
  <2> QED
    BY <2>3, <2>4, <2>5
<1>8. ASSUME NEW c \in Core, NEW acc \in OutsideStores, NEW mode \in Modes,
             NEW data \in StoreData(acc), MachinePlainStore(c, acc, data, mode)
      PROVE  MInv'
  <2>1. acc \in Stores
    BY MachineAssumption
  <2>2. Instruction(c)
    BY <1>8, <2>1 DEF MachinePlainStore, Instruction
  <2> QED
    BY <1>3, <1>8, <2>1, <2>2, PlainStoreBlocks DEF MInv
<1>9. ASSUME NEW c \in Core, NEW var \in ReleaseVars, MachineRelease(c, var) PROVE MInv'
  BY <1>3, <1>9, ReleaseBlocks DEF MachineRelease, Instruction, MInv
<1>10. ASSUME NEW acc \in OutsideStores, NEW data \in StoreData(acc),
              DeviceStore(acc, data)
       PROVE  MInv'
  <2>1. acc \in Stores
    BY MachineAssumption
  <2> QED
    BY <1>1, <1>10, <2>1, DeviceScheduled, EscapeBlocks DEF DeviceStore, transaction, MInv
<1> QED
  BY <1>2, <1>4, <1>5, <1>6, <1>7, <1>8, <1>9, <1>10 DEF MachineNext

LEMMA MInvAlways == MachineSpec => []MInv
<1>1. MachineInit => MInv
  BY MInvInit
<1>2. MInv /\ [MachineNext]_machineVars => MInv'
  BY MInvStep
<1> QED
  BY <1>1, <1>2, PTL DEF MachineSpec

\* The module dooms every block whose view it can know to be stale, whatever
\* guest, kernel and devices do: accesses that straddle words, of any type and
\* at any address, kernel stores, early releases and stores of devices
\* (controller.cpp:57-77, 178-209, memory_trace.cpp:109-128, 181-192).
THEOREM OpacityOfTheTracedHolds == MachineSpec => []OpacityOfTheTraced
<1>1. MInv => OpacityOfTheTraced
  BY DEF MInv, Blocks, Current, OpacityOfTheTraced
<1> QED
  BY <1>1, MInvAlways, PTL

\* In such a machine commit still writes back no stale lane of a word that did
\* not escape (memory_trace.cpp:58-99, 249-258).
THEOREM SnapshotsOfTheTracedHolds == MachineSpec => []SnapshotsOfTheTraced
<1>1. MInv => SnapshotsOfTheTraced
  BY DEF MInv, Blocks, Current, SnapshotsOfTheTraced
<1> QED
  BY <1>1, MInvAlways, PTL

\* The escape of one word does not spread to the others that a block commits
\* (controller.cpp:57-106, transaction.cpp:89-147).
THEOREM CommitsAreSerializableWhereTracedHolds ==
    MachineSpec => CommitsAreSerializableWhereTraced
<1> DEFINE Step == \A c \in Core : TracedCommit(c)
<1>1. ASSUME MInv PROVE Step
  <2> SUFFICES ASSUME NEW c \in Core, CommitTransactionIdx(c), Running(c)
               PROVE  /\ \A w \in DOMAIN seen[c] \ blind[c] : seen[c][w] = mem[w]
                      /\ \A w \in Words \ blind[c] : \A l \in Lane \ stored[c][w] :
                            mem'[w][l] = mem[w][l]
    BY DEF TracedCommit
  <2>1. ~Doomed(c) /\ Current(c) /\ TypeOK
    BY <1>1 DEF CommitTransactionIdx, Delivered, MInv, Scheduled, CommitReady, Blocks
  <2>2. mem' = CommitWrites(write_set[c], mem)
    BY DEF CommitTransactionIdx
  <2>3. ASSUME NEW w \in Words \ blind[c], NEW l \in Lane \ stored[c][w]
        PROVE  mem'[w][l] = mem[w][l]
    <3>1. mem'[w] = IF w \in DOMAIN write_set[c] THEN write_set[c][w] ELSE mem[w]
      BY <2>1, <2>2 DEF CommitWrites, TypeOK
    <3> QED
      BY <2>1, <3>1 DEF Current
  <2> QED
    BY <2>1, <2>3 DEF Current
<1>2. MInv /\ [MachineNext]_machineVars => [Step]_machineVars
  BY <1>1
<1> QED
  BY <1>2, MInvAlways, PTL DEF MachineSpec, CommitsAreSerializableWhereTraced
=============================================================================
