--------------------------- MODULE TransmemMachine ---------------------------
(***************************************************************************)
(* The module in a machine whose memory changes also where the hooks do    *)
(* not look: devices store to memory, accesses straddle words, are of      *)
(* other types than vanilla or have addresses above the range of int, and  *)
(* the kernel stores to words its own core's transaction has buffered.     *)
(*                                                                         *)
(* The steps are Transmem's.  The history blind says, from what the        *)
(* hardware touched and what the hooks compared, which words of a block    *)
(* the module has lost: the properties claim everything for the others.    *)
(***************************************************************************)
EXTENDS Transmem

CONSTANTS
    BlockStores,    \* the stores among Stores that code in transactions makes, ...
    OutsideStores   \* ... and those of other code, the kernel and devices

ASSUME MachineAssumption == BlockStores \cup OutsideStores \subseteq Stores

VARIABLE
    blind   \* history: for each core, the words of its atomic block of which
            \* a change, or the block's dependence on them, escaped the trace

machineVars == <<vars, blind>>

MachineInit == Init /\ blind = [c \in Core |-> {}]

-----------------------------------------------------------------------------
(* What escapes.                                                           *)

\* The words that core i's block depends on or has buffered.
Held(i) == DOMAIN seen[i] \cup DOMAIN write_set[i]

\* A change of words escapes the blocks of cores.
Escapes(cores, words) ==
    blind' = [i \in Core |-> IF i \in cores /\ Running(i)
                             THEN blind[i] \cup (words \cap Held(i))
                             ELSE blind[i]]

\* The words the trace enters for an access of this type.
Entered(acc, type) == IF type = "vanilla" THEN TracedWords(acc) ELSE {}

\* Words that the block begins to depend on without their being entered.
Unentered(c, acc, type) == (SpannedWords(acc) \ Entered(acc, type)) \ DOMAIN seen[c]

\* The words a store outside a transaction is compared with: none, when the
\* address does not survive the int.
Compared(acc) ==
    IF NarrowToInt(acc.addr) # acc.addr THEN {}
    ELSE {WordOf(acc.addr)} \cup (IF acc.size > 4 THEN {WordOf(acc.addr) + 4} ELSE {})

\* A straddling store is buffered in lanes it does not cover.
Misplaced(acc) ==
    IF StoreAsserts(acc) \/ SpannedWords(acc) \subseteq TracedWords(acc)
    THEN {} ELSE TracedWords(acc)

-----------------------------------------------------------------------------
(* Steps.                                                                  *)

MachineLoad(c, acc, type) ==
    /\ Load(c, acc, type)
    /\ blind' = [blind EXCEPT ![c] = @ \cup Unentered(c, acc, type)]

\* A store of another type has reached memory when the assertion fails.
MachineStore(c, acc, data, type) ==
    /\ Store(c, acc, data, type)
    /\ IF type = "vanilla"
       THEN blind' = [blind EXCEPT ![c] = @ \cup Misplaced(acc)]
       ELSE Escapes(Core, SpannedWords(acc))

\* The other cores miss what is not compared; the core's own block, whose
\* buffer is not refreshed, misses what it has buffered.
MachinePlainStore(c, acc, data, mode) ==
    /\ PlainStore(c, acc, data, mode)
    /\ blind' = [i \in Core |->
          IF ~Running(i) THEN blind[i]
          ELSE blind[i] \cup (IF i = c THEN SpannedWords(acc) \cap DOMAIN write_set[i]
                              ELSE (SpannedWords(acc) \ Compared(acc)) \cap Held(i))]

\* Nothing protects the rest of a buffered word any more.
MachineRelease(c, var) ==
    /\ EarlyRelease(c, var)
    /\ blind' = [blind EXCEPT ![c] = @ \cup (Released(var) \cap DOMAIN write_set[c])]

\* A device stores to memory: both hooks let accesses pass that are not a
\* core's.
DeviceStore(acc, data) ==
    /\ ~failed
    /\ mem' = WriteThrough(acc, data)
    /\ Escapes(Core, SpannedWords(acc))
    /\ UNCHANGED <<transaction, mLastLoad, trace, posted, current, failed>>

MachineEnd(c) ==
    /\ CommitTransactionIdx(c) \/ AbortTransactionIdx(c)
    /\ blind' = [blind EXCEPT ![c] = {}]

\* The steps that touch no memory and end no block.
MachineQuiet(c) ==
    /\ \/ BeginTransaction(c)
       \/ CommitTransaction(c)
       \/ AbortTransaction(c)
       \/ \E acc \in Loads : LoadStalls(c, acc)
       \/ CoreExceptionReturn(c)
       \/ CoreBreakpoint(c)
       \/ OtherInstruction(c)
       \/ AbortRequested(c)
    /\ UNCHANGED blind

MachineNext ==
    \/ \E c \in Core :
          \/ MachineQuiet(c)
          \/ MachineEnd(c)
          \/ \E acc \in Loads, type \in LoadTypes : MachineLoad(c, acc, type)
          \/ \E acc \in BlockStores, type \in StoreTypes :
                \E data \in StoreData(acc) : MachineStore(c, acc, data, type)
          \/ \E acc \in OutsideStores, mode \in Modes :
                \E data \in StoreData(acc) : MachinePlainStore(c, acc, data, mode)
          \/ \E var \in ReleaseVars : MachineRelease(c, var)
    \/ \E acc \in OutsideStores : \E data \in StoreData(acc) : DeviceStore(acc, data)

MachineSpec == MachineInit /\ [][MachineNext]_machineVars

-----------------------------------------------------------------------------
(* Properties.                                                             *)

\* What the hooks do see they act upon, in a machine that does everything the
\* module does not expect: the words of a block that did not escape are as the
\* block found them, or its abort is on its way (controller.cpp:57-77, 178-209,
\* memory_trace.cpp:109-128, 181-192, transmem.c:62-71).
OpacityOfTheTraced ==
    \A c \in Core : Running(c) /\ ~Doomed(c) =>
        \A w \in DOMAIN seen[c] \ blind[c] : seen[c][w] = mem[w]

\* Commit writes back no stale lane, except in words that escaped
\* (memory_trace.cpp:58-99, 249-258).
SnapshotsOfTheTraced ==
    \A c \in Core : Running(c) /\ ~Doomed(c) =>
        \A w \in DOMAIN write_set[c] \ blind[c] : \A l \in Lane \ stored[c][w] :
            write_set[c][w][l] = mem[w][l]

\* The escape of one word does not spread: when a block commits, every word of
\* it that did not escape is current, and changes only in the lanes it stored
\* (controller.cpp:57-106, transaction.cpp:89-147).
TracedCommit(c) ==
    CommitTransactionIdx(c) /\ Running(c) =>
        /\ \A w \in DOMAIN seen[c] \ blind[c] : seen[c][w] = mem[w]
        /\ \A w \in Words \ blind[c] : \A l \in Lane \ stored[c][w] :
              mem'[w][l] = mem[w][l]
CommitsAreSerializableWhereTraced == [][\A c \in Core : TracedCommit(c)]_machineVars
==============================================================================
