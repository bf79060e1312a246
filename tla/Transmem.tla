------------------------------ MODULE Transmem ------------------------------
(***************************************************************************)
(* The transactional memory module: the controller (controller.cpp), one   *)
(* transaction handler per core (transaction.cpp) with its MemoryTrace,    *)
(* and the hooks through which Simics drives them (transmem.c,             *)
(* tm_init.cpp).                                                           *)
(*                                                                         *)
(* Simics runs one core at a time and the hooks run to completion, so one  *)
(* hook is one action.  What interleaves is the instructions of the cores  *)
(* and the callbacks that a hook leaves with SIM_stacked_post: a callback  *)
(* runs before the core it is posted to executes again, and the callbacks  *)
(* of the current core run before any core executes again.                 *)
(***************************************************************************)
EXTENDS MemoryTrace

CONSTANTS
    Core,           \* trans_handler's indices
    Words,          \* the word addresses of memory
    Loads, Stores,  \* the accesses guest code makes
    Modes,          \* processor modes a plain store may run in
    LoadTypes, StoreTypes,  \* x86 access types of transactional accesses
    InitialStatus,  \* what the constructor may find in the memory of mStatus
    ReleaseVars,    \* addresses passed to TM_EARLY_RELEASE
    LogicalToPhysical(_),   \* SIM_logical_to_physical
    MaxPosted,      \* bound: copies of one callback waiting for one core
    MaxReturns      \* bound: exception returns counted in one transaction

Status == {"OFF", "ON", "ABORT", "PAUSE"}
Callback == {"commit_transaction_idx", "abort_transaction_idx",
             "abort_transaction", "resume_transaction"}

ASSUME CoreAssumption == Core # {}
ASSUME WordAssumption == \A w \in Words : w \in Nat /\ WordOf(w) = w
ASSUME AccessAssumption ==
    /\ Loads \subseteq Access /\ Stores \subseteq Access
    /\ \A acc \in Loads \cup Stores :
          SpannedWords(acc) \cup TracedWords(acc) \subseteq Words
ASSUME EnvironmentAssumption ==
    /\ Modes \subseteq {"user", "supervisor"}
    /\ LoadTypes \cup StoreTypes \subseteq {"vanilla", "other"}
    /\ InitialStatus \subseteq Status
ASSUME BoundAssumption == MaxPosted \in Nat \ {0} /\ MaxReturns \in Nat

\* Partial functions from words to what a word holds.
WordMap == UNION {[D -> WordValue] : D \in SUBSET Words}

NoLoad == -1            \* mLastLoad between a load and the next one
Fresh == [w \in {} |-> {}]

VARIABLES
    mem,            \* physical memory
    mStatus, nesting, mPauseDepth, mLastLoad,   \* Transaction's fields
    registers,      \* checkpoints held in Transaction::registers
    read_set, write_set,    \* its MemoryTrace
    posted,         \* callbacks SIM_stacked_post holds for each core
    current,        \* SIM_current_processor
    failed,         \* an assertion of the module has failed
    seen,           \* history: what memory held in each word the atomic block
                    \* depends on, when it first depended on it
    stored          \* history: the lanes the atomic block stored, word by word

transaction == <<mStatus, nesting, mPauseDepth, registers>>
trace == <<read_set, write_set, seen, stored>>
vars == <<mem, transaction, mLastLoad, trace, posted, current, failed>>

NoStores == [w \in Words |-> {}]

Init ==
    /\ mem \in {[w \in Words |-> [l \in Lane |-> b]] : b \in Byte}
    /\ mStatus \in [Core -> InitialStatus]
    /\ nesting = [c \in Core |-> 0]
    /\ mPauseDepth = [c \in Core |-> 0]
    /\ mLastLoad = [c \in Core |-> 0]
    /\ registers = [c \in Core |-> 0]
    /\ read_set = [c \in Core |-> {}]
    /\ write_set = [c \in Core |-> NoWrites]
    /\ posted = [c \in Core |-> [cb \in Callback |-> 0]]
    /\ current \in Core
    /\ failed = FALSE
    /\ seen = [c \in Core |-> Fresh]
    /\ stored = [c \in Core |-> NoStores]

-----------------------------------------------------------------------------
(* Simics: instructions and posted callbacks.                              *)

Running(c) == mStatus[c] = "ON"         \* runningTransaction
Idle(c) == \A cb \in Callback : posted[c][cb] = 0

\* Core c executes its next instruction.
Executes(c) ==
    /\ ~failed
    /\ Idle(current) /\ Idle(c)
    /\ current' = c

\* One more copy of cb for every core in cores.
Post(queue, cores, cb) ==
    [c \in Core |-> IF c \in cores THEN [queue[c] EXCEPT ![cb] = @ + 1] ELSE queue[c]]
Fits(cores, cb) == \A c \in cores : posted[c][cb] < MaxPosted

\* The callback cb posted to core c starts.
Delivered(c, cb) ==
    /\ ~failed
    /\ posted[c][cb] > 0
Taken(c, cb) == [posted EXCEPT ![c][cb] = @ - 1]

EmptiedTo(c, depth, checkpoints, reads) ==
    /\ mStatus' = [mStatus EXCEPT ![c] = "OFF"]
    /\ nesting' = [nesting EXCEPT ![c] = depth]
    /\ registers' = [registers EXCEPT ![c] = checkpoints]
    /\ read_set' = [read_set EXCEPT ![c] = reads]
    /\ write_set' = [write_set EXCEPT ![c] = NoWrites]
    /\ seen' = [seen EXCEPT ![c] = Fresh]
    /\ stored' = [stored EXCEPT ![c] = NoStores]

\* Mutants: nesting is only decremented; the checkpoint stays; the read set
\* stays.
EmptiedUnderflow(c) == EmptiedTo(c, nesting[c] - 1, 0, {})
EmptiedKeepsRegisters(c) == EmptiedTo(c, 0, registers[c], {})
EmptiedKeepsReads(c) == EmptiedTo(c, 0, 0, read_set[c])

\* The state clear() and the resets around it leave, at commit and at abort.
Emptied(c) == EmptiedTo(c, 0, 0, {})

-----------------------------------------------------------------------------
(* Magic instructions.                                                     *)

\* Transaction::BeginTransaction, at the outermost level.
Begun(c) ==
    /\ nesting' = [nesting EXCEPT ![c] = 1]
    /\ mStatus' = [mStatus EXCEPT ![c] = "ON"]
    /\ registers' = [registers EXCEPT ![c] = @ + 1]

\* TX_BEGIN.  Inside a transaction it does nothing: blocks nest flat.
BeginTransaction(c) ==
    /\ Executes(c)
    /\ IF nesting[c] = 0 THEN Begun(c) ELSE UNCHANGED <<nesting, mStatus, registers>>
    /\ UNCHANGED <<mem, mPauseDepth, mLastLoad, trace, posted, failed>>

\* The transactions that run on some of cores and have read one of words.
Readers(cores, words) ==
    {i \in cores : Running(i) /\ \E w \in words : HasRead(read_set[i], w, 4)}

\* Mutants: writers are sought instead of readers; the scan is dropped; its
\* inner loop stops one word early; it does not skip the committer; it asks
\* for the nesting level instead of the status.
ConflictingWriters(c) ==
    {i \in Core \ {c} : Running(i) /\ DOMAIN write_set[i] \cap DOMAIN write_set[c] # {}}
ConflictingNone(c) == {}
ConflictingButLast(c) ==
    Readers(Core \ {c}, {w \in DOMAIN write_set[c] : \E v \in DOMAIN write_set[c] : v > w})
ConflictingSelf(c) == Readers(Core, DOMAIN write_set[c])
ConflictingNested(c) ==
    Readers({i \in Core \ {c} : nesting[i] = 1}, DOMAIN write_set[c])

\* The running transactions of other cores that read a word c will write.
Conflicting(c) == Readers(Core \ {c}, DOMAIN write_set[c])

\* TX_COMMIT scans the other cores, then leaves the commit itself to a
\* callback.
CommitTransaction(c) ==
    /\ Executes(c)
    /\ Fits(Conflicting(c), "abort_transaction_idx")
    /\ posted' = Post(Post(posted, Conflicting(c), "abort_transaction_idx"),
                      {c}, "commit_transaction_idx")
    /\ UNCHANGED <<mem, transaction, mLastLoad, trace, failed>>

\* TX_ABORT: a running transaction aborts itself.
AbortTransaction(c) ==
    /\ Executes(c)
    /\ posted' = Post(posted, {c}, "abort_transaction_idx")
    /\ UNCHANGED <<mem, transaction, mLastLoad, trace, failed>>

\* The eight words that follow var, each translated on its own.
Released(var) == {LogicalToPhysical(var + 4 * i) : i \in 0 .. 7}

Erases(c, var, words) ==
    /\ Executes(c)
    /\ read_set' = [read_set EXCEPT ![c] = @ \ words]
    /\ seen' = [seen EXCEPT ![c] =
                  [w \in DOMAIN @ \ Released(var) |-> @[w]]]
    /\ UNCHANGED <<mem, transaction, mLastLoad, write_set, stored, posted, failed>>

\* Mutant: the addresses are not translated.
EarlyReleaseUntranslated(c, var) == Erases(c, var, {var + 4 * i : i \in 0 .. 7})

\* TX_RELEASE.  From here on the block no longer depends on those words.
EarlyRelease(c, var) == Erases(c, var, Released(var))

\* TX_DISABLE and TX_ENABLE, whose bodies are commented out, TX_INFO, and the
\* instructions for which no hook does anything.
OtherInstruction(c) ==
    /\ Executes(c)
    /\ UNCHANGED <<mem, transaction, mLastLoad, trace, posted, failed>>

-----------------------------------------------------------------------------
(* Memory accesses: the timing model before, the snoop device after.       *)

\* What memory held in words the block did not depend on before.
Depend(known, words) ==
    [w \in DOMAIN known \cup words |-> IF w \in DOMAIN known THEN known[w] ELSE mem[w]]

\* A transactional load is first stalled for 100 cycles, ...
LoadStalls(c, acc) ==
    /\ Executes(c)
    /\ Running(c)
    /\ mLastLoad[c] # acc.addr
    /\ mLastLoad' = [mLastLoad EXCEPT ![c] = acc.addr]
    /\ UNCHANGED <<mem, transaction, trace, posted, failed>>

\* ... and performed when Simics issues it again.  Only a vanilla access is
\* traced.
Load(c, acc, type) ==
    /\ Executes(c)
    /\ Running(c)
    /\ mLastLoad[c] = acc.addr
    /\ mLastLoad' = [mLastLoad EXCEPT ![c] = NoLoad]
    /\ read_set' = [read_set EXCEPT ![c] =
                      IF type = "vanilla" THEN LoadReadSet(@, acc) ELSE @]
    /\ failed' = (type = "vanilla" /\ LoadAsserts(write_set[c], acc))
    /\ seen' = [seen EXCEPT ![c] = Depend(@, SpannedWords(acc))]
    /\ UNCHANGED <<mem, transaction, write_set, stored, posted>>

StoredBy(acc) == [w \in Words |-> CoveredLanes(acc, w)]

\* Memory after a store that reaches it.
WriteThrough(acc, data) == [w \in Words |-> StoredWord(acc, data, w, mem[w])]

\* A transactional store is buffered.  One of a size the trace does not know
\* fails its assertion at once; one of another access type reaches memory and
\* then the assertion of ObserveMemoryWrite.
Store(c, acc, data, type) ==
    /\ Executes(c)
    /\ Running(c)
    /\ IF type = "vanilla" /\ ~StoreAsserts(acc)
       THEN /\ write_set' = [write_set EXCEPT ![c] = StoreWriteSet(@, mem, acc, data)]
            /\ read_set' = [read_set EXCEPT ![c] = StoreReadSet(@, write_set[c], acc)]
            /\ seen' = [seen EXCEPT ![c] = Depend(@, ImpliedReads(write_set[c], acc))]
            /\ stored' = [stored EXCEPT ![c] =
                            [w \in Words |-> @[w] \cup StoredBy(acc)[w]]]
            /\ UNCHANGED <<mem, failed>>
       ELSE /\ mem' = IF type = "vanilla" THEN mem ELSE WriteThrough(acc, data)
            /\ failed' = TRUE
            /\ UNCHANGED trace
    /\ UNCHANGED <<transaction, mLastLoad, posted>>

\* Mutant: the write sets are compared.
OverwrittenWriters(c, acc) ==
    {i \in Core \ {c} : Running(i) /\ WordOf(acc.addr) \in DOMAIN write_set[i]}

\* The running transactions that a plain store of core c aborts.
Overwritten(c, acc) ==
    {i \in Core \ {c} :
        Running(i) /\ HasRead(read_set[i], NarrowToInt(acc.addr), acc.size)}

\* A store outside any transaction, or by the kernel during one.  The core's
\* own transaction is not compared: its block no longer depends on the word.
PlainStore(c, acc, data, mode) ==
    /\ Executes(c)
    /\ ~(Running(c) /\ mode = "user")
    /\ Fits(Overwritten(c, acc), "abort_transaction_idx")
    /\ mem' = WriteThrough(acc, data)
    /\ posted' = Post(posted, Overwritten(c, acc), "abort_transaction_idx")
    /\ seen' = [seen EXCEPT ![c] =
                  [w \in DOMAIN @ \ SpannedWords(acc) |-> @[w]]]
    /\ UNCHANGED <<transaction, mLastLoad, read_set, write_set, stored, failed>>

-----------------------------------------------------------------------------
(* Other haps.                                                             *)

\* inException asserts mHandlingException, which nothing ever sets.
InExceptionAsserts(c) == mStatus[c] = "PAUSE"

\* Mutant: the depth before the decrement is returned.
ClearingExceptionLate(c) == mPauseDepth[c]

\* The depth that clearingException returns.
ClearingException(c) == mPauseDepth[c] - 1

\* Core_Exception only asks whether a transaction is running or paused; the
\* return from the exception counts mPauseDepth down and posts a resumption
\* when it reaches 0.
CoreExceptionReturn(c) ==
    /\ Executes(c)
    /\ Running(c) => mPauseDepth[c] > -MaxReturns
    /\ mPauseDepth' = [mPauseDepth EXCEPT ![c] = IF Running(c) THEN @ - 1 ELSE @]
    /\ posted' = IF Running(c) /\ ClearingException(c) = 0
                 THEN Post(posted, {c}, "resume_transaction")
                 ELSE posted
    /\ failed' = InExceptionAsserts(c)
    /\ UNCHANGED <<mem, mStatus, nesting, registers, mLastLoad, trace>>

\* Core_Breakpoint posts an abort request to the core it stopped.
CoreBreakpoint(c) ==
    /\ Executes(c)
    /\ posted' = Post(posted, {c}, "abort_transaction")
    /\ UNCHANGED <<mem, transaction, mLastLoad, trace, failed>>

-----------------------------------------------------------------------------
(* Callbacks.                                                              *)

\* The buffer reaches memory.  mPauseDepth is not reset.
CommitTransactionIdx(c) ==
    /\ Delivered(c, "commit_transaction_idx")
    /\ posted' = Taken(c, "commit_transaction_idx")
    /\ mem' = CommitWrites(write_set[c], mem)
    /\ Emptied(c)
    /\ UNCHANGED <<mPauseDepth, mLastLoad, current, failed>>

\* The buffer is dropped and the registers restored.  An abort that finds no
\* transaction, because an earlier one ended it, does nothing.
AbortTransactionIdx(c) ==
    /\ Delivered(c, "abort_transaction_idx")
    /\ posted' = Taken(c, "abort_transaction_idx")
    /\ IF Running(c)
       THEN /\ mPauseDepth' = [mPauseDepth EXCEPT ![c] = 0]
            /\ Emptied(c)
       ELSE UNCHANGED <<transaction, trace>>
    /\ failed' = InExceptionAsserts(c)
    /\ UNCHANGED <<mem, mLastLoad, current>>

\* An abort request posts the abort of the current core.
AbortRequested(c) ==
    /\ Delivered(c, "abort_transaction")
    /\ posted' = Post(Taken(c, "abort_transaction"), {current}, "abort_transaction_idx")
    /\ UNCHANGED <<mem, transaction, mLastLoad, trace, current, failed>>

-----------------------------------------------------------------------------
\* The data of a store: the same byte throughout.
StoreData(acc) == {[i \in 0 .. acc.size - 1 |-> b] : b \in Byte}

Instruction(c) ==
    \/ BeginTransaction(c)
    \/ CommitTransaction(c)
    \/ AbortTransaction(c)
    \/ \E var \in ReleaseVars : EarlyRelease(c, var)
    \/ \E acc \in Loads : LoadStalls(c, acc)
    \/ \E acc \in Loads, type \in LoadTypes : Load(c, acc, type)
    \/ \E acc \in Stores, type \in StoreTypes :
          \E data \in StoreData(acc) : Store(c, acc, data, type)
    \/ \E acc \in Stores, mode \in Modes :
          \E data \in StoreData(acc) : PlainStore(c, acc, data, mode)
    \/ CoreExceptionReturn(c)
    \/ CoreBreakpoint(c)
    \/ OtherInstruction(c)

Callbacks(c) ==
    \/ CommitTransactionIdx(c)
    \/ AbortTransactionIdx(c)
    \/ AbortRequested(c)

Next == \E c \in Core : Instruction(c) \/ Callbacks(c)

Spec == Init /\ [][Next]_vars

-----------------------------------------------------------------------------
(* Properties.                                                             *)

TypeOK ==
    /\ mem \in [Words -> WordValue]
    /\ mStatus \in [Core -> Status]
    /\ nesting \in [Core -> {0, 1}]
    /\ mPauseDepth \in [Core -> Int]
    /\ mLastLoad \in [Core -> Int]
    /\ registers \in [Core -> Nat]
    /\ read_set \in [Core -> SUBSET Words]
    /\ write_set \in [Core -> WordMap]
    /\ posted \in [Core -> [Callback -> Nat]]
    /\ current \in Core
    /\ failed \in BOOLEAN
    /\ seen \in [Core -> WordMap]
    /\ stored \in [Core -> [Words -> SUBSET Lane]]

\* An abort is on its way to core c.
Doomed(c) == posted[c]["abort_transaction_idx"] > 0

\* A transaction that nobody has doomed still finds in memory every word it
\* depends on, as it first found it: a commit or a plain store that changes
\* such a word posts the abort in time (controller.cpp:62-77, 193-206).
Opacity ==
    \A c \in Core : Running(c) /\ ~Doomed(c) =>
        \A w \in DOMAIN seen[c] : seen[c][w] = mem[w]

\* The lanes that a narrow store snapshotted, and that commit will write back,
\* are still memory's (memory_trace.cpp:58-70, 249-258).
SnapshotsCurrent ==
    \A c \in Core : Running(c) /\ ~Doomed(c) =>
        \A w \in DOMAIN write_set[c] : \A l \in Lane \ stored[c][w] :
            write_set[c][w][l] = mem[w][l]

\* Between the scan of TX_COMMIT and the callback that commits, nothing undoes
\* the scan: the committer itself is not doomed and every running reader of
\* what it will write is (controller.cpp:57-97).
CommitReady ==
    \A c \in Core : posted[c]["commit_transaction_idx"] > 0 =>
        /\ c = current
        /\ ~Doomed(c)
        /\ \A i \in Readers(Core \ {c}, DOMAIN write_set[c]) : Doomed(i)

\* What the trace and the posted callbacks must satisfy for a step to keep the
\* invariants above: every dependence is in the read set a scan looks
\* at, only a running block has any, and an abort request waits only for the
\* core that executed last, never together with its commit.
DependencesTracked == \A c \in Core : DOMAIN seen[c] \subseteq read_set[c]
IdleDependsOnNothing == \A c \in Core : ~Running(c) => DOMAIN seen[c] = {}
RequestsOnCurrent ==
    \A c \in Core : posted[c]["abort_transaction"] > 0 =>
        c = current /\ posted[c]["commit_transaction_idx"] = 0
IInv ==
    /\ TypeOK
    /\ DependencesTracked
    /\ IdleDependsOnNothing
    /\ RequestsOnCurrent
    /\ CommitReady
    /\ Opacity

\* Abort restores the registers of the block it aborts: there is exactly one
\* checkpoint, and the sets of a finished block do not leak into the next
\* (transaction.cpp:300-310, 345-353, 168-180).
OneCheckpoint ==
    \A c \in Core :
        /\ registers[c] = nesting[c]
        /\ Running(c) <=> nesting[c] = 1
        /\ ~Running(c) => read_set[c] = {} /\ write_set[c] = NoWrites

\* The resumption whose handler asserts TRANS_PAUSE is never posted
\* (transmem.c:147-151, transaction.cpp:403-421).
ResumeNeverPosted == \A c \in Core : posted[c]["resume_transaction"] = 0

\* A program of vanilla accesses that stay in their words and store whole the
\* pairs they load whole makes no assertion fail, whatever commits, aborts and
\* breakpoints come between: the trace finds every such pair whole or not at all, and
\* every half word in one word (memory_trace.cpp:138-165, 271).
NothingAsserts == ~failed

\* A transaction commits as if it ran at that instant: the words it depends
\* on are current, and memory changes in the lanes it stored and no others.
SerializableCommit(c) ==
    CommitTransactionIdx(c) /\ Running(c) =>
        /\ \A w \in DOMAIN seen[c] : seen[c][w] = mem[w]
        /\ \A w \in Words : \A l \in Lane \ stored[c][w] : mem'[w][l] = mem[w][l]
CommitsAreSerializable == [][\A c \in Core : SerializableCommit(c)]_vars

\* A doomed transaction ends without a trace in memory.
DoomedNeverPublish ==
    [][\A c \in Core : Running(c) /\ Doomed(c) /\ mStatus'[c] # "ON" => mem' = mem]_vars

\* A commit dooms only transactions that depend on a word it stored to: no
\* abort comes from a finished or a released footprint (controller.cpp:62-77).
CommitDoomsOnlyDependents ==
    [][\A c, d \in Core : CommitTransaction(c) /\ Doomed(d)' /\ ~Doomed(d) =>
            Running(d) /\ \E w \in DOMAIN seen[d] : stored[c][w] # {}]_vars

\* TX_RELEASE takes the words of var's 32-byte line out of the read set and no
\* others (memory_trace.cpp:233, stamp/lib/tm.h:236).
LineOf(var) == {LogicalToPhysical(var - (var % 32) + 4 * i) : i \in 0 .. 7}
ReleaseDropsTheLine ==
    [][\A c \in Core, var \in ReleaseVars :
        EarlyRelease(c, var) => read_set'[c] = read_set[c] \ LineOf(var)]_vars
==============================================================================
