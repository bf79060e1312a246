# A TLA+ model of transmem

transmem is a Simics module that gives simulated x86 cores a hardware
transactional memory. A guest program brackets its atomic blocks with magic
instructions; the module buffers a block's stores, records its loads, aborts
the blocks that a commit or an ordinary store has overtaken, and writes the
buffer of a committing block to memory. This directory models that module in
TLA+, checks it with TLC on small instances and proves its main invariants with
TLAPS.

## The system

| Component | State | Operations | Hard behaviour |
|---|---|---|---|
| Memory trace (`memory_trace.cpp`) | `read_set`, `write_set` of word-sized `MemOp`s | timing and snoop accesses, `has_read`, `commit_writes`, `clear`, `earlyRelease` | stores of 1, 2, 4 and 8 bytes overlap in a word; a narrow store snapshots the rest of the word |
| Transaction handler (`transaction.cpp`), one per core | `mStatus`, `nesting`, `mPauseDepth`, `mLastLoad`, register checkpoint, its trace | begin, commit, abort, access, exception return | flat nesting, unbalanced commits, fields that some paths do not reset |
| Controller (`controller.cpp`) | the handlers | the conflict scan of a commit, the check of plain stores, the callbacks | the scan and the commit are two separate steps; aborts are posted, not performed |
| Simics hooks (`transmem.c`, `tm_init.cpp`) | none | dispatch of magic instructions, haps, memory accesses; posted callbacks | the order in which callbacks run |
| Guest interface (`stamp/lib/tm.h`, `tm_harness_magic.h`) | none | `TM_BEGIN`, `TM_END`, `TM_RESTART`, `TM_EARLY_RELEASE` | guests may nest, leave out or repeat any of them |
| Telemetry client (`thrift_client.cpp`, the stubs `MemoryHierarchy.cpp` and `simple_types.cpp`) | one transport, opened once | a synchronous call for each begin, commit, abort and TX_INFO | servers that are absent, go away or speak another interface; all calls have one number |
| Telemetry server (`java/src/JavaServer.java`, the stubs in `gen-java`) | `depth`, `commit`, `abort` | count an event and answer | counters that drift or start again from 0 |
| The machine around it: guest, kernel, devices | memory | accesses of any type and address, also where no hook looks; the trace knows the sizes 1, 2, 4 and 8 and fails an assertion on another: of a store at once, of a load when its first word is buffered | changes that escape the conflict check |

The hooks call the wrappers of `tm_init.cpp`, which call the one `Controller`;
the controller calls the `Transaction` of the current core, and of the other
cores when it looks for conflicts; a `Transaction` calls its own `MemoryTrace`.
Nothing is a thread of its own. Concurrency comes from two places: the cores,
one instruction at a time in any order (`scripts/*.simics` set
`cpu-switch-time cycles = 1`), and the callbacks that a hook leaves with
`SIM_stacked_post`.

What makes each component right:

* the trace: a load returns the transaction's own bytes over memory's, and a
  commit changes no byte that the transaction did not store;
* a handler: one checkpoint per block, nothing of a finished block left in the
  next, no assertion fails;
* the controller: a block that may still commit has seen only current memory,
  no commit escapes its scan, an aborted block leaves no trace in memory, no
  block is aborted without cause;
* the telemetry: what is counted is what happened, up to the first failure, and
  no server that stops or goes away can stop the simulation;
* all together: atomic blocks over one memory, and in a machine that does what
  the module cannot see, no harm beyond the words it did not see.

## Modules

| Module | Models | Role |
|---|---|---|
| `MemoryTrace` | `memory_trace.cpp` | pure operators: words, lanes, the two sets, the assertions |
| `WriteBuffer` | one `MemoryTrace` and its memory | byte-exact state machine over `MemoryTrace` |
| `Transmem` | `transaction.cpp`, `controller.cpp`, `tm_init.cpp`, `transmem.c` | the whole module with any number of cores |
| `TransmemMachine` | the accesses that the hooks of `transmem.c` let pass or see in part | `Transmem` with devices, and what escapes it |
| `SerialMemory` | nothing: a promise | atomic blocks over one memory, each taking effect at its commit |
| `TransmemRefines` | nothing: a mapping | `Transmem` implements `SerialMemory` |
| `TransmemGuest` | a guest program and its kernel, from how `tm.h` uses the module; the register checkpoint of `transaction.cpp` | composes `Transmem` with threads that retry |
| `Thrift` | `MemoryHierarchy.cpp`, `simple_types.cpp`, `MemoryHierarchy.java`, `Work.java` | pure operators: what is written, read and answered |
| `Telemetry` | `thrift_client.cpp`, `JavaServer.java` | client, connection and server; the events are free |
| `TransmemTelemetry` | where `transaction.cpp` and `controller.cpp` call the client | composes `Transmem` with `Telemetry` |
| `MemoryTraceProofs`, `WriteBufferProofs`, `TransmemProofs`, `TransmemBlockProofs`, `RefinementProofs`, `MachineProofs`, `GuestProofs`, `TelemetryProofs` | nothing: theorems | see Proofs |
| `MCTransmem`, `MCTransmemMachine`, `MCWriteBuffer`, `MCTransmemGuest`, `MCTelemetry` | nothing: constants | values for TLC |

`Transmem` extends `MemoryTrace`; `TransmemMachine`, `TransmemGuest` and
`TransmemRefines` extend `Transmem`. `Telemetry` extends `Thrift`, and
`TransmemTelemetry` extends `Telemetry` and instantiates `Transmem`. Each proof
module extends the module it is about; those about `Transmem` build on
`MemoryTraceProofs`, `TransmemProofs` and `TransmemBlockProofs`, in this order.

### MemoryTrace and WriteBuffer

A word is four byte lanes, so the shifts and masks of `setChunk` and `getChunk`
become sets of lanes. `write_set` is a partial function from word addresses to
words, `read_set` a set of word addresses (the code keeps a map to a constant).
`StoreWriteSet` and `StoreReadSet` are `OperateMemoryWrite`; `LoadReadSet`,
`LoadAsserts` and `LoadValue` are `ObserveMemoryRead`; `CommitWrites` is
`commit_writes`. The parameters `mem` are what `SIM_read_phys_memory` reads.
`TracedSizes` are the sizes the switches of the code have a case for;
`StoreAsserts` is their default branch in a store, and `LoadAsserts` collects the
three assertions of a load whose first word is buffered.
`SpannedWords`, `CoveredLanes` and `StoredWord` say what an access is to the
hardware, which is not always what the trace believes.

`WriteBuffer` runs one trace against a history variable `own`, the bytes the
transaction stored. Other writers change words outside the read set only: a
change inside it dooms the transaction, which is `Transmem`'s subject.

### Transmem

One hook is one action, since Simics runs a hook to its end.

| Action | Code |
|---|---|
| `BeginTransaction`, `CommitTransaction`, `AbortTransaction`, `EarlyRelease` | the cases of `magic_called` and the controller's handlers |
| `LoadStalls`, `Load` | the timing model's answer of 100 cycles to the first attempt (`lastLoad`), then the snoop hook when Simics issues the load again |
| `Store` | the timing hook buffers the store and sets `ignore`; a size the trace does not know fails its assertion at once; for another access type the hook does neither, and the store goes on to memory and to the assertion of `ObserveMemoryWrite` |
| `PlainStore` | a store that is not transactional, or one by the kernel during a transaction: `MemoryObserve`'s else branch |
| `CoreExceptionReturn`, `CoreBreakpoint` | the haps of that name |
| `OtherInstruction` | `TX_DISABLE` and `TX_ENABLE`, which reach empty bodies, `TX_INFO`, which sends a telemetry event, plain loads, and every instruction on which no hook acts: only `current` changes |
| `CommitTransactionIdx`, `AbortTransactionIdx`, `AbortRequested` | the posted callbacks |

`posted[c][cb]` counts the callbacks `cb` waiting for core `c`. What the model
assumes of Simics is in `Executes` and `Delivered`: a core executes no
instruction while a callback posted to it waits, no core does while one waits
for the core that executed last, and callbacks are otherwise delivered in any
order. The first two are what posting to a processor means when the simulator
switches cores after every cycle; the third leaves every other order open. In
particular the aborts that a commit posts to other cores may come before or
after the commit itself, and a victim may be aborted long after.

Two history variables say what a block relies on. `seen[c]` holds what memory
held in each word when the block first loaded it or first stored part of it; a
word leaves it by an early release, by the end of the block, or when the core's
own kernel stores to it. `stored[c]` holds the lanes the block stored. No guard
reads them.

Not state in the model: `mHandlingException`, which is always false because
nothing calls `handlingException`; `tid`, `pc`, `tm_process_num`, the
statistics counters and the log; the register values, of which `Transmem` keeps
the number of checkpoints held in the vector (`registers`) and `TransmemGuest`
the contents. The haps `Core_Context_Change`, `Core_Mode_Switch` and
`Core_Exception` print, or only ask. `resume_transaction` has no action:
`ResumeNeverPosted` shows that it never waits.

### TransmemMachine

The steps are `Transmem`'s, and `DeviceStore`: both interfaces return at once
for an access that is not a core's. Code in blocks makes `BlockStores`, all
other code, kernel and devices `OutsideStores`. The history `blind[c]` collects
the words of core c's block that the module has lost, each by comparing what
the hardware touched with what the hooks entered (`Entered`) or compared
(`Compared`): a device's store, the word that a straddling access reaches into,
an access of another type, an address above the range of `int`, a kernel store
to a word the block has buffered, a release of a buffered word. A straddling
store inside a block is buffered in lanes it does not cover (`Misplaced`). The
end of the block empties it. No guard reads it.

### SerialMemory and the refinement

`SerialMemory` has no read sets, scans or callbacks. A block opens, learns the
values of words, collects bytes, and closes by `Abort`, which leaves memory
alone, or by `Commit`, which is allowed only while everything it learned is
current and which changes just its own bytes at one instant. `TransmemRefines`
maps the open blocks to the running transactions, `reads` to `seen` and
`writes` to the stored lanes of the write buffer. Commit scans, posted
callbacks, load stalls and haps are stuttering steps.

### TransmemGuest

Every thread increments one shared word in an atomic block, `Rounds` times,
with a loop counter that the block itself decrements. The actions are the
program's instructions, each conjoined with the action of `Transmem` that it
causes, the two posted callbacks, and `Switch`, by which the kernel gives a
core to a waiting thread (to the module an `OtherInstruction`). `saved[c]` is
the content of the vector `registers`: `GuestBegin` appends, a cleared vector
is cut to the length `Transmem` gives it, and `GuestAborted` restores
`saved[c][1]`, since `restoreRegisters` reads the vector from index 0. The
restored program counter is the one that TX_BEGIN saved; the model takes it to
be that of the magic instruction, so that the retry executes TX_BEGIN again. An
abort writes the registers of the core, whichever thread it runs by then.
`SwitchInside` says whether the kernel may switch while the core's transaction
runs: nothing in the module prevents it, because the bodies of
`disableInterrupts` and `enableInterrupts` are commented out. A thread that was
switched out inside its block may then go on where no transaction runs, and
loads and stores past the module (`LoadedOn`, `GuestStore`). `threads` is the
program under a kernel that does not, `switch_inside` under one that does. A
block is a thread and a round (`Blocks`); it counts as committed when the
program has counted the round down and no callback is left to commit it.

### Thrift, Telemetry and TransmemTelemetry

`Thrift` is what the two sides make of a message: `Call` is `send_operate` with
the writes of `Work`, `ReadArgs` the reads of `operate_args` and `Work`, which
skip what they do not know, `Answer` the Java processor, which answers an
unknown method with an exception, and `RecvReturns` the checks of
`recv_operate`. Structs are sequences of fields; `TBinaryProtocol`'s bytes are
abstracted.

`Telemetry` is the client and the server around them. The call is synchronous
and inside a hook, so there is one at a time: `SendOperate`, `Process` with the
handler's `Count`, `RecvOperate`; `OperateFails` is the exception that `operate`
catches. The transport is opened in the constructor and never again, hence
`link` is closed from the start, or goes from open to reset. The server may be
absent, stop with a request or an answer under way, and be started again with
its counters at 0, built with any of the `Interfaces`. What is on the connection
carries the number of its call, which the code's messages do not (all have
sequence number 0): only `AnswersBelong` looks at it.

`TransmemTelemetry` says which hooks call: a TX_BEGIN that starts a transaction,
the commit callback always, the abort callback of a running transaction, TX_INFO.
A hook that reports changes the module's state and makes its call in one step,
and no hook starts before the call has returned. `ImplementsTelemetry` is
`Telemetry`'s own `Spec`, whose cores begin and end transactions one at a time:
it is there the abstract specification of the module's reports.

## Runs

| Run | Instance | What it shows |
|---|---|---|
| `write_buffer` | one trace, four words; stores of every byte and half word of the first, of it and the second whole, and of the pairs {0, 4} and {8, 12}; loads of bytes, half words, words and of the second pair | stores that overlap in any order read back and commit byte for byte; no load trips an assertion, also where a pair decides on its first word |
| `lanes` | 2 cores, 1 word, byte stores at lanes 0 and 1, a byte load, exception returns, `mStatus` initially OFF or ABORT | false sharing: no byte of another core is undone, a block is aborted only for a word it depends on, each abort finds one checkpoint, no resumption is posted, and the whole implements `SerialMemory` |
| `wide` | 2 cores, 2 words; 8-byte stores and a half-word store inside the second word; loads of the pair, of its first word and of a half word at the end of the second; `mStatus` initially OFF or ABORT | both halves of a pair are scanned, the scan holds until its commit, which finds everything current, and no assertion fails; `SerialMemory` again |
| `three_cores` | 3 cores, whole words, `MaxPosted = 2`, a release at logical address 32, which is mapped to physical 0, `mStatus` initially OFF, ON or ABORT | aborts of one victim from two sources; `IInv` in every reachable state; a doomed transaction never publishes; no commit dooms a block for a word it has released |
| `environment` | 2 cores, 2 words; in blocks, 6-byte loads that straddle them, byte stores and 6-byte stores, each vanilla or not; straddling half-word stores outside blocks, by the kernel inside them and by devices; a release | every word that did not escape is as current as in a machine that behaves |
| `threads` | 2 cores, 3 threads, `Rounds = 2` | through conflicts, aborts, retries and thread switches between blocks, no increment is lost or doubled; every thread finishes |
| `telemetry` | the module on 2 cores with client and server, `MaxEvents = 3`, servers with and without `operate` | the events counted are those sent, up to the first failure; `depth` drifts by the stray commits and by nothing else; no call takes another's answer or mistakes an exception for a count; a call always returns; the module's reports are `Telemetry`'s events |
| `wide_load` | 8-byte load, high word alone buffered | finding: stale high word |
| `release_partial` | release after a narrow store | finding: stale snapshot |
| `release_next_line` | release of a variable at offset 4 of a line | finding: drops words of the next line |
| `narrowing` | a word above `IntLimit` | finding: reader not aborted |
| `switch_inside` | `threads` with one round and `SwitchInside` | finding: a store of an open block reaches memory, and the counter is ahead of the committed blocks |

Bounds. The conflict check compares one committer with each other core on its
own, word by word, so two cores and two words show every way in which one pair
can go wrong; the third core adds victims shared by two aggressors. Two byte
values tell an old byte from a new one; neighbouring lanes get the same byte in
`Transmem`, and different ones in `WriteBuffer`, where lanes could be swapped.
Memory starts uniform, because a store of either byte reaches any other
content. In `write_buffer` the first pair is stored in every overlap and loaded
word by word; the second is only stored whole, so that an 8-byte load may find
it buffered (`wide_load` loads the first, stored in half). `MaxPosted` bounds
the aborts that wait for one core: with 1, a conflict waits for the last abort
to be delivered; with 2 (`three_cores`, `threads`) they pile up. `MaxReturns`
bounds how far `mPauseDepth` counts down. Both are guards of the action that
would pass the bound. `IntLimit` is the range of `int`, scaled down. Cores and
bytes are interchangeable, hence the symmetry sets (`threads` checks a liveness
property and declares none). `Rounds` is 2 so that a checkpoint or a read set
left by one block meets the next; three threads on two cores leave one waiting
to be switched in. In `environment` a byte and 6 bytes inside blocks and half
words over the boundary outside reach every way of `blind` but two: straddling
half-word or word stores inside blocks and stores above the range of `int`
(`narrowing` shows those on their own) would take the run past what TLC can
exhaust in minutes, and are left to the proofs of the same properties, where
nothing bounds the accesses. The 6-byte store in a block fails its assertion,
vanilla or not, in the second case after it has reached memory; the 6-byte load
fails one when the word it starts in is buffered. `MaxEvents` is 3: a begin and
an end with a third event of the other core at any point, and a server that
goes, comes back or is another one between any two steps of a call; the events
of a longer behaviour meet the same states of client and server, and the
theorems about `Telemetry` have no bound. `CHECK_DEADLOCK FALSE` is in
`Threads.cfg` and `SwitchInside.cfg`, whose guest program ends, and in
`Environment.cfg`, where a failed assertion ends Simics. Elsewhere some
instruction or callback is always possible.

`failed` records a failed assertion, after which nothing happens.

Fairness. Only `threads` and `telemetry` need it. In `threads` it is weak
fairness of each core's instructions, of its callbacks and of its rescheduling:
Simics gives every core its turn after one cycle (`cpu-switch-time cycles = 1`)
and delivers what is posted before it goes on, and a kernel runs a waiting
thread in the end. In `telemetry` it is weak fairness of the call's own steps
(`Calls`), since the client's thread runs on, and of `Process`, since a server
that is up serves; no server has to stop or to be started, and the module need
not execute anything. A server that hangs with its socket open is not in the
model, and would hold up the simulation: the client sets no time limit.

## Properties

Beside the type invariants:

* `ReadsOwnWrites`, `CommitPublishesOwnBytes`: the trace is
  memory with the transaction's bytes laid over it.
* `Opacity`: a running transaction with no abort on its way finds in memory
  every word it depends on as it first found it. This covers blocks that will
  abort later, not only those that commit.
* `SnapshotsCurrent`: so are the lanes a narrow store copied and the commit
  will write back.
* `CommitReady`: between the scan and the commit callback nothing undoes the
  scan.
* `OneCheckpoint`: the checkpoint an abort restores is the block's own, and
  the sets of a finished block are empty.
* `DoomedNeverPublish`, `CommitDoomsOnlyDependents`: an abort, once posted, is
  final, and it has a reason: a commit dooms a block only for a word that this
  very block depends on and has not released, although the read set holds
  physical addresses and the guest releases a logical one.
* `ReleaseDropsTheLine`, the comment's promise of an early release, is stated for
  `release_next_line` only, which refutes it.
* `CommitsAreSerializable`, `ImplementsSerialMemory`: a commit is one atomic
  step that finds all its dependences current.
* `OpacityOfTheTraced`, `SnapshotsOfTheTraced`, `CommitsAreSerializableWhereTraced`:
  the same three without any condition on the machine, for the words that did
  not escape. An escape is what the code cannot see; that it does not spread to
  the other words of its block is what could go wrong.
* `NothingAsserts`, `LoadsDoNotAssert`: a program whose accesses are vanilla, of a
  size the trace knows and inside the words it names, and that stores whole the
  pairs it loads whole, makes no assertion fail. What other programs meet is in
  `environment` and `wide_load`.
* `ResumeNeverPosted`: the callback whose handler asserts TRANS_PAUSE is never
  posted.
* `IncrementsCounted`, `BlocksBracketed`, `Terminates`: a program sees each of
  its blocks happen exactly once, starts again where it began, and gets through.
  A commit cannot be stopped by those it aborts, hence some block always does.
* `CountedInOrder`, `DepthTracksRunning`, `CallsReturn`: what the statistics
  are worth, and that a server that stops or goes away cannot stop the simulation.
* `AnswersBelong`, `ConfirmedAreCounted`: a protocol without call numbers is safe
  here because the client reads every answer, exceptions included, to its end,
  and never opens its transport again: after a failure every later call fails too.
* `ImplementsTelemetry`: each transaction that is reported to begin is reported
  to end exactly once, whichever of its callbacks come late.

Each has a mutant listed in `PROJECT.json`, a plausible slip in the code (the
scan compares write sets, skips the last word, does not skip the committer; a
reset is missing; an address is not aligned or not translated; the high word of
a pair is forgotten), under which its run fails.

## Proofs

Eight modules of theorems, all for any number of cores, words, threads and
events, any accesses and any bounds. The named assumptions of the specifications
are used as they stand, and TLC evaluates them in every run.

`MemoryTraceProofs` has the lemmas about words, lanes and the two sets. One
carries most of what follows: `setChunk` overwrites no lane that the access does
not cover, if the access stays within the words it names.

Hypotheses. Where a theorem has one, the code needs it:

| Name | Says | Without it |
|---|---|---|
| `WholeWords`, `WholeStores`, `WholeLoads` | accesses have 1, 2, 4 or 8 bytes and touch only the words the trace names for them | the second word is not compared, or the size fails an assertion (`environment`) |
| `AddressesFitInt` | stores outside blocks are within `int` | `narrowing` |
| `OnlyVanilla` | the accesses of a block are vanilla | `ObserveMemoryRead` enters no other load (memory_trace.cpp:111) |
| `TracedGuest` | the three above | |
| `UserStores` | `TracedGuest`, no kernel store inside a transaction | the block's own buffered word is older than the store (`environment`) |
| `KeepsReads` | `UserStores`, no early release | `release_partial` |
| `StartsNotOn` | no core finds `TRANS_ON` in its unset `mStatus` | the first abort restores from an empty vector |
| `StartsUnpaused` | none finds `TRANS_PAUSE` there | the first exception return fails the assertion of `inException` |
| `PairedLoads` (of `WriteBuffer`), `PairsStored` (of `Transmem`) | a pair that is loaded at once is stored at once | `wide_load` |
| `~SwitchInside` | the kernel switches outside transactions only | `switch_inside` |

| Theorem | Of | Hypotheses |
|---|---|---|
| `TransmemProofs!TypeCorrect`, `CommitReadyHolds`, `DoomedNeverPublishHolds`, `ResumeNeverPostedHolds` | `Transmem` | none |
| `Inductive`, `OpacityHolds` | `Transmem` | `TracedGuest` |
| `OneCheckpointHolds` | `Transmem` | `StartsNotOn` |
| `NothingAssertsHolds` | `Transmem` | `WholeWords`, `OnlyVanilla`, `PairsStored`, `StartsUnpaused` |
| `CommitDoomsOnlyDependentsHolds` | `Transmem` | `UserStores` |
| `SnapshotsCurrentHolds`, `CommitsAreSerializableHolds` | `Transmem` | `KeepsReads` |
| `Refinement`: `ImplementsSerialMemory` | `Transmem` | `KeepsReads`, `StartsNotOn` |
| `OpacityOfTheTracedHolds`, `SnapshotsOfTheTracedHolds`, `CommitsAreSerializableWhereTracedHolds` | `TransmemMachine` | none |
| `WriteBufferProofs!TypeCorrect` | `WriteBuffer` | none |
| `CommitPublishesOwnBytesHolds` | `WriteBuffer` | `WholeStores` |
| `LoadsDoNotAssertHolds` | `WriteBuffer` | `WholeLoads`, `PairedLoads` |
| `ReadsOwnWritesHolds` | `WriteBuffer` | `WholeStores`, `WholeLoads`, `PairedLoads` |
| `BlocksBracketedHolds` | `TransmemGuest` | `StartsNotOn`, `~SwitchInside` |
| `IncrementsCountedHolds`, `GuestOfTheModule`: `GuestSpec => Spec` | `TransmemGuest` | `TracedGuest`, `StartsNotOn`, `~SwitchInside` |
| `CountedInOrderHolds`, `DepthTracksRunningHolds`, `AnswersBelongHolds`, `ConfirmedAreCountedHolds`, `CallsNeverStuck`, `CallsAdvance` | `Telemetry` | none |
| `ReportsAreEvents`, `DepthOfTheModule` | `TransmemTelemetry` | `StartsNotOn` |

The arguments:

* `Scheduled` (types, `RequestsOnCurrent`, `CommitReady`) is inductive for any
  guest. `CommitReady` would be lost if an abort request could come between a
  scan and its callback, or if a core could start or read something while they
  are pending; it cannot, since a posted commit belongs to the core that executed
  last and no core executes while that one has callbacks waiting.
  `DoomedNeverPublishHolds` follows: the step that ends a running transaction and
  changes memory is its commit callback, and its core has no abort posted.
* `Opacity` is not inductive. A commit callback changes memory, and a reader may
  keep running only if its abort is posted: that is `CommitReady`'s third part,
  and it bears on a reader only if everything the reader depends on is in its
  read set (`DependencesTracked`). `IdleDependsOnNothing` says that a block starts
  with no dependences. `IInv` is the conjunction. The proof has one lemma per
  action: instructions find nothing posted to their core, which settles all but
  the conflict scans; the two scans post an abort to every reader of what will
  change; and the callbacks use what was posted.
* `OneCheckpoint` is inductive given the types. For `ResumeNeverPosted`,
  `PausesCountDown` says that `mPauseDepth` never leaves the numbers below 1, and
  it is decremented before it is compared with 0.
* `Footprint` relates the sets of the trace to what the block did: a buffered
  word has a stored lane, and is in the read set unless all its lanes are
  stored or guests release words; the block depends on all it has read; a block
  that does not run buffers nothing. `SnapshotsCurrent` and the commits rest on
  it. An early release takes a word from the read set and from the dependences
  alike, which is why `CommitDoomsOnlyDependents` needs no hypothesis about it.
* `RInv` adds that a stored lane is a lane of a buffered word (`StoredBuffered`).
  Every step of `Transmem` then is a step of `SerialMemory` under the mapping of
  `TransmemRefines`, or leaves the mapped state alone.
* `MInv` is `Footprint` and `Opacity` with the words of `blind` left out
  (`Covered`, `Current`), and `Scheduled`. Leaving them out is what makes the
  hypotheses on the guest unnecessary: where one is broken, the word is in
  `blind`.
* `BInv`: a buffered word holds the overlay, and either it is in the read set, so
  that memory's part of it cannot change, or it has no such part.
* `AInv`: nothing is ever paused, and a block that has buffered the first word
  of a pair that is loaded whole has buffered the second.
* `GuestInv`: a transaction runs on a core just when the core's thread is inside
  its block or its commit is posted, and a posted commit is alone.
* `IncrementsCounted` takes `GInv`: `IInv`, `OneCheckpoint`, `GuestInv` and
  `Counting`, which says for each core what its checkpoint, the registers of its
  thread and the sets of its block hold at each place in the block
  (`Checkpointed`, `Progress`). The checkpoint has the rounds that are left when
  none of the block counts, so an abort takes the count back to the committed
  blocks. The block's own word is the one it first read, plus one; `Opacity` says
  that the word it first read is still memory's when its commit is delivered, so
  the commit adds one to what memory counts, and one block to those committed.
  Counting is by the cardinality of a set of blocks, where one commit adds one
  element: a sum over the threads would need an induction. The same step-by-step
  proof shows that each step of the program is one of `Transmem`'s, whence
  `GuestOfTheModule`: what is proved of `Transmem` holds of the program too.
* `TelInv`: what the connection holds is the request of the last event or its
  answer; the handler has counted what happened before, and the depth lacks only
  the effect of a request under way. `StepsLeft` is 3 before the request is sent,
  2 while it is under way and 1 when an answer or an exception is: with 2 the
  server that serves can go on, with 1 and 3 the client, and no step of any
  server, whether it stops or starts, raises it. The composition adds that `nesting` is 0
  just when no transaction runs, so that TX_BEGIN reports what Telemetry calls a
  begin.

Only model-checked are the liveness properties: `Terminates`, the fairness of
`ImplementsTelemetry` (`ReportsAreEvents` is its safety), and of `CallsReturn`
the last step, from fairness and the two theorems above to the return. Every
safety invariant and action property of a passing run is proved.

## Not modelled

* The bytes of `TBinaryProtocol`, and of the generated stubs what no program of
  the repository uses: the C++ processor and server side, the Java client,
  `step`, the reads of the C++ `Work`. `JavaClient` connects to a port that
  nobody serves. Exceptions inside the handler: it throws none.
* What the server only prints: time stamps, averages, `count_ops`. The statistics
  counters and the log of the module.
* `BeginTransactionIdx`, `AbortReset`, `handlingException` and `undo`, which
  nothing reaches; `ResumeTransaction`, whose callback is never posted.
* The software and sequential variants of `tm.h`, which do not use this module.
* The template commands and the unused printing helper (`commands.py`,
  `tm_utils.c`); build files and the scripts.
* An `mStatus` that starts as PAUSE: the first exception return on that core
  fails the assertion of `inException` (transaction.cpp:426). `three_cores`
  starts from the other three values. With a stale ON an abort restores an
  empty checkpoint and an unset program counter; the model keeps its effect on
  the transaction only. `telemetry` starts from OFF: an end of a stale ON would
  be reported without its begin, and the depth be off by one for ever.
* `mLastLoad` surviving an abort or a commit is in the model but in no property:
  it changes the timing of one load.

## Plan

The trace, the module with its cores and callbacks, the abstract memory, the
guest program, the machine around it, the telemetry and its composition with the
module are done, with their proofs. What could follow:

1. A guest with `Rounds` unbounded: which threads may starve, and under which
   order of the cores.
2. A guest that uses early release as `stamp/lib/tm.h` offers it, on a linked
   structure, to say which releases keep the structure right.
