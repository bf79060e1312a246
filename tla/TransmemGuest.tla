---------------------------- MODULE TransmemGuest ----------------------------
(***************************************************************************)
(* A guest program on the transactional memory: each thread adds 1 to a    *)
(* shared word in an atomic block, Rounds times, with the loop counter in  *)
(* a register that the block itself decrements.                            *)
(*                                                                         *)
(* The program makes the contents of the register checkpoint matter: an    *)
(* abort sends the core back to the TX_BEGIN that started its transaction, *)
(* with the registers of then, and the block runs again.                   *)
(*                                                                         *)
(* The guest kernel runs the threads on the cores, and the module knows    *)
(* cores only: begin and commit leave the interrupts as they are.          *)
(***************************************************************************)
EXTENDS Transmem, Sequences, FiniteSets

CONSTANTS
    Thread,
    Counter,        \* the access to the shared word
    Rounds,         \* blocks that each thread runs
    SwitchInside    \* may the kernel switch threads inside a transaction

Blocks == Thread \X (1 .. Rounds)

\* The shared word can count all the blocks.
ASSUME GuestAssumption ==
    /\ IsFiniteSet(Thread)
    /\ Rounds \in Nat \ {0}
    /\ Counter \in Loads \cap Stores
    /\ "vanilla" \in LoadTypes \cap StoreTypes
    /\ 0 .. Cardinality(Blocks) \subseteq Byte
    /\ SwitchInside \in BOOLEAN

VARIABLES
    on,     \* the thread that each core runs
    pc,     \* where each thread's program is
    regs,   \* its registers: the value loaded and the rounds left
    saved   \* for each core, the contents of Transaction::registers

guestVars == <<vars, on, pc, regs, saved>>

GuestInit ==
    /\ Init
    /\ mem = [w \in Words |-> [l \in Lane |-> 0]]
    /\ on \in {f \in [Core -> Thread] : \A c, d \in Core : f[c] = f[d] => c = d}
    /\ pc = [t \in Thread |-> "begin"]
    /\ regs = [t \in Thread |-> [value |-> 0, left |-> Rounds]]
    /\ saved = [c \in Core |-> <<>>]

\* The checkpoints left in the vector when it holds as many as registers now
\* counts.
Kept(c) == SubSeq(saved[c], 1, registers'[c])

\* checkpointRegisters appends the registers to the vector.
GuestBegin(c, t) ==
    /\ pc[t] = "begin"
    /\ BeginTransaction(c)
    /\ pc' = [pc EXCEPT ![t] = "load"]
    /\ saved' = [saved EXCEPT ![c] =
                    IF registers'[c] > registers[c] THEN Append(@, regs[t]) ELSE @]
    /\ UNCHANGED regs

\* What a load of the counter on core c returns.
LoadedOn(c) == LoadValue(IF Running(c) THEN write_set[c] ELSE NoWrites, mem, Counter)[0]

\* A thread whose core has no transaction loads from memory, unobserved.
GuestLoad(c, t) ==
    /\ pc[t] = "load"
    /\ \/ /\ LoadStalls(c, Counter)
          /\ UNCHANGED <<pc, regs>>
       \/ /\ IF Running(c) THEN Load(c, Counter, "vanilla") ELSE OtherInstruction(c)
          /\ regs' = [regs EXCEPT ![t].value = LoadedOn(c)]
          /\ pc' = [pc EXCEPT ![t] = "store"]
    /\ UNCHANGED saved

\* The counter as thread t increments it, in each of its bytes.
Incremented(t) == [i \in 0 .. Counter.size - 1 |-> regs[t].value + 1]

\* ... and stores to it.
GuestStore(c, t) ==
    /\ pc[t] = "store"
    /\ IF Running(c) THEN Store(c, Counter, Incremented(t), "vanilla")
                     ELSE PlainStore(c, Counter, Incremented(t), "user")
    /\ regs' = [regs EXCEPT ![t].left = @ - 1]
    /\ pc' = [pc EXCEPT ![t] = "commit"]
    /\ UNCHANGED saved

GuestCommit(c, t) ==
    /\ pc[t] = "commit"
    /\ CommitTransaction(c)
    /\ pc' = [pc EXCEPT ![t] = IF regs[t].left = 0 THEN "done" ELSE "begin"]
    /\ UNCHANGED <<regs, saved>>

GuestCommitted(c) ==
    /\ CommitTransactionIdx(c)
    /\ saved' = [saved EXCEPT ![c] = Kept(c)]
    /\ UNCHANGED <<on, pc, regs>>

\* restoreRegisters reads the vector from its start, and writes the registers
\* of the core, whichever thread it runs now.
GuestAborted(c) ==
    /\ AbortTransactionIdx(c)
    /\ IF Running(c)
       THEN /\ pc' = [pc EXCEPT ![on[c]] = "begin"]
            /\ regs' = [regs EXCEPT ![on[c]] = saved[c][1]]
            /\ saved' = [saved EXCEPT ![c] = Kept(c)]
       ELSE UNCHANGED <<pc, regs, saved>>
    /\ UNCHANGED on

\* An interrupt: the kernel gives the core to a thread that waits.
Switch(c, t) ==
    /\ OtherInstruction(c)
    /\ Running(c) => SwitchInside
    /\ pc[t] # "done" /\ \A d \in Core : on[d] # t
    /\ on' = [on EXCEPT ![c] = t]
    /\ UNCHANGED <<pc, regs, saved>>

GuestInstruction(c) ==
    /\ \/ GuestBegin(c, on[c])
       \/ GuestLoad(c, on[c])
       \/ GuestStore(c, on[c])
       \/ GuestCommit(c, on[c])
    /\ UNCHANGED on
GuestCallback(c) == GuestCommitted(c) \/ GuestAborted(c)
Rescheduled(c) == \E t \in Thread : Switch(c, t)

GuestNext == \E c \in Core : GuestInstruction(c) \/ GuestCallback(c) \/ Rescheduled(c)

\* Simics runs every core that has not halted, one instruction each in turn,
\* and delivers what is posted; the kernel runs a waiting thread in the end.
Fairness ==
    \A c \in Core :
        /\ WF_guestVars(GuestInstruction(c))
        /\ WF_guestVars(GuestCallback(c))
        /\ WF_guestVars(Rescheduled(c))

GuestSpec == GuestInit /\ [][GuestNext]_guestVars /\ Fairness

-----------------------------------------------------------------------------
\* Thread t has stored its increment and its block has not committed yet.
InFlight(t) ==
    \/ pc[t] = "commit"
    \/ \E c \in Core : on[c] = t /\ posted[c]["commit_transaction_idx"] > 0

\* The rounds thread t has committed.
Committed(t) == Rounds - regs[t].left - (IF InFlight(t) THEN 1 ELSE 0)

CommittedBlocks == {b \in Blocks : b[2] <= Committed(b[1])}

\* The counter, in memory or in a buffered word.
CounterIn(words) == words[WordOf(Counter.addr)][OffsetOf(Counter.addr)]

\* The shared word counts the committed blocks, no more and no fewer, however
\* often a block was aborted and run again (controller.cpp:57-131,
\* transaction.cpp:300-391).
IncrementsCounted ==
    /\ \A t \in Thread : Committed(t) \in 0 .. Rounds
    /\ CounterIn(mem) = Cardinality(CommittedBlocks)

\* A program that brackets its blocks stays bracketed through aborts: TX_COMMIT
\* is executed in the transaction its TX_BEGIN began, and in no other
\* (transaction.cpp:61-87, 345-391).
BlocksBracketed ==
    \A c \in Core :
        Running(c) <=> \/ pc[on[c]] \in {"load", "store", "commit"}
                       \/ posted[c]["commit_transaction_idx"] > 0

\* The conflicts do not stop the program: a commit goes through whatever it
\* aborts, so a block is run again only finitely often and every thread
\* finishes (controller.cpp:62-95).
Terminates == <>(\A t \in Thread : pc[t] = "done")
==============================================================================
