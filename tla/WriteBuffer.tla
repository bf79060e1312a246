----------------------------- MODULE WriteBuffer -----------------------------
(***************************************************************************)
(* One transaction's MemoryTrace, byte by byte, against the plain overlay  *)
(* it stands for: memory with the bytes the transaction stored on top.     *)
(*                                                                         *)
(* Other writers change only words outside the read set: a change to a     *)
(* word inside it dooms the transaction, which module Transmem models.     *)
(***************************************************************************)
EXTENDS MemoryTrace

CONSTANTS
    Words,          \* the word addresses of memory
    Loads, Stores,  \* the accesses the program makes
    StoreData(_),   \* the data an access may store
    OtherValues     \* the values other writers give to a word

ASSUME WordAssumption == \A w \in Words : w \in Nat /\ WordOf(w) = w
ASSUME AccessAssumption ==
    /\ Loads \subseteq Access /\ Stores \subseteq Access
    /\ \A acc \in Loads \cup Stores : TracedWords(acc) \subseteq Words
    /\ \A acc \in Stores : StoreData(acc) \subseteq Data(acc)
    /\ OtherValues \subseteq WordValue

VARIABLES
    mem,        \* physical memory
    read_set,   \* MemoryTrace::read_set
    write_set,  \* MemoryTrace::write_set
    own         \* history: the bytes stored so far, word by word

vars == <<mem, read_set, write_set, own>>

NothingStored == [w \in Words |-> [l \in {} |-> {}]]

TypeOK ==
    /\ mem \in [Words -> WordValue]
    /\ read_set \in SUBSET Words
    /\ DOMAIN write_set \subseteq Words
    /\ \A w \in DOMAIN write_set : write_set[w] \in WordValue
    /\ DOMAIN own = Words
    /\ \A w \in Words : DOMAIN own[w] \subseteq Lane

Init ==
    /\ mem \in [Words -> OtherValues]
    /\ read_set = {}
    /\ write_set = NoWrites
    /\ own = NothingStored

\* OperateMemoryWrite
Store(acc, data) ==
    /\ ~StoreAsserts(acc)
    /\ write_set' = StoreWriteSet(write_set, mem, acc, data)
    /\ read_set' = StoreReadSet(read_set, write_set, acc)
    /\ own' = [w \in Words |->
                [l \in DOMAIN own[w] \cup CoveredLanes(acc, w) |->
                    IF l \in CoveredLanes(acc, w) THEN data[w + l - acc.addr]
                                                  ELSE own[w][l]]]
    /\ UNCHANGED mem

\* ObserveMemoryRead
Load(acc) ==
    /\ read_set' = LoadReadSet(read_set, acc)
    /\ UNCHANGED <<mem, write_set, own>>

\* commit_writes and clear, as CommitTransaction calls them.
Commit ==
    /\ mem' = CommitWrites(write_set, mem)
    /\ read_set' = {}
    /\ write_set' = NoWrites
    /\ own' = NothingStored

\* clear, as clearTransaction calls it.
Clear ==
    /\ read_set' = {}
    /\ write_set' = NoWrites
    /\ own' = NothingStored
    /\ UNCHANGED mem

OtherWrite(w, value) ==
    /\ w \notin read_set
    /\ mem' = [mem EXCEPT ![w] = value]
    /\ UNCHANGED <<read_set, write_set, own>>

Next ==
    \/ \E acc \in Stores : \E data \in StoreData(acc) : Store(acc, data)
    \/ \E acc \in Loads : Load(acc)
    \/ Commit
    \/ Clear
    \/ \E w \in Words, value \in OtherValues : OtherWrite(w, value)

Spec == Init /\ [][Next]_vars

-----------------------------------------------------------------------------
\* Memory as the transaction must see it.
Overlay ==
    [w \in Words |-> [l \in Lane |-> IF l \in DOMAIN own[w] THEN own[w][l]
                                                            ELSE mem[w][l]]]

\* What a load must return.
Expected(acc) ==
    [i \in 0 .. acc.size - 1 |->
        Overlay[WordOf(acc.addr + i)][OffsetOf(acc.addr + i)]]

\* Every load returns the transaction's own bytes where it stored some and
\* memory's elsewhere, however the stores overlapped (ObserveMemoryRead).
ReadsOwnWrites ==
    \A acc \in Loads : \/ LoadAsserts(write_set, acc)
                       \/ LoadValue(write_set, mem, acc) = Expected(acc)

\* No load the program may make next trips an assertion of the trace.
LoadsDoNotAssert == \A acc \in Loads : ~LoadAsserts(write_set, acc)

\* Commit writes whole words, yet memory changes only in the bytes stored:
\* the lanes snapshotted around a narrow store are still memory's.
CommitPublishesOwnBytes == CommitWrites(write_set, mem) = Overlay
==============================================================================
