----------------------------- MODULE MemoryTrace -----------------------------
(***************************************************************************)
(* The read set and the write set of one transaction (memory_trace.cpp).   *)
(*                                                                         *)
(* A word is four byte lanes.  A write set is a partial function from word *)
(* addresses to the word a MemOp holds; a read set is a set of word        *)
(* addresses.  An access is a record [addr, size]; the data of a store is  *)
(* a function from the bytes 0 .. size - 1 it writes to their values.      *)
(* The operators are pure: Transmem and WriteBuffer give them a state.     *)
(***************************************************************************)
EXTENDS Integers

CONSTANTS
    Byte,       \* the values a byte can hold
    IntLimit    \* 2^31: an `int' holds -IntLimit .. IntLimit - 1

ASSUME ByteAssumption == Byte # {}
ASSUME IntLimitAssumption == IntLimit \in Nat \ {0}

Lane == 0 .. 3
WordValue == [Lane -> Byte]
Access == [addr : Nat, size : Nat \ {0}]
Data(acc) == [0 .. acc.size - 1 -> Byte]

WordOf(addr) == addr - (addr % 4)       \* addr & ~3
OffsetOf(addr) == addr % 4

\* Stored into an int and widened back to a physical_address_t: an address of
\* 2^31 or more comes back as one that no word of memory has.
NarrowToInt(addr) ==
    LET low == addr % (2 * IntLimit)
    IN  IF low < IntLimit THEN low ELSE low - 2 * IntLimit

\* The sizes that the switches over mop->size and getChunk's know; any other
\* one ends in assert(0).
TracedSizes == {1, 2, 4, 8}

-----------------------------------------------------------------------------
(* What the hardware touches: the words and bytes of an access in memory.  *)

SpannedWords(acc) == {WordOf(a) : a \in acc.addr .. acc.addr + acc.size - 1}

\* The lanes of word w that the access covers.
CoveredLanes(acc, w) ==
    {l \in Lane : acc.addr <= w + l /\ w + l < acc.addr + acc.size}

\* Word w, whose value is old, after the store of data.
StoredWord(acc, data, w, old) ==
    [l \in Lane |-> IF l \in CoveredLanes(acc, w) THEN data[w + l - acc.addr]
                                                  ELSE old[l]]

-----------------------------------------------------------------------------
(* One buffered word: MemOp.                                               *)

\* Mutant: the half word in the middle of the word is forgotten.
ChunkStartNoMiddle(offset, size) ==
    CASE size = 4 -> 0
      [] size = 2 -> IF offset = 0 THEN 0 ELSE 2
      [] size = 1 -> offset

\* The lanes that setChunk overwrites.  A half word at offset 3 lands on the
\* default branch of the switch, a full word ignores the offset.
ChunkStart(offset, size) ==
    CASE size = 4 -> 0
      [] size = 2 -> IF offset < 2 THEN offset ELSE 2
      [] size = 1 -> offset

SetChunk(word, offset, size, data) ==
    LET start == ChunkStart(offset, size)
    IN  [l \in Lane |-> IF l \in start .. start + size - 1 THEN data[l - start]
                                                           ELSE word[l]]

\* Mutant: < for <= in the alignment check.
GetDataAssertsEarly(offset, size) == size = 2 /\ offset >= 2

\* getData: a half word must not start on the last lane (the assertion), a
\* full word ignores the offset.
GetDataAsserts(offset, size) == size = 2 /\ offset > 2
GetChunk(word, offset, size) ==
    LET start == IF size = 4 THEN 0 ELSE offset
    IN  [i \in 0 .. size - 1 |-> word[start + i]]

-----------------------------------------------------------------------------
(* The two sets.                                                           *)

\* Mutant: the second word of a pair is forgotten.
TracedWordsLow(acc) == {WordOf(acc.addr)}

\* The words an access of the trace names: an access of 8 bytes is two words,
\* one of any other size a single one.
TracedWords(acc) ==
    {WordOf(acc.addr)} \cup (IF acc.size = 8 THEN {WordOf(acc.addr) + 4} ELSE {})

\* The default branch of the switch, before anything is buffered.
StoreAsserts(acc) == acc.size \notin TracedSizes

\* The first store to a word snapshots it from memory, a later one merges
\* into the MemOp; both halves of an 8-byte store are overwritten whole.
StoreWriteSet(write_set, mem, acc, data) ==
    LET base(w) == IF w \in DOMAIN write_set THEN write_set[w] ELSE mem[w]
        half(i) == [l \in Lane |-> data[4 * i + l]]
        stored(w) ==
            IF acc.size = 8 THEN IF w = WordOf(acc.addr) THEN half(0) ELSE half(1)
            ELSE SetChunk(base(w), OffsetOf(acc.addr), acc.size, data)
    IN  [w \in DOMAIN write_set \cup TracedWords(acc) |->
            IF w \in TracedWords(acc) THEN stored(w) ELSE write_set[w]]

\* A store that covers part of an unbuffered word has read the rest of it.
ImpliedReads(write_set, acc) ==
    IF acc.size < 4 THEN TracedWords(acc) \ DOMAIN write_set ELSE {}

\* Mutant: a narrow store reads nothing.
StoreReadSetExplicit(read_set, write_set, acc) == read_set

StoreReadSet(read_set, write_set, acc) == read_set \cup ImpliedReads(write_set, acc)

\* Mutant: the address is not aligned first.
LoadReadSetUnmasked(read_set, acc) == read_set \cup {acc.addr}

LoadReadSet(read_set, acc) == read_set \cup TracedWords(acc)

\* A load decides on its low word alone.  When that is buffered, the size must
\* be one the trace knows, the high word of 8 bytes must be buffered too, and
\* a half word must not start on lane 3.
LoadAsserts(write_set, acc) ==
    /\ WordOf(acc.addr) \in DOMAIN write_set
    /\ \/ acc.size \notin TracedSizes
       \/ acc.size = 8 /\ WordOf(acc.addr) + 4 \notin DOMAIN write_set
       \/ GetDataAsserts(OffsetOf(acc.addr), acc.size)

\* The bytes that the load returns, from the buffer or else from memory.
LoadValue(write_set, mem, acc) ==
    LET w == WordOf(acc.addr)
        fromMemory == [i \in 0 .. acc.size - 1 |->
                          mem[WordOf(acc.addr + i)][OffsetOf(acc.addr + i)]]
    IN  IF w \notin DOMAIN write_set THEN fromMemory
        ELSE IF acc.size = 8
        THEN [i \in 0 .. 7 |-> IF i < 4 THEN write_set[w][i] ELSE write_set[w + 4][i - 4]]
        ELSE GetChunk(write_set[w], OffsetOf(acc.addr), acc.size)

\* Every buffered word is written back whole.
CommitWrites(write_set, mem) ==
    [w \in DOMAIN mem |-> IF w \in DOMAIN write_set THEN write_set[w] ELSE mem[w]]

\* Mutant: the high word is not looked up.
HasReadLow(read_set, addr, size) == WordOf(addr) \in read_set

HasRead(read_set, addr, size) ==
    \/ WordOf(addr) \in read_set
    \/ size > 4 /\ WordOf(addr) + 4 \in read_set

\* The write set after clear().
NoWrites == [w \in {} |-> {}]
==============================================================================
