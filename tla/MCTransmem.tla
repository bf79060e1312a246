------------------------------ MODULE MCTransmem ------------------------------
(* Values for the runs of Transmem.                                        *)
EXTENDS TransmemRefines, TLC

CONSTANTS c1, c2, c3, b1, b2

At(addrs, size) == {[addr |-> a, size |-> size] : a \in addrs}

OneWord == {0}
TwoWords == {0, 4}

\* The cores share a word byte by byte.
LaneLoads == At({1}, 1)
LaneStores == At({0, 1}, 1)

\* Stores of a pair of words and of a half word in the middle of the second,
\* loads of the pair, of its first word and of a half word of the second.
WideLoads == At({0}, 8) \cup At({0}, 4) \cup At({6}, 2)
WideStores == At({0}, 8) \cup At({5}, 2)

\* Whole words only.
WordLoads == At({0}, 4)
WordStores == At({0}, 4)

\* A word above the range of int.
HighWord == {4}
HighLoads == At({4}, 4)
HighStores == At({4}, 4)

\* The first word of a 32-byte line and the first of the next.
TwoLines == {0, 32}
LineLoads == At({0, 32}, 4)

\* Logical addresses from 32 on are mapped from physical 0 on.
PhysicalOf(a) == a - 32

\* Cores and bytes are interchangeable.
Symmetry == Permutations(Core) \cup Permutations(Byte)
===============================================================================
