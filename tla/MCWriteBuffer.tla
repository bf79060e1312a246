---------------------------- MODULE MCWriteBuffer ----------------------------
(* Values for the runs of WriteBuffer: two adjacent words, and another two *)
(* that are only stored as a pair.                                         *)
EXTENDS WriteBuffer

At(addrs, size) == {[addr |-> a, size |-> size] : a \in addrs}

\* Every byte and half word of the first word, both words, and the two pairs.
MCStores == At(0 .. 3, 1) \cup At(0 .. 2, 2) \cup At({0, 4}, 4) \cup At({0, 8}, 8)
MCLoads == At({0, 1, 3}, 1) \cup At({0, 1, 2}, 2) \cup At({0, 4}, 4) \cup At({8}, 8)

\* Neighbouring bytes differ, so that a misplaced lane shows.
MCStoreData(acc) == {[i \in 0 .. acc.size - 1 |-> 1 + (i % 2)]}
MCOtherValues == {[l \in Lane |-> 0], [l \in Lane |-> 1 + ((l + 1) % 2)]}
MCWords == {0, 4, 8, 12}

\* A 4-byte store to the high word alone, and a load of both.
MCWideStores == At({0, 4}, 4) \cup At({0}, 1)
MCWideLoads == At({0}, 8)
==============================================================================
