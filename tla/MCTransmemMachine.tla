-------------------------- MODULE MCTransmemMachine --------------------------
(* Values for the run of TransmemMachine: two words, accesses that         *)
(* straddle them, and accesses of 6 bytes, a size the trace does not know. *)
EXTENDS TransmemMachine, TLC

CONSTANTS c1, c2, b1, b2

At(addrs, size) == {[addr |-> a, size |-> size] : a \in addrs}

TwoWords == {0, 4}
MachineLoads == At({2}, 6)
InBlocks == At({2}, 1) \cup At({2}, 6)
OutsideBlocks == At({3}, 2)
MachineStores == InBlocks \cup OutsideBlocks

\* Logical addresses from 32 on are mapped from physical 0 on.
PhysicalOf(a) == a - 32

\* Cores and bytes are interchangeable.
Symmetry == Permutations(Core) \cup Permutations(Byte)
==============================================================================
