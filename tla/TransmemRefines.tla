--------------------------- MODULE TransmemRefines ---------------------------
(***************************************************************************)
(* The module's blocks are SerialMemory's: a core is in a block while its  *)
(* transaction runs, the block depends on what the histories recorded, and *)
(* it has written the stored lanes of its write buffer.                    *)
(***************************************************************************)
EXTENDS Transmem

OpenBlocks == {c \in Core : Running(c)}

Written ==
    [c \in Core |-> [w \in Words |-> [l \in stored[c][w] |-> write_set[c][w][l]]]]

Serial == INSTANCE SerialMemory
    WITH open <- OpenBlocks, reads <- seen, writes <- Written

\* Every behaviour of the module is one of atomic blocks over one memory: a
\* commit step finds the block's dependences current and changes only the
\* bytes it stored, all at once (controller.cpp:57-106, transaction.cpp:89-147,
\* memory_trace.cpp:170-179); every other step leaves memory and the blocks
\* as a step of SerialMemory does.
ImplementsSerialMemory == Serial!Spec
==============================================================================
