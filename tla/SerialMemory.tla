---------------------------- MODULE SerialMemory ----------------------------
(***************************************************************************)
(* What the transactional memory promises: atomic blocks over one memory,  *)
(* each of which takes effect at a single instant, its commit, and only if *)
(* everything it depended on is then still as it found it.                 *)
(*                                                                         *)
(* There are no read sets, scans, callbacks or snapshots here; from        *)
(* MemoryTrace come only the words and lanes an access touches.            *)
(***************************************************************************)
EXTENDS MemoryTrace

CONSTANTS Core, Words, Loads, Stores, StoreData(_), ReleaseVars, Released(_)

VARIABLES
    mem,        \* memory, word by word
    open,       \* the cores inside an atomic block
    reads,      \* the words each block depends on, and what they held
    writes      \* the lanes each block stored, and what it stored

vars == <<mem, open, reads, writes>>

NoReads == [w \in {} |-> {}]
NothingWritten == [w \in Words |-> [l \in {} |-> {}]]

Init ==
    /\ mem \in [Words -> WordValue]
    /\ open = {}
    /\ reads = [c \in Core |-> NoReads]
    /\ writes = [c \in Core |-> NothingWritten]

\* The dependence on the words not yet known, as memory holds them now.
Learn(known, words) ==
    [w \in DOMAIN known \cup words |-> IF w \in DOMAIN known THEN known[w] ELSE mem[w]]
Forget(known, words) == [w \in DOMAIN known \ words |-> known[w]]

Close(c) ==
    /\ open' = open \ {c}
    /\ reads' = [reads EXCEPT ![c] = NoReads]
    /\ writes' = [writes EXCEPT ![c] = NothingWritten]

Begin(c) ==
    /\ c \notin open
    /\ open' = open \cup {c}
    /\ UNCHANGED <<mem, reads, writes>>

Read(c, acc) ==
    /\ c \in open
    /\ reads' = [reads EXCEPT ![c] = Learn(@, SpannedWords(acc))]
    /\ UNCHANGED <<mem, open, writes>>

\* A store may make the block depend on the rest of the words it touches.
Write(c, acc, data) ==
    /\ c \in open
    /\ \E words \in SUBSET SpannedWords(acc) :
          reads' = [reads EXCEPT ![c] = Learn(@, words)]
    /\ writes' = [writes EXCEPT ![c] =
          [w \in Words |-> [l \in DOMAIN @[w] \cup CoveredLanes(acc, w) |->
              IF l \in CoveredLanes(acc, w) THEN data[w + l - acc.addr] ELSE @[w][l]]]]
    /\ UNCHANGED <<mem, open>>

Release(c, var) ==
    /\ reads' = [reads EXCEPT ![c] = Forget(@, Released(var))]
    /\ UNCHANGED <<mem, open, writes>>

Current(c) == \A w \in DOMAIN reads[c] : reads[c][w] = mem[w]

Commit(c) ==
    /\ c \in open
    /\ Current(c)
    /\ mem' = [w \in Words |-> [l \in Lane |->
                  IF l \in DOMAIN writes[c][w] THEN writes[c][w][l] ELSE mem[w][l]]]
    /\ Close(c)

Abort(c) ==
    /\ c \in open
    /\ Close(c)
    /\ UNCHANGED mem

\* A store from outside the block of core c, if it is in one.
PlainStore(c, acc, data) ==
    /\ mem' = [w \in Words |-> StoredWord(acc, data, w, mem[w])]
    /\ reads' = [reads EXCEPT ![c] = Forget(@, SpannedWords(acc))]
    /\ UNCHANGED <<open, writes>>

Next ==
    \E c \in Core :
        \/ Begin(c) \/ Commit(c) \/ Abort(c)
        \/ \E acc \in Loads : Read(c, acc)
        \/ \E acc \in Stores : \E data \in StoreData(acc) :
              Write(c, acc, data) \/ PlainStore(c, acc, data)
        \/ \E var \in ReleaseVars : Release(c, var)

Spec == Init /\ [][Next]_vars
==============================================================================
