----------------------------- MODULE GuestProofs -----------------------------
(***************************************************************************)
(* Theorems about TransmemGuest, for any number of cores, threads and      *)
(* rounds: a kernel that does not switch threads inside a transaction      *)
(* keeps every block in the transaction that its TX_BEGIN began.           *)
(***************************************************************************)
EXTENDS TransmemGuest, TransmemBlockProofs, FiniteSetTheorems

Places == {"begin", "load", "store", "commit", "done"}

\* Thread t is between its TX_BEGIN and its TX_COMMIT.
Inside(t) == pc[t] \in {"load", "store", "commit"}
Pending(c) == posted[c]["commit_transaction_idx"] > 0

GuestType ==
    /\ on \in [Core -> Thread]
    /\ \A c, d \in Core : on[c] = on[d] => c = d
    /\ pc \in [Thread -> Places]
    /\ mStatus \in [Core -> Status]
    /\ nesting \in [Core -> {0, 1}]
    /\ posted \in [Core -> [Callback -> Nat]]
    /\ current \in Core

\* A commit waits alone, for the core that executed last; its transaction is
\* not to be aborted any more, and its thread has left the block.
Bracketed(c) ==
    /\ nesting[c] = 1 <=> Running(c)
    /\ Running(c) <=> Inside(on[c]) \/ Pending(c)
    /\ Pending(c) => /\ posted[c]["commit_transaction_idx"] = 1
                     /\ c = current
                     /\ ~Doomed(c)
                     /\ ~Inside(on[c])

\* The threads without a core are outside their blocks.
Waiting == \A t \in Thread : Inside(t) => \E c \in Core : on[c] = t

GuestInv == GuestType /\ Waiting /\ \A c \in Core : Bracketed(c)

LEMMA Executing ==
    ASSUME GuestInv, NEW c \in Core, Executes(c)
    PROVE  /\ \A d \in Core : ~Pending(d)
           /\ ~Doomed(c) /\ current' = c
           /\ \A d \in Core : Running(d) <=> Inside(on[d])
<1>1. \A d \in Core, cb \in Callback : posted[d][cb] \in Nat
  BY DEF GuestInv, GuestType
<1>2. ASSUME NEW d \in Core PROVE ~Pending(d)
  BY <1>1, CallbackNames DEF GuestInv, Bracketed, Pending, Executes, Idle
<1>3. ~Doomed(c) /\ current' = c
  BY <1>1, CallbackNames DEF Executes, Idle, Doomed
<1> QED
  BY <1>2, <1>3 DEF GuestInv, Bracketed

\* When no thread is switched inside its block, the accesses to the counter
\* are transactional.
LEMMA LoadsInside ==
    ASSUME GuestInv, NEW c \in Core, GuestLoad(c, on[c])
    PROVE  /\ Executes(c) /\ Inside(on[c]) /\ Running(c)
           /\ \/ LoadStalls(c, Counter) /\ UNCHANGED <<pc, regs>>
              \/ /\ Load(c, Counter, "vanilla")
                 /\ regs' = [regs EXCEPT ![on[c]].value =
                               LoadValue(write_set[c], mem, Counter)[0]]
                 /\ pc' = [pc EXCEPT ![on[c]] = "store"]
<1>1. Executes(c) /\ Inside(on[c])
  BY DEF GuestLoad, LoadStalls, Load, OtherInstruction, Inside
<1>2. Running(c)
  BY <1>1, Executing
<1> QED
  BY <1>1, <1>2 DEF GuestLoad, LoadedOn

LEMMA StoresInside ==
    ASSUME GuestInv, NEW c \in Core, GuestStore(c, on[c])
    PROVE  /\ Executes(c) /\ Inside(on[c]) /\ Running(c)
           /\ Store(c, Counter, Incremented(on[c]), "vanilla")
<1>1. Executes(c) /\ Inside(on[c])
  BY DEF GuestStore, Store, PlainStore, Inside
<1>2. Running(c)
  BY <1>1, Executing
<1> QED
  BY <1>1, <1>2 DEF GuestStore

\* An instruction inside a block that leaves the thread inside it.
LEMMA InsideStep ==
    ASSUME GuestInv, NEW c \in Core, Executes(c), Inside(on[c]),
           NEW place \in {"load", "store", "commit"},
           pc' = pc \/ pc' = [pc EXCEPT ![on[c]] = place],
           UNCHANGED <<on, mStatus, nesting, posted>>
    PROVE  GuestInv'
<1>1. \A t \in Thread : Inside(t)' <=> Inside(t)
  BY DEF GuestInv, GuestType, Inside
<1>2. GuestType'
  BY Executing DEF GuestInv, GuestType, Places
<1>3. ASSUME NEW d \in Core PROVE Bracketed(d)'
  <2>1. on[d] \in Thread /\ ~Pending(d)' /\ (Running(d)' <=> Running(d))
    BY Executing DEF GuestInv, GuestType, Pending, Running
  <2> QED
    BY <1>1, <2>1, Executing DEF GuestInv, Bracketed
<1> QED
  BY <1>1, <1>2, <1>3 DEF GuestInv, Waiting

LEMMA GuestBeginStep ==
    ASSUME GuestInv, NEW c \in Core, GuestBegin(c, on[c]), on' = on
    PROVE  GuestInv'
<1>1. /\ Executes(c) /\ pc[on[c]] = "begin" /\ on[c] \in Thread
      /\ posted' = posted /\ pc' = [pc EXCEPT ![on[c]] = "load"]
  BY DEF GuestBegin, BeginTransaction, GuestInv, GuestType
<1>2. ~Running(c) /\ nesting[c] = 0
  BY <1>1, Executing DEF Inside, GuestInv, GuestType, Bracketed
<1>3. mStatus' = [mStatus EXCEPT ![c] = "ON"] /\ nesting' = [nesting EXCEPT ![c] = 1]
  BY <1>2 DEF GuestBegin, BeginTransaction, Begun
<1>4. GuestType'
  BY <1>1, <1>3, Executing DEF GuestInv, GuestType, Places, Status
<1>5. ASSUME NEW t \in Thread PROVE Inside(t)' <=> Inside(t) \/ t = on[c]
  BY <1>1 DEF GuestInv, GuestType, Inside
<1>6. ASSUME NEW d \in Core PROVE Bracketed(d)'
  <2>1. ~Pending(d)' /\ on[d] \in Thread /\ (on[d] = on[c] <=> d = c)
    BY <1>1, Executing DEF Pending, GuestInv, GuestType
  <2>2. /\ Running(d)' <=> Running(d) \/ d = c
        /\ nesting'[d] = 1 <=> nesting[d] = 1 \/ d = c
    BY <1>3 DEF Running, GuestInv, GuestType
  <2>3. (nesting[d] = 1 <=> Running(d)) /\ (Running(d) <=> Inside(on[d]))
    BY <1>1, Executing DEF GuestInv, Bracketed
  <2> QED
    BY <1>5, <2>1, <2>2, <2>3 DEF Bracketed
<1> QED
  BY <1>4, <1>5, <1>6 DEF GuestInv, Waiting

LEMMA GuestCommitStep ==
    ASSUME GuestInv, NEW c \in Core, GuestCommit(c, on[c]), on' = on
    PROVE  GuestInv'
<1> DEFINE Q == Post(posted, Conflicting(c), "abort_transaction_idx")
<1>1. /\ Executes(c) /\ pc[on[c]] = "commit" /\ on[c] \in Thread
      /\ posted' = Post(Q, {c}, "commit_transaction_idx")
      /\ mStatus' = mStatus /\ nesting' = nesting
      /\ \E place \in {"begin", "done"} : pc' = [pc EXCEPT ![on[c]] = place]
  BY DEF GuestCommit, CommitTransaction, transaction, GuestInv, GuestType
<1>2. /\ posted \in [Core -> [Callback -> Nat]] /\ Q \in [Core -> [Callback -> Nat]]
      /\ posted' \in [Core -> [Callback -> Nat]]
  <2>1. posted \in [Core -> [Callback -> Nat]] /\ Q \in [Core -> [Callback -> Nat]]
    BY PostType, CallbackNames DEF GuestInv, GuestType
  <2> HIDE DEF Q
  <2> QED
    BY <1>1, <2>1, PostType, CallbackNames
<1>3. ASSUME NEW d \in Core
      PROVE  /\ posted'[d]["commit_transaction_idx"] =
                   IF d = c THEN posted[d]["commit_transaction_idx"] + 1
                            ELSE posted[d]["commit_transaction_idx"]
             /\ d = c => posted'[d]["abort_transaction_idx"]
                            = posted[d]["abort_transaction_idx"]
  <2>1. \A k \in Callback : Q[d][k] =
           IF d \in Conflicting(c) /\ k = "abort_transaction_idx" THEN posted[d][k] + 1
                                                                  ELSE posted[d][k]
    BY <1>2, PostValue, CallbackNames
  <2>2. c \notin Conflicting(c)
    BY DEF Conflicting, Readers
  <2>3. \A k \in Callback : posted'[d][k] =
           IF d = c /\ k = "commit_transaction_idx" THEN Q[d][k] + 1 ELSE Q[d][k]
    <3> HIDE DEF Q
    <3> QED
      BY <1>1, <1>2, PostValue, CallbackNames
  <2> HIDE DEF Q
  <2> QED
    BY <2>1, <2>2, <2>3, CallbackNames
<1>4. GuestType'
  BY <1>1, <1>2, Executing DEF GuestInv, GuestType, Places
<1>5. ASSUME NEW t \in Thread PROVE Inside(t)' <=> Inside(t) /\ t # on[c]
  BY <1>1 DEF GuestInv, GuestType, Inside
<1>6. ASSUME NEW d \in Core PROVE Bracketed(d)'
  <2>1. on[d] \in Thread /\ (on[d] = on[c] <=> d = c)
    BY DEF GuestInv, GuestType
  <2>2. /\ Running(d)' <=> Running(d)
        /\ nesting'[d] = nesting[d] /\ (nesting[d] = 1 <=> Running(d))
        /\ Running(d) <=> Inside(on[d])
    BY <1>1, Executing DEF Running, GuestInv, Bracketed
  <2>3. posted[d]["commit_transaction_idx"] = 0
    BY <1>1, <1>2, Executing, CallbackNames DEF Pending
  <2>4. posted'[d]["commit_transaction_idx"] = IF d = c THEN 1 ELSE 0
    BY <1>3, <2>3
  <2>5. d = c => Inside(on[d]) /\ ~Doomed(d)' /\ current' = d
    BY <1>1, <1>3, Executing DEF Inside, Doomed
  <2> QED
    BY <1>5, <2>1, <2>2, <2>4, <2>5 DEF Bracketed, Pending
<1> QED
  BY <1>4, <1>5, <1>6 DEF GuestInv, Waiting

\* A callback takes itself off the queue of its core.
LEMMA CallbackTaken ==
    ASSUME GuestInv, NEW c \in Core, NEW cb \in Callback, Delivered(c, cb),
           posted' = Taken(c, cb)
    PROVE  /\ posted' \in [Core -> [Callback -> Nat]]
           /\ \A d \in Core, k \in Callback :
                 posted'[d][k] = IF d = c /\ k = cb THEN posted[d][k] - 1
                                                    ELSE posted[d][k]
<1>1. posted \in [Core -> [Callback -> Nat]] /\ posted[c][cb] > 0
  BY DEF GuestInv, GuestType, Delivered
<1> QED
  BY <1>1 DEF Taken

\* A callback that ends the transaction of c.
LEMMA Ended ==
    ASSUME GuestInv, NEW c \in Core, Emptied(c), on' = on, current' = current,
           posted' \in [Core -> [Callback -> Nat]],
           \A d \in Core : /\ posted'[d]["commit_transaction_idx"] =
                                 IF d = c THEN 0 ELSE posted[d]["commit_transaction_idx"]
                           /\ posted'[d]["abort_transaction_idx"]
                                 <= posted[d]["abort_transaction_idx"],
           (pc' = pc /\ ~Inside(on[c])) \/ pc' = [pc EXCEPT ![on[c]] = "begin"]
    PROVE  GuestInv'
<1>1. /\ mStatus' = [mStatus EXCEPT ![c] = "OFF"]
      /\ nesting' = [nesting EXCEPT ![c] = 0]
  BY DEF Emptied, EmptiedTo
<1>2. GuestType'
  BY <1>1 DEF GuestInv, GuestType, Places, Status
<1>3. ASSUME NEW t \in Thread PROVE Inside(t)' <=> Inside(t) /\ t # on[c]
  BY DEF GuestInv, GuestType, Inside
<1>4. ASSUME NEW d \in Core PROVE Bracketed(d)'
  <2>1. on[d] \in Thread /\ (on[d] = on[c] <=> d = c)
    BY DEF GuestInv, GuestType
  <2>2. /\ Running(d)' <=> Running(d) /\ d # c
        /\ nesting'[d] = IF d = c THEN 0 ELSE nesting[d]
    BY <1>1 DEF Running, GuestInv, GuestType
  <2>3. /\ Pending(d)' <=> Pending(d) /\ d # c
        /\ Doomed(d)' => Doomed(d)
    <3>1. posted[d]["abort_transaction_idx"] \in Nat /\ posted'[d]["abort_transaction_idx"] \in Nat
      BY CallbackNames DEF GuestInv, GuestType
    <3> QED
      BY <3>1 DEF Pending, Doomed
  <2> QED
    BY <1>3, <2>1, <2>2, <2>3 DEF GuestInv, Bracketed
<1> QED
  BY <1>2, <1>3, <1>4 DEF GuestInv, Waiting

LEMMA GuestCommittedStep ==
    ASSUME GuestInv, NEW c \in Core, GuestCommitted(c)
    PROVE  GuestInv'
<1>1. /\ Delivered(c, "commit_transaction_idx") /\ posted' = Taken(c, "commit_transaction_idx")
      /\ Emptied(c) /\ current' = current /\ on' = on /\ pc' = pc
  BY DEF GuestCommitted, CommitTransactionIdx
<1>2. /\ posted' \in [Core -> [Callback -> Nat]]
      /\ \A d \in Core, k \in Callback :
            posted'[d][k] = IF d = c /\ k = "commit_transaction_idx" THEN posted[d][k] - 1
                                                                    ELSE posted[d][k]
  BY <1>1, CallbackTaken, CallbackNames
<1>3. Pending(c) /\ posted[c]["commit_transaction_idx"] = 1 /\ ~Inside(on[c])
  BY <1>1 DEF Delivered, Pending, GuestInv, Bracketed
<1>4. ASSUME NEW d \in Core
      PROVE  /\ posted'[d]["commit_transaction_idx"] =
                   IF d = c THEN 0 ELSE posted[d]["commit_transaction_idx"]
             /\ posted'[d]["abort_transaction_idx"] <= posted[d]["abort_transaction_idx"]
  <2>1. posted[d]["abort_transaction_idx"] \in Nat
    BY CallbackNames DEF GuestInv, GuestType
  <2> QED
    BY <1>2, <1>3, <2>1, CallbackNames
<1> QED
  BY <1>1, <1>2, <1>3, <1>4, Ended

LEMMA GuestAbortedStep ==
    ASSUME GuestInv, NEW c \in Core, GuestAborted(c)
    PROVE  GuestInv'
<1>1. /\ Delivered(c, "abort_transaction_idx") /\ posted' = Taken(c, "abort_transaction_idx")
      /\ current' = current /\ on' = on
      /\ Running(c) => Emptied(c) /\ pc' = [pc EXCEPT ![on[c]] = "begin"]
      /\ ~Running(c) => UNCHANGED <<mStatus, nesting, pc>>
  BY DEF GuestAborted, AbortTransactionIdx, transaction
<1>2. /\ posted' \in [Core -> [Callback -> Nat]]
      /\ \A d \in Core, k \in Callback :
            posted'[d][k] = IF d = c /\ k = "abort_transaction_idx" THEN posted[d][k] - 1
                                                                   ELSE posted[d][k]
  BY <1>1, CallbackTaken, CallbackNames
<1>3. posted[c]["commit_transaction_idx"] = 0
  <2>1. ~Pending(c) /\ posted[c]["commit_transaction_idx"] \in Nat
    BY <1>1, CallbackNames DEF Delivered, Doomed, GuestInv, GuestType, Bracketed
  <2> QED
    BY <2>1 DEF Pending
<1>4. ASSUME NEW d \in Core
      PROVE  /\ posted'[d]["commit_transaction_idx"] =
                   IF d = c THEN 0 ELSE posted[d]["commit_transaction_idx"]
             /\ posted'[d]["abort_transaction_idx"] <= posted[d]["abort_transaction_idx"]
             /\ posted[d]["abort_transaction_idx"] \in Nat
             /\ posted'[d]["abort_transaction_idx"] \in Nat
  <2>1. posted[d]["abort_transaction_idx"] \in Nat
    BY CallbackNames DEF GuestInv, GuestType
  <2> QED
    BY <1>2, <1>3, <2>1, CallbackNames
<1>5. CASE Running(c)
  BY <1>1, <1>2, <1>4, <1>5, Ended
<1>6. CASE ~Running(c)
  <2>1. GuestType'
    BY <1>1, <1>2, <1>6 DEF GuestInv, GuestType
  <2>2. ASSUME NEW d \in Core PROVE Bracketed(d)'
    <3>1. /\ Pending(d)' <=> Pending(d)
          /\ posted'[d]["commit_transaction_idx"] = posted[d]["commit_transaction_idx"]
          /\ Doomed(d)' => Doomed(d)
      BY <1>3, <1>4 DEF Pending, Doomed
    <3> QED
      BY <1>1, <1>6, <3>1 DEF GuestInv, Bracketed, Running, Inside
  <2> QED
    BY <1>1, <1>6, <2>1, <2>2 DEF GuestInv, Waiting, Inside
<1> QED
  BY <1>5, <1>6

\* A switch takes place outside the blocks of both threads.
LEMMA SwitchStep ==
    ASSUME ~SwitchInside, GuestInv, NEW c \in Core, NEW t \in Thread, Switch(c, t)
    PROVE  GuestInv'
<1>1. /\ Executes(c) /\ ~Running(c) /\ \A d \in Core : on[d] # t
      /\ on' = [on EXCEPT ![c] = t]
      /\ UNCHANGED <<mStatus, nesting, posted, pc>>
  BY DEF Switch, OtherInstruction, transaction
<1>2. ~Inside(t)
  BY <1>1 DEF GuestInv, Waiting
<1>3. GuestType'
  BY <1>1, Executing DEF GuestInv, GuestType
<1>4. ~Inside(on[c])
  BY <1>1, Executing
<1>5. \A u : Inside(u)' <=> Inside(u)
  BY <1>1 DEF Inside
<1>6. ASSUME NEW d \in Core PROVE Bracketed(d)'
  <2>1. /\ on'[d] = IF d = c THEN t ELSE on[d]
        /\ ~Pending(d)'
        /\ Running(d)' <=> Running(d)
        /\ nesting'[d] = nesting[d]
    BY <1>1, Executing DEF GuestInv, GuestType, Pending, Running
  <2> QED
    BY <1>1, <1>2, <1>4, <1>5, <2>1, Executing DEF GuestInv, Bracketed
<1>7. Waiting'
  <2> SUFFICES ASSUME NEW u \in Thread, Inside(u) PROVE \E d \in Core : on'[d] = u
    BY <1>5 DEF Waiting
  <2>1. PICK d \in Core : on[d] = u
    BY DEF GuestInv, Waiting
  <2>2. d # c
    BY <1>4, <2>1
  <2> QED
    BY <1>1, <2>1, <2>2 DEF GuestInv, GuestType
<1> QED
  BY <1>3, <1>6, <1>7 DEF GuestInv

LEMMA GuestStep == ~SwitchInside /\ GuestInv /\ [GuestNext]_guestVars => GuestInv'
<1> SUFFICES ASSUME ~SwitchInside, GuestInv, [GuestNext]_guestVars PROVE GuestInv'
  OBVIOUS
<1>1. ASSUME NEW c \in Core, GuestLoad(c, on[c]), on' = on PROVE GuestInv'
  <2>1. /\ Executes(c) /\ Inside(on[c])
        /\ UNCHANGED <<mStatus, nesting, posted>>
        /\ pc' = pc \/ pc' = [pc EXCEPT ![on[c]] = "store"]
    BY <1>1, LoadsInside DEF LoadStalls, Load, transaction
  <2> QED
    BY <1>1, <2>1, InsideStep
<1>2. ASSUME NEW c \in Core, GuestStore(c, on[c]), on' = on PROVE GuestInv'
  <2>1. /\ Executes(c) /\ Inside(on[c])
        /\ UNCHANGED <<mStatus, nesting, posted>>
        /\ pc' = [pc EXCEPT ![on[c]] = "commit"]
    BY <1>2, StoresInside DEF GuestStore, Store, transaction
  <2> QED
    BY <1>2, <2>1, InsideStep
<1>3. CASE UNCHANGED guestVars
  BY <1>3 DEF guestVars, vars, transaction, GuestInv, GuestType, Waiting, Bracketed,
     Inside, Pending, Running, Doomed
<1>4. CASE GuestNext
  BY <1>1, <1>2, <1>4, GuestBeginStep, GuestCommitStep, GuestCommittedStep,
     GuestAbortedStep, SwitchStep
     DEF GuestNext, GuestInstruction, GuestCallback, Rescheduled
<1> QED
  BY <1>3, <1>4

LEMMA GuestInitial == StartsNotOn /\ GuestInit => GuestInv
<1> SUFFICES ASSUME StartsNotOn, GuestInit PROVE GuestInv
  OBVIOUS
<1>1. /\ on \in [Core -> Thread] /\ \A c, d \in Core : on[c] = on[d] => c = d
      /\ pc = [t \in Thread |-> "begin"]
      /\ mStatus \in [Core -> InitialStatus] /\ nesting = [c \in Core |-> 0]
      /\ posted = [c \in Core |-> [cb \in Callback |-> 0]] /\ current \in Core
  BY DEF GuestInit, Init
<1>2. \A c \in Core : mStatus[c] # "ON"
  BY <1>1 DEF StartsNotOn
<1>3. GuestType
  BY <1>1, EnvironmentAssumption DEF GuestType, Places
<1>4. ASSUME NEW c \in Core PROVE Bracketed(c)
  BY <1>1, <1>2, CallbackNames DEF Bracketed, Running, Inside, Pending
<1> QED
  BY <1>1, <1>3, <1>4 DEF GuestInv, Waiting, Inside

\* TX_COMMIT is executed in the transaction its TX_BEGIN began, however the
\* blocks abort each other, if the kernel switches threads outside
\* transactions only.
THEOREM BlocksBracketedHolds ==
    StartsNotOn /\ ~SwitchInside => (GuestSpec => []BlocksBracketed)
<1> SUFFICES ASSUME StartsNotOn, ~SwitchInside PROVE GuestSpec => []BlocksBracketed
  OBVIOUS
<1>1. GuestInit => GuestInv
  BY GuestInitial
<1>2. GuestInv /\ [GuestNext]_guestVars => GuestInv'
  BY GuestStep
<1>3. GuestInv => BlocksBracketed
  BY DEF GuestInv, Bracketed, BlocksBracketed, Inside, Pending
<1> QED
  BY <1>1, <1>2, <1>3, PTL DEF GuestSpec

-----------------------------------------------------------------------------
(* Counting.                                                               *)

Registers == [value : Nat, left : 0 .. Rounds]
CounterWord == WordOf(Counter.addr)

\* A running block has one checkpoint, taken when its thread had committed as
\* many rounds as now.
Checkpointed(c) ==
    /\ ~Running(c) => saved[c] = <<>>
    /\ Running(c) => \E r \in Registers :
          saved[c] = <<r>> /\ r.left = Rounds - Committed(on[c])

\* What the block of c has done: nothing before its load; then it depends on
\* the counter as it loaded it; then it has buffered the successor.
Progress(c) ==
    Running(c) =>
        /\ ~InFlight(on[c]) => DOMAIN write_set[c] = {}
        /\ pc[on[c]] = "load" => DOMAIN seen[c] = {}
        /\ pc[on[c]] = "store" =>
              /\ CounterWord \in DOMAIN seen[c]
              /\ regs[on[c]].value = CounterIn(seen[c])
              /\ regs[on[c]].value < Cardinality(Blocks)
        /\ InFlight(on[c]) =>
              /\ CounterWord \in DOMAIN seen[c] \cap DOMAIN write_set[c]
              /\ CounterIn(write_set[c]) = CounterIn(seen[c]) + 1

Counting ==
    /\ regs \in [Thread -> Registers]
    /\ DOMAIN saved = Core
    /\ \A t \in Thread : pc[t] \in {"begin", "load", "store"} => regs[t].left > 0
    /\ \A c \in Core : Checkpointed(c) /\ Progress(c)
    /\ IncrementsCounted

LEMMA CounterFacts ==
    /\ Counter \in Access
    /\ CounterWord \in Words /\ OffsetOf(Counter.addr) \in Lane
    /\ CounterWord \in SpannedWords(Counter) \cap TracedWords(Counter)
<1>1. Counter \in Access /\ SpannedWords(Counter) \cup TracedWords(Counter) \subseteq Words
  BY GuestAssumption, AccessAssumption
<1>2. Counter.addr \in Counter.addr .. Counter.addr + Counter.size - 1
  BY <1>1 DEF Access
<1>3. OffsetOf(Counter.addr) \in Lane
  BY <1>1 DEF Access, OffsetOf, Lane
<1> QED
  BY <1>1, <1>2, <1>3 DEF CounterWord, SpannedWords, TracedWords

LEMMA BlocksFinite == IsFiniteSet(Blocks)
<1>1. IsFiniteSet(1 .. Rounds)
  BY GuestAssumption, FS_Interval
<1> QED
  BY <1>1, GuestAssumption, FS_Product DEF Blocks

\* As long as a thread has a round to commit, not all blocks are committed.
LEMMA SomeUncommitted ==
    ASSUME NEW t \in Thread, Committed(t) \in Int, Committed(t) < Rounds
    PROVE  /\ Cardinality(CommittedBlocks) \in Nat
           /\ Cardinality(CommittedBlocks) < Cardinality(Blocks)
<1>1. CommittedBlocks \in SUBSET Blocks
  BY DEF CommittedBlocks
<1>2. <<t, Rounds>> \in Blocks \ CommittedBlocks
  BY GuestAssumption DEF Blocks, CommittedBlocks
<1>3. /\ IsFiniteSet(CommittedBlocks)
      /\ Cardinality(CommittedBlocks) <= Cardinality(Blocks)
      /\ Cardinality(CommittedBlocks) # Cardinality(Blocks)
  BY <1>1, <1>2, BlocksFinite, FS_Subset
<1>4. Cardinality(CommittedBlocks) \in Nat /\ Cardinality(Blocks) \in Nat
  BY <1>3, BlocksFinite, FS_CardinalityType
<1> QED
  BY <1>3, <1>4

\* While an instruction executes, only a thread that is about to execute
\* TX_COMMIT has stored its increment.
LEMMA InFlightExecuting ==
    ASSUME GuestInv, NEW c \in Core, Executes(c)
    PROVE  \A t : InFlight(t) <=> pc[t] = "commit"
BY Executing DEF InFlight, Pending

\* A step that leaves a core's block, thread and checkpoint alone.
LEMMA CoreSame ==
    ASSUME Counting, NEW d \in Core,
           on'[d] = on[d], mStatus'[d] = mStatus[d], saved'[d] = saved[d],
           write_set'[d] = write_set[d], seen'[d] = seen[d],
           pc'[on[d]] = pc[on[d]], regs'[on[d]] = regs[on[d]],
           InFlight(on[d])' <=> InFlight(on[d])
    PROVE  Checkpointed(d)' /\ Progress(d)'
<1>1. Checkpointed(d) /\ Progress(d)
  BY DEF Counting
<1>2. Committed(on[d])' = Committed(on[d])
  BY DEF Committed
<1>3. Checkpointed(d)'
  BY <1>1, <1>2 DEF Checkpointed, Running
<1>4. Progress(d)'
  BY <1>1 DEF Progress, Running, CounterIn
<1> QED
  BY <1>3, <1>4

\* A step that commits nothing and leaves memory alone.
LEMMA CountSame ==
    ASSUME IncrementsCounted, mem' = mem,
           \A t \in Thread : Committed(t)' = Committed(t)
    PROVE  IncrementsCounted'
<1>1. CommittedBlocks' = CommittedBlocks
  BY DEF CommittedBlocks, Blocks
<1> QED
  BY <1>1 DEF IncrementsCounted, CounterIn

GInv == IInv /\ OneCheckpoint /\ GuestInv /\ Counting

\* An instruction of core c that leaves memory and the callbacks alone: what it
\* may change is its own block and the registers of its thread.
LEMMA OwnStep ==
    ASSUME GInv, NEW c \in Core, Executes(c),
           UNCHANGED <<mem, posted, on>>,
           \A d \in Core \ {c} : /\ mStatus'[d] = mStatus[d] /\ saved'[d] = saved[d]
                                 /\ write_set'[d] = write_set[d] /\ seen'[d] = seen[d],
           \A t \in Thread \ {on[c]} : pc'[t] = pc[t] /\ regs'[t] = regs[t],
           DOMAIN saved' = Core, regs' \in [Thread -> Registers],
           Committed(on[c])' = Committed(on[c]),
           pc'[on[c]] \in {"begin", "load", "store"} => regs'[on[c]].left > 0,
           Checkpointed(c)', Progress(c)'
    PROVE  Counting'
<1>1. \A d \in Core : on[d] \in Thread /\ (on[d] = on[c] => d = c)
  BY DEF GInv, GuestInv, GuestType
<1>2. \A t : InFlight(t)' <=> pc'[t] = "commit"
  BY Executing DEF GInv, InFlight, Pending
<1>3. \A t \in Thread \ {on[c]} : InFlight(t)' <=> InFlight(t)
  BY <1>2, InFlightExecuting DEF GInv
<1>4. \A t \in Thread : Committed(t)' = Committed(t)
  BY <1>3 DEF Committed
<1>5. IncrementsCounted'
  BY <1>4, CountSame DEF GInv, Counting
<1>6. ASSUME NEW d \in Core \ {c} PROVE Checkpointed(d)' /\ Progress(d)'
  BY <1>1, <1>3, CoreSame DEF GInv
<1> QED
  BY <1>5, <1>6 DEF GInv, Counting

LEMMA CountingBegin ==
    ASSUME GInv, NEW c \in Core, GuestBegin(c, on[c]), on' = on
    PROVE  Counting'
<1>1. /\ Executes(c) /\ pc[on[c]] = "begin" /\ on[c] \in Thread
      /\ UNCHANGED <<mem, posted, regs, write_set, seen>>
      /\ pc' = [pc EXCEPT ![on[c]] = "load"]
      /\ saved' = [saved EXCEPT ![c] = IF registers'[c] > registers[c]
                                       THEN Append(@, regs[on[c]]) ELSE @]
  BY DEF GuestBegin, BeginTransaction, trace, GInv, GuestInv, GuestType
<1>2. ~Running(c) /\ nesting[c] = 0 /\ registers[c] = 0
  <2>1. ~Running(c) /\ nesting[c] = 0
    BY <1>1, Executing DEF Inside, GInv, GuestInv, GuestType, Bracketed
  <2> QED
    BY <2>1 DEF GInv, OneCheckpoint
<1>3. mStatus' = [mStatus EXCEPT ![c] = "ON"] /\ registers'[c] = 1
  BY <1>2 DEF GuestBegin, BeginTransaction, Begun, GInv, IInv, TypeOK
<1>4. /\ pc \in [Thread -> Places] /\ mStatus \in [Core -> Status]
      /\ regs \in [Thread -> Registers] /\ DOMAIN saved = Core
  BY DEF GInv, GuestInv, GuestType, Counting
<1>5. saved[c] = <<>> /\ regs[on[c]].left > 0
  BY <1>1, <1>2 DEF GInv, Counting, Checkpointed
<1>6. saved'[c] = <<regs[on[c]]>>
  BY <1>1, <1>2, <1>3, <1>4, <1>5
<1>7. /\ ~InFlight(on[c]) /\ ~InFlight(on[c])'
      /\ pc'[on[c]] = "load"
  BY <1>1, <1>4, Executing DEF GInv, InFlight, Pending
<1>8. Committed(on[c])' = Committed(on[c]) /\ Committed(on[c]) = Rounds - regs[on[c]].left
  BY <1>1, <1>4, <1>7, GuestAssumption DEF Committed, Registers
<1>9. Checkpointed(c)'
  <2>1. regs[on[c]] \in Registers /\ Rounds - (Rounds - regs[on[c]].left) = regs[on[c]].left
    BY <1>1, <1>4, GuestAssumption DEF Registers
  <2>2. Running(c)'
    BY <1>3, <1>4 DEF Running
  <2> QED
    BY <1>6, <1>8, <2>1, <2>2 DEF Checkpointed
<1>10. Progress(c)'
  <2>1. DOMAIN write_set[c] = {} /\ DOMAIN seen[c] = {}
    BY <1>2 DEF GInv, OneCheckpoint, NoWrites, IInv, IdleDependsOnNothing
  <2> QED
    BY <1>1, <1>7, <2>1 DEF Progress
<1>11. /\ \A d \in Core \ {c} : mStatus'[d] = mStatus[d] /\ saved'[d] = saved[d]
       /\ \A t \in Thread \ {on[c]} : pc'[t] = pc[t]
       /\ DOMAIN saved' = Core
  BY <1>1, <1>3, <1>4
<1> QED
  BY <1>1, <1>4, <1>5, <1>8, <1>9, <1>10, <1>11, OwnStep

\* The block loads the count.
LEMMA CountingLoad ==
    ASSUME GInv, NEW c \in Core, GuestLoad(c, on[c]), Load(c, Counter, "vanilla"),
           regs' = [regs EXCEPT ![on[c]].value = LoadValue(write_set[c], mem, Counter)[0]],
           pc' = [pc EXCEPT ![on[c]] = "store"], on' = on
    PROVE  Counting'
<1>1. /\ Executes(c) /\ pc[on[c]] = "load" /\ on[c] \in Thread /\ Running(c)
      /\ UNCHANGED <<mem, posted, mStatus, write_set, saved>>
      /\ seen' = [seen EXCEPT ![c] = Depend(@, SpannedWords(Counter))]
  BY DEF GuestLoad, Load, transaction, GInv, GuestInv, GuestType
<1>2. /\ pc \in [Thread -> Places] /\ DOMAIN seen = Core
      /\ regs \in [Thread -> Registers] /\ DOMAIN saved = Core
  BY DEF GInv, IInv, TypeOK, GuestInv, GuestType, Counting
<1>3. ~InFlight(on[c]) /\ ~InFlight(on[c])' /\ pc'[on[c]] = "store"
  BY <1>1, <1>2, Executing DEF GInv, InFlight, Pending
<1>4. /\ DOMAIN write_set[c] = {} /\ DOMAIN seen[c] = {}
      /\ regs[on[c]].left > 0
  BY <1>1, <1>3 DEF GInv, Counting, Progress
<1>5. LoadValue(write_set[c], mem, Counter)[0] = CounterIn(mem)
  BY <1>4, CounterFacts DEF LoadValue, CounterIn, Access
<1>6. /\ CounterIn(mem) \in Nat
      /\ CounterIn(mem) < Cardinality(Blocks)
  <2>1. Committed(on[c]) \in Int /\ Committed(on[c]) < Rounds
    BY <1>1, <1>2, <1>3, <1>4, GuestAssumption DEF Committed, Registers
  <2> QED
    BY <1>1, <2>1, SomeUncommitted DEF GInv, Counting, IncrementsCounted
<1>7. CounterWord \in DOMAIN seen'[c] /\ CounterIn(seen'[c]) = CounterIn(mem)
  BY <1>1, <1>2, <1>4, CounterFacts DEF Depend, CounterIn, CounterWord
<1>8. /\ regs' \in [Thread -> Registers]
      /\ regs'[on[c]].left = regs[on[c]].left
      /\ regs'[on[c]].value = CounterIn(mem)
      /\ \A t \in Thread \ {on[c]} : regs'[t] = regs[t]
  BY <1>1, <1>2, <1>5, <1>6 DEF Registers
<1>9. Committed(on[c])' = Committed(on[c])
  BY <1>3, <1>8 DEF Committed
<1>10. Checkpointed(c)'
  BY <1>1, <1>9 DEF GInv, Counting, Checkpointed, Running
<1>11. Progress(c)'
  <2>1. DOMAIN write_set'[c] = {} /\ ~InFlight(on[c])'
    BY <1>1, <1>3, <1>4
  <2>2. CounterIn(mem) < Cardinality(Blocks)
    BY <1>6
  <2> QED
    BY <1>3, <1>7, <1>8, <2>1, <2>2 DEF Progress, CounterIn, Blocks
<1> QED
  BY <1>1, <1>2, <1>3, <1>4, <1>8, <1>9, <1>10, <1>11, OwnStep

\* What the block stores is a value of the counter.
LEMMA StoresByte ==
    ASSUME GInv, NEW c \in Core, Running(c), pc[on[c]] = "store"
    PROVE  Incremented(on[c]) \in StoreData(Counter)
<1>1. regs[on[c]].value \in Nat /\ regs[on[c]].value < Cardinality(Blocks)
  BY DEF GInv, GuestInv, GuestType, Counting, Progress, Registers
<1>2. Cardinality(Blocks) \in Nat
  BY BlocksFinite, FS_CardinalityType
<1>3. regs[on[c]].value + 1 \in Byte
  BY <1>1, <1>2, GuestAssumption
<1> QED
  BY <1>3 DEF Incremented, StoreData

\* The block buffers the successor of what it loaded.
LEMMA CountingStore ==
    ASSUME TracedGuest, GInv, NEW c \in Core, GuestStore(c, on[c]), on' = on
    PROVE  Counting'
<1> DEFINE data == Incremented(on[c])
<1>1. /\ pc[on[c]] = "store" /\ on[c] \in Thread /\ Running(c)
      /\ Store(c, Counter, data, "vanilla")
      /\ regs' = [regs EXCEPT ![on[c]].left = @ - 1]
      /\ pc' = [pc EXCEPT ![on[c]] = "commit"]
      /\ saved' = saved
  BY StoresInside DEF GuestStore, GInv, GuestInv, GuestType
<1>2. data \in StoreData(Counter)
  BY <1>1, StoresByte
<1>3. /\ pc \in [Thread -> Places] /\ regs \in [Thread -> Registers]
      /\ DOMAIN saved = Core /\ TypeOK
  BY DEF GInv, IInv, GuestInv, GuestType, Counting
<1> HIDE DEF data
<1>4. /\ Executes(c)
      /\ UNCHANGED <<mem, mStatus, posted>>
      /\ \A d \in Core \ {c} : write_set'[d] = write_set[d] /\ seen'[d] = seen[d]
      /\ DOMAIN seen[c] \subseteq DOMAIN seen'[c]
      /\ \A w \in DOMAIN seen[c] : seen'[c][w] = seen[c][w]
      /\ write_set'[c] = StoreWriteSet(write_set[c], mem, Counter, data)
      /\ CounterWord \in DOMAIN write_set'[c]
  <2>1. Counter \in Stores /\ ~StoreAsserts(Counter)
    BY GuestAssumption, StoresTraced DEF TracedGuest
  <2> QED
    BY <1>1, <1>2, <1>3, <2>1, StoreEffect, CounterFacts
<1>5. ~InFlight(on[c]) /\ InFlight(on[c])'
  BY <1>1, <1>3, <1>4, InFlightExecuting DEF InFlight, GInv
<1>6. /\ regs[on[c]].left > 0
      /\ CounterWord \in DOMAIN seen[c]
      /\ regs[on[c]].value = CounterIn(seen[c])
  BY <1>1 DEF GInv, Counting, Progress
<1>7. /\ regs' \in [Thread -> Registers]
      /\ regs'[on[c]].left = regs[on[c]].left - 1
      /\ \A t \in Thread \ {on[c]} : regs'[t] = regs[t]
      /\ pc'[on[c]] = "commit"
      /\ \A t \in Thread \ {on[c]} : pc'[t] = pc[t]
  BY <1>1, <1>3, <1>6, GuestAssumption DEF Registers
<1>8. CounterIn(write_set'[c]) = regs[on[c]].value + 1
  <2> DEFINE o == OffsetOf(Counter.addr)
  <2>1. /\ Counter.addr \in Nat /\ Counter.size \in {1, 2, 4, 8}
        /\ CounterWord \in Nat /\ o \in Nat /\ CounterWord + o = Counter.addr
    <3>1. /\ Counter.addr \in Nat /\ Counter.size \in {1, 2, 4, 8}
          /\ OffsetOf(Counter.addr) \in Nat /\ CounterWord \in Nat
      BY CounterFacts, AccessParts, WordAssumption, GuestAssumption
         DEF Lane, TracedGuest, WholeWords, TracedSizes
    <3> QED
      BY <3>1 DEF CounterWord, WordOf, OffsetOf
  <2>2. o \in CoveredLanes(Counter, CounterWord)
    <3> HIDE DEF o
    <3>1. o \in Lane
      BY CounterFacts DEF o
    <3> QED
      BY <2>1, <3>1 DEF CoveredLanes
  <2>3. Whole(Counter)
    BY GuestAssumption DEF TracedGuest, WholeWords, Whole
  <2>4. StoreWriteSet(write_set[c], mem, Counter, data)[CounterWord][o]
            = data[CounterWord + o - Counter.addr]
    BY <2>2, <2>3, CounterFacts, WordsAligned, StoreLane
  <2>5. CounterWord + o - Counter.addr = 0 /\ 0 \in 0 .. Counter.size - 1
    <3> HIDE DEF o
    <3> QED
      BY <2>1
  <2>6. data[0] = regs[on[c]].value + 1
    BY <2>5 DEF data, Incremented
  <2> QED
    BY <1>4, <2>4, <2>5, <2>6 DEF CounterIn, CounterWord
<1>9. Committed(on[c])' = Committed(on[c])
  <2>1. regs[on[c]].left \in Nat /\ Rounds \in Nat
    BY <1>1, <1>3, GuestAssumption DEF Registers
  <2> QED
    BY <1>5, <1>7, <2>1 DEF Committed
<1>10. Checkpointed(c)'
  BY <1>1, <1>4, <1>9 DEF GInv, Counting, Checkpointed, Running
<1>11. Progress(c)'
  <2>1. CounterIn(seen'[c]) = CounterIn(seen[c])
    BY <1>4, <1>6 DEF CounterIn, CounterWord
  <2> QED
    BY <1>4, <1>5, <1>6, <1>7, <1>8, <2>1 DEF Progress, CounterIn
<1> QED
  BY <1>1, <1>3, <1>4, <1>7, <1>9, <1>10, <1>11, OwnStep

\* TX_COMMIT leaves the increment in flight.
LEMMA CountingCommit ==
    ASSUME GInv, GuestInv', NEW c \in Core, GuestCommit(c, on[c]), on' = on
    PROVE  Counting'
<1>1. /\ Executes(c) /\ pc[on[c]] = "commit" /\ on[c] \in Thread
      /\ UNCHANGED <<mem, mStatus, write_set, seen, regs, saved>>
      /\ pc' = [pc EXCEPT ![on[c]] = IF regs[on[c]].left = 0 THEN "done" ELSE "begin"]
  BY DEF GuestCommit, CommitTransaction, transaction, trace, GInv, GuestInv, GuestType
<1>2. /\ pc \in [Thread -> Places] /\ regs \in [Thread -> Registers]
      /\ DOMAIN saved = Core
      /\ \A d \in Core : on[d] \in Thread /\ (on[d] = on[c] => d = c)
  BY DEF GInv, GuestInv, GuestType, Counting
<1>3. Running(c) /\ Running(c)' /\ ~Inside(on[c])'
  BY <1>1, <1>2, Executing DEF GInv, Inside, Running
<1>4. \A d \in Core : Pending(d)' <=> d = c
  BY <1>1, <1>3, Executing DEF GInv, GuestInv, Bracketed
<1>5. \A t \in Thread : InFlight(t)' <=> InFlight(t)
  <2>1. \A t \in Thread : InFlight(t) <=> pc[t] = "commit"
    BY <1>1, InFlightExecuting DEF GInv
  <2>2. \A t \in Thread : InFlight(t)' <=> pc'[t] = "commit" \/ t = on[c]
    BY <1>4 DEF InFlight, Pending
  <2>3. \A t \in Thread \ {on[c]} : pc'[t] = pc[t]
    BY <1>1, <1>2
  <2> QED
    BY <1>1, <2>1, <2>2, <2>3
<1>6. \A t \in Thread : Committed(t)' = Committed(t)
  BY <1>1, <1>5 DEF Committed
<1>7. IncrementsCounted'
  BY <1>1, <1>6, CountSame DEF GInv, Counting
<1>8. ASSUME NEW d \in Core PROVE Checkpointed(d)' /\ Progress(d)'
  <2>1. CASE d = c
    <3>1. Checkpointed(c) /\ Progress(c)
      BY DEF GInv, Counting
    <3>2. Checkpointed(c)'
      BY <1>1, <1>2, <1>6, <3>1 DEF Checkpointed, Running
    <3>3. InFlight(on[c]) /\ InFlight(on[c])' /\ pc'[on[c]] \in {"done", "begin"}
      BY <1>1, <1>2, <1>5, InFlightExecuting DEF GInv
    <3>4. Progress(c)'
      BY <1>1, <1>3, <3>1, <3>3 DEF Progress, Running, CounterIn
    <3> QED
      BY <2>1, <3>2, <3>4
  <2>2. CASE d # c
    <3>1. pc'[on[d]] = pc[on[d]]
      BY <1>1, <1>2, <2>2
    <3> QED
      BY <1>1, <1>2, <1>5, <3>1, CoreSame DEF GInv
  <2> QED
    BY <2>1, <2>2
<1>9. ASSUME NEW t \in Thread, pc'[t] \in {"begin", "load", "store"} PROVE regs'[t].left > 0
  <2>1. CASE t = on[c]
    <3>1. regs[t].left \in Nat /\ regs[t].left # 0
      BY <1>1, <1>2, <1>9, <2>1 DEF Registers
    <3> QED
      BY <1>1, <3>1
  <2>2. CASE t # on[c]
    BY <1>1, <1>2, <1>9, <2>2 DEF GInv, Counting
  <2> QED
    BY <2>1, <2>2
<1> QED
  BY <1>1, <1>2, <1>7, <1>8, <1>9 DEF Counting

\* Ending a block drops its checkpoint.
LEMMA EndDropsCheckpoint ==
    ASSUME IInv, NEW c \in Core, Emptied(c), DOMAIN saved = Core,
           saved' = [saved EXCEPT ![c] = Kept(c)]
    PROVE  /\ ~Running(c)' /\ saved'[c] = <<>> /\ DOMAIN saved' = Core
           /\ Checkpointed(c)' /\ Progress(c)'
           /\ \A d \in Core \ {c} : /\ mStatus'[d] = mStatus[d] /\ saved'[d] = saved[d]
                                    /\ write_set'[d] = write_set[d]
                                    /\ seen'[d] = seen[d]
<1>1. registers'[c] = 0 /\ mStatus'[c] = "OFF"
  BY DEF Emptied, EmptiedTo, IInv, TypeOK
<1>2. saved'[c] = <<>>
  BY <1>1 DEF Kept
<1>3. ~Running(c)'
  BY <1>1 DEF Running
<1> QED
  BY <1>2, <1>3 DEF Emptied, EmptiedTo, IInv, TypeOK, Checkpointed, Progress

\* The commit adds 1 to the counter and one block to those committed.
LEMMA CountingCommitted ==
    ASSUME GInv, GuestInv', NEW c \in Core, GuestCommitted(c)
    PROVE  Counting'
<1>1. /\ Delivered(c, "commit_transaction_idx")
      /\ posted' = Taken(c, "commit_transaction_idx")
      /\ mem' = CommitWrites(write_set[c], mem)
      /\ Emptied(c) /\ saved' = [saved EXCEPT ![c] = Kept(c)]
      /\ UNCHANGED <<current, on, pc, regs>>
  BY DEF GuestCommitted, CommitTransactionIdx
<1>2. /\ regs \in [Thread -> Registers] /\ DOMAIN saved = Core
      /\ IncrementsCounted /\ IInv
      /\ \A d \in Core : on[d] \in Thread /\ (on[d] = on[c] => d = c)
  BY DEF GInv, GuestInv, GuestType, Counting
<1>3. Pending(c) /\ Running(c) /\ ~Doomed(c) /\ ~Inside(on[c]) /\ c = current
  BY <1>1 DEF Delivered, Pending, GInv, GuestInv, Bracketed
<1>4. /\ ~Running(c)' /\ DOMAIN saved' = Core
      /\ Checkpointed(c)' /\ Progress(c)'
      /\ \A d \in Core \ {c} : /\ mStatus'[d] = mStatus[d] /\ saved'[d] = saved[d]
                               /\ write_set'[d] = write_set[d] /\ seen'[d] = seen[d]
  BY <1>1, <1>2, EndDropsCheckpoint
<1>5. \A d \in Core : /\ Pending(d) <=> d = c
                      /\ ~Pending(d)'
  BY <1>1, <1>3, <1>4 DEF GInv, GuestInv, Bracketed
<1>6. \A t \in Thread : /\ InFlight(t) <=> pc[t] = "commit" \/ t = on[c]
                        /\ InFlight(t)' <=> pc[t] = "commit"
  BY <1>1, <1>5 DEF InFlight, Pending
<1>7. InFlight(on[c]) /\ ~InFlight(on[c])'
  BY <1>1, <1>2, <1>3, <1>6 DEF Inside
<1>8. /\ \A t \in Thread \ {on[c]} : Committed(t)' = Committed(t)
      /\ Committed(on[c])' = Committed(on[c]) + 1
      /\ Committed(on[c])' \in 0 .. Rounds
  <2>1. regs[on[c]].left \in 0 .. Rounds /\ Rounds \in Nat
    BY <1>2, GuestAssumption DEF Registers
  <2> QED
    BY <1>1, <1>6, <1>7, <2>1 DEF Committed
<1>9. CounterIn(mem') = CounterIn(mem) + 1
  <2>1. /\ CounterWord \in DOMAIN seen[c] \cap DOMAIN write_set[c]
        /\ CounterIn(write_set[c]) = CounterIn(seen[c]) + 1
    BY <1>3, <1>7 DEF GInv, Counting, Progress
  <2>2. seen[c][CounterWord] = mem[CounterWord]
    BY <1>2, <1>3, <2>1 DEF IInv, Opacity
  <2>3. mem'[CounterWord] = write_set[c][CounterWord]
    BY <1>1, <1>2, <2>1, CounterFacts DEF CommitWrites, IInv, TypeOK
  <2> QED
    BY <2>1, <2>2, <2>3 DEF CounterIn, CounterWord
<1>10. Cardinality(CommittedBlocks)' = Cardinality(CommittedBlocks) + 1
  <2> DEFINE b == <<on[c], Committed(on[c]) + 1>>
  <2>1. \A t \in Thread : Committed(t) \in 0 .. Rounds
    BY <1>2 DEF IncrementsCounted
  <2>2. b \in Blocks \ CommittedBlocks
    BY <1>2, <1>8, <2>1, GuestAssumption DEF Blocks, CommittedBlocks
  <2>3. CommittedBlocks' = CommittedBlocks \cup {b}
    <3>1. ASSUME NEW x \in Blocks
          PROVE  x[2] <= Committed(x[1])' <=> x[2] <= Committed(x[1]) \/ x = b
      <4>1. x[1] \in Thread /\ x[2] \in 1 .. Rounds /\ x = <<x[1], x[2]>>
        BY <3>1 DEF Blocks
      <4>2. CASE x[1] = on[c]
        <5>1. Committed(on[c]) \in Nat /\ Rounds \in Nat
          BY <1>2, <2>1, GuestAssumption
        <5> QED
          BY <1>1, <1>8, <4>1, <4>2, <5>1
      <4>3. CASE x[1] # on[c]
        BY <1>1, <1>8, <4>1, <4>3
      <4> QED
        BY <4>2, <4>3
    <3> QED
      BY <2>2, <3>1 DEF CommittedBlocks, Blocks
  <2>4. CommittedBlocks \subseteq Blocks
    BY DEF CommittedBlocks
  <2>5. IsFiniteSet(CommittedBlocks)
    BY <2>4, BlocksFinite, FS_Subset
  <2> HIDE DEF b
  <2> QED
    BY <2>2, <2>3, <2>5, FS_AddElement
<1>11. IncrementsCounted'
  <2>1. \A t \in Thread : Committed(t)' \in 0 .. Rounds
    BY <1>1, <1>2, <1>8 DEF IncrementsCounted
  <2>2. CounterIn(mem)' = Cardinality(CommittedBlocks)'
    BY <1>2, <1>9, <1>10 DEF IncrementsCounted, CounterIn
  <2> QED
    BY <2>1, <2>2 DEF IncrementsCounted
<1>12. ASSUME NEW d \in Core \ {c} PROVE Checkpointed(d)' /\ Progress(d)'
  <2>1. InFlight(on[d])' <=> InFlight(on[d])
    BY <1>1, <1>2, <1>6
  <2> QED
    BY <1>1, <1>4, <2>1, CoreSame DEF GInv
<1> QED
  BY <1>1, <1>2, <1>4, <1>11, <1>12 DEF GInv, Counting

\* The abort gives the thread back the rounds left of its checkpoint.
LEMMA CountingAborted ==
    ASSUME GInv, GuestInv', NEW c \in Core, GuestAborted(c)
    PROVE  Counting'
<1>1. /\ Delivered(c, "abort_transaction_idx")
      /\ posted' = Taken(c, "abort_transaction_idx")
      /\ UNCHANGED <<mem, on>>
  BY DEF GuestAborted, AbortTransactionIdx
<1>2. /\ regs \in [Thread -> Registers] /\ DOMAIN saved = Core
      /\ pc \in [Thread -> Places]
      /\ IncrementsCounted /\ IInv
      /\ \A d \in Core : on[d] \in Thread /\ (on[d] = on[c] => d = c)
  BY DEF GInv, GuestInv, GuestType, Counting
<1>3. Doomed(c) /\ ~Pending(c)
  BY <1>1 DEF Delivered, Doomed, GInv, GuestInv, Bracketed
<1>4. \A d \in Core : Pending(d)' <=> Pending(d)
  BY <1>1, CallbackTaken, CallbackNames DEF GInv, Pending
<1>5. CASE ~Running(c)
  <2>1. UNCHANGED <<mStatus, write_set, seen, pc, regs, saved>>
    BY <1>5 DEF GuestAborted, AbortTransactionIdx, transaction, trace
  <2>2. \A t \in Thread : InFlight(t)' <=> InFlight(t)
    BY <1>1, <1>4, <2>1 DEF InFlight, Pending
  <2>3. \A t \in Thread : Committed(t)' = Committed(t)
    BY <2>1, <2>2 DEF Committed
  <2>4. \A d \in Core : Checkpointed(d)' /\ Progress(d)'
    BY <1>1, <1>2, <2>1, <2>2, CoreSame DEF GInv
  <2> QED
    BY <1>1, <2>1, <2>3, <2>4, CountSame DEF GInv, Counting
<1>6. CASE Running(c)
  <2>1. /\ Emptied(c) /\ saved' = [saved EXCEPT ![c] = Kept(c)]
        /\ pc' = [pc EXCEPT ![on[c]] = "begin"]
        /\ regs' = [regs EXCEPT ![on[c]] = saved[c][1]]
    BY <1>6 DEF GuestAborted, AbortTransactionIdx
  <2>2. /\ saved[c][1] \in Registers
        /\ saved[c][1].left = Rounds - Committed(on[c])
    BY <1>6 DEF GInv, Counting, Checkpointed
  <2>3. /\ ~Running(c)' /\ DOMAIN saved' = Core
        /\ Checkpointed(c)' /\ Progress(c)'
        /\ \A d \in Core \ {c} : /\ mStatus'[d] = mStatus[d] /\ saved'[d] = saved[d]
                                 /\ write_set'[d] = write_set[d] /\ seen'[d] = seen[d]
    BY <1>2, <2>1, EndDropsCheckpoint
  <2>4. /\ regs' \in [Thread -> Registers] /\ regs'[on[c]] = saved[c][1]
        /\ pc'[on[c]] = "begin"
        /\ \A t \in Thread \ {on[c]} : pc'[t] = pc[t] /\ regs'[t] = regs[t]
    BY <1>2, <2>1, <2>2
  <2>5. \A t \in Thread \ {on[c]} : InFlight(t)' <=> InFlight(t)
    BY <1>1, <1>4, <2>4 DEF InFlight, Pending
  <2>6. ~InFlight(on[c])'
    BY <1>1, <1>2, <1>3, <1>4, <2>4 DEF InFlight, Pending
  <2>7. /\ Committed(on[c]) \in 0 .. Rounds
        /\ Rounds \in Nat /\ regs[on[c]].left \in Nat
    BY <1>2, GuestAssumption DEF IncrementsCounted, Registers
  <2>8. \A t \in Thread : Committed(t)' = Committed(t)
    <3>1. Committed(on[c])' = Committed(on[c])
      BY <1>1, <2>2, <2>4, <2>6, <2>7 DEF Committed
    <3> QED
      BY <1>1, <2>4, <2>5, <3>1 DEF Committed
  <2>9. regs'[on[c]].left > 0
    <3>1. Committed(on[c]) < Rounds
      <4>1. CASE InFlight(on[c])
        BY <2>7, <4>1 DEF Committed
      <4>2. CASE ~InFlight(on[c])
        <5>1. pc[on[c]] \in {"load", "store"}
          BY <1>2, <1>3, <1>6, <4>2 DEF GInv, GuestInv, Bracketed, Inside, InFlight
        <5>2. regs[on[c]].left > 0
          BY <1>2, <5>1 DEF GInv, Counting
        <5> QED
          BY <2>7, <4>2, <5>2 DEF Committed
      <4> QED
        BY <4>1, <4>2
    <3> QED
      BY <2>2, <2>4, <2>7, <3>1
  <2>10. ASSUME NEW d \in Core \ {c} PROVE Checkpointed(d)' /\ Progress(d)'
    <3>1. /\ pc'[on[d]] = pc[on[d]] /\ regs'[on[d]] = regs[on[d]]
          /\ InFlight(on[d])' <=> InFlight(on[d])
      BY <1>1, <1>2, <2>4, <2>5
    <3> QED
      BY <1>1, <2>3, <3>1, CoreSame DEF GInv
  <2>11. IncrementsCounted'
    BY <1>1, <1>2, <2>8, CountSame
  <2> QED
    BY <2>3, <2>4, <2>9, <2>10, <2>11 DEF GInv, Counting
<1> QED
  BY <1>5, <1>6

\* A switch outside a transaction.
LEMMA CountingSwitch ==
    ASSUME ~SwitchInside, GInv, NEW c \in Core, NEW t \in Thread, Switch(c, t)
    PROVE  Counting'
<1>1. /\ Executes(c) /\ ~Running(c)
      /\ on' = [on EXCEPT ![c] = t]
      /\ UNCHANGED <<mem, mStatus, write_set, seen, posted, pc, regs, saved>>
  BY DEF Switch, OtherInstruction, transaction, trace
<1>2. \A u \in Thread : InFlight(u)' <=> InFlight(u)
  BY <1>1, Executing DEF GInv, InFlight, Pending
<1>3. \A u \in Thread : Committed(u)' = Committed(u)
  BY <1>1, <1>2 DEF Committed
<1>4. ASSUME NEW d \in Core PROVE Checkpointed(d)' /\ Progress(d)'
  <2>1. CASE d = c
    BY <1>1, <2>1 DEF GInv, Counting, Checkpointed, Progress, Running
  <2>2. CASE d # c
    <3>1. on'[d] = on[d] /\ on[d] \in Thread
      BY <1>1, <2>2 DEF GInv, GuestInv, GuestType
    <3> QED
      BY <1>1, <1>2, <3>1, CoreSame DEF GInv
  <2> QED
    BY <2>1, <2>2
<1> QED
  BY <1>1, <1>3, <1>4, CountSame DEF GInv, Counting

-----------------------------------------------------------------------------
(* The program as a guest of the module.                                   *)

\* Its steps are steps of the module: what it stores is a byte, because it
\* counts no further than there are blocks.
LEMMA GuestIsModule == GInv /\ [GuestNext]_guestVars => [Next]_vars
<1> SUFFICES ASSUME GInv, [GuestNext]_guestVars PROVE [Next]_vars
  OBVIOUS
<1>1. /\ Counter \in Loads /\ Counter \in Stores
      /\ "vanilla" \in LoadTypes /\ "vanilla" \in StoreTypes
  BY GuestAssumption
<1>2. CASE UNCHANGED guestVars
  BY <1>2 DEF guestVars
<1>3. CASE \E c \in Core : GuestInstruction(c)
  <2>1. PICK c \in Core : GuestInstruction(c)
    BY <1>3
  <2>2. CASE GuestStore(c, on[c])
    BY <1>1, <2>2, StoresInside, StoresByte DEF GInv, GuestStore, Next, Instruction
  <2>3. CASE GuestLoad(c, on[c])
    BY <1>1, <2>3, LoadsInside DEF GInv, Next, Instruction
  <2>4. CASE GuestBegin(c, on[c]) \/ GuestCommit(c, on[c])
    BY <2>4 DEF GuestBegin, GuestCommit, Next, Instruction
  <2> QED
    BY <2>1, <2>2, <2>3, <2>4 DEF GuestInstruction
<1>4. CASE \E c \in Core : GuestCallback(c)
  BY <1>4 DEF GuestCallback, GuestCommitted, GuestAborted, Next, Callbacks
<1>5. CASE \E c \in Core : Rescheduled(c)
  BY <1>5 DEF Rescheduled, Switch, Next, Instruction
<1> QED
  BY <1>2, <1>3, <1>4, <1>5 DEF GuestNext

LEMMA CountingStep ==
    TracedGuest /\ ~SwitchInside /\ GInv /\ GuestInv' /\ [GuestNext]_guestVars => Counting'
<1> SUFFICES ASSUME TracedGuest, ~SwitchInside, GInv, GuestInv', [GuestNext]_guestVars
             PROVE  Counting'
  OBVIOUS
<1>1. ASSUME UNCHANGED <<mem, mStatus, write_set, seen, posted, on, pc, regs, saved>>
      PROVE  Counting'
  <2>1. \A t \in Thread : (InFlight(t)' <=> InFlight(t)) /\ Committed(t)' = Committed(t)
    BY <1>1 DEF InFlight, Committed
  <2>2. \A d \in Core : Checkpointed(d)' /\ Progress(d)'
    BY <1>1, <2>1, CoreSame DEF GInv, GuestInv, GuestType
  <2> QED
    BY <1>1, <2>1, <2>2, CountSame DEF GInv, Counting
<1>2. CASE UNCHANGED guestVars
  BY <1>1, <1>2 DEF guestVars, vars, transaction, trace
<1>3. ASSUME NEW c \in Core, GuestLoad(c, on[c]), on' = on PROVE Counting'
  <2>1. CASE LoadStalls(c, Counter) /\ UNCHANGED <<pc, regs>>
    BY <1>1, <1>3, <2>1 DEF GuestLoad, LoadStalls, transaction, trace
  <2> QED
    BY <1>3, <2>1, LoadsInside, CountingLoad DEF GInv
<1>4. ASSUME NEW c \in Core, GuestInstruction(c) PROVE Counting'
  BY <1>3, <1>4, CountingBegin, CountingStore, CountingCommit DEF GuestInstruction
<1>5. ASSUME NEW c \in Core, GuestCallback(c) PROVE Counting'
  BY <1>5, CountingCommitted, CountingAborted DEF GuestCallback
<1>6. ASSUME NEW c \in Core, Rescheduled(c) PROVE Counting'
  BY <1>6, CountingSwitch DEF Rescheduled
<1> QED
  BY <1>2, <1>4, <1>5, <1>6 DEF GuestNext

LEMMA CountingInitial == StartsNotOn /\ GuestInit => Counting
<1> SUFFICES ASSUME StartsNotOn, GuestInit PROVE Counting
  OBVIOUS
<1>1. /\ mem = [w \in Words |-> [l \in Lane |-> 0]]
      /\ on \in [Core -> Thread] /\ pc = [t \in Thread |-> "begin"]
      /\ regs = [t \in Thread |-> [value |-> 0, left |-> Rounds]]
      /\ saved = [c \in Core |-> <<>>]
      /\ posted = [c \in Core |-> [cb \in Callback |-> 0]]
      /\ write_set = [c \in Core |-> NoWrites] /\ seen = [c \in Core |-> Fresh]
  BY DEF GuestInit, Init
<1>2. Rounds \in Nat \ {0} /\ regs \in [Thread -> Registers]
  BY <1>1, GuestAssumption DEF Registers
<1>3. \A t \in Thread : ~InFlight(t) /\ Committed(t) = 0
  BY <1>1, <1>2, CallbackNames DEF InFlight, Committed
<1>4. IncrementsCounted
  <2>1. CommittedBlocks = {}
    BY <1>2, <1>3 DEF CommittedBlocks, Blocks
  <2>2. CounterIn(mem) = 0
    BY <1>1, CounterFacts DEF CounterIn, CounterWord
  <2>3. Cardinality(CommittedBlocks) = 0
    BY <2>1, FS_EmptySet
  <2> QED
    BY <1>2, <1>3, <2>2, <2>3 DEF IncrementsCounted
<1>5. ASSUME NEW c \in Core PROVE Checkpointed(c) /\ Progress(c)
  <2>1. ~Running(c)
    BY GuestInitial DEF GuestInit, Init, StartsNotOn, Running
  <2> QED
    BY <1>1, <2>1 DEF Checkpointed, Progress
<1> QED
  BY <1>1, <1>2, <1>4, <1>5 DEF Counting

LEMMA GInvInit == StartsNotOn /\ GuestInit => GInv
<1> SUFFICES ASSUME StartsNotOn, GuestInit PROVE GInv
  OBVIOUS
<1>1. IInv /\ Init
  BY IInvInit DEF GuestInit
<1>2. OneCheckpoint
  BY <1>1 DEF Init, OneCheckpoint, StartsNotOn, Running
<1> QED
  BY <1>1, <1>2, GuestInitial, CountingInitial DEF GInv

LEMMA GInvStep ==
    TracedGuest /\ ~SwitchInside /\ GInv /\ [GuestNext]_guestVars => GInv' /\ [Next]_vars
<1> SUFFICES ASSUME TracedGuest, ~SwitchInside, GInv, [GuestNext]_guestVars
             PROVE  GInv' /\ [Next]_vars
  OBVIOUS
<1>1. [Next]_vars
  BY GuestIsModule
<1>2. IInv'
  BY <1>1, IInvStep DEF GInv
<1>3. OneCheckpoint'
  BY <1>1, OneCheckpointStep DEF GInv, IInv
<1>4. GuestInv'
  BY GuestStep DEF GInv
<1>5. Counting'
  BY <1>4, CountingStep
<1> QED
  BY <1>1, <1>2, <1>3, <1>4, <1>5 DEF GInv

\* The shared counter ends up counting the committed blocks, whatever the
\* threads and the rounds are and however the blocks abort each other, if the
\* kernel switches threads outside transactions only (controller.cpp:57-131,
\* transaction.cpp:300-391).
THEOREM IncrementsCountedHolds ==
    TracedGuest /\ StartsNotOn /\ ~SwitchInside => (GuestSpec => []IncrementsCounted)
<1> SUFFICES ASSUME TracedGuest, StartsNotOn, ~SwitchInside
             PROVE  GuestSpec => []IncrementsCounted
  OBVIOUS
<1>1. GuestInit => GInv
  BY GInvInit
<1>2. GInv /\ [GuestNext]_guestVars => GInv'
  BY GInvStep
<1>3. GInv => IncrementsCounted
  BY DEF GInv, Counting
<1> QED
  BY <1>1, <1>2, <1>3, PTL DEF GuestSpec

\* The program is a guest of Transmem: what holds of the module under any
\* guest holds of it (transmem.c:50-92).
THEOREM GuestOfTheModule ==
    TracedGuest /\ StartsNotOn /\ ~SwitchInside => (GuestSpec => Spec)
<1> SUFFICES ASSUME TracedGuest, StartsNotOn, ~SwitchInside PROVE GuestSpec => Spec
  OBVIOUS
<1>1. GuestInit => Init /\ GInv
  BY GInvInit DEF GuestInit
<1>2. GInv /\ [GuestNext]_guestVars => GInv' /\ [Next]_vars
  BY GInvStep
<1> QED
  BY <1>1, <1>2, PTL DEF GuestSpec, Spec
==============================================================================
