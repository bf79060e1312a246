-------------------------- MODULE TransmemTelemetry --------------------------
(***************************************************************************)
(* The transactional memory module together with its telemetry: where in   *)
(* the hooks of Transmem the calls of Telemetry are made.                  *)
(*                                                                         *)
(* A call is made in the middle of a hook, and the hook, and with it the   *)
(* whole simulation, goes on only when it has returned; so a hook that     *)
(* makes one is one step, and no hook starts before the call is over.      *)
(***************************************************************************)
EXTENDS Telemetry

CONSTANTS
    Byte, IntLimit, Words, Loads, Stores, Modes, LoadTypes, StoreTypes,
    InitialStatus, ReleaseVars, LogicalToPhysical(_), MaxPosted, MaxReturns

VARIABLES
    mem, mStatus, nesting, mPauseDepth, mLastLoad, registers,
    read_set, write_set, posted, current, failed, seen, stored

Module == INSTANCE Transmem

moduleVars == <<mem, mStatus, nesting, mPauseDepth, mLastLoad, registers,
                read_set, write_set, posted, current, failed, seen, stored>>
reportingVars == <<vars, moduleVars>>

ReportingInit == Init /\ Module!Init

-----------------------------------------------------------------------------
Running == {c \in Core : Module!Running(c)}

Reports(c, type) ==
    /\ Operate(c, type)
    /\ running' = Running'

Silent == call = "none" /\ UNCHANGED vars

\* Only a TX_BEGIN that starts a transaction is reported.
ReportingBegin(c) ==
    /\ Module!BeginTransaction(c)
    /\ IF nesting[c] = 0 THEN Reports(c, MemOp.BEGIN) /\ UNCHANGED stray ELSE Silent

\* The commit callback reports, whether or not it found a transaction.
ReportingCommit(c) ==
    /\ Module!CommitTransactionIdx(c)
    /\ Reports(c, MemOp.COMMIT)
    /\ stray' = IF Module!Running(c) THEN stray ELSE stray + 1

\* Mutant: the abort callback reports before it looks for a transaction.
ReportingAbortAlways(c) ==
    /\ Module!AbortTransactionIdx(c)
    /\ Reports(c, MemOp.ABORT)
    /\ UNCHANGED stray

\* The abort callback of a transaction that is over reports nothing.
ReportingAbort(c) ==
    /\ Module!AbortTransactionIdx(c)
    /\ IF Module!Running(c) THEN Reports(c, MemOp.ABORT) /\ UNCHANGED stray ELSE Silent

\* TX_INFO does nothing else.
ReportingDump(c) ==
    /\ Module!OtherInstruction(c)
    /\ Reports(c, MemOp.INFO)
    /\ UNCHANGED stray

\* The other hooks.
Unreported(c) ==
    /\ \/ Module!CommitTransaction(c)
       \/ Module!AbortTransaction(c)
       \/ \E var \in ReleaseVars : Module!EarlyRelease(c, var)
       \/ \E acc \in Loads : Module!LoadStalls(c, acc)
       \/ \E acc \in Loads, type \in LoadTypes : Module!Load(c, acc, type)
       \/ \E acc \in Stores, type \in StoreTypes :
             \E data \in Module!StoreData(acc) : Module!Store(c, acc, data, type)
       \/ \E acc \in Stores, mode \in Modes :
             \E data \in Module!StoreData(acc) : Module!PlainStore(c, acc, data, mode)
       \/ Module!CoreExceptionReturn(c)
       \/ Module!CoreBreakpoint(c)
       \/ Module!OtherInstruction(c)
       \/ Module!AbortRequested(c)
    /\ Silent

Hook(c) ==
    \/ ReportingBegin(c) \/ ReportingCommit(c) \/ ReportingAbort(c)
    \/ ReportingDump(c) \/ Unreported(c)

ReportingNext ==
    \/ \E c \in Core : Hook(c)
    \/ (Calls \/ Serves) /\ UNCHANGED moduleVars

ReportingSpec ==
    /\ ReportingInit /\ [][ReportingNext]_reportingVars
    /\ WF_reportingVars(Calls /\ UNCHANGED moduleVars)
    /\ WF_reportingVars(Process /\ UNCHANGED moduleVars)

-----------------------------------------------------------------------------
\* The events the module reports are those of a module whose cores begin and
\* end transactions one at a time: a transaction that began is reported to end
\* once, by a commit or by an abort, whichever callbacks are posted for it, and
\* none is reported to end that did not begin, other than by TX_COMMIT
\* (controller.cpp:99-131, transaction.cpp:61-87, 146, 153).
ImplementsTelemetry == Spec
==============================================================================
