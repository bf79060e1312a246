------------------------------ MODULE Telemetry ------------------------------
(***************************************************************************)
(* The event stream from the module to the statistics server: the calls of *)
(* Transaction (transaction.cpp:75, 146, 153) and DumpStats through        *)
(* Thrift_Client, the generated stubs (Thrift), and the handler of         *)
(* JavaServer.                                                             *)
(*                                                                         *)
(* A call is made inside a hook and waits for the answer, so the           *)
(* simulation stands still until it returns.  The transport is opened      *)
(* once, in the constructor; an exception of a call is printed and the     *)
(* call returns.                                                           *)
(***************************************************************************)
EXTENDS Thrift, SequencesExt

CONSTANTS
    Core,
    Interfaces, \* the sets of methods that servers may have been built with
    MaxEvents   \* bound: events of one behaviour

ASSUME TelemetryAssumption ==
    /\ IsFiniteSet(Core)
    /\ Interfaces \subseteq SUBSET Methods \ {{}}
    /\ MaxEvents \in Nat

VARIABLES
    running,    \* the cores whose mStatus is TRANS_ON
    call,       \* where the call in progress is: "none", "send", "recv"
    link,       \* the client's transport: "open", "closed" or "reset" by a
                \* server that has gone
    wire,       \* the message on the connection
    server,     \* the methods of the server that runs
    depth, commit, abort,   \* the handler's counters
    happened,   \* history: the events in the order in which calls were made
    counted,    \* history: the events that the handler counted
    confirmed,  \* history: how many calls returned without an exception
    stray       \* history: commits without a transaction

client == <<running, happened, stray>>
handler == <<depth, commit, abort, counted>>
vars == <<client, confirmed, call, link, wire, server, handler>>

NoServer == {}
\* A message on its way is the nr-th call's; the protocol does not say so.
Carried(to, message, nr) == [to |-> to, message |-> message, nr |-> nr]
Nothing == [to |-> "nobody"]

\* The constructor of Thrift_Client only prints when nobody listens.
Init ==
    /\ running = {}
    /\ call = "none"
    /\ server \in Interfaces \cup {NoServer}
    /\ link = IF server = NoServer THEN "closed" ELSE "open"
    /\ wire = Nothing
    /\ depth = 0 /\ commit = 0 /\ abort = 0
    /\ happened = <<>>
    /\ counted = <<>>
    /\ confirmed = 0
    /\ stray = 0

-----------------------------------------------------------------------------
(* The module.                                                             *)

\* The work of an event; the cycle count in addr is only printed.
Event(c, type) == [cpuid |-> c, type |-> type, addr |-> 0]

Operate(c, type) ==
    /\ call = "none"
    /\ Len(happened) < MaxEvents
    /\ call' = "send"
    /\ happened' = Append(happened, Event(c, type))
    /\ UNCHANGED <<link, wire, server, handler, confirmed>>

BeginTransaction(c) ==
    /\ c \notin running
    /\ Operate(c, MemOp.BEGIN)
    /\ running' = running \cup {c}
    /\ UNCHANGED stray

\* Also when TX_COMMIT finds no transaction.
CommitTransaction(c) ==
    /\ Operate(c, MemOp.COMMIT)
    /\ running' = running \ {c}
    /\ stray' = IF c \in running THEN stray ELSE stray + 1

AbortTransaction(c) ==
    /\ c \in running
    /\ Operate(c, MemOp.ABORT)
    /\ running' = running \ {c}
    /\ UNCHANGED stray

\* TX_INFO.
DumpStats(c) ==
    /\ Operate(c, MemOp.INFO)
    /\ UNCHANGED <<running, stray>>

-----------------------------------------------------------------------------
(* The call.                                                               *)

\* The request leaves; towards a server that has gone it is lost.
SendOperate ==
    /\ call = "send" /\ link # "closed"
    /\ call' = "recv"
    /\ wire' = IF link = "open"
               THEN Carried("server", Call(Last(happened)), Len(happened))
               ELSE Nothing
    /\ UNCHANGED <<client, confirmed, link, server, handler>>

\* Mutant: an exception is thrown before the rest of the answer is read.
RecvOperateLeaves ==
    /\ call = "recv" /\ wire.to = "client"
    /\ call' = "none"
    /\ wire' = IF RecvReturns(wire.message) THEN Nothing ELSE wire
    /\ confirmed' = IF RecvReturns(wire.message) THEN confirmed + 1 ELSE confirmed
    /\ UNCHANGED <<client, link, server, handler>>

\* The answer is read to its end, whether it is a reply or an exception, which
\* is caught.
RecvOperate ==
    /\ call = "recv" /\ wire.to = "client"
    /\ call' = "none"
    /\ wire' = Nothing
    /\ confirmed' = IF RecvReturns(wire.message) THEN confirmed + 1 ELSE confirmed
    /\ UNCHANGED <<client, link, server, handler>>

\* Where the transport throws: nobody to send to, or nobody left to answer.
Throws == \/ call = "send" /\ link = "closed"
          \/ call = "recv" /\ link = "reset" /\ wire = Nothing

\* Mutants: the client connects again; an answer is waited for for ever.
OperateFailsReopens ==
    /\ Throws
    /\ call' = "none"
    /\ link' = IF server = NoServer THEN "closed" ELSE "open"
    /\ UNCHANGED <<client, confirmed, wire, server, handler>>
OperateFailsToSend ==
    /\ call = "send" /\ link = "closed"
    /\ call' = "none"
    /\ UNCHANGED <<client, confirmed, link, wire, server, handler>>

\* The exception is caught and the event forgotten.
OperateFails ==
    /\ Throws
    /\ call' = "none"
    /\ UNCHANGED <<client, confirmed, link, wire, server, handler>>

-----------------------------------------------------------------------------
(* The server.                                                             *)

\* Mutant: an abort does not leave the depth.
CountForgetsAbort(type) ==
    /\ depth' = CASE type = MemOp.BEGIN -> depth + 1
                  [] type = MemOp.COMMIT -> depth - 1
                  [] OTHER -> depth
    /\ commit' = IF type = MemOp.COMMIT THEN commit + 1 ELSE commit
    /\ abort' = IF type = MemOp.ABORT THEN abort + 1 ELSE abort

\* The handler's switch; its default does nothing.
Count(type) ==
    /\ depth' = CASE type = MemOp.BEGIN -> depth + 1
                  [] type \in {MemOp.COMMIT, MemOp.ABORT} -> depth - 1
                  [] OTHER -> depth
    /\ commit' = IF type = MemOp.COMMIT THEN commit + 1 ELSE commit
    /\ abort' = IF type = MemOp.ABORT THEN abort + 1 ELSE abort

\* The server reads a message, calls the handler and answers.
Process ==
    /\ link = "open" /\ wire.to = "server"
    /\ IF wire.message.name \in server
       THEN LET work == ReadArgs(wire.message.body)
            IN  Count(work.type) /\ counted' = Append(counted, work)
       ELSE UNCHANGED handler
    /\ wire' = Carried("client", Answer(wire.message, server), wire.nr)
    /\ UNCHANGED <<client, confirmed, call, link, server>>

\* The process ends, maybe with an answer under way; its counters end with it.
ServerStops ==
    /\ server # NoServer
    /\ server' = NoServer
    /\ link' = IF link = "open" THEN "reset" ELSE link
    /\ wire' \in {Nothing} \cup (IF wire.to = "client" THEN {wire} ELSE {})
    /\ depth' = 0 /\ commit' = 0 /\ abort' = 0
    /\ UNCHANGED <<client, confirmed, call, counted>>

\* A server is started, maybe one built with another interface.
ServerStarts ==
    /\ server = NoServer
    /\ server' \in Interfaces
    /\ UNCHANGED <<client, confirmed, call, link, wire, handler>>

Calls == SendOperate \/ RecvOperate \/ OperateFails
Serves == Process \/ ServerStops \/ ServerStarts

Next ==
    \/ \E c \in Core : \/ BeginTransaction(c) \/ CommitTransaction(c)
                       \/ AbortTransaction(c) \/ DumpStats(c)
    \/ Calls \/ Serves

\* The client runs on, and a server that runs serves; none has to stop or to
\* be started.
Fairness == WF_vars(Calls) /\ WF_vars(Process)

Spec == Init /\ [][Next]_vars /\ Fairness

-----------------------------------------------------------------------------
\* The handler can count what is sent over this link.
Served == link = "open" /\ "operate" \in server

\* The handler counts the events exactly once and in order, as they were sent,
\* and what it misses are the last ones: after the first failure none is
\* counted, by any server, because the transport is never opened again
\* (thrift_client.cpp:16-22, 37-41, simple_types.cpp:71-86).
CountedInOrder ==
    /\ IsPrefix(counted, happened)
    /\ Served /\ call = "none" => counted = happened

\* Between two calls of a link that has held, the printed depth is the number
\* of running transactions, off by the commits that ended none
\* (JavaServer.java:34-38, transaction.cpp:146).
DepthTracksRunning ==
    Served /\ call = "none" => depth + stray = Cardinality(running)

\* A call takes no other call's answer, although all calls carry the same
\* sequence number: whatever the connection holds is of the call in progress,
\* and nothing is left when it returns (MemoryHierarchy.cpp:330-377).
AnswersBelong ==
    wire # Nothing => call = "recv" /\ wire.nr = Len(happened)

\* A call that returns without an exception was counted: neither a server that
\* does not know the method nor one that has gone passes for one that counted
\* (MemoryHierarchy.cpp:351-370, MemoryHierarchy.java:139-155).
ConfirmedAreCounted ==
    /\ confirmed <= Len(counted)
    /\ Served /\ call = "none" => confirmed = Len(counted)

\* No server, running, stopped or restarted, holds up the simulation for ever
\* (thrift_client.cpp:31-42, MemoryHierarchy.cpp:324-377).
CallsReturn == call # "none" ~> call = "none"
==============================================================================
