--------------------------- MODULE TelemetryProofs ---------------------------
(***************************************************************************)
(* Theorems about Telemetry: what the server counts, for any number of     *)
(* cores and events, whichever servers run, stop and start again.          *)
(* Then about the module's own reports (TransmemTelemetry): they are such  *)
(* events, so the same holds of what the server counts of the module.      *)
(***************************************************************************)
EXTENDS TransmemTelemetry, FiniteSetTheorems, TLAPS

-----------------------------------------------------------------------------
(* The stubs.                                                              *)

EventTypes == {MemOp.BEGIN, MemOp.COMMIT, MemOp.ABORT, MemOp.INFO}
Events == {Event(c, type) : c \in Core, type \in EventTypes}

\* A field that occurs once is the one that is read.
LEMMA ReadFieldOnce ==
    ASSUME NEW struct, DOMAIN struct \subseteq Nat, NEW i \in DOMAIN struct, NEW initially,
           \A j \in DOMAIN struct : struct[j].id = struct[i].id => j = i
    PROVE  ReadField(struct, struct[i].id, struct[i].ftype, initially) = struct[i].value
<1> DEFINE hits == {j \in DOMAIN struct : /\ struct[j].id = struct[i].id
                                          /\ struct[j].ftype = struct[i].ftype}
<1>1. hits = {i}
  OBVIOUS
<1>2. (CHOOSE j \in hits : \A k \in hits : k <= j) = i
  <2>1. i <= i
    OBVIOUS
  <2> QED
    BY <1>1, <2>1
<1> QED
  BY <1>1, <1>2 DEF ReadField

\* What the client writes the server reads.
LEMMA RoundTrip ==
    ASSUME NEW c, NEW type
    PROVE  ReadArgs(WriteArgs(Event(c, type))) = Event(c, type)
<1> DEFINE work == Event(c, type)
           fields == WriteWork(work)
<1>1. /\ fields = <<Field(1, "I32", c), Field(2, "I32", type), Field(3, "I32", 0)>>
      /\ DOMAIN fields = 1 .. 3
  BY DEF WriteWork, Event
<1>2. /\ fields[1] = [id |-> 1, ftype |-> "I32", value |-> c]
      /\ fields[2] = [id |-> 2, ftype |-> "I32", value |-> type]
      /\ fields[3] = [id |-> 3, ftype |-> "I32", value |-> 0]
  BY <1>1 DEF Field
<1> HIDE DEF fields
<1>3. /\ ReadField(fields, 1, "I32", 0) = c
      /\ ReadField(fields, 2, "I32", 0) = type
      /\ ReadField(fields, 3, "I32", 0) = 0
  <2>1. ASSUME NEW i \in 1 .. 3 PROVE fields[i].id = i /\ fields[i].ftype = "I32"
    BY <1>2, <2>1
  <2>2. ASSUME NEW i \in 1 .. 3 PROVE ReadField(fields, i, "I32", 0) = fields[i].value
    <3>1. ReadField(fields, fields[i].id, fields[i].ftype, 0) = fields[i].value
      BY <1>1, <2>1, ReadFieldOnce
    <3> QED
      BY <2>1, <3>1
  <2> QED
    BY <1>2, <2>2
<1>4. WriteArgs(work) = <<[id |-> 1, ftype |-> "STRUCT", value |-> fields]>>
  BY DEF WriteArgs, Field, fields
<1>5. ReadField(WriteArgs(work), 1, "STRUCT", <<>>) = fields
  <2> DEFINE args == WriteArgs(work)
  <2>1. DOMAIN args = {1} /\ args[1] = [id |-> 1, ftype |-> "STRUCT", value |-> fields]
    BY <1>4
  <2> HIDE DEF args
  <2>2. ReadField(args, args[1].id, args[1].ftype, <<>>) = args[1].value
    BY <2>1, ReadFieldOnce
  <2> QED
    BY <2>1, <2>2 DEF args
<1> QED
  BY <1>3, <1>5 DEF ReadArgs, ReadWork, Event

-----------------------------------------------------------------------------
(* The invariant.                                                          *)

\* The call in progress, what it has put on the connection, and the answer.
Sent == Carried("server", Call(Last(happened)), Len(happened))
Answered(methods) ==
    Carried("client", Answer(Call(Last(happened)), methods), Len(happened))
CallOK ==
    /\ call \in {"none", "send", "recv"}
    /\ call # "none" => Len(happened) > 0
    /\ call # "recv" => wire = Nothing
    /\ call = "recv" =>
          \/ wire = Nothing /\ link = "reset"
          \/ wire = Sent /\ link = "open"
          \/ \E methods \in SUBSET Methods :
                wire = Answered(methods) /\ link # "closed"
                /\ (link = "open" => methods = server)

TelemetryType ==
    /\ running \in SUBSET Core
    /\ link \in {"open", "closed", "reset"}
    /\ server \in SUBSET Methods
    /\ link = "open" => server # NoServer
    /\ happened \in Seq(Events) /\ counted \in Seq(Events)
    /\ depth \in Int /\ confirmed \in Nat /\ stray \in Nat

\* The last event has not reached the handler yet.
Pending == call = "send" \/ wire.to = "server"
\* What it will do to the depth.
Effect(type) == IF type = MemOp.BEGIN THEN 1 ELSE IF type = MemOp.INFO THEN 0 ELSE -1
Owed == IF Pending THEN Effect(Last(happened).type) ELSE 0

\* What a handler that can count has counted, between the steps of a call too.
CountOK ==
    /\ Len(counted) <= Len(happened)
    /\ \A i \in 1 .. Len(counted) : counted[i] = happened[i]
    /\ Served => happened = IF Pending THEN Append(counted, Last(happened)) ELSE counted
    /\ Served => depth + stray + Owed = Cardinality(running)

\* What the client may still hear about.
ConfirmOK ==
    /\ confirmed + (IF wire.to = "client" /\ wire.message.mtype = "REPLY" THEN 1 ELSE 0)
          <= Len(counted)
    /\ Served => confirmed + (IF wire.to = "client" THEN 1 ELSE 0) = Len(counted)

TelInv == TelemetryType /\ CallOK /\ CountOK /\ ConfirmOK

\* What can be on the connection.
LEMMA WireFacts ==
    /\ Nothing.to = "nobody"
    /\ Sent.to = "server" /\ Sent.nr = Len(happened)
    /\ Sent.message = Call(Last(happened)) /\ Sent.message.name = "operate"
    /\ \A methods : /\ Answered(methods).to = "client"
                    /\ Answered(methods).nr = Len(happened)
                    /\ Answered(methods).message.name = "operate"
                    /\ Answered(methods).message.mtype =
                          IF "operate" \in methods THEN "REPLY" ELSE "EXCEPTION"
BY DEF Nothing, Sent, Answered, Carried, Call, Answer

LEMMA EventTyped ==
    ASSUME happened \in Seq(Events), Len(happened) > 0
    PROVE  Last(happened) \in Events
BY DEF Last

LEMMA InitTelInv == Init => TelInv
<1> SUFFICES ASSUME Init PROVE TelInv
  OBVIOUS
<1>1. /\ Cardinality(running) = 0 /\ running \in SUBSET Core
      /\ happened = <<>> /\ counted = <<>> /\ Len(happened) = 0 /\ Len(counted) = 0
      /\ happened \in Seq(Events) /\ counted \in Seq(Events)
      /\ wire = Nothing /\ call = "none"
      /\ depth = 0 /\ stray = 0 /\ confirmed = 0
  BY FS_EmptySet DEF Init
<1>2. /\ server \in SUBSET Methods
      /\ link \in {"open", "closed", "reset"}
      /\ link = "open" => server # NoServer
  BY TelemetryAssumption DEF Init, NoServer
<1>3. TelemetryType /\ CallOK
  BY <1>1, <1>2 DEF TelemetryType, CallOK
<1>4. ~Pending /\ wire.to # "client"
  BY <1>1, WireFacts DEF Pending
<1>5. CountOK /\ ConfirmOK
  BY <1>1, <1>4 DEF CountOK, ConfirmOK, Owed
<1> QED
  BY <1>3, <1>5 DEF TelInv

-----------------------------------------------------------------------------
(* The steps.                                                              *)

LEMMA RunningFinite ==
    ASSUME running \in SUBSET Core
    PROVE  IsFiniteSet(running) /\ Cardinality(running) \in Nat
BY TelemetryAssumption, FS_Subset, FS_CardinalityType

\* A call that starts: the events sent differ by its own, which is pending.
LEMMA OperateStep ==
    ASSUME TelInv, NEW c \in Core, NEW type \in EventTypes, Operate(c, type),
           running' \in SUBSET Core, stray' \in Nat,
           Cardinality(running') = Cardinality(running) + Effect(type) + stray' - stray
    PROVE  TelInv'
<1>1. /\ call = "none" /\ call' = "send"
      /\ happened' = Append(happened, Event(c, type))
      /\ link' = link /\ wire' = wire /\ server' = server /\ counted' = counted
      /\ depth' = depth /\ confirmed' = confirmed
  BY DEF Operate, handler
<1>2. wire = Nothing /\ wire' = Nothing
  BY <1>1 DEF TelInv, CallOK
<1>3. ~Pending /\ Pending' /\ wire.to # "client" /\ wire'.to # "client"
  BY <1>1, <1>2, WireFacts DEF Pending
<1>4. /\ Event(c, type) \in Events /\ Event(c, type).type = type
      /\ happened \in Seq(Events) /\ counted \in Seq(Events)
      /\ Len(happened) \in Nat /\ Len(counted) \in Nat
      /\ depth \in Int /\ confirmed \in Nat /\ stray \in Nat
      /\ running \in SUBSET Core
  BY DEF Events, Event, TelInv, TelemetryType
<1>5. /\ happened' \in Seq(Events) /\ Len(happened') = Len(happened) + 1
      /\ \A i \in 1 .. Len(happened) : happened'[i] = happened[i]
      /\ happened'[Len(happened')] = Event(c, type)
  BY <1>1, <1>4
<1>6. Last(happened') = Event(c, type)
  BY <1>5 DEF Last
<1>7. TelemetryType'
  BY <1>1, <1>4, <1>5 DEF TelInv, TelemetryType
<1>8. CallOK'
  BY <1>1, <1>2, <1>4, <1>5 DEF CallOK
<1>9. CountOK'
  <2>1. Served' <=> Served
    BY <1>1 DEF Served
  <2>2. Len(counted') <= Len(happened') /\ \A i \in 1 .. Len(counted') : counted'[i] = happened'[i]
    BY <1>1, <1>4, <1>5 DEF TelInv, CountOK
  <2>3. Served => happened' = Append(counted', Last(happened'))
    BY <1>1, <1>3, <1>6 DEF TelInv, CountOK
  <2>4. Owed = 0 /\ Owed' = Effect(type)
    BY <1>3, <1>4, <1>6 DEF Owed
  <2>5. Cardinality(running) \in Nat /\ Effect(type) \in Int
    BY <1>4, RunningFinite DEF Effect
  <2>6. Served => depth + stray + 0 = Cardinality(running)
    BY <2>4 DEF TelInv, CountOK
  <2>7. Served => depth' + stray' + Owed' = Cardinality(running')
    BY <1>1, <1>4, <2>4, <2>5, <2>6
  <2> QED
    BY <1>3, <2>1, <2>2, <2>3, <2>7 DEF CountOK
<1>10. ConfirmOK'
  BY <1>1, <1>3, <1>4 DEF TelInv, ConfirmOK, Served
<1> QED
  BY <1>7, <1>8, <1>9, <1>10 DEF TelInv

LEMMA ModuleStep ==
    ASSUME TelInv, NEW c \in Core,
           BeginTransaction(c) \/ CommitTransaction(c) \/ AbortTransaction(c) \/ DumpStats(c)
    PROVE  TelInv'
<1> USE DEF EventTypes
<1>1. running \in SUBSET Core /\ stray \in Nat
  BY DEF TelInv, TelemetryType
<1>2. IsFiniteSet(running) /\ Cardinality(running) \in Nat
  BY <1>1, RunningFinite
<1>3. /\ Effect(MemOp.BEGIN) = 1 /\ Effect(MemOp.COMMIT) = -1
      /\ Effect(MemOp.ABORT) = -1 /\ Effect(MemOp.INFO) = 0
  BY DEF Effect, MemOp
<1>4. /\ c \in running => Cardinality(running \ {c}) = Cardinality(running) - 1
      /\ c \notin running => Cardinality(running \ {c}) = Cardinality(running)
  <2>1. c \notin running => running \ {c} = running
    OBVIOUS
  <2> QED
    BY <1>2, <2>1, FS_RemoveElement
<1>5. CASE BeginTransaction(c)
  <2>1. Cardinality(running') = Cardinality(running) + 1
    BY <1>2, <1>5, FS_AddElement DEF BeginTransaction
  <2> QED
    BY <1>1, <1>2, <1>3, <1>5, <2>1, OperateStep DEF BeginTransaction
<1>6. CASE CommitTransaction(c)
  <2>1. stray' \in Nat /\ running' \in SUBSET Core
    BY <1>1, <1>6 DEF CommitTransaction
  <2>2. Cardinality(running') = Cardinality(running) + (-1) + stray' - stray
    BY <1>1, <1>2, <1>4, <1>6 DEF CommitTransaction
  <2> QED
    BY <1>3, <1>6, <2>1, <2>2, OperateStep DEF CommitTransaction
<1>7. CASE AbortTransaction(c)
  <2>1. Cardinality(running') = Cardinality(running) + (-1) + stray' - stray
    BY <1>1, <1>2, <1>4, <1>7 DEF AbortTransaction
  <2> QED
    BY <1>1, <1>3, <1>7, <2>1, OperateStep DEF AbortTransaction
<1>8. CASE DumpStats(c)
  <2>1. Cardinality(running') = Cardinality(running) + 0 + stray' - stray
    BY <1>1, <1>2, <1>8 DEF DumpStats
  <2> QED
    BY <1>1, <1>3, <1>8, <2>1, OperateStep DEF DumpStats
<1> QED
  BY <1>5, <1>6, <1>7, <1>8

\* What the steps of a call and of the server leave alone.
LEMMA Unchanging ==
    ASSUME UNCHANGED client
    PROVE  /\ running' = running /\ happened' = happened /\ stray' = stray
           /\ Sent' = Sent
           /\ \A methods : Answered(methods)' = Answered(methods)
BY DEF client, Sent, Answered

LEMMA SendStep == TelInv /\ SendOperate => TelInv'
<1> SUFFICES ASSUME TelInv, SendOperate PROVE TelInv'
  OBVIOUS
<1>1. /\ call = "send" /\ call' = "recv" /\ link # "closed"
      /\ wire' = IF link = "open" THEN Sent ELSE Nothing
      /\ UNCHANGED client /\ confirmed' = confirmed /\ link' = link /\ server' = server
      /\ depth' = depth /\ counted' = counted
  BY DEF SendOperate, handler, Sent
<1>2. wire = Nothing /\ wire.to # "client"
  BY <1>1, WireFacts DEF TelInv, CallOK
<1>3. Sent.to = "server" /\ Nothing.to = "nobody"
  BY WireFacts
<1>4. Pending /\ (link = "open" => Pending')
  BY <1>1, <1>3 DEF Pending
<1>5. wire'.to # "client"
  BY <1>1, <1>3
<1>6. TelemetryType'
  BY <1>1, Unchanging DEF TelInv, TelemetryType
<1>7. CallOK'
  BY <1>1, Unchanging DEF TelInv, TelemetryType, CallOK
<1>8. CountOK'
  BY <1>1, <1>4, Unchanging DEF TelInv, CountOK, Served, Owed
<1>9. ConfirmOK'
  BY <1>1, <1>2, <1>5 DEF TelInv, ConfirmOK, Served
<1> QED
  BY <1>6, <1>7, <1>8, <1>9 DEF TelInv

LEMMA RecvStep == TelInv /\ RecvOperate => TelInv'
<1> SUFFICES ASSUME TelInv, RecvOperate PROVE TelInv'
  OBVIOUS
<1>1. /\ call = "recv" /\ call' = "none" /\ wire.to = "client" /\ wire' = Nothing
      /\ confirmed' = IF RecvReturns(wire.message) THEN confirmed + 1 ELSE confirmed
      /\ UNCHANGED client /\ link' = link /\ server' = server
      /\ depth' = depth /\ counted' = counted
  BY DEF RecvOperate, handler
<1>2. wire'.to = "nobody" /\ ~Pending /\ ~Pending'
  BY <1>1, WireFacts DEF Pending
<1>3. PICK methods \in SUBSET Methods :
         wire = Answered(methods) /\ (link = "open" => methods = server)
  BY <1>1, WireFacts DEF TelInv, CallOK
<1>4. RecvReturns(wire.message) <=> "operate" \in methods
  BY <1>3, WireFacts DEF RecvReturns
<1>5. wire.message.mtype = "REPLY" <=> "operate" \in methods
  BY <1>3, WireFacts
<1>6. confirmed \in Nat /\ Len(counted) \in Nat
  BY DEF TelInv, TelemetryType
<1>7. TelemetryType'
  BY <1>1, <1>6, Unchanging DEF TelInv, TelemetryType
<1>8. CallOK'
  BY <1>1 DEF CallOK
<1>9. CountOK'
  BY <1>1, <1>2, Unchanging DEF TelInv, CountOK, Served, Owed
<1>10. ConfirmOK'
  <2>1. /\ confirmed + (IF "operate" \in methods THEN 1 ELSE 0) <= Len(counted)
        /\ Served => confirmed + 1 = Len(counted)
    BY <1>1, <1>5 DEF TelInv, ConfirmOK
  <2>2. confirmed' = confirmed + (IF "operate" \in methods THEN 1 ELSE 0)
    BY <1>1, <1>4, <1>6
  <2>3. Served' => Served /\ "operate" \in methods
    BY <1>1, <1>3 DEF Served
  <2> QED
    BY <1>1, <1>2, <1>6, <2>1, <2>2, <2>3 DEF ConfirmOK
<1> QED
  BY <1>7, <1>8, <1>9, <1>10 DEF TelInv

LEMMA FailStep == TelInv /\ OperateFails => TelInv'
<1> SUFFICES ASSUME TelInv, OperateFails PROVE TelInv'
  OBVIOUS
<1>1. /\ call' = "none" /\ wire' = wire /\ link' = link /\ server' = server
      /\ UNCHANGED client /\ confirmed' = confirmed
      /\ depth' = depth /\ counted' = counted
  BY DEF OperateFails, handler
<1>2. wire = Nothing /\ link # "open"
  BY DEF OperateFails, Throws, TelInv, CallOK
<1>3. ~Served /\ ~Served'
  BY <1>1, <1>2 DEF Served
<1>4. TelemetryType'
  BY <1>1, Unchanging DEF TelInv, TelemetryType
<1>5. CallOK'
  BY <1>1, <1>2 DEF CallOK
<1>6. CountOK' /\ ConfirmOK'
  BY <1>1, <1>3, Unchanging DEF TelInv, CountOK, ConfirmOK
<1> QED
  BY <1>4, <1>5, <1>6 DEF TelInv

-----------------------------------------------------------------------------
\* The server counts the event that the client sent, and answers that call.
LEMMA ProcessStep == TelInv /\ Process => TelInv'
<1> SUFFICES ASSUME TelInv, Process PROVE TelInv'
  OBVIOUS
<1> DEFINE work == Last(happened)
<1>1. /\ link = "open" /\ wire.to = "server"
      /\ wire' = Carried("client", Answer(wire.message, server), wire.nr)
      /\ UNCHANGED client /\ confirmed' = confirmed /\ call' = call
      /\ link' = link /\ server' = server
  BY DEF Process
<1>2. call = "recv" /\ wire = Sent
  BY <1>1, WireFacts DEF TelInv, CallOK
<1>3. wire' = Answered(server)
  BY <1>1, <1>2, WireFacts DEF Answered
<1>4. /\ happened \in Seq(Events) /\ counted \in Seq(Events) /\ work \in Events
      /\ Len(happened) \in Nat /\ Len(counted) \in Nat /\ Len(happened) > 0
      /\ depth \in Int /\ confirmed \in Nat /\ stray \in Nat /\ server \in SUBSET Methods
  BY <1>2, EventTyped DEF TelInv, TelemetryType, CallOK
<1>5. ReadArgs(wire.message.body) = work
  <2>1. PICK c \in Core, type \in EventTypes : work = Event(c, type)
    BY <1>4 DEF Events
  <2>2. wire.message.body = WriteArgs(work)
    BY <1>2, WireFacts DEF Call
  <2> QED
    BY <2>1, <2>2, RoundTrip
<1>6. /\ "operate" \in server => Count(work.type) /\ counted' = Append(counted, work)
      /\ "operate" \notin server => depth' = depth /\ counted' = counted
  BY <1>2, <1>5, WireFacts DEF Process, handler
<1>7. depth' = depth + (IF "operate" \in server THEN Effect(work.type) ELSE 0)
  <2>1. work.type \in EventTypes
    BY <1>4 DEF Events, Event
  <2>2. Count(work.type) => depth' = depth + Effect(work.type)
    BY <1>4, <2>1 DEF Count, Effect, EventTypes, MemOp
  <2> QED
    BY <1>4, <1>6, <2>2
<1>8. Effect(work.type) \in Int
  BY DEF Effect
<1>9. Pending /\ ~Pending' /\ wire'.to = "client" /\ wire.to # "client"
  BY <1>1, <1>2, <1>3, WireFacts DEF Pending
<1>10. /\ Len(counted') = Len(counted) + (IF "operate" \in server THEN 1 ELSE 0)
       /\ counted' \in Seq(Events)
  <2>1. CASE "operate" \in server
    <3>1. counted' = Append(counted, work)
      BY <1>6, <2>1
    <3>2. Append(counted, work) \in Seq(Events) /\ Len(Append(counted, work)) = Len(counted) + 1
      <4> HIDE DEF work
      <4> QED
        BY <1>4
    <3> QED
      BY <2>1, <3>1, <3>2
  <2>2. CASE "operate" \notin server
    BY <1>4, <1>6, <2>2
  <2> QED
    BY <2>1, <2>2
<1>11. TelemetryType'
  BY <1>1, <1>4, <1>7, <1>8, <1>10, Unchanging DEF TelInv, TelemetryType
<1>12. CallOK'
  <2>1. wire' = Answered(server)' /\ server' = server
    BY <1>1, <1>3, Unchanging
  <2> QED
    BY <1>1, <1>2, <1>4, <2>1, Unchanging DEF CallOK
<1>13. CountOK'
  <2>1. CASE "operate" \in server
    <3>1. happened = Append(counted, work) /\ depth + stray + Effect(work.type) = Cardinality(running)
      BY <1>1, <1>9, <2>1 DEF TelInv, CountOK, Served, Owed
    <3>2. counted' = happened /\ happened' = happened
      BY <1>1, <1>6, <2>1, <3>1, Unchanging
    <3>3. depth' + stray' + Owed' = Cardinality(running')
      BY <1>1, <1>4, <1>7, <1>8, <1>9, <2>1, <3>1, Unchanging DEF Owed
    <3> QED
      BY <1>4, <1>9, <3>2, <3>3 DEF CountOK
  <2>2. CASE "operate" \notin server
    BY <1>1, <1>6, <2>2, Unchanging DEF TelInv, CountOK, Served
  <2> QED
    BY <2>1, <2>2
<1>14. ConfirmOK'
  <2>1. wire'.message.mtype = IF "operate" \in server THEN "REPLY" ELSE "EXCEPTION"
    BY <1>3, WireFacts
  <2>2. confirmed <= Len(counted) /\ ("operate" \in server => confirmed = Len(counted))
    BY <1>1, <1>4, <1>9 DEF TelInv, ConfirmOK, Served
  <2>3. CASE "operate" \in server
    BY <1>1, <1>4, <1>9, <1>10, <2>1, <2>2, <2>3 DEF ConfirmOK
  <2>4. CASE "operate" \notin server
    BY <1>1, <1>4, <1>9, <1>10, <2>1, <2>2, <2>4 DEF ConfirmOK, Served
  <2> QED
    BY <2>3, <2>4
<1> QED
  BY <1>11, <1>12, <1>13, <1>14 DEF TelInv

\* Its end loses what is under way, and the link with it.
LEMMA ServerStep == TelInv /\ (ServerStops \/ ServerStarts) => TelInv'
<1> SUFFICES ASSUME TelInv, ServerStops \/ ServerStarts PROVE TelInv'
  OBVIOUS
<1>1. /\ UNCHANGED client /\ confirmed' = confirmed /\ call' = call /\ counted' = counted
      /\ link' \in {"open", "closed", "reset"} /\ link' # "open"
      /\ link' = link \/ link' = "reset"
      /\ link = "closed" => link' = "closed"
      /\ server' \in SUBSET Methods /\ depth' \in Int
      /\ wire' = wire \/ (wire' = Nothing /\ link' # "open")
      /\ wire.to = "server" => wire' = Nothing \/ link # "open"
      /\ server = NoServer \/ wire' = Nothing \/ wire.to = "client"
  <2>1. CASE ServerStops
    BY <2>1 DEF ServerStops, TelInv, TelemetryType, NoServer
  <2>2. CASE ServerStarts
    BY <2>2, TelemetryAssumption DEF ServerStarts, TelInv, TelemetryType, handler
  <2> QED
    BY <2>1, <2>2
<1>2. ~Served'
  BY <1>1 DEF Served
<1>3. TelemetryType'
  BY <1>1, Unchanging DEF TelInv, TelemetryType
<1>4. CallOK'
  <2>1. call' # "recv" => wire' = Nothing
    BY <1>1 DEF TelInv, CallOK
  <2>2. ASSUME call = "recv"
        PROVE  \/ wire' = Nothing /\ link' = "reset"
               \/ \E methods \in SUBSET Methods :
                     wire' = Answered(methods)' /\ link' # "closed"
    <3>1. link # "closed"
      BY <2>2 DEF TelInv, CallOK
    <3>2. link' = "reset"
      BY <1>1, <3>1 DEF TelInv, TelemetryType
    <3>3. CASE wire' = Nothing
      BY <3>2, <3>3
    <3>4. CASE wire' = wire /\ wire' # Nothing
      <4>1. wire.to = "client"
        BY <1>1, <2>2, <3>4, WireFacts DEF TelInv, TelemetryType, CallOK
      <4>2. PICK methods \in SUBSET Methods : wire = Answered(methods)
        BY <2>2, <4>1, WireFacts DEF TelInv, CallOK
      <4> QED
        BY <1>1, <3>2, <3>4, <4>2, Unchanging
    <3> QED
      BY <1>1, <3>3, <3>4
  <2> QED
    BY <1>1, <2>1, <2>2, Unchanging DEF TelInv, CallOK
<1>5. CountOK'
  BY <1>1, <1>2, Unchanging DEF TelInv, CountOK
<1>6. ConfirmOK'
  <2>1. wire'.to = "client" => wire' = wire
    BY <1>1, WireFacts
  <2>2. confirmed <= Len(counted)
    BY DEF TelInv, TelemetryType, ConfirmOK
  <2> QED
    BY <1>1, <1>2, <2>1, <2>2 DEF TelInv, TelemetryType, ConfirmOK
<1> QED
  BY <1>3, <1>4, <1>5, <1>6 DEF TelInv

LEMMA Inductive == TelInv /\ [Next]_vars => TelInv'
<1> SUFFICES ASSUME TelInv, [Next]_vars PROVE TelInv'
  OBVIOUS
<1>1. CASE UNCHANGED vars
  BY <1>1, Unchanging
     DEF vars, client, handler, TelInv, TelemetryType, CallOK, CountOK, ConfirmOK,
         Pending, Owed, Served
<1>2. CASE Next
  BY <1>2, ModuleStep, SendStep, RecvStep, FailStep, ProcessStep, ServerStep
     DEF Next, Calls, Serves
<1> QED
  BY <1>1, <1>2

THEOREM TelInvHolds == Spec => []TelInv
BY InitTelInv, Inductive, PTL DEF Spec

-----------------------------------------------------------------------------
(* What the runs check.                                                    *)

LEMMA TelInvCounts == TelInv => CountedInOrder
<1> SUFFICES ASSUME TelInv PROVE CountedInOrder
  OBVIOUS
<1>1. /\ happened \in Seq(Events) /\ counted \in Seq(Events)
      /\ Len(counted) <= Len(happened)
      /\ \A i \in 1 .. Len(counted) : counted[i] = happened[i]
  BY DEF TelInv, TelemetryType, CountOK
<1>2. SubSeq(happened, 1, Len(counted)) = counted
  BY <1>1
<1>3. SubSeq(counted, 1, Len(counted)) = counted
  BY <1>1
<1>4. IsPrefix(counted, happened)
  BY <1>1, <1>2, <1>3 DEF IsPrefix
<1>5. call = "none" => ~Pending
  BY WireFacts DEF TelInv, CallOK, Pending
<1> QED
  BY <1>4, <1>5 DEF TelInv, CountOK, CountedInOrder

\* Whatever servers run, stop and start again, the events are counted exactly
\* once and in order, and the ones that are missed are the last ones.
THEOREM CountedInOrderHolds == Spec => []CountedInOrder
BY TelInvCounts, TelInvHolds, PTL

LEMMA TelInvDepth == TelInv => DepthTracksRunning
<1> SUFFICES ASSUME TelInv, Served, call = "none"
             PROVE  depth + stray = Cardinality(running)
  BY DEF DepthTracksRunning
<1>1. ~Pending
  BY WireFacts DEF TelInv, CallOK, Pending
<1>2. depth + stray + 0 = Cardinality(running)
  BY <1>1 DEF TelInv, CountOK, Owed
<1> QED
  BY <1>2 DEF TelInv, TelemetryType

\* The printed depth is the number of running transactions for any number of
\* cores, off by the commits that ended none.
THEOREM DepthTracksRunningHolds == Spec => []DepthTracksRunning
BY TelInvDepth, TelInvHolds, PTL

LEMMA TelInvAnswers == TelInv => AnswersBelong
BY WireFacts DEF TelInv, CallOK, AnswersBelong

\* No call takes the answer of another, although they are numbered alike.
THEOREM AnswersBelongHolds == Spec => []AnswersBelong
BY TelInvAnswers, TelInvHolds, PTL

LEMMA TelInvConfirmed == TelInv => ConfirmedAreCounted
<1> SUFFICES ASSUME TelInv PROVE ConfirmedAreCounted
  OBVIOUS
<1>1. call = "none" => wire.to # "client"
  BY WireFacts DEF TelInv, CallOK
<1> QED
  BY <1>1 DEF TelInv, TelemetryType, ConfirmOK, ConfirmedAreCounted

\* A call that returns without an exception was counted.
THEOREM ConfirmedAreCountedHolds == Spec => []ConfirmedAreCounted
BY TelInvConfirmed, TelInvHolds, PTL

-----------------------------------------------------------------------------
(* Why calls return: the steps that CallsReturn leaves to fairness.        *)

\* When the client, and when the server, has a step to take.
ClientTurn ==
    \/ call = "send" /\ link # "closed"
    \/ call = "recv" /\ wire.to = "client"
    \/ Throws
ServerTurn == link = "open" /\ wire.to = "server"

\* How many steps the call may still take.
StepsLeft ==
    IF call = "none" THEN 0
    ELSE IF call = "send" THEN 3
    ELSE IF wire.to = "server" THEN 2 ELSE 1

LEMMA TelInvTurn ==
    TelInv => /\ StepsLeft = 0 <=> call = "none"
              /\ StepsLeft = 2 => ServerTurn
              /\ StepsLeft \in {1, 3} => ClientTurn
<1> SUFFICES ASSUME TelInv
             PROVE  /\ StepsLeft = 0 <=> call = "none"
                    /\ StepsLeft = 2 => ServerTurn
                    /\ StepsLeft \in {1, 3} => ClientTurn
  OBVIOUS
<1>1. CASE call # "recv"
  BY <1>1 DEF TelInv, TelemetryType, CallOK, StepsLeft, ClientTurn, Throws
<1>2. CASE call = "recv"
  <2>1. \/ wire = Nothing /\ link = "reset"
        \/ wire.to = "server" /\ link = "open"
        \/ wire.to = "client"
    BY <1>2, WireFacts DEF TelInv, CallOK
  <2> QED
    BY <1>2, <2>1, WireFacts DEF StepsLeft, ClientTurn, ServerTurn, Throws
<1> QED
  BY <1>1, <1>2

\* A call in progress is never stuck: whatever the servers do, the client can
\* go on, or the server that the request has reached can answer
\* (thrift_client.cpp:31-42, MemoryHierarchy.cpp:324-377).
THEOREM CallsNeverStuck ==
    Spec => [](/\ StepsLeft = 0 <=> call = "none"
               /\ StepsLeft = 2 => ServerTurn
               /\ StepsLeft \in {1, 3} => ClientTurn)
BY TelInvTurn, TelInvHolds, PTL

\* Every step that the client or the server takes brings the end of the call
\* nearer, and none moves it away: no server that stops or starts makes the
\* client send or wait again (thrift_client.cpp:31-42).
THEOREM CallsAdvance ==
    Spec => [][call # "none" => /\ StepsLeft' <= StepsLeft
                                /\ Calls \/ Process => StepsLeft' < StepsLeft]_vars
<1> DEFINE Step == call # "none" => /\ StepsLeft' <= StepsLeft
                                    /\ Calls \/ Process => StepsLeft' < StepsLeft
<1>1. ASSUME TelInv, Next PROVE Step
  <2> SUFFICES ASSUME call # "none"
               PROVE  /\ StepsLeft' <= StepsLeft
                      /\ Calls \/ Process => StepsLeft' < StepsLeft
    OBVIOUS
  <2>1. call \in {"send", "recv"} /\ (call = "send" => wire.to = "nobody")
    BY <1>1, WireFacts DEF TelInv, CallOK
  <2>2. ASSUME SendOperate PROVE StepsLeft' < StepsLeft
    BY <2>2 DEF SendOperate, StepsLeft
  <2>3. ASSUME RecvOperate \/ OperateFails PROVE StepsLeft' < StepsLeft
    BY <2>1, <2>3 DEF RecvOperate, OperateFails, Throws, StepsLeft
  <2>4. ASSUME Process PROVE StepsLeft' < StepsLeft
    <3>1. call = "recv" /\ call' = "recv"
      BY <2>1, <2>4 DEF Process
    <3>2. wire.to = "server" /\ wire'.to = "client"
      BY <2>4 DEF Process, Carried
    <3> QED
      BY <3>1, <3>2 DEF StepsLeft
  <2>5. ASSUME ServerStops \/ ServerStarts PROVE StepsLeft' <= StepsLeft
    <3>1. call' = call /\ (wire' = wire \/ wire'.to = "nobody")
      BY <2>5, WireFacts DEF ServerStops, ServerStarts
    <3> QED
      BY <2>1, <3>1 DEF StepsLeft
  <2>6. StepsLeft \in 0 .. 3 /\ StepsLeft' \in 0 .. 3
    BY DEF StepsLeft
  <2>7. Calls \/ Process \/ ServerStops \/ ServerStarts
    BY <1>1 DEF Next, Serves, BeginTransaction, CommitTransaction, AbortTransaction,
       DumpStats, Operate
  <2>8. Calls \/ Process => StepsLeft' < StepsLeft
    BY <2>2, <2>3, <2>4 DEF Calls
  <2> HIDE DEF StepsLeft
  <2> QED
    BY <2>5, <2>6, <2>7, <2>8
<1>2. TelInv /\ [Next]_vars => [Step]_vars
  BY <1>1
<1> QED
  BY <1>2, TelInvHolds, PTL DEF Spec

-----------------------------------------------------------------------------
(* The module's hooks.                                                     *)

\* The constructor finds no stale TRANS_ON in the memory of mStatus.
StartsNotOn == "ON" \notin InitialStatus

\* What the telemetry knows of a core is what its Transaction holds.
Reported ==
    /\ DOMAIN mStatus = Core /\ DOMAIN nesting = Core
    /\ \A c \in Core : nesting[c] = 0 <=> mStatus[c] # "ON"
    /\ running = {c \in Core : mStatus[c] = "ON"}

LEMMA RunningIs ==
    /\ \A c : Module!Running(c) <=> mStatus[c] = "ON"
    /\ Running = {c \in Core : mStatus[c] = "ON"}
    /\ Running' = {c \in Core : mStatus'[c] = "ON"}
BY DEF Running, Module!Running

\* A hook that ends the transaction of c and one that touches none.
LEMMA EndsHook ==
    ASSUME Reported, NEW c \in Core, running' = Running', Module!Emptied(c)
    PROVE  Reported' /\ running' = running \ {c}
<1>1. /\ mStatus' = [mStatus EXCEPT ![c] = "OFF"]
      /\ nesting' = [nesting EXCEPT ![c] = 0]
  BY DEF Module!Emptied, Module!EmptiedTo
<1> QED
  BY <1>1, RunningIs DEF Reported

LEMMA IdleHook ==
    ASSUME Reported, mStatus' = mStatus, nesting' = nesting,
           running' = running \/ running' = Running'
    PROVE  Reported' /\ running' = running
BY RunningIs DEF Reported

LEMMA BeginHook ==
    ASSUME Reported, NEW c \in Core, ReportingBegin(c)
    PROVE  Reported' /\ (Next \/ UNCHANGED vars)
<1>1. CASE nesting[c] = 0
  <2>1. /\ Operate(c, MemOp.BEGIN) /\ running' = Running' /\ UNCHANGED stray
        /\ nesting' = [nesting EXCEPT ![c] = 1]
        /\ mStatus' = [mStatus EXCEPT ![c] = "ON"]
    BY <1>1 DEF ReportingBegin, Reports, Module!BeginTransaction, Module!Begun
  <2>2. Reported' /\ c \notin running /\ running' = running \cup {c}
    BY <1>1, <2>1, RunningIs DEF Reported
  <2> QED
    BY <2>1, <2>2 DEF BeginTransaction, Next
<1>2. CASE nesting[c] # 0
  <2>1. UNCHANGED vars /\ nesting' = nesting /\ mStatus' = mStatus
    BY <1>2 DEF ReportingBegin, Silent, Module!BeginTransaction
  <2> QED
    BY <2>1, IdleHook DEF vars, client
<1> QED
  BY <1>1, <1>2

LEMMA CommitHook ==
    ASSUME Reported, NEW c \in Core, ReportingCommit(c)
    PROVE  Reported' /\ Next
<1>1. /\ Operate(c, MemOp.COMMIT) /\ running' = Running' /\ Module!Emptied(c)
      /\ stray' = IF mStatus[c] = "ON" THEN stray ELSE stray + 1
  BY RunningIs DEF ReportingCommit, Reports, Module!CommitTransactionIdx
<1>2. c \in running <=> mStatus[c] = "ON"
  BY DEF Reported
<1>3. Reported' /\ CommitTransaction(c)
  BY <1>1, <1>2, EndsHook DEF CommitTransaction
<1> QED
  BY <1>3 DEF Next

LEMMA AbortHook ==
    ASSUME Reported, NEW c \in Core, ReportingAbort(c)
    PROVE  Reported' /\ (Next \/ UNCHANGED vars)
<1>1. CASE mStatus[c] = "ON"
  <2>1. /\ Operate(c, MemOp.ABORT) /\ running' = Running' /\ Module!Emptied(c)
        /\ UNCHANGED stray
    BY <1>1, RunningIs DEF ReportingAbort, Reports, Module!AbortTransactionIdx
  <2>2. c \in running
    BY <1>1 DEF Reported
  <2>3. Reported' /\ AbortTransaction(c)
    BY <2>1, <2>2, EndsHook DEF AbortTransaction
  <2> QED
    BY <2>3 DEF Next
<1>2. CASE mStatus[c] # "ON"
  <2>1. UNCHANGED vars /\ nesting' = nesting /\ mStatus' = mStatus
    BY <1>2, RunningIs
       DEF ReportingAbort, Silent, Module!AbortTransactionIdx, Module!transaction
  <2> QED
    BY <2>1, IdleHook DEF vars, client
<1> QED
  BY <1>1, <1>2

LEMMA DumpHook ==
    ASSUME Reported, NEW c \in Core, ReportingDump(c)
    PROVE  Reported' /\ Next
<1>1. /\ Operate(c, MemOp.INFO) /\ running' = Running' /\ UNCHANGED stray
      /\ nesting' = nesting /\ mStatus' = mStatus
  BY DEF ReportingDump, Reports, Module!OtherInstruction, Module!transaction
<1>2. Reported' /\ DumpStats(c)
  BY <1>1, IdleHook DEF DumpStats
<1> QED
  BY <1>2 DEF Next

LEMMA UnreportedHook ==
    ASSUME Reported, NEW c \in Core, Unreported(c)
    PROVE  Reported' /\ UNCHANGED vars
<1>1. UNCHANGED vars /\ running' = running
  BY DEF Unreported, Silent, vars, client
<1>2. nesting' = nesting /\ mStatus' = mStatus
  BY DEF Unreported, Module!CommitTransaction, Module!AbortTransaction,
         Module!EarlyRelease, Module!Erases, Module!LoadStalls, Module!Load, Module!Store,
         Module!PlainStore, Module!OtherInstruction, Module!CoreExceptionReturn,
         Module!CoreBreakpoint,
         Module!AbortRequested, Module!transaction
<1> QED
  BY <1>1, <1>2, IdleHook

LEMMA ReportingStep ==
    Reported /\ [ReportingNext]_reportingVars => Reported' /\ [Next]_vars
<1> SUFFICES ASSUME Reported, [ReportingNext]_reportingVars PROVE Reported' /\ [Next]_vars
  OBVIOUS
<1>1. CASE \E c \in Core : Hook(c)
  BY <1>1, BeginHook, CommitHook, AbortHook, DumpHook, UnreportedHook DEF Hook
<1>2. CASE (Calls \/ Serves) /\ UNCHANGED moduleVars
  <2>1. running' = running
    BY <1>2 DEF Calls, Serves, SendOperate, RecvOperate, OperateFails, Process,
                ServerStops, ServerStarts, client
  <2>2. nesting' = nesting /\ mStatus' = mStatus
    BY <1>2 DEF moduleVars
  <2> QED
    BY <1>2, <2>1, <2>2, IdleHook DEF Next
<1>3. CASE UNCHANGED reportingVars
  BY <1>3, IdleHook DEF reportingVars, vars, client, moduleVars
<1> QED
  BY <1>1, <1>2, <1>3 DEF ReportingNext

LEMMA InitReported == StartsNotOn /\ ReportingInit => Reported /\ Init
<1> SUFFICES ASSUME StartsNotOn, ReportingInit PROVE Reported
  BY DEF ReportingInit
<1>1. running = {} /\ mStatus \in [Core -> InitialStatus] /\ nesting = [c \in Core |-> 0]
  BY DEF ReportingInit, Init, Module!Init
<1>2. \A c \in Core : mStatus[c] # "ON"
  BY <1>1 DEF StartsNotOn
<1> QED
  BY <1>1, <1>2 DEF Reported

\* The reports of the hooks are a behaviour of Telemetry: every transaction
\* that is reported to begin is reported to end once, and none other ends.
\* This is ImplementsTelemetry without its fairness (transaction.cpp:61-87,
\* 146, 153).
THEOREM ReportsAreEvents ==
    StartsNotOn => (ReportingSpec => Init /\ [][Next]_vars)
<1> SUFFICES ASSUME StartsNotOn PROVE ReportingSpec => Init /\ [][Next]_vars
  OBVIOUS
<1>1. ReportingInit => Reported /\ Init
  BY InitReported
<1> QED
  BY <1>1, ReportingStep, PTL DEF ReportingSpec

\* So the depth that the server prints is that of the module's transactions,
\* and it counts what the module did.
THEOREM DepthOfTheModule ==
    StartsNotOn => (ReportingSpec =>
        [](/\ running = Running
           /\ CountedInOrder /\ DepthTracksRunning
           /\ AnswersBelong /\ ConfirmedAreCounted))
<1> SUFFICES ASSUME StartsNotOn
             PROVE  ReportingSpec => [](/\ running = Running
                                        /\ CountedInOrder /\ DepthTracksRunning
                                        /\ AnswersBelong /\ ConfirmedAreCounted)
  OBVIOUS
<1>1. ReportingInit => Reported /\ Init
  BY InitReported
<1>2. Reported => running = Running
  BY RunningIs DEF Reported
<1>3. TelInv => /\ CountedInOrder /\ DepthTracksRunning
                /\ AnswersBelong /\ ConfirmedAreCounted
  BY TelInvCounts, TelInvDepth, TelInvAnswers, TelInvConfirmed
<1> QED
  BY <1>1, <1>2, <1>3, InitTelInv, Inductive, ReportingStep, PTL DEF ReportingSpec
==============================================================================
