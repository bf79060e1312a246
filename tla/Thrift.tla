-------------------------------- MODULE Thrift --------------------------------
(***************************************************************************)
(* The stubs generated from simple.thrift: what the C++ client writes for  *)
(* a call of operate (MemoryHierarchy.cpp, simple_types.cpp), what the     *)
(* Java server reads from it and answers (MemoryHierarchy.java, Work.java) *)
(* and what the client makes of the answer.                                *)
(*                                                                         *)
(* A struct on the wire is the sequence of its fields up to T_STOP, a      *)
(* field a record of its id, its type and its value.  A message is a       *)
(* record of its method, its type and its struct.  All calls carry the     *)
(* sequence number 0, so it is left out: it tells no two calls apart.      *)
(***************************************************************************)
EXTENDS Integers, Sequences

\* The methods of the service, in the interface both sides were generated
\* from.
Methods == {"step", "operate"}

\* The event types.
MemOp == [LOAD |-> 1, STORE |-> 2, ABORT |-> 10, BEGIN |-> 11, COMMIT |-> 12,
          DISABLE |-> 13, ENABLE |-> 14, INFO |-> 15]

Field(id, ftype, value) == [id |-> id, ftype |-> ftype, value |-> value]

\* Mutant: cpuid and type have changed places.
WriteWorkSwapped(work) ==
    << Field(1, "I32", work.type), Field(2, "I32", work.cpuid), Field(3, "I32", work.addr) >>

\* Work::write: every field is written, set or not.
WriteWork(work) ==
    << Field(1, "I32", work.cpuid), Field(2, "I32", work.type), Field(3, "I32", work.addr) >>

\* The struct of arguments of operate.
WriteArgs(work) == << Field(1, "STRUCT", WriteWork(work)) >>

\* send_operate.
Call(work) == [name |-> "operate", mtype |-> "CALL", body |-> WriteArgs(work)]

\* The value of the last field of this id and type, and initially if there is
\* none: a field of another id or type is skipped.
ReadField(struct, id, ftype, initially) ==
    LET hits == {i \in DOMAIN struct : struct[i].id = id /\ struct[i].ftype = ftype}
    IN  IF hits = {} THEN initially
        ELSE struct[CHOOSE i \in hits : \A j \in hits : j <= i].value

\* Work.read, into a new Work, whose fields Java has set to 0.
ReadWork(struct) ==
    [cpuid |-> ReadField(struct, 1, "I32", 0),
     type |-> ReadField(struct, 2, "I32", 0),
     addr |-> ReadField(struct, 3, "I32", 0)]

\* operate_args.read, of a call that carries its argument.
ReadArgs(struct) == ReadWork(ReadField(struct, 1, "STRUCT", <<>>))

\* Processor.process: a method that the server was not built with is answered
\* by an exception, the others by a reply with an empty struct.
Answer(message, methods) ==
    [name |-> message.name,
     mtype |-> IF message.name \in methods THEN "REPLY" ELSE "EXCEPTION",
     body |-> <<>>]

\* Mutant: any answer is taken for a reply.
RecvAccepts(message) == TRUE

\* recv_operate returns from a reply to operate and throws otherwise.
RecvReturns(message) == message.mtype = "REPLY" /\ message.name = "operate"
===============================================================================
