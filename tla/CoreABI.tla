------------------------------- MODULE CoreABI -------------------------------
(***************************************************************************)
(* The calls of the host into the guest: internal/coreabi.                 *)
(*                                                                         *)
(* All instances and the web client live in one guest module and share its *)
(* linear memory.  Whatever the host passes to the guest, or gets back,    *)
(* goes through buffers of that memory, which the host has to allocate and *)
(* to free by calls that can fail.  A Core keeps four buffers between      *)
(* calls (packet, data plane input, output and address); the others live   *)
(* for one call and are freed by a deferred cleanup.                       *)
(*                                                                         *)
(* A method is a function from a state of the program to the states it may *)
(* return in: S is such a set, Then(S, F) goes on with F where no error    *)
(* occurred.  The methods are called under Host.guestMu, so each is one    *)
(* step.                                                                   *)
(*                                                                         *)
(* The guest is external: each of its functions can trap (then nothing has *)
(* happened), answer with a negative status, or do what it is asked to.    *)
(* Pointers it hands out are inside its memory, so that the checks of      *)
(* Memory().Read and Write pass; whether the bytes there still belong to   *)
(* the caller is what `overrun` records.                                   *)
(***************************************************************************)
EXTENDS CoreWire, FiniteSets

CONSTANTS
  Cores,           \* the Core objects, one for each instance
  Kinds,           \* kinds of data plane operations the program uses
  PacketLengths,   \* lengths of packets and of UDP payloads
  StreamWires,     \* what the guest may write as a stream result
  BindWires,       \* .. and as a bind result
  GuestABI,        \* [version, capabilities, rpc] the guest module exports
  Memory,          \* number of buffers the guest can hold
  MaxOperations,   \* bound: operations in the guest
  MaxRefusals      \* bound: frees the guest refuses

ASSUME CoresAssumption == 0 \notin Cores
ASSUME BoundsAssumption == {Memory, MaxOperations, MaxRefusals} \subseteq Nat
ASSUME LengthsAssumption == PacketLengths \subseteq 1 .. maxDataPlaneTransferBytes
ASSUME KindsAssumption == \A kind \in Kinds : valid(kind)

VARIABLES
  memory,    \* the length of the buffer at a pointer, 0 when it is free
  cores,     \* the fields of the Core objects
  web,       \* created and dropped of the WebClient
  guest,     \* what the guest holds: instances, the web client, operations
  engine,    \* what the callers in internal/engine know
  stranded,  \* history: buffers whose free was refused
  overrun,   \* history: the guest was given bytes outside a live buffer
  lost       \* history: answers the guest gave away and nobody received

vars == <<memory, cores, web, guest, engine, stranded, overrun, lost>>

Pointers == 1 .. Memory
Buffers  == {"packet", "input", "output", "address"}

DataPlaneABIVersion == 3
RPCABIVersion       == 2
requiredDataPlaneCapabilities == {"data plane", "tcp", "udp"}
RPC                 == 0        \* an RPC among the operations
EnvelopeLength      == 1        \* config envelope, error message, RPC request
completionBatch     == 64       \* dataPlaneCompletionBatch, the one maximum in use

Operations == [core : Cores, kind : Kinds \cup {RPC}]

\* What became of a Core or the WebClient: Create not called, it returned an
\* error, it returned nil; an error ended the driver; Drop returned an error, or
\* nil.
Lives == {"unused", "failed", "open", "failing", "kept", "done"}

NoBuffer == [pointer |-> 0, capacity |-> 0]

BufferFields == [pointer : 0 .. Memory, capacity : Nat]
CoreFields   == [handle : Cores \cup {0}, dropped : BOOLEAN, buffer : [Buffers -> BufferFields]]
WebFields    == [created : BOOLEAN, dropped : BOOLEAN]
GuestFields  == [instances : SUBSET Cores, web : BOOLEAN,
                 operations : [Operations -> {"none", "pending", "completed", "announced"}]]

TypeOK ==
  /\ memory \in [Pointers -> Nat]
  /\ cores \in [Cores -> CoreFields]
  /\ web \in WebFields
  /\ guest \in GuestFields
  /\ engine \in [cores : [Cores -> Lives], web : Lives,
                 operations : [Operations -> {"none", "submitted", "completed"}]]
  /\ stranded \subseteq Pointers
  /\ overrun \in BOOLEAN
  /\ lost \in Nat

Init ==
  /\ memory = [p \in Pointers |-> 0]
  /\ cores = [c \in Cores |-> [handle |-> 0, dropped |-> FALSE,
                               buffer |-> [b \in Buffers |-> NoBuffer]]]
  /\ web = [created |-> FALSE, dropped |-> FALSE]
  /\ guest = [instances |-> {}, web |-> FALSE, operations |-> [o \in Operations |-> "none"]]
  /\ engine = [cores |-> [c \in Cores |-> "unused"], web |-> "unused",
               operations |-> [o \in Operations |-> "none"]]
  /\ stranded = {}
  /\ overrun = FALSE
  /\ lost = 0

-----------------------------------------------------------------------------
(* One call: its state is that of the program with the Core it is a method *)
(* of, the error and the value it is about to return.                      *)

Now(c) ==
  [memory |-> memory, cores |-> cores, web |-> web, guest |-> guest, stranded |-> stranded,
   overrun |-> overrun, core |-> c, err |-> FALSE, pointer |-> 0, batch |-> {},
   answer |-> "none"]

Fail(s) == [s EXCEPT !.err = TRUE]

Then(S, F(_)) == UNION {IF s.err THEN {s} ELSE F(s) : s \in S}

\* The guest uses bytes: a set of pairs of a pointer and a length.
Touch(s, bytes) ==
  [s EXCEPT !.overrun = @ \/ \E b \in bytes :
     IF b[1] = 0 THEN b[2] > 0 ELSE s.memory[b[1]] < b[2]]

\* A call that may trap, or not be exported as expected.
callOne(s, answers) == {Fail(s)} \cup answers

\* Any free pointer, an error when there is none.
allocate(s, length) ==
  callOne(s, {[s EXCEPT !.memory[p] = length, !.pointer = p] :
                p \in {q \in Pointers : s.memory[q] = 0}})

\* The error is a trap or a status; either way the guest still has the buffer.
free(s, pointer) ==
  {[s EXCEPT !.memory[pointer] = 0, !.stranded = @ \ {pointer}]} \cup
  IF Cardinality(s.stranded) = MaxRefusals THEN {}
  ELSE {[Fail(s) EXCEPT !.stranded = @ \cup {pointer}]}

\* A deferred free: its error counts when there was none.
cleanupBuffer(s, pointer) ==
  {[t EXCEPT !.err = t.err \/ s.err] : t \in free([s EXCEPT !.err = FALSE], pointer)}

Released(S, pointer) == UNION {cleanupBuffer(s, pointer) : s \in S}

\* F with a buffer of the given length, for one call.
WithBuffer(s, length, F(_)) ==
  Then(allocate(s, length), LAMBDA t : Released(F(t), t.pointer))

errorMessage(s) ==
  callOne(s, {s} \cup WithBuffer(s, EnvelopeLength,
    LAMBDA t : LET copied == Touch(t, {<<t.pointer, EnvelopeLength>>})
               IN  callOne(t, {copied, Fail(copied)})))

\* The message goes into the error, or why there is none.
statusError(s) == {Fail(t) : t \in errorMessage(s)}

\* Only the text of the error differs.
dataPlaneStatusError(s) == statusError(s)

-----------------------------------------------------------------------------
(* The buffers a Core keeps.                                               *)

Keep(s, b, buffer) == [s EXCEPT !.cores[s.core].buffer[b] = buffer]

\* Make room for length bytes: the old buffer is freed before the new one is
\* allocated.
Bug_growKeepsCapacity(s, b, length) ==
  LET old == s.cores[s.core].buffer[b]
  IN IF old.capacity >= length THEN {[s EXCEPT !.pointer = old.pointer]}
     ELSE Then(IF old.pointer = 0 THEN {s} ELSE free(s, old.pointer),
               LAMBDA t : Then(allocate(t, length),
                 LAMBDA u : {Keep(u, b, [pointer |-> u.pointer, capacity |-> length])}))
grow(s, b, length) ==
  LET old == s.cores[s.core].buffer[b]
  IN IF old.capacity >= length THEN {[s EXCEPT !.pointer = old.pointer]}
     ELSE Then(IF old.pointer = 0 THEN {s}
               ELSE Then(free(s, old.pointer), LAMBDA t : {Keep(t, b, NoBuffer)}),
               LAMBDA t : Then(allocate(t, length),
                 LAMBDA u : {Keep(u, b, [pointer |-> u.pointer, capacity |-> length])}))

ensurePacketBuffer(s, length)    == grow(s, "packet", length)
ensureDataPlaneInput(s, length)  == grow(s, "input", length)
ensureDataPlaneOutput(s, length) == grow(s, "output", length)

\* Addresses have one length: the buffer is kept as it is.
ensureDataPlaneAddress(s) ==
  LET kept == s.cores[s.core].buffer["address"].pointer
  IN IF kept # 0 THEN {[s EXCEPT !.pointer = kept]}
     ELSE Then(allocate(s, socketAddressLength),
            LAMBDA t : {Keep(t, "address", [pointer |-> t.pointer, capacity |-> socketAddressLength])})

-----------------------------------------------------------------------------
(* Instances: core.go.                                                     *)

validateDataPlaneABI(s) ==
  IF /\ GuestABI.version = DataPlaneABIVersion
     /\ requiredDataPlaneCapabilities \subseteq GuestABI.capabilities
  THEN callOne(s, {s}) ELSE {Fail(s)}

validateRPCABI(s) ==
  IF GuestABI.rpc = RPCABIVersion THEN callOne(s, {s}) ELSE {Fail(s)}

New(s) == Then(validateDataPlaneABI(s), validateRPCABI)

\* The handle is stored before the cleanup of the envelope can fail.
Create(s) ==
  IF s.cores[s.core].handle # 0 \/ s.cores[s.core].dropped THEN {Fail(s)}
  ELSE WithBuffer(s, EnvelopeLength,
    LAMBDA t : callOne(t, statusError(t) \cup
      {[Touch(t, {<<t.pointer, EnvelopeLength>>}) EXCEPT
          !.guest.instances = @ \cup {t.core}, !.cores[t.core].handle = t.core]}))

\* The guest does what it is asked to, or answers with an error status.
Answer(s, done) == callOne(s, statusError(s) \cup {done})

callStatus(s, done) ==
  IF s.cores[s.core].dropped \/ s.cores[s.core].handle = 0 THEN {Fail(s)} ELSE Answer(s, done)

Start(s)             == callStatus(s, s)
Stop(s)              == callStatus(s, s)
NotifyCompletions(s) == callStatus(s, s)
Drive(s)             == Answer(s, s)
State(s)             == Answer(s, s)
NextDeadline(s)      == Answer(s, s)

SendPacket(s, length) ==
  Then(ensurePacketBuffer(s, length),
       LAMBDA t : Answer(t, Touch(t, {<<t.pointer, length>>})))

\* Release one buffer; the fields are cleared even when that fails.
release(S, b) ==
  UNION {LET p == s.cores[s.core].buffer[b].pointer
         IN IF p = 0 THEN {s} ELSE {Keep(t, b, NoBuffer) : t \in cleanupBuffer(s, p)} : s \in S}

Drop(s) ==
  IF s.cores[s.core].dropped \/ s.cores[s.core].handle = 0 THEN {s}
  ELSE LET gone == [s.guest EXCEPT !.instances = @ \ {s.core},
                      !.operations = [o \in Operations |-> IF o.core = s.core THEN "none" ELSE @[o]]]
       IN Then(callStatus(s, [s EXCEPT !.guest = gone]),
            LAMBDA t : release(release(release(release(
              {[t EXCEPT !.cores[t.core].dropped = TRUE, !.cores[t.core].handle = 0]},
              "packet"), "input"), "address"), "output"))

-----------------------------------------------------------------------------
(* Data plane operations: dataplane.go.                                    *)

\* The guest reads the parameters in `bytes`, and writes the id of the operation.
submit(s, kind, bytes) ==
  Then(ensureDataPlaneOutput(s, operationIDLength),
    LAMBDA t : Answer(t, [Touch(t, bytes \cup {<<t.pointer, operationIDLength>>}) EXCEPT
                            !.guest.operations[[core |-> t.core, kind |-> kind]] = "pending"]))

\* Without data there is no buffer.
writeInput(s, length) == IF length = 0 THEN {[s EXCEPT !.pointer = 0]} ELSE allocate(s, length)

submitWithInput(s, kind, length) ==
  Then(writeInput(s, length), LAMBDA t :
    LET submitted == submit(t, kind, {<<t.pointer, length>>})
    IN IF t.pointer = 0 THEN submitted ELSE Released(submitted, t.pointer))

SubmitTCPConnect(s) == submitWithInput(s, OperationTCPConnect, socketAddressLength)

SubmitTCPWrite(s, length) ==
  IF length > maxDataPlaneTransferBytes THEN {Fail(s)}
  ELSE submitWithInput(s, OperationTCPWrite, length)

SubmitTCPBind(s)    == submit(s, OperationTCPBind, {})
SubmitTCPAccept(s)  == submit(s, OperationTCPAccept, {})
SubmitTCPRead(s)    == submit(s, OperationTCPRead, {})
SubmitUDPBind(s)    == submit(s, OperationUDPBind, {})
SubmitUDPReceive(s) == submit(s, OperationUDPReceive, {})

SubmitUDPSend(s, length) ==
  LET send(a, t, data) ==
        submit(t, OperationUDPSend, {<<a.pointer, socketAddressLength>>, <<data, length>>})
  IN IF length > maxDataPlaneTransferBytes THEN {Fail(s)}
     ELSE Then(ensureDataPlaneAddress(s),
            LAMBDA a : IF length = 0 THEN send(a, a, 0)
                       ELSE Then(ensureDataPlaneInput(a, length), LAMBDA t : send(a, t, t.pointer)))

\* The methods that submit an operation of a kind, with data of a length.
Submit(s, kind, length) ==
  CASE kind = OperationTCPConnect -> SubmitTCPConnect(s)
    [] kind = OperationTCPBind    -> SubmitTCPBind(s)
    [] kind = OperationTCPAccept  -> SubmitTCPAccept(s)
    [] kind = OperationTCPRead    -> SubmitTCPRead(s)
    [] kind = OperationTCPWrite   -> SubmitTCPWrite(s, length)
    [] kind = OperationUDPBind    -> SubmitUDPBind(s)
    [] kind = OperationUDPReceive -> SubmitUDPReceive(s)
    [] kind = OperationUDPSend    -> SubmitUDPSend(s, length)

\* A batch of the completed operations; they are not announced again.
Batches(s, maximum) ==
  {B \in SUBSET {o \in Operations : /\ o.core = s.core
                                  /\ o.kind # RPC
                                  /\ s.guest.operations[o] = "completed"} :
     Cardinality(B) <= maximum}

\* The guest announces a batch of its completions.
announce(s, bytes, B) ==
  [Touch(s, bytes) EXCEPT
    !.guest.operations = [o \in Operations |-> IF o \in B THEN "announced" ELSE @[o]],
    !.batch = B]

\* A count above the maximum, and completions that decodeCompletions refuses, are
\* an error although the guest has announced them.
DrainCompletions(s, maximum) ==
  LET length == maximum * completionLength
      drained(t) == {announce(t, {<<t.pointer, length>>}, B) : B \in Batches(t, maximum)}
  IN Then(ensureDataPlaneOutput(s, length), LAMBDA t :
       callOne(t, statusError(t) \cup drained(t) \cup {Fail(u) : u \in drained(t)}))

\* The guest hands out the result of an operation and forgets it; a result that
\* is an error, too.
Taken(s, o) == [s EXCEPT !.guest.operations[o] = "none"]

TakeAnswer(s, o, bytes, wellFormed) ==
  LET gone == Taken(s, o)
  IN callOne(s, {[t EXCEPT !.answer = "error"] : t \in statusError(gone)} \cup
       {[Touch(gone, bytes) EXCEPT !.err = ~wellFormed,
           !.answer = IF wellFormed THEN "result" ELSE "malformed"]})

takeFixedResult(s, o, length, wellFormed) ==
  Then(ensureDataPlaneOutput(s, length),
       LAMBDA t : TakeAnswer(t, o, {<<t.pointer, length>>}, wellFormed))

takeStreamResult(s, o) ==
  UNION {takeFixedResult(s, o, streamResultLength, decodeStreamResult(w) # Wrong) : w \in StreamWires}

takeBindResult(s, o) ==
  UNION {takeFixedResult(s, o, bindResultLength, decodeBindResult(w) # Wrong) : w \in BindWires}

\* The data go through the input buffer, which is made large enough for any.
takeVariableResult(s, o, metadataLength, wellFormed) ==
  LET capacity == IF o.kind = OperationUDPReceive THEN 65535 ELSE maxDataPlaneTransferBytes
  IN Then(ensureDataPlaneInput(s, capacity),
       LAMBDA d : Then(ensureDataPlaneOutput(d, metadataLength),
         LAMBDA t : TakeAnswer(t, o, {<<d.pointer, capacity>>, <<t.pointer, metadataLength>>},
                               wellFormed)))

\* The end of file flag is 0 or 1.
takeTCPReadResult(s, o) ==
  UNION {takeVariableResult(s, o, tcpReadMetadataLength, flag <= 1) : flag \in 0 .. 2}

takeUDPReceiveResult(s, o) ==
  UNION {takeVariableResult(s, o, udpReceiveMetadataLength,
           decodeSocketAddress(w.local) # Wrong /\ flag <= 1) : w \in BindWires, flag \in 0 .. 2}

takeLengthResult(s, o) == TakeAnswer(s, o, {}, TRUE)

TakeResult(s, o) ==
  CASE o.kind \in {OperationTCPConnect, OperationTCPAccept} -> takeStreamResult(s, o)
    [] o.kind \in {OperationTCPBind, OperationUDPBind}      -> takeBindResult(s, o)
    [] o.kind = OperationTCPRead                            -> takeTCPReadResult(s, o)
    [] o.kind = OperationUDPReceive                         -> takeUDPReceiveResult(s, o)
    [] o.kind \in {OperationTCPWrite, OperationUDPSend}     -> takeLengthResult(s, o)

dataPlaneCallStatus(s, done) == Answer(s, done)

\* A cancelled operation completes, unless it has already.
CancelOperation(s, o) ==
  dataPlaneCallStatus(s, IF s.guest.operations[o] # "pending" THEN s
                         ELSE [s EXCEPT !.guest.operations[o] = "completed"])

CloseResource(s)       == dataPlaneCallStatus(s, s)
SetResourceDeadline(s) == Answer(s, s)

-----------------------------------------------------------------------------
(* RPCs: rpc.go.                                                           *)

\* The second buffer takes the id of the operation.
submitRequest(request) ==
  WithBuffer(request, operationIDLength,
    LAMBDA t : Answer(t, [Touch(t, {<<request.pointer, EnvelopeLength>>,
                                    <<t.pointer, operationIDLength>>}) EXCEPT
                            !.guest.operations[[core |-> t.core, kind |-> RPC]] = "pending"]))

SubmitRPC(s) == WithBuffer(s, EnvelopeLength, submitRequest)

\* The first call asks for the length, the second one takes the response.  A
\* response that grew in between is an error and stays.
TakeRPCResponse(s, o) ==
  IF s.guest.operations[o] = "pending" THEN callOne(s, {s} \cup statusError(s))
  ELSE callOne(s, statusError(s) \cup WithBuffer(s, EnvelopeLength,
         LAMBDA t : callOne(t, statusError(t) \cup {Fail(t)} \cup
           {[Touch(Taken(t, o), {<<t.pointer, EnvelopeLength>>}) EXCEPT
               !.answer = "result"]})))

FreeRPCOperation(s, o) == Answer(s, Taken(s, o))

-----------------------------------------------------------------------------
(* The web client: web_client.go.  There is at most one in a guest.        *)

Bug_WebClientCreateUnmarked(s) ==
  IF s.web.created \/ s.web.dropped THEN {Fail(s)}
  ELSE WithBuffer(s, EnvelopeLength,
         LAMBDA t : Answer(t, [Touch(t, {<<t.pointer, EnvelopeLength>>}) EXCEPT !.guest.web = TRUE]))
WebClientCreate(s) ==
  IF s.web.created \/ s.web.dropped THEN {Fail(s)}
  ELSE WithBuffer(s, EnvelopeLength,
         LAMBDA t : Answer(t, [Touch(t, {<<t.pointer, EnvelopeLength>>}) EXCEPT
                                 !.guest.web = TRUE, !.web.created = TRUE]))

\* Drive, NotifyCompletions, NextDeadline and IsConnected.
WebClientCall(s) == Answer(s, s)

WebClientDrop(s) ==
  IF ~s.web.created \/ s.web.dropped THEN {s}
  ELSE Then(Answer(s, [s EXCEPT !.guest.web = FALSE]),
            LAMBDA t : {[t EXCEPT !.web.dropped = TRUE]})

-----------------------------------------------------------------------------
(* What internal/engine does with them.                                    *)

\* The call returned in s.
Becomes(s) ==
  /\ memory' = s.memory
  /\ cores' = s.cores
  /\ web' = s.web
  /\ guest' = s.guest
  /\ stranded' = s.stranded
  /\ overrun' = s.overrun
  /\ lost' = IF s.answer = "result" /\ s.err THEN lost + 1 ELSE lost

open(c) == engine.cores[c] = "open"

\* An instance whose Create failed is never dropped.
CreateInstance(c) ==
  /\ engine.cores[c] = "unused"
  /\ \E s \in Then(New(Now(c)), Create) :
       /\ Becomes(s)
       /\ engine' = [engine EXCEPT !.cores[c] = IF s.err THEN "failed" ELSE "open"]

DriveInstance(c) ==
  /\ open(c)
  /\ \E s \in Start(Now(c)) \cup Stop(Now(c)) \cup Drive(Now(c)) \cup NotifyCompletions(Now(c))
              \cup State(Now(c)) \cup NextDeadline(Now(c)) \cup CloseResource(Now(c))
              \cup SetResourceDeadline(Now(c)) : Becomes(s)
  /\ UNCHANGED engine

SendOnePacket(c, length) ==
  /\ open(c)
  /\ \E s \in SendPacket(Now(c), length) : Becomes(s)
  /\ UNCHANGED engine

DropInstance(c) ==
  /\ engine.cores[c] \in {"open", "failing"}
  /\ \E s \in Drop(Now(c)) :
       /\ Becomes(s)
       /\ engine' = [engine EXCEPT !.cores[c] = IF s.err THEN "kept" ELSE "done",
                       !.operations = [o \in Operations |-> IF o.core = c THEN "none" ELSE @[o]]]

\* Operations of the guest; the same id is not given out twice.
live == {o \in Operations : guest.operations[o] # "none"}

Submitted(o, calls) ==
  /\ open(o.core)
  /\ o \notin live
  /\ engine.operations[o] = "none"
  /\ Cardinality(live) < MaxOperations
  /\ \E s \in calls :
       /\ Becomes(s)
       /\ engine' = IF s.err THEN engine ELSE [engine EXCEPT !.operations[o] = "submitted"]

SubmitOperation(o, length) ==
  /\ o.kind # RPC
  /\ Submitted(o, Submit(Now(o.core), o.kind, length))

SubmitRequest(o) == o.kind = RPC /\ Submitted(o, SubmitRPC(Now(o.core)))

Cancel(o) ==
  /\ open(o.core)
  /\ engine.operations[o] = "submitted"
  /\ o.kind # RPC
  /\ \E s \in CancelOperation(Now(o.core), o) : Becomes(s)
  /\ UNCHANGED engine

\* A drive of the guest made it complete an operation.
guestCompletes(o) ==
  /\ guest.operations[o] = "pending"
  /\ guest' = [guest EXCEPT !.operations[o] = "completed"]
  /\ UNCHANGED <<memory, cores, web, engine, stranded, overrun, lost>>

\* The driver asks while it knows of a pending operation.  A completion of one it
\* does not know ends the driver.
drainCompletions(c) ==
  /\ open(c)
  /\ \E o \in Operations : o.core = c /\ o.kind # RPC /\ engine.operations[o] = "submitted"
  /\ \E s \in DrainCompletions(Now(c), completionBatch) :
       /\ Becomes(s)
       /\ engine' =
            IF s.err \/ \E o \in s.batch : engine.operations[o] = "none"
            THEN [engine EXCEPT !.cores[c] = "failing"]
            ELSE [engine EXCEPT !.operations =
                    [o \in Operations |-> IF o \in s.batch THEN "completed" ELSE @[o]]]

\* A result, or the error the completion announced, ends the operation; any other
\* error the driver.
takeResult(o) ==
  /\ open(o.core)
  /\ o.kind # RPC
  /\ engine.operations[o] = "completed"
  /\ \E s \in TakeResult(Now(o.core), o) :
       /\ Becomes(s)
       /\ \/ /\ s.answer \in {"result", "error"}
             /\ engine' = [engine EXCEPT !.operations[o] = "none"]
          \/ /\ s.err
             /\ engine' = [engine EXCEPT !.cores[o.core] = "failing"]

\* An error ends the driver.
takeRPC(o) ==
  /\ open(o.core)
  /\ o.kind = RPC
  /\ engine.operations[o] = "submitted"
  /\ \E s \in TakeRPCResponse(Now(o.core), o) :
       /\ Becomes(s)
       /\ engine' = IF s.err THEN [engine EXCEPT !.cores[o.core] = "failing"]
                    ELSE IF s.answer = "result" THEN [engine EXCEPT !.operations[o] = "none"]
                    ELSE engine

\* After an error the RPC stays pending.
freeRPC(o) ==
  /\ open(o.core)
  /\ o.kind = RPC
  /\ engine.operations[o] = "submitted"
  /\ \E s \in FreeRPCOperation(Now(o.core), o) :
       /\ Becomes(s)
       /\ engine' = IF s.err THEN engine ELSE [engine EXCEPT !.operations[o] = "none"]

CreateWebClient ==
  /\ engine.web = "unused"
  /\ \E s \in Then(New(Now(0)), WebClientCreate) :
       /\ Becomes(s)
       /\ engine' = [engine EXCEPT !.web = IF s.err THEN "failed" ELSE "open"]

DriveWebClient ==
  /\ engine.web = "open"
  /\ \E s \in WebClientCall(Now(0)) : Becomes(s)
  /\ UNCHANGED engine

DropWebClient ==
  /\ engine.web = "open"
  /\ \E s \in WebClientDrop(Now(0)) :
       /\ Becomes(s)
       /\ engine' = [engine EXCEPT !.web = IF s.err THEN "kept" ELSE "done"]

Next ==
  \/ \E c \in Cores : CreateInstance(c)
  \/ \E c \in Cores : DriveInstance(c)
  \/ \E c \in Cores, length \in PacketLengths : SendOnePacket(c, length)
  \/ \E c \in Cores : DropInstance(c)
  \/ \E o \in Operations, length \in PacketLengths \cup {0} : SubmitOperation(o, length)
  \/ \E o \in Operations : SubmitRequest(o)
  \/ \E o \in Operations : Cancel(o)
  \/ \E o \in Operations : guestCompletes(o)
  \/ \E c \in Cores : drainCompletions(c)
  \/ \E o \in Operations : takeResult(o)
  \/ \E o \in Operations : takeRPC(o)
  \/ \E o \in Operations : freeRPC(o)
  \/ CreateWebClient
  \/ DriveWebClient
  \/ DropWebClient

Spec == Init /\ [][Next]_vars

-----------------------------------------------------------------------------
(* Properties.                                                             *)

held == {[core |-> c, buffer |-> b] : c \in Cores, b \in Buffers}
heldAt(h) == cores[h.core].buffer[h.buffer]

\* A buffer a Core keeps is a live one of at least the recorded size, that of the
\* address as large as an address; so is one the guest has refused to take back.
BuffersAreLive ==
  /\ \A h \in held :
       IF heldAt(h).pointer = 0 THEN heldAt(h) = NoBuffer
       ELSE /\ heldAt(h).capacity > 0
            /\ memory[heldAt(h).pointer] >= heldAt(h).capacity
            /\ h.buffer = "address" => heldAt(h).capacity = socketAddressLength
  /\ \A p \in stranded : memory[p] # 0

\* No two of them are the same: the Cores share the memory of one guest.
BuffersAreDistinct ==
  \A h, g \in held : (h # g /\ heldAt(h).pointer # 0) => heldAt(h).pointer # heldAt(g).pointer

\* The guest has no buffer that the host has forgotten, except one that it has
\* refused to take back; a dropped Core has none.
NoGuestLeak ==
  /\ \A p \in Pointers : memory[p] # 0 => p \in stranded \/ \E h \in held : heldAt(h).pointer = p
  /\ \A h \in held : cores[h.core].dropped => heldAt(h) = NoBuffer

\* Each time the guest is given a pointer and a length, those bytes are in a
\* live buffer, also after calls that failed half way through growing one.
GuestStaysInBuffer == ~overrun

\* What the callers believe: a Core or a web client they use has a handle, and the
\* guest has nothing of one that was not created, or whose Drop returned nil.
CallersAgree ==
  /\ \A c \in Cores :
       /\ engine.cores[c] \in {"open", "failing"} => cores[c].handle # 0 /\ ~cores[c].dropped
       /\ engine.cores[c] \in {"unused", "done"} => c \notin guest.instances
       /\ engine.cores[c] = "unused" => ~cores[c].dropped
  /\ \A o \in live : engine.cores[o.core] # "unused"
  /\ engine.web = "open" => web.created /\ ~web.dropped
  /\ engine.web \in {"unused", "done"} => ~guest.web

\* Host and guest agree on who owns which part of the guest's memory, and every
\* call stays within it.
Consistent ==
  /\ TypeOK
  /\ BuffersAreLive
  /\ BuffersAreDistinct
  /\ NoGuestLeak
  /\ GuestStaysInBuffer
  /\ CallersAgree

\* Instances, a web client and operations that are in the guest, and that no
\* caller has: their submit or create returned an error, or they were reported
\* as dropped.
Orphans ==
  {c \in guest.instances : engine.cores[c] \in {"failed", "done"}}
  \cup {o \in live : engine.cores[o.core] = "open" /\ engine.operations[o] = "none"}
  \cup {w \in {"web"} : guest.web /\ engine.web \in {"failed", "done"}}

\* The buffers the guest has refused to take back, and no Core keeps.
forgotten == {p \in stranded : \A h \in held : heldAt(h).pointer # p}

\* What a failing call loses.  The guest keeps an instance or an operation whose
\* caller got an error, or gives away a response nobody receives, only when it
\* also refused to take a buffer back, and at most once for each such buffer.
\* Every other failure leaves the guest as the caller believes it to be.
NothingLost ==
  IsFiniteSet(Orphans) /\ Cardinality(Orphans) + lost <= Cardinality(forgotten)

=============================================================================
