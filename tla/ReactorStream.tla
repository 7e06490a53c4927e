---------------------------- MODULE ReactorStream ----------------------------
(***************************************************************************)
(* Stream operations of internal/reactor: stream.go with the parts of      *)
(* CancelOperation, CloseHandle and Close (reactor.go) that touch streams. *)
(*                                                                         *)
(* Reads.  The waiters of a stream form a FIFO.  At most one goroutine     *)
(* (runStreamRead) is inside connection.Read; what it read is kept in the  *)
(* stream, not in the waiter, so that a waiter may be cancelled before or  *)
(* after the read finished and the next waiter still gets the bytes.  A    *)
(* waiter whose buffer is smaller takes part of them.                      *)
(*                                                                         *)
(* Writes.  The requests of a stream form a FIFO that one goroutine        *)
(* (runStreamWrites) drains.  The request being written cannot be          *)
(* withdrawn: cancelling it only forgets its result.                       *)
(*                                                                         *)
(* Data.  The peer of every stream sends the bytes 1, 2, .. MaxBytes, so a *)
(* byte is its position in the stream.  A write's payload does not matter; *)
(* whether the connection accepted all of it does.                         *)
(*                                                                         *)
(* Definitions named Bug_... are plausible mistakes in the definition that *)
(* follows them; nothing uses them but the mutation runs.                  *)
(***************************************************************************)
EXTENDS ReactorCore

CONSTANTS
  Streams,     \* streams, each identified with its handle
  ReadOps,     \* ids the guest starts reads under
  WriteOps,    \* ids the guest starts writes under
  Slots,       \* how many writeOperations of one id can be live at once
  Capacities,  \* buffer sizes the guest reads with
  MaxBytes     \* bytes the peer of a stream sends before EOF

ASSUME CapacitiesAssumption == Capacities \subseteq Nat \ {0}
ASSUME MaxBytesAssumption   == MaxBytes \in Nat
ASSUME OpsAssumption        == ReadOps \subseteq Ops /\ WriteOps \subseteq Ops

\* Addresses of writeOperations.  An id can have several of them: the one that
\* is registered and those that were cancelled while being written.
Requests == WriteOps \X Slots

ASSUME NilAssumption == Nil \notin Requests

VARIABLES
  streams,      \* handles in Reactor.streams
  streamClosed, \* streamState.closed
  conn,         \* streamState.connection: open, being closed, or closed
  readQueue,    \* streamState.readQueue; a waiter is named by its operation
  readRunning,  \* streamState.readRunning
  readReady,    \* streamState.readReady
  readData,     \* streamState.readData
  readErr,      \* streamState.readErr
  reads,        \* Reactor.reads: the stream and the capacity of a waiter
  readers,      \* number of runStreamRead goroutines of a stream
  readSize,     \* buffer size of the goroutine launched last
  writeQueue,   \* streamState.writeQueue
  writeRunning, \* streamState.writeRunning
  writeActive,  \* streamState.writeActive
  writes,       \* Reactor.writes
  request,      \* the writeOperation at an address, Nil when it is garbage
  writers,      \* number of runStreamWrites goroutines of a stream
  bytesRead,    \* history: bytes taken off the connection so far
  delivered,    \* history: bytes TakeRead returned to the guest so far
  toldEOF,      \* history: TakeRead returned no bytes and no error
  accepted      \* history: requests whose bytes the connection accepted

readVars  == <<readQueue, readRunning, readReady, readData, readErr, reads,
               readers, readSize>>
writeVars == <<writeQueue, writeRunning, writeActive, writes, request, writers,
               accepted>>
history   == <<bytesRead, delivered, toldEOF>>
handles   == <<streams, streamClosed, conn>>
vars      == <<coreVars, handles, readVars, writeVars, history>>

Waiters == [stream : Streams, capacity : Capacities]

ASSUME NilWaiterAssumption == Nil \notin Waiters

\* A net.Conn moves to "closed" when Close returns.  Until then it matters who
\* is closing it: Reactor.Close waits for its own calls, not for CloseHandle's.
ConnStates == {"open", "handleClosing", "reactorClosing", "closed"}

ReadErrors  == {"nil", "EOF", "error"}
WriteErrors == {"nil", "ErrClosed", "error"}

\* The operation field is the first component of the address.
WriteOperations == [stream : Streams, done : BOOLEAN, err : WriteErrors]

ASSUME NilOperationAssumption == Nil \notin WriteOperations

\* Every variable holds a value of its Go type.
TypeOK ==
  /\ CoreTypeOK
  /\ streams \subseteq Streams
  /\ streamClosed \in [Streams -> BOOLEAN]
  /\ conn \in [Streams -> ConnStates]
  /\ readQueue \in [Streams -> Seq(Ops)]
  /\ readRunning \in [Streams -> BOOLEAN]
  /\ readReady \in [Streams -> BOOLEAN]
  /\ readData \in [Streams -> Seq(1..MaxBytes)]
  /\ readErr \in [Streams -> ReadErrors]
  /\ reads \in [Ops -> Waiters \cup {Nil}]
  /\ readers \in [Streams -> Nat]
  /\ readSize \in [Streams -> Capacities \cup {0}]
  /\ writeQueue \in [Streams -> Seq(Requests)]
  /\ writeRunning \in [Streams -> BOOLEAN]
  /\ writeActive \in [Streams -> Requests \cup {Nil}]
  /\ writes \in [Ops -> Requests \cup {Nil}]
  /\ request \in [Requests -> WriteOperations \cup {Nil}]
  /\ writers \in [Streams -> Nat]
  /\ bytesRead \in [Streams -> 0..MaxBytes]
  /\ delivered \in [Streams -> Seq(1..MaxBytes)]
  /\ toldEOF \in [Streams -> BOOLEAN]
  /\ accepted \subseteq Requests

\* New with every stream in Options.InitialStreams.
Init ==
  /\ CoreInit
  /\ streams = Streams
  /\ streamClosed = [s \in Streams |-> FALSE]
  /\ conn = [s \in Streams |-> "open"]
  /\ readQueue = [s \in Streams |-> <<>>]
  /\ readRunning = [s \in Streams |-> FALSE]
  /\ readReady = [s \in Streams |-> FALSE]
  /\ readData = [s \in Streams |-> <<>>]
  /\ readErr = [s \in Streams |-> "nil"]
  /\ reads = [op \in Ops |-> Nil]
  /\ readers = [s \in Streams |-> 0]
  /\ readSize = [s \in Streams |-> 0]
  /\ writeQueue = [s \in Streams |-> <<>>]
  /\ writeRunning = [s \in Streams |-> FALSE]
  /\ writeActive = [s \in Streams |-> Nil]
  /\ writes = [op \in Ops |-> Nil]
  /\ request = [r \in Requests |-> Nil]
  /\ writers = [s \in Streams |-> 0]
  /\ bytesRead = [s \in Streams |-> 0]
  /\ delivered = [s \in Streams |-> <<>>]
  /\ toldEOF = [s \in Streams |-> FALSE]
  /\ accepted = {}

-----------------------------------------------------------------------------
(* Helpers called with reactor.mu held.                                    *)

readAvailableLocked(s) == readReady[s] \/ (streamClosed[s] /\ ~readRunning[s])

\* prepareStreamReadLocked decides whether to read.  It comes last in every
\* critical section, hence the primed flag and queue.
Bug_mayReadStale(s) ==
  ~closed /\ ~streamClosed[s] /\ ~readRunning[s] /\ ~readReady[s] /\ readQueue'[s] # <<>>
mayRead(s) ==
  /\ ~closed
  /\ ~streamClosed[s]
  /\ ~readRunning[s]
  /\ ~readReady'[s]
  /\ readQueue'[s] # <<>>

\* prepareStreamReadLocked and the launch that follows the unlock.
prepareStreamReadLocked(s) ==
  /\ readRunning' = [readRunning EXCEPT ![s] = @ \/ mayRead(s)]
  /\ readers' = [readers EXCEPT ![s] = IF mayRead(s) THEN @ + 1 ELSE @]
  /\ readSize' = [readSize EXCEPT
                    ![s] = IF mayRead(s) THEN reads'[Head(readQueue'[s])].capacity
                                         ELSE @]

\* The next waiter became the first one: is there something to take for it?
Bug_nextReadableOpenOnly(s) == readQueue'[s] # <<>> /\ readReady'[s]
nextReadable(s) ==
  /\ readQueue'[s] # <<>>
  /\ readReady'[s] \/ (streamClosed[s] /\ ~readRunning[s])

\* removeReadOperation and removeWriteOperation: the first occurrence goes,
\* the rest keeps its order.
removeOperation(queue, x) ==
  IF Contains(queue, x)
  THEN RemoveAt(queue, CHOOSE i \in DOMAIN queue :
                         /\ queue[i] = x
                         /\ \A j \in 1..(i - 1) : queue[j] # x)
  ELSE queue

-----------------------------------------------------------------------------
(* Reads.                                                                  *)

StartRead(s, op, capacity) ==
  /\ s \in streams
  /\ claimOperationLocked(op, "read")
  /\ reads' = [reads EXCEPT ![op] = [stream |-> s, capacity |-> capacity]]
  /\ readQueue' = [readQueue EXCEPT ![s] = Append(@, op)]
  /\ UNCHANGED <<readReady, readData, readErr>>
  /\ prepareStreamReadLocked(s)
  /\ signalAfterUnlock(readAvailableLocked(s))
  /\ parked' = parked \cup {op}
  /\ UNCHANGED <<closed, closeDone, completion, handles, writeVars, history>>

\* What runStreamRead stores: the n bytes that follow those read before,
\* whether or not anybody still waits for them.
Bug_storedForWaiter(s, n) ==
  IF readQueue[s] = <<>> THEN <<>> ELSE [i \in 1..n |-> bytesRead[s] + i]
stored(s, n) == [i \in 1..n |-> bytesRead[s] + i]

\* runStreamRead: connection.Read returned n bytes and err, and the goroutine
\* published them.  A net.Conn never returns 0 bytes without an error for a
\* non-empty buffer, and EOF only after everything the peer sent.
runStreamRead(s, n, err) ==
  /\ readers[s] > 0
  /\ n <= readSize[s]
  /\ bytesRead[s] + n <= MaxBytes
  /\ n = 0 => err # "nil"
  /\ err = "EOF" => bytesRead[s] + n = MaxBytes
  /\ readers' = [readers EXCEPT ![s] = @ - 1]
  /\ bytesRead' = [bytesRead EXCEPT ![s] = @ + n]
  /\ readRunning' = [readRunning EXCEPT ![s] = FALSE]
  /\ readData' = [readData EXCEPT ![s] = stored(s, n)]
  /\ readErr' = [readErr EXCEPT ![s] = err]
  /\ readReady' = [readReady EXCEPT ![s] = TRUE]
  /\ signalAfterUnlock(readQueue[s] # <<>>)
  /\ UNCHANGED <<closed, closeDone, operations, completion, parked, handles,
                 readQueue, reads, readSize, writeVars, delivered, toldEOF>>

\* The conditions under which TakeRead has a result for op.
TakeReadReady(op) ==
  /\ operations[op] = "read"
  /\ reads[op] # Nil
  /\ LET s == reads[op].stream
     IN  /\ readQueue[s] # <<>>
         /\ Head(readQueue[s]) = op
         /\ readAvailableLocked(s)

\* How many of the stored bytes fit into the waiter's buffer, whether that is
\* all of them, and the error TakeRead returns: a stored one comes with the
\* last stored byte.
takeCount(op) ==
  LET s == reads[op].stream
  IN  IF ~readReady[s] THEN 0
      ELSE IF Len(readData[s]) > reads[op].capacity THEN reads[op].capacity
      ELSE Len(readData[s])
takeAll(op) ==
  readReady[reads[op].stream] /\ takeCount(op) = Len(readData[reads[op].stream])
takeErr(op) ==
  IF ~readReady[reads[op].stream] THEN "ErrClosed"
  ELSE IF takeAll(op) THEN readErr[reads[op].stream] ELSE "nil"

TakeRead(op) ==
  /\ TakeReadReady(op)
  /\ LET s == reads[op].stream
     IN  /\ delivered' = [delivered EXCEPT ![s] = @ \o SubSeq(readData[s], 1, takeCount(op))]
         /\ toldEOF' = [toldEOF EXCEPT
                          ![s] = @ \/ (takeCount(op) = 0 /\ takeErr(op) \in {"nil", "EOF"})]
         /\ readData' = [readData EXCEPT ![s] = SubSeq(@, takeCount(op) + 1, Len(@))]
         /\ readErr' = [readErr EXCEPT ![s] = IF takeAll(op) THEN "nil" ELSE @]
         /\ readReady' = [readReady EXCEPT ![s] = @ /\ ~takeAll(op)]
         /\ readQueue' = [readQueue EXCEPT ![s] = Tail(@)]
         /\ reads' = [reads EXCEPT ![op] = Nil]
         /\ releaseOperationLocked(op, "read")
         /\ prepareStreamReadLocked(s)
         /\ signalAfterUnlock(nextReadable(s))
  /\ parked' = parked \ {op}
  /\ UNCHANGED <<closed, closeDone, completion, handles, writeVars, bytesRead>>

\* TakeRead answers ErrPending: the guest goes on waiting.
TakeReadPending(op) ==
  /\ operations[op] = "read"
  /\ ~TakeReadReady(op)
  /\ parked' = parked \cup {op}
  /\ UNCHANGED <<closed, closeDone, operations, completion, signalDue, handles,
                 readVars, writeVars, history>>

\* CancelOperation of a read: cancelStreamReadLocked.
CancelRead(op) ==
  /\ operations[op] = "read"
  /\ operations' = [operations EXCEPT ![op] = "none"]
  /\ LET s        == reads[op].stream
         wasFirst == readQueue[s] # <<>> /\ Head(readQueue[s]) = op
     IN  /\ reads' = [reads EXCEPT ![op] = Nil]
         /\ readQueue' = [readQueue EXCEPT ![s] = removeOperation(@, op)]
         /\ UNCHANGED <<readReady, readData, readErr>>
         /\ prepareStreamReadLocked(s)
         /\ signalAfterUnlock(wasFirst /\ nextReadable(s))
  /\ parked' = parked \ {op}
  /\ UNCHANGED <<closed, closeDone, completion, handles, writeVars, history>>

-----------------------------------------------------------------------------
(* Writes.                                                                 *)

\* The address of a new writeOperation: one that nothing live has.  Which one
\* it is makes no difference; reusing one at once is what puts the comparison
\* of addresses in runStreamWrites to the test.
free(op) == {slot \in Slots : request[<<op, slot>>] = Nil}
newRequest(op) == <<op, CHOOSE slot \in free(op) : TRUE>>

StartWrite(s, op) ==
  /\ s \in streams
  /\ claimOperationLocked(op, "write")
  /\ free(op) # {}
  /\ request' = [request EXCEPT ![newRequest(op)] =
                   [stream |-> s, done |-> FALSE, err |-> "nil"]]
  /\ writes' = [writes EXCEPT ![op] = newRequest(op)]
  /\ writeQueue' = [writeQueue EXCEPT ![s] = Append(@, newRequest(op))]
  /\ writers' = [writers EXCEPT ![s] = IF writeRunning[s] THEN @ ELSE @ + 1]
  /\ writeRunning' = [writeRunning EXCEPT ![s] = TRUE]
  /\ parked' = parked \cup {op}
  /\ UNCHANGED <<closed, closeDone, completion, signalDue, handles, readVars,
                 writeActive, accepted, history>>

\* runStreamWrites, top of the loop: take the next request off the queue ...
beginWrite(s) ==
  /\ writers[s] > 0
  /\ writeActive[s] = Nil
  /\ ~closed
  /\ writeQueue[s] # <<>>
  /\ writeActive' = [writeActive EXCEPT ![s] = Head(writeQueue[s])]
  /\ writeQueue' = [writeQueue EXCEPT ![s] = Tail(@)]
  /\ UNCHANGED <<coreVars, handles, readVars, writeRunning, writes, request,
                 writers, accepted, history>>

\* ... or leave when there is none or the reactor is closed.
Bug_exitWritesRunning(s) ==
  /\ writers[s] > 0
  /\ writeActive[s] = Nil
  /\ closed \/ writeQueue[s] = <<>>
  /\ writers' = [writers EXCEPT ![s] = @ - 1]
  /\ UNCHANGED <<coreVars, handles, readVars, writeQueue, writeRunning, writeActive,
                 writes, request, accepted, history>>
exitWrites(s) ==
  /\ writers[s] > 0
  /\ writeActive[s] = Nil
  /\ closed \/ writeQueue[s] = <<>>
  /\ writeQueue' = [writeQueue EXCEPT ![s] = <<>>]
  /\ writeRunning' = [writeRunning EXCEPT ![s] = FALSE]
  /\ writers' = [writers EXCEPT ![s] = @ - 1]
  /\ UNCHANGED <<coreVars, handles, readVars, writeActive, writes, request,
                 accepted, history>>

\* runStreamWrites, bottom of the loop: the connection accepted all of the
\* request (err = "nil") or failed.  The result is recorded only if this
\* very request is still the one registered for its id.
finishWrite(s, err) ==
  /\ writers[s] > 0
  /\ writeActive[s] # Nil
  /\ LET r     == writeActive[s]
         op    == r[1]
         ready == writes[op] = r /\ operations[op] = "write"
     IN  /\ request' = [request EXCEPT
                          ![r] = IF ready THEN [@ EXCEPT !.done = TRUE, !.err = err]
                                          ELSE Nil]
         /\ accepted' = IF ready /\ err = "nil" THEN accepted \cup {r} ELSE accepted
         /\ signalAfterUnlock(ready)
  /\ writeActive' = [writeActive EXCEPT ![s] = Nil]
  /\ UNCHANGED <<closed, closeDone, operations, completion, parked, handles,
                 readVars, writeQueue, writeRunning, writes, writers, history>>

\* The conditions under which TakeWrite has a result for op.
TakeWriteReady(op) ==
  /\ operations[op] = "write"
  /\ writes[op] # Nil
  /\ request[writes[op]].done

TakeWrite(op) ==
  /\ TakeWriteReady(op)
  /\ writes' = [writes EXCEPT ![op] = Nil]
  /\ request' = [request EXCEPT ![writes[op]] = Nil]
  /\ accepted' = accepted \ {writes[op]}
  /\ releaseOperationLocked(op, "write")
  /\ parked' = parked \ {op}
  /\ UNCHANGED <<closed, closeDone, completion, signalDue, handles, readVars,
                 writeQueue, writeRunning, writeActive, writers, history>>

\* TakeWrite answers ErrPending: the guest goes on waiting.
TakeWritePending(op) ==
  /\ operations[op] = "write"
  /\ ~TakeWriteReady(op)
  /\ parked' = parked \cup {op}
  /\ UNCHANGED <<closed, closeDone, operations, completion, signalDue, handles,
                 readVars, writeVars, history>>

\* CancelOperation of a write: cancelStreamWriteLocked.  The request being
\* written stays with its goroutine, any other one becomes garbage.
CancelWrite(op) ==
  /\ operations[op] = "write"
  /\ operations' = [operations EXCEPT ![op] = "none"]
  /\ writes' = [writes EXCEPT ![op] = Nil]
  /\ LET r == writes[op]
         s == request[r].stream
     IN  \/ /\ writeActive[s] = r
            /\ UNCHANGED <<writeQueue, request>>
         \/ /\ writeActive[s] # r
            /\ writeQueue' = [writeQueue EXCEPT ![s] = removeOperation(@, r)]
            /\ request' = [request EXCEPT ![r] = Nil]
  /\ accepted' = accepted \ {writes[op]}
  /\ parked' = parked \ {op}
  /\ UNCHANGED <<closed, closeDone, completion, signalDue, handles, readVars,
                 writeRunning, writeActive, writers, history>>

-----------------------------------------------------------------------------
(* Closing.                                                                *)

\* The queued requests closeStreamLocked completes with net.ErrClosed.
Bug_unbegunNone(s) == {}
unbegun(s) == {r \in ToSet(writeQueue[s]) : writes[r[1]] = r}

\* CloseHandle up to its unlock, with closeStreamLocked: requests that no
\* goroutine has begun to write fail here, waiting readers are signalled.
CloseHandle(s) ==
  /\ s \in streams
  /\ streams' = streams \ {s}
  /\ streamClosed' = [streamClosed EXCEPT ![s] = TRUE]
  /\ request' = [r \in Requests |->
                   IF r \in unbegun(s)
                   THEN [request[r] EXCEPT !.done = TRUE, !.err = "ErrClosed"]
                   ELSE request[r]]
  /\ writeQueue' = [writeQueue EXCEPT ![s] = <<>>]
  /\ conn' = [conn EXCEPT ![s] = "handleClosing"]
  /\ signalAfterUnlock(\/ readQueue[s] # <<>> /\ (readReady[s] \/ ~readRunning[s])
                       \/ unbegun(s) # {})
  /\ UNCHANGED <<closed, closeDone, operations, completion, parked, readVars,
                 writeRunning, writeActive, writes, writers, accepted, history>>

\* stream.connection.Close() returns, called by CloseHandle or by Close.
CloseConnection(s) ==
  /\ conn[s] \in {"handleClosing", "reactorClosing"}
  /\ conn' = [conn EXCEPT ![s] = "closed"]
  /\ UNCHANGED <<coreVars, streams, streamClosed, readVars, writeVars, history>>

\* Close goes on to close the connection of every stream that has a handle.
connAfterClose(s) == IF s \in streams THEN "reactorClosing" ELSE conn[s]

\* Close up to its unlock, with shutdownLocked for every live stream.  The
\* requests still being written are all that is left of the writes.
Close ==
  /\ ~closed
  /\ closed' = TRUE
  /\ streams' = {}
  /\ streamClosed' = [s \in Streams |-> streamClosed[s] \/ s \in streams]
  /\ conn' = [s \in Streams |-> connAfterClose(s)]
  /\ readQueue' = [s \in Streams |-> IF s \in streams THEN <<>> ELSE readQueue[s]]
  /\ writeQueue' = [s \in Streams |-> IF s \in streams THEN <<>> ELSE writeQueue[s]]
  /\ operations' = [op \in Ops |-> "none"]
  /\ reads' = [op \in Ops |-> Nil]
  /\ writes' = [op \in Ops |-> Nil]
  /\ request' = [r \in Requests |-> IF \E s \in Streams : writeActive[s] = r
                                    THEN request[r] ELSE Nil]
  /\ accepted' = {}
  /\ UNCHANGED <<closeDone, completion, signalDue, parked, readRunning, readReady,
                 readData, readErr, readers, readSize, writeRunning, writeActive,
                 writers, history>>

\* Close has closed its connections, workers.Wait() returned, and closeDone is
\* closed, which also releases every other caller of Close.
CloseReturns ==
  /\ closed
  /\ ~closeDone
  /\ \A s \in Streams : conn[s] # "reactorClosing"
  /\ \A s \in Streams : readers[s] = 0 /\ writers[s] = 0
  /\ closeDone' = TRUE
  /\ UNCHANGED <<closed, operations, completion, signalDue, parked, handles,
                 readVars, writeVars, history>>

\* Nothing is left to do.
Terminated == closeDone /\ UNCHANGED vars

-----------------------------------------------------------------------------

signal == signalCompletion /\ UNCHANGED <<handles, readVars, writeVars, history>>

notify == NotifyGuest /\ UNCHANGED <<handles, readVars, writeVars, history>>

readReturns(s) ==
  \E n \in 0..MaxBytes, err \in ReadErrors : runStreamRead(s, n, err)

writeReturns(s) == \E err \in {"nil", "error"} : finishWrite(s, err)

Next ==
  \/ \E s \in Streams, op \in ReadOps, capacity \in Capacities : StartRead(s, op, capacity)
  \/ \E s \in Streams : readReturns(s)
  \/ \E op \in ReadOps : TakeRead(op)
  \/ \E op \in ReadOps : TakeReadPending(op)
  \/ \E op \in ReadOps : CancelRead(op)
  \/ \E s \in Streams, op \in WriteOps : StartWrite(s, op)
  \/ \E s \in Streams : beginWrite(s)
  \/ \E s \in Streams : exitWrites(s)
  \/ \E s \in Streams : writeReturns(s)
  \/ \E op \in WriteOps : TakeWrite(op)
  \/ \E op \in WriteOps : TakeWritePending(op)
  \/ \E op \in WriteOps : CancelWrite(op)
  \/ \E s \in Streams : CloseHandle(s)
  \/ \E s \in Streams : CloseConnection(s)
  \/ Close
  \/ CloseReturns
  \/ signal
  \/ notify
  \/ Terminated

Spec == Init /\ [][Next]_vars

\* Goroutines that are runnable run.  A blocked Read or Write returns once its
\* connection is closed, and need not return before.  The guest polls what it
\* was notified about; it never has to start, cancel or close anything.
Fairness ==
  /\ WF_vars(signal)
  /\ WF_vars(notify)
  /\ WF_vars(CloseReturns)
  /\ \A s \in Streams :
       /\ WF_vars(CloseConnection(s))
       /\ WF_vars(beginWrite(s))
       /\ WF_vars(exitWrites(s))
       /\ WF_vars(conn[s] = "closed" /\ readReturns(s))
       /\ WF_vars(conn[s] = "closed" /\ writeReturns(s))
  /\ \A op \in Ops :
       /\ WF_vars(op \notin parked /\ (TakeRead(op) \/ TakeReadPending(op)))
       /\ WF_vars(op \notin parked /\ (TakeWrite(op) \/ TakeWritePending(op)))

FairSpec == Spec /\ Fairness

-----------------------------------------------------------------------------
(* Properties.                                                             *)

\* While the reactor is open, the three places that know a read agree: an id is
\* claimed for a read iff it has a waiter, and the waiter stands exactly once
\* in the queue of its own stream and in no other queue.  (claim, take, cancel
\* and the queue surgery of removeReadOperation.)
ReadsRegistered ==
  ~closed =>
    /\ \A op \in Ops : (operations[op] = "read") <=> (reads[op] # Nil)
    /\ \A s \in Streams : \A i \in 1..Len(readQueue[s]) :
         /\ reads[readQueue[s][i]] # Nil
         /\ reads[readQueue[s][i]].stream = s
         /\ \A j \in 1..Len(readQueue[s]) :
              readQueue[s][i] = readQueue[s][j] => i = j
    /\ \A op \in Ops : reads[op] # Nil =>
         \E i \in 1..Len(readQueue[reads[op].stream]) :
           readQueue[reads[op].stream][i] = op

\* At most one goroutine is inside connection.Read of a stream, and none while
\* an unconsumed result is stored: otherwise runStreamRead would overwrite
\* readData and bytes would vanish.
SingleReader ==
  \A s \in Streams :
    /\ readers[s] = IF readRunning[s] THEN 1 ELSE 0
    /\ readRunning[s] => ~readReady[s]
    /\ ~readReady[s] => readData[s] = <<>>

\* What the guest got, followed by what the stream still stores, is exactly the
\* prefix of the peer's bytes that was taken off the connection: whatever was
\* cancelled, partially taken or closed, no byte is lost, repeated or moved.
StreamIntegrity ==
  \A s \in Streams :
    /\ Len(delivered[s]) + Len(readData[s]) = bytesRead[s]
    /\ \A i \in 1..Len(delivered[s]) : delivered[s][i] = i
    /\ \A i \in 1..Len(readData[s]) : readData[s][i] = Len(delivered[s]) + i

\* An empty result without an error, which the guest takes for end of file, is
\* only ever given when the guest already has everything the peer sent.
EOFIsTrue ==
  \A s \in Streams : toldEOF[s] => Len(delivered[s]) = MaxBytes

\* A reader that waits on an open reactor is never left without anybody who
\* will complete it: a read is running, a result is stored, or the stream is
\* closed (TakeRead then answers ErrClosed).
NoStuckRead ==
  \A s \in Streams :
    (~closed /\ readQueue[s] # <<>>) =>
      readRunning[s] \/ readReady[s] \/ streamClosed[s]

\* A guest that waits without polling for an operation whose result is there
\* has a token in the completion channel, or a goroutine about to put one in.
NoLostWakeup ==
  \A op \in parked :
    (TakeReadReady(op) \/ TakeWriteReady(op)) => completion \/ signalDue

\* One goroutine writes to a stream, so that requests reach the connection one
\* after the other; it is there whenever a request is queued or being written;
\* and no request is both queued and being written, or queued twice.
SingleWriter ==
  \A s \in Streams :
    /\ writers[s] = IF writeRunning[s] THEN 1 ELSE 0
    /\ (writeQueue[s] # <<>> \/ writeActive[s] # Nil) => writeRunning[s]
    /\ \A i \in 1..Len(writeQueue[s]) :
         /\ writeQueue[s][i] # writeActive[s]
         /\ \A j \in 1..Len(writeQueue[s]) :
              writeQueue[s][i] = writeQueue[s][j] => i = j

\* Every registered write is either finished or in the hands of the stream it
\* was started on, and it counts as successful only if the connection accepted
\* this very request: a late completion never lands on a reused id.
WriteAccounted ==
  \A op \in Ops : writes[op] # Nil =>
    LET r == writes[op]
        w == request[r]
    IN  /\ w # Nil
        /\ r[1] = op
        /\ operations[op] = "write"
        /\ w.done \/ writeActive[w.stream] = r \/ r \in ToSet(writeQueue[w.stream])
        /\ (w.done /\ w.err = "nil") => r \in accepted

\* Once Close has returned no goroutine is left inside a connection and every
\* connection the reactor owned has been closed or is in CloseHandle's hands.
CloseIsFinal ==
  closeDone => \A s \in Streams : readers[s] = 0 /\ writers[s] = 0 /\ conn[s] # "open"

(* The inductive invariant: the properties above, and what connects them.   *)

\* A stream is closed exactly when its handle is gone, and then it has no queued
\* write; a closed reactor has neither handles nor operations; Close returns
\* after the last worker.
HandlesConsistent ==
  /\ \A s \in Streams : streamClosed[s] <=> s \notin streams
  /\ \A s \in Streams : conn[s] = "open" <=> s \in streams
  /\ \A s \in Streams : streamClosed[s] => writeQueue[s] = <<>>
  /\ closed => /\ streams = {}
               /\ \A op \in Ops : operations[op] = "none" /\ reads[op] = Nil /\ writes[op] = Nil
  /\ closeDone => closed /\ \A s \in Streams : readers[s] = 0 /\ writers[s] = 0

\* A stored EOF means that the whole stream was read, and a stored result
\* without an error holds at least one byte.
ResultMeaningful ==
  \A s \in Streams : readReady[s] =>
    /\ readErr[s] = "EOF" => bytesRead[s] = MaxBytes
    /\ readErr[s] = "nil" => readData[s] # <<>>

\* An id is claimed for a write iff it has a request of its own, a live one.
WritesRegistered ==
  \A op \in Ops :
    /\ (operations[op] = "write") <=> (writes[op] # Nil)
    /\ writes[op] # Nil => writes[op][1] = op /\ request[writes[op]] # Nil

\* The request being written is live, unfinished and on this stream.
ActiveIsLive ==
  \A s \in Streams : writeActive[s] # Nil =>
    /\ request[writeActive[s]] # Nil
    /\ request[writeActive[s]].stream = s
    /\ ~request[writeActive[s]].done

\* So are the queued ones, and they are still registered.
QueuedAreLive ==
  \A s \in Streams : \A i \in 1..Len(writeQueue[s]) :
    /\ request[writeQueue[s][i]] # Nil
    /\ request[writeQueue[s][i]].stream = s
    /\ ~request[writeQueue[s][i]].done
    /\ writes[writeQueue[s][i][1]] = writeQueue[s][i]

\* A live request is finished, being written by its stream, or queued there; it
\* is finished only while it is the one registered for its id, and successful
\* only if the connection accepted it.
RequestsHeld ==
  \A r \in Requests : request[r] # Nil =>
    /\ request[r].done => writes[r[1]] = r
    /\ (request[r].done /\ request[r].err = "nil") => r \in accepted
    /\ \/ request[r].done
       \/ writeActive[request[r].stream] = r
       \/ \E i \in 1..Len(writeQueue[request[r].stream]) :
            writeQueue[request[r].stream][i] = r

\* The inductive invariant.  Registrations, queues, goroutines and stored
\* results of stream.go agree at every unlock; each handler relies on all of it.
Inv ==
  /\ TypeOK
  /\ HandlesConsistent
  /\ ReadsRegistered
  /\ SingleReader
  /\ StreamIntegrity
  /\ ResultMeaningful
  /\ EOFIsTrue
  /\ NoStuckRead
  /\ SingleWriter
  /\ WritesRegistered
  /\ ActiveIsLive
  /\ QueuedAreLive
  /\ RequestsHeld
  /\ NoLostWakeup

\* Close returns: closing the connections frees every worker.
CloseTerminates == closed ~> closeDone

\* After CloseHandle every operation of the stream comes to an end, queued
\* writes and waiting readers included, although the guest only polls what it
\* is notified about.
ClosedHandleDrains ==
  \A op \in Ops :
    /\ (reads[op] # Nil /\ streamClosed[reads[op].stream]) ~> (operations[op] = "none")
    /\ (writes[op] # Nil /\ streamClosed[request[writes[op]].stream])
         ~> (operations[op] = "none")

\* Closing comes to an end, of the reactor and of a single handle.
ClosingEnds == CloseTerminates /\ ClosedHandleDrains

=============================================================================
