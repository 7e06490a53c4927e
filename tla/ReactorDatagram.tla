--------------------------- MODULE ReactorDatagram ---------------------------
(***************************************************************************)
(* Datagram sockets of internal/reactor: udp.go with the parts of          *)
(* CancelOperation, CloseHandle and Close (reactor.go) that touch them.    *)
(*                                                                         *)
(* Receiving.  At most one goroutine (runUDPReceive) of a socket is inside *)
(* ReadFrom; all of them share receiveBuffer.  It goes on reading while    *)
(* somebody waits and the queue of received datagrams has room, stops      *)
(* otherwise, and is started again by the operation that changes that.     *)
(*                                                                         *)
(* Sending.  TryUDPSend never blocks: it puts the datagram into a bounded  *)
(* channel that one goroutine (runUDPSends) ranges over, or answers        *)
(* ErrWouldBlock.  After CloseHandle that goroutine still sends what is    *)
(* queued and closes the socket at the end; the socket is kept in          *)
(* drainingDatagrams meanwhile, where Close finds it.                      *)
(*                                                                         *)
(* Data.  The datagrams a socket receives are numbered as they arrive,     *)
(* those it is given to send as TryUDPSend accepts them.                   *)
(***************************************************************************)
EXTENDS ReactorCore

CONSTANTS
  Sockets,                 \* datagram sockets, each identified with its handle
  udpReceiveQueueCapacity,
  udpSendQueueCapacity,
  MaxArrivals,             \* bound: datagrams a socket receives
  MaxSends                 \* bound: datagrams a socket is given to send

ASSUME CapacityAssumption ==
  /\ udpReceiveQueueCapacity \in Nat \ {0}
  /\ udpSendQueueCapacity \in Nat \ {0}
ASSUME BoundAssumption == MaxArrivals \in Nat /\ MaxSends \in Nat

VARIABLES
  datagrams,         \* handles in Reactor.datagrams
  drainingDatagrams, \* Reactor.drainingDatagrams
  socketClosed,      \* connection.Close has been called
  received,          \* datagramState.received
  receiveRunning,    \* datagramState.receiveRunning
  receiveErr,        \* datagramState.receiveErr # nil
  receivers,         \* number of runUDPReceive goroutines of a socket
  sendQueue,         \* the contents of datagramState.sendQueue
  queueClosed,       \* datagramState.sendQueue is closed
  sendErr,           \* datagramState.sendErr # nil
  sender,            \* where the runUDPSends goroutine of a socket is
  sending,           \* the request it took off the channel, 0 for none
  udpReads,          \* Reactor.udpReads
  udpWrites,         \* Reactor.udpWrites
  handleClosing,     \* sockets between CloseHandle's unlock and its close(sendQueue)
  reactorClosing,    \* sockets between Close's unlock and its closeNow
  arrived,           \* history: datagrams stored in received so far
  taken,             \* history: datagrams TakeUDPReceive returned so far
  submitted,         \* history: datagrams TryUDPSend accepted so far
  written            \* history: datagrams given to WriteTo so far

receiveVars == <<received, receiveRunning, receiveErr, receivers, udpReads, arrived, taken>>
sendVars    == <<sendQueue, sendErr, sender, sending, udpWrites, submitted, written>>
handleVars  == <<datagrams, drainingDatagrams, socketClosed, queueClosed, handleClosing,
                 reactorClosing>>
vars        == <<coreVars, receiveVars, sendVars, handleVars>>

Waiters == [handle : Sockets, ready : BOOLEAN]

ASSUME NilWaiterAssumption == Nil \notin Waiters

\* runUDPSends: at the head of its loop, holding a request for which it has not
\* yet marked the waiters ready, inside WriteTo, after the loop, returned.
SenderStates == {"ranging", "taken", "writing", "closed", "done"}

\* Every variable holds a value of its Go type, and the queues their bounds.
TypeOK ==
  /\ CoreTypeOK
  /\ datagrams \subseteq Sockets
  /\ drainingDatagrams \subseteq Sockets
  /\ socketClosed \in [Sockets -> BOOLEAN]
  /\ received \in [Sockets -> Seq(1..MaxArrivals)]
  /\ receiveRunning \in [Sockets -> BOOLEAN]
  /\ receiveErr \in [Sockets -> BOOLEAN]
  /\ receivers \in [Sockets -> Nat]
  /\ sendQueue \in [Sockets -> Seq(1..MaxSends)]
  /\ queueClosed \in [Sockets -> BOOLEAN]
  /\ sendErr \in [Sockets -> BOOLEAN]
  /\ sender \in [Sockets -> SenderStates]
  /\ sending \in [Sockets -> 0..MaxSends]
  /\ udpReads \in [Ops -> Waiters \cup {Nil}]
  /\ udpWrites \in [Ops -> Waiters \cup {Nil}]
  /\ handleClosing \subseteq Sockets
  /\ reactorClosing \subseteq Sockets
  /\ arrived \in [Sockets -> 0..MaxArrivals]
  /\ taken \in [Sockets -> Seq(1..MaxArrivals)]
  /\ submitted \in [Sockets -> 0..MaxSends]
  /\ written \in [Sockets -> Seq(1..MaxSends)]

\* New with every socket in Options.InitialDatagrams.
Init ==
  /\ CoreInit
  /\ datagrams = Sockets
  /\ drainingDatagrams = {}
  /\ socketClosed = [d \in Sockets |-> FALSE]
  /\ received = [d \in Sockets |-> <<>>]
  /\ receiveRunning = [d \in Sockets |-> FALSE]
  /\ receiveErr = [d \in Sockets |-> FALSE]
  /\ receivers = [d \in Sockets |-> 0]
  /\ sendQueue = [d \in Sockets |-> <<>>]
  /\ queueClosed = [d \in Sockets |-> FALSE]
  /\ sendErr = [d \in Sockets |-> FALSE]
  /\ sender = [d \in Sockets |-> "ranging"]
  /\ sending = [d \in Sockets |-> 0]
  /\ udpReads = [op \in Ops |-> Nil]
  /\ udpWrites = [op \in Ops |-> Nil]
  /\ handleClosing = {}
  /\ reactorClosing = {}
  /\ arrived = [d \in Sockets |-> 0]
  /\ taken = [d \in Sockets |-> <<>>]
  /\ submitted = [d \in Sockets |-> 0]
  /\ written = [d \in Sockets |-> <<>>]

-----------------------------------------------------------------------------
(* Helpers called with reactor.mu held.                                    *)

waitersOf(waiters, d) == {op \in Ops : waiters[op] # Nil /\ waiters[op].handle = d}

\* Mark the waiters of d ready, as both workers do.
markReady(waiters, d) ==
  [op \in Ops |-> IF op \in waitersOf(waiters, d)
                  THEN [waiters[op] EXCEPT !.ready = TRUE] ELSE waiters[op]]

startReceive(d, start) ==
  /\ receiveRunning' = [receiveRunning EXCEPT ![d] = @ \/ start]
  /\ receivers' = [receivers EXCEPT ![d] = IF start THEN @ + 1 ELSE @]

hasUDPReadWaiterLocked(d) == \E op \in Ops : udpReads'[op] # Nil /\ udpReads'[op].handle = d

-----------------------------------------------------------------------------
(* Receiving.                                                              *)

\* StartUDPReceive's condition for starting the worker.
mayStartReceive(d) ==
  /\ ~receiveErr[d]
  /\ Len(received[d]) < udpReceiveQueueCapacity
  /\ ~receiveRunning[d]

StartUDPReceive(d, op) ==
  LET ready == received[d] # <<>> \/ receiveErr[d]
  IN  /\ d \in datagrams
      /\ claimOperationLocked(op, "udpRead")
      /\ udpReads' = [udpReads EXCEPT ![op] = [handle |-> d, ready |-> ready]]
      /\ startReceive(d, mayStartReceive(d))
      /\ signalAfterUnlock(ready)
      /\ parked' = parked \cup {op}
      /\ UNCHANGED <<closed, closeDone, completion, handleVars, sendVars, received, receiveErr,
                     arrived, taken>>

\* runUDPReceive keeps reading after a datagram that somebody waits for, while
\* there is room.
continueReceiving(d) ==
  /\ waitersOf(udpReads, d) # {}
  /\ Len(received'[d]) < udpReceiveQueueCapacity

\* The queue after ReadFrom returned.
Bug_storeReceivedFirst(d, err) ==
  IF err THEN received[d] ELSE <<arrived[d] + 1>> \o received[d]
storeReceived(d, err) == IF err THEN received[d] ELSE Append(received[d], arrived[d] + 1)

\* runUDPReceive: ReadFrom returned a datagram or failed.  A socket without a
\* handle no longer has anybody to deliver to: the goroutine ends silently.
runUDPReceive(d, err) ==
  /\ receivers[d] > 0
  /\ ~err => arrived[d] < MaxArrivals
  /\ \/ /\ d \notin datagrams
        /\ receivers' = [receivers EXCEPT ![d] = @ - 1]
        /\ UNCHANGED <<received, receiveErr, receiveRunning, udpReads, arrived, signalDue>>
     \/ /\ d \in datagrams
        /\ receiveErr' = [receiveErr EXCEPT ![d] = @ \/ err]
        /\ arrived' = [arrived EXCEPT ![d] = IF err THEN @ ELSE @ + 1]
        /\ received' = [received EXCEPT ![d] = storeReceived(d, err)]
        /\ udpReads' = markReady(udpReads, d)
        /\ LET continue == ~err /\ continueReceiving(d)
           IN  /\ receiveRunning' = [receiveRunning EXCEPT ![d] = @ /\ continue]
               /\ receivers' = [receivers EXCEPT ![d] = IF continue THEN @ ELSE @ - 1]
        /\ signalAfterUnlock(waitersOf(udpReads, d) # {})
  /\ UNCHANGED <<closed, closeDone, operations, completion, parked, handleVars, sendVars, taken>>

\* What TakeUDPReceive finds for a claimed operation: nothing yet, or something
\* (a datagram, an error, or that the handle is gone).
TakeUDPReceiveReady(op) ==
  /\ operations[op] = "udpRead"
  /\ udpReads[op] # Nil
  /\ LET d == udpReads[op].handle
     IN  d \notin datagrams \/ received[d] # <<>> \/ receiveErr[d]

\* TakeUDPReceive's condition for starting the worker again.
mayRestartReceive(d) ==
  /\ Len(received'[d]) < udpReceiveQueueCapacity
  /\ ~receiveRunning[d]
  /\ hasUDPReadWaiterLocked(d)

TakeUDPReceive(op) ==
  /\ TakeUDPReceiveReady(op)
  /\ udpReads' = [udpReads EXCEPT ![op] = Nil]
  /\ releaseOperationLocked(op, "udpRead")
  /\ parked' = parked \ {op}
  /\ LET d == udpReads[op].handle
     IN  \/ /\ d \notin datagrams
            /\ UNCHANGED <<received, receiveErr, taken, receiveRunning, receivers>>
         \/ /\ d \in datagrams
            /\ \/ /\ received[d] = <<>>
                  /\ receiveErr' = [receiveErr EXCEPT ![d] = FALSE]
                  /\ UNCHANGED <<received, taken>>
               \/ /\ received[d] # <<>>
                  /\ taken' = [taken EXCEPT ![d] = Append(@, Head(received[d]))]
                  /\ received' = [received EXCEPT ![d] = Tail(@)]
                  /\ UNCHANGED receiveErr
            /\ startReceive(d, mayRestartReceive(d))
  /\ UNCHANGED <<closed, closeDone, completion, signalDue, handleVars, sendVars, arrived>>

\* TakeUDPReceive answers ErrPending: the guest goes on waiting.
TakeUDPReceivePending(op) ==
  /\ operations[op] = "udpRead"
  /\ ~TakeUDPReceiveReady(op)
  /\ parked' = parked \cup {op}
  /\ UNCHANGED <<closed, closeDone, operations, completion, signalDue, receiveVars, sendVars,
                 handleVars>>

\* CancelOperation of a receive.
CancelUDPReceive(op) ==
  /\ operations[op] = "udpRead"
  /\ operations' = [operations EXCEPT ![op] = "none"]
  /\ udpReads' = [udpReads EXCEPT ![op] = Nil]
  /\ parked' = parked \ {op}
  /\ UNCHANGED <<closed, closeDone, completion, signalDue, handleVars, sendVars, received,
                 receiveRunning, receiveErr, receivers, arrived, taken>>

-----------------------------------------------------------------------------
(* Sending.                                                                *)

TryUDPSend(d) ==
  /\ d \in datagrams
  /\ ~sendErr[d]
  /\ Len(sendQueue[d]) < udpSendQueueCapacity
  /\ submitted[d] < MaxSends
  /\ submitted' = [submitted EXCEPT ![d] = @ + 1]
  /\ sendQueue' = [sendQueue EXCEPT ![d] = Append(@, submitted[d] + 1)]
  /\ UNCHANGED <<coreVars, receiveVars, handleVars, sendErr, sender, sending, udpWrites, written>>

\* Whether a send may be tried at once, decided under the lock.
sendable(d) == Len(sendQueue[d]) < udpSendQueueCapacity \/ sendErr[d]

StartUDPSendReady(d, op) ==
  /\ d \in datagrams
  /\ claimOperationLocked(op, "udpWrite")
  /\ udpWrites' = [udpWrites EXCEPT ![op] = [handle |-> d, ready |-> sendable(d)]]
  /\ signalAfterUnlock(sendable(d))
  /\ parked' = parked \cup {op}
  /\ UNCHANGED <<closed, closeDone, completion, receiveVars, handleVars, sendQueue, sendErr, sender,
                 sending, submitted, written>>

\* runUDPSends takes a request off the channel, without the lock ...
takeSend(d) ==
  /\ sender[d] = "ranging"
  /\ sendQueue[d] # <<>>
  /\ sending' = [sending EXCEPT ![d] = Head(sendQueue[d])]
  /\ sendQueue' = [sendQueue EXCEPT ![d] = Tail(@)]
  /\ sender' = [sender EXCEPT ![d] = "taken"]
  /\ UNCHANGED <<coreVars, receiveVars, handleVars, sendErr, udpWrites, submitted, written>>

\* ... tells the waiters, under the lock, that there is room ...
Bug_roomUnmarked(d) ==
  /\ sender[d] = "taken"
  /\ sender' = [sender EXCEPT ![d] = "writing"]
  /\ UNCHANGED <<coreVars, receiveVars, handleVars, sendQueue,
                 sendErr, sending, submitted, udpWrites, written>>
tellRoom(d) ==
  /\ sender[d] = "taken"
  /\ udpWrites' = markReady(udpWrites, d)
  /\ signalAfterUnlock(waitersOf(udpWrites, d) # {})
  /\ sender' = [sender EXCEPT ![d] = "writing"]
  /\ UNCHANGED <<closed, closeDone, operations, completion, parked, receiveVars, handleVars, sendQueue,
                 sendErr, sending, submitted, written>>

\* ... and sends it.  An error sticks to the socket, if it still has a handle.
WriteTo(d, err) ==
  LET failed == err /\ d \in datagrams
  IN  /\ sender[d] = "writing"
      /\ socketClosed[d] => err
      /\ written' = [written EXCEPT ![d] = Append(@, sending[d])]
      /\ sending' = [sending EXCEPT ![d] = 0]
      /\ sender' = [sender EXCEPT ![d] = "ranging"]
      /\ sendErr' = [sendErr EXCEPT ![d] = @ \/ failed]
      /\ udpWrites' = IF failed THEN markReady(udpWrites, d) ELSE udpWrites
      /\ signalAfterUnlock(failed /\ waitersOf(udpWrites, d) # {})
      /\ UNCHANGED <<closed, closeDone, operations, completion, parked, receiveVars, handleVars,
                     sendQueue, submitted>>

\* The channel is closed and empty: the deferred connection.Close ...
closeSocket(d) ==
  /\ sender[d] = "ranging"
  /\ queueClosed[d]
  /\ sendQueue[d] = <<>>
  /\ sender' = [sender EXCEPT ![d] = "closed"]
  /\ socketClosed' = [socketClosed EXCEPT ![d] = TRUE]
  /\ UNCHANGED <<coreVars, receiveVars, datagrams, drainingDatagrams, queueClosed, handleClosing,
                 reactorClosing, sendQueue, sendErr, sending, udpWrites, submitted, written>>

\* ... then finishUDPSends, then workers.Done.
finishUDPSends(d) ==
  /\ sender[d] = "closed"
  /\ drainingDatagrams' = drainingDatagrams \ {d}
  /\ sender' = [sender EXCEPT ![d] = "done"]
  /\ UNCHANGED <<coreVars, receiveVars, datagrams, socketClosed, queueClosed, handleClosing,
                 reactorClosing, sendQueue, sendErr, sending, udpWrites, submitted, written>>

TakeUDPSendReadyReady(op) ==
  /\ operations[op] = "udpWrite"
  /\ udpWrites[op] # Nil
  /\ udpWrites[op].ready

TakeUDPSendReady(op) ==
  /\ TakeUDPSendReadyReady(op)
  /\ udpWrites' = [udpWrites EXCEPT ![op] = Nil]
  /\ releaseOperationLocked(op, "udpWrite")
  /\ parked' = parked \ {op}
  /\ UNCHANGED <<closed, closeDone, completion, signalDue, receiveVars, handleVars, sendQueue, sendErr,
                 sender, sending, submitted, written>>

\* TakeUDPSendReady answers ErrPending: the guest goes on waiting.
TakeUDPSendReadyPending(op) ==
  /\ operations[op] = "udpWrite"
  /\ ~TakeUDPSendReadyReady(op)
  /\ parked' = parked \cup {op}
  /\ UNCHANGED <<closed, closeDone, operations, completion, signalDue, receiveVars, sendVars,
                 handleVars>>

\* CancelOperation of a wait for room.
CancelUDPSendReady(op) ==
  /\ operations[op] = "udpWrite"
  /\ operations' = [operations EXCEPT ![op] = "none"]
  /\ udpWrites' = [udpWrites EXCEPT ![op] = Nil]
  /\ parked' = parked \ {op}
  /\ UNCHANGED <<closed, closeDone, completion, signalDue, receiveVars, handleVars, sendQueue, sendErr,
                 sender, sending, submitted, written>>

-----------------------------------------------------------------------------
(* Closing.                                                                *)

\* CloseHandle up to its unlock.
Bug_CloseHandleQueueFirst(d) ==
  /\ d \in datagrams
  /\ drainingDatagrams' = drainingDatagrams \cup {d}
  /\ handleClosing' = handleClosing \cup {d}
  /\ UNCHANGED <<coreVars, receiveVars, sendVars, datagrams, socketClosed, queueClosed, reactorClosing>>
CloseHandle(d) ==
  /\ d \in datagrams
  /\ datagrams' = datagrams \ {d}
  /\ drainingDatagrams' = drainingDatagrams \cup {d}
  /\ handleClosing' = handleClosing \cup {d}
  /\ UNCHANGED <<coreVars, receiveVars, sendVars, socketClosed, queueClosed, reactorClosing>>

\* CloseHandle after its unlock.
closeAfterQueuedSends(d) ==
  /\ d \in handleClosing
  /\ handleClosing' = handleClosing \ {d}
  /\ queueClosed' = [queueClosed EXCEPT ![d] = TRUE]
  /\ UNCHANGED <<coreVars, receiveVars, sendVars, datagrams, drainingDatagrams, socketClosed,
                 reactorClosing>>

\* Close up to its unlock.
Bug_CloseForgetsDraining ==
  /\ ~closed
  /\ closed' = TRUE
  /\ reactorClosing' = datagrams
  /\ datagrams' = {}
  /\ drainingDatagrams' = {}
  /\ operations' = [op \in Ops |-> "none"]
  /\ udpReads' = [op \in Ops |-> Nil]
  /\ udpWrites' = [op \in Ops |-> Nil]
  /\ UNCHANGED <<closeDone, completion, signalDue, parked, socketClosed, queueClosed, handleClosing,
                 received, receiveRunning, receiveErr, receivers, arrived, taken, sendQueue, sendErr,
                 sender, sending, submitted, written>>
Close ==
  /\ ~closed
  /\ closed' = TRUE
  /\ reactorClosing' = datagrams \cup drainingDatagrams
  /\ datagrams' = {}
  /\ drainingDatagrams' = {}
  /\ operations' = [op \in Ops |-> "none"]
  /\ udpReads' = [op \in Ops |-> Nil]
  /\ udpWrites' = [op \in Ops |-> Nil]
  /\ UNCHANGED <<closeDone, completion, signalDue, parked, socketClosed, queueClosed, handleClosing,
                 received, receiveRunning, receiveErr, receivers, arrived, taken, sendQueue, sendErr,
                 sender, sending, submitted, written>>

\* closeNow, for each socket that was open or draining.
closeNow(d) ==
  /\ d \in reactorClosing
  /\ reactorClosing' = reactorClosing \ {d}
  /\ queueClosed' = [queueClosed EXCEPT ![d] = TRUE]
  /\ socketClosed' = [socketClosed EXCEPT ![d] = TRUE]
  /\ UNCHANGED <<coreVars, receiveVars, sendVars, datagrams, drainingDatagrams, handleClosing>>

\* workers.Wait() returned and closeDone is closed.
CloseReturns ==
  /\ closed
  /\ ~closeDone
  /\ reactorClosing = {}
  /\ \A d \in Sockets : receivers[d] = 0 /\ sender[d] = "done"
  /\ closeDone' = TRUE
  /\ UNCHANGED <<closed, operations, completion, signalDue, parked, receiveVars, sendVars, handleVars>>

\* Nothing is left to do.
Terminated == closeDone /\ UNCHANGED vars

-----------------------------------------------------------------------------

signal == signalCompletion /\ UNCHANGED <<receiveVars, sendVars, handleVars>>

notify == NotifyGuest /\ UNCHANGED <<receiveVars, sendVars, handleVars>>

receiveReturns(d) == \E err \in BOOLEAN : runUDPReceive(d, err)

writeReturns(d) == \E err \in BOOLEAN : WriteTo(d, err)

Next ==
  \/ \E d \in Sockets, op \in Ops : StartUDPReceive(d, op)
  \/ \E d \in Sockets : receiveReturns(d)
  \/ \E op \in Ops : TakeUDPReceive(op)
  \/ \E op \in Ops : TakeUDPReceivePending(op)
  \/ \E op \in Ops : CancelUDPReceive(op)
  \/ \E d \in Sockets : TryUDPSend(d)
  \/ \E d \in Sockets, op \in Ops : StartUDPSendReady(d, op)
  \/ \E d \in Sockets : takeSend(d)
  \/ \E d \in Sockets : tellRoom(d)
  \/ \E d \in Sockets : writeReturns(d)
  \/ \E d \in Sockets : closeSocket(d)
  \/ \E d \in Sockets : finishUDPSends(d)
  \/ \E op \in Ops : TakeUDPSendReady(op)
  \/ \E op \in Ops : TakeUDPSendReadyPending(op)
  \/ \E op \in Ops : CancelUDPSendReady(op)
  \/ \E d \in Sockets : CloseHandle(d)
  \/ \E d \in Sockets : closeAfterQueuedSends(d)
  \/ Close
  \/ \E d \in Sockets : closeNow(d)
  \/ CloseReturns
  \/ signal
  \/ notify
  \/ Terminated

Spec == Init /\ [][Next]_vars

\* Goroutines that are runnable run.  ReadFrom and WriteTo need not return before
\* the socket is closed.
Fairness ==
  /\ WF_vars(signal)
  /\ WF_vars(notify)
  /\ WF_vars(CloseReturns)
  /\ \A d \in Sockets :
       /\ WF_vars(takeSend(d))
       /\ WF_vars(tellRoom(d))
       /\ WF_vars(socketClosed[d] /\ writeReturns(d))
       /\ WF_vars(closeSocket(d))
       /\ WF_vars(finishUDPSends(d))
       /\ WF_vars(closeAfterQueuedSends(d))
       /\ WF_vars(closeNow(d))
       /\ WF_vars(socketClosed[d] /\ receiveReturns(d))
  /\ \A op \in Ops :
       /\ WF_vars(op \notin parked /\ (TakeUDPReceive(op) \/ TakeUDPReceivePending(op)))
       /\ WF_vars(op \notin parked /\ (TakeUDPSendReady(op) \/ TakeUDPSendReadyPending(op)))

FairSpec == Spec /\ Fairness

\* UDP sends come back by themselves: the kernel takes or refuses the datagram.
SendsReturn == \A d \in Sockets : WF_vars(writeReturns(d))

-----------------------------------------------------------------------------
(* Properties.                                                             *)

\* A socket with a handle has one receiving goroutine when receiveRunning says
\* so and none otherwise: two would read into the same receiveBuffer.
SingleReceiver ==
  \A d \in datagrams : receivers[d] = IF receiveRunning[d] THEN 1 ELSE 0

\* The guest gets every datagram that was received, in the order of arrival and
\* once, and no more than the capacity of the queue ever wait for it.
ReceiveIntegrity ==
  \A d \in datagrams :
    /\ taken[d] \o received[d] = [i \in 1..arrived[d] |-> i]
    /\ Len(received[d]) <= udpReceiveQueueCapacity

\* A receive that waits for a socket with a handle while nothing is stored for
\* it has a goroutine that reads: whoever stopped the worker at the capacity,
\* on an error or for want of waiters, somebody started it again.
NoStuckReceive ==
  \A op \in Ops :
    LET d == udpReads[op].handle
    IN  (udpReads[op] # Nil /\ d \in datagrams /\ received[d] = <<>> /\ ~receiveErr[d])
          => receiveRunning[d]

\* Every datagram TryUDPSend accepted is given to WriteTo once, in order, also
\* after CloseHandle, and nothing is left when the sending goroutine ends.
SendIntegrity ==
  \A d \in Sockets :
    /\ written[d] \o (IF sending[d] = 0 THEN <<>> ELSE <<sending[d]>>) \o sendQueue[d]
         = [i \in 1..submitted[d] |-> i]
    /\ sender[d] \in {"closed", "done"} => sendQueue[d] = <<>>

\* Datagrams go either way once each, in order, and within the queues.
DatagramIntegrity == ReceiveIntegrity /\ SendIntegrity

\* TryUDPSend never meets a closed channel, which would panic, nor a full one,
\* which would block it with reactor.mu held.
SendNeverPanics ==
  \A d \in datagrams : ~queueClosed[d] /\ Len(sendQueue[d]) <= udpSendQueueCapacity

\* A wait for room that is not ready has a reason: the channel is full and its
\* goroutine alive, or room was made a moment ago and the goroutine is about to
\* say so.
NoStuckSend ==
  \A op \in Ops :
    LET d == udpWrites[op].handle
    IN  (udpWrites[op] # Nil /\ d \in datagrams /\ ~udpWrites[op].ready) =>
          \/ sender[d] = "taken"
          \/ Len(sendQueue[d]) = udpSendQueueCapacity /\ sender[d] \in {"ranging", "writing"}

\* A guest that waits without polling for an operation whose result is there
\* has a token coming, as long as it has not closed the handle itself.
NoLostWakeup ==
  \A op \in parked :
    (\/ TakeUDPReceiveReady(op) /\ udpReads[op].handle \in datagrams
     \/ TakeUDPSendReadyReady(op))
      => completion \/ signalDue

\* Close reaches every socket that still has its sending goroutine: it has a
\* handle or is draining.
CloseFindsEverySocket ==
  ~closed => \A d \in Sockets : sender[d] # "done" => d \in datagrams \cup drainingDatagrams

\* Once Close has returned no goroutine is left and every socket is closed.
CloseIsFinal ==
  closeDone => \A d \in Sockets : receivers[d] = 0 /\ sender[d] = "done" /\ socketClosed[d]

\* A receiving goroutine has room for what it will get.
ReceiverHasRoom ==
  \A d \in datagrams : receiveRunning[d] => Len(received[d]) < udpReceiveQueueCapacity

\* A socket that somebody is closing has lost its handle before: nothing is left
\* in the tables of a closed reactor, and only a closed one closes all of them.
HandlesGoFirst ==
  /\ handleClosing \cap datagrams = {}
  /\ IF closed THEN datagrams = {} /\ drainingDatagrams = {} ELSE reactorClosing = {}
  /\ closeDone => closed

\* The sending goroutine holds a request exactly between taking it off the
\* channel and WriteTo, and ends only after its channel and its socket.
SenderAgrees ==
  \A d \in Sockets :
    /\ sending[d] # 0 <=> sender[d] \in {"taken", "writing"}
    /\ sender[d] \in {"closed", "done"} => queueClosed[d] /\ socketClosed[d]

\* The tables, the channels and the goroutines agree: types, one receiver per
\* socket, sends that neither panic nor block under the lock, sockets Close can
\* find, and nothing left when it has returned.
Consistent ==
  /\ TypeOK
  /\ SingleReceiver
  /\ ReceiverHasRoom
  /\ HandlesGoFirst
  /\ SenderAgrees
  /\ SendNeverPanics
  /\ CloseFindsEverySocket
  /\ CloseIsFinal

\* Nobody waits for what will not happen: a waiting receive has a worker, a wait
\* for room has a sender that will make some, and a parked guest has a token.
NoStuckOperation ==
  /\ NoStuckReceive
  /\ NoStuckSend
  /\ NoLostWakeup

\* Close returns, whatever was queued, draining or being received, and also when
\* a send blocks for as long as its socket is open.
CloseTerminates == closed ~> closeDone

\* A socket whose handle is closed sends what it was given, is closed, and
\* leaves drainingDatagrams; its receiving goroutine ends.
ClosedHandleDrains ==
  SendsReturn =>
    \A d \in Sockets :
      d \notin datagrams ~>
        (socketClosed[d] /\ receivers[d] = 0 /\ Len(written[d]) = submitted[d]
          /\ d \notin drainingDatagrams)

\* Closing comes to an end, of the reactor and of a single handle.
ClosingEnds == CloseTerminates /\ ClosedHandleDrains

=============================================================================
