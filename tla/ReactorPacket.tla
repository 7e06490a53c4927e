---------------------------- MODULE ReactorPacket ----------------------------
(***************************************************************************)
(* Packet sinks of internal/reactor: packet.go with the parts of           *)
(* CancelOperation and Close (reactor.go) that touch them.                 *)
(*                                                                         *)
(* The guest writes packets into the bounded queue of a sink; goroutines   *)
(* of the embedding program take them out with ReceivePacket.  A receiver  *)
(* that finds the queue empty sleeps on a one-slot channel, into which     *)
(* every write puts a token after it has released the lock, so that the    *)
(* tokens of several writes can collapse into one.  A guest that finds the *)
(* queue full waits for room as for any other operation.                   *)
(*                                                                         *)
(* Data.  The packets of a sink are numbered as TryPacketWrite takes them. *)
(***************************************************************************)
EXTENDS ReactorCore

CONSTANTS
  Sinks,       \* packet sinks, each identified with its handle
  Receivers,   \* goroutines that call ReceivePacket
  capacity,    \* packetSink.capacity
  MaxPackets   \* bound: packets written to a sink

ASSUME CapacityAssumption == capacity \in Nat \ {0}
ASSUME MaxPacketsAssumption == MaxPackets \in Nat
ASSUME NilSinkAssumption == Nil \notin Sinks

VARIABLES
  packetSinks,   \* handles in Reactor.packetSinks
  sinkClosed,    \* sinks whose channel `closed` is closed
  packets,       \* packetSink.packets
  available,     \* packetSink.available holds its one token
  tokenDue,      \* a TryPacketWrite has unlocked and is about to put a token in
  packetWrites,  \* Reactor.packetWrites
  receiver,      \* where a receiver is in ReceivePacket
  receiving,     \* the sink a receiver was called with
  written,       \* history: packets TryPacketWrite took so far
  taken          \* history: packets ReceivePacket returned so far

sinkVars     == <<packetSinks, sinkClosed, packets, available, tokenDue>>
receiverVars == <<receiver, receiving>>
history      == <<written, taken>>
vars         == <<coreVars, sinkVars, packetWrites, receiverVars, history>>

Waiters == [handle : Sinks, ready : BOOLEAN]

ASSUME NilWaiterAssumption == Nil \notin Waiters

\* Outside ReceivePacket, at the head of its loop, in its select.
ReceiverStates == {"idle", "checking", "waiting"}

\* Every variable holds a value of its Go type, and a queue its bound.
TypeOK ==
  /\ CoreTypeOK
  /\ packetSinks \subseteq Sinks
  /\ sinkClosed \subseteq Sinks
  /\ packets \in [Sinks -> Seq(1..MaxPackets)]
  /\ \A s \in Sinks : Len(packets[s]) <= capacity
  /\ available \in [Sinks -> BOOLEAN]
  /\ tokenDue \in [Sinks -> BOOLEAN]
  /\ packetWrites \in [Ops -> Waiters \cup {Nil}]
  /\ receiver \in [Receivers -> ReceiverStates]
  /\ receiving \in [Receivers -> Sinks \cup {Nil}]
  /\ written \in [Sinks -> 0..MaxPackets]
  /\ taken \in [Sinks -> Seq(1..MaxPackets)]

\* New: there are no sinks yet.
Init ==
  /\ CoreInit
  /\ packetSinks = {}
  /\ sinkClosed = {}
  /\ packets = [s \in Sinks |-> <<>>]
  /\ available = [s \in Sinks |-> FALSE]
  /\ tokenDue = [s \in Sinks |-> FALSE]
  /\ packetWrites = [op \in Ops |-> Nil]
  /\ receiver = [r \in Receivers |-> "idle"]
  /\ receiving = [r \in Receivers |-> Nil]
  /\ written = [s \in Sinks |-> 0]
  /\ taken = [s \in Sinks |-> <<>>]

waitersOf(s) == {op \in Ops : packetWrites[op] # Nil /\ packetWrites[op].handle = s}

-----------------------------------------------------------------------------

\* A handle is allocated once.
RegisterPacketSink(s) ==
  /\ ~closed
  /\ s \notin packetSinks \cup sinkClosed
  /\ packetSinks' = packetSinks \cup {s}
  /\ UNCHANGED <<coreVars, sinkClosed, packets, available, tokenDue, packetWrites, receiverVars,
                 history>>

\* The waits for room go away with the sink.
dropped(s) == waitersOf(s)

UnregisterPacketSink(s) ==
  /\ s \in packetSinks
  /\ packetSinks' = packetSinks \ {s}
  /\ sinkClosed' = sinkClosed \cup {s}
  /\ packetWrites' = [op \in Ops |-> IF op \in dropped(s) THEN Nil ELSE packetWrites[op]]
  /\ operations' = [op \in Ops |-> IF op \in dropped(s) /\ operations[op] = "packetWrite"
                                   THEN "none" ELSE operations[op]]
  /\ UNCHANGED <<closed, closeDone, completion, signalDue, parked, packets, available, tokenDue,
                 receiverVars, history>>

\* TryPacketWrite takes the packet, unless the queue is full (ErrWouldBlock).
room(s) == Len(packets[s]) < capacity

TryPacketWrite(s) ==
  /\ s \in packetSinks
  /\ room(s)
  /\ written[s] < MaxPackets
  /\ written' = [written EXCEPT ![s] = @ + 1]
  /\ packets' = [packets EXCEPT ![s] = Append(@, written[s] + 1)]
  /\ tokenDue' = [tokenDue EXCEPT ![s] = TRUE]
  /\ UNCHANGED <<coreVars, packetSinks, sinkClosed, available, packetWrites, receiverVars, taken>>

\* TryPacketWrite after its unlock: a send that does not block.
Bug_putTokenIfAlone(s) ==
  /\ tokenDue[s]
  /\ tokenDue' = [tokenDue EXCEPT ![s] = FALSE]
  /\ available' = [available EXCEPT ![s] = @ \/ Len(packets[s]) = 1]
  /\ UNCHANGED <<coreVars, packetSinks, sinkClosed, packets, packetWrites, receiverVars, history>>
putToken(s) ==
  /\ tokenDue[s]
  /\ tokenDue' = [tokenDue EXCEPT ![s] = FALSE]
  /\ available' = [available EXCEPT ![s] = TRUE]
  /\ UNCHANGED <<coreVars, packetSinks, sinkClosed, packets, packetWrites, receiverVars, history>>

StartPacketWriteReady(s, op) ==
  /\ s \in packetSinks
  /\ claimOperationLocked(op, "packetWrite")
  /\ packetWrites' = [packetWrites EXCEPT ![op] = [handle |-> s, ready |-> room(s)]]
  /\ signalAfterUnlock(room(s))
  /\ parked' = parked \cup {op}
  /\ UNCHANGED <<closed, closeDone, completion, sinkVars, receiverVars, history>>

TakePacketWriteReadyReady(op) ==
  /\ operations[op] = "packetWrite"
  /\ packetWrites[op] # Nil
  /\ packetWrites[op].ready

TakePacketWriteReady(op) ==
  /\ TakePacketWriteReadyReady(op)
  /\ packetWrites' = [packetWrites EXCEPT ![op] = Nil]
  /\ releaseOperationLocked(op, "packetWrite")
  /\ parked' = parked \ {op}
  /\ UNCHANGED <<closed, closeDone, completion, signalDue, sinkVars, receiverVars, history>>

\* TakePacketWriteReady answers ErrPending: the guest goes on waiting.
TakePacketWriteReadyPending(op) ==
  /\ operations[op] = "packetWrite"
  /\ ~TakePacketWriteReadyReady(op)
  /\ parked' = parked \cup {op}
  /\ UNCHANGED <<closed, closeDone, operations, completion, signalDue, sinkVars, packetWrites,
                 receiverVars, history>>

\* CancelOperation of a wait for room.
CancelPacketWrite(op) ==
  /\ operations[op] = "packetWrite"
  /\ operations' = [operations EXCEPT ![op] = "none"]
  /\ packetWrites' = [packetWrites EXCEPT ![op] = Nil]
  /\ parked' = parked \ {op}
  /\ UNCHANGED <<closed, closeDone, completion, signalDue, sinkVars, receiverVars, history>>

-----------------------------------------------------------------------------
(* ReceivePacket.                                                          *)

ReceivePacket(r, s) ==
  /\ receiver[r] = "idle"
  /\ receiver' = [receiver EXCEPT ![r] = "checking"]
  /\ receiving' = [receiving EXCEPT ![r] = s]
  /\ UNCHANGED <<coreVars, sinkVars, packetWrites, history>>

returnTo(r) ==
  /\ receiver' = [receiver EXCEPT ![r] = "idle"]
  /\ receiving' = [receiving EXCEPT ![r] = Nil]

\* Those who wait for room learn of it from the receiver.
tellWriters(s) ==
  /\ packetWrites' = [op \in Ops |-> IF op \in waitersOf(s)
                                     THEN [packetWrites[op] EXCEPT !.ready = TRUE]
                                     ELSE packetWrites[op]]
  /\ signalAfterUnlock(waitersOf(s) # {})

\* The queue after the first packet was taken.
Bug_remainingAll(s) == packets[s]
remaining(s) == Tail(packets[s])

\* The critical section: the sink is gone; a packet is there; or go and sleep.
checkSink(r) ==
  LET s == receiving[r]
  IN  /\ receiver[r] = "checking"
      /\ \/ /\ s \notin packetSinks
            /\ returnTo(r)
            /\ UNCHANGED <<packets, packetWrites, signalDue, taken>>
         \/ /\ s \in packetSinks
            /\ packets[s] # <<>>
            /\ packets' = [packets EXCEPT ![s] = remaining(s)]
            /\ taken' = [taken EXCEPT ![s] = Append(@, Head(packets[s]))]
            /\ tellWriters(s)
            /\ returnTo(r)
         \/ /\ s \in packetSinks
            /\ packets[s] = <<>>
            /\ receiver' = [receiver EXCEPT ![r] = "waiting"]
            /\ UNCHANGED <<packets, packetWrites, signalDue, taken, receiving>>
      /\ UNCHANGED <<closed, closeDone, operations, completion, parked, packetSinks, sinkClosed,
                     available, tokenDue, written>>

\* The select: a token sends the receiver back to the queue ...
wakeUp(r) ==
  /\ receiver[r] = "waiting"
  /\ available[receiving[r]]
  /\ available' = [available EXCEPT ![receiving[r]] = FALSE]
  /\ receiver' = [receiver EXCEPT ![r] = "checking"]
  /\ UNCHANGED <<coreVars, packetSinks, sinkClosed, packets, tokenDue, packetWrites, receiving,
                 history>>

\* ... the end of the sink or of the reactor ends the call ...
Bug_endOfSinkOnly(r) == receiving[r] \in sinkClosed
lifetimeDone(r) == receiving[r] \in sinkClosed \/ closed

endReceive(r) ==
  /\ receiver[r] = "waiting"
  /\ lifetimeDone(r)
  /\ returnTo(r)
  /\ UNCHANGED <<coreVars, sinkVars, packetWrites, history>>

\* ... and so does the caller's own context.
cancelReceive(r) ==
  /\ receiver[r] = "waiting"
  /\ returnTo(r)
  /\ UNCHANGED <<coreVars, sinkVars, packetWrites, history>>

-----------------------------------------------------------------------------

\* Close cancels the reactor's context and drops the sinks without closing their
\* channels.  No goroutine of the reactor is involved here, so it returns.
Close ==
  /\ ~closed
  /\ closed' = TRUE
  /\ closeDone' = TRUE
  /\ operations' = [op \in Ops |-> "none"]
  /\ packetSinks' = {}
  /\ packetWrites' = [op \in Ops |-> Nil]
  /\ UNCHANGED <<completion, signalDue, parked, sinkClosed, packets, available, tokenDue,
                 receiverVars, history>>

signal == signalCompletion /\ UNCHANGED <<sinkVars, packetWrites, receiverVars, history>>

notify == NotifyGuest /\ UNCHANGED <<sinkVars, packetWrites, receiverVars, history>>

Next ==
  \/ \E s \in Sinks : RegisterPacketSink(s)
  \/ \E s \in Sinks : UnregisterPacketSink(s)
  \/ \E s \in Sinks : TryPacketWrite(s)
  \/ \E s \in Sinks : putToken(s)
  \/ \E s \in Sinks, op \in Ops : StartPacketWriteReady(s, op)
  \/ \E op \in Ops : TakePacketWriteReady(op)
  \/ \E op \in Ops : TakePacketWriteReadyPending(op)
  \/ \E op \in Ops : CancelPacketWrite(op)
  \/ \E r \in Receivers, s \in Sinks : ReceivePacket(r, s)
  \/ \E r \in Receivers : checkSink(r)
  \/ \E r \in Receivers : wakeUp(r)
  \/ \E r \in Receivers : endReceive(r)
  \/ \E r \in Receivers : cancelReceive(r)
  \/ Close
  \/ signal
  \/ notify

Spec == Init /\ [][Next]_vars

\* Runnable goroutines run, and the guest polls what it was notified about.
\* Nobody has to call ReceivePacket, and no caller has to give up.
Fairness ==
  /\ WF_vars(signal)
  /\ WF_vars(notify)
  /\ \A s \in Sinks : WF_vars(putToken(s))
  /\ \A r \in Receivers :
       /\ WF_vars(checkSink(r))
       /\ WF_vars(wakeUp(r))
       /\ WF_vars(endReceive(r))
  /\ \A op \in Ops :
       WF_vars(op \notin parked /\ (TakePacketWriteReady(op) \/ TakePacketWriteReadyPending(op)))

FairSpec == Spec /\ Fairness

-----------------------------------------------------------------------------
(* Properties.                                                             *)

\* The packets the guest wrote leave the queue once each and in order, however
\* many receivers compete.
PacketIntegrity ==
  \A s \in Sinks : taken[s] \o packets[s] = [i \in 1..written[s] |-> i]

\* A sink that can still be registered has an empty queue.
NewSinksAreEmpty ==
  \A s \in Sinks : closed \/ s \in packetSinks \cup sinkClosed \/ packets[s] = <<>>

\* A packet is never left to sleeping receivers only: when everybody who could
\* take it is inside the select, a token is there or a writer is about to put
\* one in.  A single receiver of a sink therefore never sleeps beside a packet.
\* One of several may: the tokens of two writes can collapse into one, the
\* receiver it wakes takes the first packet and leaves, and the second packet
\* waits for whoever calls next, or for the next write.
NoSleepingQueue ==
  \A s \in packetSinks :
    (packets[s] # <<>> /\ Receivers # {}
      /\ \A r \in Receivers : receiver[r] = "waiting" /\ receiving[r] = s)
      => available[s] \/ tokenDue[s]

\* What may be left beside sleeping receivers is never a full queue, at which
\* guest and receivers would wait for each other: a token is there or on its
\* way, or a receiver is about to look into the queue.
FullQueueIsWatched ==
  \A s \in packetSinks :
    Len(packets[s]) = capacity =>
      \/ available[s]
      \/ tokenDue[s]
      \/ \E r \in Receivers : receiver[r] = "checking" /\ receiving[r] = s

\* A wait for room that is not ready waits for a sink that exists and is full: a
\* receiver is then bound to come by.
NoStuckPacketWrite ==
  \A op \in Ops :
    /\ (operations[op] = "packetWrite") <=> (packetWrites[op] # Nil)
    /\ packetWrites[op] # Nil =>
         /\ packetWrites[op].handle \in packetSinks
         /\ packetWrites[op].ready \/ Len(packets[packetWrites[op].handle]) = capacity

\* A guest that waits without polling for room that is there has a token coming.
NoLostWakeup ==
  \A op \in parked : TakePacketWriteReadyReady(op) => completion \/ signalDue

\* The tables agree, and the packets of a sink are delivered once and in order.
Consistent ==
  /\ TypeOK
  /\ PacketIntegrity
  /\ NewSinksAreEmpty

\* Nobody is forgotten: receivers do not all sleep beside a packet, nor any of
\* them beside a full queue nobody looks at; a wait for room is a wait for a
\* full sink that exists, and the guest has a token coming once there is room.
\* UnregisterPacketSink gives it none: it drops the waits for room, and the
\* guest learns of that when it next polls.
NobodyIsForgotten ==
  /\ NoSleepingQueue
  /\ FullQueueIsWatched
  /\ NoStuckPacketWrite
  /\ NoLostWakeup

\* Nobody sleeps for ever in a sink that is gone: UnregisterPacketSink wakes the
\* receivers with the channel `closed`, Close with the reactor's context.
ReceiversReturn ==
  \A r \in Receivers :
    (receiver[r] = "waiting" /\ receiving[r] \notin packetSinks) ~> (receiver[r] = "idle")

=============================================================================
