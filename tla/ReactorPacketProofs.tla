------------------------- MODULE ReactorPacketProofs -------------------------
(***************************************************************************)
(* Proofs about ReactorPacket, for any number of sinks, receivers and      *)
(* operation ids, every capacity and every number of packets.  Inv, the    *)
(* conjunction of the two invariants of the model, is inductive.           *)
(*                                                                         *)
(* The second half proves the same of the other bounded queues of the      *)
(* reactor, those of ReactorDatagram, which is instantiated over the       *)
(* same reactor core.  An instance does not bring the module's             *)
(* assumptions along: they are the hypothesis of its theorems.             *)
(***************************************************************************)
EXTENDS ReactorPacket, SequenceTheorems, TLAPS

\* The inductive invariant.
Inv == Consistent /\ NobodyIsForgotten

-----------------------------------------------------------------------------
(* Sequences.                                                              *)

\* 1, 2, .. n, and the number that TryPacketWrite appends to it.
LEMMA AppendNumber ==
  ASSUME NEW n \in Nat, NEW t \in Seq(Nat), NEW p \in Seq(Nat),
         t \o p = [i \in 1..n |-> i]
  PROVE  t \o Append(p, n + 1) = [i \in 1..(n + 1) |-> i]
<1>0. Len(t) \in Nat /\ Len(p) \in Nat
  BY LenProperties
<1>1. /\ Append(p, n + 1) \in Seq(Nat) /\ Len(Append(p, n + 1)) = Len(p) + 1
      /\ \A i \in 1..Len(p) : Append(p, n + 1)[i] = p[i]
      /\ Append(p, n + 1)[Len(p) + 1] = n + 1
  OBVIOUS
<1>2. /\ t \o p \in Seq(Nat) /\ Len(t \o p) = Len(t) + Len(p)
      /\ \A i \in 1..(Len(t) + Len(p)) : (t \o p)[i] = IF i <= Len(t) THEN t[i] ELSE p[i - Len(t)]
  <2>1. ASSUME NEW x \in Seq(Nat), NEW y \in Seq(Nat)
        PROVE  /\ x \o y \in Seq(Nat) /\ Len(x \o y) = Len(x) + Len(y)
               /\ \A i \in 1..(Len(x) + Len(y)) :
                    (x \o y)[i] = IF i <= Len(x) THEN x[i] ELSE y[i - Len(x)]
    BY ConcatProperties
  <2> QED
    BY <2>1, Zenon
<1>3. Len(t) + Len(p) = n
  <2>1. 1..n = 1..Len(t \o p)
    BY <1>2, LenProperties
  <2> QED
    BY <1>2, <2>1
<1> DEFINE a == Append(p, n + 1)
<1> HIDE DEF a
<1>4. /\ t \o a \in Seq(Nat) /\ Len(t \o a) = n + 1
      /\ \A i \in 1..(n + 1) : (t \o a)[i] = IF i <= Len(t) THEN t[i] ELSE a[i - Len(t)]
  BY <1>1, <1>3, ConcatProperties DEF a
<1>5. ASSUME NEW i \in 1..(n + 1)
      PROVE  (t \o a)[i] = i
  <2>1. CASE i = n + 1
    BY <2>1, <1>1, <1>3, <1>4 DEF a
  <2>2. CASE i \in 1..Len(t)
    BY <2>2, <1>2, <1>3, <1>4
  <2>3. CASE i > Len(t) /\ i <= n
    <3>1. i - Len(t) \in 1..Len(p)
      BY <2>3, <1>3
    <3> QED
      BY <2>3, <3>1, <1>1, <1>2, <1>3, <1>4 DEF a
  <2>4. i = n + 1 \/ i \in 1..Len(t) \/ (i > Len(t) /\ i <= n)
    BY <1>0
  <2> QED
    BY <2>1, <2>2, <2>3, <2>4, Zenon
<1>6. t \o a = [i \in 1..(n + 1) |-> i]
  <2>1. [i \in 1..(n + 1) |-> i] \in Seq(Nat) /\ Len([i \in 1..(n + 1) |-> i]) = n + 1
    OBVIOUS
  <2> QED
    BY <1>4, <1>5, <2>1, SeqEqual
<1> QED
  BY <1>6 DEF a

\* Moving the head of one sequence to the end of another keeps what they are
\* together.
LEMMA MoveHead ==
  ASSUME NEW S, NEW t \in Seq(S), NEW p \in Seq(S), p # <<>>
  PROVE  /\ Head(p) \in S /\ Tail(p) \in Seq(S) /\ Len(Tail(p)) = Len(p) - 1
         /\ Append(t, Head(p)) \in Seq(S)
         /\ Append(t, Head(p)) \o Tail(p) = t \o p
<1>0. Len(t) \in Nat /\ Len(p) \in Nat
  BY LenProperties
<1>1. /\ Head(p) \in S /\ Tail(p) \in Seq(S) /\ Len(Tail(p)) = Len(p) - 1 /\ Head(p) = p[1]
      /\ \A i \in 1..(Len(p) - 1) : Tail(p)[i] = p[i + 1]
  OBVIOUS
<1> DEFINE a == Append(t, Head(p))
           b == Tail(p)
<1>2. /\ a \in Seq(S) /\ Len(a) = Len(t) + 1
      /\ \A i \in 1..Len(t) : a[i] = t[i]
      /\ a[Len(t) + 1] = p[1]
  BY <1>1
<1> HIDE DEF a, b
<1>3. /\ t \o p \in Seq(S) /\ Len(t \o p) = Len(t) + Len(p)
      /\ \A i \in 1..(Len(t) + Len(p)) : (t \o p)[i] = IF i <= Len(t) THEN t[i] ELSE p[i - Len(t)]
  BY ConcatProperties
<1>4. /\ a \o b \in Seq(S) /\ Len(a \o b) = Len(t) + Len(p)
      /\ \A i \in 1..(Len(t) + Len(p)) : (a \o b)[i] = IF i <= Len(t) + 1 THEN a[i] ELSE b[i - Len(t) - 1]
  <2>1. a \o b \in Seq(S) /\ Len(a \o b) = Len(a) + Len(b)
    BY <1>1, <1>2, ConcatProperties DEF b
  <2>2. \A i \in 1..(Len(a) + Len(b)) : (a \o b)[i] = IF i <= Len(a) THEN a[i] ELSE b[i - Len(a)]
    BY <1>1, <1>2, ConcatProperties DEF b
  <2>3. Len(a) + Len(b) = Len(t) + Len(p)
    BY <1>1, <1>2 DEF b
  <2> QED
    BY <1>2, <2>1, <2>2, <2>3
<1>5. ASSUME NEW i \in 1..(Len(t) + Len(p))
      PROVE  (a \o b)[i] = (t \o p)[i]
  <2>1. CASE i <= Len(t)
    BY <2>1, <1>2, <1>3, <1>4
  <2>2. CASE i = Len(t) + 1
    BY <2>2, <1>2, <1>3, <1>4
  <2>3. CASE i > Len(t) + 1
    <3>1. i - Len(t) - 1 \in 1..(Len(p) - 1)
      BY <2>3
    <3>2. b[i - Len(t) - 1] = p[i - Len(t)]
      BY <3>1, <1>1 DEF b
    <3> QED
      BY <2>3, <3>2, <1>3, <1>4
  <2>4. i <= Len(t) \/ i = Len(t) + 1 \/ i > Len(t) + 1
    BY <1>0
  <2> QED
    BY <2>1, <2>2, <2>3, <2>4, Zenon
<1>6. a \o b = t \o p
  BY <1>3, <1>4, <1>5, SeqEqual
<1> QED
  BY <1>1, <1>2, <1>6 DEF a, b

-----------------------------------------------------------------------------
(* The inductive invariant.                                                *)

LEMMA InitInv == Init => Inv
<1> SUFFICES ASSUME Init
             PROVE  Inv
  OBVIOUS
<1> USE DEF Init, CoreInit
<1>1. TypeOK
  <2>1. CoreTypeOK
    BY DEF CoreTypeOK
  <2>2. packets \in [Sinks -> Seq(1..MaxPackets)] /\ taken \in [Sinks -> Seq(1..MaxPackets)]
    OBVIOUS
  <2>3. \A s \in Sinks : Len(packets[s]) <= capacity
    BY CapacityAssumption
  <2> QED
    BY <2>1, <2>2, <2>3, MaxPacketsAssumption DEF TypeOK, ReceiverStates
<1>2. PacketIntegrity
  <2> SUFFICES ASSUME NEW s \in Sinks
               PROVE  <<>> \o <<>> = [i \in 1..0 |-> i]
    BY DEF PacketIntegrity
  <2>1. <<>> \o <<>> = <<>>
    BY ConcatEmptySeq
  <2>2. [i \in 1..0 |-> i] \in Seq(Nat) /\ Len([i \in 1..0 |-> i]) = 0
    OBVIOUS
  <2> QED
    BY <2>1, <2>2, EmptySeq
<1>3. NewSinksAreEmpty /\ NoSleepingQueue /\ FullQueueIsWatched /\ NoStuckPacketWrite /\ NoLostWakeup
  BY DEF NewSinksAreEmpty, NoSleepingQueue, FullQueueIsWatched, NoStuckPacketWrite, NoLostWakeup
<1> QED
  BY <1>1, <1>2, <1>3 DEF Inv, Consistent, NobodyIsForgotten

\* A waiter has a sink and a flag.
LEMMA WaiterType ==
  ASSUME TypeOK, NEW op \in Ops, packetWrites[op] # Nil
  PROVE  /\ packetWrites[op] \in Waiters
         /\ packetWrites[op].handle \in Sinks /\ packetWrites[op].ready \in BOOLEAN
BY DEF TypeOK, Waiters

LEMMA TypeStep == Inv /\ [Next]_vars => TypeOK'
<1> SUFFICES ASSUME TypeOK, PacketIntegrity, [Next]_vars
             PROVE  TypeOK'
  BY DEF Inv, Consistent
<1> USE DEF TypeOK, CoreTypeOK
<1>1. ASSUME NEW s \in Sinks, RegisterPacketSink(s)
      PROVE  TypeOK'
  BY <1>1 DEF RegisterPacketSink, coreVars, receiverVars, history
<1>2. ASSUME NEW s \in Sinks, UnregisterPacketSink(s)
      PROVE  TypeOK'
  BY <1>2 DEF UnregisterPacketSink, receiverVars, history
<1>3. ASSUME NEW s \in Sinks, TryPacketWrite(s)
      PROVE  TypeOK'
  <2>1. /\ written[s] \in 0..MaxPackets /\ written[s] < MaxPackets
        /\ written[s] + 1 \in 1..MaxPackets /\ written[s] + 1 \in 0..MaxPackets
    BY <1>3, MaxPacketsAssumption DEF TryPacketWrite
  <2>2. /\ Append(packets[s], written[s] + 1) \in Seq(1..MaxPackets)
        /\ Len(Append(packets[s], written[s] + 1)) = Len(packets[s]) + 1
    BY <2>1
  <2>3. Len(packets[s]) + 1 <= capacity
    BY <1>3, CapacityAssumption DEF TryPacketWrite, room
  <2>4. packets' = [packets EXCEPT ![s] = Append(packets[s], written[s] + 1)]
    BY <1>3 DEF TryPacketWrite
  <2> HIDE DEF TypeOK, CoreTypeOK
  <2>5. /\ packets' \in [Sinks -> Seq(1..MaxPackets)]
        /\ \A t \in Sinks : Len(packets'[t]) <= capacity
    BY <2>2, <2>3, <2>4 DEF TypeOK
  <2>6. written' \in [Sinks -> 0..MaxPackets] /\ tokenDue' \in [Sinks -> BOOLEAN]
    BY <1>3, <2>1 DEF TypeOK, TryPacketWrite
  <2> QED
    BY <1>3, <2>5, <2>6 DEF TypeOK, CoreTypeOK, TryPacketWrite, coreVars, receiverVars
<1>4. ASSUME NEW s \in Sinks, putToken(s)
      PROVE  TypeOK'
  BY <1>4 DEF putToken, coreVars, receiverVars, history
<1>5. ASSUME NEW s \in Sinks, NEW op \in Ops, StartPacketWriteReady(s, op)
      PROVE  TypeOK'
  <2>1. [handle |-> s, ready |-> room(s)] \in Waiters
    BY DEF Waiters, room
  <2> QED
    BY <1>5, <2>1 DEF StartPacketWriteReady, claimOperationLocked, signalAfterUnlock, OperationKind,
                      sinkVars, receiverVars, history, room
<1>6. ASSUME NEW op \in Ops, TakePacketWriteReady(op)
      PROVE  TypeOK'
  BY <1>6 DEF TakePacketWriteReady, releaseOperationLocked, sinkVars, receiverVars, history
<1>7. ASSUME NEW op \in Ops, TakePacketWriteReadyPending(op)
      PROVE  TypeOK'
  BY <1>7 DEF TakePacketWriteReadyPending, sinkVars, receiverVars, history
<1>8. ASSUME NEW op \in Ops, CancelPacketWrite(op)
      PROVE  TypeOK'
  BY <1>8 DEF CancelPacketWrite, sinkVars, receiverVars, history
<1>9. ASSUME NEW r \in Receivers, NEW s \in Sinks, ReceivePacket(r, s)
      PROVE  TypeOK'
  BY <1>9 DEF ReceivePacket, coreVars, sinkVars, history, ReceiverStates
<1>10. ASSUME NEW r \in Receivers, checkSink(r)
       PROVE  TypeOK'
  <2> DEFINE s == receiving[r]
  <2>0. /\ receiver' \in [Receivers -> ReceiverStates] /\ receiving' \in [Receivers -> Sinks \cup {Nil}]
        /\ UNCHANGED <<closed, closeDone, operations, completion, parked, packetSinks, sinkClosed,
                       available, tokenDue, written>>
    BY <1>10 DEF checkSink, returnTo, ReceiverStates
  <2>1. CASE UNCHANGED <<packets, packetWrites, signalDue, taken>>
    BY <2>0, <2>1
  <2>2. CASE /\ s \in packetSinks /\ packets[s] # <<>>
             /\ packets' = [packets EXCEPT ![s] = remaining(s)]
             /\ taken' = [taken EXCEPT ![s] = Append(@, Head(packets[s]))]
             /\ tellWriters(s)
    <3>1. s \in Sinks /\ packets[s] \in Seq(1..MaxPackets) /\ taken[s] \in Seq(1..MaxPackets)
      BY <2>2
    <3>2. /\ Tail(packets[s]) \in Seq(1..MaxPackets) /\ Len(Tail(packets[s])) = Len(packets[s]) - 1
          /\ Append(taken[s], Head(packets[s])) \in Seq(1..MaxPackets)
      BY <2>2, <3>1, MoveHead
    <3>3. Len(packets[s]) - 1 <= capacity
      BY <3>1, CapacityAssumption
    <3>4. packetWrites' \in [Ops -> Waiters \cup {Nil}] /\ signalDue' \in BOOLEAN
      <4>1. ASSUME NEW op \in Ops, op \in waitersOf(s)
            PROVE  [packetWrites[op] EXCEPT !.ready = TRUE] \in Waiters
        <5>1. packetWrites[op] \in Waiters
          BY <4>1 DEF waitersOf
        <5> QED
          BY <5>1 DEF Waiters
      <4> QED
        BY <2>2, <4>1 DEF tellWriters, signalAfterUnlock
    <3> HIDE DEF TypeOK, CoreTypeOK, s
    <3>5. packets' \in [Sinks -> Seq(1..MaxPackets)] /\ taken' \in [Sinks -> Seq(1..MaxPackets)]
      BY <2>2, <3>1, <3>2 DEF TypeOK, remaining
    <3>6. \A t \in Sinks : Len(packets'[t]) <= capacity
      BY <2>2, <3>1, <3>2, <3>3 DEF TypeOK, remaining
    <3> QED
      BY <2>0, <3>4, <3>5, <3>6 DEF TypeOK, CoreTypeOK
  <2> QED
    BY <1>10, <2>1, <2>2 DEF checkSink
<1>11. ASSUME NEW r \in Receivers, wakeUp(r)
       PROVE  TypeOK'
  BY <1>11 DEF wakeUp, coreVars, history, ReceiverStates
<1>12. ASSUME NEW r \in Receivers, endReceive(r) \/ cancelReceive(r)
       PROVE  TypeOK'
  BY <1>12 DEF endReceive, cancelReceive, returnTo, coreVars, sinkVars, history, ReceiverStates
<1>13. CASE Close
  BY <1>13 DEF Close, receiverVars, history
<1>14. CASE signal \/ notify
  BY <1>14 DEF signal, signalCompletion, notify, NotifyGuest, sinkVars, receiverVars, history
<1>15. CASE UNCHANGED vars
  BY <1>15 DEF vars, coreVars, sinkVars, receiverVars, history
<1> HIDE DEF TypeOK, CoreTypeOK
<1> QED
  BY <1>1, <1>2, <1>3, <1>4, <1>5, <1>6, <1>7, <1>8, <1>9, <1>10, <1>11, <1>12, <1>13, <1>14, <1>15
     DEF Next

\* What checkSink does when it takes a packet.
takes(r) ==
  LET s == receiving[r]
  IN  /\ s \in packetSinks /\ packets[s] # <<>>
      /\ packets' = [packets EXCEPT ![s] = Tail(@)]
      /\ taken' = [taken EXCEPT ![s] = Append(@, Head(packets[s]))]
      /\ tellWriters(s)
      /\ returnTo(r)

LEMMA CheckSinkCases ==
  ASSUME NEW r \in Receivers, checkSink(r)
  PROVE  /\ UNCHANGED <<closed, closeDone, operations, completion, parked, packetSinks, sinkClosed,
                        available, tokenDue, written>>
         /\ \/ takes(r)
            \/ /\ returnTo(r) \/ (packets[receiving[r]] = <<>> /\ receiving' = receiving
                                   /\ receiver' = [receiver EXCEPT ![r] = "waiting"])
               /\ UNCHANGED <<packets, packetWrites, signalDue, taken>>
BY Zenon DEF checkSink, takes, remaining

\* The queues change only when a packet is written or taken.
LEMMA QueueFrame ==
  ASSUME [Next]_vars,
         \A s \in Sinks : ~TryPacketWrite(s),
         \A r \in Receivers : ~(checkSink(r) /\ takes(r))
  PROVE  UNCHANGED <<packets, written, taken>>
<1>1. ASSUME NEW s \in Sinks, RegisterPacketSink(s) \/ UnregisterPacketSink(s) \/ putToken(s)
      PROVE  UNCHANGED <<packets, written, taken>>
  BY <1>1 DEF RegisterPacketSink, UnregisterPacketSink, putToken, history
<1>2. ASSUME NEW s \in Sinks, NEW op \in Ops, StartPacketWriteReady(s, op)
      PROVE  UNCHANGED <<packets, written, taken>>
  BY <1>2 DEF StartPacketWriteReady, sinkVars, history
<1>3. ASSUME NEW op \in Ops,
             TakePacketWriteReady(op) \/ TakePacketWriteReadyPending(op) \/ CancelPacketWrite(op)
      PROVE  UNCHANGED <<packets, written, taken>>
  BY <1>3 DEF TakePacketWriteReady, TakePacketWriteReadyPending, CancelPacketWrite, sinkVars, history
<1>4. ASSUME NEW r \in Receivers, NEW s \in Sinks, ReceivePacket(r, s)
      PROVE  UNCHANGED <<packets, written, taken>>
  BY <1>4 DEF ReceivePacket, sinkVars, history
<1>5. ASSUME NEW r \in Receivers, checkSink(r)
      PROVE  UNCHANGED <<packets, written, taken>>
  BY <1>5, CheckSinkCases
<1>6. ASSUME NEW r \in Receivers, wakeUp(r) \/ endReceive(r) \/ cancelReceive(r)
      PROVE  UNCHANGED <<packets, written, taken>>
  BY <1>6 DEF wakeUp, endReceive, cancelReceive, sinkVars, history
<1>7. CASE Close \/ signal \/ notify \/ UNCHANGED vars
  BY <1>7 DEF Close, signal, notify, vars, sinkVars, history
<1> QED
  BY <1>1, <1>2, <1>3, <1>4, <1>5, <1>6, <1>7 DEF Next

\* A packet goes to the end of the queue and leaves it at its head.
LEMMA IntegrityStep == Inv /\ [Next]_vars => PacketIntegrity'
<1> SUFFICES ASSUME TypeOK, PacketIntegrity, [Next]_vars, NEW s \in Sinks
             PROVE  taken'[s] \o packets'[s] = [i \in 1..written'[s] |-> i]
  BY DEF Inv, Consistent, PacketIntegrity
<1>0. /\ packets[s] \in Seq(1..MaxPackets) /\ taken[s] \in Seq(1..MaxPackets) /\ written[s] \in Nat
      /\ packets[s] \in Seq(Nat) /\ taken[s] \in Seq(Nat)
      /\ taken[s] \o packets[s] = [i \in 1..written[s] |-> i]
  <2>1. 1..MaxPackets \subseteq Nat
    BY MaxPacketsAssumption
  <2>2. /\ packets[s] \in Seq(1..MaxPackets) /\ taken[s] \in Seq(1..MaxPackets) /\ written[s] \in Nat
    BY MaxPacketsAssumption DEF TypeOK
  <2> QED
    BY <2>1, <2>2, SeqMonotonic DEF PacketIntegrity
<1>1. ASSUME NEW t \in Sinks, TryPacketWrite(t)
      PROVE  taken'[s] \o packets'[s] = [i \in 1..written'[s] |-> i]
  <2>0. taken' = taken
    BY <1>1 DEF TryPacketWrite
  <2>1. CASE t = s
    <3>1. packets'[s] = Append(packets[s], written[s] + 1) /\ written'[s] = written[s] + 1
      BY <1>1, <2>1 DEF TryPacketWrite, TypeOK
    <3>2. taken[s] \o Append(packets[s], written[s] + 1) = [i \in 1..(written[s] + 1) |-> i]
      BY <1>0, AppendNumber, Zenon
    <3> QED
      BY <2>0, <3>1, <3>2, Zenon
  <2>2. CASE t # s
    <3>1. packets'[s] = packets[s] /\ written'[s] = written[s]
      BY <1>1, <2>2 DEF TryPacketWrite, TypeOK
    <3> QED
      BY <1>0, <2>0, <3>1
  <2> QED
    BY <2>1, <2>2
<1>2. ASSUME NEW r \in Receivers, checkSink(r), takes(r)
      PROVE  taken'[s] \o packets'[s] = [i \in 1..written'[s] |-> i]
  <2>0. written' = written
    BY <1>2, CheckSinkCases
  <2>1. CASE receiving[r] = s
    <3>1. /\ packets[s] # <<>> /\ packets'[s] = Tail(packets[s])
          /\ taken'[s] = Append(taken[s], Head(packets[s]))
      BY <1>2, <2>1 DEF takes, TypeOK
    <3>2. Append(taken[s], Head(packets[s])) \o Tail(packets[s]) = taken[s] \o packets[s]
      <4>1. packets[s] \in Seq(Nat) /\ taken[s] \in Seq(Nat) /\ packets[s] # <<>>
        BY <1>0, <3>1
      <4> QED
        BY <4>1, MoveHead
    <3> QED
      BY <1>0, <2>0, <3>1, <3>2, Zenon
  <2>2. CASE receiving[r] # s
    <3>1. packets'[s] = packets[s] /\ taken'[s] = taken[s]
      BY <1>2, <2>2 DEF takes, TypeOK
    <3> QED
      BY <1>0, <2>0, <3>1
  <2> QED
    BY <2>1, <2>2
<1>3. CASE UNCHANGED <<packets, written, taken>>
  BY <1>0, <1>3
<1> QED
  BY <1>1, <1>2, <1>3, QueueFrame

\* A sink gets packets after it was registered and is not registered again.
LEMMA NewSinksStep == Inv /\ [Next]_vars => NewSinksAreEmpty'
<1> SUFFICES ASSUME TypeOK, NewSinksAreEmpty, [Next]_vars
             PROVE  NewSinksAreEmpty'
  BY DEF Inv, Consistent
<1> USE DEF NewSinksAreEmpty
<1>1. ASSUME NEW s \in Sinks, RegisterPacketSink(s) \/ UnregisterPacketSink(s) \/ putToken(s)
      PROVE  NewSinksAreEmpty'
  BY <1>1 DEF RegisterPacketSink, UnregisterPacketSink, putToken, coreVars
<1>2. ASSUME NEW s \in Sinks, TryPacketWrite(s)
      PROVE  NewSinksAreEmpty'
  BY <1>2 DEF TryPacketWrite, coreVars, TypeOK
<1>3. ASSUME NEW s \in Sinks, NEW op \in Ops, StartPacketWriteReady(s, op)
      PROVE  NewSinksAreEmpty'
  BY <1>3 DEF StartPacketWriteReady, sinkVars
<1>4. ASSUME NEW op \in Ops,
             TakePacketWriteReady(op) \/ TakePacketWriteReadyPending(op) \/ CancelPacketWrite(op)
      PROVE  NewSinksAreEmpty'
  BY <1>4 DEF TakePacketWriteReady, TakePacketWriteReadyPending, CancelPacketWrite, sinkVars
<1>5. ASSUME NEW r \in Receivers, checkSink(r)
      PROVE  NewSinksAreEmpty'
  <2>1. \A t \in Sinks : t \notin packetSinks => packets'[t] = packets[t]
    BY <1>5, CheckSinkCases DEF takes, TypeOK
  <2> QED
    BY <1>5, <2>1, CheckSinkCases
<1>6. ASSUME NEW r \in Receivers,
             wakeUp(r) \/ endReceive(r) \/ cancelReceive(r) \/ \E s \in Sinks : ReceivePacket(r, s)
      PROVE  NewSinksAreEmpty'
  BY <1>6 DEF wakeUp, endReceive, cancelReceive, ReceivePacket, sinkVars, coreVars
<1>7. CASE Close \/ signal \/ notify \/ UNCHANGED vars
  BY <1>7 DEF Close, signal, signalCompletion, notify, NotifyGuest, vars, sinkVars, coreVars
<1> QED
  BY <1>1, <1>2, <1>3, <1>4, <1>5, <1>6, <1>7 DEF Next

\* Receivers go to sleep beside an empty queue, and whoever fills it has a token
\* to put in.
LEMMA SleepingStep == Inv /\ [Next]_vars => NoSleepingQueue'
<1> SUFFICES ASSUME TypeOK, NewSinksAreEmpty, NoSleepingQueue, [Next]_vars,
                    NEW s \in packetSinks', packets'[s] # <<>>, Receivers # {},
                    \A r \in Receivers : receiver'[r] = "waiting" /\ receiving'[r] = s
             PROVE  available'[s] \/ tokenDue'[s]
  BY DEF Inv, Consistent, NobodyIsForgotten, NoSleepingQueue
<1> PICK r0 \in Receivers : TRUE
  OBVIOUS
\* Nothing about this sink and its receivers has changed ...
<1>1. ASSUME s \in packetSinks, packets[s] # <<>>, available[s] \/ tokenDue[s] =>
                                                     available'[s] \/ tokenDue'[s],
             UNCHANGED <<receiver, receiving>>
      PROVE  available'[s] \/ tokenDue'[s]
  BY <1>1 DEF NoSleepingQueue
\* ... but for a receiver that is not asleep now.
<1>2. ASSUME NEW r \in Receivers, receiver'[r] # "waiting"
      PROVE  available'[s] \/ tokenDue'[s]
  BY <1>2
<1>3. ASSUME NEW t \in Sinks, RegisterPacketSink(t)
      PROVE  available'[s] \/ tokenDue'[s]
  <2>1. s \in packetSinks
    BY <1>3 DEF RegisterPacketSink, NewSinksAreEmpty, TypeOK
  <2> QED
    BY <1>1, <1>3, <2>1 DEF RegisterPacketSink, receiverVars
<1>4. ASSUME NEW t \in Sinks, UnregisterPacketSink(t)
      PROVE  available'[s] \/ tokenDue'[s]
  BY <1>1, <1>4 DEF UnregisterPacketSink, receiverVars
<1>5. ASSUME NEW t \in Sinks, TryPacketWrite(t)
      PROVE  available'[s] \/ tokenDue'[s]
  <2>1. s \in Sinks
    BY <1>5 DEF TryPacketWrite, TypeOK
  <2>2. CASE t = s
    BY <2>1, <2>2, <1>5 DEF TryPacketWrite, TypeOK
  <2>3. CASE t # s
    BY <1>1, <2>1, <2>3, <1>5 DEF TryPacketWrite, TypeOK, receiverVars
  <2> QED
    BY <2>2, <2>3
<1>6. ASSUME NEW t \in Sinks, putToken(t)
      PROVE  available'[s] \/ tokenDue'[s]
  <2>1. s \in Sinks /\ s \in packetSinks /\ packets[s] # <<>>
    BY <1>6 DEF putToken, TypeOK
  <2>2. CASE t = s
    BY <2>1, <2>2, <1>6 DEF putToken, TypeOK
  <2>3. CASE t # s
    BY <1>1, <2>1, <2>3, <1>6 DEF putToken, TypeOK, receiverVars
  <2> QED
    BY <2>2, <2>3
<1>7. ASSUME NEW t \in Sinks, NEW op \in Ops, StartPacketWriteReady(t, op)
      PROVE  available'[s] \/ tokenDue'[s]
  BY <1>1, <1>7 DEF StartPacketWriteReady, sinkVars, receiverVars
<1>8. ASSUME NEW op \in Ops,
             TakePacketWriteReady(op) \/ TakePacketWriteReadyPending(op) \/ CancelPacketWrite(op)
      PROVE  available'[s] \/ tokenDue'[s]
  BY <1>1, <1>8 DEF TakePacketWriteReady, TakePacketWriteReadyPending, CancelPacketWrite, sinkVars,
                    receiverVars
<1>9. ASSUME NEW r \in Receivers, NEW t \in Sinks, ReceivePacket(r, t)
      PROVE  available'[s] \/ tokenDue'[s]
  BY <1>2, <1>9 DEF ReceivePacket, TypeOK
<1>10. ASSUME NEW r \in Receivers, checkSink(r)
       PROVE  available'[s] \/ tokenDue'[s]
  <2>1. CASE returnTo(r)
    BY <1>2, <2>1 DEF returnTo, TypeOK
  <2>2. CASE /\ packets[receiving[r]] = <<>> /\ receiving' = receiving
             /\ packets' = packets
    BY <2>2
  <2> QED
    BY <1>10, <2>1, <2>2, CheckSinkCases DEF takes
<1>11. ASSUME NEW r \in Receivers, wakeUp(r) \/ endReceive(r) \/ cancelReceive(r)
       PROVE  available'[s] \/ tokenDue'[s]
  BY <1>2, <1>11 DEF wakeUp, endReceive, cancelReceive, returnTo, TypeOK
<1>12. CASE Close
  BY <1>12 DEF Close
<1>13. CASE signal \/ notify \/ UNCHANGED vars
  BY <1>1, <1>13 DEF signal, notify, vars, sinkVars, receiverVars
<1> QED
  BY <1>3, <1>4, <1>5, <1>6, <1>7, <1>8, <1>9, <1>10, <1>11, <1>12, <1>13 DEF Next

\* Whoever fills a queue has a token to put in, whoever takes a token looks into
\* the queue, and whoever looks into a full queue leaves it with room.
LEMMA WatchedStep == Inv /\ [Next]_vars => FullQueueIsWatched'
<1> DEFINE looks(r, s) == receiver[r] = "checking" /\ receiving[r] = s
           watched(s) == available[s] \/ tokenDue[s] \/ \E r \in Receivers : looks(r, s)
<1> SUFFICES ASSUME TypeOK, NewSinksAreEmpty, FullQueueIsWatched, [Next]_vars,
                    NEW s \in packetSinks', Len(packets'[s]) = capacity
             PROVE  watched(s)'
  BY DEF Inv, Consistent, NobodyIsForgotten, FullQueueIsWatched
\* Nobody has left off watching this sink ...
<1>1. ASSUME s \in packetSinks, packets'[s] = packets[s], available[s] => available'[s],
             tokenDue[s] => available'[s] \/ tokenDue'[s],
             \A r \in Receivers : looks(r, s) => looks(r, s)'
      PROVE  watched(s)'
  BY <1>1 DEF FullQueueIsWatched
\* ... as long as all that is about it stays as it is.
<1>2. ASSUME s \in packetSinks, UNCHANGED <<packets, available, tokenDue, receiver, receiving>>
      PROVE  watched(s)'
  BY <1>1, <1>2
<1> HIDE DEF watched
<1>3. ASSUME NEW t \in Sinks, RegisterPacketSink(t)
      PROVE  watched(s)'
  <2>1. s \in packetSinks
    BY <1>3, CapacityAssumption DEF RegisterPacketSink, NewSinksAreEmpty, TypeOK
  <2> QED
    BY <1>2, <1>3, <2>1 DEF RegisterPacketSink, receiverVars
<1>4. ASSUME NEW t \in Sinks, UnregisterPacketSink(t)
      PROVE  watched(s)'
  BY <1>2, <1>4 DEF UnregisterPacketSink, receiverVars
<1>5. ASSUME NEW t \in Sinks, TryPacketWrite(t)
      PROVE  watched(s)'
  <2>1. s \in Sinks /\ s \in packetSinks
    BY <1>5 DEF TryPacketWrite, TypeOK
  <2>2. CASE t = s
    BY <2>1, <2>2, <1>5 DEF TryPacketWrite, TypeOK, watched
  <2>3. CASE t # s
    BY <1>1, <2>1, <2>3, <1>5 DEF TryPacketWrite, TypeOK, receiverVars
  <2> QED
    BY <2>2, <2>3
<1>6. ASSUME NEW t \in Sinks, putToken(t)
      PROVE  watched(s)'
  <2>1. s \in Sinks /\ s \in packetSinks
    BY <1>6 DEF putToken, TypeOK
  <2>2. CASE t = s
    BY <2>1, <2>2, <1>6 DEF putToken, TypeOK, watched
  <2>3. CASE t # s
    BY <1>1, <2>1, <2>3, <1>6 DEF putToken, TypeOK, receiverVars
  <2> QED
    BY <2>2, <2>3
<1>7. ASSUME NEW t \in Sinks, NEW op \in Ops, StartPacketWriteReady(t, op)
      PROVE  watched(s)'
  BY <1>2, <1>7 DEF StartPacketWriteReady, sinkVars, receiverVars
<1>8. ASSUME NEW op \in Ops,
             TakePacketWriteReady(op) \/ TakePacketWriteReadyPending(op) \/ CancelPacketWrite(op)
      PROVE  watched(s)'
  BY <1>2, <1>8 DEF TakePacketWriteReady, TakePacketWriteReadyPending, CancelPacketWrite, sinkVars,
                    receiverVars
<1>9. ASSUME NEW r \in Receivers, NEW t \in Sinks, ReceivePacket(r, t)
      PROVE  watched(s)'
  <2>1. s \in packetSinks /\ UNCHANGED <<packets, available, tokenDue>>
    BY <1>9 DEF ReceivePacket, sinkVars
  <2>2. \A q \in Receivers : looks(q, s) => looks(q, s)'
    BY <1>9 DEF ReceivePacket, TypeOK
  <2> HIDE DEF looks
  <2> QED
    BY <1>1, <2>1, <2>2
<1>10. ASSUME NEW r \in Receivers, checkSink(r)
       PROVE  watched(s)'
  <2>1. s \in Sinks /\ s \in packetSinks /\ UNCHANGED <<packetSinks, available, tokenDue>>
    BY <1>10 DEF checkSink, TypeOK
  <2>2. CASE receiving[r] = s
    <3>1. \/ packets[s] = <<>> /\ packets'[s] = packets[s]
          \/ packets[s] # <<>> /\ packets'[s] = Tail(packets[s])
      BY <1>10, <2>1, <2>2 DEF checkSink, remaining, TypeOK
    <3>2. packets[s] \in Seq(1..MaxPackets) /\ Len(packets[s]) <= capacity
      BY <2>1 DEF TypeOK
    <3>3. CASE packets[s] = <<>> /\ packets'[s] = packets[s]
      BY <3>3, CapacityAssumption
    <3>4. CASE packets[s] # <<>> /\ packets'[s] = Tail(packets[s])
      <4>1. Len(Tail(packets[s])) = Len(packets[s]) - 1 /\ Len(packets[s]) \in Nat
        BY <3>2, <3>4
      <4> QED
        BY <3>2, <3>4, <4>1, CapacityAssumption
    <3> QED
      BY <3>1, <3>3, <3>4
  <2>3. CASE receiving[r] # s
    <3>1. packets'[s] = packets[s]
      BY <1>10, <2>1, <2>3 DEF checkSink, TypeOK
    <3>2. \A q \in Receivers : looks(q, s) => looks(q, s)'
      BY <1>10, <2>3 DEF checkSink, returnTo, TypeOK
    <3> HIDE DEF looks
    <3> QED
      BY <1>1, <2>1, <3>1, <3>2
  <2> QED
    BY <2>2, <2>3
<1>11. ASSUME NEW r \in Receivers, wakeUp(r)
       PROVE  watched(s)'
  <2>1. s \in Sinks /\ s \in packetSinks /\ UNCHANGED <<packets, tokenDue>>
    BY <1>11 DEF wakeUp, TypeOK
  <2>2. CASE receiving[r] = s
    <3>1. looks(r, s)'
      BY <1>11, <2>2 DEF wakeUp, TypeOK
    <3> QED
      BY <3>1 DEF watched
  <2>3. CASE receiving[r] # s
    <3>1. available'[s] = available[s]
      BY <1>11, <2>1, <2>3 DEF wakeUp, TypeOK
    <3>2. \A q \in Receivers : looks(q, s) => looks(q, s)'
      BY <1>11 DEF wakeUp, TypeOK
    <3> HIDE DEF looks
    <3> QED
      BY <1>1, <2>1, <3>1, <3>2
  <2> QED
    BY <2>2, <2>3
<1>12. ASSUME NEW r \in Receivers, endReceive(r) \/ cancelReceive(r)
       PROVE  watched(s)'
  <2>1. s \in packetSinks /\ UNCHANGED <<packets, available, tokenDue>>
    BY <1>12 DEF endReceive, cancelReceive, sinkVars
  <2>2. \A q \in Receivers : looks(q, s) => looks(q, s)'
    BY <1>12 DEF endReceive, cancelReceive, returnTo, TypeOK
  <2> HIDE DEF looks
  <2> QED
    BY <1>1, <2>1, <2>2
<1>13. CASE Close
  BY <1>13 DEF Close
<1>14. CASE signal \/ notify \/ UNCHANGED vars
  BY <1>2, <1>14 DEF signal, notify, vars, sinkVars, receiverVars
<1> QED
  BY <1>3, <1>4, <1>5, <1>6, <1>7, <1>8, <1>9, <1>10, <1>11, <1>12, <1>13, <1>14 DEF Next

\* What a wait for room is: registered, on a sink that exists, ready or the sink
\* is full.
writeWaits(op) ==
  /\ (operations[op] = "packetWrite") <=> (packetWrites[op] # Nil)
  /\ packetWrites[op] # Nil =>
       /\ packetWrites[op].handle \in packetSinks
       /\ packetWrites[op].ready \/ Len(packets[packetWrites[op].handle]) = capacity

\* A queue that gets room tells everybody who waits for it.
LEMMA StuckStep == Inv /\ [Next]_vars => NoStuckPacketWrite'
<1> SUFFICES ASSUME TypeOK, NoStuckPacketWrite, [Next]_vars, NEW op \in Ops
             PROVE  writeWaits(op)'
  BY DEF Inv, Consistent, NobodyIsForgotten, NoStuckPacketWrite, writeWaits
<1>0. writeWaits(op)
  BY DEF NoStuckPacketWrite, writeWaits
\* A step that changes neither the wait nor its sink.
<1>1. ASSUME operations'[op] = operations[op], packetWrites'[op] = packetWrites[op],
             packetWrites[op] # Nil =>
               /\ packetWrites[op].handle \in packetSinks'
               /\ packets'[packetWrites[op].handle] = packets[packetWrites[op].handle]
      PROVE  writeWaits(op)'
  BY <1>0, <1>1 DEF writeWaits
\* A step that ends the wait.
<1>2. ASSUME operations'[op] = "none", packetWrites'[op] = Nil
      PROVE  writeWaits(op)'
  BY <1>2 DEF writeWaits
<1>3. ASSUME NEW s \in Sinks, RegisterPacketSink(s)
      PROVE  writeWaits(op)'
  BY <1>0, <1>1, <1>3 DEF RegisterPacketSink, coreVars, writeWaits
<1>4. ASSUME NEW s \in Sinks, UnregisterPacketSink(s)
      PROVE  writeWaits(op)'
  <2>1. CASE op \in waitersOf(s)
    <3>1. operations[op] = "packetWrite"
      BY <2>1, <1>0 DEF waitersOf, writeWaits
    <3> QED
      BY <2>1, <3>1, <1>2, <1>4 DEF UnregisterPacketSink, dropped
  <2>2. CASE op \notin waitersOf(s)
    <3>1. packetWrites[op] # Nil => packetWrites[op].handle \in packetSinks \ {s}
      BY <2>2, <1>0 DEF waitersOf, writeWaits
    <3> QED
      BY <2>2, <3>1, <1>1, <1>4 DEF UnregisterPacketSink, dropped
  <2> QED
    BY <2>1, <2>2
<1>5. ASSUME NEW s \in Sinks, TryPacketWrite(s)
      PROVE  writeWaits(op)'
  <2>0. UNCHANGED <<operations, packetWrites, packetSinks>> /\ Len(packets[s]) < capacity
    BY <1>5 DEF TryPacketWrite, coreVars, room
  <2>1. CASE packetWrites[op] # Nil /\ packetWrites[op].handle = s
    <3>1. packetWrites[op].ready
      BY <2>0, <2>1, <1>0, CapacityAssumption DEF writeWaits
    <3> QED
      BY <2>0, <2>1, <3>1, <1>0 DEF writeWaits
  <2>2. CASE ~(packetWrites[op] # Nil /\ packetWrites[op].handle = s)
    <3>1. packetWrites[op] # Nil => packets'[packetWrites[op].handle] = packets[packetWrites[op].handle]
      BY <2>2, <1>5, WaiterType DEF TryPacketWrite, TypeOK
    <3> QED
      BY <2>0, <3>1, <1>0, <1>1 DEF writeWaits
  <2> QED
    BY <2>1, <2>2
<1>6. ASSUME NEW s \in Sinks, putToken(s)
      PROVE  writeWaits(op)'
  BY <1>0, <1>1, <1>6 DEF putToken, coreVars, writeWaits
<1>7. ASSUME NEW s \in Sinks, NEW o \in Ops, StartPacketWriteReady(s, o)
      PROVE  writeWaits(op)'
  <2>0. packetSinks' = packetSinks /\ packets' = packets /\ s \in packetSinks
    BY <1>7 DEF StartPacketWriteReady, sinkVars
  <2>1. CASE o = op
    <3>1. /\ operations'[op] = "packetWrite"
          /\ packetWrites'[op] = [handle |-> s, ready |-> room(s)]
      BY <2>1, <1>7 DEF StartPacketWriteReady, claimOperationLocked, TypeOK, CoreTypeOK
    <3>2. room(s) \in BOOLEAN
      BY DEF room
    <3>3. room(s) \/ Len(packets[s]) = capacity
      <4>1. Len(packets[s]) \in Nat /\ Len(packets[s]) <= capacity
        BY DEF TypeOK
      <4> QED
        BY <4>1, CapacityAssumption DEF room
    <3>4. packetWrites'[op] # Nil
      <4>1. packetWrites'[op] \in Waiters
        BY <3>1, <3>2 DEF Waiters
      <4> QED
        BY <4>1, NilWaiterAssumption
    <3>5. packetWrites'[op].handle = s /\ packetWrites'[op].ready = room(s)
      BY <3>1
    <3> QED
      BY <2>0, <3>1, <3>3, <3>4, <3>5 DEF writeWaits
  <2>2. CASE o # op
    <3>1. operations'[op] = operations[op] /\ packetWrites'[op] = packetWrites[op]
      BY <2>2, <1>7 DEF StartPacketWriteReady, claimOperationLocked, TypeOK, CoreTypeOK
    <3> QED
      BY <2>0, <3>1, <1>0, <1>1 DEF writeWaits
  <2> QED
    BY <2>1, <2>2
<1>8. ASSUME NEW o \in Ops, TakePacketWriteReady(o) \/ CancelPacketWrite(o)
      PROVE  writeWaits(op)'
  <2>0. packetSinks' = packetSinks /\ packets' = packets /\ operations[o] = "packetWrite"
    BY <1>8 DEF TakePacketWriteReady, TakePacketWriteReadyReady, CancelPacketWrite, sinkVars
  <2>1. CASE o = op
    BY <2>0, <2>1, <1>2, <1>8 DEF TakePacketWriteReady, CancelPacketWrite, releaseOperationLocked,
                                  TypeOK, CoreTypeOK
  <2>2. CASE o # op
    <3>1. operations'[op] = operations[op] /\ packetWrites'[op] = packetWrites[op]
      BY <2>2, <1>8 DEF TakePacketWriteReady, CancelPacketWrite, releaseOperationLocked, TypeOK,
                        CoreTypeOK
    <3> QED
      BY <2>0, <3>1, <1>0, <1>1 DEF writeWaits
  <2> QED
    BY <2>1, <2>2
<1>9. ASSUME NEW o \in Ops, TakePacketWriteReadyPending(o)
      PROVE  writeWaits(op)'
  BY <1>0, <1>1, <1>9 DEF TakePacketWriteReadyPending, sinkVars, writeWaits
<1>10. ASSUME NEW r \in Receivers, checkSink(r)
       PROVE  writeWaits(op)'
  <2> DEFINE s == receiving[r]
  <2>0. UNCHANGED <<operations, packetSinks>>
    BY <1>10, CheckSinkCases
  <2>1. CASE takes(r) /\ op \in waitersOf(s)
    <3>1. packetWrites[op] # Nil /\ packetWrites[op].handle = s /\ packetWrites[op] \in Waiters
      BY <2>1, WaiterType DEF waitersOf
    <3>2. packetWrites'[op] = [packetWrites[op] EXCEPT !.ready = TRUE]
      BY <2>1 DEF takes, tellWriters
    <3>3. /\ packetWrites'[op] \in Waiters /\ packetWrites'[op] # Nil
          /\ packetWrites'[op].handle = s /\ packetWrites'[op].ready
      BY <3>1, <3>2, NilWaiterAssumption DEF Waiters
    <3> QED
      BY <2>0, <3>1, <3>3, <1>0 DEF writeWaits
  <2>2. CASE takes(r) /\ op \notin waitersOf(s)
    <3>1. packetWrites'[op] = packetWrites[op]
      BY <2>2 DEF takes, tellWriters
    <3>2. packetWrites[op] # Nil => packets'[packetWrites[op].handle] = packets[packetWrites[op].handle]
      BY <2>2, WaiterType DEF takes, waitersOf, TypeOK
    <3> QED
      BY <2>0, <3>1, <3>2, <1>0, <1>1 DEF writeWaits
  <2>3. CASE UNCHANGED <<packets, packetWrites>>
    BY <2>0, <2>3, <1>0, <1>1 DEF writeWaits
  <2> QED
    BY <1>10, <2>1, <2>2, <2>3, CheckSinkCases
<1>11. ASSUME NEW r \in Receivers,
             wakeUp(r) \/ endReceive(r) \/ cancelReceive(r) \/ \E s \in Sinks : ReceivePacket(r, s)
       PROVE  writeWaits(op)'
  BY <1>0, <1>1, <1>11 DEF wakeUp, endReceive, cancelReceive, ReceivePacket, sinkVars, coreVars,
                           writeWaits
<1>12. CASE Close
  BY <1>2, <1>12 DEF Close
<1>13. CASE signal \/ notify \/ UNCHANGED vars
  BY <1>0, <1>1, <1>13 DEF signal, signalCompletion, notify, NotifyGuest, vars, sinkVars, coreVars,
                           writeWaits
<1> QED
  BY <1>3, <1>4, <1>5, <1>6, <1>7, <1>8, <1>9, <1>10, <1>11, <1>12, <1>13 DEF Next

\* A wait gets ready where somebody is left to signal it, or when it starts.
LEMMA WakeupStep == Inv /\ [Next]_vars => NoLostWakeup'
<1> SUFFICES ASSUME TypeOK, NoLostWakeup, [Next]_vars,
                    NEW op \in parked', TakePacketWriteReadyReady(op)'
             PROVE  completion' \/ signalDue'
  BY DEF Inv, Consistent, NobodyIsForgotten, NoLostWakeup
\* A wait that was ready before.
<1>1. ASSUME op \in parked, operations'[op] = operations[op], packetWrites'[op] = packetWrites[op],
             completion \/ signalDue => completion' \/ signalDue'
      PROVE  completion' \/ signalDue'
  BY <1>1 DEF NoLostWakeup, TakePacketWriteReadyReady
<1>2. ASSUME operations'[op] = "none" \/ packetWrites'[op] = Nil
      PROVE  completion' \/ signalDue'
  BY <1>2 DEF TakePacketWriteReadyReady
<1>3. ASSUME NEW s \in Sinks, RegisterPacketSink(s) \/ TryPacketWrite(s) \/ putToken(s)
      PROVE  completion' \/ signalDue'
  BY <1>1, <1>3 DEF RegisterPacketSink, TryPacketWrite, putToken, coreVars
<1>4. ASSUME NEW s \in Sinks, UnregisterPacketSink(s)
      PROVE  completion' \/ signalDue'
  <2>1. op \in parked /\ op \in Ops
    BY <1>4 DEF UnregisterPacketSink, TypeOK, CoreTypeOK
  <2>2. CASE op \in waitersOf(s)
    BY <2>1, <2>2, <1>2, <1>4 DEF UnregisterPacketSink, dropped
  <2>3. CASE op \notin waitersOf(s)
    BY <2>1, <2>3, <1>1, <1>4 DEF UnregisterPacketSink, dropped
  <2> QED
    BY <2>2, <2>3
<1>5. ASSUME NEW s \in Sinks, NEW o \in Ops, StartPacketWriteReady(s, o)
      PROVE  completion' \/ signalDue'
  <2>1. CASE o = op
    <3>1. packetWrites'[op] = [handle |-> s, ready |-> room(s)]
      BY <2>1, <1>5 DEF StartPacketWriteReady, TypeOK
    <3>2. room(s)
      BY <3>1 DEF TakePacketWriteReadyReady
    <3> QED
      BY <3>2, <1>5 DEF StartPacketWriteReady, signalAfterUnlock
  <2>2. CASE o # op
    <3>1. /\ op \in parked /\ operations'[op] = operations[op] /\ packetWrites'[op] = packetWrites[op]
          /\ completion' = completion /\ (signalDue => signalDue')
      BY <2>2, <1>5 DEF StartPacketWriteReady, claimOperationLocked, signalAfterUnlock, TypeOK,
                        CoreTypeOK
    <3> QED
      BY <3>1, <1>1
  <2> QED
    BY <2>1, <2>2
<1>6. ASSUME NEW o \in Ops, TakePacketWriteReady(o) \/ CancelPacketWrite(o)
      PROVE  completion' \/ signalDue'
  <2>1. /\ op \in parked /\ op # o
        /\ operations'[op] = operations[op] /\ packetWrites'[op] = packetWrites[op]
        /\ completion' = completion /\ signalDue' = signalDue
    BY <1>6 DEF TakePacketWriteReady, CancelPacketWrite, releaseOperationLocked, TypeOK, CoreTypeOK
  <2> QED
    BY <2>1, <1>1
<1>7. ASSUME NEW o \in Ops, TakePacketWriteReadyPending(o)
      PROVE  completion' \/ signalDue'
  <2>1. CASE o = op
    BY <2>1, <1>7 DEF TakePacketWriteReadyPending, TakePacketWriteReadyReady
  <2>2. CASE o # op
    BY <2>2, <1>1, <1>7 DEF TakePacketWriteReadyPending
  <2> QED
    BY <2>1, <2>2
<1>8. ASSUME NEW r \in Receivers, checkSink(r)
      PROVE  completion' \/ signalDue'
  <2>0. op \in parked /\ op \in Ops /\ operations' = operations /\ completion' = completion
    BY <1>8, CheckSinkCases DEF TypeOK, CoreTypeOK
  <2>1. CASE takes(r) /\ op \in waitersOf(receiving[r])
    BY <2>1 DEF takes, tellWriters, signalAfterUnlock
  <2>2. CASE takes(r) /\ op \notin waitersOf(receiving[r])
    <3>1. packetWrites'[op] = packetWrites[op] /\ (signalDue => signalDue')
      BY <2>0, <2>2 DEF takes, tellWriters, signalAfterUnlock
    <3> QED
      BY <2>0, <3>1, <1>1
  <2>3. CASE UNCHANGED <<packetWrites, signalDue>>
    BY <2>0, <2>3, <1>1
  <2> QED
    BY <1>8, <2>1, <2>2, <2>3, CheckSinkCases
<1>9. ASSUME NEW r \in Receivers,
             wakeUp(r) \/ endReceive(r) \/ cancelReceive(r) \/ \E s \in Sinks : ReceivePacket(r, s)
      PROVE  completion' \/ signalDue'
  BY <1>1, <1>9 DEF wakeUp, endReceive, cancelReceive, ReceivePacket, coreVars
<1>10. CASE Close
  BY <1>2, <1>10 DEF Close, TypeOK, CoreTypeOK
<1>11. CASE signal
  BY <1>11 DEF signal, signalCompletion
<1>12. CASE notify
  BY <1>12 DEF notify, NotifyGuest
<1>13. CASE UNCHANGED vars
  BY <1>1, <1>13 DEF vars, coreVars
<1> QED
  BY <1>3, <1>4, <1>5, <1>6, <1>7, <1>8, <1>9, <1>10, <1>11, <1>12, <1>13 DEF Next

\* Every step keeps every part of the invariant.
LEMMA NextInv == Inv /\ [Next]_vars => Inv'
BY TypeStep, IntegrityStep, NewSinksStep, SleepingStep, WatchedStep, StuckStep, WakeupStep
   DEF Inv, Consistent, NobodyIsForgotten

-----------------------------------------------------------------------------
(* The theorems.                                                           *)

\* The invariant holds in every reachable state of the packet sinks.
THEOREM Invariance == Spec => []Inv
BY InitInv, NextInv, PTL DEF Spec

\* The tables of packet.go agree, the packets of a sink leave its queue once each
\* and in the order they were written, and a sink that is yet to be registered
\* has none.
THEOREM Consistency == Spec => []Consistent
<1>1. Inv => Consistent
  BY DEF Inv
<1> QED
  BY Invariance, <1>1, PTL

\* However TryPacketWrite, ReceivePacket, the waits for room, UnregisterPacketSink
\* and Close interleave: receivers do not all sleep beside a packet without a
\* token, nor does a full queue wait for sleeping receivers only; a wait for room
\* has a full sink that exists to wait for, and the guest has a token coming for
\* room that is there.  That a sink is gone it has to find out by polling.
THEOREM ForgottenByNobody == Spec => []NobodyIsForgotten
<1>1. Inv => NobodyIsForgotten
  BY DEF Inv
<1> QED
  BY Invariance, <1>1, PTL

\* TypeOK, among it the bound on every queue: TryPacketWrite never exceeds the
\* capacity the sink was registered with.
THEOREM QueuesAreBounded == Spec => []TypeOK
<1>1. Inv => TypeOK
  BY DEF Inv, Consistent
<1> QED
  BY Invariance, <1>1, PTL

\* What the receivers of a sink got, one after the other, is the start of what the
\* guest wrote: no packet is lost, repeated or overtaken, however many receivers
\* compete for the queue.
THEOREM PacketsAreDeliveredInOrder ==
  Spec => [](\A s \in Sinks : \A i \in 1..Len(taken[s]) : taken[s][i] = i)
<1>1. ASSUME Inv, NEW s \in Sinks, NEW i \in 1..Len(taken[s])
      PROVE  taken[s][i] = i
  <2>1. packets[s] \in Seq(1..MaxPackets) /\ taken[s] \in Seq(1..MaxPackets)
    BY <1>1 DEF Inv, Consistent, TypeOK
  <2>2. /\ taken[s] \o packets[s] = [j \in 1..written[s] |-> j]
        /\ written[s] \in Nat
    <3>1. PacketIntegrity /\ written \in [Sinks -> 0..MaxPackets]
      BY <1>1 DEF Inv, Consistent, TypeOK
    <3>2. written[s] \in 0..MaxPackets
      BY <3>1
    <3>3. written[s] \in Nat
      BY <3>2, MaxPacketsAssumption
    <3> QED
      BY <3>1, <3>3 DEF PacketIntegrity
  <2>3. /\ Len(taken[s]) \in Nat /\ Len(packets[s]) \in Nat
        /\ i \in 1..(Len(taken[s]) + Len(packets[s]))
    <3>1. Len(taken[s]) \in Nat /\ Len(packets[s]) \in Nat
      BY <2>1, LenProperties
    <3>2. \A m, n \in Nat : 1..m \subseteq 1..(m + n)
      OBVIOUS
    <3>3. 1..Len(taken[s]) \subseteq 1..(Len(taken[s]) + Len(packets[s]))
      BY <3>1, <3>2, Zenon
    <3> QED
      BY <1>1, <3>1, <3>3, Zenon
  <2>4. /\ Len(taken[s] \o packets[s]) = Len(taken[s]) + Len(packets[s])
        /\ (taken[s] \o packets[s])[i] = taken[s][i]
    <3>1. \A j \in 1..(Len(taken[s]) + Len(packets[s])) :
             (taken[s] \o packets[s])[j]
               = IF j <= Len(taken[s]) THEN taken[s][j] ELSE packets[s][j - Len(taken[s])]
      BY <2>1, ConcatProperties
    <3>2. Len(taken[s] \o packets[s]) = Len(taken[s]) + Len(packets[s])
      BY <2>1, ConcatProperties
    <3> QED
      BY <2>3, <3>1, <3>2
  <2>5. i \in 1..written[s]
    <3>1. Len([j \in 1..written[s] |-> j]) = written[s]
      BY <2>2
    <3>2. written[s] = Len(taken[s]) + Len(packets[s])
      BY <2>2, <2>4, <3>1
    <3> QED
      BY <2>3, <3>2
  <2>6. (taken[s] \o packets[s])[i] = i
    BY <2>2, <2>5
  <2> QED
    BY <2>4, <2>6
<1>2. Inv => \A s \in Sinks : \A i \in 1..Len(taken[s]) : taken[s][i] = i
  BY <1>1
<1> QED
  BY Invariance, <1>2, PTL


-----------------------------------------------------------------------------
(* Datagram sockets: the invariant of ReactorDatagram.                     *)

CONSTANTS Sockets, udpReceiveQueueCapacity, udpSendQueueCapacity, MaxArrivals, MaxSends

VARIABLES datagrams, drainingDatagrams, socketClosed, received, receiveRunning, receiveErr,
          receivers, sendQueue, queueClosed, sendErr, sender, sending, udpReads, udpWrites,
          handleClosing, reactorClosing, arrived, submitted, takenDatagrams, writtenDatagrams

\* ReactorDatagram over the reactor core that ReactorPacket extends.
D == INSTANCE ReactorDatagram WITH taken <- takenDatagrams, written <- writtenDatagrams

\* The assumptions of ReactorDatagram on its constants, the hypothesis of every
\* theorem about it here.
DatagramAssumptions ==
  D!CapacityAssumption /\ D!BoundAssumption /\ D!NilWaiterAssumption

\* The inductive invariant of the sockets.
DatagramInv == DatagramAssumptions /\ D!Consistent /\ D!DatagramIntegrity /\ D!NoStuckOperation

\* The invariant holds when the reactor is made.
LEMMA DatagramInitInv == DatagramAssumptions /\ D!Init => DatagramInv
<1> SUFFICES ASSUME DatagramAssumptions, D!Init
             PROVE  DatagramInv
  OBVIOUS
<1> USE DEF D!Init, D!CoreInit
<1>1. D!TypeOK
  <2>1. D!CoreTypeOK
    BY DEF D!CoreTypeOK
  <2>2. <<>> \in Seq(1..MaxArrivals) /\ <<>> \in Seq(1..MaxSends)
    OBVIOUS
  <2>3. 0 \in 0..MaxArrivals /\ 0 \in 0..MaxSends
    BY DEF DatagramAssumptions, D!BoundAssumption
  <2> QED
    BY <2>1, <2>2, <2>3 DEF D!TypeOK, D!SenderStates
<1>2. D!SingleReceiver /\ D!HandlesGoFirst /\ D!SenderAgrees /\ D!CloseFindsEverySocket /\ D!CloseIsFinal
  BY DEF D!SingleReceiver, D!HandlesGoFirst, D!SenderAgrees, D!CloseFindsEverySocket, D!CloseIsFinal
<1>3. D!ReceiverHasRoom
  BY DEF D!ReceiverHasRoom
<1>4. D!SendNeverPanics
  BY DEF D!SendNeverPanics, DatagramAssumptions, D!CapacityAssumption
<1>5. \A d \in Sockets : /\ takenDatagrams[d] \o received[d] = [i \in 1..arrived[d] |-> i]
                         /\ Len(received[d]) <= udpReceiveQueueCapacity
  <2>1. <<>> \o <<>> = [i \in 1..0 |-> i]
    BY SMT
  <2> QED
    BY <2>1 DEF DatagramAssumptions, D!CapacityAssumption
<1>6. D!SendIntegrity
  <2>1. <<>> \o <<>> \o <<>> = [i \in 1..0 |-> i]
    BY SMT
  <2> QED
    BY <2>1 DEF D!SendIntegrity
<1>7. D!NoStuckOperation
  BY DEF D!NoStuckOperation, D!NoStuckReceive, D!NoStuckSend, D!NoLostWakeup
<1> QED
  BY <1>1, <1>2, <1>3, <1>4, <1>5, <1>6, <1>7
     DEF DatagramInv, D!Consistent, D!DatagramIntegrity, D!ReceiveIntegrity

-----------------------------------------------------------------------------
(* Types.                                                                  *)

\* A waiter is a record of its Go type.
LEMMA DatagramWaiterType ==
  ASSUME NEW waiters \in [Ops -> D!Waiters \cup {Nil}], NEW op \in Ops, waiters[op] # Nil
  PROVE  /\ waiters[op] \in D!Waiters
         /\ waiters[op].handle \in Sockets /\ waiters[op].ready \in BOOLEAN
BY DEF D!Waiters

\* Both workers mark the waiters of their socket, and nothing else.
LEMMA MarkReady ==
  ASSUME DatagramAssumptions, NEW waiters \in [Ops -> D!Waiters \cup {Nil}], NEW d \in Sockets
  PROVE  /\ D!markReady(waiters, d) \in [Ops -> D!Waiters \cup {Nil}]
         /\ \A op \in Ops : /\ D!markReady(waiters, d)[op] # Nil <=> waiters[op] # Nil
                            /\ waiters[op] # Nil =>
                                 /\ D!markReady(waiters, d)[op].handle = waiters[op].handle
                                 /\ waiters[op].handle = d => D!markReady(waiters, d)[op].ready
                                 /\ waiters[op].handle # d => D!markReady(waiters, d)[op] = waiters[op]
<1>1. ASSUME NEW op \in Ops
      PROVE  /\ D!markReady(waiters, d)[op] \in D!Waiters \cup {Nil}
             /\ D!markReady(waiters, d)[op] # Nil <=> waiters[op] # Nil
             /\ waiters[op] # Nil =>
                   /\ D!markReady(waiters, d)[op].handle = waiters[op].handle
                   /\ waiters[op].handle = d => D!markReady(waiters, d)[op].ready
                   /\ waiters[op].handle # d => D!markReady(waiters, d)[op] = waiters[op]
  <2>1. CASE op \in D!waitersOf(waiters, d)
    <3>1. waiters[op] \in D!Waiters /\ waiters[op] # Nil
      BY <2>1 DEF D!waitersOf
    <3>2. D!markReady(waiters, d)[op] = [waiters[op] EXCEPT !.ready = TRUE]
      BY <2>1 DEF D!markReady
    <3>3. /\ [waiters[op] EXCEPT !.ready = TRUE] \in D!Waiters
          /\ [waiters[op] EXCEPT !.ready = TRUE].handle = waiters[op].handle
          /\ [waiters[op] EXCEPT !.ready = TRUE].ready
      BY <3>1 DEF D!Waiters
    <3>4. waiters[op].handle = d
      BY <2>1 DEF D!waitersOf
    <3> QED
      BY <3>1, <3>2, <3>3, <3>4 DEF DatagramAssumptions, D!NilWaiterAssumption
  <2>2. CASE op \notin D!waitersOf(waiters, d)
    <3>1. D!markReady(waiters, d)[op] = waiters[op]
      BY <2>2 DEF D!markReady
    <3> QED
      BY <2>2, <3>1 DEF D!waitersOf
  <2> QED
    BY <2>1, <2>2
<1>2. DOMAIN D!markReady(waiters, d) = Ops /\ D!markReady(waiters,
                                                 d) = [op \in Ops |-> D!markReady(waiters, d)[op]]
  BY DEF D!markReady
<1> QED
  BY <1>1, <1>2

\* ReadFrom returned to a socket that still has its handle.
LEMMA ReceiveStores ==
  ASSUME NEW d \in Sockets, NEW err \in BOOLEAN, D!runUDPReceive(d, err), d \in datagrams
  PROVE  /\ receiveErr' = [receiveErr EXCEPT ![d] = @ \/ err]
         /\ arrived' = [arrived EXCEPT ![d] = IF err THEN @ ELSE @ + 1]
         /\ received' = [received EXCEPT ![d] = D!storeReceived(d, err)]
         /\ udpReads' = D!markReady(udpReads, d)
         /\ receiveRunning' = [receiveRunning EXCEPT ![d] = @ /\ ~err /\ D!continueReceiving(d)]
         /\ receivers' = [receivers EXCEPT ![d] = IF ~err /\ D!continueReceiving(d) THEN @ ELSE @ - 1]
         /\ signalDue' = (signalDue \/ D!waitersOf(udpReads, d) # {})
         /\ err \/ arrived[d] < MaxArrivals
BY DEF D!runUDPReceive, D!signalAfterUnlock

\* Every action keeps the types, among them that no more arrives than is numbered.
LEMMA DatagramTypeStep == DatagramInv /\ [D!Next]_(D!vars) => D!TypeOK'
<1> SUFFICES ASSUME DatagramAssumptions, D!TypeOK, D!SenderAgrees, [D!Next]_(D!vars)
             PROVE  D!TypeOK'
  BY DEF DatagramInv, D!Consistent
<1> USE DEF D!TypeOK, D!CoreTypeOK
<1>1. ASSUME NEW d \in Sockets, NEW op \in Ops, D!StartUDPReceive(d, op)
      PROVE  D!TypeOK'
  <2> DEFINE ready == received[d] # <<>> \/ receiveErr[d]
  <2>1. [handle |-> d, ready |-> ready] \in D!Waiters
    BY DEF D!Waiters
  <2>2. D!mayStartReceive(d) \in BOOLEAN
    BY DEF D!mayStartReceive
  <2> HIDE DEF ready
  <2>3. /\ operations' = [operations EXCEPT ![op] = "udpRead"]
        /\ udpReads' = [udpReads EXCEPT ![op] = [handle |-> d, ready |-> ready]]
        /\ D!startReceive(d, D!mayStartReceive(d))
        /\ signalDue' = (signalDue \/ ready)
        /\ parked' = parked \cup {op}
        /\ UNCHANGED <<closed, closeDone, completion, D!handleVars, D!sendVars, received,
              receiveErr, arrived, takenDatagrams>>
    BY <1>1 DEF D!StartUDPReceive, D!claimOperationLocked, D!signalAfterUnlock, ready
  <2>4. receiveRunning' \in [Sockets -> BOOLEAN] /\ receivers' \in [Sockets -> Nat]
    BY <2>2, <2>3 DEF D!startReceive
  <2> QED
    BY <2>1, <2>3, <2>4 DEF D!OperationKind, D!handleVars, D!sendVars
<1>2. ASSUME NEW d \in Sockets, NEW err \in BOOLEAN, D!runUDPReceive(d, err)
      PROVE  D!TypeOK'
  <2>1. UNCHANGED <<closed, closeDone, operations, completion, parked, D!handleVars, D!sendVars,
        takenDatagrams>>
    BY <1>2 DEF D!runUDPReceive
  <2>2. receivers[d] - 1 \in Nat
    BY <1>2 DEF D!runUDPReceive
  <2>3. CASE d \notin datagrams
    <3> HIDE DEF D!TypeOK, D!CoreTypeOK
    <3>1. /\ receivers' = [receivers EXCEPT ![d] = @ - 1]
          /\ UNCHANGED <<received, receiveErr, receiveRunning, udpReads, arrived, signalDue>>
      BY <1>2, <2>3 DEF D!runUDPReceive
    <3>2. receivers' \in [Sockets -> Nat]
      BY <2>2, <3>1 DEF D!TypeOK
    <3> QED
      BY <2>1, <3>1, <3>2 DEF D!TypeOK, D!CoreTypeOK, D!handleVars, D!sendVars
  <2>4. CASE d \in datagrams
    <3> HIDE DEF D!TypeOK, D!CoreTypeOK
    <3>0. /\ receiveErr' = [receiveErr EXCEPT ![d] = @ \/ err]
          /\ arrived' = [arrived EXCEPT ![d] = IF err THEN @ ELSE @ + 1]
          /\ received' = [received EXCEPT ![d] = D!storeReceived(d, err)]
          /\ udpReads' = D!markReady(udpReads, d)
          /\ receiveRunning' = [receiveRunning EXCEPT ![d] = @ /\ ~err /\ D!continueReceiving(d)]
          /\ receivers' = [receivers EXCEPT ![d] = IF ~err /\ D!continueReceiving(d) THEN @ ELSE @ - 1]
          /\ signalDue' = (signalDue \/ D!waitersOf(udpReads, d) # {})
          /\ err \/ arrived[d] < MaxArrivals
      BY <1>2, <2>4, ReceiveStores
    <3>1. err \/ (arrived[d] + 1 \in 1..MaxArrivals /\ arrived[d] + 1 \in 0..MaxArrivals)
      BY <3>0 DEF D!TypeOK, DatagramAssumptions, D!BoundAssumption
    <3>2. arrived' \in [Sockets -> 0..MaxArrivals]
      BY <3>0, <3>1 DEF D!TypeOK
    <3>3. D!storeReceived(d, err) \in Seq(1..MaxArrivals)
      <4>1. received[d] \in Seq(1..MaxArrivals)
        BY DEF D!TypeOK
      <4>2. CASE err
        BY <4>1, <4>2 DEF D!storeReceived
      <4>3. CASE ~err
        <5>1. arrived[d] + 1 \in 1..MaxArrivals
          BY <3>1, <4>3
        <5>2. Append(received[d], arrived[d] + 1) \in Seq(1..MaxArrivals)
          BY <4>1, <5>1, AppendProperties
        <5> QED
          BY <4>3, <5>2 DEF D!storeReceived
      <4> QED
        BY <4>2, <4>3
    <3>4. received' \in [Sockets -> Seq(1..MaxArrivals)] /\ receiveErr' \in [Sockets -> BOOLEAN]
      BY <3>0, <3>3 DEF D!TypeOK
    <3>5. udpReads' \in [Ops -> D!Waiters \cup {Nil}]
      BY <3>0, MarkReady DEF D!TypeOK
    <3>6. receivers' \in [Sockets -> Nat]
      BY <3>0, <2>2 DEF D!TypeOK
    <3>7. receiveRunning' \in [Sockets -> BOOLEAN] /\ signalDue' \in BOOLEAN
      BY <3>0 DEF D!TypeOK, D!CoreTypeOK, D!continueReceiving
    <3> QED
      BY <2>1, <3>2, <3>4, <3>5, <3>6, <3>7 DEF D!TypeOK, D!CoreTypeOK, D!handleVars, D!sendVars
  <2> QED
    BY <2>3, <2>4
<1>3. ASSUME NEW op \in Ops, D!TakeUDPReceive(op)
      PROVE  D!TypeOK'
  <2> DEFINE d == udpReads[op].handle
  <2>1. d \in Sockets
    BY <1>3, DatagramWaiterType DEF D!TakeUDPReceive, D!TakeUDPReceiveReady
  <2>2. /\ UNCHANGED <<closed, closeDone, completion, signalDue, D!handleVars, D!sendVars, arrived>>
        /\ udpReads' \in [Ops -> D!Waiters \cup {Nil}]
        /\ operations' \in [Ops -> D!OperationKind \cup {"none"}]
        /\ parked' \subseteq Ops
    BY <1>3 DEF D!TakeUDPReceive, D!releaseOperationLocked
  <2>3. CASE d \notin datagrams
    BY <1>3, <2>1, <2>2, <2>3 DEF D!TakeUDPReceive, D!handleVars, D!sendVars
  <2>4. CASE d \in datagrams
    <3>1. receiveRunning' \in [Sockets -> BOOLEAN] /\ receivers' \in [Sockets -> Nat]
      <4>1. D!mayRestartReceive(d) \in BOOLEAN
        BY DEF D!mayRestartReceive, D!hasUDPReadWaiterLocked
      <4>2. D!startReceive(d, D!mayRestartReceive(d))
        BY <1>3, <2>4 DEF D!TakeUDPReceive
      <4> QED
        BY <2>1, <4>1, <4>2 DEF D!startReceive
    <3>2. CASE received[d] = <<>>
      <4>1. /\ receiveErr' = [receiveErr EXCEPT ![d] = FALSE]
            /\ UNCHANGED <<received, takenDatagrams>>
        BY <1>3, <2>4, <3>2 DEF D!TakeUDPReceive
      <4> QED
        BY <2>1, <2>2, <3>1, <4>1 DEF D!handleVars, D!sendVars
    <3>3. CASE received[d] # <<>>
      <4>1. /\ takenDatagrams' = [takenDatagrams EXCEPT ![d] = Append(@, Head(received[d]))]
            /\ received' = [received EXCEPT ![d] = Tail(@)]
            /\ UNCHANGED receiveErr
        BY <1>3, <2>4, <3>3 DEF D!TakeUDPReceive
      <4>2. received[d] \in Seq(1..MaxArrivals) /\ takenDatagrams[d] \in Seq(1..MaxArrivals)
        BY <2>1
      <4>3. /\ Append(takenDatagrams[d], Head(received[d])) \in Seq(1..MaxArrivals)
            /\ Tail(received[d]) \in Seq(1..MaxArrivals)
        BY <3>3, <4>2, MoveHead
      <4> QED
        BY <2>1, <2>2, <3>1, <4>1, <4>3 DEF D!handleVars, D!sendVars
    <3> QED
      BY <3>2, <3>3
  <2> QED
    BY <2>3, <2>4
<1>4. ASSUME NEW op \in Ops, D!TakeUDPReceivePending(op)
      PROVE  D!TypeOK'
  BY <1>4 DEF D!TakeUDPReceivePending, D!receiveVars, D!sendVars, D!handleVars
<1>5. ASSUME NEW op \in Ops, D!CancelUDPReceive(op)
      PROVE  D!TypeOK'
  BY <1>5 DEF D!CancelUDPReceive, D!sendVars, D!handleVars
<1>6. ASSUME NEW d \in Sockets, D!TryUDPSend(d)
      PROVE  D!TypeOK'
  <2>1. submitted[d] + 1 \in 1..MaxSends /\ submitted[d] + 1 \in 0..MaxSends
    BY <1>6 DEF D!TryUDPSend, DatagramAssumptions, D!BoundAssumption
  <2>2. Append(sendQueue[d], submitted[d] + 1) \in Seq(1..MaxSends)
    BY <2>1
  <2> QED
    BY <1>6, <2>1, <2>2 DEF D!TryUDPSend, D!coreVars, D!receiveVars, D!handleVars
<1>7. ASSUME NEW d \in Sockets, NEW op \in Ops, D!StartUDPSendReady(d, op)
      PROVE  D!TypeOK'
  <2>1. [handle |-> d, ready |-> D!sendable(d)] \in D!Waiters
    BY DEF D!Waiters, D!sendable
  <2> QED
    BY <1>7, <2>1 DEF D!StartUDPSendReady, D!claimOperationLocked, D!signalAfterUnlock,
         D!OperationKind, D!sendable,
                      D!receiveVars, D!handleVars
<1>8. ASSUME NEW d \in Sockets, D!takeSend(d)
      PROVE  D!TypeOK'
  <2>1. Head(sendQueue[d]) \in 0..MaxSends /\ Tail(sendQueue[d]) \in Seq(1..MaxSends)
    BY <1>8, MoveHead DEF D!takeSend, DatagramAssumptions, D!BoundAssumption
  <2> QED
    BY <1>8, <2>1 DEF D!takeSend, D!SenderStates, D!coreVars, D!receiveVars, D!handleVars
<1>9. ASSUME NEW d \in Sockets, D!tellRoom(d)
      PROVE  D!TypeOK'
  <2>1. udpWrites' \in [Ops -> D!Waiters \cup {Nil}]
    BY <1>9, MarkReady DEF D!tellRoom
  <2> QED
    BY <1>9, <2>1 DEF D!tellRoom, D!signalAfterUnlock, D!SenderStates, D!receiveVars, D!handleVars
<1>10. ASSUME NEW d \in Sockets, NEW err \in BOOLEAN, D!WriteTo(d, err)
       PROVE  D!TypeOK'
  <2>1. sending[d] \in 1..MaxSends
    BY <1>10 DEF D!WriteTo, D!SenderAgrees, DatagramAssumptions, D!BoundAssumption
  <2>2. Append(writtenDatagrams[d], sending[d]) \in Seq(1..MaxSends) /\ 0 \in 0..MaxSends
    BY <2>1 DEF DatagramAssumptions, D!BoundAssumption
  <2>3. udpWrites' \in [Ops -> D!Waiters \cup {Nil}]
    BY <1>10, MarkReady DEF D!WriteTo
  <2>4. signalDue' \in BOOLEAN /\ sendErr' \in [Sockets -> BOOLEAN]
    BY <1>10 DEF D!WriteTo, D!signalAfterUnlock
  <2> QED
    BY <1>10, <2>2, <2>3, <2>4 DEF D!WriteTo, D!SenderStates, D!receiveVars, D!handleVars
<1>11. ASSUME NEW d \in Sockets, D!closeSocket(d) \/ D!finishUDPSends(d)
       PROVE  D!TypeOK'
  BY <1>11 DEF D!closeSocket, D!finishUDPSends, D!SenderStates, D!coreVars, D!receiveVars
<1>12. ASSUME NEW op \in Ops, D!TakeUDPSendReady(op) \/ D!TakeUDPSendReadyPending(op) \/ D!CancelUDPSendReady(op)
       PROVE  D!TypeOK'
  BY <1>12 DEF D!TakeUDPSendReady, D!TakeUDPSendReadyPending, D!CancelUDPSendReady,
       D!releaseOperationLocked,
               D!receiveVars, D!handleVars, D!sendVars
<1>13. ASSUME NEW d \in Sockets, D!CloseHandle(d) \/ D!closeAfterQueuedSends(d) \/ D!closeNow(d)
       PROVE  D!TypeOK'
  BY <1>13 DEF D!CloseHandle, D!closeAfterQueuedSends, D!closeNow, D!coreVars, D!receiveVars,
       D!sendVars
<1>14. CASE D!Close
  BY <1>14 DEF D!Close
<1>15. CASE D!CloseReturns
  BY <1>15 DEF D!CloseReturns, D!receiveVars, D!sendVars, D!handleVars
<1>16. CASE D!signal \/ D!notify
  BY <1>16 DEF D!signal, D!signalCompletion, D!notify, D!NotifyGuest, D!receiveVars, D!sendVars,
       D!handleVars
<1>17. CASE UNCHANGED D!vars
  BY <1>17 DEF D!vars, D!coreVars, D!receiveVars, D!sendVars, D!handleVars
<1> HIDE DEF D!TypeOK, D!CoreTypeOK
<1> QED
  BY <1>1, <1>2, <1>3, <1>4, <1>5, <1>6, <1>7, <1>8, <1>9, <1>10, <1>11, <1>12, <1>13, <1>14, <1>15,
     <1>16, <1>17 DEF D!Next, D!receiveReturns, D!writeReturns, D!Terminated

-----------------------------------------------------------------------------
(* What a step may touch.                                                  *)

\* Only three operations touch the receiving side of a socket, and they leave the
\* handles alone; no step gives a socket a handle.
LEMMA ReceiveCases ==
  ASSUME D!TypeOK, [D!Next]_(D!vars)
  PROVE  \/ \E d \in Sockets, op \in Ops : D!StartUDPReceive(d, op)
         \/ \E d \in Sockets, err \in BOOLEAN : D!runUDPReceive(d, err)
         \/ \E op \in Ops : D!TakeUDPReceive(op)
         \/ /\ UNCHANGED <<received, receiveRunning, receiveErr, receivers, arrived, takenDatagrams>>
            /\ datagrams' \subseteq datagrams
            /\ \A op \in Ops : udpReads'[op] \in {udpReads[op], Nil}
<1> DEFINE Frame == /\ UNCHANGED <<received, receiveRunning, receiveErr, receivers, arrived,
                          takenDatagrams>>
                    /\ datagrams' \subseteq datagrams
                    /\ \A op \in Ops : udpReads'[op] \in {udpReads[op], Nil}
<1>1. ASSUME NEW op \in Ops, \/ D!TakeUDPReceivePending(op) \/ D!CancelUDPReceive(op) \/ D!TakeUDPSendReady(op)
                             \/ D!TakeUDPSendReadyPending(op) \/ D!CancelUDPSendReady(op)
      PROVE  Frame
  BY <1>1 DEF D!TakeUDPReceivePending, D!CancelUDPReceive, D!TakeUDPSendReady,
       D!TakeUDPSendReadyPending,
              D!CancelUDPSendReady, D!receiveVars, D!handleVars, D!TypeOK
<1>2. ASSUME NEW d \in Sockets, \/ D!TryUDPSend(d) \/ D!takeSend(d) \/ D!tellRoom(d) \/ D!closeSocket(d)
                                \/ D!finishUDPSends(d)
      PROVE  Frame
  BY <1>2 DEF D!TryUDPSend, D!takeSend, D!tellRoom, D!closeSocket, D!finishUDPSends, D!receiveVars,
       D!handleVars
<1>3. ASSUME NEW d \in Sockets, D!CloseHandle(d) \/ D!closeAfterQueuedSends(d) \/ D!closeNow(d)
      PROVE  Frame
  BY <1>3 DEF D!CloseHandle, D!closeAfterQueuedSends, D!closeNow, D!receiveVars
<1>4. ASSUME NEW d \in Sockets, NEW op \in Ops, D!StartUDPSendReady(d, op)
      PROVE  Frame
  BY <1>4 DEF D!StartUDPSendReady, D!receiveVars, D!handleVars
<1>5. ASSUME NEW d \in Sockets, NEW err \in BOOLEAN, D!WriteTo(d, err)
      PROVE  Frame
  BY <1>5 DEF D!WriteTo, D!receiveVars, D!handleVars
<1>6. ASSUME D!Close \/ D!CloseReturns
      PROVE  Frame
  BY <1>6 DEF D!Close, D!CloseReturns, D!receiveVars, D!handleVars
<1>7. ASSUME D!signal \/ D!notify \/ UNCHANGED D!vars
      PROVE  Frame
  BY <1>7 DEF D!signal, D!notify, D!vars, D!receiveVars, D!handleVars
<1> HIDE DEF Frame
<1>8. \/ \E d \in Sockets, op \in Ops : D!StartUDPReceive(d, op)
      \/ \E d \in Sockets, err \in BOOLEAN : D!runUDPReceive(d, err)
      \/ \E op \in Ops : D!TakeUDPReceive(op)
      \/ Frame
  BY <1>1, <1>2, <1>3, <1>4, <1>5, <1>6, <1>7 DEF D!Next, D!receiveReturns, D!writeReturns,
       D!Terminated
<1> QED
  BY <1>8 DEF Frame

\* Only the sending goroutine and TryUDPSend touch the sending side of a socket.
LEMMA SendCases ==
  ASSUME D!TypeOK, [D!Next]_(D!vars)
  PROVE  \/ \E d \in Sockets : D!TryUDPSend(d)
         \/ \E d \in Sockets : D!takeSend(d)
         \/ \E d \in Sockets : D!tellRoom(d)
         \/ \E d \in Sockets, err \in BOOLEAN : D!WriteTo(d, err)
         \/ \E d \in Sockets : D!closeSocket(d)
         \/ \E d \in Sockets : D!finishUDPSends(d)
         \/ /\ UNCHANGED <<sendQueue, sendErr, sender, sending, submitted, writtenDatagrams>>
            /\ \/ \E d \in Sockets, op \in Ops : D!StartUDPSendReady(d, op)
               \/ \A op \in Ops : udpWrites'[op] \in {udpWrites[op], Nil}
<1> DEFINE Frame == /\ UNCHANGED <<sendQueue, sendErr, sender, sending, submitted, writtenDatagrams>>
                    /\ \/ \E d \in Sockets, op \in Ops : D!StartUDPSendReady(d, op)
                       \/ \A op \in Ops : udpWrites'[op] \in {udpWrites[op], Nil}
<1>1. ASSUME NEW op \in Ops, \/ D!TakeUDPReceivePending(op) \/ D!CancelUDPReceive(op) \/ D!TakeUDPSendReady(op)
                             \/ D!TakeUDPSendReadyPending(op) \/ D!CancelUDPSendReady(op) \/ D!TakeUDPReceive(op)
      PROVE  Frame
  BY <1>1 DEF D!TakeUDPReceivePending, D!CancelUDPReceive, D!TakeUDPSendReady,
       D!TakeUDPSendReadyPending,
              D!CancelUDPSendReady, D!TakeUDPReceive, D!sendVars, D!TypeOK
<1>2. ASSUME NEW d \in Sockets, NEW op \in Ops, D!StartUDPReceive(d, op)
      PROVE  Frame
  BY <1>2 DEF D!StartUDPReceive, D!sendVars
<1>8. ASSUME NEW d \in Sockets, NEW op \in Ops, D!StartUDPSendReady(d, op)
      PROVE  Frame
  <2>1. UNCHANGED <<sendQueue, sendErr, sender, sending, submitted, writtenDatagrams>>
    BY <1>8 DEF D!StartUDPSendReady
  <2> QED
    BY <1>8, <2>1
<1>3. ASSUME NEW d \in Sockets, D!CloseHandle(d) \/ D!closeAfterQueuedSends(d) \/ D!closeNow(d)
      PROVE  Frame
  BY <1>3 DEF D!CloseHandle, D!closeAfterQueuedSends, D!closeNow, D!sendVars
<1>4. ASSUME NEW d \in Sockets, NEW err \in BOOLEAN, D!runUDPReceive(d, err)
      PROVE  Frame
  BY <1>4 DEF D!runUDPReceive, D!sendVars
<1>5. ASSUME D!Close \/ D!CloseReturns
      PROVE  Frame
  BY <1>5 DEF D!Close, D!CloseReturns, D!sendVars
<1>6. ASSUME D!signal \/ D!notify \/ UNCHANGED D!vars
      PROVE  Frame
  BY <1>6 DEF D!signal, D!notify, D!vars, D!sendVars
<1> HIDE DEF Frame
<1>7. \/ \E d \in Sockets : D!TryUDPSend(d)
      \/ \E d \in Sockets : D!takeSend(d)
      \/ \E d \in Sockets : D!tellRoom(d)
      \/ \E d \in Sockets, err \in BOOLEAN : D!WriteTo(d, err)
      \/ \E d \in Sockets : D!closeSocket(d)
      \/ \E d \in Sockets : D!finishUDPSends(d)
      \/ Frame
  BY <1>1, <1>2, <1>3, <1>4, <1>5, <1>6, <1>8 DEF D!Next, D!receiveReturns, D!writeReturns,
       D!Terminated
<1> QED
  BY <1>7 DEF Frame

\* The handles, their queues and their sockets change only when something is closed.
LEMMA HandleCases ==
  ASSUME [D!Next]_(D!vars)
  PROVE  \/ \E d \in Sockets : D!CloseHandle(d)
         \/ \E d \in Sockets : D!closeAfterQueuedSends(d)
         \/ \E d \in Sockets : D!closeNow(d)
         \/ \E d \in Sockets : D!closeSocket(d)
         \/ \E d \in Sockets : D!finishUDPSends(d)
         \/ D!Close
         \/ D!CloseReturns
         \/ UNCHANGED <<datagrams, drainingDatagrams, socketClosed, queueClosed, handleClosing,
                        reactorClosing, closed, closeDone>>
<1> DEFINE Frame == UNCHANGED <<datagrams, drainingDatagrams, socketClosed, queueClosed, handleClosing,
                                reactorClosing, closed, closeDone>>
<1>1. ASSUME NEW op \in Ops, \/ D!TakeUDPReceivePending(op) \/ D!CancelUDPReceive(op) \/ D!TakeUDPSendReady(op)
                             \/ D!TakeUDPSendReadyPending(op) \/ D!CancelUDPSendReady(op) \/ D!TakeUDPReceive(op)
      PROVE  Frame
  BY <1>1 DEF D!TakeUDPReceivePending, D!CancelUDPReceive, D!TakeUDPSendReady,
       D!TakeUDPSendReadyPending,
              D!CancelUDPSendReady, D!TakeUDPReceive, D!handleVars
<1>2. ASSUME NEW d \in Sockets, NEW op \in Ops, D!StartUDPReceive(d, op) \/ D!StartUDPSendReady(d, op)
      PROVE  Frame
  BY <1>2 DEF D!StartUDPReceive, D!StartUDPSendReady, D!handleVars
<1>3. ASSUME NEW d \in Sockets, D!TryUDPSend(d) \/ D!takeSend(d) \/ D!tellRoom(d)
      PROVE  Frame
  BY <1>3 DEF D!TryUDPSend, D!takeSend, D!tellRoom, D!handleVars, D!coreVars
<1>4. ASSUME NEW d \in Sockets, NEW err \in BOOLEAN, D!runUDPReceive(d, err) \/ D!WriteTo(d, err)
      PROVE  Frame
  BY <1>4 DEF D!runUDPReceive, D!WriteTo, D!handleVars
<1>5. ASSUME D!signal \/ D!notify \/ UNCHANGED D!vars
      PROVE  Frame
  BY <1>5 DEF D!signal, D!notify, D!signalCompletion, D!NotifyGuest, D!vars, D!handleVars,
       D!coreVars
<1> HIDE DEF Frame
<1>6. \/ \E d \in Sockets : D!CloseHandle(d)
      \/ \E d \in Sockets : D!closeAfterQueuedSends(d)
      \/ \E d \in Sockets : D!closeNow(d)
      \/ \E d \in Sockets : D!closeSocket(d)
      \/ \E d \in Sockets : D!finishUDPSends(d)
      \/ D!Close
      \/ D!CloseReturns
      \/ Frame
  BY <1>1, <1>2, <1>3, <1>4, <1>5 DEF D!Next, D!receiveReturns, D!writeReturns, D!Terminated
<1> QED
  BY <1>6 DEF Frame

-----------------------------------------------------------------------------
(* One receiving goroutine, with room for what it gets.                    *)

\* startReceive counts the goroutine it starts.
LEMMA StartReceive ==
  ASSUME NEW e \in Sockets, NEW start \in BOOLEAN, D!startReceive(e, start),
         receivers \in [Sockets -> Nat], receiveRunning \in [Sockets -> BOOLEAN]
  PROVE  \A d \in Sockets :
           IF d = e /\ start THEN receiveRunning'[d] /\ receivers'[d] = receivers[d] + 1
           ELSE receiveRunning'[d] = receiveRunning[d] /\ receivers'[d] = receivers[d]
<1>1. /\ \A d \in Sockets : receiveRunning'[d] = IF d = e THEN receiveRunning[d] \/ start ELSE receiveRunning[d]
      /\ \A d \in Sockets : receivers'[d] = IF d = e /\ start THEN receivers[d] + 1 ELSE receivers[d]
  BY DEF D!startReceive
<1>2. CASE start
  BY <1>1, <1>2
<1>3. CASE ~start
  BY <1>1, <1>3, Zenon
<1> QED
  BY <1>2, <1>3

\* A worker is counted when it starts and when it ends, and stops at the capacity.
LEMMA ReceiverStep == DatagramInv /\ [D!Next]_(D!vars) => (D!SingleReceiver /\ D!ReceiverHasRoom)'
<1> SUFFICES ASSUME DatagramAssumptions, D!TypeOK, D!SingleReceiver, D!ReceiverHasRoom,
      [D!Next]_(D!vars), NEW d \in datagrams'
             PROVE  /\ receivers'[d] = IF receiveRunning'[d] THEN 1 ELSE 0
                    /\ receiveRunning'[d] => Len(received'[d]) < udpReceiveQueueCapacity
  BY DEF DatagramInv, D!Consistent, D!SingleReceiver, D!ReceiverHasRoom
<1>0. ASSUME d \in datagrams
      PROVE  /\ d \in Sockets
             /\ receivers[d] = IF receiveRunning[d] THEN 1 ELSE 0
             /\ receiveRunning[d] => Len(received[d]) < udpReceiveQueueCapacity
             /\ receivers \in [Sockets -> Nat] /\ receiveRunning \in [Sockets -> BOOLEAN]
             /\ received \in [Sockets -> Seq(1..MaxArrivals)]
  BY <1>0 DEF D!TypeOK, D!SingleReceiver, D!ReceiverHasRoom
<1>1. ASSUME NEW e \in Sockets, NEW op \in Ops, D!StartUDPReceive(e, op)
      PROVE  /\ receivers'[d] = IF receiveRunning'[d] THEN 1 ELSE 0
             /\ receiveRunning'[d] => Len(received'[d]) < udpReceiveQueueCapacity
  <2>1. d \in datagrams /\ received' = received /\ D!startReceive(e, D!mayStartReceive(e))
    BY <1>1 DEF D!StartUDPReceive, D!handleVars
  <2>2. D!mayStartReceive(e) \in BOOLEAN /\ (D!mayStartReceive(e) => ~receiveRunning[e] /\ Len(received[e]) < udpReceiveQueueCapacity)
    BY DEF D!mayStartReceive
  <2>3. IF d = e /\ D!mayStartReceive(e) THEN receiveRunning'[d] /\ receivers'[d] = receivers[d] + 1
        ELSE receiveRunning'[d] = receiveRunning[d] /\ receivers'[d] = receivers[d]
    BY <1>0, <2>1, <2>2, StartReceive, Zenon
  <2>4. CASE d = e /\ D!mayStartReceive(e)
    BY <1>0, <2>1, <2>2, <2>3, <2>4
  <2>5. CASE ~(d = e /\ D!mayStartReceive(e))
    BY <1>0, <2>1, <2>3, <2>5
  <2> QED
    BY <2>4, <2>5
<1>2. ASSUME NEW e \in Sockets, NEW err \in BOOLEAN, D!runUDPReceive(e, err)
      PROVE  /\ receivers'[d] = IF receiveRunning'[d] THEN 1 ELSE 0
             /\ receiveRunning'[d] => Len(received'[d]) < udpReceiveQueueCapacity
  <2>1. d \in datagrams /\ receivers[e] > 0
    BY <1>2 DEF D!runUDPReceive, D!handleVars
  <2>2. CASE e \notin datagrams
    BY <1>0, <1>2, <2>1, <2>2 DEF D!runUDPReceive
  <2>3. CASE e \in datagrams /\ d # e
    <3>1. /\ received' = [received EXCEPT ![e] = D!storeReceived(e, err)]
          /\ receiveRunning' = [receiveRunning EXCEPT ![e] = @ /\ ~err /\ D!continueReceiving(e)]
          /\ receivers' = [receivers EXCEPT ![e] = IF ~err /\ D!continueReceiving(e) THEN @ ELSE @ - 1]
      BY <1>2, <2>3, ReceiveStores
    <3> QED
      BY <1>0, <2>1, <2>3, <3>1
  <2>4. CASE e \in datagrams /\ d = e
    <3>1. /\ receiveRunning' = [receiveRunning EXCEPT ![d] = @ /\ ~err /\ D!continueReceiving(d)]
          /\ receivers' = [receivers EXCEPT ![d] = IF ~err /\ D!continueReceiving(d) THEN @ ELSE @ - 1]
      BY <1>2, <2>4, ReceiveStores
    <3>2. receiveRunning[d] /\ receivers[d] = 1
      BY <1>0, <2>1, <2>4
    <3>3. receiveRunning'[d] = (~err /\ D!continueReceiving(d))
      BY <1>0, <2>1, <3>1, <3>2
    <3>4. receivers'[d] = IF ~err /\ D!continueReceiving(d) THEN 1 ELSE 0
      BY <1>0, <2>1, <3>1, <3>2
    <3>5. D!continueReceiving(d) => Len(received'[d]) < udpReceiveQueueCapacity
      BY DEF D!continueReceiving
    <3> QED
      BY <3>3, <3>4, <3>5
  <2> QED
    BY <2>2, <2>3, <2>4
<1>3. ASSUME NEW op \in Ops, D!TakeUDPReceive(op)
      PROVE  /\ receivers'[d] = IF receiveRunning'[d] THEN 1 ELSE 0
             /\ receiveRunning'[d] => Len(received'[d]) < udpReceiveQueueCapacity
  <2> DEFINE e == udpReads[op].handle
  <2>0. e \in Sockets /\ d \in datagrams
    BY <1>3, DatagramWaiterType DEF D!TakeUDPReceive, D!TakeUDPReceiveReady, D!handleVars, D!TypeOK
  <2>1. CASE e \notin datagrams
    BY <1>0, <1>3, <2>0, <2>1 DEF D!TakeUDPReceive
  <2>2. CASE e \in datagrams
    <3>1. D!startReceive(e, D!mayRestartReceive(e)) /\ (received' = received \/ received' = [received EXCEPT ![e] = Tail(@)])
      BY <1>3, <2>2 DEF D!TakeUDPReceive
    <3>2. received[e] # <<>> => Len(Tail(received[e])) = Len(received[e]) - 1
      BY <1>0, <2>0
    <3>3. received' = received \/ (received' = [received EXCEPT ![e] = Tail(@)] /\ received[e] # <<>>)
      BY <1>3, <2>2 DEF D!TakeUDPReceive
    <3>4. Len(received[e]) \in Nat /\ Len(received[d]) \in Nat
      BY <1>0, <2>0
    <3>5. Len(received'[d]) <= Len(received[d])
      <4>1. CASE received' = received
        BY <3>4, <4>1
      <4>2. CASE received' = [received EXCEPT ![e] = Tail(@)] /\ received[e] # <<>>
        BY <1>0, <2>0, <3>2, <3>4, <4>2
      <4> QED
        BY <3>3, <4>1, <4>2
    <3>6. Len(received'[d]) \in Nat
      <4>1. CASE received' = received
        BY <3>4, <4>1
      <4>2. CASE received' = [received EXCEPT ![e] = Tail(@)] /\ received[e] # <<>>
        BY <1>0, <2>0, <3>2, <3>4, <4>2
      <4> QED
        BY <3>3, <4>1, <4>2
    <3>7. receiveRunning[d] => Len(received'[d]) < udpReceiveQueueCapacity
      BY <1>0, <2>0, <3>4, <3>5, <3>6 DEF DatagramAssumptions, D!CapacityAssumption
    <3>8. /\ D!mayRestartReceive(e) \in BOOLEAN
          /\ D!mayRestartReceive(e) => ~receiveRunning[e] /\ Len(received'[e]) < udpReceiveQueueCapacity
      BY DEF D!mayRestartReceive, D!hasUDPReadWaiterLocked
    <3> HIDE DEF e
    <3>9. IF d = e /\ D!mayRestartReceive(e) THEN receiveRunning'[d] /\ receivers'[d] = receivers[d] + 1
          ELSE receiveRunning'[d] = receiveRunning[d] /\ receivers'[d] = receivers[d]
      BY <1>0, <2>0, <3>1, <3>8, StartReceive, Zenon
    <3>10. CASE d = e /\ D!mayRestartReceive(e)
      BY <1>0, <2>0, <3>8, <3>9, <3>10
    <3>11. CASE ~(d = e /\ D!mayRestartReceive(e))
      BY <1>0, <2>0, <3>7, <3>9, <3>11
    <3> QED
      BY <3>10, <3>11
  <2> QED
    BY <2>1, <2>2
<1>4. CASE /\ UNCHANGED <<received, receiveRunning, receiveErr, receivers, arrived, takenDatagrams>>
           /\ datagrams' \subseteq datagrams
  BY <1>0, <1>4
<1> QED
  BY <1>1, <1>2, <1>3, <1>4, ReceiveCases

-----------------------------------------------------------------------------
(* Handles, channels and sockets.                                          *)

\* A handle goes before anything of its socket is closed.
LEMMA HandlesStep == DatagramInv /\ [D!Next]_(D!vars) => D!HandlesGoFirst'
<1> SUFFICES ASSUME DatagramAssumptions, D!TypeOK, D!HandlesGoFirst, [D!Next]_(D!vars)
             PROVE  D!HandlesGoFirst'
  BY DEF DatagramInv, D!Consistent
<1> USE DEF D!HandlesGoFirst
<1>1. ASSUME NEW d \in Sockets, D!CloseHandle(d)
      PROVE  D!HandlesGoFirst'
  BY <1>1 DEF D!CloseHandle, D!coreVars
<1>2. ASSUME NEW d \in Sockets, D!closeAfterQueuedSends(d) \/ D!closeNow(d)
      PROVE  D!HandlesGoFirst'
  BY <1>2 DEF D!closeAfterQueuedSends, D!closeNow, D!coreVars
<1>3. ASSUME NEW d \in Sockets, D!closeSocket(d) \/ D!finishUDPSends(d)
      PROVE  D!HandlesGoFirst'
  BY <1>3 DEF D!closeSocket, D!finishUDPSends, D!coreVars
<1>4. CASE D!Close
  BY <1>4 DEF D!Close
<1>5. CASE D!CloseReturns
  BY <1>5 DEF D!CloseReturns, D!handleVars
<1>6. CASE UNCHANGED <<datagrams, drainingDatagrams, socketClosed, queueClosed, handleClosing,
                       reactorClosing, closed, closeDone>>
  BY <1>6
<1> HIDE DEF D!HandlesGoFirst
<1> QED
  BY <1>1, <1>2, <1>3, <1>4, <1>5, <1>6, HandleCases

\* Neither a channel nor a socket is opened again.
LEMMA ClosedStaysClosed ==
  ASSUME D!TypeOK, [D!Next]_(D!vars), NEW d \in Sockets
  PROVE  /\ queueClosed[d] => queueClosed'[d]
         /\ socketClosed[d] => socketClosed'[d]
<1> DEFINE Goal == /\ queueClosed[d] => queueClosed'[d]
                   /\ socketClosed[d] => socketClosed'[d]
<1>1. ASSUME NEW e \in Sockets, \/ D!CloseHandle(e) \/ D!closeAfterQueuedSends(e) \/ D!closeNow(e)
                                \/ D!closeSocket(e) \/ D!finishUDPSends(e)
      PROVE  Goal
  BY <1>1 DEF D!CloseHandle, D!closeAfterQueuedSends, D!closeNow, D!closeSocket, D!finishUDPSends,
       D!TypeOK
<1>2. ASSUME D!Close \/ D!CloseReturns
      PROVE  Goal
  BY <1>2 DEF D!Close, D!CloseReturns, D!handleVars
<1>3. ASSUME UNCHANGED <<datagrams, drainingDatagrams, socketClosed, queueClosed, handleClosing,
                         reactorClosing, closed, closeDone>>
      PROVE  Goal
  BY <1>3
<1> HIDE DEF Goal
<1>4. Goal
  BY <1>1, <1>2, <1>3, HandleCases
<1> QED
  BY <1>4 DEF Goal

\* The sending goroutine holds a request from the channel to WriteTo.
LEMMA SenderStep == DatagramInv /\ [D!Next]_(D!vars) => D!SenderAgrees'
<1> SUFFICES ASSUME DatagramAssumptions, D!TypeOK, D!SenderAgrees, [D!Next]_(D!vars), NEW d \in Sockets
             PROVE  /\ sending'[d] # 0 <=> sender'[d] \in {"taken", "writing"}
                    /\ sender'[d] \in {"closed", "done"} => queueClosed'[d] /\ socketClosed'[d]
  BY DEF DatagramInv, D!Consistent, D!SenderAgrees
<1> DEFINE Goal == /\ sending'[d] # 0 <=> sender'[d] \in {"taken", "writing"}
                   /\ sender'[d] \in {"closed", "done"} => queueClosed'[d] /\ socketClosed'[d]
<1>0. /\ sending[d] # 0 <=> sender[d] \in {"taken", "writing"}
      /\ sender[d] \in {"closed", "done"} => queueClosed'[d] /\ socketClosed'[d]
      /\ sender \in [Sockets -> D!SenderStates] /\ sending \in [Sockets -> 0..MaxSends]
  BY ClosedStaysClosed DEF D!TypeOK, D!SenderAgrees
<1>1. ASSUME NEW e \in Sockets, D!TryUDPSend(e)
      PROVE  Goal
  BY <1>0, <1>1 DEF D!TryUDPSend
<1>2. ASSUME NEW e \in Sockets, D!takeSend(e)
      PROVE  Goal
  <2>1. Head(sendQueue[e]) # 0
    <3>1. sendQueue[e] \in Seq(1..MaxSends) /\ sendQueue[e] # <<>>
      BY <1>2 DEF D!TypeOK, D!takeSend
    <3>2. Head(sendQueue[e]) \in 1..MaxSends
      BY <3>1, MoveHead
    <3> QED
      BY <3>2 DEF DatagramAssumptions, D!BoundAssumption
  <2> QED
    BY <1>0, <1>2, <2>1 DEF D!takeSend
<1>3. ASSUME NEW e \in Sockets, D!tellRoom(e) \/ D!finishUDPSends(e)
      PROVE  Goal
  BY <1>0, <1>3 DEF D!tellRoom, D!finishUDPSends
<1>4. ASSUME NEW e \in Sockets, NEW err \in BOOLEAN, D!WriteTo(e, err)
      PROVE  Goal
  BY <1>0, <1>4 DEF D!WriteTo
<1>5. ASSUME NEW e \in Sockets, D!closeSocket(e)
      PROVE  Goal
  <2>1. /\ sender' = [sender EXCEPT ![e] = "closed"] /\ sending' = sending
        /\ sender[e] = "ranging" /\ queueClosed'[e] /\ socketClosed'[e]
    BY <1>5 DEF D!closeSocket, D!TypeOK
  <2> QED
    BY <1>0, <2>1
<1>6. ASSUME UNCHANGED <<sendQueue, sendErr, sender, sending, submitted, writtenDatagrams>>
      PROVE  Goal
  BY <1>0, <1>6
<1> HIDE DEF Goal
<1>7. Goal
  BY <1>1, <1>2, <1>3, <1>4, <1>5, <1>6, SendCases
<1> QED
  BY <1>7 DEF Goal

\* Only a socket without a handle has a closed channel, and nothing overfills one.
LEMMA PanicStep == DatagramInv /\ [D!Next]_(D!vars) => D!SendNeverPanics'
<1> SUFFICES ASSUME DatagramAssumptions, D!TypeOK, D!HandlesGoFirst, D!SendNeverPanics,
      [D!Next]_(D!vars), NEW d \in datagrams'
             PROVE  ~queueClosed'[d] /\ Len(sendQueue'[d]) <= udpSendQueueCapacity
  BY DEF DatagramInv, D!Consistent, D!SendNeverPanics
<1>0. /\ d \in datagrams /\ d \in Sockets /\ ~queueClosed[d]
      /\ sendQueue \in [Sockets -> Seq(1..MaxSends)] /\ sendQueue[d] \in Seq(1..MaxSends)
      /\ Len(sendQueue[d]) \in Nat /\ Len(sendQueue[d]) <= udpSendQueueCapacity
  <2>1. d \in datagrams
    <3>1. ASSUME NEW e \in Sockets, NEW op \in Ops, D!StartUDPReceive(e, op)
          PROVE  datagrams' = datagrams
      BY <3>1 DEF D!StartUDPReceive, D!handleVars
    <3>2. ASSUME NEW e \in Sockets, NEW err \in BOOLEAN, D!runUDPReceive(e, err)
          PROVE  datagrams' = datagrams
      BY <3>2 DEF D!runUDPReceive, D!handleVars
    <3>3. ASSUME NEW op \in Ops, D!TakeUDPReceive(op)
          PROVE  datagrams' = datagrams
      BY <3>3 DEF D!TakeUDPReceive, D!handleVars
    <3> QED
      BY <3>1, <3>2, <3>3, ReceiveCases
  <2> QED
    BY <2>1 DEF D!TypeOK, D!SendNeverPanics
<1>1. ~queueClosed'[d]
  <2>1. ASSUME NEW e \in Sockets, D!closeAfterQueuedSends(e) \/ D!closeNow(e)
        PROVE  d # e
    BY <1>0, <2>1 DEF D!closeAfterQueuedSends, D!closeNow, D!HandlesGoFirst
  <2>2. ASSUME NEW e \in Sockets, D!closeAfterQueuedSends(e) \/ D!closeNow(e)
        PROVE  ~queueClosed'[d]
    BY <1>0, <2>1, <2>2 DEF D!closeAfterQueuedSends, D!closeNow, D!TypeOK
  <2>3. ASSUME NEW e \in Sockets, D!CloseHandle(e) \/ D!closeSocket(e) \/ D!finishUDPSends(e)
        PROVE  ~queueClosed'[d]
    BY <1>0, <2>3 DEF D!CloseHandle, D!closeSocket, D!finishUDPSends
  <2>4. ASSUME D!Close \/ D!CloseReturns
        PROVE  ~queueClosed'[d]
    BY <1>0, <2>4 DEF D!Close, D!CloseReturns, D!handleVars
  <2> QED
    BY <1>0, <2>2, <2>3, <2>4, HandleCases
<1>2. Len(sendQueue'[d]) <= udpSendQueueCapacity
  <2>1. ASSUME NEW e \in Sockets, D!TryUDPSend(e)
        PROVE  Len(sendQueue'[d]) <= udpSendQueueCapacity
    <3>1. CASE d = e
      <4>1. sendQueue'[d] = Append(sendQueue[d], submitted[d] + 1) /\ Len(sendQueue[d]) < udpSendQueueCapacity
        BY <1>0, <2>1, <3>1 DEF D!TryUDPSend
      <4>2. Len(Append(sendQueue[d], submitted[d] + 1)) = Len(sendQueue[d]) + 1
        BY <1>0
      <4> QED
        BY <1>0, <4>1, <4>2 DEF DatagramAssumptions, D!CapacityAssumption
    <3>2. CASE d # e
      BY <1>0, <2>1, <3>2 DEF D!TryUDPSend
    <3> QED
      BY <3>1, <3>2
  <2>2. ASSUME NEW e \in Sockets, D!takeSend(e)
        PROVE  Len(sendQueue'[d]) <= udpSendQueueCapacity
    <3>1. CASE d = e
      <4>1. sendQueue'[d] = Tail(sendQueue[d]) /\ sendQueue[d] # <<>>
        BY <1>0, <2>2, <3>1 DEF D!takeSend
      <4>2. Len(Tail(sendQueue[d])) = Len(sendQueue[d]) - 1
        BY <1>0, <4>1
      <4> QED
        BY <1>0, <4>1, <4>2 DEF DatagramAssumptions, D!CapacityAssumption
    <3>2. CASE d # e
      BY <1>0, <2>2, <3>2 DEF D!takeSend
    <3> QED
      BY <3>1, <3>2
  <2>3. ASSUME NEW e \in Sockets, D!tellRoom(e) \/ D!closeSocket(e) \/ D!finishUDPSends(e)
        PROVE  Len(sendQueue'[d]) <= udpSendQueueCapacity
    BY <1>0, <2>3 DEF D!tellRoom, D!closeSocket, D!finishUDPSends
  <2>4. ASSUME NEW e \in Sockets, NEW err \in BOOLEAN, D!WriteTo(e, err)
        PROVE  Len(sendQueue'[d]) <= udpSendQueueCapacity
    BY <1>0, <2>4 DEF D!WriteTo
  <2>5. ASSUME UNCHANGED <<sendQueue, sendErr, sender, sending, submitted, writtenDatagrams>>
        PROVE  Len(sendQueue'[d]) <= udpSendQueueCapacity
    BY <1>0, <2>5
  <2> QED
    BY <2>1, <2>2, <2>3, <2>4, <2>5, SendCases
<1> QED
  BY <1>1, <1>2

\* A socket whose goroutine has ended is done; the others are in a table.
LEMMA SocketsFoundStep == DatagramInv /\ [D!Next]_(D!vars) => D!CloseFindsEverySocket'
<1> SUFFICES ASSUME DatagramAssumptions, D!TypeOK, D!CloseFindsEverySocket, [D!Next]_(D!vars),
      ~closed', NEW d \in Sockets, sender'[d] # "done"
             PROVE  d \in datagrams' \cup drainingDatagrams'
  BY DEF DatagramInv, D!Consistent, D!CloseFindsEverySocket
<1>1. sender[d] # "done"
  <2>1. ASSUME NEW e \in Sockets, D!TryUDPSend(e) \/ D!takeSend(e) \/ D!tellRoom(e) \/ D!closeSocket(e) \/ D!finishUDPSends(e)
        PROVE  sender[d] # "done"
    BY <2>1 DEF D!TryUDPSend, D!takeSend, D!tellRoom, D!closeSocket, D!finishUDPSends, D!TypeOK
  <2>2. ASSUME NEW e \in Sockets, NEW err \in BOOLEAN, D!WriteTo(e, err)
        PROVE  sender[d] # "done"
    BY <2>2 DEF D!WriteTo, D!TypeOK
  <2> QED
    BY <2>1, <2>2, SendCases
<1>2. ASSUME ~closed
      PROVE  d \in datagrams \cup drainingDatagrams
  BY <1>1, <1>2 DEF D!CloseFindsEverySocket
<1>3. ASSUME NEW e \in Sockets, D!CloseHandle(e) \/ D!closeAfterQueuedSends(e) \/ D!closeNow(e) \/ D!closeSocket(e)
      PROVE  d \in datagrams' \cup drainingDatagrams'
  BY <1>2, <1>3 DEF D!CloseHandle, D!closeAfterQueuedSends, D!closeNow, D!closeSocket, D!coreVars
<1>4. ASSUME NEW e \in Sockets, D!finishUDPSends(e)
      PROVE  d \in datagrams' \cup drainingDatagrams'
  BY <1>2, <1>4 DEF D!finishUDPSends, D!coreVars, D!TypeOK
<1>5. ~D!Close /\ (D!CloseReturns => UNCHANGED <<closed, datagrams, drainingDatagrams>>)
  BY DEF D!Close, D!CloseReturns, D!handleVars
<1> QED
  BY <1>2, <1>3, <1>4, <1>5, HandleCases

\* Close returns after the last goroutine, and nothing starts one again.
LEMMA CloseIsFinalStep == DatagramInv /\ [D!Next]_(D!vars) => D!CloseIsFinal'
<1> SUFFICES ASSUME DatagramAssumptions, D!TypeOK, D!HandlesGoFirst, D!SenderAgrees, D!CloseIsFinal,
      [D!Next]_(D!vars), closeDone', NEW d \in Sockets
             PROVE  receivers'[d] = 0 /\ sender'[d] = "done" /\ socketClosed'[d]
  BY DEF DatagramInv, D!Consistent, D!CloseIsFinal
<1>1. CASE D!CloseReturns
  <2>1. /\ receivers[d] = 0 /\ sender[d] = "done"
        /\ UNCHANGED <<receivers, sender, socketClosed>>
    BY <1>1 DEF D!CloseReturns, D!receiveVars, D!sendVars, D!handleVars
  <2> QED
    BY <2>1 DEF D!SenderAgrees
<1>2. CASE ~D!CloseReturns
  <2>1. closeDone
    <3>1. ASSUME NEW e \in Sockets, \/ D!CloseHandle(e) \/ D!closeAfterQueuedSends(e) \/ D!closeNow(e)
                                    \/ D!closeSocket(e) \/ D!finishUDPSends(e)
          PROVE  closeDone' = closeDone
      BY <3>1 DEF D!CloseHandle, D!closeAfterQueuedSends, D!closeNow, D!closeSocket,
           D!finishUDPSends, D!coreVars
    <3>2. D!Close => closeDone' = closeDone
      BY DEF D!Close
    <3> QED
      BY <1>2, <3>1, <3>2, HandleCases
  <2>2. closed /\ datagrams = {} /\ \A e \in Sockets : receivers[e] = 0 /\ sender[e] = "done" /\ socketClosed[e]
    BY <2>1 DEF D!HandlesGoFirst, D!CloseIsFinal
  <2>3. receivers' = receivers
    <3>1. ASSUME NEW e \in Sockets, NEW op \in Ops, D!StartUDPReceive(e, op)
          PROVE  FALSE
      BY <2>2, <3>1 DEF D!StartUDPReceive
    <3>2. ASSUME NEW e \in Sockets, NEW err \in BOOLEAN, D!runUDPReceive(e, err)
          PROVE  FALSE
      BY <2>2, <3>2 DEF D!runUDPReceive
    <3>3. ASSUME NEW op \in Ops, D!TakeUDPReceive(op)
          PROVE  receivers' = receivers
      BY <2>2, <3>3 DEF D!TakeUDPReceive
    <3> QED
      BY <3>1, <3>2, <3>3, ReceiveCases
  <2>4. sender' = sender
    <3>1. ASSUME NEW e \in Sockets, D!TryUDPSend(e) \/ D!takeSend(e) \/ D!tellRoom(e) \/ D!closeSocket(e) \/ D!finishUDPSends(e)
          PROVE  FALSE
      BY <2>2, <3>1 DEF D!TryUDPSend, D!takeSend, D!tellRoom, D!closeSocket, D!finishUDPSends
    <3>2. ASSUME NEW e \in Sockets, NEW err \in BOOLEAN, D!WriteTo(e, err)
          PROVE  FALSE
      BY <2>2, <3>2 DEF D!WriteTo
    <3> QED
      BY <3>1, <3>2, SendCases
  <2> QED
    BY <2>2, <2>3, <2>4, ClosedStaysClosed
<1> QED
  BY <1>1, <1>2

-----------------------------------------------------------------------------
(* Datagrams, in order and once.                                           *)

\* Numbers up to a bound are natural numbers, for the lemmas on sequences.
LEMMA Numbers ==
  ASSUME NEW n \in Nat, NEW s \in Seq(1..n)
  PROVE  s \in Seq(Nat)
OBVIOUS

\* The received queue, as TakeUDPReceive and the worker leave it.
LEMMA ReceiveIntegrityStep == DatagramInv /\ [D!Next]_(D!vars) => D!ReceiveIntegrity'
<1> SUFFICES ASSUME DatagramAssumptions, D!TypeOK, D!SingleReceiver, D!ReceiverHasRoom,
      D!ReceiveIntegrity, [D!Next]_(D!vars), NEW d \in datagrams'
             PROVE  /\ takenDatagrams'[d] \o received'[d] = [i \in 1..arrived'[d] |-> i]
                    /\ Len(received'[d]) <= udpReceiveQueueCapacity
  BY DEF DatagramInv, D!Consistent, D!DatagramIntegrity, D!ReceiveIntegrity
<1> DEFINE Goal == /\ takenDatagrams'[d] \o received'[d] = [i \in 1..arrived'[d] |-> i]
                   /\ Len(received'[d]) <= udpReceiveQueueCapacity
<1>0. ASSUME d \in datagrams
      PROVE  /\ d \in Sockets /\ arrived[d] \in Nat
             /\ received[d] \in Seq(1..MaxArrivals) /\ takenDatagrams[d] \in Seq(1..MaxArrivals)
             /\ received[d] \in Seq(Nat) /\ takenDatagrams[d] \in Seq(Nat) /\ Len(received[d]) \in Nat
             /\ takenDatagrams[d] \o received[d] = [i \in 1..arrived[d] |-> i]
             /\ Len(received[d]) <= udpReceiveQueueCapacity
  <2>2. /\ d \in Sockets /\ arrived[d] \in Nat
        /\ received[d] \in Seq(1..MaxArrivals) /\ takenDatagrams[d] \in Seq(1..MaxArrivals)
    BY <1>0 DEF D!TypeOK, DatagramAssumptions, D!BoundAssumption
  <2>3. received[d] \in Seq(Nat) /\ takenDatagrams[d] \in Seq(Nat)
    BY <2>2, Numbers DEF DatagramAssumptions, D!BoundAssumption
  <2>4. Len(received[d]) \in Nat
    BY <2>3
  <2>5. /\ takenDatagrams[d] \o received[d] = [i \in 1..arrived[d] |-> i]
        /\ Len(received[d]) <= udpReceiveQueueCapacity
    BY <1>0 DEF D!ReceiveIntegrity
  <2> QED
    BY <2>2, <2>3, <2>4, <2>5
<1>1. ASSUME NEW e \in Sockets, NEW op \in Ops, D!StartUDPReceive(e, op)
      PROVE  Goal
  BY <1>0, <1>1 DEF D!StartUDPReceive, D!handleVars
<1>2. ASSUME NEW e \in Sockets, NEW err \in BOOLEAN, D!runUDPReceive(e, err)
      PROVE  Goal
  <2>1. d \in datagrams /\ takenDatagrams' = takenDatagrams /\ receivers[e] > 0
    BY <1>2 DEF D!runUDPReceive, D!handleVars
  <2>2. CASE e \notin datagrams
    BY <1>0, <1>2, <2>1, <2>2 DEF D!runUDPReceive
  <2>3. CASE e \in datagrams
    <3>1. /\ arrived' = [arrived EXCEPT ![e] = IF err THEN @ ELSE @ + 1]
          /\ received' = [received EXCEPT ![e] = D!storeReceived(e, err)]
      BY <1>2, <2>3, ReceiveStores
    <3>2. CASE d # e \/ err
      <4>1. arrived'[d] = arrived[d] /\ received'[d] = received[d]
        BY <1>0, <2>1, <3>1, <3>2 DEF D!TypeOK, D!storeReceived
      <4> QED
        BY <1>0, <2>1, <4>1
    <3>3. CASE d = e /\ ~err
      <4>1. arrived'[d] = arrived[d] + 1 /\ received'[d] = Append(received[d], arrived[d] + 1)
        BY <1>0, <2>1, <3>1, <3>3 DEF D!TypeOK, D!storeReceived
      <4>2. takenDatagrams[d] \o Append(received[d], arrived[d] + 1) = [i \in 1..(arrived[d] + 1) |-> i]
        BY <1>0, <2>1, AppendNumber
      <4>3. receiveRunning[d]
        BY <2>1, <3>3 DEF D!SingleReceiver
      <4>4. Len(received[d]) < udpReceiveQueueCapacity
        BY <2>1, <4>3 DEF D!ReceiverHasRoom
      <4>5. Len(Append(received[d], arrived[d] + 1)) = Len(received[d]) + 1
        BY <1>0, <2>1
      <4>6. Len(received[d]) + 1 <= udpReceiveQueueCapacity
        BY <1>0, <2>1, <4>4 DEF DatagramAssumptions, D!CapacityAssumption
      <4> QED
        BY <2>1, <4>1, <4>2, <4>5, <4>6
    <3> QED
      BY <3>2, <3>3
  <2> QED
    BY <2>2, <2>3
<1>3. ASSUME NEW op \in Ops, D!TakeUDPReceive(op)
      PROVE  Goal
  <2> DEFINE e == udpReads[op].handle
  <2>0. d \in datagrams /\ arrived' = arrived /\ e \in Sockets
    BY <1>3, DatagramWaiterType DEF D!TakeUDPReceive, D!TakeUDPReceiveReady, D!handleVars, D!TypeOK
  <2>1. CASE e \notin datagrams \/ received[e] = <<>>
    BY <1>0, <1>3, <2>0, <2>1 DEF D!TakeUDPReceive
  <2>2. CASE e \in datagrams /\ received[e] # <<>>
    <3>1. /\ takenDatagrams' = [takenDatagrams EXCEPT ![e] = Append(@, Head(received[e]))]
          /\ received' = [received EXCEPT ![e] = Tail(@)]
      BY <1>3, <2>2 DEF D!TakeUDPReceive
    <3>2. CASE d # e
      BY <1>0, <2>0, <3>1, <3>2 DEF D!TypeOK
    <3>3. CASE d = e
      <4>1. takenDatagrams'[d] = Append(takenDatagrams[d], Head(received[d])) /\ received'[d] = Tail(received[d])
        BY <1>0, <2>0, <3>1, <3>3 DEF D!TypeOK
      <4>0. /\ received[d] \in Seq(1..MaxArrivals) /\ takenDatagrams[d] \in Seq(1..MaxArrivals)
            /\ received[d] # <<>>
        BY <1>0, <2>0, <2>2, <3>3
      <4>2. /\ Append(takenDatagrams[d], Head(received[d])) \o Tail(received[d]) = takenDatagrams[d] \o received[d]
            /\ Len(Tail(received[d])) = Len(received[d]) - 1
        BY <4>0, MoveHead
      <4>3. Len(received[d]) - 1 <= udpReceiveQueueCapacity
        BY <1>0, <2>0 DEF DatagramAssumptions, D!CapacityAssumption
      <4> QED
        BY <1>0, <2>0, <4>1, <4>2, <4>3
    <3> QED
      BY <3>2, <3>3
  <2> QED
    BY <2>1, <2>2
<1>4. ASSUME /\ UNCHANGED <<received, receiveRunning, receiveErr, receivers, arrived, takenDatagrams>>
             /\ datagrams' \subseteq datagrams
      PROVE  Goal
  BY <1>0, <1>4
<1> HIDE DEF Goal
<1>5. Goal
  BY <1>1, <1>2, <1>3, <1>4, ReceiveCases
<1> QED
  BY <1>5 DEF Goal

\* What was given to WriteTo and what is about to be.
\* What a socket has on its way out after the channel, with what is out already.
outgoing(d) == IF sending[d] = 0 THEN writtenDatagrams[d] ELSE Append(writtenDatagrams[d], sending[d])

\* The request in hand is the last of what is on its way out.
LEMMA Outgoing ==
  ASSUME NEW S, NEW s \in Seq(S), NEW x \in S
  PROVE  s \o <<>> = s /\ s \o <<x>> = Append(s, x) /\ Append(s, x) \in Seq(S)
OBVIOUS

\* What the sending side of a socket holds are datagrams.
LEMMA SendTypes ==
  DatagramAssumptions /\ D!TypeOK =>
    \A d \in Sockets : /\ sendQueue[d] \in Seq(1..MaxSends)
                       /\ writtenDatagrams[d] \in Seq(1..MaxSends)
                       /\ sending[d] # 0 => sending[d] \in 1..MaxSends
<1> SUFFICES ASSUME DatagramAssumptions, D!TypeOK, NEW d \in Sockets
             PROVE  /\ sendQueue[d] \in Seq(1..MaxSends)
                    /\ writtenDatagrams[d] \in Seq(1..MaxSends)
                    /\ sending[d] # 0 => sending[d] \in 1..MaxSends
  OBVIOUS
<1>1. sending[d] \in 0..MaxSends /\ MaxSends \in Nat
  BY DEF D!TypeOK, DatagramAssumptions, D!BoundAssumption
<1>2. sendQueue[d] \in Seq(1..MaxSends) /\ writtenDatagrams[d] \in Seq(1..MaxSends)
  BY DEF D!TypeOK
<1> QED
  BY <1>1, <1>2

LEMMA SendTypesNext ==
  DatagramAssumptions' /\ D!TypeOK' =>
    \A d \in Sockets : /\ writtenDatagrams'[d] \in Seq(1..MaxSends)
                       /\ sending'[d] # 0 => sending'[d] \in 1..MaxSends
<1>1. (DatagramAssumptions /\ D!TypeOK =>
        \A d \in Sockets : /\ sendQueue[d] \in Seq(1..MaxSends)
                           /\ writtenDatagrams[d] \in Seq(1..MaxSends)
                           /\ sending[d] # 0 => sending[d] \in 1..MaxSends)'
  BY SendTypes, PTL
<1> QED
  BY <1>1

\* A datagram moves from the channel to the goroutine to WriteTo, in order.
LEMMA SendIntegrityStep == DatagramInv /\ [D!Next]_(D!vars) => D!SendIntegrity'
<1> SUFFICES ASSUME DatagramAssumptions, D!TypeOK, D!TypeOK', D!SenderAgrees, D!SenderAgrees',
      D!HandlesGoFirst, D!SendNeverPanics, D!SendIntegrity, [D!Next]_(D!vars),
                    NEW d \in Sockets
             PROVE  /\ writtenDatagrams'[d] \o (IF sending'[d] = 0 THEN <<>> ELSE <<sending'[d]>>) \o sendQueue'[d]
                         = [i \in 1..submitted'[d] |-> i]
                    /\ sender'[d] \in {"closed", "done"} => sendQueue'[d] = <<>>
  BY DatagramTypeStep, SenderStep DEF DatagramInv, D!Consistent, D!DatagramIntegrity,
       D!SendIntegrity
<1> DEFINE Goal == /\ outgoing(d)' \o sendQueue'[d] = [i \in 1..submitted'[d] |-> i]
                   /\ sender'[d] \in {"closed", "done"} => sendQueue'[d] = <<>>
<1>0. submitted[d] \in Nat
  BY DEF D!TypeOK, DatagramAssumptions, D!BoundAssumption
<1>1. /\ sendQueue[d] \in Seq(1..MaxSends) /\ outgoing(d) \in Seq(1..MaxSends)
      /\ outgoing(d) = writtenDatagrams[d] \o (IF sending[d] = 0 THEN <<>> ELSE <<sending[d]>>)
  <2>1. /\ sendQueue[d] \in Seq(1..MaxSends) /\ writtenDatagrams[d] \in Seq(1..MaxSends)
        /\ sending[d] # 0 => sending[d] \in 1..MaxSends
    BY SendTypes
  <2>2. CASE sending[d] = 0
    <3>1. writtenDatagrams[d] \o <<>> = writtenDatagrams[d]
      BY <2>1
    <3> QED
      BY <2>1, <2>2, <3>1 DEF outgoing
  <2>3. CASE sending[d] # 0
    <3>1. /\ writtenDatagrams[d] \o <<sending[d]>> = Append(writtenDatagrams[d], sending[d])
          /\ Append(writtenDatagrams[d], sending[d]) \in Seq(1..MaxSends)
      BY <2>1, <2>3, Outgoing
    <3> QED
      BY <2>1, <2>3, <3>1 DEF outgoing
  <2> QED
    BY <2>2, <2>3
<1>2. outgoing(d)' = writtenDatagrams'[d] \o (IF sending'[d] = 0 THEN <<>> ELSE <<sending'[d]>>)
  <2>1. /\ writtenDatagrams'[d] \in Seq(1..MaxSends)
        /\ sending'[d] # 0 => sending'[d] \in 1..MaxSends
    <3>1. DatagramAssumptions'
      BY DEF DatagramAssumptions, D!CapacityAssumption, D!BoundAssumption, D!NilWaiterAssumption
    <3> QED
      BY <3>1, SendTypesNext
  <2>2. CASE sending'[d] = 0
    <3>1. writtenDatagrams'[d] \o <<>> = writtenDatagrams'[d]
      BY <2>1
    <3> QED
      BY <2>1, <2>2, <3>1 DEF outgoing
  <2>3. CASE sending'[d] # 0
    <3>1. writtenDatagrams'[d] \o <<sending'[d]>> = Append(writtenDatagrams'[d], sending'[d])
      BY <2>1, <2>3, Outgoing
    <3> QED
      BY <2>1, <2>3, <3>1 DEF outgoing
  <2> QED
    BY <2>2, <2>3
<1>3. /\ outgoing(d) \o sendQueue[d] = [i \in 1..submitted[d] |-> i]
      /\ sender[d] \in {"closed", "done"} => sendQueue[d] = <<>>
  BY <1>1 DEF D!SendIntegrity
<1>4. ASSUME NEW e \in Sockets, D!TryUDPSend(e)
      PROVE  Goal
  <2>0. UNCHANGED <<writtenDatagrams, sending, sender>> /\ e \in datagrams
    BY <1>4 DEF D!TryUDPSend
  <2>1. CASE d # e
    <3>1. sendQueue'[d] = sendQueue[d] /\ submitted'[d] = submitted[d]
      BY <1>4, <2>1 DEF D!TryUDPSend, D!TypeOK
    <3> QED
      BY <1>3, <2>0, <3>1 DEF outgoing
  <2>2. CASE d = e
    <3>1. sendQueue'[d] = Append(sendQueue[d], submitted[d] + 1) /\ submitted'[d] = submitted[d] + 1
      BY <1>4, <2>2 DEF D!TryUDPSend, D!TypeOK
    <3>2. outgoing(d) \o Append(sendQueue[d], submitted[d] + 1) = [i \in 1..(submitted[d] + 1) |-> i]
      <4>1. outgoing(d) \in Seq(Nat) /\ sendQueue[d] \in Seq(Nat)
        BY <1>1, Numbers DEF DatagramAssumptions, D!BoundAssumption
      <4> QED
        BY <1>0, <1>3, <4>1, AppendNumber
    <3>3. sender[d] \notin {"closed", "done"}
      BY <2>0, <2>2 DEF D!SenderAgrees, D!SendNeverPanics
    <3> QED
      BY <2>0, <3>1, <3>2, <3>3 DEF outgoing
  <2> QED
    BY <2>1, <2>2
<1>5. ASSUME NEW e \in Sockets, D!takeSend(e)
      PROVE  Goal
  <2>0. UNCHANGED <<writtenDatagrams, submitted>>
    BY <1>5 DEF D!takeSend
  <2>1. CASE d # e
    <3>1. sendQueue'[d] = sendQueue[d] /\ sending'[d] = sending[d] /\ sender'[d] = sender[d]
      BY <1>5, <2>1 DEF D!takeSend, D!TypeOK
    <3> QED
      BY <1>3, <2>0, <3>1 DEF outgoing
  <2>2. CASE d = e
    <3>1. /\ sendQueue[d] # <<>> /\ sendQueue'[d] = Tail(sendQueue[d]) /\ sending'[d] = Head(sendQueue[d])
          /\ sender[d] = "ranging" /\ sender'[d] = "taken"
      BY <1>5, <2>2 DEF D!takeSend, D!TypeOK
    <3>2. sending[d] = 0 /\ sending'[d] # 0
      BY <3>1 DEF D!SenderAgrees
    <3>3. Append(outgoing(d), Head(sendQueue[d])) \o Tail(sendQueue[d]) = outgoing(d) \o sendQueue[d]
      <4>1. outgoing(d) \in Seq(1..MaxSends) /\ sendQueue[d] \in Seq(1..MaxSends) /\ sendQueue[d] # <<>>
        BY <1>1, <3>1
      <4> QED
        BY <4>1, MoveHead
    <3> QED
      BY <1>3, <2>0, <3>1, <3>2, <3>3 DEF outgoing
  <2> QED
    BY <2>1, <2>2
<1>6. ASSUME NEW e \in Sockets, D!tellRoom(e)
      PROVE  Goal
  <2>1. UNCHANGED <<writtenDatagrams, submitted, sending, sendQueue>> /\ (sender'[d] = sender[d] \/ sender'[d] = "writing")
    BY <1>6 DEF D!tellRoom, D!TypeOK
  <2> QED
    BY <1>3, <2>1 DEF outgoing
<1>7. ASSUME NEW e \in Sockets, NEW err \in BOOLEAN, D!WriteTo(e, err)
      PROVE  Goal
  <2>0. UNCHANGED <<submitted, sendQueue>>
    BY <1>7 DEF D!WriteTo
  <2>1. CASE d # e
    <3>1. writtenDatagrams'[d] = writtenDatagrams[d] /\ sending'[d] = sending[d] /\ sender'[d] = sender[d]
      BY <1>7, <2>1 DEF D!WriteTo, D!TypeOK
    <3> QED
      BY <1>3, <2>0, <3>1 DEF outgoing
  <2>2. CASE d = e
    <3>1. /\ sender[d] = "writing" /\ sender'[d] = "ranging"
          /\ writtenDatagrams'[d] = Append(writtenDatagrams[d], sending[d]) /\ sending'[d] = 0
      BY <1>7, <2>2 DEF D!WriteTo, D!TypeOK
    <3>2. sending[d] # 0
      BY <3>1 DEF D!SenderAgrees
    <3> QED
      BY <1>3, <2>0, <3>1, <3>2 DEF outgoing
  <2> QED
    BY <2>1, <2>2
<1>8. ASSUME NEW e \in Sockets, D!closeSocket(e) \/ D!finishUDPSends(e)
      PROVE  Goal
  <2>1. /\ UNCHANGED <<writtenDatagrams, submitted, sending, sendQueue>>
        /\ sender'[d] = sender[d] \/ sendQueue[d] = <<>> \/ sender[d] = "closed"
    BY <1>8 DEF D!closeSocket, D!finishUDPSends, D!TypeOK
  <2> QED
    BY <1>3, <2>1 DEF outgoing
<1>9. ASSUME UNCHANGED <<sendQueue, sendErr, sender, sending, submitted, writtenDatagrams>>
      PROVE  Goal
  BY <1>3, <1>9 DEF outgoing
<1> HIDE DEF Goal
<1>10. Goal
  BY <1>4, <1>5, <1>6, <1>7, <1>8, <1>9, SendCases
<1> QED
  BY <1>2, <1>10 DEF Goal

-----------------------------------------------------------------------------
(* Nobody waits for what will not happen.                                  *)

\* Whoever stops a worker leaves no receive behind that needs it.
LEMMA StuckReceiveStep == DatagramInv /\ [D!Next]_(D!vars) => D!NoStuckReceive'
<1> SUFFICES ASSUME DatagramAssumptions, D!TypeOK, D!TypeOK', D!NoStuckReceive, [D!Next]_(D!vars),
      NEW op \in Ops, NEW d \in datagrams',
                    udpReads'[op] # Nil, udpReads'[op].handle = d, received'[d] = <<>>, ~receiveErr'[d]
             PROVE  receiveRunning'[d]
  BY DatagramTypeStep DEF DatagramInv, D!Consistent, D!NoStuckOperation, D!NoStuckReceive
<1>0. ASSUME d \in datagrams, udpReads[op] # Nil, udpReads[op].handle = d, received[d] = <<>>,
      ~receiveErr[d]
      PROVE  receiveRunning[d]
  BY <1>0 DEF D!NoStuckReceive
<1>d. d \in Sockets
  BY DEF D!TypeOK
<1>1. ASSUME NEW e \in Sockets, NEW o \in Ops, D!StartUDPReceive(e, o)
      PROVE  receiveRunning'[d]
  <2>1. d \in datagrams /\ received' = received /\ receiveErr' = receiveErr /\ D!startReceive(e,
                                                                               D!mayStartReceive(e))
    BY <1>1 DEF D!StartUDPReceive, D!handleVars
  <2>2. \A x \in Sockets : receiveRunning[x] => receiveRunning'[x]
    BY <2>1 DEF D!startReceive, D!TypeOK
  <2>3. D!mayStartReceive(e) => receiveRunning'[e]
    BY <2>1 DEF D!startReceive, D!TypeOK
  <2>4. CASE op = o
    <3>1. e = d
      BY <1>1, <2>4 DEF D!StartUDPReceive, D!TypeOK
    <3>2. Len(received[d]) < udpReceiveQueueCapacity
      BY <2>1 DEF DatagramAssumptions, D!CapacityAssumption
    <3>3. receiveRunning[d] \/ D!mayStartReceive(d)
      BY <2>1, <3>2 DEF D!mayStartReceive
    <3> QED
      BY <1>d, <2>2, <2>3, <3>1, <3>3
  <2>5. CASE op # o
    <3>1. udpReads'[op] = udpReads[op]
      BY <1>1, <2>5 DEF D!StartUDPReceive, D!TypeOK
    <3> QED
      BY <1>0, <1>d, <2>1, <2>2, <3>1
  <2> QED
    BY <2>4, <2>5
<1>2. ASSUME NEW e \in Sockets, NEW err \in BOOLEAN, D!runUDPReceive(e, err)
      PROVE  receiveRunning'[d]
  <2>1. d \in datagrams
    BY <1>2 DEF D!runUDPReceive, D!handleVars
  <2>2. CASE e \notin datagrams
    BY <1>0, <1>2, <2>1, <2>2 DEF D!runUDPReceive
  <2>3. CASE e \in datagrams
    <3>1. /\ receiveErr' = [receiveErr EXCEPT ![e] = @ \/ err]
          /\ received' = [received EXCEPT ![e] = D!storeReceived(e, err)]
          /\ udpReads' = D!markReady(udpReads, e)
          /\ receiveRunning' = [receiveRunning EXCEPT ![e] = @ /\ ~err /\ D!continueReceiving(e)]
      BY <1>2, <2>3, ReceiveStores
    <3>2. d # e
      <4>1. SUFFICES ASSUME d = e
                     PROVE  FALSE
        OBVIOUS
      <4>2. ~err
        BY <1>d, <3>1, <4>1 DEF D!TypeOK
      <4>3. received'[d] = Append(received[d], arrived[d] + 1)
        BY <1>d, <3>1, <4>1, <4>2 DEF D!TypeOK, D!storeReceived
      <4>4. received[d] \in Seq(1..MaxArrivals)
        BY <1>d DEF D!TypeOK
      <4> QED
        BY <4>3, <4>4
    <3>3. received'[d] = received[d] /\ receiveErr'[d] = receiveErr[d] /\ receiveRunning'[d] = receiveRunning[d]
      BY <1>d, <3>1, <3>2 DEF D!TypeOK
    <3>4. udpReads[op] # Nil /\ udpReads[op].handle = d
      <4>1. udpReads \in [Ops -> D!Waiters \cup {Nil}]
        BY DEF D!TypeOK
      <4>2. /\ D!markReady(udpReads, e)[op] # Nil <=> udpReads[op] # Nil
            /\ udpReads[op] # Nil => D!markReady(udpReads, e)[op].handle = udpReads[op].handle
        BY <4>1, MarkReady
      <4> QED
        BY <3>1, <4>2
    <3> QED
      BY <1>0, <2>1, <3>3, <3>4
  <2> QED
    BY <2>2, <2>3
<1>3. ASSUME NEW o \in Ops, D!TakeUDPReceive(o)
      PROVE  receiveRunning'[d]
  <2> DEFINE e == udpReads[o].handle
  <2>0. /\ d \in datagrams /\ e \in Sockets /\ op # o /\ udpReads'[op] = udpReads[op]
    BY <1>3, DatagramWaiterType DEF D!TakeUDPReceive, D!TakeUDPReceiveReady, D!handleVars, D!TypeOK
  <2>1. CASE e \notin datagrams
    BY <1>0, <1>3, <2>0, <2>1 DEF D!TakeUDPReceive
  <2>2. CASE e \in datagrams
    <3>1. D!startReceive(e, D!mayRestartReceive(e))
      BY <1>3, <2>2 DEF D!TakeUDPReceive
    <3>2. CASE d = e
      <4>1. Len(received'[d]) < udpReceiveQueueCapacity
        BY DEF DatagramAssumptions, D!CapacityAssumption
      <4>2. D!hasUDPReadWaiterLocked(d)
        BY DEF D!hasUDPReadWaiterLocked
      <4>3. receiveRunning[d] \/ D!mayRestartReceive(d)
        BY <4>1, <4>2 DEF D!mayRestartReceive
      <4> QED
        <5>1. receiveRunning' = [receiveRunning EXCEPT ![d] = @ \/ D!mayRestartReceive(d)]
          BY <3>1, <3>2 DEF D!startReceive
        <5>2. receiveRunning \in [Sockets -> BOOLEAN]
          BY DEF D!TypeOK
        <5>3. (receiveRunning[d] \/ D!mayRestartReceive(d)) = TRUE
          BY <4>3
        <5>4. receiveRunning' = [receiveRunning EXCEPT ![d] = TRUE]
          BY <5>1, <5>3
        <5> QED
          BY <1>d, <5>2, <5>4
    <3>3. CASE d # e
      <4>1. received'[d] = received[d] /\ receiveErr'[d] = receiveErr[d]
        BY <1>3, <1>d, <2>0, <2>2, <3>3 DEF D!TakeUDPReceive, D!TypeOK
      <4>2. receiveRunning'[d] = receiveRunning[d]
        BY <1>d, <3>1, <3>3 DEF D!startReceive, D!TypeOK
      <4> QED
        BY <1>0, <2>0, <4>1, <4>2
    <3> QED
      BY <3>2, <3>3
  <2> QED
    BY <2>1, <2>2
<1>4. ASSUME /\ UNCHANGED <<received, receiveRunning, receiveErr, receivers, arrived, takenDatagrams>>
             /\ datagrams' \subseteq datagrams
             /\ \A o \in Ops : udpReads'[o] \in {udpReads[o], Nil}
      PROVE  receiveRunning'[d]
  BY <1>0, <1>4
<1> QED
  BY <1>1, <1>2, <1>3, <1>4, ReceiveCases

\* Whoever makes room in a channel is about to tell the waiters.
LEMMA StuckSendStep == DatagramInv /\ [D!Next]_(D!vars) => D!NoStuckSend'
<1> SUFFICES ASSUME DatagramAssumptions, D!TypeOK, D!HandlesGoFirst, D!SendNeverPanics,
      D!SenderAgrees, D!NoStuckSend, [D!Next]_(D!vars),
                    NEW op \in Ops, NEW d \in datagrams',
                    udpWrites'[op] # Nil, udpWrites'[op].handle = d, ~udpWrites'[op].ready
             PROVE  \/ sender'[d] = "taken"
                    \/ Len(sendQueue'[d]) = udpSendQueueCapacity /\ sender'[d] \in {"ranging", "writing"}
  BY DEF DatagramInv, D!Consistent, D!NoStuckOperation, D!NoStuckSend
<1> DEFINE Goal == \/ sender'[d] = "taken"
                   \/ Len(sendQueue'[d]) = udpSendQueueCapacity /\ sender'[d] \in {"ranging", "writing"}
<1>0. /\ d \in datagrams /\ d \in Sockets
      /\ sender[d] \in {"ranging", "taken", "writing"}
      /\ sendQueue[d] \in Seq(1..MaxSends) /\ Len(sendQueue[d]) \in Nat
      /\ Len(sendQueue[d]) <= udpSendQueueCapacity
  <2>1. d \in datagrams
    <3>1. ASSUME NEW e \in Sockets, NEW o \in Ops, D!StartUDPReceive(e, o)
          PROVE  datagrams' = datagrams
      BY <3>1 DEF D!StartUDPReceive, D!handleVars
    <3>2. ASSUME NEW e \in Sockets, NEW err \in BOOLEAN, D!runUDPReceive(e, err)
          PROVE  datagrams' = datagrams
      BY <3>2 DEF D!runUDPReceive, D!handleVars
    <3>3. ASSUME NEW o \in Ops, D!TakeUDPReceive(o)
          PROVE  datagrams' = datagrams
      BY <3>3 DEF D!TakeUDPReceive, D!handleVars
    <3> QED
      BY <3>1, <3>2, <3>3, ReceiveCases
  <2>2. d \in Sockets /\ sender[d] \in D!SenderStates /\ sendQueue[d] \in Seq(1..MaxSends)
    BY <2>1 DEF D!TypeOK
  <2>3. ~queueClosed[d] /\ Len(sendQueue[d]) <= udpSendQueueCapacity
    BY <2>1 DEF D!SendNeverPanics
  <2>4. sender[d] \notin {"closed", "done"}
    BY <2>2, <2>3 DEF D!SenderAgrees
  <2> QED
    BY <2>1, <2>2, <2>3, <2>4 DEF D!SenderStates
<1>1. ASSUME udpWrites[op] # Nil, udpWrites[op].handle = d, ~udpWrites[op].ready
      PROVE  sender[d] = "taken" \/ (Len(sendQueue[d]) = udpSendQueueCapacity /\ sender[d] \in {"ranging", "writing"})
  BY <1>0, <1>1 DEF D!NoStuckSend
<1>2. ASSUME NEW e \in Sockets, D!TryUDPSend(e)
      PROVE  Goal
  <2>1. udpWrites' = udpWrites /\ sender' = sender
    BY <1>2 DEF D!TryUDPSend
  <2>2. d # e \/ sender[d] = "taken"
    BY <1>0, <1>1, <1>2, <2>1 DEF D!TryUDPSend
  <2>3. d # e => sendQueue'[d] = sendQueue[d]
    BY <1>0, <1>2 DEF D!TryUDPSend, D!TypeOK
  <2> QED
    BY <1>1, <2>1, <2>2, <2>3
<1>3. ASSUME NEW e \in Sockets, D!takeSend(e)
      PROVE  Goal
  <2>1. udpWrites' = udpWrites
    BY <1>3 DEF D!takeSend
  <2>2. sender'[d] = "taken" \/ (sender'[d] = sender[d] /\ sendQueue'[d] = sendQueue[d])
    BY <1>0, <1>3 DEF D!takeSend, D!TypeOK
  <2> QED
    BY <1>1, <2>1, <2>2
<1>4. ASSUME NEW e \in Sockets, D!tellRoom(e)
      PROVE  Goal
  <2>1. udpWrites' = D!markReady(udpWrites, e) /\ sendQueue' = sendQueue
    BY <1>4 DEF D!tellRoom
  <2>2. udpWrites[op] # Nil /\ udpWrites[op].handle = d /\ d # e /\ udpWrites'[op] = udpWrites[op]
    BY <2>1, MarkReady DEF D!TypeOK
  <2>3. sender'[d] = sender[d]
    BY <1>0, <1>4, <2>2 DEF D!tellRoom, D!TypeOK
  <2> QED
    BY <1>1, <2>1, <2>2, <2>3
<1>5. ASSUME NEW e \in Sockets, NEW err \in BOOLEAN, D!WriteTo(e, err)
      PROVE  Goal
  <2>1. sendQueue' = sendQueue /\ (udpWrites' = D!markReady(udpWrites, e) \/ udpWrites' = udpWrites)
    BY <1>5 DEF D!WriteTo
  <2>2. udpWrites[op] # Nil /\ udpWrites[op].handle = d /\ ~udpWrites[op].ready
    <3>1. CASE udpWrites' = udpWrites
      BY <3>1
    <3>2. CASE udpWrites' = D!markReady(udpWrites, e)
      <4>1. udpWrites \in [Ops -> D!Waiters \cup {Nil}]
        BY DEF D!TypeOK
      <4>2. /\ D!markReady(udpWrites, e)[op] # Nil <=> udpWrites[op] # Nil
            /\ udpWrites[op] # Nil =>
                 /\ D!markReady(udpWrites, e)[op].handle = udpWrites[op].handle
                 /\ udpWrites[op].handle = e => D!markReady(udpWrites, e)[op].ready
                 /\ udpWrites[op].handle # e => D!markReady(udpWrites, e)[op] = udpWrites[op]
        BY <4>1, MarkReady
      <4> QED
        BY <3>2, <4>2
    <3> QED
      BY <2>1, <3>1, <3>2
  <2>3. sender'[d] = sender[d] \/ (sender[d] = "writing" /\ sender'[d] = "ranging")
    BY <1>0, <1>5 DEF D!WriteTo, D!TypeOK
  <2> QED
    BY <1>1, <2>1, <2>2, <2>3
<1>6. ASSUME NEW e \in Sockets, D!closeSocket(e) \/ D!finishUDPSends(e)
      PROVE  Goal
  <2>1. udpWrites' = udpWrites /\ sendQueue' = sendQueue
    BY <1>6 DEF D!closeSocket, D!finishUDPSends
  <2>2. d # e
    BY <1>0, <1>6 DEF D!closeSocket, D!finishUDPSends, D!SendNeverPanics
  <2>3. sender'[d] = sender[d]
    BY <1>0, <1>6, <2>2 DEF D!closeSocket, D!finishUDPSends, D!TypeOK
  <2> QED
    BY <1>1, <2>1, <2>3
<1>7. ASSUME UNCHANGED <<sendQueue, sendErr, sender, sending, submitted, writtenDatagrams>>,
             NEW e \in Sockets, NEW o \in Ops, D!StartUDPSendReady(e, o)
      PROVE  Goal
  <2>1. CASE op # o
    <3>1. udpWrites'[op] = udpWrites[op]
      BY <1>7, <2>1 DEF D!StartUDPSendReady, D!TypeOK
    <3> QED
      BY <1>1, <1>7, <3>1
  <2>2. CASE op = o
    <3>1. e = d /\ ~D!sendable(e)
      BY <1>7, <2>2 DEF D!StartUDPSendReady, D!TypeOK
    <3>2. Len(sendQueue[d]) = udpSendQueueCapacity
      BY <1>0, <3>1 DEF D!sendable, DatagramAssumptions, D!CapacityAssumption
    <3> QED
      BY <1>0, <1>7, <3>2
  <2> QED
    BY <2>1, <2>2
<1>8. ASSUME UNCHANGED <<sendQueue, sendErr, sender, sending, submitted, writtenDatagrams>>,
             \A o \in Ops : udpWrites'[o] \in {udpWrites[o], Nil}
      PROVE  Goal
  BY <1>1, <1>8
<1> HIDE DEF Goal
<1>9. Goal
  BY <1>2, <1>3, <1>4, <1>5, <1>6, <1>7, <1>8, SendCases
<1> QED
  BY <1>9 DEF Goal

\* An operation whose result is there.
due(op) == \/ D!TakeUDPReceiveReady(op) /\ udpReads[op].handle \in datagrams
           \/ D!TakeUDPSendReadyReady(op)

\* Whatever makes a result ready for a parked guest has a token coming.
LEMMA DatagramWakeupStep == DatagramInv /\ [D!Next]_(D!vars) => D!NoLostWakeup'
<1> SUFFICES ASSUME DatagramAssumptions, D!TypeOK, D!NoLostWakeup, [D!Next]_(D!vars),
      NEW op \in parked', op \in Ops, due(op)'
             PROVE  completion' \/ signalDue'
  <2>1. D!TypeOK' => parked' \subseteq Ops
    BY DEF D!TypeOK, D!CoreTypeOK
  <2> QED
    BY <2>1, DatagramTypeStep DEF DatagramInv, D!Consistent, D!NoStuckOperation, D!NoLostWakeup, due
\* An operation whose result was there before has its token.
<1>0. ASSUME op \in parked, due(op)
      PROVE  completion \/ signalDue
  BY <1>0 DEF D!NoLostWakeup, due
<1>t. /\ operations \in [Ops -> D!OperationKind \cup {"none"}]
      /\ udpReads \in [Ops -> D!Waiters \cup {Nil}] /\ udpWrites \in [Ops -> D!Waiters \cup {Nil}]
      /\ received \in [Sockets -> Seq(1..MaxArrivals)] /\ receiveErr \in [Sockets -> BOOLEAN]
  BY DEF D!TypeOK, D!CoreTypeOK
<1>1. ASSUME op \in parked, operations'[op] = operations[op],
             udpReads'[op] \in {udpReads[op], Nil}, udpWrites'[op] \in {udpWrites[op], Nil},
             UNCHANGED <<received, receiveErr>>, datagrams' \subseteq datagrams,
             completion \/ signalDue => completion' \/ signalDue'
      PROVE  completion' \/ signalDue'
  <2>1. due(op)
    BY <1>1 DEF due, D!TakeUDPReceiveReady, D!TakeUDPSendReadyReady
  <2> QED
    BY <1>0, <1>1, <2>1
<1>2. ASSUME NEW e \in Sockets, NEW o \in Ops, D!StartUDPReceive(e, o)
      PROVE  completion' \/ signalDue'
  <2>1. /\ operations' = [operations EXCEPT ![o] = "udpRead"] /\ parked' = parked \cup {o}
        /\ udpReads' = [udpReads EXCEPT ![o] = [handle |-> e,
              ready |-> received[e] # <<>> \/ receiveErr[e]]]
        /\ signalDue' = (signalDue \/ (received[e] # <<>> \/ receiveErr[e]))
        /\ UNCHANGED <<udpWrites, received, receiveErr, datagrams, completion>>
    BY <1>2 DEF D!StartUDPReceive, D!claimOperationLocked, D!signalAfterUnlock, D!sendVars,
         D!handleVars
  <2>2. CASE op = o
    <3>1. operations'[op] = "udpRead" /\ udpReads'[op].handle = e
      BY <1>t, <2>1, <2>2
    <3>2. received[e] # <<>> \/ receiveErr[e]
      BY <2>1, <3>1 DEF due, D!TakeUDPReceiveReady, D!TakeUDPSendReadyReady
    <3> QED
      BY <2>1, <3>2
  <2>3. CASE op # o
    <3>1. operations'[op] = operations[op] /\ udpReads'[op] = udpReads[op] /\ op \in parked
      BY <1>t, <2>1, <2>3
    <3> QED
      BY <1>1, <2>1, <3>1
  <2> QED
    BY <2>2, <2>3
<1>3. ASSUME NEW e \in Sockets, NEW err \in BOOLEAN, D!runUDPReceive(e, err)
      PROVE  completion' \/ signalDue'
  <2>1. UNCHANGED <<operations, completion, parked, udpWrites, datagrams>>
    BY <1>3 DEF D!runUDPReceive, D!handleVars, D!sendVars
  <2>2. CASE e \notin datagrams
    <3>1. UNCHANGED <<received, receiveErr, udpReads, signalDue>>
      BY <1>3, <2>2 DEF D!runUDPReceive
    <3> QED
      BY <1>1, <2>1, <3>1
  <2>3. CASE e \in datagrams
    <3>1. /\ receiveErr' = [receiveErr EXCEPT ![e] = @ \/ err]
          /\ received' = [received EXCEPT ![e] = D!storeReceived(e, err)]
          /\ udpReads' = D!markReady(udpReads, e)
          /\ signalDue' = (signalDue \/ D!waitersOf(udpReads, e) # {})
      BY <1>3, <2>3, ReceiveStores
    <3>2. /\ D!markReady(udpReads, e)[op] # Nil <=> udpReads[op] # Nil
          /\ udpReads[op] # Nil =>
               /\ D!markReady(udpReads, e)[op].handle = udpReads[op].handle
               /\ udpReads[op].handle # e => D!markReady(udpReads, e)[op] = udpReads[op]
      BY <1>t, MarkReady
    <3>3. CASE udpReads[op] # Nil /\ udpReads[op].handle = e
      <4>1. op \in D!waitersOf(udpReads, e)
        BY <3>3 DEF D!waitersOf
      <4> QED
        BY <3>1, <4>1
    <3>4. CASE udpReads[op] # Nil /\ udpReads[op].handle # e
      <4>1. udpReads'[op] = udpReads[op] /\ udpReads[op].handle \in Sockets
        BY <1>t, <3>1, <3>2, <3>4, DatagramWaiterType
      <4>2. /\ received'[udpReads[op].handle] = received[udpReads[op].handle]
            /\ receiveErr'[udpReads[op].handle] = receiveErr[udpReads[op].handle]
        BY <1>t, <3>1, <3>4, <4>1
      <4>3. due(op)
        BY <2>1, <4>1, <4>2 DEF due, D!TakeUDPReceiveReady, D!TakeUDPSendReadyReady
      <4> QED
        BY <1>0, <2>1, <3>1, <4>3
    <3>5. CASE udpReads[op] = Nil
      <4>1. udpReads'[op] = Nil
        BY <3>1, <3>2, <3>5
      <4>2. due(op)
        BY <2>1, <4>1 DEF due, D!TakeUDPReceiveReady, D!TakeUDPSendReadyReady
      <4> QED
        BY <1>0, <2>1, <3>1, <4>2
    <3> QED
      BY <3>3, <3>4, <3>5
  <2> QED
    BY <2>2, <2>3
<1>4. ASSUME NEW o \in Ops, D!TakeUDPReceive(o)
      PROVE  completion' \/ signalDue'
  <2> DEFINE e == udpReads[o].handle
  <2>1. /\ UNCHANGED <<completion, signalDue, udpWrites, datagrams>>
        /\ operations'[op] = operations[op] \/ operations'[op] = "none"
        /\ op # o /\ op \in parked /\ udpReads'[op] = udpReads[op] /\ udpReads'[o] = Nil
    BY <1>4, <1>t DEF D!TakeUDPReceive, D!releaseOperationLocked, D!handleVars, D!sendVars
  <2>2. e \in Sockets
    BY <1>4, <1>t, DatagramWaiterType DEF D!TakeUDPReceive, D!TakeUDPReceiveReady
  <2>3. \A x \in Sockets : (received'[x] # <<>> => received[x] # <<>>) /\ (receiveErr'[x] => receiveErr[x])
    <3>1. \/ UNCHANGED <<received, receiveErr>>
          \/ received' = received /\ receiveErr' = [receiveErr EXCEPT ![e] = FALSE]
          \/ received[e] # <<>> /\ received' = [received EXCEPT ![e] = Tail(@)] /\ UNCHANGED receiveErr
      BY <1>4 DEF D!TakeUDPReceive
    <3> HIDE DEF e
    <3> QED
      BY <1>t, <2>2, <3>1
  <2>4. due(op)
    <3>1. CASE D!TakeUDPReceiveReady(op)' /\ udpReads'[op].handle \in datagrams'
      <4>1. udpReads[op] # Nil /\ operations[op] = "udpRead" /\ udpReads[op].handle \in Sockets
        BY <1>t, <2>1, <3>1, DatagramWaiterType DEF D!TakeUDPReceiveReady
      <4> QED
        BY <2>1, <2>3, <3>1, <4>1 DEF due, D!TakeUDPReceiveReady
    <3>2. CASE D!TakeUDPSendReadyReady(op)'
      BY <2>1, <3>2 DEF due, D!TakeUDPSendReadyReady
    <3> QED
      BY <3>1, <3>2 DEF due
  <2> QED
    BY <1>0, <2>1, <2>4
<1>5. ASSUME NEW o \in Ops, D!TakeUDPReceivePending(o)
      PROVE  completion' \/ signalDue'
  <2>1. /\ UNCHANGED <<operations, completion, signalDue, udpReads, udpWrites, received, receiveErr,
              datagrams>>
        /\ parked' = parked \cup {o} /\ operations[o] = "udpRead" /\ ~D!TakeUDPReceiveReady(o)
    BY <1>5 DEF D!TakeUDPReceivePending, D!receiveVars, D!sendVars, D!handleVars
  <2>2. due(op)
    BY <2>1 DEF due, D!TakeUDPReceiveReady, D!TakeUDPSendReadyReady
  <2>3. op # o
    BY <2>1, <2>2 DEF due, D!TakeUDPSendReadyReady
  <2> QED
    BY <1>0, <2>1, <2>2, <2>3
<1>6. ASSUME NEW o \in Ops, D!TakeUDPSendReadyPending(o)
      PROVE  completion' \/ signalDue'
  <2>1. /\ UNCHANGED <<operations, completion, signalDue, udpReads, udpWrites, received, receiveErr,
              datagrams>>
        /\ parked' = parked \cup {o} /\ operations[o] = "udpWrite" /\ ~D!TakeUDPSendReadyReady(o)
    BY <1>6 DEF D!TakeUDPSendReadyPending, D!receiveVars, D!sendVars, D!handleVars
  <2>2. due(op)
    BY <2>1 DEF due, D!TakeUDPReceiveReady, D!TakeUDPSendReadyReady
  <2>3. op # o
    BY <2>1, <2>2 DEF due, D!TakeUDPReceiveReady
  <2> QED
    BY <1>0, <2>1, <2>2, <2>3
<1>7. ASSUME NEW o \in Ops, D!CancelUDPReceive(o)
      PROVE  completion' \/ signalDue'
  BY <1>1, <1>t, <1>7 DEF D!CancelUDPReceive, D!sendVars, D!handleVars
<1>8. ASSUME NEW o \in Ops, D!TakeUDPSendReady(o) \/ D!CancelUDPSendReady(o)
      PROVE  completion' \/ signalDue'
  <2>1. /\ UNCHANGED <<completion, signalDue, udpReads, received, receiveErr, datagrams>>
        /\ op # o /\ op \in parked
        /\ operations'[op] = operations[op] /\ udpWrites'[op] = udpWrites[op]
    BY <1>8, <1>t DEF D!TakeUDPSendReady, D!CancelUDPSendReady, D!releaseOperationLocked,
         D!receiveVars, D!handleVars
  <2> QED
    BY <1>1, <2>1
<1>9. ASSUME NEW e \in Sockets, \/ D!TryUDPSend(e) \/ D!takeSend(e) \/ D!closeSocket(e) \/ D!finishUDPSends(e)
                                \/ D!CloseHandle(e) \/ D!closeAfterQueuedSends(e) \/ D!closeNow(e)
      PROVE  completion' \/ signalDue'
  <2>1. /\ UNCHANGED <<operations, completion, signalDue, parked, udpReads, udpWrites, received,
              receiveErr>>
        /\ datagrams' \subseteq datagrams
    BY <1>9 DEF D!TryUDPSend, D!takeSend, D!closeSocket, D!finishUDPSends, D!CloseHandle,
         D!closeAfterQueuedSends, D!closeNow,
                D!coreVars, D!receiveVars, D!sendVars, D!handleVars
  <2> QED
    BY <1>1, <2>1
<1>10. ASSUME NEW e \in Sockets, NEW o \in Ops, D!StartUDPSendReady(e, o)
       PROVE  completion' \/ signalDue'
  <2>1. /\ operations' = [operations EXCEPT ![o] = "udpWrite"] /\ parked' = parked \cup {o}
        /\ udpWrites' = [udpWrites EXCEPT ![o] = [handle |-> e, ready |-> D!sendable(e)]]
        /\ signalDue' = (signalDue \/ D!sendable(e))
        /\ UNCHANGED <<udpReads, received, receiveErr, datagrams, completion>>
    BY <1>10 DEF D!StartUDPSendReady, D!claimOperationLocked, D!signalAfterUnlock, D!receiveVars,
         D!handleVars
  <2>2. CASE op = o
    <3>1. operations'[op] = "udpWrite" /\ udpWrites'[op].ready = D!sendable(e)
      BY <1>t, <2>1, <2>2
    <3>2. D!sendable(e)
      BY <3>1 DEF due, D!TakeUDPReceiveReady, D!TakeUDPSendReadyReady
    <3> QED
      BY <2>1, <3>2
  <2>3. CASE op # o
    <3>1. operations'[op] = operations[op] /\ udpWrites'[op] = udpWrites[op] /\ op \in parked
      BY <1>t, <2>1, <2>3
    <3> QED
      BY <1>1, <2>1, <3>1
  <2> QED
    BY <2>2, <2>3
\* Both workers of a socket tell everybody they mark.
<1>11. ASSUME NEW e \in Sockets, udpWrites' = D!markReady(udpWrites, e),
              signalDue' = (signalDue \/ D!waitersOf(udpWrites, e) # {}),
              UNCHANGED <<operations, completion, parked, udpReads, received, receiveErr, datagrams>>
       PROVE  completion' \/ signalDue'
  <2>1. /\ D!markReady(udpWrites, e)[op] # Nil <=> udpWrites[op] # Nil
        /\ udpWrites[op] # Nil =>
             /\ D!markReady(udpWrites, e)[op].handle = udpWrites[op].handle
             /\ udpWrites[op].handle # e => D!markReady(udpWrites, e)[op] = udpWrites[op]
    BY <1>t, MarkReady
  <2>2. CASE udpWrites[op] # Nil /\ udpWrites[op].handle = e
    <3>1. op \in D!waitersOf(udpWrites, e)
      BY <2>2 DEF D!waitersOf
    <3> QED
      BY <1>11, <3>1
  <2>3. CASE ~(udpWrites[op] # Nil /\ udpWrites[op].handle = e)
    <3>1. udpWrites'[op] = udpWrites[op]
      BY <1>11, <2>1, <2>3
    <3> QED
      BY <1>1, <1>11, <3>1
  <2> QED
    BY <2>2, <2>3
<1>12. ASSUME NEW e \in Sockets, D!tellRoom(e)
       PROVE  completion' \/ signalDue'
  BY <1>11, <1>12 DEF D!tellRoom, D!signalAfterUnlock, D!receiveVars, D!handleVars
<1>13. ASSUME NEW e \in Sockets, NEW err \in BOOLEAN, D!WriteTo(e, err)
       PROVE  completion' \/ signalDue'
  <2>0. UNCHANGED <<operations, completion, parked, udpReads, received, receiveErr, datagrams>>
    BY <1>13 DEF D!WriteTo, D!receiveVars, D!handleVars
  <2>1. CASE err /\ e \in datagrams
    BY <1>11, <1>13, <2>0, <2>1 DEF D!WriteTo, D!signalAfterUnlock
  <2>2. CASE ~(err /\ e \in datagrams)
    <3>1. udpWrites' = udpWrites /\ signalDue' = (signalDue \/ FALSE)
      BY <1>13, <2>2 DEF D!WriteTo, D!signalAfterUnlock
    <3> QED
      BY <1>1, <2>0, <3>1
  <2> QED
    BY <2>1, <2>2
<1>14. ASSUME D!Close
       PROVE  completion' \/ signalDue'
  BY <1>14 DEF D!Close, due, D!TakeUDPReceiveReady, D!TakeUDPSendReadyReady
<1>15. ASSUME D!CloseReturns \/ UNCHANGED D!vars
       PROVE  completion' \/ signalDue'
  <2>1. UNCHANGED <<operations, completion, signalDue, parked, udpReads, udpWrites, received,
        receiveErr, datagrams>>
    BY <1>15 DEF D!CloseReturns, D!vars, D!coreVars, D!receiveVars, D!sendVars, D!handleVars
  <2> QED
    BY <1>1, <2>1
<1>16. ASSUME D!signal \/ D!notify
       PROVE  completion' \/ signalDue'
  BY <1>16 DEF D!signal, D!signalCompletion, D!notify, D!NotifyGuest
<1> QED
  BY <1>2, <1>3, <1>4, <1>5, <1>6, <1>7, <1>8, <1>9, <1>10, <1>12, <1>13, <1>14, <1>15, <1>16
     DEF D!Next, D!receiveReturns, D!writeReturns, D!Terminated

\* The invariant is inductive.
LEMMA DatagramNextInv == DatagramInv /\ [D!Next]_(D!vars) => DatagramInv'
BY DatagramTypeStep, ReceiverStep, HandlesStep, SenderStep, PanicStep, SocketsFoundStep,
     CloseIsFinalStep, ReceiveIntegrityStep,
   SendIntegrityStep, StuckReceiveStep, StuckSendStep, DatagramWakeupStep
   DEF DatagramInv, D!Consistent, D!DatagramIntegrity, D!NoStuckOperation


\* For every number of sockets and operation ids and every capacity, the
\* inductive invariant of datagram sockets holds in every reachable state.
THEOREM DatagramInvariance == DatagramAssumptions => (D!Spec => []DatagramInv)
BY DatagramInitInv, DatagramNextInv, PTL DEF D!Spec

\* The tables, the channels and the goroutines of a datagram socket agree: a
\* socket with a handle has at most one goroutine that reads into its buffer,
\* TryUDPSend meets neither a closed nor a full channel, Close finds every
\* socket that still has its sending goroutine, and leaves none behind.
THEOREM DatagramConsistency == DatagramAssumptions => (D!Spec => []D!Consistent)
<1>1. DatagramInv => D!Consistent
  BY DEF DatagramInv
<1> QED
  BY DatagramInvariance, <1>1, PTL

\* The guest takes the datagrams of a socket in the order of arrival, each once,
\* and every datagram TryUDPSend accepted is given to WriteTo once, in order,
\* also after CloseHandle.
THEOREM DatagramsInOrder == DatagramAssumptions => (D!Spec => []D!DatagramIntegrity)
<1>1. DatagramInv => D!DatagramIntegrity
  BY DEF DatagramInv
<1> QED
  BY DatagramInvariance, <1>1, PTL

\* A waiting receive has a goroutine that reads for it, a wait for room has a
\* sender that will make some, and a guest parked on a result that is there has
\* a token coming.
THEOREM NoDatagramOperationIsStuck == DatagramAssumptions => (D!Spec => []D!NoStuckOperation)
<1>1. DatagramInv => D!NoStuckOperation
  BY DEF DatagramInv
<1> QED
  BY DatagramInvariance, <1>1, PTL

=============================================================================
