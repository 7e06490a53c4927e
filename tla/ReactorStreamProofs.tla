------------------------- MODULE ReactorStreamProofs -------------------------
(***************************************************************************)
(* Proofs about ReactorStream, for every set of streams, operation ids and *)
(* buffer sizes and every stream length.  Inv, the inductive invariant, is *)
(* defined in ReactorStream; each of its conjuncts has a lemma here that   *)
(* shows that every step preserves it.                                     *)
(***************************************************************************)
EXTENDS ReactorStream, SequenceTheorems, TLAPS

-----------------------------------------------------------------------------
(* The operators the model is built from.                                  *)

\* What removing one position does to a sequence (the copy and the re-slice of
\* removeReadOperation and removeWriteOperation).
LEMMA RemoveAtLemma ==
  ASSUME NEW S, NEW q \in Seq(S), NEW i \in 1..Len(q)
  PROVE  /\ RemoveAt(q, i) \in Seq(S)
         /\ Len(RemoveAt(q, i)) = Len(q) - 1
         /\ \A j \in 1..(Len(q) - 1) :
              RemoveAt(q, i)[j] = IF j < i THEN q[j] ELSE q[j + 1]
<1> DEFINE p == SubSeq(q, 1, i - 1)
           r == SubSeq(q, i + 1, Len(q))
<1>1. p \in Seq(S) /\ Len(p) = i - 1 /\ \A j \in 1..(i - 1) : p[j] = q[j]
  OBVIOUS
<1>2. r \in Seq(S) /\ Len(r) = Len(q) - i /\ \A j \in 1..(Len(q) - i) : r[j] = q[j + i]
  OBVIOUS
<1>3. RemoveAt(q, i) = p \o r
  BY DEF RemoveAt
<1> HIDE DEF p, r
<1>4. p \o r \in Seq(S) /\ Len(p \o r) = Len(p) + Len(r)
  BY <1>1, <1>2, ConcatProperties
<1>5. \A j \in 1..(Len(p) + Len(r)) :
        (p \o r)[j] = IF j <= Len(p) THEN p[j] ELSE r[j - Len(p)]
  BY <1>1, <1>2, ConcatProperties
<1> QED
  BY <1>1, <1>2, <1>3, <1>4, <1>5

\* Removing an operation that stands once in its queue: the others stay, in
\* their order; removing one that is not there changes nothing.
LEMMA RemoveOperationLemma ==
  ASSUME NEW S, NEW q \in Seq(S), NEW x \in S,
         \A i, j \in 1..Len(q) : q[i] = q[j] => i = j
  PROVE  /\ removeOperation(q, x) \in Seq(S)
         /\ (\A i \in 1..Len(q) : q[i] # x) => removeOperation(q, x) = q
         /\ \A k \in 1..Len(q) : q[k] = x =>
              /\ Len(removeOperation(q, x)) = Len(q) - 1
              /\ \A j \in 1..(Len(q) - 1) :
                   removeOperation(q, x)[j] = IF j < k THEN q[j] ELSE q[j + 1]
<1> DEFINE P(i) == q[i] = x /\ \A j \in 1..(i - 1) : q[j] # x
           c == CHOOSE i \in DOMAIN q : P(i)
<1>1. CASE \A i \in 1..Len(q) : q[i] # x
  BY <1>1 DEF removeOperation, Contains
<1>2. ASSUME NEW k \in 1..Len(q), q[k] = x
      PROVE  /\ removeOperation(q, x) \in Seq(S)
             /\ Len(removeOperation(q, x)) = Len(q) - 1
             /\ \A j \in 1..(Len(q) - 1) :
                  removeOperation(q, x)[j] = IF j < k THEN q[j] ELSE q[j + 1]
  <2>1. k \in DOMAIN q /\ P(k)
    BY <1>2
  <2>2. c \in DOMAIN q /\ P(c)
    BY <2>1
  <2>3. c = k
    BY <1>2, <2>2
  <2>4. Contains(q, x)
    BY <1>2 DEF Contains
  <2>5. removeOperation(q, x) = RemoveAt(q, k)
    BY <2>3, <2>4 DEF removeOperation
  <2>6. /\ RemoveAt(q, k) \in Seq(S)
        /\ Len(RemoveAt(q, k)) = Len(q) - 1
        /\ \A j \in 1..(Len(q) - 1) : RemoveAt(q, k)[j] = IF j < k THEN q[j] ELSE q[j + 1]
    BY RemoveAtLemma
  <2> QED
    BY <2>5, <2>6
<1> QED
  BY <1>1, <1>2

\* The second element of a queue becomes its head when the first one leaves.
LEMMA SecondBecomesHead ==
  ASSUME NEW S, NEW q \in Seq(S), NEW t \in Seq(S), t # <<>>,
         Len(t) = Len(q) - 1, \A i \in 1..Len(t) : t[i] = q[i + 1]
  PROVE  1 \in 1..Len(q) /\ 2 \in 1..Len(q) /\ Head(t) = q[2] /\ q[2] \in S
OBVIOUS

\* Moving the first c elements of a sequence to the end of another one.
LEMMA MoveFrontLemma ==
  ASSUME NEW S, NEW d \in Seq(S), NEW q \in Seq(S), NEW c \in 0..Len(q)
  PROVE  /\ d \o SubSeq(q, 1, c) \in Seq(S)
         /\ Len(d \o SubSeq(q, 1, c)) = Len(d) + c
         /\ \A i \in 1..(Len(d) + c) :
              (d \o SubSeq(q, 1, c))[i] = IF i <= Len(d) THEN d[i] ELSE q[i - Len(d)]
         /\ SubSeq(q, c + 1, Len(q)) \in Seq(S)
         /\ Len(SubSeq(q, c + 1, Len(q))) = Len(q) - c
         /\ \A i \in 1..(Len(q) - c) : SubSeq(q, c + 1, Len(q))[i] = q[c + i]
<1> DEFINE front == SubSeq(q, 1, c)
<1>1. /\ front \in Seq(S) /\ Len(front) = c
      /\ \A i \in 1..c : front[i] = q[i]
  OBVIOUS
<1>2. /\ SubSeq(q, c + 1, Len(q)) \in Seq(S)
      /\ Len(SubSeq(q, c + 1, Len(q))) = Len(q) - c
      /\ \A i \in 1..(Len(q) - c) : SubSeq(q, c + 1, Len(q))[i] = q[c + i]
  OBVIOUS
<1> HIDE DEF front
<1>3. /\ d \o front \in Seq(S)
      /\ Len(d \o front) = Len(d) + Len(front)
      /\ \A i \in 1..(Len(d) + Len(front)) :
           (d \o front)[i] = IF i <= Len(d) THEN d[i] ELSE front[i - Len(d)]
  BY <1>1, ConcatProperties
<1>4. \A i \in 1..(Len(d) + c) :
        (d \o front)[i] = IF i <= Len(d) THEN d[i] ELSE q[i - Len(d)]
  BY <1>1, <1>3
<1> QED
  BY <1>1, <1>2, <1>3, <1>4 DEF front

\* A waiter is on a stream and has a buffer.
LEMMA WaiterType ==
  ASSUME TypeOK, NEW op \in Ops, reads[op] # Nil
  PROVE  reads[op].stream \in Streams /\ reads[op].capacity \in Capacities
BY DEF TypeOK, Waiters

\* A live writeOperation is a record on some stream.
LEMMA RequestType ==
  ASSUME TypeOK, NEW r \in Requests, request[r] # Nil
  PROVE  /\ request[r] \in WriteOperations
         /\ request[r].stream \in Streams
         /\ request[r].done \in BOOLEAN
         /\ r[1] \in WriteOps /\ r[1] \in Ops
BY OpsAssumption DEF TypeOK, WriteOperations, Requests

\* A new writeOperation has an address of its own.
LEMMA NewRequestLemma ==
  ASSUME NEW op \in WriteOps, free(op) # {}
  PROVE  /\ newRequest(op) \in Requests
         /\ newRequest(op)[1] = op
         /\ request[newRequest(op)] = Nil
<1>1. (CHOOSE x \in free(op) : TRUE) \in free(op)
  OBVIOUS
<1>2. PICK slot \in Slots : newRequest(op) = <<op, slot>> /\ request[<<op, slot>>] = Nil
  BY <1>1 DEF free, newRequest
<1> QED
  BY <1>2 DEF Requests

\* Flags and counters computed by prepareStreamReadLocked have their types.
LEMMA PrepareType ==
  ASSUME TypeOK, NEW s \in Streams, prepareStreamReadLocked(s)
  PROVE  readRunning' \in [Streams -> BOOLEAN] /\ readers' \in [Streams -> Nat]
BY DEF TypeOK, prepareStreamReadLocked, mayRead

\* A claimed read has a waiter on a stream, where it stands at one position.
LEMMA ReadOperation ==
  ASSUME TypeOK, HandlesConsistent, ReadsRegistered, NEW op \in Ops, operations[op] = "read"
  PROVE  /\ ~closed
         /\ reads[op] # Nil
         /\ reads[op].stream \in Streams
         /\ reads[op].capacity \in Nat \ {0}
         /\ readQueue[reads[op].stream] \in Seq(Ops)
         /\ \A i, j \in 1..Len(readQueue[reads[op].stream]) :
              readQueue[reads[op].stream][i] = readQueue[reads[op].stream][j] => i = j
         /\ \E k \in 1..Len(readQueue[reads[op].stream]) : readQueue[reads[op].stream][k] = op
<1>1. ~closed
  BY DEF HandlesConsistent
<1>2. reads[op] # Nil
  BY <1>1 DEF ReadsRegistered
<1>3. reads[op].stream \in Streams /\ reads[op].capacity \in Nat \ {0}
  BY <1>2, WaiterType, CapacitiesAssumption
<1> QED
  BY <1>1, <1>2, <1>3 DEF TypeOK, ReadsRegistered

\* What TakeRead does: the waiter leaves the head of its queue, and the bytes it
\* takes move from the front of the stored ones to the end of the delivered.
LEMMA TakeReadEffect ==
  ASSUME TypeOK, HandlesConsistent, ReadsRegistered, NEW op \in ReadOps, TakeRead(op)
  PROVE  \E s \in Streams :
         /\ s = reads[op].stream
         /\ ~closed
         /\ op \in Ops
         /\ operations[op] = "read"
         /\ readQueue[s] # <<>>
         /\ readQueue[s][1] = op
         /\ readQueue' \in [Streams -> Seq(Ops)]
         /\ Len(readQueue'[s]) = Len(readQueue[s]) - 1
         /\ \A i \in 1..Len(readQueue'[s]) : readQueue'[s][i] = readQueue[s][i + 1]
         /\ \A x \in Streams \ {s} : readQueue'[x] = readQueue[x]
         /\ takeCount(op) \in 0..Len(readData[s])
         /\ (readReady[s] /\ readData[s] # <<>>) => takeCount(op) > 0
         /\ ~readReady[s] => takeCount(op) = 0
         /\ delivered' \in [Streams -> Seq(1..MaxBytes)]
         /\ readData' \in [Streams -> Seq(1..MaxBytes)]
         /\ Len(delivered'[s]) = Len(delivered[s]) + takeCount(op)
         /\ \A i \in 1..Len(delivered'[s]) :
              delivered'[s][i] = IF i <= Len(delivered[s]) THEN delivered[s][i]
                                 ELSE readData[s][i - Len(delivered[s])]
         /\ Len(readData'[s]) = Len(readData[s]) - takeCount(op)
         /\ \A i \in 1..Len(readData'[s]) : readData'[s][i] = readData[s][takeCount(op) + i]
         /\ \A x \in Streams \ {s} : delivered'[x] = delivered[x] /\ readData'[x] = readData[x]
<1> DEFINE s == reads[op].stream
<1> DEFINE c == takeCount(op)
<1>1. op \in Ops /\ operations[op] = "read" /\ readQueue[s] # <<>> /\ Head(readQueue[s]) = op
  BY OpsAssumption DEF TakeRead, TakeReadReady
<1>2. /\ ~closed /\ s \in Streams
      /\ readQueue[s] \in Seq(Ops)
      /\ reads[op].capacity \in Nat \ {0}
  BY <1>1, ReadOperation
<1>3. readQueue' = [readQueue EXCEPT ![s] = Tail(@)]
  BY DEF TakeRead
<1>4. /\ Tail(readQueue[s]) \in Seq(Ops)
      /\ Len(Tail(readQueue[s])) = Len(readQueue[s]) - 1
      /\ \A i \in 1..(Len(readQueue[s]) - 1) : Tail(readQueue[s])[i] = readQueue[s][i + 1]
      /\ readQueue[s][1] = op
  BY <1>1, <1>2, HeadTailProperties
<1>5. /\ readQueue' \in [Streams -> Seq(Ops)]
      /\ readQueue'[s] = Tail(readQueue[s])
      /\ \A x \in Streams \ {s} : readQueue'[x] = readQueue[x]
  BY <1>2, <1>3, <1>4 DEF TypeOK
<1>6. readData[s] \in Seq(1..MaxBytes) /\ delivered[s] \in Seq(1..MaxBytes)
  BY <1>2 DEF TypeOK
<1>7. /\ c \in 0..Len(readData[s])
      /\ (readReady[s] /\ readData[s] # <<>>) => c > 0
      /\ ~readReady[s] => c = 0
  BY <1>2, <1>6 DEF takeCount
<1>8. /\ delivered' = [delivered EXCEPT ![s] = @ \o SubSeq(readData[s], 1, c)]
      /\ readData' = [readData EXCEPT ![s] = SubSeq(@, c + 1, Len(@))]
  BY DEF TakeRead
<1> DEFINE d == delivered[s]
           q == readData[s]
           B == 1..MaxBytes
<1> HIDE DEF s, c, d, q, B
<1>9. d \in Seq(B) /\ q \in Seq(B) /\ c \in 0..Len(q)
  BY <1>6, <1>7 DEF d, q, B
<1>10. /\ d \o SubSeq(q, 1, c) \in Seq(B)
       /\ Len(d \o SubSeq(q, 1, c)) = Len(d) + c
       /\ \A i \in 1..(Len(d) + c) :
            (d \o SubSeq(q, 1, c))[i] = IF i <= Len(d) THEN d[i] ELSE q[i - Len(d)]
       /\ SubSeq(q, c + 1, Len(q)) \in Seq(B)
       /\ Len(SubSeq(q, c + 1, Len(q))) = Len(q) - c
       /\ \A i \in 1..(Len(q) - c) : SubSeq(q, c + 1, Len(q))[i] = q[c + i]
  BY <1>9, MoveFrontLemma
<1>11. /\ delivered' = [delivered EXCEPT ![s] = d \o SubSeq(q, 1, c)]
       /\ readData' = [readData EXCEPT ![s] = SubSeq(q, c + 1, Len(q))]
  BY <1>8 DEF d, q
<1>12. delivered \in [Streams -> Seq(B)] /\ readData \in [Streams -> Seq(B)]
  BY DEF TypeOK, B
<1>13. /\ delivered' \in [Streams -> Seq(B)]
       /\ readData' \in [Streams -> Seq(B)]
       /\ delivered'[s] = d \o SubSeq(q, 1, c)
       /\ readData'[s] = SubSeq(q, c + 1, Len(q))
       /\ \A x \in Streams \ {s} : delivered'[x] = delivered[x] /\ readData'[x] = readData[x]
  BY <1>2, <1>10, <1>11, <1>12
<1>14. /\ Len(delivered'[s]) = Len(d) + c
       /\ \A i \in 1..Len(delivered'[s]) :
            delivered'[s][i] = IF i <= Len(d) THEN d[i] ELSE q[i - Len(d)]
       /\ Len(readData'[s]) = Len(q) - c
       /\ \A i \in 1..Len(readData'[s]) : readData'[s][i] = q[c + i]
  BY <1>10, <1>13
<1>15. \A i \in 1..Len(readQueue'[s]) : readQueue'[s][i] = readQueue[s][i + 1]
  BY <1>4, <1>5
<1> QED
  BY <1>1, <1>2, <1>4, <1>5, <1>7, <1>13, <1>14, <1>15 DEF c, d, q, B, s

\* What CancelRead does to the queues: the waiter disappears from the one it
\* stands in, the others close ranks.
LEMMA CancelReadEffect ==
  ASSUME TypeOK, HandlesConsistent, ReadsRegistered, NEW op \in ReadOps, CancelRead(op)
  PROVE  \E s \in Streams :
         /\ s = reads[op].stream
         /\ ~closed
         /\ op \in Ops
         /\ operations[op] = "read"
         /\ readQueue' \in [Streams -> Seq(Ops)]
         /\ \A x \in Streams \ {s} : readQueue'[x] = readQueue[x]
         /\ Len(readQueue'[s]) = Len(readQueue[s]) - 1
         /\ \E k \in 1..Len(readQueue[s]) :
              /\ readQueue[s][k] = op
              /\ \A j \in 1..Len(readQueue'[s]) :
                   readQueue'[s][j] = IF j < k THEN readQueue[s][j] ELSE readQueue[s][j + 1]
<1> DEFINE s == reads[op].stream
<1>1. op \in Ops /\ operations[op] = "read"
  BY OpsAssumption DEF CancelRead
<1>2. /\ ~closed /\ s \in Streams
      /\ readQueue[s] \in Seq(Ops)
      /\ \A i, j \in 1..Len(readQueue[s]) : readQueue[s][i] = readQueue[s][j] => i = j
  BY <1>1, ReadOperation
<1>3. PICK k \in 1..Len(readQueue[s]) : readQueue[s][k] = op
  BY <1>1, ReadOperation
<1>4. readQueue' = [readQueue EXCEPT ![s] = removeOperation(@, op)]
  BY DEF CancelRead
<1> DEFINE q == readQueue[s]
<1> HIDE DEF q
<1>A. q \in Seq(Ops) /\ \A i, j \in 1..Len(q) : q[i] = q[j] => i = j
  BY <1>2 DEF q
<1>B. /\ removeOperation(q, op) \in Seq(Ops)
       /\ \A n \in 1..Len(q) : q[n] = op =>
            /\ Len(removeOperation(q, op)) = Len(q) - 1
            /\ \A j \in 1..(Len(q) - 1) :
                 removeOperation(q, op)[j] = IF j < n THEN q[j] ELSE q[j + 1]
  BY <1>1, <1>A, RemoveOperationLemma
<1>5. /\ removeOperation(readQueue[s], op) \in Seq(Ops)
      /\ Len(removeOperation(readQueue[s], op)) = Len(readQueue[s]) - 1
      /\ \A j \in 1..(Len(readQueue[s]) - 1) :
           removeOperation(readQueue[s], op)[j] =
             IF j < k THEN readQueue[s][j] ELSE readQueue[s][j + 1]
  BY <1>3, <1>B DEF q
<1>6. /\ readQueue' \in [Streams -> Seq(Ops)]
      /\ readQueue'[s] = removeOperation(readQueue[s], op)
      /\ \A x \in Streams \ {s} : readQueue'[x] = readQueue[x]
  BY <1>2, <1>4, <1>5 DEF TypeOK
<1>7. \E n \in 1..Len(readQueue[s]) :
        /\ readQueue[s][n] = op
        /\ \A j \in 1..Len(readQueue'[s]) :
             readQueue'[s][j] = IF j < n THEN readQueue[s][j] ELSE readQueue[s][j + 1]
  BY <1>2, <1>3, <1>5, <1>6
<1>8. s = reads[op].stream /\ Len(readQueue'[s]) = Len(readQueue[s]) - 1
  BY <1>5, <1>6
<1> HIDE DEF s
<1> QED
  BY <1>1, <1>2, <1>6, <1>7, <1>8

-----------------------------------------------------------------------------
(* Preservation of the invariant, one lemma for each conjunct.             *)

\* Every step keeps every variable in its type.
LEMMA TypeStep == Inv /\ [Next]_vars => TypeOK'
<1> SUFFICES ASSUME Inv, [Next]_vars
             PROVE  TypeOK'
  OBVIOUS
<1>0. /\ TypeOK /\ HandlesConsistent /\ ReadsRegistered /\ SingleWriter
      /\ WritesRegistered /\ ActiveIsLive /\ QueuedAreLive
  BY DEF Inv
<1> USE OpsAssumption, CapacitiesAssumption, MaxBytesAssumption
<1>1. ASSUME NEW s \in Streams, NEW op \in ReadOps, NEW capacity \in Capacities,
             StartRead(s, op, capacity)
      PROVE  TypeOK'
  <2>1. /\ operations' \in [Ops -> OperationKind \cup {"none"}]
        /\ reads' \in [Ops -> Waiters \cup {Nil}]
        /\ readQueue' \in [Streams -> Seq(Ops)]
    BY <1>0, <1>1 DEF TypeOK, CoreTypeOK, OperationKind, Waiters, StartRead, claimOperationLocked
  <2>2. readQueue'[s] # <<>> => reads'[Head(readQueue'[s])] # Nil /\ Head(readQueue'[s]) \in Ops
    BY <1>0, <1>1, NilWaiterAssumption
       DEF TypeOK, Waiters, StartRead, claimOperationLocked, ReadsRegistered
  <2>3. readSize' \in [Streams -> Capacities \cup {0}]
    BY <1>0, <1>1, <2>1, <2>2 DEF TypeOK, StartRead, prepareStreamReadLocked, mayRead, Waiters
  <2>4. readRunning' \in [Streams -> BOOLEAN] /\ readers' \in [Streams -> Nat]
    BY <1>0, <1>1, PrepareType DEF StartRead
  <2>5. signalDue' \in BOOLEAN /\ parked' \subseteq Ops
    BY <1>0, <1>1 DEF TypeOK, CoreTypeOK, StartRead, signalAfterUnlock, readAvailableLocked
  <2> QED
    BY <1>0, <1>1, <2>1, <2>3, <2>4, <2>5 DEF TypeOK, CoreTypeOK, StartRead, handles, writeVars, history
<1>2. ASSUME NEW s \in Streams, NEW n \in 0..MaxBytes, NEW err \in ReadErrors,
             runStreamRead(s, n, err)
      PROVE  TypeOK'
  <2>1. stored(s, n) \in Seq(1..MaxBytes)
    <3>1. bytesRead[s] \in 0..MaxBytes /\ bytesRead[s] + n <= MaxBytes
      BY <1>0, <1>2 DEF TypeOK, runStreamRead
    <3>2. n \in Nat /\ \A i \in 1..n : bytesRead[s] + i \in 1..MaxBytes
      BY <3>1
    <3>3. stored(s, n) \in [1..n -> 1..MaxBytes]
      BY <3>2 DEF stored
    <3> QED
      BY <3>2, <3>3
  <2>2. signalDue' \in BOOLEAN
    BY <1>0, <1>2 DEF TypeOK, CoreTypeOK, runStreamRead, signalAfterUnlock
  <2>3. bytesRead' \in [Streams -> 0..MaxBytes] /\ readers' \in [Streams -> Nat]
    BY <1>0, <1>2 DEF TypeOK, runStreamRead
  <2>4. readData' \in [Streams -> Seq(1..MaxBytes)]
    BY <1>0, <1>2, <2>1 DEF TypeOK, runStreamRead
  <2>5. /\ readRunning' \in [Streams -> BOOLEAN]
        /\ readReady' \in [Streams -> BOOLEAN]
        /\ readErr' \in [Streams -> ReadErrors]
    BY <1>0, <1>2 DEF TypeOK, runStreamRead
  <2> QED
    BY <1>0, <1>2, <2>2, <2>3, <2>4, <2>5 DEF TypeOK, CoreTypeOK, runStreamRead, handles, writeVars
<1>3. ASSUME NEW op \in ReadOps, TakeRead(op)
      PROVE  TypeOK'
  <2>1. PICK s \in Streams :
        /\ s = reads[op].stream /\ op \in Ops /\ ~closed
        /\ readQueue[s][1] = op
        /\ readQueue' \in [Streams -> Seq(Ops)]
        /\ Len(readQueue'[s]) = Len(readQueue[s]) - 1
        /\ \A i \in 1..Len(readQueue'[s]) : readQueue'[s][i] = readQueue[s][i + 1]
        /\ delivered' \in [Streams -> Seq(1..MaxBytes)]
        /\ readData' \in [Streams -> Seq(1..MaxBytes)]
    BY <1>0, <1>3, TakeReadEffect
  <2>2. reads' \in [Ops -> Waiters \cup {Nil}]
    BY <1>0, <1>3, <2>1 DEF TypeOK, TakeRead
  <2>3. readQueue'[s] # <<>> => reads'[Head(readQueue'[s])] # Nil /\ Head(readQueue'[s]) \in Ops
    <3> SUFFICES ASSUME readQueue'[s] # <<>>
                 PROVE  reads'[Head(readQueue'[s])] # Nil /\ Head(readQueue'[s]) \in Ops
      OBVIOUS
    <3>1. readQueue[s] \in Seq(Ops) /\ readQueue'[s] \in Seq(Ops)
      BY <1>0, <2>1 DEF TypeOK
    <3>2. /\ 1 \in 1..Len(readQueue[s]) /\ 2 \in 1..Len(readQueue[s])
          /\ Head(readQueue'[s]) = readQueue[s][2] /\ readQueue[s][2] \in Ops
      <4>1. /\ Len(readQueue'[s]) = Len(readQueue[s]) - 1
            /\ \A i \in 1..Len(readQueue'[s]) : readQueue'[s][i] = readQueue[s][i + 1]
        BY <2>1
      <4> QED
        BY <3>1, <4>1, SecondBecomesHead
    <3>3. /\ reads[readQueue[s][2]] # Nil
          /\ readQueue[s][1] = readQueue[s][2] => 1 = 2
      <4>1. \A i \in 1..Len(readQueue[s]) :
              /\ reads[readQueue[s][i]] # Nil
              /\ \A j \in 1..Len(readQueue[s]) : readQueue[s][i] = readQueue[s][j] => i = j
        BY <1>0, <2>1 DEF ReadsRegistered
      <4> QED
        BY <3>2, <4>1
    <3>4. readQueue[s][2] # op
      BY <2>1, <3>3
    <3> QED
      BY <1>0, <1>3, <2>1, <3>2, <3>3, <3>4 DEF TypeOK, TakeRead
  <2>4. readSize' \in [Streams -> Capacities \cup {0}]
    <3>1. prepareStreamReadLocked(s)
      BY <1>3, <2>1 DEF TakeRead
    <3> QED
      BY <1>0, <2>1, <2>2, <2>3, <3>1 DEF TypeOK, prepareStreamReadLocked, mayRead, Waiters
  <2>5. /\ toldEOF' \in [Streams -> BOOLEAN]
        /\ readErr' \in [Streams -> ReadErrors]
        /\ readReady' \in [Streams -> BOOLEAN]
        /\ operations' \in [Ops -> OperationKind \cup {"none"}]
    BY <1>0, <1>3, <2>1 DEF TypeOK, CoreTypeOK, TakeRead, releaseOperationLocked, ReadErrors
  <2>6. readRunning' \in [Streams -> BOOLEAN] /\ readers' \in [Streams -> Nat]
    BY <1>0, <1>3, <2>1, PrepareType DEF TakeRead
  <2>7. signalDue' \in BOOLEAN /\ parked' \subseteq Ops
    BY <1>0, <1>3 DEF TypeOK, CoreTypeOK, TakeRead, signalAfterUnlock, nextReadable
  <2> QED
    BY <1>0, <1>3, <2>1, <2>2, <2>4, <2>5, <2>6, <2>7 DEF TypeOK, CoreTypeOK, TakeRead, handles, writeVars
<1>4. ASSUME NEW op \in ReadOps, TakeReadPending(op)
      PROVE  TypeOK'
  BY <1>0, <1>4 DEF TypeOK, CoreTypeOK, TakeReadPending, handles, readVars, writeVars, history
<1>5. ASSUME NEW op \in ReadOps, CancelRead(op)
      PROVE  TypeOK'
  <2>1. PICK s \in Streams :
        /\ s = reads[op].stream /\ op \in Ops /\ ~closed
        /\ readQueue' \in [Streams -> Seq(Ops)]
        /\ Len(readQueue'[s]) = Len(readQueue[s]) - 1
        /\ \E k \in 1..Len(readQueue[s]) :
             /\ readQueue[s][k] = op
             /\ \A j \in 1..Len(readQueue'[s]) :
                  readQueue'[s][j] = IF j < k THEN readQueue[s][j] ELSE readQueue[s][j + 1]
    BY <1>0, <1>5, CancelReadEffect
  <2>2. reads' \in [Ops -> Waiters \cup {Nil}]
    BY <1>0, <1>5, <2>1 DEF TypeOK, CancelRead
  <2>3. readQueue'[s] # <<>> => reads'[Head(readQueue'[s])] # Nil /\ Head(readQueue'[s]) \in Ops
    <3> SUFFICES ASSUME readQueue'[s] # <<>>
                 PROVE  reads'[readQueue'[s][1]] # Nil /\ readQueue'[s][1] \in Ops
      BY <2>1
    <3>1. readQueue[s] \in Seq(Ops) /\ readQueue'[s] \in Seq(Ops) /\ Len(readQueue'[s]) >= 1
      BY <1>0, <2>1 DEF TypeOK
    <3>2. PICK j \in 1..Len(readQueue[s]) : readQueue'[s][1] = readQueue[s][j] /\ readQueue[s][j] # op
      <4>1. PICK k \in 1..Len(readQueue[s]) :
              /\ readQueue[s][k] = op
              /\ readQueue'[s][1] = IF 1 < k THEN readQueue[s][1] ELSE readQueue[s][2]
        BY <2>1, <3>1
      <4>2. \A i \in 1..Len(readQueue[s]) : i # k => readQueue[s][i] # op
        BY <1>0, <2>1, <4>1 DEF ReadsRegistered
      <4> QED
        BY <2>1, <3>1, <4>1, <4>2, SMTT(30)
    <3> QED
      BY <1>0, <1>5, <2>1, <3>1, <3>2 DEF TypeOK, ReadsRegistered, CancelRead
  <2>4. readSize' \in [Streams -> Capacities \cup {0}]
    BY <1>0, <1>5, <2>1, <2>2, <2>3 DEF TypeOK, CancelRead, prepareStreamReadLocked, mayRead, Waiters
  <2>5. readRunning' \in [Streams -> BOOLEAN] /\ readers' \in [Streams -> Nat]
    BY <1>0, <1>5, <2>1, PrepareType DEF CancelRead
  <2>6. signalDue' \in BOOLEAN /\ parked' \subseteq Ops /\ operations' \in [Ops -> OperationKind \cup {"none"}]
    BY <1>0, <1>5 DEF TypeOK, CoreTypeOK, CancelRead, signalAfterUnlock, nextReadable
  <2> QED
    BY <1>0, <1>5, <2>1, <2>2, <2>4, <2>5, <2>6 DEF TypeOK, CoreTypeOK, CancelRead, handles, writeVars, history
<1>6. ASSUME NEW s \in Streams, NEW op \in WriteOps, StartWrite(s, op)
      PROVE  TypeOK'
  <2> DEFINE r == newRequest(op)
  <2>1. r \in Requests /\ op \in Ops
    BY <1>6, NewRequestLemma DEF StartWrite
  <2>2. [stream |-> s, done |-> FALSE, err |-> "nil"] \in WriteOperations
    BY DEF WriteOperations, WriteErrors
  <2> HIDE DEF r
  <2>3. /\ request' = [request EXCEPT ![r] = [stream |-> s, done |-> FALSE, err |-> "nil"]]
        /\ writes' = [writes EXCEPT ![op] = r]
        /\ writeQueue' = [writeQueue EXCEPT ![s] = Append(@, r)]
    BY <1>6 DEF StartWrite, r
  <2>4. /\ request' \in [Requests -> WriteOperations \cup {Nil}]
        /\ writes' \in [Ops -> Requests \cup {Nil}]
        /\ writeQueue' \in [Streams -> Seq(Requests)]
    BY <1>0, <2>1, <2>2, <2>3 DEF TypeOK
  <2>5. operations' \in [Ops -> OperationKind \cup {"none"}] /\ parked' \subseteq Ops
    BY <1>0, <1>6, <2>1 DEF TypeOK, CoreTypeOK, OperationKind, StartWrite, claimOperationLocked
  <2>6. writers' \in [Streams -> Nat] /\ writeRunning' \in [Streams -> BOOLEAN]
    BY <1>0, <1>6 DEF TypeOK, StartWrite
  <2> QED
    BY <1>0, <1>6, <2>4, <2>5, <2>6 DEF TypeOK, CoreTypeOK, StartWrite, handles, readVars, history
<1>7. ASSUME NEW s \in Streams, beginWrite(s)
      PROVE  TypeOK'
  BY <1>0, <1>7, SMTT(30) DEF TypeOK, CoreTypeOK, beginWrite, coreVars, handles, readVars, history
<1>8. ASSUME NEW s \in Streams, exitWrites(s)
      PROVE  TypeOK'
  BY <1>0, <1>8 DEF TypeOK, CoreTypeOK, exitWrites, coreVars, handles, readVars, history
<1>9. ASSUME NEW s \in Streams, NEW err \in {"nil", "error"}, finishWrite(s, err)
      PROVE  TypeOK'
  <2> DEFINE r == writeActive[s]
  <2>1. r \in Requests /\ request[r] \in WriteOperations
    BY <1>0, <1>9, RequestType DEF TypeOK, ActiveIsLive, finishWrite
  <2>2. [request[r] EXCEPT !.done = TRUE, !.err = err] \in WriteOperations
    BY <2>1 DEF WriteOperations, WriteErrors
  <2>3. request' \in [Requests -> WriteOperations \cup {Nil}]
    BY <1>0, <1>9, <2>1, <2>2 DEF TypeOK, finishWrite
  <2>4. accepted' \subseteq Requests /\ signalDue' \in BOOLEAN
    BY <1>0, <1>9, <2>1 DEF TypeOK, CoreTypeOK, finishWrite, signalAfterUnlock
  <2> QED
    BY <1>0, <1>9, <2>3, <2>4 DEF TypeOK, CoreTypeOK, finishWrite, handles, readVars, history
<1>10. ASSUME NEW op \in WriteOps, TakeWrite(op)
      PROVE  TypeOK'
  BY <1>0, <1>10 DEF TypeOK, CoreTypeOK, TakeWrite, TakeWriteReady, releaseOperationLocked,
     handles, readVars, history
<1>11. ASSUME NEW op \in WriteOps, TakeWritePending(op)
      PROVE  TypeOK'
  BY <1>0, <1>11 DEF TypeOK, CoreTypeOK, TakeWritePending, handles, readVars, writeVars, history
<1>12. ASSUME NEW op \in WriteOps, CancelWrite(op)
      PROVE  TypeOK'
  <2> DEFINE r == writes[op]
             s == request[r].stream
  <2>1. r \in Requests /\ s \in Streams /\ op \in Ops
    BY <1>0, <1>12, RequestType DEF TypeOK, WritesRegistered, CancelWrite
  <2> DEFINE q == writeQueue[s]
  <2>2. q \in Seq(Requests) /\ \A i, j \in 1..Len(q) : q[i] = q[j] => i = j
    BY <1>0, <2>1 DEF TypeOK, SingleWriter
  <2> HIDE DEF q, r, s
  <2>3. removeOperation(q, r) \in Seq(Requests)
    BY <2>1, <2>2, RemoveOperationLemma
  <2>4. /\ writeQueue' = writeQueue \/ writeQueue' = [writeQueue EXCEPT ![s] = removeOperation(q, r)]
        /\ request' = request \/ request' = [request EXCEPT ![r] = Nil]
    BY <1>12 DEF CancelWrite, q, r, s
  <2>5. request' \in [Requests -> WriteOperations \cup {Nil}]
    BY <1>0, <2>1, <2>4 DEF TypeOK
  <2>6. writeQueue' \in [Streams -> Seq(Requests)]
    <3>1. writeQueue \in [Streams -> Seq(Requests)]
      BY <1>0 DEF TypeOK
    <3> QED
      BY <2>1, <2>3, <2>4, <3>1
  <2> QED
    BY <1>0, <1>12, <2>1, <2>5, <2>6 DEF TypeOK, CoreTypeOK, CancelWrite, handles, readVars, history
<1>13. ASSUME NEW s \in Streams, CloseHandle(s)
      PROVE  TypeOK'
  <2>1. \A r \in unbegun(s) : r \in Requests /\ request[r] \in WriteOperations
    BY <1>0, <1>13, RequestType DEF TypeOK, unbegun, ToSet, QueuedAreLive
  <2>2. \A r \in unbegun(s) : [request[r] EXCEPT !.done = TRUE, !.err = "ErrClosed"] \in WriteOperations
    BY <2>1 DEF WriteOperations, WriteErrors
  <2>3. request' \in [Requests -> WriteOperations \cup {Nil}]
    BY <1>0, <1>13, <2>2 DEF TypeOK, CloseHandle
  <2>4. signalDue' \in BOOLEAN
    BY <1>0, <1>13 DEF TypeOK, CoreTypeOK, CloseHandle, signalAfterUnlock
  <2>5. writeQueue' \in [Streams -> Seq(Requests)]
    <3>1. writeQueue \in [Streams -> Seq(Requests)] /\ writeQueue' = [writeQueue EXCEPT ![s] = <<>>]
      BY <1>0, <1>13 DEF TypeOK, CloseHandle
    <3> QED
      BY <3>1
  <2>6. /\ conn' \in [Streams -> ConnStates]
        /\ streamClosed' \in [Streams -> BOOLEAN]
        /\ streams' \subseteq Streams
    BY <1>0, <1>13 DEF TypeOK, CloseHandle, ConnStates
  <2> QED
    BY <1>0, <1>13, <2>3, <2>4, <2>5, <2>6 DEF TypeOK, CoreTypeOK, CloseHandle, readVars, history
<1>14. ASSUME NEW s \in Streams, CloseConnection(s)
      PROVE  TypeOK'
  BY <1>0, <1>14 DEF TypeOK, CoreTypeOK, ConnStates, CloseConnection, coreVars, readVars, writeVars, history
<1>15. ASSUME Close
      PROVE  TypeOK'
  BY <1>0, <1>15 DEF TypeOK, CoreTypeOK, ConnStates, Close, connAfterClose, history
<1>16. ASSUME CloseReturns
      PROVE  TypeOK'
  BY <1>0, <1>16 DEF TypeOK, CoreTypeOK, CloseReturns, handles, readVars, writeVars, history
<1>17. ASSUME signal \/ notify
      PROVE  TypeOK'
  BY <1>0, <1>17 DEF TypeOK, CoreTypeOK, signal, signalCompletion, notify, NotifyGuest,
     handles, readVars, writeVars, history
<1>18. ASSUME UNCHANGED vars
      PROVE  TypeOK'
  BY <1>0, <1>18 DEF TypeOK, CoreTypeOK, vars, coreVars, handles, readVars, writeVars, history
<1> QED
  BY <1>1, <1>2, <1>3, <1>4, <1>5, <1>6, <1>7, <1>8, <1>9, <1>10, <1>11, <1>12, <1>13, <1>14,
     <1>15, <1>16, <1>17, <1>18 DEF Next, readReturns, writeReturns, Terminated

-----------------------------------------------------------------------------
(* Which steps touch the read side and the write side.                     *)

\* Only five kinds of steps change what the read side consists of.
LEMMA ReadFrame ==
  ASSUME [Next]_vars
  PROVE  \/ \E s \in Streams, op \in ReadOps, capacity \in Capacities : StartRead(s, op, capacity)
         \/ \E s \in Streams, n \in 0..MaxBytes, err \in ReadErrors : runStreamRead(s, n, err)
         \/ \E op \in ReadOps : TakeRead(op)
         \/ \E op \in ReadOps : CancelRead(op)
         \/ Close
         \/ UNCHANGED <<readQueue, readRunning, readReady, readData, readErr, reads, readers,
                        readSize, bytesRead, delivered, toldEOF>>
BY ZenonT(60) DEF Next, vars, readVars, history, handles, writeVars, coreVars, readReturns, writeReturns,
   TakeReadPending, StartWrite, beginWrite, exitWrites, finishWrite, TakeWrite, TakeWritePending,
   CancelWrite, CloseHandle, CloseConnection, CloseReturns, signal, notify, Terminated

\* Handles are closed by CloseHandle and Close only.
LEMMA HandlesFrame ==
  ASSUME [Next]_vars
  PROVE  \/ \E s \in Streams : CloseHandle(s)
         \/ Close
         \/ UNCHANGED <<closed, streams, streamClosed>>
BY ZenonT(30) DEF Next, vars, handles, coreVars, readReturns, writeReturns,
   StartRead, runStreamRead, TakeRead, TakeReadPending, CancelRead, StartWrite, beginWrite, exitWrites,
   finishWrite, TakeWrite, TakeWritePending, CancelWrite, CloseConnection, CloseReturns,
   signal, signalCompletion, notify, NotifyGuest, Terminated

\* The queue, the flag and the counter of a stream whose stored result or queue
\* a step did not touch.
LEMMA PrepareEffect ==
  ASSUME TypeOK, NEW s \in Streams, prepareStreamReadLocked(s)
  PROVE  /\ \A x \in Streams \ {s} : readRunning'[x] = readRunning[x] /\ readers'[x] = readers[x]
         /\ mayRead(s) => readRunning'[s] /\ readers'[s] = readers[s] + 1
         /\ ~mayRead(s) => readRunning'[s] = readRunning[s] /\ readers'[s] = readers[s]
BY DEF TypeOK, prepareStreamReadLocked, mayRead

\* Every step keeps at most one goroutine reading.
LEMMA SingleReaderStep == Inv /\ [Next]_vars => SingleReader'
<1> SUFFICES ASSUME Inv, [Next]_vars
             PROVE  SingleReader'
  OBVIOUS
<1>0. TypeOK /\ HandlesConsistent /\ ReadsRegistered /\ SingleReader
  BY DEF Inv
<1>1. ASSUME NEW s \in Streams, NEW op \in ReadOps, NEW capacity \in Capacities,
             StartRead(s, op, capacity)
      PROVE  SingleReader'
  <2>1. prepareStreamReadLocked(s) /\ readReady' = readReady /\ readData' = readData
    BY <1>1 DEF StartRead
  <2> QED
    BY <1>0, <2>1, PrepareEffect DEF SingleReader, mayRead
<1>2. ASSUME NEW s \in Streams, NEW n \in 0..MaxBytes, NEW err \in ReadErrors,
             runStreamRead(s, n, err)
      PROVE  SingleReader'
  BY <1>0, <1>2, SMTT(30) DEF TypeOK, SingleReader, runStreamRead
<1>3. ASSUME NEW op \in ReadOps, TakeRead(op)
      PROVE  SingleReader'
  <2>1. PICK s \in Streams :
          /\ s = reads[op].stream
          /\ takeCount(op) \in 0..Len(readData[s])
          /\ readData' \in [Streams -> Seq(1..MaxBytes)]
          /\ Len(readData'[s]) = Len(readData[s]) - takeCount(op)
          /\ \A x \in Streams \ {s} : readData'[x] = readData[x]
    BY <1>0, <1>3, TakeReadEffect
  <2>2. /\ prepareStreamReadLocked(s)
        /\ readReady' = [readReady EXCEPT ![s] = @ /\ ~takeAll(op)]
    BY <1>3, <2>1 DEF TakeRead
  <2>3. takeAll(op) <=> readReady[s] /\ takeCount(op) = Len(readData[s])
    BY <2>1 DEF takeAll
  <2>4. readReady \in [Streams -> BOOLEAN] /\ readData[s] \in Seq(1..MaxBytes) /\ readData'[s] \in Seq(1..MaxBytes)
    BY <1>0, <2>1 DEF TypeOK
  <2>5. ~readReady'[s] => readData'[s] = <<>>
    <3>1. CASE ~readReady[s]
      <4>1. Len(readData[s]) = 0
        BY <1>0, <3>1 DEF SingleReader
      <4> QED
        BY <2>1, <2>4, <4>1
    <3>2. CASE readReady[s]
      BY <2>1, <2>2, <2>3, <2>4, <3>2
    <3> QED
      BY <3>1, <3>2
  <2>6. readReady'[s] => readReady[s]
    BY <2>2, <2>4
  <2>7. \A x \in Streams \ {s} : readReady'[x] = readReady[x]
    BY <2>2, <2>4
  <2> QED
    BY <1>0, <2>1, <2>2, <2>5, <2>6, <2>7, PrepareEffect DEF SingleReader, mayRead
<1>4. ASSUME NEW op \in ReadOps, CancelRead(op)
      PROVE  SingleReader'
  <2>1. PICK s \in Streams : s = reads[op].stream
    BY <1>0, <1>4, CancelReadEffect
  <2>2. prepareStreamReadLocked(s) /\ readReady' = readReady /\ readData' = readData
    BY <1>4, <2>1 DEF CancelRead
  <2> QED
    BY <1>0, <2>2, PrepareEffect DEF SingleReader, mayRead
<1>5. ASSUME \/ Close
             \/ UNCHANGED <<readQueue, readRunning, readReady, readData, readErr, reads, readers,
                            readSize, bytesRead, delivered, toldEOF>>
      PROVE  SingleReader'
  BY <1>0, <1>5 DEF SingleReader, Close
<1> QED
  BY <1>1, <1>2, <1>3, <1>4, <1>5, ReadFrame

\* Every step keeps the delivered and the stored bytes a prefix of the stream.
LEMMA StreamIntegrityStep == Inv /\ [Next]_vars => StreamIntegrity'
<1> SUFFICES ASSUME Inv, [Next]_vars
             PROVE  StreamIntegrity'
  OBVIOUS
<1>0. TypeOK /\ HandlesConsistent /\ ReadsRegistered /\ SingleReader /\ StreamIntegrity
  BY DEF Inv
<1>1. ASSUME NEW s \in Streams, NEW n \in 0..MaxBytes, NEW err \in ReadErrors,
             runStreamRead(s, n, err)
      PROVE  StreamIntegrity'
  <2>1. /\ readData' = [readData EXCEPT ![s] = stored(s, n)]
        /\ bytesRead' = [bytesRead EXCEPT ![s] = @ + n]
        /\ delivered' = delivered
    BY <1>1 DEF runStreamRead
  <2>2. /\ Len(stored(s, n)) = n
        /\ \A i \in 1..n : stored(s, n)[i] = bytesRead[s] + i
    BY MaxBytesAssumption DEF stored
  <2>3. /\ readData \in [Streams -> Seq(1..MaxBytes)]
        /\ bytesRead \in [Streams -> 0..MaxBytes]
        /\ delivered \in [Streams -> Seq(1..MaxBytes)]
    BY <1>0 DEF TypeOK
  <2>4. Len(readData[s]) = 0
    BY <1>0, <1>1 DEF SingleReader, runStreamRead
  <2>5. Len(delivered[s]) = bytesRead[s]
    BY <1>0, <2>3, <2>4 DEF StreamIntegrity
  <2> QED
    BY <1>0, <2>1, <2>2, <2>3, <2>5, MaxBytesAssumption, ZenonT(40) DEF StreamIntegrity
<1>2. ASSUME NEW op \in ReadOps, TakeRead(op)
      PROVE  StreamIntegrity'
  <2>1. PICK s \in Streams :
          /\ delivered' \in [Streams -> Seq(1..MaxBytes)]
          /\ readData' \in [Streams -> Seq(1..MaxBytes)]
          /\ takeCount(op) \in 0..Len(readData[s])
          /\ Len(delivered'[s]) = Len(delivered[s]) + takeCount(op)
          /\ \A i \in 1..Len(delivered'[s]) :
               delivered'[s][i] = IF i <= Len(delivered[s]) THEN delivered[s][i]
                                  ELSE readData[s][i - Len(delivered[s])]
          /\ Len(readData'[s]) = Len(readData[s]) - takeCount(op)
          /\ \A i \in 1..Len(readData'[s]) : readData'[s][i] = readData[s][takeCount(op) + i]
          /\ \A x \in Streams \ {s} : delivered'[x] = delivered[x] /\ readData'[x] = readData[x]
    BY <1>0, <1>2, TakeReadEffect, ZenonT(40)
  <2>2. bytesRead' = bytesRead
    BY <1>2 DEF TakeRead
  <2>3. /\ delivered[s] \in Seq(1..MaxBytes) /\ readData[s] \in Seq(1..MaxBytes)
        /\ delivered'[s] \in Seq(1..MaxBytes) /\ readData'[s] \in Seq(1..MaxBytes)
    BY <1>0, <2>1 DEF TypeOK
  <2>4. /\ Len(delivered[s]) + Len(readData[s]) = bytesRead[s]
        /\ \A i \in 1..Len(delivered[s]) : delivered[s][i] = i
        /\ \A i \in 1..Len(readData[s]) : readData[s][i] = Len(delivered[s]) + i
    BY <1>0 DEF StreamIntegrity
  <2>5. /\ Len(delivered'[s]) + Len(readData'[s]) = Len(delivered[s]) + Len(readData[s])
        /\ \A i \in 1..Len(delivered'[s]) : delivered'[s][i] = i
        /\ \A i \in 1..Len(readData'[s]) : readData'[s][i] = Len(delivered'[s]) + i
    <3> DEFINE d == delivered[s]   d2 == delivered'[s]
               q == readData[s]    q2 == readData'[s]
               c == takeCount(op)  B == 1..MaxBytes
    <3> HIDE DEF d, d2, q, q2, c, B
    <3>1. d \in Seq(B) /\ q \in Seq(B) /\ d2 \in Seq(B) /\ q2 \in Seq(B)
      BY <2>3 DEF d, d2, q, q2, B
    <3>2. /\ c \in 0..Len(q)
          /\ Len(d2) = Len(d) + c
          /\ \A i \in 1..Len(d2) : d2[i] = IF i <= Len(d) THEN d[i] ELSE q[i - Len(d)]
          /\ Len(q2) = Len(q) - c
          /\ \A i \in 1..Len(q2) : q2[i] = q[c + i]
      BY <2>1 DEF d, d2, q, q2, c
    <3>3. /\ \A i \in 1..Len(d) : d[i] = i
          /\ \A i \in 1..Len(q) : q[i] = Len(d) + i
      BY <2>4 DEF d, q
    <3>4. Len(d) \in Nat /\ Len(q) \in Nat /\ c \in Nat
      BY <3>1, <3>2
    <3>5. Len(d2) + Len(q2) = Len(d) + Len(q)
      BY <3>2, <3>4
    <3>6. ASSUME NEW i \in 1..Len(d2)
          PROVE  d2[i] = i
      <4>1. CASE i <= Len(d)
        <5>1. i \in 1..Len(d) /\ d2[i] = d[i]
          BY <3>2, <3>4, <4>1
        <5> QED
          BY <3>3, <5>1
      <4>2. CASE i > Len(d)
        <5>1. i - Len(d) \in 1..Len(q) /\ d2[i] = q[i - Len(d)]
          BY <3>2, <3>4, <4>2
        <5>2. q[i - Len(d)] = Len(d) + (i - Len(d))
          BY <3>3, <5>1
        <5> QED
          BY <3>4, <5>1, <5>2
      <4> QED
        BY <3>2, <3>4, <4>1, <4>2
    <3>7. ASSUME NEW i \in 1..Len(q2)
          PROVE  q2[i] = Len(d2) + i
      <4>1. c + i \in 1..Len(q) /\ q2[i] = q[c + i]
        BY <3>2, <3>4
      <4>2. q[c + i] = Len(d) + (c + i)
        BY <3>3, <4>1
      <4> QED
        BY <3>2, <3>4, <4>1, <4>2
    <3> QED
      BY <3>5, <3>6, <3>7 DEF d, d2, q, q2
  <2> QED
    BY <1>0, <2>1, <2>2, <2>4, <2>5, ZenonT(40) DEF StreamIntegrity
<1>3. ASSUME \/ \E s \in Streams, op \in ReadOps, capacity \in Capacities : StartRead(s, op, capacity)
             \/ \E op \in ReadOps : CancelRead(op)
             \/ Close
             \/ UNCHANGED <<readQueue, readRunning, readReady, readData, readErr, reads, readers,
                            readSize, bytesRead, delivered, toldEOF>>
      PROVE  StreamIntegrity'
  BY <1>0, <1>3 DEF StreamIntegrity, StartRead, CancelRead, Close, history
<1> QED
  BY <1>1, <1>2, <1>3, ReadFrame

\* Every step keeps stored results meaningful, and an announced EOF true.
LEMMA ResultStep == Inv /\ [Next]_vars => ResultMeaningful' /\ EOFIsTrue'
<1> SUFFICES ASSUME Inv, [Next]_vars
             PROVE  ResultMeaningful' /\ EOFIsTrue'
  OBVIOUS
<1>0. TypeOK /\ HandlesConsistent /\ ReadsRegistered /\ StreamIntegrity /\ ResultMeaningful /\ EOFIsTrue
  BY DEF Inv
<1>1. ASSUME NEW s \in Streams, NEW n \in 0..MaxBytes, NEW err \in ReadErrors,
             runStreamRead(s, n, err)
      PROVE  ResultMeaningful' /\ EOFIsTrue'
  <2>1. /\ readData' = [readData EXCEPT ![s] = stored(s, n)]
        /\ bytesRead' = [bytesRead EXCEPT ![s] = @ + n]
        /\ readErr' = [readErr EXCEPT ![s] = err]
        /\ readReady' = [readReady EXCEPT ![s] = TRUE]
        /\ n = 0 => err # "nil"
        /\ err = "EOF" => bytesRead[s] + n = MaxBytes
        /\ toldEOF' = toldEOF /\ delivered' = delivered
    BY <1>1 DEF runStreamRead
  <2>2. n # 0 => stored(s, n) # <<>>
    <3>1. n # 0 => Len(stored(s, n)) # 0
      BY MaxBytesAssumption DEF stored
    <3> QED
      BY <3>1
  <2>3. /\ readData \in [Streams -> Seq(1..MaxBytes)]
        /\ bytesRead \in [Streams -> 0..MaxBytes]
        /\ readErr \in [Streams -> ReadErrors]
        /\ readReady \in [Streams -> BOOLEAN]
    BY <1>0 DEF TypeOK
  <2>4. ResultMeaningful'
    BY <1>0, <2>1, <2>2, <2>3 DEF ResultMeaningful
  <2> QED
    BY <1>0, <2>1, <2>4 DEF EOFIsTrue
<1>2. ASSUME NEW op \in ReadOps, TakeRead(op)
      PROVE  ResultMeaningful' /\ EOFIsTrue'
  <2>1. PICK s \in Streams :
          /\ s = reads[op].stream
          /\ takeCount(op) \in 0..Len(readData[s])
          /\ (readReady[s] /\ readData[s] # <<>>) => takeCount(op) > 0
          /\ ~readReady[s] => takeCount(op) = 0
          /\ readData' \in [Streams -> Seq(1..MaxBytes)]
          /\ Len(delivered'[s]) = Len(delivered[s]) + takeCount(op)
          /\ Len(readData'[s]) = Len(readData[s]) - takeCount(op)
          /\ \A x \in Streams \ {s} : delivered'[x] = delivered[x] /\ readData'[x] = readData[x]
    BY <1>0, <1>2, TakeReadEffect
  <2>2. /\ toldEOF' = [toldEOF EXCEPT
                         ![s] = @ \/ (takeCount(op) = 0 /\ takeErr(op) \in {"nil", "EOF"})]
        /\ readErr' = [readErr EXCEPT ![s] = IF takeAll(op) THEN "nil" ELSE @]
        /\ readReady' = [readReady EXCEPT ![s] = @ /\ ~takeAll(op)]
        /\ bytesRead' = bytesRead
    BY <1>2, <2>1 DEF TakeRead
  <2>3. takeAll(op) <=> readReady[s] /\ takeCount(op) = Len(readData[s])
    BY <2>1 DEF takeAll
  <2>4. /\ readData \in [Streams -> Seq(1..MaxBytes)]
        /\ delivered \in [Streams -> Seq(1..MaxBytes)]
        /\ bytesRead \in [Streams -> 0..MaxBytes]
        /\ readErr \in [Streams -> ReadErrors]
        /\ readReady \in [Streams -> BOOLEAN]
        /\ toldEOF \in [Streams -> BOOLEAN]
    BY <1>0 DEF TypeOK
  <2>5. ResultMeaningful'
    <3> SUFFICES ASSUME NEW x \in Streams, readReady'[x]
                 PROVE  /\ readErr'[x] = "EOF" => bytesRead'[x] = MaxBytes
                        /\ readErr'[x] = "nil" => readData'[x] # <<>>
      BY DEF ResultMeaningful
    <3>1. CASE x # s
      BY <1>0, <2>1, <2>2, <2>4, <3>1 DEF ResultMeaningful
    <3>2. CASE x = s
      <4>1. readReady[s] /\ ~takeAll(op) /\ readErr'[s] = readErr[s]
        BY <2>2, <2>4, <3>2
      <4>2. Len(readData[s]) \in Nat /\ Len(readData'[s]) > 0
        BY <2>1, <2>3, <2>4, <4>1, SMTT(30)
      <4>3. readData'[s] # <<>>
        BY <4>2
      <4> QED
        BY <1>0, <2>2, <3>2, <4>1, <4>3 DEF ResultMeaningful
    <3> QED
      BY <3>1, <3>2
  <2>6. EOFIsTrue'
    <3> SUFFICES ASSUME NEW x \in Streams, toldEOF'[x]
                 PROVE  Len(delivered'[x]) = MaxBytes
      BY DEF EOFIsTrue
    <3>1. CASE x # s
      BY <1>0, <2>1, <2>2, <2>4, <3>1 DEF EOFIsTrue
    <3>2. CASE x = s /\ toldEOF[s]
      <4>1. /\ Len(delivered[s]) = MaxBytes
            /\ Len(delivered[s]) + Len(readData[s]) = bytesRead[s]
            /\ bytesRead[s] \in 0..MaxBytes
            /\ Len(readData[s]) \in Nat
        BY <1>0, <2>4, <3>2 DEF EOFIsTrue, StreamIntegrity
      <4> QED
        BY <2>1, <3>2, <4>1, MaxBytesAssumption
    <3>3. CASE x = s /\ ~toldEOF[s]
      <4>1. takeCount(op) = 0 /\ takeErr(op) \in {"nil", "EOF"}
        BY <2>2, <2>4, <3>3
      <4>2. readReady[s]
        BY <2>1, <4>1 DEF takeErr
      <4>3. readData[s] = <<>>
        BY <2>1, <4>1, <4>2
      <4>4. takeAll(op)
        BY <2>3, <4>1, <4>2, <4>3
      <4>5. takeErr(op) = readErr[s]
        BY <2>1, <4>2, <4>4 DEF takeErr
      <4>6. readErr[s] = "EOF"
        BY <1>0, <4>1, <4>2, <4>3, <4>5 DEF ResultMeaningful
      <4>7. bytesRead[s] = MaxBytes
        BY <1>0, <4>2, <4>6 DEF ResultMeaningful
      <4>8. Len(delivered[s]) = MaxBytes
        <5>1. Len(readData[s]) = 0 /\ Len(delivered[s]) \in Nat
          BY <2>4, <4>3
        <5>2. Len(delivered[s]) + Len(readData[s]) = bytesRead[s]
          BY <1>0 DEF StreamIntegrity
        <5> QED
          BY <4>7, <5>1, <5>2
      <4> QED
        BY <2>1, <2>4, <3>3, <4>1, <4>8
    <3> QED
      BY <3>1, <3>2, <3>3
  <2> QED
    BY <2>5, <2>6
<1>3. ASSUME \/ \E s \in Streams, op \in ReadOps, capacity \in Capacities : StartRead(s, op, capacity)
             \/ \E op \in ReadOps : CancelRead(op)
             \/ Close
             \/ UNCHANGED <<readQueue, readRunning, readReady, readData, readErr, reads, readers,
                            readSize, bytesRead, delivered, toldEOF>>
      PROVE  ResultMeaningful' /\ EOFIsTrue'
  BY <1>0, <1>3 DEF ResultMeaningful, EOFIsTrue, StartRead, CancelRead, Close, history
<1> QED
  BY <1>1, <1>2, <1>3, ReadFrame

\* No step leaves a waiting reader without anybody working for it.
LEMMA NoStuckReadStep == Inv /\ [Next]_vars => NoStuckRead'
<1> SUFFICES ASSUME Inv, [Next]_vars
             PROVE  NoStuckRead'
  OBVIOUS
<1>0. TypeOK /\ HandlesConsistent /\ ReadsRegistered /\ NoStuckRead
  BY DEF Inv
<1>1. (closed => closed') /\ \A x \in Streams : streamClosed[x] => streamClosed'[x]
  <2>1. ASSUME NEW s \in Streams, CloseHandle(s)
        PROVE  closed' = closed /\ \A x \in Streams : streamClosed[x] => streamClosed'[x]
    BY <1>0, <2>1 DEF TypeOK, CloseHandle
  <2>2. ASSUME Close
        PROVE  closed' /\ \A x \in Streams : streamClosed[x] => streamClosed'[x]
    BY <2>2 DEF Close
  <2> QED
    BY <2>1, <2>2, HandlesFrame
<1>2. ASSUME NEW s \in Streams, NEW op \in ReadOps, NEW capacity \in Capacities,
             StartRead(s, op, capacity)
      PROVE  NoStuckRead'
  <2>1. /\ prepareStreamReadLocked(s) /\ readReady' = readReady
        /\ streamClosed' = streamClosed /\ closed' = closed
        /\ \A x \in Streams \ {s} : readQueue'[x] = readQueue[x]
    BY <1>0, <1>2 DEF TypeOK, StartRead, handles
  <2> QED
    BY <1>0, <2>1, PrepareEffect DEF NoStuckRead, mayRead
<1>3. ASSUME NEW s \in Streams, NEW n \in 0..MaxBytes, NEW err \in ReadErrors,
             runStreamRead(s, n, err)
      PROVE  NoStuckRead'
  BY <1>0, <1>3 DEF TypeOK, NoStuckRead, runStreamRead, handles
<1>4. ASSUME NEW op \in ReadOps, TakeRead(op)
      PROVE  NoStuckRead'
  <2>1. PICK s \in Streams :
          /\ s = reads[op].stream
          /\ \A x \in Streams \ {s} : readQueue'[x] = readQueue[x]
    BY <1>0, <1>4, TakeReadEffect
  <2>2. /\ prepareStreamReadLocked(s)
        /\ readReady' = [readReady EXCEPT ![s] = @ /\ ~takeAll(op)]
        /\ streamClosed' = streamClosed /\ closed' = closed
    BY <1>4, <2>1 DEF TakeRead, handles
  <2>3. \A x \in Streams \ {s} : readReady'[x] = readReady[x]
    BY <1>0, <2>2 DEF TypeOK
  <2> QED
    BY <1>0, <2>1, <2>2, <2>3, PrepareEffect DEF NoStuckRead, mayRead
<1>5. ASSUME NEW op \in ReadOps, CancelRead(op)
      PROVE  NoStuckRead'
  <2>1. PICK s \in Streams :
          /\ s = reads[op].stream
          /\ \A x \in Streams \ {s} : readQueue'[x] = readQueue[x]
    BY <1>0, <1>5, CancelReadEffect
  <2>2. /\ prepareStreamReadLocked(s) /\ readReady' = readReady
        /\ streamClosed' = streamClosed /\ closed' = closed
    BY <1>5, <2>1 DEF CancelRead, handles
  <2> QED
    BY <1>0, <2>1, <2>2, PrepareEffect DEF NoStuckRead, mayRead
<1>6. ASSUME \/ Close
             \/ UNCHANGED <<readQueue, readRunning, readReady, readData, readErr, reads, readers,
                            readSize, bytesRead, delivered, toldEOF>>
      PROVE  NoStuckRead'
  BY <1>0, <1>1, <1>6 DEF NoStuckRead, Close
<1> QED
  BY <1>2, <1>3, <1>4, <1>5, <1>6, ReadFrame

\* Every step keeps handles, connections and the closing latch consistent.
LEMMA HandlesStep == Inv /\ [Next]_vars => HandlesConsistent'
<1> SUFFICES ASSUME Inv, [Next]_vars
             PROVE  HandlesConsistent'
  OBVIOUS
<1>0. /\ TypeOK /\ HandlesConsistent /\ ReadsRegistered /\ SingleWriter
      /\ WritesRegistered /\ ActiveIsLive /\ QueuedAreLive
  BY DEF Inv
<1> USE OpsAssumption
<1>1. ASSUME NEW s \in Streams, NEW op \in ReadOps, NEW capacity \in Capacities,
             StartRead(s, op, capacity)
      PROVE  HandlesConsistent'
  BY <1>0, <1>1 DEF HandlesConsistent, StartRead, claimOperationLocked, handles, writeVars
<1>2. ASSUME NEW s \in Streams, NEW n \in 0..MaxBytes, NEW err \in ReadErrors,
             runStreamRead(s, n, err)
      PROVE  HandlesConsistent'
  BY <1>0, <1>2, SMTT(30) DEF TypeOK, HandlesConsistent, runStreamRead, handles, writeVars
<1>3. ASSUME NEW op \in ReadOps, TakeRead(op) \/ CancelRead(op)
      PROVE  HandlesConsistent'
  <2>1. ~closed
    BY <1>0, <1>3 DEF HandlesConsistent, TakeRead, TakeReadReady, CancelRead
  <2>2. UNCHANGED <<closed, closeDone, streams, streamClosed, conn, writeQueue>>
    BY <1>3, Zenon DEF TakeRead, CancelRead, handles, writeVars
  <2> QED
    BY <1>0, <2>1, <2>2 DEF HandlesConsistent
<1>4. ASSUME NEW s \in Streams, NEW op \in WriteOps, StartWrite(s, op)
      PROVE  HandlesConsistent'
  <2>1. ~closed /\ closed' = closed /\ closeDone' = closeDone /\ s \in streams
    BY <1>4 DEF StartWrite, claimOperationLocked
  <2>2. \A x \in Streams : streamClosed[x] => writeQueue'[x] = writeQueue[x]
    BY <1>0, <1>4, <2>1 DEF TypeOK, HandlesConsistent, StartWrite
  <2> QED
    BY <1>0, <1>4, <2>1, <2>2 DEF HandlesConsistent, StartWrite, handles
<1>5. ASSUME NEW s \in Streams, beginWrite(s)
      PROVE  HandlesConsistent'
  <2>1. \A x \in Streams : streamClosed[x] => writeQueue'[x] = writeQueue[x]
    BY <1>0, <1>5 DEF TypeOK, HandlesConsistent, beginWrite
  <2> QED
    BY <1>0, <1>5, <2>1 DEF HandlesConsistent, beginWrite, handles, coreVars, readVars
<1>6. ASSUME NEW s \in Streams, exitWrites(s)
      PROVE  HandlesConsistent'
  <2>1. closeDone => FALSE
    BY <1>0, <1>6 DEF HandlesConsistent, exitWrites
  <2>2. \A x \in Streams : streamClosed[x] => writeQueue'[x] = <<>>
    BY <1>0, <1>6 DEF TypeOK, HandlesConsistent, exitWrites
  <2> QED
    BY <1>0, <1>6, <2>1, <2>2 DEF HandlesConsistent, exitWrites, handles, coreVars, readVars
<1>7. ASSUME NEW s \in Streams, NEW err \in {"nil", "error"}, finishWrite(s, err)
      PROVE  HandlesConsistent'
  BY <1>0, <1>7 DEF HandlesConsistent, finishWrite, handles, readVars
<1>8. ASSUME NEW op \in WriteOps, TakeWrite(op)
      PROVE  HandlesConsistent'
  <2>1. ~closed
    BY <1>0, <1>8 DEF HandlesConsistent, TakeWrite, TakeWriteReady
  <2> QED
    BY <1>0, <1>8, <2>1 DEF HandlesConsistent, TakeWrite, handles, readVars
<1>9. ASSUME NEW op \in WriteOps, CancelWrite(op)
      PROVE  HandlesConsistent'
  <2>1. ~closed
    BY <1>0, <1>9 DEF HandlesConsistent, CancelWrite
  <2>2. \A x \in Streams : streamClosed[x] => writeQueue'[x] = <<>>
    <3> SUFFICES ASSUME NEW x \in Streams, streamClosed[x]
                 PROVE  writeQueue'[x] = <<>>
      OBVIOUS
    <3>1. writeQueue[x] = <<>> /\ removeOperation(writeQueue[x], writes[op]) = <<>>
      BY <1>0 DEF HandlesConsistent, removeOperation, Contains
    <3>2. \/ writeQueue' = writeQueue
          \/ writeQueue' = [writeQueue EXCEPT ![request[writes[op]].stream] = removeOperation(@, writes[op])]
      BY <1>9 DEF CancelWrite
    <3>3. CASE writeQueue' = writeQueue
      BY <3>1, <3>3
    <3>4. ASSUME NEW t, writeQueue' = [writeQueue EXCEPT ![t] = removeOperation(@, writes[op])]
          PROVE  writeQueue'[x] = <<>>
      <4>1. writeQueue' = [y \in Streams |-> IF y = t THEN removeOperation(writeQueue[t], writes[op])
                                             ELSE writeQueue[y]]
        BY <1>0, <3>4 DEF TypeOK
      <4> QED
        BY <3>1, <4>1
    <3> QED
      BY <3>2, <3>3, <3>4
  <2> QED
    BY <1>0, <1>9, <2>1, <2>2 DEF HandlesConsistent, CancelWrite, handles, readVars
<1>10. ASSUME NEW s \in Streams, CloseHandle(s)
      PROVE  HandlesConsistent'
  BY <1>0, <1>10 DEF TypeOK, HandlesConsistent, CloseHandle, readVars
<1>11. ASSUME NEW s \in Streams, CloseConnection(s)
      PROVE  HandlesConsistent'
  BY <1>0, <1>11 DEF TypeOK, HandlesConsistent, CloseConnection, coreVars, readVars, writeVars
<1>12. ASSUME Close
      PROVE  HandlesConsistent'
  BY <1>0, <1>12 DEF HandlesConsistent, Close, connAfterClose
<1>13. ASSUME CloseReturns
      PROVE  HandlesConsistent'
  BY <1>0, <1>13 DEF HandlesConsistent, CloseReturns, handles, readVars, writeVars
<1>14. ASSUME \/ \E op \in ReadOps : TakeReadPending(op)
              \/ \E op \in WriteOps : TakeWritePending(op)
              \/ signal \/ notify \/ UNCHANGED vars
      PROVE  HandlesConsistent'
  BY <1>0, <1>14 DEF HandlesConsistent, TakeReadPending, TakeWritePending, signal, signalCompletion,
     notify, NotifyGuest, vars, coreVars, handles, readVars, writeVars
<1> QED
  BY <1>1, <1>2, <1>3, <1>4, <1>5, <1>6, <1>7, <1>8, <1>9, <1>10, <1>11, <1>12, <1>13, <1>14
     DEF Next, readReturns, writeReturns, Terminated

\* A step that is none of StartRead, TakeRead, CancelRead and Close changes no
\* id that is claimed for a read, and claims none for a read.
LEMMA OtherOperations ==
  ASSUME TypeOK, [Next]_vars,
         ~\E s \in Streams, op \in ReadOps, capacity \in Capacities : StartRead(s, op, capacity),
         ~\E op \in ReadOps : TakeRead(op),
         ~\E op \in ReadOps : CancelRead(op),
         ~Close
  PROVE  \A op \in Ops : (operations'[op] = "read") <=> (operations[op] = "read")
<1>1. ASSUME NEW op \in WriteOps, TakeWrite(op) \/ CancelWrite(op) \/ \E s \in Streams : StartWrite(s, op)
      PROVE  \A x \in Ops : (operations'[x] = "read") <=> (operations[x] = "read")
  BY <1>1, OpsAssumption DEF TypeOK, CoreTypeOK, TakeWrite, TakeWriteReady, CancelWrite, StartWrite,
     claimOperationLocked, releaseOperationLocked
<1>2. \/ \E op \in WriteOps : TakeWrite(op) \/ CancelWrite(op) \/ \E s \in Streams : StartWrite(s, op)
      \/ operations' = operations
  BY DEF Next, vars, coreVars, readReturns, writeReturns,
     runStreamRead, TakeReadPending, beginWrite, exitWrites,
     finishWrite, TakeWritePending, CloseHandle, CloseConnection, CloseReturns,
     signal, signalCompletion, notify, NotifyGuest, Terminated
<1> QED
  BY <1>1, <1>2

\* Every step keeps the operation table, the waiters and the queues in agreement.
LEMMA ReadsRegisteredStep == Inv /\ [Next]_vars => ReadsRegistered'
<1> SUFFICES ASSUME Inv, [Next]_vars, ~closed'
             PROVE  ReadsRegistered'
  BY DEF ReadsRegistered
<1>0. TypeOK /\ HandlesConsistent /\ ReadsRegistered
  BY DEF Inv
<1>c. ~closed
  <2>1. \A s \in Streams : CloseHandle(s) => closed' = closed
    BY DEF CloseHandle
  <2> QED
    BY <2>1, HandlesFrame DEF Close
<1>R. /\ \A op \in Ops : (operations[op] = "read") <=> (reads[op] # Nil)
      /\ \A s \in Streams : \A i \in 1..Len(readQueue[s]) :
           /\ reads[readQueue[s][i]] # Nil
           /\ reads[readQueue[s][i]].stream = s
           /\ \A j \in 1..Len(readQueue[s]) : readQueue[s][i] = readQueue[s][j] => i = j
      /\ \A op \in Ops : reads[op] # Nil =>
           \E i \in 1..Len(readQueue[reads[op].stream]) : readQueue[reads[op].stream][i] = op
  BY <1>0, <1>c DEF ReadsRegistered
<1> USE OpsAssumption
<1>1. ASSUME NEW s \in Streams, NEW op \in ReadOps, NEW capacity \in Capacities,
             StartRead(s, op, capacity)
      PROVE  ReadsRegistered'
  <2>1. /\ op \in Ops /\ operations[op] = "none"
        /\ operations' = [operations EXCEPT ![op] = "read"]
        /\ reads' = [reads EXCEPT ![op] = [stream |-> s, capacity |-> capacity]]
        /\ readQueue' = [readQueue EXCEPT ![s] = Append(@, op)]
    BY <1>1 DEF StartRead, claimOperationLocked
  <2> DEFINE w == [stream |-> s, capacity |-> capacity]
  <2>2. w # Nil /\ w.stream = s
    BY NilWaiterAssumption DEF Waiters
  <2>3. /\ operations' \in [Ops -> OperationKind \cup {"none"}]
        /\ operations'[op] = "read" /\ reads'[op] = w
        /\ \A x \in Ops \ {op} : operations'[x] = operations[x] /\ reads'[x] = reads[x]
    BY <1>0, <2>1 DEF TypeOK, CoreTypeOK, OperationKind
  <2> HIDE DEF w
  <2>4. /\ readQueue[s] \in Seq(Ops)
        /\ readQueue'[s] = Append(readQueue[s], op)
        /\ \A x \in Streams \ {s} : readQueue'[x] = readQueue[x]
        /\ \A x \in Streams : readQueue[x] \in Seq(Ops)
    BY <1>0, <2>1 DEF TypeOK
  <2>5. /\ Len(readQueue'[s]) = Len(readQueue[s]) + 1
        /\ \A i \in 1..Len(readQueue[s]) : readQueue'[s][i] = readQueue[s][i]
        /\ readQueue'[s][Len(readQueue[s]) + 1] = op
        /\ Len(readQueue[s]) \in Nat
    BY <2>1, <2>4, AppendProperties
  <2>6. \A x \in Streams : \A i \in 1..Len(readQueue[x]) : readQueue[x][i] \in Ops /\ readQueue[x][i] # op
    BY <1>R, <2>1, <2>4
  <2>7. \A x \in Ops : (operations'[x] = "read") <=> (reads'[x] # Nil)
    BY <1>R, <2>2, <2>3
  <2>8. ASSUME NEW x \in Streams, NEW i \in 1..Len(readQueue'[x])
        PROVE  /\ reads'[readQueue'[x][i]] # Nil
               /\ reads'[readQueue'[x][i]].stream = x
               /\ \A j \in 1..Len(readQueue'[x]) : readQueue'[x][i] = readQueue'[x][j] => i = j
    <3>1. CASE x # s
      <4>1. readQueue'[x] = readQueue[x] /\ i \in 1..Len(readQueue[x])
        BY <2>4, <3>1
      <4>2. reads'[readQueue[x][i]] = reads[readQueue[x][i]]
        BY <2>3, <2>6, <4>1
      <4> QED
        BY <1>R, <4>1, <4>2
    <3>2. CASE x = s /\ i = Len(readQueue[s]) + 1
      <4>1. readQueue'[s][i] = op /\ reads'[op] # Nil /\ reads'[op].stream = s
        BY <2>2, <2>3, <2>5, <3>2
      <4>2. \A j \in 1..Len(readQueue'[s]) : readQueue'[s][j] = op => j = i
        BY <2>5, <2>6, <3>2
      <4> QED
        BY <3>2, <4>1, <4>2
    <3>3. CASE x = s /\ i \in 1..Len(readQueue[s])
      <4>1. readQueue'[s][i] = readQueue[s][i] /\ readQueue[s][i] \in Ops /\ readQueue[s][i] # op
        BY <2>5, <2>6, <3>3
      <4>2. /\ reads[readQueue[s][i]] # Nil
            /\ reads[readQueue[s][i]].stream = s
            /\ \A j \in 1..Len(readQueue[s]) : readQueue[s][i] = readQueue[s][j] => i = j
        BY <1>R, <3>3
      <4>3. \A j \in 1..Len(readQueue'[s]) : readQueue'[s][i] = readQueue'[s][j] => i = j
        BY <2>5, <4>1, <4>2
      <4> QED
        BY <2>3, <3>3, <4>1, <4>2, <4>3
    <3> QED
      BY <2>5, <3>1, <3>2, <3>3
  <2>9. ASSUME NEW x \in Ops, reads'[x] # Nil
        PROVE  \E i \in 1..Len(readQueue'[reads'[x].stream]) : readQueue'[reads'[x].stream][i] = x
    <3>1. CASE x = op
      BY <2>2, <2>3, <2>5, <3>1
    <3>2. CASE x # op
      <4>1. reads'[x] = reads[x] /\ reads[x].stream \in Streams
        BY <1>0, <2>3, <2>9, <3>2, WaiterType
      <4>2. PICK i \in 1..Len(readQueue[reads[x].stream]) : readQueue[reads[x].stream][i] = x
        BY <1>R, <2>9, <4>1
      <4> QED
        BY <2>4, <2>5, <4>1, <4>2, SMTT(30)
    <3> QED
      BY <3>1, <3>2
  <2> QED
    BY <2>7, <2>8, <2>9 DEF ReadsRegistered
<1>2. ASSUME NEW op \in ReadOps, TakeRead(op)
      PROVE  ReadsRegistered'
  <2>1. PICK s \in Streams :
          /\ s = reads[op].stream /\ op \in Ops /\ operations[op] = "read"
          /\ readQueue[s] # <<>>
          /\ readQueue[s][1] = op
          /\ Len(readQueue'[s]) = Len(readQueue[s]) - 1
          /\ \A i \in 1..Len(readQueue'[s]) : readQueue'[s][i] = readQueue[s][i + 1]
          /\ \A x \in Streams \ {s} : readQueue'[x] = readQueue[x]
    BY <1>0, <1>2, TakeReadEffect
  <2>2. /\ operations' = [operations EXCEPT ![op] = "none"]
        /\ reads' = [reads EXCEPT ![op] = Nil]
    BY <1>0, <1>2, <2>1 DEF TypeOK, CoreTypeOK, TakeRead, releaseOperationLocked
  <2>3. /\ operations'[op] = "none" /\ reads'[op] = Nil
        /\ \A x \in Ops \ {op} : operations'[x] = operations[x] /\ reads'[x] = reads[x]
    BY <1>0, <2>1, <2>2 DEF TypeOK, CoreTypeOK
  <2>4. \A x \in Streams : readQueue[x] \in Seq(Ops)
    BY <1>0 DEF TypeOK
  <2>5. Len(readQueue[s]) \in Nat \ {0}
    BY <2>1, <2>4
  <2>6. \A x \in Streams : \A i \in 1..Len(readQueue[x]) :
          /\ readQueue[x][i] \in Ops
          /\ readQueue[x][i] = op => x = s /\ i = 1
    BY <1>R, <2>1, <2>4, <2>5
  <2>7. \A x \in Ops : (operations'[x] = "read") <=> (reads'[x] # Nil)
    BY <1>R, <2>3
  <2>8. ASSUME NEW x \in Streams, NEW i \in 1..Len(readQueue'[x])
        PROVE  /\ reads'[readQueue'[x][i]] # Nil
               /\ reads'[readQueue'[x][i]].stream = x
               /\ \A j \in 1..Len(readQueue'[x]) : readQueue'[x][i] = readQueue'[x][j] => i = j
    <3>1. CASE x # s
      BY <1>R, <2>1, <2>3, <2>6, <3>1, SMTT(30)
    <3>2. CASE x = s
      <4>1. i + 1 \in 1..Len(readQueue[s]) /\ i + 1 # 1 /\ readQueue'[s][i] = readQueue[s][i + 1]
        BY <2>1, <2>5, <3>2
      <4>2. \A j \in 1..Len(readQueue'[s]) :
              j + 1 \in 1..Len(readQueue[s]) /\ readQueue'[s][j] = readQueue[s][j + 1]
        BY <2>1, <2>5
      <4>3. \A j \in 1..Len(readQueue'[s]) : readQueue[s][i + 1] = readQueue[s][j + 1] => i + 1 = j + 1
        BY <1>R, <4>1, <4>2
      <4>4. reads'[readQueue[s][i + 1]] = reads[readQueue[s][i + 1]]
        BY <2>3, <2>6, <4>1
      <4>5. reads[readQueue[s][i + 1]] # Nil /\ reads[readQueue[s][i + 1]].stream = s
        BY <1>R, <4>1
      <4>6. \A j \in 1..Len(readQueue'[s]) : readQueue'[s][i] = readQueue'[s][j] => i = j
        BY <2>5, <3>2, <4>1, <4>2, <4>3
      <4> QED
        BY <3>2, <4>1, <4>4, <4>5, <4>6
    <3> QED
      BY <3>1, <3>2
  <2>9. ASSUME NEW x \in Ops, reads'[x] # Nil
        PROVE  \E i \in 1..Len(readQueue'[reads'[x].stream]) : readQueue'[reads'[x].stream][i] = x
    <3>1. x # op /\ reads'[x] = reads[x] /\ reads[x].stream \in Streams
      BY <1>0, <2>3, <2>9, WaiterType
    <3>2. PICK i \in 1..Len(readQueue[reads[x].stream]) : readQueue[reads[x].stream][i] = x
      BY <1>R, <2>9, <3>1
    <3>3. CASE reads[x].stream = s
      <4>1. i # 1 /\ i - 1 \in 1..Len(readQueue'[s])
        BY <2>1, <2>5, <3>1, <3>2, <3>3
      <4>2. readQueue'[s][i - 1] = x
        BY <2>1, <3>2, <3>3, <4>1
      <4> QED
        BY <3>1, <3>3, <4>1, <4>2
    <3>4. CASE reads[x].stream # s
      BY <2>1, <3>1, <3>2, <3>4
    <3> QED
      BY <3>3, <3>4
  <2> QED
    BY <2>7, <2>8, <2>9 DEF ReadsRegistered
<1>3. ASSUME NEW op \in ReadOps, CancelRead(op)
      PROVE  ReadsRegistered'
  <2>1. PICK s \in Streams :
          /\ s = reads[op].stream /\ op \in Ops /\ operations[op] = "read"
          /\ Len(readQueue'[s]) = Len(readQueue[s]) - 1
          /\ \A x \in Streams \ {s} : readQueue'[x] = readQueue[x]
          /\ \E k \in 1..Len(readQueue[s]) :
               /\ readQueue[s][k] = op
               /\ \A j \in 1..Len(readQueue'[s]) :
                    readQueue'[s][j] = IF j < k THEN readQueue[s][j] ELSE readQueue[s][j + 1]
    BY <1>0, <1>3, CancelReadEffect
  <2>2. PICK k \in 1..Len(readQueue[s]) :
          /\ readQueue[s][k] = op
          /\ \A j \in 1..Len(readQueue'[s]) :
               readQueue'[s][j] = IF j < k THEN readQueue[s][j] ELSE readQueue[s][j + 1]
    BY <2>1
  <2>3. /\ operations'[op] = "none" /\ reads'[op] = Nil
        /\ \A x \in Ops \ {op} : operations'[x] = operations[x] /\ reads'[x] = reads[x]
    BY <1>0, <1>3, <2>1 DEF TypeOK, CoreTypeOK, CancelRead
  <2>4. \A x \in Streams : readQueue[x] \in Seq(Ops)
    BY <1>0 DEF TypeOK
  <2>5. Len(readQueue[s]) \in Nat
    BY <2>4
  <2>6. \A x \in Streams : \A i \in 1..Len(readQueue[x]) :
          /\ readQueue[x][i] \in Ops
          /\ readQueue[x][i] = op => x = s /\ i = k
    <3> SUFFICES ASSUME NEW x \in Streams, NEW i \in 1..Len(readQueue[x])
                 PROVE  readQueue[x][i] \in Ops /\ (readQueue[x][i] = op => x = s /\ i = k)
      OBVIOUS
    <3>1. readQueue[x][i] \in Ops
      BY <2>4
    <3>2. reads[readQueue[x][i]].stream = x
      BY <1>R
    <3>3. readQueue[s][k] = readQueue[x][i] /\ x = s => i = k
      BY <1>R, <2>2
    <3> QED
      BY <2>1, <2>2, <3>1, <3>2, <3>3
  <2>7. \A x \in Ops : (operations'[x] = "read") <=> (reads'[x] # Nil)
    BY <1>R, <2>3
  <2> DEFINE old(j) == IF j < k THEN j ELSE j + 1
  <2>8. \A j \in 1..Len(readQueue'[s]) :
          /\ old(j) \in 1..Len(readQueue[s]) /\ old(j) # k
          /\ readQueue'[s][j] = readQueue[s][old(j)]
    BY <2>1, <2>2, <2>5
  <2>9. ASSUME NEW x \in Streams, NEW i \in 1..Len(readQueue'[x])
        PROVE  /\ reads'[readQueue'[x][i]] # Nil
               /\ reads'[readQueue'[x][i]].stream = x
               /\ \A j \in 1..Len(readQueue'[x]) : readQueue'[x][i] = readQueue'[x][j] => i = j
    <3>1. CASE x # s
      BY <1>R, <2>1, <2>3, <2>6, <3>1
    <3>2. CASE x = s
      <4>1. \A j \in 1..Len(readQueue'[s]) : readQueue[s][old(i)] = readQueue[s][old(j)] => old(i) = old(j)
        BY <1>R, <2>8, <3>2
      <4>2. \A j \in 1..Len(readQueue'[s]) : old(i) = old(j) => i = j
        BY <2>1, <2>2, <2>5, <3>2
      <4>3. reads'[readQueue[s][old(i)]] = reads[readQueue[s][old(i)]]
        BY <2>3, <2>6, <2>8, <3>2
      <4>4. reads[readQueue[s][old(i)]] # Nil /\ reads[readQueue[s][old(i)]].stream = s
        BY <1>R, <2>8, <3>2
      <4> HIDE DEF old
      <4> QED
        BY <2>8, <3>2, <4>1, <4>2, <4>3, <4>4
    <3> QED
      BY <3>1, <3>2
  <2>10. ASSUME NEW x \in Ops, reads'[x] # Nil
         PROVE  \E i \in 1..Len(readQueue'[reads'[x].stream]) : readQueue'[reads'[x].stream][i] = x
    <3>1. x # op /\ reads'[x] = reads[x] /\ reads[x].stream \in Streams
      BY <1>0, <2>3, <2>10, WaiterType
    <3>2. PICK i \in 1..Len(readQueue[reads[x].stream]) : readQueue[reads[x].stream][i] = x
      BY <1>R, <2>10, <3>1
    <3>3. CASE reads[x].stream = s
      <4>1. i # k
        BY <2>2, <3>1, <3>2, <3>3
      <4>2. CASE i < k
        <5>1. i \in 1..Len(readQueue'[s]) /\ readQueue'[s][i] = x
          BY <2>1, <2>2, <2>5, <3>2, <3>3, <4>2
        <5> QED
          BY <3>1, <3>3, <5>1
      <4>3. CASE i > k
        <5>1. i - 1 \in 1..Len(readQueue'[s]) /\ ~(i - 1 < k) /\ (i - 1) + 1 = i
          BY <2>1, <2>2, <2>5, <3>2, <3>3, <4>3
        <5>2. readQueue'[s][i - 1] = x
          BY <2>2, <3>2, <3>3, <5>1
        <5> QED
          BY <3>1, <3>3, <5>1, <5>2
      <4> QED
        BY <2>5, <3>2, <3>3, <4>1, <4>2, <4>3
    <3>4. CASE reads[x].stream # s
      BY <2>1, <3>1, <3>2, <3>4
    <3> QED
      BY <3>3, <3>4
  <2> QED
    BY <2>7, <2>9, <2>10 DEF ReadsRegistered
<1>4. ASSUME ~\E s \in Streams, op \in ReadOps, capacity \in Capacities : StartRead(s, op, capacity),
             ~\E op \in ReadOps : TakeRead(op),
             ~\E op \in ReadOps : CancelRead(op),
             ~Close
      PROVE  ReadsRegistered'
  <2>1. readQueue' = readQueue /\ reads' = reads
    BY <1>4, ReadFrame DEF runStreamRead
  <2>2. \A op \in Ops : (operations'[op] = "read") <=> (operations[op] = "read")
    BY <1>0, <1>4, OtherOperations
  <2> QED
    BY <1>R, <2>1, <2>2 DEF ReadsRegistered
<1>5. CASE Close
  BY <1>5 DEF Close
<1> QED
  BY <1>1, <1>2, <1>3, <1>4, <1>5

-----------------------------------------------------------------------------
(* The write side.                                                         *)

\* Only eight kinds of steps change what the write side consists of.
LEMMA WriteFrame ==
  ASSUME [Next]_vars
  PROVE  \/ \E s \in Streams, op \in WriteOps : StartWrite(s, op)
         \/ \E s \in Streams : beginWrite(s)
         \/ \E s \in Streams : exitWrites(s)
         \/ \E s \in Streams, err \in {"nil", "error"} : finishWrite(s, err)
         \/ \E op \in WriteOps : TakeWrite(op)
         \/ \E op \in WriteOps : CancelWrite(op)
         \/ \E s \in Streams : CloseHandle(s)
         \/ Close
         \/ UNCHANGED <<writeQueue, writeRunning, writeActive, writes, request, writers, accepted>>
<1> DEFINE Frame == UNCHANGED <<writeQueue, writeRunning, writeActive, writes, request, writers,
                                accepted>>
<1>1. ASSUME NEW s \in Streams, NEW op \in ReadOps, NEW capacity \in Capacities,
             StartRead(s, op, capacity)
      PROVE  Frame
  BY <1>1 DEF StartRead, writeVars
<1>2. ASSUME NEW s \in Streams, readReturns(s)
      PROVE  Frame
  BY <1>2, SMTT(30) DEF readReturns, runStreamRead, writeVars
<1>3. ASSUME NEW op \in ReadOps, TakeRead(op) \/ TakeReadPending(op) \/ CancelRead(op)
      PROVE  Frame
  BY <1>3 DEF TakeRead, TakeReadPending, CancelRead, writeVars
<1>4. ASSUME NEW s \in Streams, writeReturns(s)
      PROVE  \E err \in {"nil", "error"} : finishWrite(s, err)
  BY <1>4 DEF writeReturns
<1>5. ASSUME NEW op \in WriteOps, TakeWritePending(op)
      PROVE  Frame
  BY <1>5 DEF TakeWritePending, writeVars
<1>6. ASSUME NEW s \in Streams, CloseConnection(s)
      PROVE  Frame
  BY <1>6 DEF CloseConnection, writeVars
<1>7. ASSUME CloseReturns \/ signal \/ notify \/ Terminated \/ UNCHANGED vars
      PROVE  Frame
  BY <1>7 DEF CloseReturns, signal, notify, Terminated, vars, writeVars
<1> HIDE DEF Frame
<1>8. \/ \E s \in Streams, op \in WriteOps : StartWrite(s, op)
      \/ \E s \in Streams : beginWrite(s)
      \/ \E s \in Streams : exitWrites(s)
      \/ \E s \in Streams, err \in {"nil", "error"} : finishWrite(s, err)
      \/ \E op \in WriteOps : TakeWrite(op)
      \/ \E op \in WriteOps : CancelWrite(op)
      \/ \E s \in Streams : CloseHandle(s)
      \/ Close
      \/ Frame
  BY <1>1, <1>2, <1>3, <1>4, <1>5, <1>6, <1>7, Zenon DEF Next
<1> QED
  BY <1>8 DEF Frame

\* Queue t is queue q without r, which stood in it once or not at all.
Without(q, t, r) ==
  /\ t \in Seq(Requests)
  /\ (\A i \in 1..Len(q) : q[i] # r) => t = q
  /\ \A k \in 1..Len(q) : q[k] = r =>
       /\ Len(t) = Len(q) - 1
       /\ \A j \in 1..Len(t) : t[j] = IF j < k THEN q[j] ELSE q[j + 1]

\* The request being written is left alone ...
Forgotten(r, s) == writeActive[s] = r /\ writeQueue' = writeQueue /\ request' = request

\* ... any other one leaves its queue and becomes garbage.
Withdrawn(r, s) ==
  /\ writeActive[s] # r
  /\ request'[r] = Nil
  /\ \A x \in Requests \ {r} : request'[x] = request[x]
  /\ \A x \in Streams \ {s} : writeQueue'[x] = writeQueue[x]
  /\ Without(writeQueue[s], writeQueue'[s], r)

CancelsWrite(op, r, s) ==
  /\ op \in Ops /\ ~closed
  /\ r = writes[op] /\ r[1] = op /\ request[r] # Nil /\ s = request[r].stream
  /\ writes'[op] = Nil
  /\ \A x \in Ops \ {op} : writes'[x] = writes[x]
  /\ accepted' = accepted \ {r}
  /\ Forgotten(r, s) \/ Withdrawn(r, s)

\* What CancelWrite does.
LEMMA CancelWriteEffect ==
  ASSUME TypeOK, HandlesConsistent, SingleWriter, WritesRegistered, NEW op \in WriteOps, CancelWrite(op)
  PROVE  \E r \in Requests, s \in Streams : CancelsWrite(op, r, s)
<1> DEFINE r == writes[op]
           s == request[r].stream
           q == writeQueue[s]
<1>1. op \in Ops /\ operations[op] = "write" /\ ~closed
  BY OpsAssumption DEF CancelWrite, HandlesConsistent
<1>2. r \in Requests /\ r[1] = op /\ request[r] # Nil /\ s \in Streams
  BY <1>1, RequestType DEF TypeOK, WritesRegistered
<1>3. /\ writes'[op] = Nil
      /\ \A x \in Ops \ {op} : writes'[x] = writes[x]
      /\ accepted' = accepted \ {r}
  BY <1>1 DEF TypeOK, CancelWrite
<1>4. q \in Seq(Requests) /\ \A i, j \in 1..Len(q) : q[i] = q[j] => i = j
  BY <1>2 DEF TypeOK, SingleWriter
<1>5. \/ writeActive[s] = r /\ writeQueue' = writeQueue /\ request' = request
      \/ /\ writeActive[s] # r
         /\ writeQueue' = [writeQueue EXCEPT ![s] = removeOperation(q, r)]
         /\ request' = [request EXCEPT ![r] = Nil]
  BY DEF CancelWrite
<1> HIDE DEF q, r, s
<1>6. /\ removeOperation(q, r) \in Seq(Requests)
      /\ (\A i \in 1..Len(q) : q[i] # r) => removeOperation(q, r) = q
      /\ \A k \in 1..Len(q) : q[k] = r =>
           /\ Len(removeOperation(q, r)) = Len(q) - 1
           /\ \A j \in 1..(Len(q) - 1) :
                removeOperation(q, r)[j] = IF j < k THEN q[j] ELSE q[j + 1]
  BY <1>2, <1>4, RemoveOperationLemma
<1>7. r = writes[op] /\ s = request[r].stream /\ q = writeQueue[s]
  BY DEF q, r, s
<1>8. ASSUME writeActive[s] # r,
             writeQueue' = [writeQueue EXCEPT ![s] = removeOperation(q, r)],
             request' = [request EXCEPT ![r] = Nil]
      PROVE  Withdrawn(r, s)
  <2>1. /\ request'[r] = Nil
        /\ \A x \in Requests \ {r} : request'[x] = request[x]
    BY <1>2, <1>8 DEF TypeOK
  <2>2. /\ \A x \in Streams \ {s} : writeQueue'[x] = writeQueue[x]
        /\ writeQueue'[s] = removeOperation(q, r)
    BY <1>2, <1>8 DEF TypeOK
  <2>3. Without(q, removeOperation(q, r), r)
    BY <1>6 DEF Without
  <2> QED
    BY <1>7, <1>8, <2>1, <2>2, <2>3 DEF Withdrawn
<1>9. Forgotten(r, s) \/ Withdrawn(r, s)
  BY <1>5, <1>8 DEF Forgotten
<1>10. CancelsWrite(op, r, s)
  BY <1>1, <1>2, <1>3, <1>7, <1>9 DEF CancelsWrite
<1> QED
  BY <1>2, <1>10

\* Every step keeps one goroutine writing, and each request in one place.
LEMMA SingleWriterStep == Inv /\ [Next]_vars => SingleWriter'
<1> SUFFICES ASSUME Inv, [Next]_vars
             PROVE  SingleWriter'
  OBVIOUS
<1>0. /\ TypeOK /\ HandlesConsistent /\ SingleWriter
      /\ WritesRegistered /\ ActiveIsLive /\ QueuedAreLive
  BY DEF Inv
<1>T. /\ writeQueue \in [Streams -> Seq(Requests)]
      /\ writeRunning \in [Streams -> BOOLEAN]
      /\ writeActive \in [Streams -> Requests \cup {Nil}]
      /\ writers \in [Streams -> Nat]
  BY <1>0 DEF TypeOK
<1>1. ASSUME NEW s \in Streams, NEW op \in WriteOps, StartWrite(s, op)
      PROVE  SingleWriter'
  <2> DEFINE r == newRequest(op)
  <2>1. r \in Requests /\ request[r] = Nil
    BY <1>1, NewRequestLemma DEF StartWrite
  <2>2. /\ writeQueue' = [writeQueue EXCEPT ![s] = Append(@, r)]
        /\ writers' = [writers EXCEPT ![s] = IF writeRunning[s] THEN @ ELSE @ + 1]
        /\ writeRunning' = [writeRunning EXCEPT ![s] = TRUE]
        /\ writeActive' = writeActive
    BY <1>1 DEF StartWrite
  <2> HIDE DEF r
  <2>3. r # writeActive[s] /\ \A i \in 1..Len(writeQueue[s]) : writeQueue[s][i] # r
    BY <1>0, <2>1, NilAssumption DEF ActiveIsLive, QueuedAreLive
  <2>4. /\ Len(writeQueue'[s]) = Len(writeQueue[s]) + 1
        /\ Len(writeQueue[s]) \in Nat
        /\ \A i \in 1..Len(writeQueue[s]) : writeQueue'[s][i] = writeQueue[s][i]
        /\ writeQueue'[s][Len(writeQueue[s]) + 1] = r
    <3>1. writeQueue'[s] = Append(writeQueue[s], r) /\ writeQueue[s] \in Seq(Requests)
      BY <1>T, <2>2
    <3> QED
      BY <2>1, <3>1, AppendProperties
  <2>5. ASSUME NEW i \in 1..Len(writeQueue'[s])
        PROVE  /\ writeQueue'[s][i] # writeActive[s]
               /\ \A j \in 1..Len(writeQueue'[s]) : writeQueue'[s][i] = writeQueue'[s][j] => i = j
    <3>1. \A k \in 1..Len(writeQueue[s]) :
            /\ writeQueue[s][k] # writeActive[s]
            /\ \A j \in 1..Len(writeQueue[s]) : writeQueue[s][k] = writeQueue[s][j] => k = j
      BY <1>0 DEF SingleWriter
    <3>2. CASE i = Len(writeQueue[s]) + 1
      BY <2>3, <2>4, <3>2
    <3>3. CASE i \in 1..Len(writeQueue[s])
      BY <2>3, <2>4, <3>1, <3>3
    <3> QED
      BY <2>4, <3>2, <3>3
  <2>6. writers'[s] = 1 /\ writeRunning'[s]
    BY <1>0, <1>T, <2>2 DEF SingleWriter
  <2>7. \A x \in Streams \ {s} :
          writeQueue'[x] = writeQueue[x] /\ writers'[x] = writers[x] /\ writeRunning'[x] = writeRunning[x]
    BY <1>T, <2>2
  <2> QED
    BY <1>0, <2>2, <2>5, <2>6, <2>7 DEF SingleWriter
<1>2. ASSUME NEW s \in Streams, beginWrite(s)
      PROVE  SingleWriter'
  <2>1. /\ writeQueue[s] # <<>>
        /\ writeActive' = [writeActive EXCEPT ![s] = Head(writeQueue[s])]
        /\ writeQueue' = [writeQueue EXCEPT ![s] = Tail(@)]
        /\ writeRunning' = writeRunning /\ writers' = writers
    BY <1>2 DEF beginWrite
  <2>2. /\ Len(writeQueue[s]) \in Nat \ {0}
        /\ Len(writeQueue'[s]) = Len(writeQueue[s]) - 1
        /\ \A i \in 1..Len(writeQueue'[s]) : writeQueue'[s][i] = writeQueue[s][i + 1]
        /\ writeActive'[s] = writeQueue[s][1]
    <3>1. writeQueue'[s] = Tail(writeQueue[s]) /\ writeQueue[s] \in Seq(Requests)
      BY <1>T, <2>1
    <3> QED
      BY <1>T, <2>1, <3>1, HeadTailProperties
  <2>3. \A i, j \in 1..Len(writeQueue[s]) : writeQueue[s][i] = writeQueue[s][j] => i = j
    BY <1>0 DEF SingleWriter
  <2>4. ASSUME NEW i \in 1..Len(writeQueue'[s])
        PROVE  /\ writeQueue'[s][i] # writeActive'[s]
               /\ \A j \in 1..Len(writeQueue'[s]) : writeQueue'[s][i] = writeQueue'[s][j] => i = j
    <3>1. i + 1 \in 1..Len(writeQueue[s]) /\ 1 \in 1..Len(writeQueue[s]) /\ i + 1 # 1
      BY <2>2
    <3>2. \A j \in 1..Len(writeQueue'[s]) : j + 1 \in 1..Len(writeQueue[s])
      BY <2>2
    <3>3. \A j \in 1..Len(writeQueue'[s]) : writeQueue[s][i + 1] = writeQueue[s][j + 1] => i + 1 = j + 1
      BY <2>3, <3>1, <3>2
    <3> QED
      BY <2>2, <2>3, <3>1, <3>2, <3>3
  <2>5. \A x \in Streams \ {s} : writeQueue'[x] = writeQueue[x] /\ writeActive'[x] = writeActive[x]
    BY <1>T, <2>1
  <2>6. writeRunning[s]
    BY <1>0, <2>1 DEF SingleWriter
  <2> QED
    BY <1>0, <2>1, <2>4, <2>5, <2>6 DEF SingleWriter
<1>3. ASSUME NEW s \in Streams, exitWrites(s)
      PROVE  SingleWriter'
  <2>1. /\ writers[s] > 0
        /\ writeActive[s] = Nil /\ writeActive' = writeActive
        /\ writeQueue' = [writeQueue EXCEPT ![s] = <<>>]
        /\ writeRunning' = [writeRunning EXCEPT ![s] = FALSE]
        /\ writers' = [writers EXCEPT ![s] = @ - 1]
    BY <1>3 DEF exitWrites
  <2>2. /\ writeQueue'[s] = <<>> /\ Len(writeQueue'[s]) = 0 /\ writeRunning'[s] = FALSE /\ writers'[s] = 0
        /\ \A x \in Streams \ {s} :
             /\ writeQueue'[x] = writeQueue[x]
             /\ writers'[x] = writers[x]
             /\ writeRunning'[x] = writeRunning[x]
    BY <1>0, <1>T, <2>1 DEF SingleWriter
  <2> QED
    BY <1>0, <2>1, <2>2 DEF SingleWriter
<1>4. ASSUME NEW s \in Streams, NEW err \in {"nil", "error"}, finishWrite(s, err)
      PROVE  SingleWriter'
  <2>1. /\ writeActive' = [writeActive EXCEPT ![s] = Nil]
        /\ writeQueue' = writeQueue /\ writeRunning' = writeRunning /\ writers' = writers
    BY <1>4 DEF finishWrite
  <2>2. writeActive'[s] = Nil /\ \A x \in Streams \ {s} : writeActive'[x] = writeActive[x]
    BY <1>T, <2>1
  <2>3. \A i \in 1..Len(writeQueue[s]) : writeQueue[s][i] # Nil
    BY <1>T, NilAssumption
  <2> QED
    BY <1>0, <2>1, <2>2, <2>3 DEF SingleWriter
<1>5. ASSUME NEW op \in WriteOps, TakeWrite(op)
      PROVE  SingleWriter'
  BY <1>0, <1>5 DEF SingleWriter, TakeWrite
<1>6. ASSUME NEW op \in WriteOps, CancelWrite(op)
      PROVE  SingleWriter'
  <2>1. PICK r \in Requests, s \in Streams : CancelsWrite(op, r, s)
    BY <1>0, <1>6, CancelWriteEffect
  <2>2. writeActive' = writeActive /\ writeRunning' = writeRunning /\ writers' = writers
    BY <1>6 DEF CancelWrite
  <2>3. CASE writeQueue' = writeQueue
    BY <1>0, <2>2, <2>3 DEF SingleWriter
  <2>4. CASE Withdrawn(r, s)
    <3>1. \A x \in Streams \ {s} : writeQueue'[x] = writeQueue[x]
      BY <2>4 DEF Withdrawn
    <3>2. \A i \in 1..Len(writeQueue[s]) :
            /\ writeQueue[s][i] # writeActive[s]
            /\ \A j \in 1..Len(writeQueue[s]) : writeQueue[s][i] = writeQueue[s][j] => i = j
      BY <1>0 DEF SingleWriter
    <3>3. /\ \A i \in 1..Len(writeQueue'[s]) :
               /\ writeQueue'[s][i] # writeActive[s]
               /\ \A j \in 1..Len(writeQueue'[s]) : writeQueue'[s][i] = writeQueue'[s][j] => i = j
          /\ writeQueue'[s] # <<>> => writeQueue[s] # <<>>
      <4>1. CASE writeQueue'[s] = writeQueue[s]
        BY <3>2, <4>1
      <4>2. ASSUME NEW k \in 1..Len(writeQueue[s]), writeQueue[s][k] = r
            PROVE  <3>3!:
        <5>1. writeQueue[s] \in Seq(Requests)
          BY <1>T
        <5>2. Len(writeQueue[s]) \in Nat /\ writeQueue[s] # <<>>
          BY <4>2, <5>1
        <5>3. /\ Len(writeQueue'[s]) = Len(writeQueue[s]) - 1
              /\ \A j \in 1..Len(writeQueue'[s]) :
                   writeQueue'[s][j] = IF j < k THEN writeQueue[s][j] ELSE writeQueue[s][j + 1]
          BY <2>4, <4>2 DEF Withdrawn, Without
        <5> DEFINE old(j) == IF j < k THEN j ELSE j + 1
        <5>4. \A j \in 1..Len(writeQueue'[s]) :
                old(j) \in 1..Len(writeQueue[s]) /\ writeQueue'[s][j] = writeQueue[s][old(j)]
          BY <5>2, <5>3
        <5>5. \A i, j \in 1..Len(writeQueue'[s]) : old(i) = old(j) => i = j
          BY <5>2, <5>3
        <5> HIDE DEF old
        <5> QED
          BY <3>2, <5>2, <5>4, <5>5, SMTT(60)
      <4> QED
        BY <2>4, <4>1, <4>2 DEF Withdrawn, Without
    <3> QED
      BY <1>0, <2>2, <3>1, <3>3 DEF SingleWriter
  <2> QED
    BY <2>1, <2>3, <2>4 DEF CancelsWrite, Forgotten
<1>7. ASSUME NEW s \in Streams, CloseHandle(s)
      PROVE  SingleWriter'
  <2>1. /\ writeQueue' = [writeQueue EXCEPT ![s] = <<>>]
        /\ writeActive' = writeActive /\ writeRunning' = writeRunning /\ writers' = writers
    BY <1>7 DEF CloseHandle
  <2>2. writeQueue'[s] = <<>> /\ Len(writeQueue'[s]) = 0 /\ \A x \in Streams \ {s} : writeQueue'[x] = writeQueue[x]
    BY <1>T, <2>1
  <2> QED
    BY <1>0, <2>1, <2>2 DEF SingleWriter
<1>8. ASSUME Close
      PROVE  SingleWriter'
  <2>1. /\ writeQueue' = [s \in Streams |-> IF s \in streams THEN <<>> ELSE writeQueue[s]]
        /\ writeActive' = writeActive /\ writeRunning' = writeRunning /\ writers' = writers
    BY <1>8 DEF Close
  <2>2. \A x \in Streams : writeQueue'[x] = writeQueue[x] \/ (writeQueue'[x] = <<>> /\ Len(writeQueue'[x]) = 0)
    BY <2>1
  <2> QED
    BY <1>0, <2>1, <2>2 DEF SingleWriter
<1>9. ASSUME UNCHANGED <<writeQueue, writeRunning, writeActive, writes, request, writers, accepted>>
      PROVE  SingleWriter'
  BY <1>0, <1>9 DEF SingleWriter
<1> QED
  BY <1>1, <1>2, <1>3, <1>4, <1>5, <1>6, <1>7, <1>8, <1>9, WriteFrame

-----------------------------------------------------------------------------
(* Which requests are queued, without their positions.                     *)

Queued(q, r) == \E i \in 1..Len(q) : q[i] = r

\* StartWrite queues one more request.
LEMMA QueuedAppend ==
  ASSUME NEW S, NEW q \in Seq(S), NEW e \in S, NEW y
  PROVE  Queued(Append(q, e), y) <=> (Queued(q, y) \/ y = e)
<1>1. /\ Len(q) \in Nat
      /\ Len(Append(q, e)) = Len(q) + 1
      /\ \A i \in 1..Len(q) : Append(q, e)[i] = q[i]
      /\ Append(q, e)[Len(q) + 1] = e
  BY AppendProperties
<1>2. ASSUME Queued(Append(q, e), y)
      PROVE  Queued(q, y) \/ y = e
  <2>1. PICK i \in 1..Len(Append(q, e)) : Append(q, e)[i] = y
    BY <1>2 DEF Queued
  <2>2. i \in 1..Len(q) \/ i = Len(q) + 1
    BY <1>1
  <2> QED
    BY <1>1, <2>1, <2>2 DEF Queued
<1>3. ASSUME Queued(q, y) \/ y = e
      PROVE  Queued(Append(q, e), y)
  <2>1. CASE y = e
    <3>1. Len(q) + 1 \in 1..Len(Append(q, e))
      BY <1>1
    <3> QED
      BY <1>1, <2>1, <3>1 DEF Queued
  <2>2. CASE Queued(q, y)
    <3>1. PICK i \in 1..Len(q) : q[i] = y
      BY <2>2 DEF Queued
    <3>2. i \in 1..Len(Append(q, e)) /\ Append(q, e)[i] = y
      BY <1>1, <3>1
    <3> QED
      BY <3>2 DEF Queued
  <2> QED
    BY <1>3, <2>1, <2>2
<1> QED
  BY <1>2, <1>3

\* Beginning a write takes its request off the queue.
LEMMA QueuedTail ==
  ASSUME NEW S, NEW q \in Seq(S), q # <<>>, NEW y,
         \A i, j \in 1..Len(q) : q[i] = q[j] => i = j
  PROVE  /\ Queued(Tail(q), y) <=> (Queued(q, y) /\ y # Head(q))
         /\ Queued(q, Head(q))
<1>1. /\ Len(q) \in Nat \ {0}
      /\ Len(Tail(q)) = Len(q) - 1
      /\ \A i \in 1..(Len(q) - 1) : Tail(q)[i] = q[i + 1]
      /\ Head(q) = q[1]
  BY HeadTailProperties
<1>2. ASSUME Queued(Tail(q), y)
      PROVE  Queued(q, y) /\ y # Head(q)
  <2>1. PICK i \in 1..Len(Tail(q)) : Tail(q)[i] = y
    BY <1>2 DEF Queued
  <2>2. i + 1 \in 1..Len(q) /\ q[i + 1] = y /\ 1 \in 1..Len(q) /\ i + 1 # 1
    BY <1>1, <2>1
  <2> QED
    BY <1>1, <2>2 DEF Queued
<1>3. ASSUME Queued(q, y), y # Head(q)
      PROVE  Queued(Tail(q), y)
  <2>1. PICK i \in 1..Len(q) : q[i] = y
    BY <1>3 DEF Queued
  <2>2. i - 1 \in 1..Len(Tail(q)) /\ i - 1 \in 1..(Len(q) - 1) /\ (i - 1) + 1 = i
    BY <1>1, <1>3, <2>1
  <2>3. Tail(q)[i - 1] = y
    BY <1>1, <2>1, <2>2
  <2> QED
    BY <2>2, <2>3 DEF Queued
<1>4. 1 \in 1..Len(q)
  BY <1>1
<1> QED
  BY <1>1, <1>2, <1>3, <1>4 DEF Queued

\* Withdrawing a request removes it and no other.
LEMMA QueuedWithout ==
  ASSUME NEW q \in Seq(Requests), NEW t, NEW r, NEW y, Without(q, t, r),
         \A i, j \in 1..Len(q) : q[i] = q[j] => i = j
  PROVE  Queued(t, y) <=> (Queued(q, y) /\ y # r)
<1>1. CASE \A i \in 1..Len(q) : q[i] # r
  <2>1. t = q
    BY <1>1 DEF Without
  <2> QED
    BY <1>1, <2>1 DEF Queued
<1>2. ASSUME NEW k \in 1..Len(q), q[k] = r
      PROVE  Queued(t, y) <=> (Queued(q, y) /\ y # r)
  <2>1. /\ Len(q) \in Nat
        /\ Len(t) = Len(q) - 1
        /\ \A j \in 1..Len(t) : t[j] = IF j < k THEN q[j] ELSE q[j + 1]
    BY <1>2 DEF Without
  <2>2. ASSUME Queued(t, y)
        PROVE  Queued(q, y) /\ y # r
    <3>1. PICK j \in 1..Len(t) : t[j] = y
      BY <2>2 DEF Queued
    <3>2. \E i \in 1..Len(q) : i # k /\ q[i] = y
      <4>1. CASE j < k
        BY <2>1, <3>1, <4>1
      <4>2. CASE ~(j < k)
        <5>1. j + 1 \in 1..Len(q) /\ j + 1 # k /\ q[j + 1] = y
          BY <2>1, <3>1, <4>2
        <5> QED
          BY <5>1
      <4> QED
        BY <4>1, <4>2
    <3> QED
      BY <1>2, <3>2 DEF Queued
  <2>3. ASSUME Queued(q, y), y # r
        PROVE  Queued(t, y)
    <3>1. PICK i \in 1..Len(q) : q[i] = y
      BY <2>3 DEF Queued
    <3>2. CASE i < k
      <4>1. i \in 1..Len(t) /\ t[i] = y
        BY <2>1, <3>1, <3>2
      <4> QED
        BY <4>1 DEF Queued
    <3>3. CASE i > k
      <4>1. i - 1 \in 1..Len(t) /\ ~(i - 1 < k) /\ (i - 1) + 1 = i
        BY <2>1, <3>3
      <4>2. t[i - 1] = y
        BY <2>1, <3>1, <4>1
      <4> QED
        BY <4>1, <4>2 DEF Queued
    <3> QED
      BY <1>2, <2>1, <2>3, <3>1, <3>2, <3>3
  <2> QED
    BY <2>2, <2>3
<1> QED
  BY <1>1, <1>2

\* The request y is on stream x and unfinished.
LiveOn(x, y) == request[y] # Nil /\ request[y].stream = x /\ ~request[y].done

\* QueuedAreLive and RequestsHeld, position-free.
QueuedLive ==
  \A x \in Streams, y \in Requests :
    Queued(writeQueue[x], y) => LiveOn(x, y) /\ writes[y[1]] = y

Held ==
  \A y \in Requests : request[y] # Nil =>
    /\ request[y].done => writes[y[1]] = y
    /\ (request[y].done /\ request[y].err = "nil") => y \in accepted
    /\ \/ request[y].done
       \/ writeActive[request[y].stream] = y
       \/ Queued(writeQueue[request[y].stream], y)

RequestsInv == WritesRegistered /\ ActiveIsLive /\ QueuedLive /\ Held

\* The position-free form follows from the invariant ...
LEMMA PositionFree ==
  ASSUME Inv
  PROVE  /\ RequestsInv
         /\ \A x \in Streams : ~Queued(writeQueue[x], writeActive[x])
<1>1. WritesRegistered /\ ActiveIsLive /\ Held
  BY DEF Inv, RequestsHeld, Held, Queued
<1>2. QueuedLive
  BY DEF Inv, QueuedAreLive, QueuedLive, Queued, LiveOn
<1>3. \A x \in Streams : ~Queued(writeQueue[x], writeActive[x])
  BY DEF Inv, SingleWriter, Queued
<1> QED
  BY <1>1, <1>2, <1>3 DEF RequestsInv

\* ... and after a step it gives the invariant back.
LEMMA WithPositions ==
  ASSUME TypeOK', RequestsInv'
  PROVE  WritesRegistered' /\ ActiveIsLive' /\ QueuedAreLive' /\ RequestsHeld'
<1>1. WritesRegistered' /\ ActiveIsLive' /\ RequestsHeld'
  BY DEF RequestsInv, RequestsHeld, Held, Queued
<1>2. ASSUME NEW x \in Streams, NEW i \in 1..Len(writeQueue'[x])
      PROVE  /\ request'[writeQueue'[x][i]] # Nil
             /\ request'[writeQueue'[x][i]].stream = x
             /\ ~request'[writeQueue'[x][i]].done
             /\ writes'[writeQueue'[x][i][1]] = writeQueue'[x][i]
  <2>1. writeQueue'[x][i] \in Requests /\ Queued(writeQueue'[x], writeQueue'[x][i])
    BY DEF TypeOK, Queued
  <2> QED
    BY <2>1 DEF RequestsInv, QueuedLive, LiveOn
<1> QED
  BY <1>1, <1>2 DEF QueuedAreLive

\* Only these steps change which ids are claimed for writes.
LEMMA OtherWrites ==
  ASSUME TypeOK, [Next]_vars,
         ~\E s \in Streams, op \in WriteOps : StartWrite(s, op),
         ~\E op \in WriteOps : TakeWrite(op),
         ~\E op \in WriteOps : CancelWrite(op),
         ~Close
  PROVE  \A op \in Ops : (operations'[op] = "write") <=> (operations[op] = "write")
<1>1. ASSUME NEW s \in Streams, NEW op \in ReadOps, NEW capacity \in Capacities,
             StartRead(s, op, capacity)
      PROVE  \A x \in Ops : (operations'[x] = "write") <=> (operations[x] = "write")
  BY <1>1, OpsAssumption DEF TypeOK, CoreTypeOK, StartRead, claimOperationLocked
<1>2. ASSUME NEW op \in ReadOps, TakeRead(op) \/ CancelRead(op)
      PROVE  \A x \in Ops : (operations'[x] = "write") <=> (operations[x] = "write")
  BY <1>2, OpsAssumption
     DEF TypeOK, CoreTypeOK, TakeRead, TakeReadReady, CancelRead, releaseOperationLocked
<1>3. CASE UNCHANGED operations
  BY <1>3
<1> QED
  BY <1>1, <1>2, <1>3
     DEF Next, vars, coreVars, readReturns, writeReturns, runStreamRead, TakeReadPending,
         beginWrite, exitWrites, finishWrite, TakeWritePending, CloseHandle, CloseConnection,
         CloseReturns, signal, signalCompletion, notify, NotifyGuest, Terminated

\* Every step keeps each request registered, queued or being written as it was
\* left, and finished only with its own result.
LEMMA RequestsStep == Inv /\ [Next]_vars => RequestsInv'
<1> SUFFICES ASSUME Inv, [Next]_vars
             PROVE  RequestsInv'
  OBVIOUS
<1>0. TypeOK /\ HandlesConsistent /\ SingleWriter /\ WritesRegistered /\ ActiveIsLive
  BY DEF Inv
<1>W. \A op \in Ops :
        /\ (operations[op] = "write") <=> (writes[op] # Nil)
        /\ writes[op] # Nil => writes[op][1] = op /\ request[writes[op]] # Nil
  BY <1>0 DEF WritesRegistered
<1>A. \A x \in Streams : writeActive[x] # Nil => LiveOn(x, writeActive[x])
  BY <1>0 DEF ActiveIsLive, LiveOn
<1>Q. QueuedLive /\ Held /\ \A x \in Streams : ~Queued(writeQueue[x], writeActive[x])
  BY PositionFree DEF RequestsInv
<1>D. \A x \in Streams : \A i, j \in 1..Len(writeQueue[x]) : writeQueue[x][i] = writeQueue[x][j] => i = j
  BY <1>0 DEF SingleWriter
<1>T. /\ operations \in [Ops -> OperationKind \cup {"none"}]
      /\ writeQueue \in [Streams -> Seq(Requests)]
      /\ writeActive \in [Streams -> Requests \cup {Nil}]
      /\ writes \in [Ops -> Requests \cup {Nil}]
      /\ request \in [Requests -> WriteOperations \cup {Nil}]
      /\ \A y \in Requests : y[1] \in WriteOps /\ y[1] \in Ops /\ y # Nil
  BY <1>0, OpsAssumption, NilAssumption DEF TypeOK, CoreTypeOK, Requests
<1>1. ASSUME NEW s \in Streams, NEW op \in WriteOps, StartWrite(s, op)
      PROVE  RequestsInv'
  <2> DEFINE r == newRequest(op)
             w == [stream |-> s, done |-> FALSE, err |-> "nil"]
  <2>1. r \in Requests /\ r[1] = op /\ request[r] = Nil /\ op \in Ops
    BY <1>1, <1>T, NewRequestLemma, OpsAssumption DEF StartWrite
  <2>2. /\ operations[op] = "none"
        /\ operations' = [operations EXCEPT ![op] = "write"]
        /\ request' = [request EXCEPT ![r] = w]
        /\ writes' = [writes EXCEPT ![op] = r]
        /\ writeQueue' = [writeQueue EXCEPT ![s] = Append(writeQueue[s], r)]
        /\ writeActive' = writeActive /\ accepted' = accepted
    BY <1>1 DEF StartWrite, claimOperationLocked
  <2>3. w # Nil /\ w.stream = s /\ w.done = FALSE
    <3>1. r \in Requests /\ request'[r] \in WriteOperations \cup {Nil} /\ w \in WriteOperations
      BY <1>1, <2>1, TypeStep DEF TypeOK, WriteOperations, WriteErrors
    <3> QED
      BY <3>1, NilOperationAssumption
  <2> HIDE DEF r, w
  <2>4. /\ request'[r] = w /\ \A y \in Requests \ {r} : request'[y] = request[y]
        /\ writes'[op] = r /\ \A x \in Ops \ {op} : writes'[x] = writes[x]
        /\ writes[op] = Nil
    BY <1>T, <1>W, <2>1, <2>2
  <2>5. \A x \in Streams, y \in Requests :
          Queued(writeQueue'[x], y) <=> (Queued(writeQueue[x], y) \/ (x = s /\ y = r))
    <3>1. \A y : Queued(writeQueue'[s], y) <=> (Queued(writeQueue[s], y) \/ y = r)
      <4>1. writeQueue[s] \in Seq(Requests) /\ writeQueue'[s] = Append(writeQueue[s], r)
        BY <1>T, <2>2
      <4> QED
        BY <2>1, <4>1, QueuedAppend
    <3> QED
      BY <1>T, <2>2, <3>1
  <2>6. WritesRegistered'
    BY <1>T, <1>W, <2>1, <2>2, <2>3, <2>4 DEF WritesRegistered
  <2>7. ActiveIsLive'
    BY <1>A, <1>T, <2>1, <2>2, <2>4 DEF ActiveIsLive, LiveOn
  <2>8. QueuedLive'
    BY <1>Q, <1>T, <2>1, <2>3, <2>4, <2>5 DEF QueuedLive, LiveOn
  <2>9. Held'
    BY <1>Q, <1>T, <2>1, <2>2, <2>3, <2>4, <2>5, RequestType, <1>0 DEF Held
  <2> QED
    BY <2>6, <2>7, <2>8, <2>9 DEF RequestsInv
<1>2. ASSUME NEW s \in Streams, beginWrite(s)
      PROVE  RequestsInv'
  <2> DEFINE r == Head(writeQueue[s])
  <2>1. /\ writeQueue[s] # <<>> /\ writeActive[s] = Nil
        /\ operations' = operations /\ writes' = writes /\ request' = request /\ accepted' = accepted
        /\ writeActive' = [writeActive EXCEPT ![s] = r]
        /\ writeQueue' = [writeQueue EXCEPT ![s] = Tail(writeQueue[s])]
    BY <1>2 DEF beginWrite, coreVars
  <2> HIDE DEF r
  <2>2. /\ \A y : Queued(writeQueue'[s], y) <=> (Queued(writeQueue[s], y) /\ y # r)
        /\ Queued(writeQueue[s], r)
    <3>1. writeQueue[s] \in Seq(Requests) /\ writeQueue'[s] = Tail(writeQueue[s])
      BY <1>T, <2>1
    <3> QED
      BY <1>D, <2>1, <3>1, QueuedTail DEF r
  <2>3. /\ \A x \in Streams \ {s} : writeQueue'[x] = writeQueue[x] /\ writeActive'[x] = writeActive[x]
        /\ writeActive'[s] = r /\ r \in Requests
    BY <1>T, <2>1 DEF r
  <2>4. WritesRegistered'
    BY <1>W, <2>1 DEF WritesRegistered
  <2>5. ActiveIsLive'
    BY <1>A, <1>Q, <2>1, <2>2, <2>3 DEF ActiveIsLive, QueuedLive, LiveOn
  <2>6. QueuedLive'
    BY <1>Q, <2>1, <2>2, <2>3 DEF QueuedLive, LiveOn
  <2>7. ASSUME NEW y \in Requests, request[y] # Nil
        PROVE  \/ request[y].done
               \/ writeActive'[request[y].stream] = y
               \/ Queued(writeQueue'[request[y].stream], y)
    <3>1. request[y].stream \in Streams
      BY <1>0, <2>7, RequestType
    <3>2. \/ request[y].done
          \/ writeActive[request[y].stream] = y
          \/ Queued(writeQueue[request[y].stream], y)
      BY <1>Q, <2>7 DEF Held
    <3>3. CASE request[y].stream = s
      BY <1>T, <2>1, <2>2, <2>3, <3>2, <3>3
    <3>4. CASE request[y].stream # s
      BY <2>3, <3>1, <3>2, <3>4
    <3> QED
      BY <3>3, <3>4
  <2>8. Held'
    BY <1>Q, <2>1, <2>7 DEF Held
  <2> QED
    BY <2>4, <2>5, <2>6, <2>8 DEF RequestsInv
<1>3. ASSUME NEW s \in Streams, exitWrites(s)
      PROVE  RequestsInv'
  <2>1. writeQueue[s] = <<>>
    BY <1>0, <1>3 DEF HandlesConsistent, exitWrites
  <2>2. /\ operations' = operations /\ writes' = writes /\ request' = request /\ accepted' = accepted
        /\ writeActive' = writeActive /\ \A x \in Streams : writeQueue'[x] = writeQueue[x]
    BY <1>3, <1>T, <2>1 DEF exitWrites, coreVars
  <2>3. WritesRegistered' /\ ActiveIsLive' /\ QueuedLive'
    BY <1>0, <1>Q, <2>2 DEF WritesRegistered, ActiveIsLive, QueuedLive, LiveOn
  <2>4. Held'
    BY <1>0, <1>Q, <2>2, RequestType DEF Held
  <2> QED
    BY <2>3, <2>4 DEF RequestsInv
<1>5. ASSUME NEW op \in WriteOps, TakeWrite(op)
      PROVE  RequestsInv'
  <2> DEFINE r == writes[op]
  <2>1. /\ op \in Ops /\ operations[op] = "write" /\ r # Nil /\ request[r].done
        /\ operations' = [operations EXCEPT ![op] = "none"]
        /\ writes' = [writes EXCEPT ![op] = Nil]
        /\ request' = [request EXCEPT ![r] = Nil]
        /\ accepted' = accepted \ {r}
        /\ writeQueue' = writeQueue /\ writeActive' = writeActive
    BY <1>5, <1>T, OpsAssumption DEF TakeWrite, TakeWriteReady, releaseOperationLocked
  <2>2. r \in Requests /\ r[1] = op
    BY <1>T, <1>W, <2>1
  <2>3. /\ request'[r] = Nil /\ \A y \in Requests \ {r} : request'[y] = request[y]
        /\ writes'[op] = Nil /\ \A x \in Ops \ {op} : writes'[x] = writes[x]
    BY <1>T, <2>1, <2>2
  <2>4. \A x \in Streams : writeActive[x] # r /\ ~Queued(writeQueue[x], r)
    BY <1>A, <1>Q, <2>1, <2>2 DEF LiveOn, QueuedLive
  <2>5. r = writes[op]
    OBVIOUS
  <2> HIDE DEF r
  <2>6. WritesRegistered'
    BY <1>T, <1>W, <2>1, <2>2, <2>3 DEF WritesRegistered
  <2>7. ActiveIsLive'
    BY <1>A, <1>T, <2>1, <2>3, <2>4 DEF ActiveIsLive, LiveOn
  <2>8. QueuedLive'
    BY <1>Q, <1>T, <2>1, <2>2, <2>3, <2>4, <2>5 DEF QueuedLive, LiveOn
  <2>9. Held'
    BY <1>Q, <1>T, <2>1, <2>2, <2>3, <2>5 DEF Held
  <2> QED
    BY <2>6, <2>7, <2>8, <2>9 DEF RequestsInv
<1>6. ASSUME NEW op \in WriteOps, CancelWrite(op)
      PROVE  RequestsInv'
  <2>1. PICK r \in Requests, s \in Streams : CancelsWrite(op, r, s)
    BY <1>0, <1>6, CancelWriteEffect
  <2>2. /\ op \in Ops /\ r = writes[op] /\ r[1] = op /\ request[r] # Nil /\ s = request[r].stream
        /\ writes'[op] = Nil /\ \A x \in Ops \ {op} : writes'[x] = writes[x]
        /\ accepted' = accepted \ {r}
    BY <2>1 DEF CancelsWrite
  <2>3. writeActive' = writeActive /\ operations' = [operations EXCEPT ![op] = "none"]
    BY <1>6 DEF CancelWrite
  <2>4. CASE Forgotten(r, s)
    <3>1. writeActive[s] = r /\ writeQueue' = writeQueue /\ request' = request
      BY <2>4 DEF Forgotten
    <3>2. \A x \in Streams : ~Queued(writeQueue[x], r)
      BY <1>Q, <2>2, <3>1 DEF QueuedLive, LiveOn
    <3>3. WritesRegistered'
      BY <1>T, <1>W, <2>2, <2>3, <3>1 DEF WritesRegistered
    <3>4. ActiveIsLive'
      BY <1>0, <2>3, <3>1 DEF ActiveIsLive
    <3>5. QueuedLive'
      BY <1>Q, <1>T, <2>2, <3>1, <3>2 DEF QueuedLive, LiveOn
    <3>6. ~request[r].done
      BY <1>A, <1>T, <3>1 DEF LiveOn
    <3>7. Held'
      BY <1>Q, <1>T, <2>2, <2>3, <3>1, <3>6 DEF Held
    <3> QED
      BY <3>3, <3>4, <3>5, <3>7 DEF RequestsInv
  <2>5. CASE Withdrawn(r, s)
    <3>1. /\ writeActive[s] # r /\ request'[r] = Nil
          /\ \A x \in Requests \ {r} : request'[x] = request[x]
          /\ \A x \in Streams \ {s} : writeQueue'[x] = writeQueue[x]
      BY <2>5 DEF Withdrawn
    <3>2. \A y : Queued(writeQueue'[s], y) <=> (Queued(writeQueue[s], y) /\ y # r)
      <4>1. writeQueue[s] \in Seq(Requests) /\ Without(writeQueue[s], writeQueue'[s], r)
        BY <1>T, <2>5 DEF Withdrawn
      <4> QED
        BY <1>D, <4>1, QueuedWithout
    <3>3. \A x \in Streams : writeActive[x] # r /\ ~Queued(writeQueue'[x], r)
      BY <1>A, <1>Q, <1>T, <2>2, <3>1, <3>2 DEF LiveOn, QueuedLive
    <3>4. \A x \in Streams, y \in Requests \ {r} : Queued(writeQueue'[x], y) <=> Queued(writeQueue[x], y)
      BY <3>1, <3>2
    <3>5. WritesRegistered'
      BY <1>T, <1>W, <2>2, <2>3, <3>1 DEF WritesRegistered
    <3>6. ActiveIsLive'
      BY <1>A, <1>T, <2>3, <3>1, <3>3 DEF ActiveIsLive, LiveOn
    <3>7. QueuedLive'
      BY <1>Q, <1>T, <2>2, <3>1, <3>3, <3>4 DEF QueuedLive, LiveOn
    <3>8. Held'
      BY <1>0, <1>Q, <1>T, <2>2, <2>3, <3>1, <3>4, RequestType DEF Held
    <3> QED
      BY <3>5, <3>6, <3>7, <3>8 DEF RequestsInv
  <2> QED
    BY <2>1, <2>4, <2>5 DEF CancelsWrite
<1>7. ASSUME NEW s \in Streams, CloseHandle(s)
      PROVE  RequestsInv'
  <2>1. /\ writeQueue' = [writeQueue EXCEPT ![s] = <<>>]
        /\ operations' = operations /\ writes' = writes
        /\ accepted' = accepted /\ writeActive' = writeActive
        /\ request' = [r \in Requests |->
                         IF r \in unbegun(s)
                         THEN [request[r] EXCEPT !.done = TRUE, !.err = "ErrClosed"]
                         ELSE request[r]]
    BY <1>7 DEF CloseHandle
  <2>2. \A x \in Streams \ {s} : writeQueue'[x] = writeQueue[x]
    BY <1>T, <2>1
  <2>3. \A y : ~Queued(writeQueue'[s], y)
    <3>1. Len(writeQueue'[s]) = 0
      BY <1>T, <2>1
    <3> QED
      BY <3>1 DEF Queued
  <2>4. \A y \in Requests : y \in unbegun(s) <=> Queued(writeQueue[s], y)
    <3>1. writeQueue[s] \in Seq(Requests)
      BY <1>T
    <3>2. \A y : y \in ToSet(writeQueue[s]) <=> Queued(writeQueue[s], y)
      BY <3>1 DEF ToSet, Queued
    <3> QED
      BY <1>Q, <3>2 DEF unbegun, QueuedLive
  <2>5. ASSUME NEW y \in Requests, Queued(writeQueue[s], y)
        PROVE  /\ request'[y] # Nil /\ request'[y].done
               /\ request'[y].err = "ErrClosed" /\ request'[y].stream = s
               /\ request[y] # Nil /\ writes[y[1]] = y
    <3>1. request[y] # Nil /\ request[y].stream = s /\ writes[y[1]] = y
      BY <1>Q, <2>5 DEF QueuedLive, LiveOn
    <3>2. request[y] \in WriteOperations
      BY <1>0, <3>1, RequestType
    <3>3. request'[y] = [request[y] EXCEPT !.done = TRUE, !.err = "ErrClosed"]
      BY <2>1, <2>4, <2>5
    <3>4. request'[y] \in WriteOperations /\ request'[y].done
          /\ request'[y].err = "ErrClosed" /\ request'[y].stream = request[y].stream
      BY <3>2, <3>3 DEF WriteOperations, WriteErrors
    <3> QED
      BY <3>1, <3>4, NilOperationAssumption
  <2>6. \A y \in Requests : ~Queued(writeQueue[s], y) => request'[y] = request[y]
    BY <2>1, <2>4
  <2>7. WritesRegistered'
    <3>1. \A y \in Requests : request[y] # Nil => request'[y] # Nil
      BY <2>5, <2>6
    <3>2. \A op \in Ops : writes[op] # Nil => writes[op] \in Requests
      BY <1>T
    <3>3. \A op \in Ops : writes[op] # Nil => request'[writes[op]] # Nil
      BY <1>W, <3>1, <3>2
    <3> QED
      BY <1>W, <2>1, <3>3 DEF WritesRegistered
  <2>8. ActiveIsLive'
    <3> SUFFICES ASSUME NEW x \in Streams, writeActive[x] # Nil
                 PROVE  LiveOn(x, writeActive[x])'
      BY <2>1 DEF ActiveIsLive, LiveOn
    <3>1. LiveOn(x, writeActive[x]) /\ writeActive[x] \in Requests
      BY <1>A, <1>T
    <3>2. ~Queued(writeQueue[s], writeActive[x])
      <4>1. CASE x = s
        BY <1>Q, <4>1
      <4>2. CASE x # s
        BY <1>Q, <3>1, <4>2 DEF QueuedLive, LiveOn
      <4> QED
        BY <4>1, <4>2
    <3> QED
      BY <2>1, <2>6, <3>1, <3>2 DEF LiveOn
  <2>9. QueuedLive'
    <3> SUFFICES ASSUME NEW x \in Streams, NEW y \in Requests, Queued(writeQueue'[x], y)
                 PROVE  LiveOn(x, y)' /\ writes[y[1]] = y
      BY <2>1 DEF QueuedLive
    <3>1. x # s /\ Queued(writeQueue[x], y)
      BY <2>2, <2>3
    <3>2. LiveOn(x, y) /\ writes[y[1]] = y
      BY <1>Q, <3>1 DEF QueuedLive
    <3>3. ~Queued(writeQueue[s], y)
      BY <1>Q, <3>1, <3>2 DEF QueuedLive, LiveOn
    <3> QED
      BY <2>6, <3>2, <3>3 DEF LiveOn
  <2>10. Held'
    <3> SUFFICES ASSUME NEW y \in Requests, request'[y] # Nil
                 PROVE  /\ request'[y].done => writes[y[1]] = y
                        /\ (request'[y].done /\ request'[y].err = "nil") => y \in accepted
                        /\ \/ request'[y].done
                           \/ writeActive[request'[y].stream] = y
                           \/ Queued(writeQueue'[request'[y].stream], y)
      BY <2>1 DEF Held
    <3>1. CASE Queued(writeQueue[s], y)
      BY <2>5, <3>1
    <3>2. CASE ~Queued(writeQueue[s], y)
      <4>1. request'[y] = request[y] /\ request[y] # Nil
        BY <2>6, <3>2
      <4>2. request[y].stream \in Streams
        BY <1>0, <4>1, RequestType
      <4>3. /\ request[y].done => writes[y[1]] = y
            /\ (request[y].done /\ request[y].err = "nil") => y \in accepted
            /\ \/ request[y].done
               \/ writeActive[request[y].stream] = y
               \/ Queued(writeQueue[request[y].stream], y)
        BY <1>Q, <4>1 DEF Held
      <4>4. Queued(writeQueue[request[y].stream], y) => Queued(writeQueue'[request[y].stream], y)
        BY <2>2, <3>2, <4>2
      <4> QED
        BY <4>1, <4>3, <4>4
    <3> QED
      BY <3>1, <3>2
  <2> QED
    BY <2>7, <2>8, <2>9, <2>10 DEF RequestsInv
<1>8. ASSUME Close
      PROVE  RequestsInv'
  <2>1. /\ operations' = [op \in Ops |-> "none"] /\ writes' = [op \in Ops |-> Nil]
        /\ writeActive' = writeActive
        /\ writeQueue' = [s \in Streams |-> IF s \in streams THEN <<>> ELSE writeQueue[s]]
        /\ request' = [r \in Requests |-> IF \E s \in Streams : writeActive[s] = r
                                          THEN request[r] ELSE Nil]
    BY <1>8 DEF Close
  <2>2. \A x \in Streams : writeQueue'[x] = <<>>
    BY <1>0, <2>1 DEF HandlesConsistent
  <2>3. \A x \in Streams : \A y : ~Queued(writeQueue'[x], y)
    BY <2>2 DEF Queued
  <2>4. WritesRegistered'
    BY <2>1 DEF WritesRegistered
  <2>5. ActiveIsLive'
    BY <1>A, <1>T, <2>1 DEF ActiveIsLive, LiveOn
  <2>6. QueuedLive'
    BY <2>3 DEF QueuedLive
  <2>7. \A y \in Requests : request'[y] # Nil =>
          ~request'[y].done /\ writeActive[request'[y].stream] = y
    BY <1>A, <1>T, <2>1 DEF LiveOn
  <2>8. Held'
    BY <2>1, <2>7 DEF Held
  <2> QED
    BY <2>4, <2>5, <2>6, <2>8 DEF RequestsInv
<1>4. ASSUME NEW s \in Streams, NEW err \in {"nil", "error"}, finishWrite(s, err)
      PROVE  RequestsInv'
  <2> DEFINE r == writeActive[s]
             ready == writes[r[1]] = r /\ operations[r[1]] = "write"
             w == IF ready THEN [request[r] EXCEPT !.done = TRUE, !.err = err] ELSE Nil
  <2>1. /\ r # Nil
        /\ request' = [request EXCEPT ![r] = w]
        /\ accepted' = IF ready /\ err = "nil" THEN accepted \cup {r} ELSE accepted
        /\ writeActive' = [writeActive EXCEPT ![s] = Nil]
        /\ operations' = operations /\ writes' = writes /\ writeQueue' = writeQueue
    BY <1>4 DEF finishWrite
  <2>2. r \in Requests /\ LiveOn(s, r) /\ request[r] \in WriteOperations /\ r[1] \in Ops
    <3>1. r \in Requests /\ LiveOn(s, r)
      BY <1>A, <1>T, <2>1
    <3> QED
      BY <1>0, <3>1, RequestType DEF LiveOn
  <2>3. \A x \in Streams : x # s => writeActive[x] # r
    BY <1>A, <1>T, <2>1, <2>2 DEF LiveOn
  <2>4. \A x \in Streams : ~Queued(writeQueue[x], r)
    BY <1>Q, <2>2 DEF QueuedLive, LiveOn
  <2>5. ready <=> writes[r[1]] = r
    BY <1>W, <2>1, <2>2
  <2>6. ready => w # Nil /\ w.done /\ w.stream = s /\ w.err = err
    <3>1. ready => w \in WriteOperations /\ w.done /\ w.stream = request[r].stream /\ w.err = err
      BY <2>2 DEF WriteOperations, WriteErrors
    <3> QED
      BY <2>2, <3>1, NilOperationAssumption DEF LiveOn
  <2>7. ~ready => w = Nil
    OBVIOUS
  <2>8. \A op \in Ops : writes[op] = r => ready
    BY <1>W, <2>1, <2>5
  <2> HIDE DEF r, w, ready
  <2>9. /\ request'[r] = w /\ \A y \in Requests \ {r} : request'[y] = request[y]
        /\ writeActive'[s] = Nil /\ \A x \in Streams \ {s} : writeActive'[x] = writeActive[x]
    BY <1>T, <2>1, <2>2
  <2>10. WritesRegistered'
    BY <1>T, <1>W, <2>1, <2>6, <2>8, <2>9 DEF WritesRegistered
  <2>11. ActiveIsLive'
    BY <1>A, <1>T, <2>3, <2>9 DEF ActiveIsLive, LiveOn
  <2>12. QueuedLive'
    BY <1>Q, <2>1, <2>4, <2>9 DEF QueuedLive, LiveOn
  <2>13. Held'
    <3> SUFFICES ASSUME NEW y \in Requests, request'[y] # Nil
                 PROVE  /\ request'[y].done => writes[y[1]] = y
                        /\ (request'[y].done /\ request'[y].err = "nil") => y \in accepted'
                        /\ \/ request'[y].done
                           \/ writeActive'[request'[y].stream] = y
                           \/ Queued(writeQueue[request'[y].stream], y)
      BY <2>1 DEF Held
    <3>1. CASE y = r
      BY <2>1, <2>5, <2>6, <2>7, <2>9, <3>1
    <3>2. CASE y # r
      <4>1. request'[y] = request[y] /\ request[y] # Nil
        BY <2>9, <3>2
      <4>2. request[y].stream \in Streams
        BY <1>0, <4>1, RequestType
      <4>3. writeActive[request[y].stream] = y => writeActive'[request[y].stream] = y
        BY <2>9, <3>2, <4>2 DEF r
      <4> QED
        BY <1>Q, <2>1, <4>1, <4>3 DEF Held
    <3> QED
      BY <3>1, <3>2
  <2> QED
    BY <2>10, <2>11, <2>12, <2>13 DEF RequestsInv
<1>9. ASSUME UNCHANGED <<writeQueue, writeRunning, writeActive, writes, request, writers, accepted>>,
             \A op \in Ops : (operations'[op] = "write") <=> (operations[op] = "write")
      PROVE  RequestsInv'
  BY <1>0, <1>9, <1>Q, SMTT(30) DEF RequestsInv, WritesRegistered, ActiveIsLive, QueuedLive, LiveOn, Held
<1> QED
  BY <1>0, <1>1, <1>2, <1>3, <1>4, <1>5, <1>6, <1>7, <1>8, <1>9, WriteFrame, OtherWrites

-----------------------------------------------------------------------------
(* Wakeups.                                                                *)

\* A step that leaves no token and no call to signalCompletion behind found
\* none, unless it is the one that consumes the token.
LEMMA SignalFrame ==
  ASSUME TypeOK, [Next]_vars, ~completion', ~signalDue'
  PROVE  ~signalDue /\ (~completion \/ parked' = {})
BY DEF TypeOK, CoreTypeOK, Next, vars, coreVars, readReturns, writeReturns,
   StartRead, runStreamRead, TakeRead, TakeReadPending, CancelRead, StartWrite, beginWrite,
   exitWrites, finishWrite, TakeWrite, TakeWritePending, CancelWrite, CloseHandle, CloseConnection,
   Close, CloseReturns, signal, signalCompletion, notify, NotifyGuest, Terminated, signalAfterUnlock

\* Whether op can be read depends on its waiter and on its stream only.
LEMMA ReadReadyFrame ==
  ASSUME NEW op \in Ops, TakeReadReady(op)',
         operations'[op] = operations[op], reads'[op] = reads[op],
         LET s == reads[op].stream
         IN  /\ readQueue'[s] = readQueue[s]
             /\ readReady'[s] = readReady[s]
             /\ streamClosed'[s] = streamClosed[s]
             /\ readRunning[s] => readRunning'[s]
  PROVE  TakeReadReady(op)
BY DEF TakeReadReady, readAvailableLocked

\* A read that is ready after a step that does not signal was ready before it,
\* and the guest was already waiting for it.
LEMMA ReadWakeup ==
  ASSUME Inv, [Next]_vars, ~completion', ~signalDue',
         NEW op \in Ops, op \in parked', TakeReadReady(op)'
  PROVE  op \in parked /\ TakeReadReady(op)
<1>0. TypeOK /\ HandlesConsistent /\ ReadsRegistered /\ SingleReader
  BY DEF Inv
<1>R. operations'[op] = "read" /\ reads'[op] # Nil
  BY DEF TakeReadReady
<1>1. ASSUME NEW s \in Streams, NEW x \in ReadOps, NEW capacity \in Capacities,
             StartRead(s, x, capacity)
      PROVE  op \in parked /\ TakeReadReady(op)
  <2>1. /\ operations' = [operations EXCEPT ![x] = "read"]
        /\ reads' = [reads EXCEPT ![x] = [stream |-> s, capacity |-> capacity]]
        /\ readQueue' = [readQueue EXCEPT ![s] = Append(@, x)]
        /\ readReady' = readReady /\ streamClosed' = streamClosed
        /\ parked' = parked \cup {x}
        /\ ~readAvailableLocked(s)
    BY <1>1 DEF StartRead, claimOperationLocked, signalAfterUnlock, handles
  <2>2. \A y \in Streams : readRunning[y] => readRunning'[y]
    BY <1>0, <1>1 DEF TypeOK, StartRead, prepareStreamReadLocked
  <2>3. ~(readReady'[s] \/ (streamClosed'[s] /\ ~readRunning'[s]))
    BY <2>1, <2>2 DEF readAvailableLocked
  <2>4. reads'[op].stream # s
    BY <2>3 DEF TakeReadReady, readAvailableLocked
  <2>5. op # x
    BY <1>0, <2>1, <2>4 DEF TypeOK
  <2>6. operations'[op] = operations[op] /\ reads'[op] = reads[op] /\ op \in parked
    BY <1>0, <2>1, <2>5 DEF TypeOK, CoreTypeOK
  <2>7. reads[op].stream \in Streams
    BY <1>0, <1>R, <2>6, WaiterType
  <2> QED
    BY <1>0, <2>1, <2>2, <2>4, <2>6, <2>7, ReadReadyFrame DEF TypeOK
<1>2. ASSUME NEW s \in Streams, NEW n \in 0..MaxBytes, NEW err \in ReadErrors,
             runStreamRead(s, n, err)
      PROVE  op \in parked /\ TakeReadReady(op)
  <2>1. /\ operations' = operations /\ reads' = reads /\ readQueue' = readQueue
        /\ readReady' = [readReady EXCEPT ![s] = TRUE]
        /\ readRunning' = [readRunning EXCEPT ![s] = FALSE]
        /\ streamClosed' = streamClosed /\ parked' = parked
        /\ readQueue[s] = <<>>
    BY <1>2 DEF runStreamRead, signalAfterUnlock, handles
  <2>2. reads[op].stream \in Streams
    BY <1>0, <1>R, <2>1, WaiterType
  <2>3. reads[op].stream # s
    BY <2>1 DEF TakeReadReady
  <2> QED
    BY <1>0, <2>1, <2>2, <2>3, ReadReadyFrame DEF TypeOK
<1>3. ASSUME NEW x \in ReadOps, TakeRead(x)
      PROVE  op \in parked /\ TakeReadReady(op)
  <2> DEFINE s == reads[x].stream
  <2>1. /\ operations[x] = "read" /\ x \in Ops
        /\ operations' = [operations EXCEPT ![x] = IF @ = "read" THEN "none" ELSE @]
        /\ reads' = [reads EXCEPT ![x] = Nil]
        /\ readQueue' = [readQueue EXCEPT ![s] = Tail(@)]
        /\ readReady' = [readReady EXCEPT ![s] = @ /\ ~takeAll(x)]
        /\ streamClosed' = streamClosed /\ parked' = parked \ {x}
        /\ ~nextReadable(s)
        /\ prepareStreamReadLocked(s)
    BY <1>3, OpsAssumption DEF TakeRead, TakeReadReady, releaseOperationLocked, signalAfterUnlock, handles
  <2>2. s \in Streams
    BY <1>0, <2>1, ReadOperation
  <2> HIDE DEF s
  <2>3. \A y \in Streams : readRunning[y] => readRunning'[y]
    BY <1>0, <2>1 DEF TypeOK, prepareStreamReadLocked
  <2>4. op # x
    BY <1>0, <1>R, <2>1 DEF TypeOK, CoreTypeOK
  <2>5. operations'[op] = operations[op] /\ reads'[op] = reads[op] /\ op \in parked
    BY <1>0, <2>1, <2>4 DEF TypeOK, CoreTypeOK
  <2>6. reads[op].stream \in Streams
    BY <1>0, <1>R, <2>5, WaiterType
  <2>7. reads[op].stream # s
    BY <2>1, <2>2, <2>3, <2>5 DEF TakeReadReady, readAvailableLocked, nextReadable
  <2> QED
    BY <1>0, <2>1, <2>3, <2>5, <2>6, <2>7, ReadReadyFrame DEF TypeOK
<1>4. ASSUME NEW x \in ReadOps, CancelRead(x)
      PROVE  op \in parked /\ TakeReadReady(op)
  <2>1. PICK s \in Streams :
          /\ s = reads[x].stream /\ x \in Ops /\ operations[x] = "read"
          /\ Len(readQueue'[s]) = Len(readQueue[s]) - 1
          /\ \A y \in Streams \ {s} : readQueue'[y] = readQueue[y]
          /\ \E k \in 1..Len(readQueue[s]) :
               /\ readQueue[s][k] = x
               /\ \A j \in 1..Len(readQueue'[s]) :
                    readQueue'[s][j] = IF j < k THEN readQueue[s][j] ELSE readQueue[s][j + 1]
    BY <1>0, <1>4, CancelReadEffect
  <2>2. /\ operations' = [operations EXCEPT ![x] = "none"]
        /\ reads' = [reads EXCEPT ![x] = Nil]
        /\ readReady' = readReady
        /\ streamClosed' = streamClosed /\ parked' = parked \ {x}
        /\ ~((readQueue[s] # <<>> /\ Head(readQueue[s]) = x) /\ nextReadable(s))
        /\ prepareStreamReadLocked(s)
    BY <1>4, <2>1 DEF CancelRead, signalAfterUnlock, handles
  <2>3. \A y \in Streams : readRunning[y] => readRunning'[y]
    BY <1>0, <2>2 DEF TypeOK, prepareStreamReadLocked
  <2>4. op # x
    BY <1>0, <1>R, <2>1, <2>2 DEF TypeOK, CoreTypeOK
  <2>5. operations'[op] = operations[op] /\ reads'[op] = reads[op] /\ op \in parked
    BY <1>0, <2>1, <2>2, <2>4 DEF TypeOK, CoreTypeOK
  <2>6. reads[op].stream \in Streams
    BY <1>0, <1>R, <2>5, WaiterType
  <2>7. CASE reads[op].stream # s
    BY <1>0, <2>1, <2>2, <2>3, <2>5, <2>6, <2>7, ReadReadyFrame DEF TypeOK
  <2>8. CASE reads[op].stream = s
    <3>1. /\ readQueue'[s] # <<>> /\ Head(readQueue'[s]) = op
          /\ readReady'[s] \/ (streamClosed'[s] /\ ~readRunning'[s])
      BY <2>5, <2>8 DEF TakeReadReady, readAvailableLocked
    <3>2. nextReadable(s)
      BY <2>2, <2>3, <3>1 DEF nextReadable
    <3>3. ~(readQueue[s] # <<>> /\ Head(readQueue[s]) = x)
      BY <2>2, <3>2
    <3>4. readQueue[s] \in Seq(Ops) /\ readQueue'[s] \in Seq(Ops)
      BY <1>0, TypeStep DEF TypeOK
    <3>5. PICK k \in 1..Len(readQueue[s]) :
               /\ readQueue[s][k] = x
               /\ \A j \in 1..Len(readQueue'[s]) :
                    readQueue'[s][j] = IF j < k THEN readQueue[s][j] ELSE readQueue[s][j + 1]
      BY <2>1
    <3>6. Len(readQueue[s]) \in Nat \ {0} /\ readQueue[s] # <<>> /\ Head(readQueue[s]) = readQueue[s][1]
      BY <3>4, <3>5
    <3>7. k # 1 /\ 1 < k
      BY <3>3, <3>5, <3>6
    <3>8. Head(readQueue'[s]) = readQueue'[s][1] /\ 1 \in 1..Len(readQueue'[s])
      BY <3>1, <3>4
    <3>9. Head(readQueue[s]) = op
      BY <3>1, <3>5, <3>6, <3>7, <3>8
    <3>10. readAvailableLocked(s)
      BY <2>2, <2>3, <3>1 DEF readAvailableLocked
    <3> QED
      BY <1>R, <2>5, <2>8, <3>6, <3>9, <3>10 DEF TakeReadReady
  <2> QED
    BY <2>7, <2>8
<1>5. ASSUME NEW s \in Streams, CloseHandle(s)
      PROVE  op \in parked /\ TakeReadReady(op)
  <2>1. /\ operations' = operations /\ reads' = reads /\ readQueue' = readQueue
        /\ readReady' = readReady /\ readRunning' = readRunning
        /\ streamClosed' = [streamClosed EXCEPT ![s] = TRUE] /\ parked' = parked
        /\ ~(readQueue[s] # <<>> /\ (readReady[s] \/ ~readRunning[s]))
    BY <1>5 DEF CloseHandle, signalAfterUnlock, readVars
  <2>2. reads[op].stream \in Streams
    BY <1>0, <1>R, <2>1, WaiterType
  <2>3. reads[op].stream # s
    BY <2>1 DEF TakeReadReady, readAvailableLocked
  <2> QED
    BY <1>0, <2>1, <2>2, <2>3, ReadReadyFrame DEF TypeOK
<1>6. ASSUME UNCHANGED <<reads, readQueue, readReady, readRunning, streamClosed>>,
             operations[op] = "read", op \in parked
      PROVE  op \in parked /\ TakeReadReady(op)
  BY <1>R, <1>6, ReadReadyFrame
<1>7. ASSUME NEW x \in Ops, TakeReadPending(x) \/ TakeWritePending(x)
      PROVE  op \in parked /\ TakeReadReady(op)
  <2>1. /\ UNCHANGED <<operations, reads, readQueue, readReady, readRunning, streamClosed>>
        /\ parked' = parked \cup {x}
    BY <1>7 DEF TakeReadPending, TakeWritePending, readVars, handles
  <2>2. TakeReadReady(op)
    BY <2>1, ReadReadyFrame
  <2>3. op # x
    BY <1>7, <2>2 DEF TakeReadPending, TakeWritePending, TakeReadReady
  <2> QED
    BY <2>1, <2>2, <2>3
<1>8. ASSUME NEW x \in WriteOps, (\E s \in Streams : StartWrite(s, x)) \/ TakeWrite(x) \/ CancelWrite(x)
      PROVE  op \in parked /\ TakeReadReady(op)
  <2>1. /\ UNCHANGED <<reads, readQueue, readReady, readRunning, streamClosed>>
        /\ parked' \subseteq parked \cup {x} /\ x \in Ops
    BY <1>8, OpsAssumption DEF StartWrite, TakeWrite, CancelWrite, readVars, handles
  <2>2. \A y \in Ops : y # x => operations'[y] = operations[y]
    BY <1>0, <1>8, <2>1
       DEF TypeOK, CoreTypeOK, StartWrite, TakeWrite, CancelWrite, claimOperationLocked, releaseOperationLocked
  <2>3. operations'[x] # "read"
    BY <1>0, <1>8, <2>1
       DEF TypeOK, CoreTypeOK, StartWrite, TakeWrite, CancelWrite, claimOperationLocked,
           TakeWriteReady, releaseOperationLocked
  <2>4. op # x
    BY <1>R, <2>3
  <2> QED
    BY <1>6, <1>R, <2>1, <2>2, <2>4
<1>9. CASE Close
  BY <1>9, <1>R DEF Close
<1>10. CASE signal \/ notify
  BY <1>10 DEF signal, signalCompletion, notify, NotifyGuest
<1>11. ASSUME \/ \E s \in Streams : beginWrite(s) \/ exitWrites(s) \/ writeReturns(s) \/ CloseConnection(s)
              \/ CloseReturns \/ Terminated \/ UNCHANGED vars
       PROVE  op \in parked /\ TakeReadReady(op)
  <2>1. UNCHANGED <<operations, parked, reads, readQueue, readReady, readRunning, streamClosed>>
    BY <1>11 DEF beginWrite, exitWrites, writeReturns, finishWrite, CloseConnection, CloseReturns,
                 Terminated, vars, coreVars, handles, readVars
  <2> QED
    BY <1>6, <1>R, <2>1, SMTT(30)
<1> QED
  BY <1>1, <1>2, <1>3, <1>4, <1>5, <1>7, <1>8, <1>9, <1>10, <1>11, OpsAssumption DEF Next, readReturns

\* The same for writes.
LEMMA WriteWakeup ==
  ASSUME Inv, [Next]_vars, ~completion', ~signalDue',
         NEW op \in Ops, op \in parked', TakeWriteReady(op)'
  PROVE  op \in parked /\ TakeWriteReady(op)
<1>0. /\ TypeOK /\ HandlesConsistent /\ SingleWriter /\ WritesRegistered /\ ActiveIsLive
      /\ QueuedAreLive
  BY DEF Inv
<1>W. \A x \in Ops : (operations[x] = "write") <=> (writes[x] # Nil)
  BY <1>0 DEF WritesRegistered
<1>A. \A x \in Ops : writes[x] # Nil =>
        writes[x] \in Requests /\ writes[x][1] = x /\ request[writes[x]] # Nil
  BY <1>0 DEF TypeOK, WritesRegistered
<1>T. /\ operations \in [Ops -> OperationKind \cup {"none"}]
      /\ writes \in [Ops -> Requests \cup {Nil}]
      /\ request \in [Requests -> WriteOperations \cup {Nil}]
  BY <1>0 DEF TypeOK, CoreTypeOK
<1>R. operations'[op] = "write" /\ writes'[op] # Nil /\ request'[writes'[op]].done
  BY DEF TakeWriteReady
<1>6. ASSUME writes'[op] = writes[op], request'[writes[op]] = request[writes[op]], op \in parked
      PROVE  op \in parked /\ TakeWriteReady(op)
  BY <1>6, <1>R, <1>W DEF TakeWriteReady
<1>1. ASSUME NEW s \in Streams, NEW x \in WriteOps, StartWrite(s, x)
      PROVE  op \in parked /\ TakeWriteReady(op)
  <2> DEFINE r == newRequest(x)
             w == [stream |-> s, done |-> FALSE, err |-> "nil"]
  <2>1. r \in Requests /\ request[r] = Nil /\ x \in Ops
    BY <1>1, NewRequestLemma, OpsAssumption DEF StartWrite
  <2>2. /\ request' = [request EXCEPT ![r] = w]
        /\ writes' = [writes EXCEPT ![x] = r]
        /\ parked' = parked \cup {x}
    BY <1>1 DEF StartWrite
  <2>3. w.done = FALSE
    OBVIOUS
  <2> HIDE DEF r, w
  <2>4. op # x
    BY <1>R, <1>T, <2>1, <2>2, <2>3
  <2> QED
    BY <1>6, <1>A, <1>R, <1>T, <2>1, <2>2, <2>4
<1>2. ASSUME NEW s \in Streams, NEW err \in {"nil", "error"}, finishWrite(s, err)
      PROVE  op \in parked /\ TakeWriteReady(op)
  <2> DEFINE r == writeActive[s]
  <2>1. /\ r # Nil
        /\ \E w : request' = [request EXCEPT ![r] = w]
        /\ writes' = writes /\ parked' = parked /\ operations' = operations
        /\ ~(writes[r[1]] = r /\ operations[r[1]] = "write")
    BY <1>2 DEF finishWrite, signalAfterUnlock
  <2>2. r \in Requests
    BY <1>0, <2>1 DEF TypeOK
  <2>3. writes[op] # r
    BY <1>A, <1>R, <2>1
  <2> QED
    BY <1>6, <1>A, <1>R, <1>T, <2>1, <2>2, <2>3
<1>3. ASSUME NEW x \in WriteOps, TakeWrite(x)
      PROVE  op \in parked /\ TakeWriteReady(op)
  <2>1. /\ x \in Ops /\ writes[x] # Nil
        /\ writes' = [writes EXCEPT ![x] = Nil]
        /\ request' = [request EXCEPT ![writes[x]] = Nil]
        /\ parked' = parked \ {x}
    BY <1>3, OpsAssumption DEF TakeWrite, TakeWriteReady
  <2>2. op # x
    BY <1>R, <1>T, <2>1
  <2>3. writes'[op] = writes[op] /\ op \in parked
    BY <1>T, <2>1, <2>2
  <2>4. writes[op] # writes[x]
    BY <1>A, <1>R, <2>1, <2>2, <2>3
  <2>5. request'[writes[op]] = request[writes[op]]
    BY <1>A, <1>R, <1>T, <2>1, <2>3, <2>4
  <2> QED
    BY <1>6, <2>3, <2>5
<1>4. ASSUME NEW x \in WriteOps, CancelWrite(x)
      PROVE  op \in parked /\ TakeWriteReady(op)
  <2>1. PICK r \in Requests, s \in Streams : CancelsWrite(x, r, s)
    BY <1>0, <1>4, CancelWriteEffect
  <2>2. /\ x \in Ops /\ r = writes[x]
        /\ writes'[x] = Nil
        /\ \A y \in Ops \ {x} : writes'[y] = writes[y]
        /\ \A y \in Requests \ {r} : request'[y] = request[y]
    BY <2>1 DEF CancelsWrite, Forgotten, Withdrawn
  <2>3. parked' = parked \ {x}
    BY <1>4 DEF CancelWrite
  <2>4. op # x
    BY <2>3
  <2>5. writes'[op] = writes[op] /\ writes[op] # Nil
    BY <1>R, <2>2, <2>4
  <2>6. writes[op] # r
    BY <1>A, <1>W, <2>2, <2>4, <2>5, NilAssumption
  <2> QED
    BY <1>6, <1>A, <2>2, <2>3, <2>5, <2>6
<1>5. ASSUME NEW s \in Streams, CloseHandle(s)
      PROVE  op \in parked /\ TakeWriteReady(op)
  <2>1. /\ unbegun(s) = {} /\ writes' = writes /\ parked' = parked
        /\ request' = [r \in Requests |->
                         IF r \in unbegun(s)
                         THEN [request[r] EXCEPT !.done = TRUE, !.err = "ErrClosed"]
                         ELSE request[r]]
    BY <1>5 DEF CloseHandle, signalAfterUnlock
  <2>2. \A y \in Requests : request'[y] = request[y]
    BY <2>1
  <2> QED
    BY <1>6, <1>A, <1>R, <2>1, <2>2
<1>7. ASSUME NEW x \in Ops, TakeReadPending(x) \/ TakeWritePending(x)
      PROVE  op \in parked /\ TakeWriteReady(op)
  <2>1. UNCHANGED <<operations, writes, request>> /\ parked' = parked \cup {x}
    BY <1>7 DEF TakeReadPending, TakeWritePending, writeVars
  <2>2. TakeWriteReady(op)
    BY <1>R, <2>1 DEF TakeWriteReady
  <2>3. op # x
    BY <1>7, <2>2 DEF TakeReadPending, TakeWritePending, TakeWriteReady
  <2> QED
    BY <2>1, <2>2, <2>3
<1>8. ASSUME NEW x \in ReadOps,
             \/ \E s \in Streams, capacity \in Capacities : StartRead(s, x, capacity)
             \/ TakeRead(x)
             \/ CancelRead(x)
      PROVE  op \in parked /\ TakeWriteReady(op)
  <2>1. UNCHANGED <<writes, request>> /\ parked' \subseteq parked \cup {x} /\ x \in Ops
    <3>1. x \in Ops
      BY OpsAssumption
    <3>2. CASE \E s \in Streams, capacity \in Capacities : StartRead(s, x, capacity)
      BY <3>1, <3>2 DEF StartRead, writeVars
    <3>3. CASE TakeRead(x)
      <4>1. UNCHANGED writeVars /\ parked' = parked \ {x}
        BY <3>3, Zenon DEF TakeRead
      <4> QED
        BY <3>1, <4>1 DEF writeVars
    <3>4. CASE CancelRead(x)
      <4>1. UNCHANGED writeVars /\ parked' = parked \ {x}
        BY <3>4, Zenon DEF CancelRead
      <4> QED
        BY <3>1, <4>1 DEF writeVars
    <3> QED
      BY <1>8, <3>2, <3>3, <3>4, Zenon
  <2>2. operations'[x] # "write"
    BY <1>8, <1>T, <2>1
       DEF StartRead, TakeRead, TakeReadReady, CancelRead, claimOperationLocked, releaseOperationLocked
  <2> QED
    BY <1>6, <1>R, <2>1, <2>2, SMTT(30)
<1>9. CASE Close
  BY <1>9, <1>R DEF Close
<1>10. CASE signal \/ notify
  BY <1>10 DEF signal, signalCompletion, notify, NotifyGuest
<1>11. ASSUME \/ \E s \in Streams : beginWrite(s) \/ exitWrites(s) \/ readReturns(s) \/ CloseConnection(s)
              \/ CloseReturns \/ Terminated \/ UNCHANGED vars
       PROVE  op \in parked /\ TakeWriteReady(op)
  <2>1. UNCHANGED <<parked, writes, request>>
    BY <1>11 DEF beginWrite, exitWrites, readReturns, runStreamRead, CloseConnection, CloseReturns,
                 Terminated, vars, coreVars, writeVars
  <2> QED
    BY <1>6, <2>1
<1> QED
  BY <1>1, <1>2, <1>3, <1>4, <1>5, <1>7, <1>8, <1>9, <1>10, <1>11, OpsAssumption DEF Next, writeReturns

\* Every step keeps the guest from waiting in vain.
LEMMA NoLostWakeupStep == Inv /\ [Next]_vars => NoLostWakeup'
<1> SUFFICES ASSUME Inv, [Next]_vars, NEW op \in parked', TakeReadReady(op)' \/ TakeWriteReady(op)',
                    ~completion', ~signalDue'
             PROVE  FALSE
  BY DEF NoLostWakeup
<1>1. op \in Ops
  BY TypeStep DEF TypeOK, CoreTypeOK
<1>2. op \in parked /\ (TakeReadReady(op) \/ TakeWriteReady(op))
  BY <1>1, ReadWakeup, WriteWakeup
<1>3. completion \/ signalDue
  BY <1>2 DEF Inv, NoLostWakeup
<1>4. ~signalDue /\ (~completion \/ parked' = {})
  BY SignalFrame DEF Inv
<1> QED
  BY <1>3, <1>4

-----------------------------------------------------------------------------
(* The invariant, and what follows from it.                                *)

\* A new reactor satisfies the invariant.
LEMMA InitInv == Init => Inv
<1> SUFFICES ASSUME Init
             PROVE  Inv
  OBVIOUS
<1> USE MaxBytesAssumption
<1>1. TypeOK
  <2>1. CoreTypeOK
    BY DEF Init, CoreInit, CoreTypeOK
  <2>2. /\ streams \subseteq Streams
        /\ streamClosed \in [Streams -> BOOLEAN]
        /\ conn \in [Streams -> ConnStates]
    BY DEF Init, ConnStates
  <2>3. /\ readQueue \in [Streams -> Seq(Ops)]
        /\ readRunning \in [Streams -> BOOLEAN]
        /\ readReady \in [Streams -> BOOLEAN]
        /\ readData \in [Streams -> Seq(1..MaxBytes)]
        /\ readErr \in [Streams -> ReadErrors]
        /\ reads \in [Ops -> Waiters \cup {Nil}]
        /\ readers \in [Streams -> Nat]
        /\ readSize \in [Streams -> Capacities \cup {0}]
    BY DEF Init, ReadErrors
  <2>4. /\ writeQueue \in [Streams -> Seq(Requests)]
        /\ writeRunning \in [Streams -> BOOLEAN]
        /\ writeActive \in [Streams -> Requests \cup {Nil}]
        /\ writes \in [Ops -> Requests \cup {Nil}]
        /\ request \in [Requests -> WriteOperations \cup {Nil}]
        /\ writers \in [Streams -> Nat]
    BY DEF Init
  <2>5. /\ bytesRead \in [Streams -> 0..MaxBytes]
        /\ delivered \in [Streams -> Seq(1..MaxBytes)]
        /\ toldEOF \in [Streams -> BOOLEAN]
        /\ accepted \subseteq Requests
    BY DEF Init
  <2> QED
    BY <2>1, <2>2, <2>3, <2>4, <2>5 DEF TypeOK
<1>2. HandlesConsistent /\ ReadsRegistered /\ SingleReader /\ NoStuckRead
  BY DEF Init, CoreInit, HandlesConsistent, ReadsRegistered, SingleReader, NoStuckRead
<1>3. StreamIntegrity /\ ResultMeaningful /\ EOFIsTrue
  BY DEF Init, StreamIntegrity, ResultMeaningful, EOFIsTrue
<1>4. SingleWriter /\ WritesRegistered /\ ActiveIsLive /\ QueuedAreLive /\ RequestsHeld
  BY DEF Init, CoreInit, SingleWriter, WritesRegistered, ActiveIsLive, QueuedAreLive, RequestsHeld
<1>5. NoLostWakeup
  BY DEF Init, CoreInit, NoLostWakeup
<1> QED
  BY <1>1, <1>2, <1>3, <1>4, <1>5 DEF Inv

\* Every step of the reactor, or a stuttering step, preserves the invariant.
LEMMA NextInv == Inv /\ [Next]_vars => Inv'
<1> SUFFICES ASSUME Inv, [Next]_vars
             PROVE  Inv'
  OBVIOUS
<1>1. TypeOK' /\ RequestsInv'
  BY TypeStep, RequestsStep
<1>2. WritesRegistered' /\ ActiveIsLive' /\ QueuedAreLive' /\ RequestsHeld'
  BY <1>1, WithPositions
<1> QED
  BY <1>1, <1>2, HandlesStep, ReadsRegisteredStep, SingleReaderStep, StreamIntegrityStep, ResultStep,
     NoStuckReadStep, SingleWriterStep, NoLostWakeupStep DEF Inv

\* Inv holds in every reachable state.
THEOREM Invariance == Spec => []Inv
<1>1. Init => Inv
  BY InitInv
<1>2. Inv /\ [Next]_vars => Inv'
  BY NextInv
<1> QED
  BY <1>1, <1>2, PTL DEF Spec

\* Every variable always holds a value of its Go type: no handler of stream.go
\* dereferences a waiter or a request that is gone.
THEOREM TypeCorrect == Spec => []TypeOK
<1>1. Inv => TypeOK
  BY DEF Inv
<1> QED
  BY <1>1, Invariance, PTL

\* Claimed ids, waiters and queue positions always agree, whatever is taken and
\* cancelled in whatever order.
THEOREM ReadsAreRegistered == Spec => []ReadsRegistered
<1>1. Inv => ReadsRegistered
  BY DEF Inv
<1> QED
  BY <1>1, Invariance, PTL

\* A connection is never read by two goroutines, nor while an earlier result
\* waits to be taken.
THEOREM OneReaderPerStream == Spec => []SingleReader
<1>1. Inv => SingleReader
  BY DEF Inv
<1> QED
  BY <1>1, Invariance, PTL

\* For streams and buffers of every length, the guest gets the peer's bytes in
\* order, without loss and without repetition.
THEOREM BytesArriveInOrder == Spec => []StreamIntegrity
<1>1. Inv => StreamIntegrity
  BY DEF Inv
<1> QED
  BY <1>1, Invariance, PTL

\* The guest is told of an end of file only when there is one.
THEOREM NoFalseEOF == Spec => []EOFIsTrue
<1>1. Inv => EOFIsTrue
  BY DEF Inv
<1> QED
  BY <1>1, Invariance, PTL

\* A waiting reader of an open reactor always has somebody to complete it.
THEOREM NoReadIsStuck == Spec => []NoStuckRead
<1>1. Inv => NoStuckRead
  BY DEF Inv
<1> QED
  BY <1>1, Invariance, PTL

\* The completion channel never misses a result a waiting guest could take.
THEOREM WakeupsAreNotLost == Spec => []NoLostWakeup
<1>1. Inv => NoLostWakeup
  BY DEF Inv
<1> QED
  BY <1>1, Invariance, PTL

\* Writes of a stream reach the connection one at a time, each once.
THEOREM OneWriterPerStream == Spec => []SingleWriter
<1>1. Inv => SingleWriter
  BY DEF Inv
<1> QED
  BY <1>1, Invariance, PTL

\* No registered write is forgotten, and none succeeds on the strength of
\* another request that had the same id.
THEOREM WritesAreAccounted == Spec => []WriteAccounted
<1>1. Inv => WriteAccounted
  <2> SUFFICES ASSUME Inv, NEW op \in Ops, writes[op] # Nil
               PROVE  /\ request[writes[op]] # Nil
                      /\ writes[op][1] = op
                      /\ operations[op] = "write"
                      /\ \/ request[writes[op]].done
                         \/ writeActive[request[writes[op]].stream] = writes[op]
                         \/ writes[op] \in ToSet(writeQueue[request[writes[op]].stream])
                      /\ (request[writes[op]].done /\ request[writes[op]].err = "nil")
                           => writes[op] \in accepted
    BY DEF WriteAccounted
  <2>1. writes[op] \in Requests
    BY DEF Inv, TypeOK
  <2>2. request[writes[op]] # Nil /\ writes[op][1] = op /\ operations[op] = "write"
    BY DEF Inv, WritesRegistered
  <2>3. request[writes[op]].stream \in Streams
    BY <2>1, <2>2, RequestType DEF Inv
  <2>4. writeQueue[request[writes[op]].stream] \in Seq(Requests)
    BY <2>3 DEF Inv, TypeOK
  <2>5. (\E i \in 1..Len(writeQueue[request[writes[op]].stream]) :
           writeQueue[request[writes[op]].stream][i] = writes[op])
         => writes[op] \in ToSet(writeQueue[request[writes[op]].stream])
    BY <2>4 DEF ToSet
  <2> QED
    BY <2>1, <2>2, <2>5 DEF Inv, RequestsHeld
<1> QED
  BY <1>1, Invariance, PTL

\* When Close has returned nothing runs any more.
THEOREM CloseLeavesNothing == Spec => []CloseIsFinal
<1>1. Inv => CloseIsFinal
  BY DEF Inv, HandlesConsistent, CloseIsFinal
<1> QED
  BY <1>1, Invariance, PTL

=============================================================================
