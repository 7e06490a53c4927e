------------------------------ MODULE EngineConn ------------------------------
(***************************************************************************)
(* A connection of the data plane: the net.Conn, net.PacketConn and        *)
(* net.Listener that internal/engine conn.go, packet_conn.go and           *)
(* listener.go give to the embedding program, with the commands of         *)
(* dataplane.go that close a resource and set its deadlines.               *)
(*                                                                         *)
(* Any number of goroutines call Read, Write, Close and SetDeadline of one *)
(* connection.  Read and Write hold a mutex each for as long as they have  *)
(* an operation in the guest; Close takes neither.  Accept has no mutex.   *)
(* EngineOperations has the details of performOperation: here an operation *)
(* is asked for, submitted by the driver, answered by the guest and        *)
(* received.  When the instance closes, a caller leaves at any of these    *)
(* points, and its operation goes on without it.                           *)
(*                                                                         *)
(* Data.  The bytes of a stream, the datagrams of a socket and the         *)
(* connections of a listener are numbered; byte i of a Write is the pair   *)
(* of its caller and i.                                                    *)
(***************************************************************************)
EXTENDS Integers, Sequences, FiniteSets, FiniteSetsExt, SequencesExt

CONSTANTS
  Calls,                 \* goroutines that call methods of the connection
  Roles,                 \* which goroutine may do what
  Kinds,                 \* kinds of connections that are opened
  Lengths,               \* lengths of the buffers written
  maxDataPlaneTransfer,  \* the longest chunk of one operation
  MaxItems,              \* bound: items that arrive
  Nil

ASSUME KindsAssumption == Kinds \subseteq {"stream", "packet", "datagram", "listener"}
ASSUME RolesAssumption == Roles \subseteq [Calls -> {"read", "write", "close"}]
ASSUME TransferAssumption == maxDataPlaneTransfer \in Nat \ {0}
ASSUME LengthsAssumption == Lengths \subseteq Nat \ {0}
ASSUME BoundAssumption == MaxItems \in Nat
ASSUME NilAssumption == Nil \notin Calls /\ Nil \notin {"stream", "packet", "datagram", "listener"}

VARIABLES
  role,      \* what a goroutine does: read again and again, write or close once
  kind,      \* the kind of the connection, Nil before it is open
  readMu,    \* who holds readMu
  writeMu,   \* who holds writeMu
  closed,    \* closed
  closeOnce, \* closeOnce and closeDone
  pc,        \* where a call is
  length,    \* the buffer a Write was given
  written,   \* Write: written; what it returned
  resource,  \* the resource is open in the guest
  operation, \* the guest has an operation of this call
  result,    \* what is in the result channel of the call
  expired,   \* directions whose deadline has passed
  arrived,   \* items the guest has handed out
  handed,    \* history: the ones the program has to get
  received,  \* history: the ones Read has returned
  sent,      \* history: bytes the guest has accepted
  closing,   \* Instance.closeRequested
  done       \* Instance.done

\* They call Read, ReadFrom or Accept; Write or WriteTo; Close.
Readers == {c \in Calls : role[c] = "read"}
Writers == {c \in Calls : role[c] = "write"}
Closers == {c \in Calls : role[c] = "close"}

connVars  == <<role, kind, readMu, writeMu, closed, closeOnce>>
callVars  == <<pc, length, written, result>>
guestVars == <<resource, operation, expired, arrived, handed, sent>>
vars      == <<connVars, callVars, guestVars, received, closing, done>>

Positions == {"idle", "entering", "asking", "submitted", "waiting", "returned"}

\* What the driver puts into a result channel.
Answer(type)      == [type |-> type, items |-> <<>>, n |-> 0]
ItemsRead(items)  == [type |-> "items", items |-> items, n |-> 0]
BytesWritten(n)   == [type |-> "length", items |-> <<>>, n |-> n]
NoResult          == Answer("none")

Results == [type : {"none", "items", "other", "eof", "length", "error"},
            items : Seq(1 .. MaxItems), n : 0 .. maxDataPlaneTransfer]

TypeOK ==
  /\ role \in Roles
  /\ kind \in Kinds \cup {Nil}
  /\ readMu \in Readers \cup {Nil}
  /\ writeMu \in Writers \cup {Nil}
  /\ closed \in BOOLEAN
  /\ closeOnce \in {"idle", "running", "done"}
  /\ pc \in [Calls -> Positions]
  /\ length \in [Calls -> Lengths \cup {0}]
  /\ written \in [Calls -> Nat]
  /\ resource \in BOOLEAN
  /\ operation \subseteq Calls
  /\ result \in [Calls -> Results]
  /\ expired \subseteq {"read", "write"}
  /\ arrived \in 0 .. MaxItems
  /\ handed \in Seq(1 .. MaxItems)
  /\ received \in Seq(1 .. MaxItems)
  /\ sent \in Seq(Writers \X Nat)
  /\ closing \in BOOLEAN
  /\ done \in BOOLEAN

Init ==
  /\ role \in Roles
  /\ kind = Nil
  /\ readMu = Nil
  /\ writeMu = Nil
  /\ closed = FALSE
  /\ closeOnce = "idle"
  /\ pc = [c \in Calls |-> "idle"]
  /\ length = [c \in Calls |-> 0]
  /\ written = [c \in Calls |-> 0]
  /\ resource = FALSE
  /\ operation = {}
  /\ result = [c \in Calls |-> NoResult]
  /\ expired = {}
  /\ arrived = 0
  /\ handed = <<>>
  /\ received = <<>>
  /\ sent = <<>>
  /\ closing = FALSE
  /\ done = FALSE

-----------------------------------------------------------------------------
(* Opening.  What happens to a resource nobody waits for any more is a     *)
(* matter of EngineOperations.                                             *)

newConn(k) ==
  /\ kind = Nil
  /\ ~closing
  /\ k \in Kinds
  /\ kind' = k
  /\ resource' = TRUE
  /\ UNCHANGED <<role, readMu, writeMu, closed, closeOnce, callVars, operation, expired, arrived,
                 handed, sent, received, closing, done>>

Dial         == newConn("stream")     \* and what Accept returns
DialUDP      == newConn("datagram")
ListenPacket == newConn("packet")
Listen       == newConn("listener")

-----------------------------------------------------------------------------
(* Calls.                                                                  *)

Go(c, position) == pc' = [pc EXCEPT ![c] = position]

\* Read, ReadFrom and Accept begin.  A caller that left an operation behind in a
\* closing instance makes no further call.
Read(r) ==
  /\ kind # Nil
  /\ pc[r] = "idle"
  /\ r \notin operation
  /\ Go(r, "entering")
  /\ UNCHANGED <<connVars, length, written, result, guestVars, received, closing, done>>

Write(w, n) ==
  /\ kind \in {"stream", "packet", "datagram"}
  /\ pc[w] = "idle"
  /\ Go(w, "entering")
  /\ length' = [length EXCEPT ![w] = n]
  /\ UNCHANGED <<connVars, written, result, guestVars, received, closing, done>>

Close(x) ==
  /\ kind # Nil
  /\ pc[x] = "idle"
  /\ Go(x, "entering")
  /\ UNCHANGED <<connVars, length, written, result, guestVars, received, closing, done>>

\* readMu.Lock() and the look at closed.
Bug_lockReadUnlocked(r) ==
  /\ pc[r] = "entering"
  /\ Go(r, IF closed THEN "idle" ELSE "asking")
  /\ UNCHANGED <<connVars, length, written, result, guestVars, received, closing, done>>
lockRead(r) ==
  /\ pc[r] = "entering"
  /\ readMu = Nil
  /\ readMu' = IF closed THEN Nil ELSE r
  /\ Go(r, IF closed THEN "idle" ELSE "asking")
  /\ UNCHANGED <<role, kind, writeMu, closed, closeOnce, length, written, result, guestVars,
                 received, closing, done>>

enterRead(r) == kind = "stream" /\ lockRead(r)
ReadFrom(r)  == kind \in {"packet", "datagram"} /\ lockRead(r)

Accept(r) ==
  /\ kind = "listener"
  /\ pc[r] = "entering"
  /\ Go(r, IF closed THEN "idle" ELSE "asking")
  /\ UNCHANGED <<connVars, length, written, result, guestVars, received, closing, done>>

\* writeMu.Lock(); a call that may not go on returns.
lockWrite(w, mayGoOn) ==
  /\ pc[w] = "entering"
  /\ writeMu = Nil
  /\ writeMu' = IF mayGoOn THEN w ELSE Nil
  /\ Go(w, IF mayGoOn THEN "asking" ELSE "returned")
  /\ UNCHANGED <<role, kind, readMu, closed, closeOnce, length, written, result, guestVars,
                 received, closing, done>>

enterWrite(w) == kind = "stream" /\ lockWrite(w, ~closed)

\* A datagram has to fit one operation.
WriteTo(w) ==
  /\ kind \in {"packet", "datagram"}
  /\ lockWrite(w, ~closed /\ length[w] <= maxDataPlaneTransfer)

\* closeOnce.Do: the first caller closes, the others wait for it.
Bug_closeLocked(x) ==
  /\ pc[x] = "entering"
  /\ \/ /\ closeOnce = "idle"
        /\ readMu = Nil
        /\ closeOnce' = "running"
        /\ closed' = TRUE
        /\ Go(x, "asking")
     \/ /\ closeOnce # "idle"
        /\ Go(x, "waiting")
        /\ UNCHANGED <<closeOnce, closed>>
  /\ UNCHANGED <<role, kind, readMu, writeMu, length, written, result, guestVars, received,
                 closing, done>>
closeOnceDo(x) ==
  /\ pc[x] = "entering"
  /\ \/ /\ closeOnce = "idle"
        /\ closeOnce' = "running"
        /\ closed' = TRUE
        /\ Go(x, "asking")
     \/ /\ closeOnce # "idle"
        /\ Go(x, "waiting")
        /\ UNCHANGED <<closeOnce, closed>>
  /\ UNCHANGED <<role, kind, readMu, writeMu, length, written, result, guestVars, received,
                 closing, done>>

closeStream(x)   == kind = "stream" /\ closeOnceDo(x)
closePacket(x)   == kind \in {"packet", "datagram"} /\ closeOnceDo(x)
closeListener(x) == kind = "listener" /\ closeOnceDo(x)

waitForClose(x) ==
  /\ pc[x] = "waiting"
  /\ closeOnce = "done"
  /\ Go(x, "returned")
  /\ UNCHANGED <<connVars, length, written, result, guestVars, received, closing, done>>

\* The driver tells the guest, which has the resource or refuses.
setDataPlaneResourceDeadline(directions, passed) ==
  /\ ~done
  /\ resource
  /\ expired' = IF passed THEN expired \cup directions ELSE expired \ directions
  /\ UNCHANGED <<connVars, callVars, resource, operation, arrived, handed, sent, received,
                 closing, done>>

\* SetDeadline, SetReadDeadline, SetWriteDeadline: to a time that has passed, or
\* to none.
SetDeadline(directions, passed) ==
  kind = "stream" /\ ~closed /\ setDataPlaneResourceDeadline(directions, passed)

SetPacketDeadline(directions, passed) ==
  kind \in {"packet", "datagram"} /\ ~closed /\ setDataPlaneResourceDeadline(directions, passed)

-----------------------------------------------------------------------------
(* The driver and the guest.                                               *)

\* The driver submits the operation, or closes the resource.  Errors: the
\* resource is closed, or the guest refuses.
submit(c) ==
  /\ ~done
  /\ pc[c] = "asking"
  /\ Go(c, "submitted")
  /\ \/ /\ c \in Closers
        /\ resource' \in {FALSE, resource}
        /\ result' = [result EXCEPT ![c] = Answer("length")]
        /\ UNCHANGED operation
     \/ /\ c \notin Closers
        /\ resource
        /\ operation' = operation \cup {c}
        /\ UNCHANGED <<resource, result>>
     \/ /\ c \notin Closers
        /\ result' = [result EXCEPT ![c] = Answer("error")]
        /\ UNCHANGED <<resource, operation>>
  /\ UNCHANGED <<connVars, length, written, expired, arrived, handed, sent, received, closing, done>>

chunk(w) == Min({length[w] - written[w], maxDataPlaneTransfer})

\* The driver delivers an outcome to the caller's result channel, if the caller
\* is still there.
outcome(c, r) ==
  /\ operation' = operation \ {c}
  /\ result' = IF pc[c] = "submitted" THEN [result EXCEPT ![c] = r] ELSE result

\* Some of the next bytes of a stream, or the next datagram or connection.  A
\* datagram may come from somebody else than the peer of a datagramConn.
answerRead(r) ==
  /\ ~done
  /\ r \in operation \cap Readers
  /\ \E n \in 1 .. (IF kind = "stream" THEN maxDataPlaneTransfer ELSE 1) :
       LET items == [i \in 1 .. n |-> arrived + i]
       IN  /\ arrived + n <= MaxItems
           /\ arrived' = arrived + n
           /\ \/ /\ handed' = handed \o items
                 /\ outcome(r, ItemsRead(items))
              \/ /\ kind = "datagram"
                 /\ outcome(r, Answer("other"))
                 /\ UNCHANGED handed
  /\ UNCHANGED <<connVars, pc, length, written, resource, expired, sent, received, closing, done>>

\* The peer has closed its side.
answerEOF(r) ==
  /\ ~done
  /\ r \in operation \cap Readers
  /\ kind = "stream"
  /\ outcome(r, Answer("eof"))
  /\ UNCHANGED <<connVars, pc, length, written, resource, expired, arrived, handed, sent,
                 received, closing, done>>

\* The guest accepts a part of the chunk, or the datagram.
answerWrite(w) ==
  /\ ~done
  /\ w \in operation \cap Writers
  /\ \E n \in 0 .. chunk(w) :
       /\ outcome(w, BytesWritten(n))
       /\ sent' = sent \o [i \in 1 .. n |-> <<w, written[w] + i>>]
  /\ UNCHANGED <<connVars, pc, length, written, resource, expired, arrived, handed, received,
                 closing, done>>

\* What the guest ends without a result: the deadline has passed, or the resource
\* is closed.
direction(c) == IF c \in Readers THEN "read" ELSE "write"

over(c) == ~resource \/ direction(c) \in expired

answerError(c) ==
  /\ ~done
  /\ c \in operation
  /\ over(c)
  /\ outcome(c, Answer("error"))
  /\ UNCHANGED <<connVars, pc, length, written, resource, expired, arrived, handed, sent,
                 received, closing, done>>

CloseInstance ==
  /\ ~closing
  /\ closing' = TRUE
  /\ UNCHANGED <<connVars, callVars, guestVars, received, done>>

\* The driver has dropped the instance.
driverEnds ==
  /\ closing
  /\ ~done
  /\ done' = TRUE
  /\ resource' = FALSE
  /\ operation' = {}
  /\ UNCHANGED <<connVars, callVars, expired, arrived, handed, sent, received, closing>>

-----------------------------------------------------------------------------
(* Returning.                                                              *)

\* The call ends; deferred unlocks and, for the first Close, close(closeDone).
leaveCall(c) ==
  /\ Go(c, IF c \in Readers THEN "idle" ELSE "returned")
  /\ readMu' = IF readMu = c THEN Nil ELSE readMu
  /\ writeMu' = IF writeMu = c THEN Nil ELSE writeMu
  /\ closeOnce' = IF c \in Closers THEN "done" ELSE closeOnce
  /\ UNCHANGED <<role, kind, closed, length, guestVars, closing, done>>

\* Read or Accept has a result.
receiveRead(r) ==
  /\ kind \in {"stream", "listener"}
  /\ pc[r] = "submitted"
  /\ result[r].type # "none"
  /\ result' = [result EXCEPT ![r] = NoResult]
  /\ received' = received \o result[r].items
  /\ leaveCall(r)
  /\ UNCHANGED written

\* ReadFrom has a result.
receiveFrom(r) ==
  /\ kind \in {"packet", "datagram"}
  /\ pc[r] = "submitted"
  /\ result[r].type \notin {"none", "other"}
  /\ result' = [result EXCEPT ![r] = NoResult]
  /\ received' = received \o result[r].items
  /\ leaveCall(r)
  /\ UNCHANGED written

\* datagramConn.Read goes on with another ReadFrom when the datagram is not from
\* its peer.
skipOther(r) ==
  /\ pc[r] = "submitted"
  /\ result[r].type = "other"
  /\ result' = [result EXCEPT ![r] = NoResult]
  /\ Go(r, "entering")
  /\ readMu' = Nil
  /\ UNCHANGED <<role, kind, writeMu, closed, closeOnce, length, written, guestVars, received,
                 closing, done>>

\* How far a Write is after a result.
Bug_advanceChunk(w) == IF result[w].type = "length" THEN written[w] + chunk(w) ELSE written[w]
advance(w) == written[w] + result[w].n

tookResult(w) ==
  /\ pc[w] = "submitted"
  /\ result[w].type # "none"
  /\ result' = [result EXCEPT ![w] = NoResult]
  /\ written' = [written EXCEPT ![w] = advance(w)]
  /\ UNCHANGED received

\* Write goes on with the next chunk until all is written; a length that is not
\* between 1 and that of the chunk is a short write.
receiveWrite(w) ==
  /\ kind = "stream"
  /\ tookResult(w)
  /\ \/ /\ result[w].n > 0
        /\ advance(w) < length[w]
        /\ Go(w, "asking")
        /\ UNCHANGED <<connVars, length, guestVars, closing, done>>
     \/ /\ result[w].n = 0 \/ advance(w) >= length[w]
        /\ leaveCall(w)

receiveWriteTo(w) ==
  /\ kind \in {"packet", "datagram"}
  /\ tookResult(w)
  /\ leaveCall(w)

receiveClose(x) ==
  /\ pc[x] = "submitted"
  /\ result[x].type # "none"
  /\ result' = [result EXCEPT ![x] = NoResult]
  /\ leaveCall(x)
  /\ UNCHANGED <<written, received>>

\* net.ErrClosed, whatever the operation comes to.
leaveClosing(c) ==
  /\ closing \/ done
  /\ pc[c] \in {"asking", "submitted"}
  /\ result' = [result EXCEPT ![c] = NoResult]
  /\ leaveCall(c)
  /\ UNCHANGED <<written, received>>

Next ==
  \/ Dial
  \/ DialUDP
  \/ ListenPacket
  \/ Listen
  \/ \E r \in Readers : Read(r)
  \/ \E w \in Writers, n \in Lengths : Write(w, n)
  \/ \E x \in Closers : Close(x)
  \/ \E r \in Readers : enterRead(r)
  \/ \E r \in Readers : ReadFrom(r)
  \/ \E r \in Readers : Accept(r)
  \/ \E w \in Writers : enterWrite(w)
  \/ \E w \in Writers : WriteTo(w)
  \/ \E x \in Closers : closeStream(x)
  \/ \E x \in Closers : closePacket(x)
  \/ \E x \in Closers : closeListener(x)
  \/ \E x \in Closers : waitForClose(x)
  \/ \E directions \in {{"read"}, {"write"}, {"read", "write"}}, passed \in BOOLEAN :
       SetDeadline(directions, passed) \/ SetPacketDeadline(directions, passed)
  \/ \E c \in Calls : submit(c)
  \/ \E r \in Readers : answerRead(r)
  \/ \E r \in Readers : answerEOF(r)
  \/ \E w \in Writers : answerWrite(w)
  \/ \E c \in Calls : answerError(c)
  \/ CloseInstance
  \/ driverEnds
  \/ \E r \in Readers : receiveRead(r)
  \/ \E r \in Readers : receiveFrom(r)
  \/ \E r \in Readers : skipOther(r)
  \/ \E w \in Writers : receiveWrite(w)
  \/ \E w \in Writers : receiveWriteTo(w)
  \/ \E x \in Closers : receiveClose(x)
  \/ \E c \in Calls : leaveClosing(c)

Spec == Init /\ [][Next]_vars

enter(c) ==
  \/ c \in Readers /\ (enterRead(c) \/ ReadFrom(c) \/ Accept(c))
  \/ c \in Writers /\ (enterWrite(c) \/ WriteTo(c))

proceed(c) ==
  \/ submit(c) \/ answerError(c) \/ leaveClosing(c)
  \/ c \in Readers /\ (receiveRead(c) \/ receiveFrom(c) \/ skipOther(c))
  \/ c \in Writers /\ (receiveWrite(c) \/ receiveWriteTo(c))
  \/ c \in Closers /\ (closeOnceDo(c) \/ receiveClose(c) \/ waitForClose(c))

\* Goroutines run, Go's mutexes do not starve a waiter, the driver serves its
\* commands, and the guest ends operations whose deadline or resource is gone.
Fairness == \A c \in Calls : SF_vars(enter(c)) /\ WF_vars(proceed(c))

FairSpec == Spec /\ Fairness

-----------------------------------------------------------------------------
(* Properties.                                                             *)

inFlight == {r \in Readers : result[r].type = "items"}

\* The mutexes are held exactly by calls that have an operation.
MutexesHeld ==
  /\ readMu # Nil => pc[readMu] \in {"asking", "submitted"}
  /\ writeMu # Nil => pc[writeMu] \in {"asking", "submitted"}
  /\ kind \in {"stream", "packet", "datagram"} =>
       \A r \in Readers : pc[r] \in {"asking", "submitted"} => readMu = r
  /\ \A w \in Writers : pc[w] \in {"asking", "submitted"} => writeMu = w
  /\ closeOnce = "idle" <=> ~closed

\* A result channel is used by a call that waits for it, once, and carries items
\* or a length but not both; an operation outlives its call only when the
\* instance closes; a call needs a connection, and a Write starts from nothing.
CallsAgree ==
  /\ done => closing
  /\ kind = Nil => \A c \in Calls : pc[c] = "idle"
  /\ \A c \in Calls :
       /\ result[c] # NoResult => pc[c] = "submitted" /\ c \notin operation
       /\ result[c].type = "none" => result[c] = NoResult
       /\ result[c].type # "items" => result[c].items = <<>>
       /\ result[c].type # "length" => result[c].n = 0
       /\ kind = "listener" /\ result[c].type = "items" => Len(result[c].items) = 1
       /\ c \in operation =>
            /\ c \notin Closers
            /\ pc[c] \in {"submitted", IF c \in Readers THEN "idle" ELSE "returned"}
            /\ pc[c] = "submitted" \/ closing
       /\ c \in Writers /\ pc[c] \in {"idle", "entering"} => written[c] = 0
       /\ c \in Closers /\ pc[c] \in {"asking", "submitted"} => closeOnce # "idle"
       /\ pc[c] = "waiting" => c \in Closers

\* No item is in two places: among those Read has returned, and in the result
\* channels, each is there once, and was handed out by the guest.
EachItemOnce ==
  /\ ToSet(handed) \subseteq 1 .. arrived
  /\ IsInjective(received)
  /\ ToSet(received) \subseteq ToSet(handed)
  /\ \A c \in Calls :
       /\ IsInjective(result[c].items)
       /\ ToSet(result[c].items) \subseteq ToSet(handed) \ ToSet(received)
       /\ \A d \in Calls \ {c} : ToSet(result[c].items) \cap ToSet(result[d].items) = {}

\* What the holder of readMu is about to return.
inHand == IF readMu = Nil THEN <<>> ELSE result[readMu].items

\* What the program reads is what arrived: in order and without a gap for the
\* kinds that have a mutex, each connection once for a listener.  Only an
\* instance that closes under a Read loses what the guest has already handed out,
\* and never to show it again.
ReadsAreConsecutive ==
  /\ EachItemOnce
  /\ (~closing /\ kind # "listener") => handed = received \o inHand
  /\ (~closing /\ kind = "listener") =>
       IsFiniteSet(inFlight) /\ Len(handed) - Len(received) = Cardinality(inFlight)

\* Types, the mutexes, and where calls and operations are.
Consistent == TypeOK /\ MutexesHeld /\ CallsAgree

\* Bytes of w that the guest has accepted.
accepted(w) == {i \in DOMAIN sent : sent[i][1] = w}

\* They are its first k, in order.
acceptedUpTo(w, k) ==
  /\ {sent[i][2] : i \in accepted(w)} = 1 .. k
  /\ \A i, j \in accepted(w) : i < j => sent[i][2] < sent[j][2]

\* What the guest has accepted of a Write is what the call knows of, and what is
\* in its result channel, or, once the instance closes under it, one chunk more;
\* while the call lasts nobody else's bytes follow.
WritesAgree ==
  \A w \in Writers :
    /\ \E k \in written[w] .. (written[w] + maxDataPlaneTransfer) :
         /\ acceptedUpTo(w, k)
         /\ ~closing \/ pc[w] # "returned" => k = written[w] + result[w].n
         /\ w \in operation => k = written[w]
    /\ ~closing /\ pc[w] # "returned" =>
         \A i \in accepted(w) : \A j \in i .. Len(sent) : j \in accepted(w)

\* A Write that returns n has had its first n bytes accepted, in order and with
\* nothing of another Write in between.  More than n only when the instance was
\* closing: then one chunk is in doubt, which the guest accepts after the caller
\* has gone.
WritesAreExact ==
  /\ WritesAgree
  /\ \A w \in Writers :
       /\ ~closing => \A i, j \in accepted(w) : \A k \in i .. j : k \in accepted(w)
       /\ \A i \in 1 .. written[w] : Contains(sent, <<w, i>>)
       /\ Cardinality(accepted(w)) <= written[w] + maxDataPlaneTransfer
       /\ (pc[w] = "returned" /\ ~closing) => Cardinality(accepted(w)) = written[w]

\* Neither direction of a connection loses, repeats or makes up anything.
BytesAreExact == ReadsAreConsecutive /\ WritesAreExact

\* A call that waits returns once the resource is closed, its deadline passes or
\* the instance closes, and every Close returns, however many reads are blocked.
CallsReturn ==
  /\ \A c \in Calls :
       (c \notin Closers /\ pc[c] \in {"asking", "submitted"} /\ (closing \/ over(c)))
         ~> (pc[c] \notin {"asking", "submitted"} \/ ~(closing \/ over(c)))
  /\ \A x \in Calls : (x \in Closers /\ pc[x] = "entering") ~> pc[x] = "returned"

=============================================================================
