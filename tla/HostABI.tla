------------------------------- MODULE HostABI -------------------------------
(***************************************************************************)
(* The functions the guest imports from its host (internal/hostabi): an    *)
(* Adapter translates between the guest's memory and the reactor.  Each    *)
(* start function reads and decodes a request and starts an operation;     *)
(* each take function fetches its result, encodes it into memory the guest *)
(* points at, and returns a status.  Memory may be out of bounds, too      *)
(* small, or too small for this answer only; answers may not be encodable. *)
(*                                                                         *)
(* The status is all the guest learns: from it, it concludes whether the   *)
(* operation is over, and whether it now owns a handle.                    *)
(*                                                                         *)
(* The reactor is the one of HostOperations, plus the connections, bytes   *)
(* and datagrams that sockets hold for whoever takes them first.           *)
(*                                                                         *)
(* Under the guest, sockets are closed with operations waiting at them,    *)
(* packet sinks end with waits for room on them, and the reactor closes.   *)
(*                                                                         *)
(* Data.  An item is a handle, a chunk of bytes, a datagram or an answer;  *)
(* what was found out about an item at the end is its state.  Which socket *)
(* an operation waits at is left open: closing one settles some of the     *)
(* operations of its kinds.                                                *)
(***************************************************************************)
EXTENDS Integers, Sequences, FiniteSets, SequencesExt

CONSTANTS
  Ops,       \* operation ids the guest uses
  Items,     \* handles, data and answers: a bound on how many there are
  Platform,  \* "unix", "windows" or "other": which connect_error_*.go is built
  Nil

\* The kinds of operations, by how their result is fetched.
CreateKinds  == {"connect", "bind", "listen"}
SharedKinds  == {"accept", "read", "udpRead"}
DNSKinds     == {"dnsAddress", "dnsTXT", "dnsSRV"}
LookKinds    == DNSKinds \cup {"management"}
PlainKinds   == {"write", "udpWrite", "packetWrite"}
Kinds        == CreateKinds \cup SharedKinds \cup LookKinds \cup PlainKinds \cup {"environment"}

\* The errors an operation of the reactor or of the platform ends with.
Errors == {"nil", "refused", "invalid", "other"}

\* What the reactor has for an operation or for the next taker: item is Nil when
\* there is only an error, or nothing but success to tell.
Results == [item : Items \cup {Nil}, err : Errors, encodable : BOOLEAN]

ASSUME NilAssumption ==
  Nil \notin Ops /\ Nil \notin Kinds /\ Nil \notin Items /\ Nil \notin Results

VARIABLES
  closed,    \* the reactor is closed
  asked,     \* the kind of the operation registered under an id
  reply,     \* its result
  stored,    \* what a listener, a stream and a datagram socket hold
  item,      \* what has become of an item
  awaiting   \* the kind of the operation the guest believes to be in progress

vars == <<closed, asked, reply, stored, item, awaiting>>

\* The tables of CloseHandle.
Handles == {"stream", "datagram", "listener"}

\* Not there yet; held by the reactor; a handle of the guest, or data it has; a
\* closed socket; given up at the guest's request; given up with an error status;
\* gone without a trace.
ItemStates == Handles \cup {"new", "reactor", "guest", "closed", "dropped", "told", "lost"}

TypeOK ==
  /\ closed \in BOOLEAN
  /\ asked \in [Ops -> Kinds \cup {Nil}]
  /\ reply \in [Ops -> Results \cup {Nil}]
  /\ stored \in [SharedKinds -> Seq(Results)]
  /\ item \in [Items -> ItemStates]
  /\ awaiting \in [Ops -> Kinds \cup {Nil}]

fresh == {x \in Items : item[x] = "new"}

\* A result never carries both a handle and an error (TakeTCPConnect and the
\* others see to it); bytes may come with one, and a read without both is the
\* end of the stream.  Management handlers put their errors into the answer.
\* ErrInvalid is the answer where the socket is gone.
resultsFor(kind) ==
  {r \in Results :
     /\ kind \in PlainKinds => r.item = Nil
     /\ kind \notin PlainKinds \cup {"read"} /\ r.item = Nil => r.err # "nil"
     /\ kind = "management" => r.err = "nil"
     /\ r.item # Nil /\ kind # "read" => r.err = "nil"
     /\ r.item = Nil \/ kind \in {"read", "management"} => r.encodable
     /\ r.err = "refused" => kind = "connect"
     /\ r.err = "invalid" => kind \in {"accept", "udpRead", "udpWrite"}}

Reactor == INSTANCE HostOperations WITH Questions <- Kinds, AnswersTo <- resultsFor

\* New: an adapter has a reactor from its start.
Init ==
  /\ Reactor!Init
  /\ stored = [k \in SharedKinds |-> <<>>]
  /\ item = [x \in Items |-> "new"]
  /\ awaiting = [op \in Ops |-> Nil]

-----------------------------------------------------------------------------
(* Statuses.                                                               *)

operationStatus(err) ==
  CASE err = "nil" -> "ok"
    [] err = "pending" -> "pending"
    [] err = "invalid" -> "invalid"
    [] err = "wouldBlock" -> "wouldBlock"
    [] OTHER -> "io"

\* The errors isConnectionRefused, isConnectionAborted, isConnectionReset and
\* isNotConnected know, by platform.
unixConnectErrors    == {"refused", "aborted", "reset", "notConnected"}
windowsConnectErrors == {"refused", "aborted", "reset", "notConnected"}
otherConnectErrors   == {}
connectErrors ==
  CASE Platform = "unix" -> unixConnectErrors
    [] Platform = "windows" -> windowsConnectErrors
    [] OTHER -> otherConnectErrors

connectStatus(err) ==
  IF err \in connectErrors THEN err
  ELSE IF err = "wouldBlock" THEN "io" ELSE operationStatus(err)

\* The guest's side of the protocol: does this status of a take function of
\* `export`, called for an operation of `kind`, end the operation?
endsOperation(export, kind, status) ==
  CASE status \in {"pending", "length"} -> FALSE
    [] status = "memory"  -> export # "udpRead"
    [] status = "invalid" -> export = kind
    [] OTHER -> TRUE

\* A take function of `export` returns for an operation the guest awaits.
returns(op, export, status) ==
  awaiting' = IF endsOperation(export, awaiting[op], status)
              THEN [awaiting EXCEPT ![op] = Nil] ELSE awaiting

\* It is the one for the operation's own kind.
return(op, status) == returns(op, asked[op], status)

-----------------------------------------------------------------------------
(* The reactor's side (external): results arrive.                          *)

arrives(r) ==
  /\ r.item \in fresh \cup {Nil}
  /\ item' = [x \in Items |-> IF x = r.item THEN "reactor" ELSE item[x]]

\* The platform answers.
Answered(op, r) ==
  /\ asked[op] \in Kinds \ SharedKinds
  /\ Reactor!Answer(op, r)
  /\ arrives(r)
  /\ UNCHANGED <<stored, awaiting>>

\* A connection, bytes or a datagram arrive at a socket that has none stored.
Stores(kind, r) ==
  /\ ~closed
  /\ stored[kind] = <<>>
  /\ r.err # "invalid"
  /\ stored' = [stored EXCEPT ![kind] = <<r>>]
  /\ arrives(r)
  /\ UNCHANGED <<closed, asked, reply, awaiting>>

-----------------------------------------------------------------------------
(* Starting: each start function reads its request from the guest's memory *)
(* and decodes it; a request that is not readable or not well-formed       *)
(* starts nothing.                                                         *)

start(op, kind) ==
  /\ Reactor!Start(op, kind)
  /\ awaiting' = [awaiting EXCEPT ![op] = kind]
  /\ UNCHANGED <<stored, item>>

startTCPConnect(op)         == start(op, "connect")
startUDPBind(op)            == start(op, "bind")
startTCPListen(op)          == start(op, "listen")
startTCPAccept(op)          == start(op, "accept")
startRead(op)               == start(op, "read")
startWrite(op)              == start(op, "write")
startUDPReceive(op)         == start(op, "udpRead")
startUDPSendReady(op)       == start(op, "udpWrite")
startPacketWriteReady(op)   == start(op, "packetWrite")
startDNS(op, kind)          == start(op, kind)
startLocalAddrForRemote(op) == start(op, "environment")
startManagement(op)         == start(op, "management")

Starts(op) ==
  \/ startTCPConnect(op)
  \/ startUDPBind(op)
  \/ startTCPListen(op)
  \/ startTCPAccept(op)
  \/ startRead(op)
  \/ startWrite(op)
  \/ startUDPReceive(op)
  \/ startUDPSendReady(op)
  \/ startPacketWriteReady(op)
  \/ \E kind \in DNSKinds : startDNS(op, kind)
  \/ startLocalAddrForRemote(op)
  \/ startManagement(op)

-----------------------------------------------------------------------------
(* Taking.                                                                 *)

\* The result of an operation: its own, or what its socket has stored.
ownResult(op) == reply[op] # Nil \/ asked[op] \notin SharedKinds
result(op) == IF ownResult(op) THEN reply[op] ELSE Head(stored[asked[op]])
hasResult(op) ==
  /\ asked[op] # Nil
  /\ IF ownResult(op) THEN reply[op] # Nil ELSE stored[asked[op]] # <<>>

\* ErrPending: there is no result, or an earlier read has to be taken first.
takePending(op) ==
  /\ asked[op] # Nil
  /\ hasResult(op) => asked[op] = "read"
  /\ return(op, "pending")
  /\ UNCHANGED <<closed, asked, reply, stored, item>>

\* CancelOperation: a socket that was created is closed, an answer forgotten;
\* what a socket has stored stays for the next operation.
cancelled(op) ==
  IF reply[op] = Nil THEN Nil ELSE reply[op].item
CancelOperation(op) ==
  /\ Reactor!Release(op)
  /\ item' = [x \in Items |-> IF x # cancelled(op) THEN item[x]
                              ELSE IF asked[op] \in CreateKinds THEN "closed" ELSE "dropped"]
  /\ UNCHANGED stored

\* Item x leaves the reactor; `fate` is what becomes of it.
hand(x, fate) == item' = [y \in Items |-> IF y = x THEN fate ELSE item[y]]

\* The result of an operation is fetched, and with it the operation released.
fetch(op) ==
  /\ hasResult(op)
  /\ Reactor!Release(op)
  /\ stored' = IF ownResult(op) THEN stored ELSE [stored EXCEPT ![asked[op]] = Tail(@)]

\* A result that is an error: its status says so.
takeError(op, status) ==
  /\ fetch(op)
  /\ result(op).item = Nil
  /\ result(op).err # "nil"
  /\ UNCHANGED item
  /\ return(op, status)

\* validResultMemory: wrong length, or out of bounds.
invalidResultMemory(op) ==
  /\ CancelOperation(op)
  /\ return(op, "memory")

\* A handle the guest cannot be told of is closed again.
opened(kind) ==
  CASE kind = "bind" -> "datagram" [] kind = "listen" -> "listener" [] OTHER -> "stream"
Bug_handleKept(kind, encodable) == IF encodable THEN opened(kind) ELSE "lost"
handle(kind, encodable) == IF encodable THEN opened(kind) ELSE "closed"

\* A socket is taken: the result memory is checked, the operation is over, and
\* the guest owns the handle or nobody does.
takeSocket(op, mem, status(_)) ==
  \/ /\ ~mem
     /\ invalidResultMemory(op)
  \/ /\ mem
     /\ takeError(op, status(result(op).err))
  \/ /\ mem
     /\ fetch(op)
     /\ result(op).item # Nil
     /\ hand(result(op).item, handle(asked[op], result(op).encodable))
     /\ return(op, IF result(op).encodable THEN "ok" ELSE "memory")

takeTCPConnect(op, mem) == asked[op] = "connect" /\ takeSocket(op, mem, connectStatus)
takeUDPBind(op, mem)    == asked[op] = "bind" /\ takeSocket(op, mem, operationStatus)
takeTCPListen(op, mem)  == asked[op] = "listen" /\ takeSocket(op, mem, operationStatus)
takeTCPAccept(op, mem)  == asked[op] = "accept" /\ takeSocket(op, mem, operationStatus)

takeLocalAddrForRemote(op, mem) ==
  /\ asked[op] = "environment"
  /\ \/ /\ ~mem
        /\ invalidResultMemory(op)
     \/ mem /\ takeError(op, operationStatus(result(op).err))
     \/ /\ mem
        /\ fetch(op)
        /\ result(op).item # Nil
        /\ hand(result(op).item, IF result(op).encodable THEN "guest" ELSE "told")
        /\ return(op, IF result(op).encodable THEN "ok" ELSE "invalid")

\* The bytes are out of the stream before the memory is looked at: bad memory, a
\* capacity below the one of start_read, or an error that came with them, and
\* they are gone.  The status says so.
takeRead(op, mem, fits) ==
  /\ asked[op] = "read"
  /\ fetch(op)
  /\ LET r == result(op)
         delivered == r.err = "nil" /\ (r.item = Nil \/ (mem /\ fits))
     IN  /\ hand(r.item, IF delivered THEN "guest" ELSE "told")
         /\ return(op, IF r.err # "nil" THEN operationStatus(r.err)
                       ELSE IF delivered THEN "ok" ELSE "memory")

\* Success or an error, and nothing else to tell.
takePlain(op) ==
  /\ fetch(op)
  /\ UNCHANGED item
  /\ return(op, operationStatus(result(op).err))

takeWrite(op)            == asked[op] = "write" /\ takePlain(op)
takeUDPSendReady(op)     == asked[op] = "udpWrite" /\ takePlain(op)
takePacketWriteReady(op) == asked[op] = "packetWrite" /\ takePlain(op)

\* Both regions are checked before the datagram is taken, so that writing to
\* them cannot fail; a longer datagram is cut off.
Bug_takeUDPReceiveUnchecked(op, mem) ==
  /\ asked[op] = "udpRead"
  /\ \/ takeError(op, operationStatus(result(op).err))
     \/ /\ fetch(op)
        /\ result(op).item # Nil
        /\ LET delivered == mem /\ result(op).encodable
           IN  /\ hand(result(op).item, IF delivered THEN "guest" ELSE "told")
               /\ return(op, IF ~mem THEN "memory" ELSE IF delivered THEN "ok" ELSE "invalid")
takeUDPReceive(op, mem) ==
  /\ asked[op] = "udpRead"
  /\ \/ /\ ~mem
        /\ return(op, "memory")
        /\ UNCHANGED <<closed, asked, reply, stored, item>>
     \/ mem /\ takeError(op, operationStatus(result(op).err))
     \/ /\ mem
        /\ fetch(op)
        /\ result(op).item # Nil
        /\ hand(result(op).item, IF result(op).encodable THEN "guest" ELSE "told")
        /\ return(op, IF result(op).encodable THEN "ok" ELSE "invalid")

\* The answer stays where it is as long as the guest's buffer is too small.
tooSmall(op) ==
  /\ hasResult(op)
  /\ return(op, "length")
  /\ UNCHANGED <<closed, asked, reply, stored, item>>

\* FinishDNS or FinishManagement, then the write; a failing write loses the
\* answer, and the status says so.
finish(op, mem) ==
  /\ fetch(op)
  /\ hand(result(op).item, IF mem THEN "guest" ELSE "told")
  /\ return(op, IF mem THEN "ok" ELSE "memory")

\* Encoding fails: the answer is given up.
giveUp(op) ==
  /\ fetch(op)
  /\ hand(result(op).item, "told")
  /\ return(op, "invalid")

takeDNS(op, mem, fits) ==
  /\ asked[op] \in DNSKinds
  /\ \/ takeError(op, operationStatus(result(op).err))
     \/ /\ hasResult(op)
        /\ result(op).item # Nil
        /\ \/ ~result(op).encodable /\ giveUp(op)
           \/ result(op).encodable /\ ~fits /\ tooSmall(op)
           \/ result(op).encodable /\ fits /\ finish(op, mem)

\* A response over maxManagementMessageLen is cancelled.
takeManagement(op, mem, fits, long) ==
  /\ asked[op] = "management"
  /\ hasResult(op)
  /\ \/ long /\ CancelOperation(op) /\ return(op, "invalid")
     \/ ~long /\ ~fits /\ tooSmall(op)
     \/ ~long /\ fits /\ finish(op, mem)

\* A take function of another kind than the operation's.  The ones that check
\* their result memory first cancel whatever has the id; all others, and these
\* too when the memory is good, answer ErrInvalid and leave it alone.
checksFirst == CreateKinds \cup {"accept", "environment"}
takeOther(op, export, mem) ==
  /\ asked[op] # Nil
  /\ asked[op] # export
  /\ ~(asked[op] \in DNSKinds /\ export \in DNSKinds)
  /\ \/ /\ ~mem
        /\ export \in checksFirst
        /\ CancelOperation(op)
        /\ returns(op, export, "memory")
     \/ /\ mem \/ export \notin checksFirst
        /\ returns(op, export, "invalid")
        /\ UNCHANGED <<closed, asked, reply, stored, item>>

\* The three take functions for names share DNSResult, which knows one kind of
\* operation only: a lookup under way is pending and a failed one is released,
\* whoever asks; an answer is refused, and stays, when it is of another kind.
takeOtherDNS(op, export) ==
  /\ asked[op] \in DNSKinds
  /\ export \in DNSKinds \ {asked[op]}
  /\ \/ /\ ~hasResult(op)
        /\ returns(op, export, "pending")
        /\ UNCHANGED <<closed, asked, reply, stored, item>>
     \/ /\ fetch(op)
        /\ result(op).item = Nil
        /\ returns(op, export, operationStatus(result(op).err))
        /\ UNCHANGED item
     \/ /\ hasResult(op)
        /\ result(op).item # Nil
        /\ returns(op, export, "invalid")
        /\ UNCHANGED <<closed, asked, reply, stored, item>>

\* A take function for an operation the guest awaits and the reactor no longer
\* knows: memory that is checked first is still checked, then ErrInvalid.
takeGone(op, export, mem) ==
  /\ asked[op] = Nil
  /\ awaiting[op] # Nil
  /\ returns(op, export, IF ~mem /\ export \in checksFirst \cup {"udpRead"} THEN "memory" ELSE "invalid")
  /\ UNCHANGED <<closed, asked, reply, stored, item>>

\* cancel_operation: nothing happens when the reactor does not know the id.
cancelOperation(op) ==
  /\ awaiting[op] # Nil
  /\ \/ CancelOperation(op)
     \/ asked[op] = Nil /\ UNCHANGED <<closed, asked, reply, stored, item>>
  /\ awaiting' = [awaiting EXCEPT ![op] = Nil]

-----------------------------------------------------------------------------
(* What happens to operations under the guest.                             *)

\* The kind of operation that takes what a socket stores.
takes(socket) == CASE socket = "stream" -> "read" [] socket = "datagram" -> "udpRead" [] OTHER -> "accept"

\* What an operation at a closed socket ends with: net.ErrClosed at a stream,
\* ErrInvalid where the handle is looked up again.
closedResult(socket) ==
  [item |-> Nil, err |-> IF socket = "stream" THEN "other" ELSE "invalid", encodable |-> TRUE]

\* The operations that CloseHandle may settle: reads, accepts and queued writes
\* that have no result yet; the waits for room that were about to succeed (the
\* others get their answer when the queue is drained).
unsettled(socket) ==
  {op \in Ops : \/ asked[op] = takes(socket) /\ reply[op] = Nil
                \/ asked[op] = "write" /\ socket = "stream" /\ reply[op] = Nil
                \/ asked[op] = "udpWrite" /\ socket = "datagram" /\ reply[op] # Nil}

\* close, of a handle the guest was given, with the operations `at` settled.
\* What the socket had stored, if it was this one's (`own`), goes with it, but
\* for bytes that a read still takes.
closeHandle(x, at, own, taker) ==
  LET socket == item[x]
      kept   == stored[takes(socket)]
      left   == IF own THEN Head(kept).item ELSE Nil
  IN  /\ item[x] \in Handles
      /\ at \subseteq unsettled(socket)
      /\ own => kept # <<>>
      /\ taker \in IF own /\ socket = "stream" THEN {Nil} \cup {op \in at : asked[op] = "read"} ELSE {Nil}
      /\ reply' = [op \in Ops |-> IF op = taker THEN Head(kept)
                                  ELSE IF op \in at THEN closedResult(socket) ELSE reply[op]]
      /\ stored' = IF own THEN [stored EXCEPT ![takes(socket)] = <<>>] ELSE stored
      /\ item' = [y \in Items |-> IF y = x THEN "closed"
                                  ELSE IF y # left \/ taker # Nil THEN item[y]
                                  ELSE IF socket = "listener" THEN "closed" ELSE "dropped"]
      /\ UNCHANGED <<closed, asked, awaiting>>

\* UnregisterPacketSink releases the waits for room `on` the sink and tells the
\* guest nothing.
UnregisterPacketSink(on) ==
  /\ ~closed
  /\ on # {}
  /\ \A op \in on : asked[op] = "packetWrite"
  /\ asked' = [op \in Ops |-> IF op \in on THEN Nil ELSE asked[op]]
  /\ reply' = [op \in Ops |-> IF op \in on THEN Nil ELSE reply[op]]
  /\ UNCHANGED <<closed, stored, item, awaiting>>

\* The reactor is closed under the guest: everything it holds goes.
ReactorCloses ==
  /\ Reactor!Close
  /\ item' = [x \in Items |-> IF item[x] \in Handles \cup {"reactor"} THEN "closed" ELSE item[x]]
  /\ stored' = [k \in SharedKinds |-> <<>>]
  /\ UNCHANGED awaiting

\* The functions Instantiate exports to the guest, and what the reactor does.
Next ==
  \/ \E op \in Ops : Starts(op)
  \/ \E op \in Ops : asked[op] # Nil /\ \E r \in resultsFor(asked[op]) : Answered(op, r)
  \/ \E kind \in SharedKinds : \E r \in resultsFor(kind) : Stores(kind, r)
  \/ \E op \in Ops : takePending(op)
  \/ \E op \in Ops, mem \in BOOLEAN : takeTCPConnect(op, mem)
  \/ \E op \in Ops, mem \in BOOLEAN : takeUDPBind(op, mem)
  \/ \E op \in Ops, mem \in BOOLEAN : takeTCPListen(op, mem)
  \/ \E op \in Ops, mem \in BOOLEAN : takeTCPAccept(op, mem)
  \/ \E op \in Ops, mem \in BOOLEAN : takeLocalAddrForRemote(op, mem)
  \/ \E op \in Ops, mem, fits \in BOOLEAN : takeRead(op, mem, fits)
  \/ \E op \in Ops : takeWrite(op)
  \/ \E op \in Ops : takeUDPSendReady(op)
  \/ \E op \in Ops : takePacketWriteReady(op)
  \/ \E op \in Ops, mem \in BOOLEAN : takeUDPReceive(op, mem)
  \/ \E op \in Ops, mem, fits \in BOOLEAN : takeDNS(op, mem, fits)
  \/ \E op \in Ops, mem, fits, long \in BOOLEAN : takeManagement(op, mem, fits, long)
  \/ \E op \in Ops, export \in Kinds, mem \in BOOLEAN : takeOther(op, export, mem)
  \/ \E op \in Ops, export \in DNSKinds : takeOtherDNS(op, export)
  \/ \E op \in Ops, export \in Kinds, mem \in BOOLEAN : takeGone(op, export, mem)
  \/ \E op \in Ops : cancelOperation(op)
  \/ \E x \in Items, at \in SUBSET Ops, own \in BOOLEAN, taker \in Ops \cup {Nil} :
       closeHandle(x, at, own, taker)
  \/ \E on \in SUBSET Ops : UnregisterPacketSink(on)
  \/ ReactorCloses

Spec == Init /\ [][Next]_vars

-----------------------------------------------------------------------------
(* Properties.                                                             *)

\* What the guest concludes from statuses is what the reactor's table says: no
\* id it takes for free is still registered (it could never use it again), and
\* an operation it awaits is registered, as what it was started as.  Exempt are
\* the waits for room on a packet sink that has ended, and everything once the
\* reactor is closed: of these the guest learns when it next asks.
GuestAndHostAgree ==
  \A op \in Ops :
    awaiting[op] # asked[op] => asked[op] = Nil /\ (closed \/ awaiting[op] = "packetWrite")

\* Everything that left the reactor reached the guest, was given up at the
\* guest's request, or was reported to the guest as failed; a handle the guest
\* could not be told of is closed.  What is inside the reactor is there once.
NothingLost ==
  \A x \in Items :
    /\ item[x] # "lost"
    /\ Cardinality({op \in Ops : reply[op] # Nil /\ reply[op].item = x})
         + Cardinality({k \in SharedKinds : \E i \in DOMAIN stored[k] : stored[k][i].item = x})
         = IF item[x] = "reactor" THEN 1 ELSE 0

\* A result waits under the id it was computed for, and is one this kind of
\* operation can have; a socket holds one result at most for the next taker.
ResultsFit ==
  /\ \A op \in Ops : reply[op] # Nil => asked[op] # Nil /\ reply[op] \in resultsFor(asked[op])
  /\ \A k \in SharedKinds : stored[k] # <<>> =>
       stored[k] = <<Head(stored[k])>> /\ Head(stored[k]) \in resultsFor(k)

\* The items the reactor holds for an operation and at a socket.
replyItem(op) == IF reply[op] = Nil THEN Nil ELSE reply[op].item
storedItem(k) == IF stored[k] = <<>> THEN Nil ELSE Head(stored[k]).item

\* No two places of the reactor hold the same item, and exactly the items that
\* are in one of them count as the reactor's.
HeldOnce ==
  /\ \A op, p \in Ops : replyItem(op) # Nil /\ replyItem(op) = replyItem(p) => op = p
  /\ \A j, k \in SharedKinds : storedItem(j) # Nil /\ storedItem(j) = storedItem(k) => j = k
  /\ \A op \in Ops, k \in SharedKinds : replyItem(op) # Nil => replyItem(op) # storedItem(k)
  /\ \A x \in Items :
       item[x] = "reactor" <=> \/ \E op \in Ops : replyItem(op) = x
                               \/ \E k \in SharedKinds : storedItem(k) = x

\* Types, the two sides of the table, and what waits in it.
Consistent ==
  /\ TypeOK
  /\ GuestAndHostAgree
  /\ ResultsFit
  /\ HeldOnce

=====
