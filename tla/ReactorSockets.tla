--------------------------- MODULE ReactorSockets ---------------------------
(***************************************************************************)
(* How sockets come into being and go away in internal/reactor:            *)
(* factory.go (TCP connect, UDP bind, TCP listen), listener.go (accept)    *)
(* and the parts of CancelOperation, CloseHandle and Close (reactor.go)    *)
(* that touch them.                                                        *)
(*                                                                         *)
(* A create operation runs the host's socket factory in a goroutine of its *)
(* own.  The goroutine may come back after the guest has cancelled the     *)
(* operation, has started another one under the same id, or the reactor    *)
(* was closed: it recognises its own createOperation by its address.       *)
(*                                                                         *)
(* A listener accepts one connection ahead: a goroutine inside Accept, a   *)
(* stored connection and a stored error exclude one another.               *)
(*                                                                         *)
(* Data.  A socket is a token.  Handles are never reused, so a handle is   *)
(* the token it was allocated for.  What is done with a socket that has a  *)
(* handle is the subject of ReactorStream and ReactorDatagram.             *)
(***************************************************************************)
EXTENDS ReactorCore

CONSTANTS
  Sockets,    \* sockets the factory and Accept can hand out: a bound on them
  CreateOps,  \* ids the guest creates sockets under (Ops, or fewer for a smaller model)
  MaxCreates, \* how often a socket is created under one id: a bound on them
  Kinds       \* the kinds of sockets the guest creates

\* Addresses of createOperations: the first, second ... of an id.
Creates == CreateOps \X (1 .. MaxCreates)

ASSUME CreateOpsAssumption == CreateOps \subseteq Ops
ASSUME MaxCreatesAssumption == MaxCreates \in Nat
ASSUME NilCreateAssumption == Nil \notin Creates
ASSUME NilSocketAssumption == Nil \notin Sockets

VARIABLES
  socket,         \* whether a socket exists yet, is open, or has been closed
  streams,        \* handles in Reactor.streams
  datagrams,      \* handles in Reactor.datagrams
  listeners,      \* handles in Reactor.listeners
  creates,        \* Reactor.creates
  create,         \* the createOperation at an address, Nil when it is garbage
  made,           \* history: how many createOperations an id has seen
  creating,       \* createOperations whose goroutine is inside the factory
  contexts,       \* createOperations whose context is not cancelled
  cancelDue,      \* createOperations CancelOperation is about to cancel
  accepts,        \* Reactor.accepts
  accepted,       \* listenerState.accepted
  acceptRunning,  \* listenerState.acceptRunning
  acceptErr,      \* listenerState.acceptErr # nil
  acceptors,      \* number of runTCPAccept goroutines of a listener
  closing,        \* who has left the lock and is about to close a socket
  maker           \* history: the createOperation or listener a socket is from

createVars == <<creates, create, made, creating, contexts, cancelDue>>
acceptVars == <<accepts, accepted, acceptRunning, acceptErr, acceptors>>
tables     == <<streams, datagrams, listeners>>
socketVars == <<socket, closing, maker>>
vars       == <<coreVars, createVars, acceptVars, tables, socketVars>>

\* createTCPConnect, createUDPBind, createTCPListen.
CreateKind == {"connect", "bind", "listen"}

ASSUME KindsAssumption == Kinds \subseteq CreateKind

CreateOperations ==
  [kind : CreateKind, done : BOOLEAN, err : BOOLEAN, resource : Sockets \cup {Nil}]

Waiters == [handle : Sockets, ready : BOOLEAN]

ASSUME NilRecordAssumption == Nil \notin CreateOperations \cup Waiters

\* A call of Close on a socket that is due: by an API call of the guest, by a
\* worker goroutine, or by Reactor.Close.
Closers == {"guest", "worker", "reactor"}

\* Every variable holds a value of its Go type.
TypeOK ==
  /\ CoreTypeOK
  /\ socket \in [Sockets -> {"unborn", "open", "closed"}]
  /\ streams \subseteq Sockets
  /\ datagrams \subseteq Sockets
  /\ listeners \subseteq Sockets
  /\ creates \in [Ops -> Creates \cup {Nil}]
  /\ create \in [Creates -> CreateOperations \cup {Nil}]
  /\ made \in [CreateOps -> 0 .. MaxCreates]
  /\ creating \subseteq Creates
  /\ contexts \subseteq Creates
  /\ cancelDue \subseteq Creates
  /\ accepts \in [Ops -> Waiters \cup {Nil}]
  /\ accepted \in [Sockets -> Seq(Sockets)]
  /\ acceptRunning \in [Sockets -> BOOLEAN]
  /\ acceptErr \in [Sockets -> BOOLEAN]
  /\ acceptors \in [Sockets -> Nat]
  /\ closing \in [Sockets -> Closers \cup {"none"}]
  /\ maker \in [Sockets -> Creates \cup Sockets \cup {Nil}]

\* New without initial sockets.
Init ==
  /\ CoreInit
  /\ socket = [x \in Sockets |-> "unborn"]
  /\ streams = {}
  /\ datagrams = {}
  /\ listeners = {}
  /\ creates = [op \in Ops |-> Nil]
  /\ create = [c \in Creates |-> Nil]
  /\ made = [op \in CreateOps |-> 0]
  /\ creating = {}
  /\ contexts = {}
  /\ cancelDue = {}
  /\ accepts = [op \in Ops |-> Nil]
  /\ accepted = [x \in Sockets |-> <<>>]
  /\ acceptRunning = [x \in Sockets |-> FALSE]
  /\ acceptErr = [x \in Sockets |-> FALSE]
  /\ acceptors = [x \in Sockets |-> 0]
  /\ closing = [x \in Sockets |-> "none"]
  /\ maker = [x \in Sockets |-> Nil]

-----------------------------------------------------------------------------
(* Sockets.                                                                *)

unborn == {x \in Sockets : socket[x] = "unborn"}

\* The factory or Accept returned x, or nothing.
born(x, from) ==
  /\ socket' = [y \in Sockets |-> IF y = x THEN "open" ELSE socket[y]]
  /\ maker' = [y \in Sockets |-> IF y = x THEN from ELSE maker[y]]

\* `who` left the lock with these sockets to close.
closeLater(xs, who) == closing' = [x \in Sockets |-> IF x \in xs THEN who ELSE closing[x]]

\* Socket.Close() returns.
CloseSocket(x) ==
  /\ closing[x] # "none"
  /\ closing' = [closing EXCEPT ![x] = "none"]
  /\ socket' = [socket EXCEPT ![x] = "closed"]
  /\ UNCHANGED <<coreVars, createVars, acceptVars, tables, maker>>

-----------------------------------------------------------------------------
(* Creating a socket: StartTCPConnect, StartUDPBind, StartTCPListen.       *)

\* beginCreate and the launch of the goroutine that calls the factory.
beginCreate(op, kind) ==
  /\ kind \in Kinds
  /\ made[op] < MaxCreates
  /\ made' = [made EXCEPT ![op] = @ + 1]
  /\ claimOperationLocked(op, "create")
  /\ LET c == <<op, made'[op]>>
     IN  /\ creates' = [creates EXCEPT ![op] = c]
         /\ create' = [create EXCEPT
                         ![c] = [kind |-> kind, done |-> FALSE, err |-> FALSE, resource |-> Nil]]
         /\ creating' = creating \cup {c}
         /\ contexts' = contexts \cup {c}
  /\ parked' = parked \cup {op}
  /\ UNCHANGED <<closed, closeDone, completion, signalDue, cancelDue, acceptVars, tables,
                 socketVars>>

StartTCPConnect(op) == beginCreate(op, "connect")
StartUDPBind(op)    == beginCreate(op, "bind")
StartTCPListen(op)  == beginCreate(op, "listen")

\* Is the goroutine's createOperation still the one of its id?
Bug_isRegistered(c) == operations[c[1]] = "create"
isRegistered(c) == creates[c[1]] = c

\* What the goroutine does with a socket nobody waits for any more.
Bug_discardKept(x) == closing' = closing
discard(x) == closeLater({x} \ {Nil}, "worker")

\* The factory returned x (Nil: nothing) and err; it may return both.  The
\* result is stored and signalled, or the socket is closed at once.
createReturns(c, x, err) ==
  /\ c \in creating
  /\ creating' = creating \ {c}
  /\ born(x, c)
  /\ \/ /\ isRegistered(c)
        /\ create' = [create EXCEPT ![creates[c[1]]] =
                        [@ EXCEPT !.done = TRUE, !.err = err, !.resource = x]]
        /\ signalAfterUnlock(TRUE)
        /\ UNCHANGED closing
     \/ /\ ~isRegistered(c)
        /\ discard(x)
        /\ UNCHANGED <<create, signalDue>>
  /\ UNCHANGED <<closed, closeDone, operations, completion, parked, creates, made, contexts,
                 cancelDue, acceptVars, tables>>

TakeCreateReady(op) ==
  /\ operations[op] = "create"
  /\ creates[op] # Nil
  /\ create[creates[op]].done

\* A finished create hands its socket to the guest ...
intoTable(kind, x) ==
  /\ streams' = IF kind = "connect" THEN streams \cup {x} ELSE streams
  /\ datagrams' = IF kind = "bind" THEN datagrams \cup {x} ELSE datagrams
  /\ listeners' = IF kind = "listen" THEN listeners \cup {x} ELSE listeners

\* ... unless it failed: TakeTCPConnect, TakeUDPBind and TakeTCPListen close
\* what a factory returned together with an error.
failed(w) == w.err \/ w.resource = Nil

takeCreate(op, kind) ==
  /\ TakeCreateReady(op)
  /\ create[creates[op]].kind = kind
  /\ LET c == creates[op]
         w == create[c]
     IN  /\ contexts' = contexts \ {c}
         /\ create' = [create EXCEPT ![c] = Nil]
         /\ \/ /\ failed(w)
               /\ closeLater({w.resource} \ {Nil}, "guest")
               /\ UNCHANGED tables
            \/ /\ ~failed(w)
               /\ intoTable(kind, w.resource)
               /\ UNCHANGED closing
  /\ creates' = [creates EXCEPT ![op] = Nil]
  /\ releaseOperationLocked(op, "create")
  /\ parked' = parked \ {op}
  /\ UNCHANGED <<closed, closeDone, completion, signalDue, made, creating, cancelDue, acceptVars,
                 socket, maker>>

TakeTCPConnect(op) == takeCreate(op, "connect")
TakeUDPBind(op)    == takeCreate(op, "bind")
TakeTCPListen(op)  == takeCreate(op, "listen")

TakeCreate(op) == TakeTCPConnect(op) \/ TakeUDPBind(op) \/ TakeTCPListen(op)

\* The Take functions answer ErrPending: the guest goes on waiting.
TakeCreatePending(op) ==
  /\ operations[op] = "create"
  /\ ~TakeCreateReady(op)
  /\ parked' = parked \cup {op}
  /\ UNCHANGED <<closed, closeDone, operations, completion, signalDue, createVars, acceptVars,
                 tables, socketVars>>

\* CancelOperation of a create: the context is cancelled and the socket, if it
\* is there already, closed after the unlock.
Bug_CancelKeepsContext(op) ==
  /\ operations[op] = "create"
  /\ operations' = [operations EXCEPT ![op] = "none"]
  /\ closeLater({create[creates[op]].resource} \ {Nil}, "guest")
  /\ create' = [create EXCEPT ![creates[op]] = Nil]
  /\ creates' = [creates EXCEPT ![op] = Nil]
  /\ parked' = parked \ {op}
  /\ UNCHANGED <<closed, closeDone, completion, signalDue, made, creating, contexts, cancelDue,
                 acceptVars, tables, socket, maker>>
CancelCreate(op) ==
  /\ operations[op] = "create"
  /\ operations' = [operations EXCEPT ![op] = "none"]
  /\ closeLater({create[creates[op]].resource} \ {Nil}, "guest")
  /\ create' = [create EXCEPT ![creates[op]] = Nil]
  /\ creates' = [creates EXCEPT ![op] = Nil]
  /\ cancelDue' = cancelDue \cup {creates[op]}
  /\ parked' = parked \ {op}
  /\ UNCHANGED <<closed, closeDone, completion, signalDue, made, creating, contexts, acceptVars,
                 tables, socket, maker>>

\* CancelOperation after its unlock calls create.cancel.
cancelContext(c) ==
  /\ c \in cancelDue
  /\ cancelDue' = cancelDue \ {c}
  /\ contexts' = contexts \ {c}
  /\ UNCHANGED <<coreVars, creates, create, made, creating, acceptVars, tables, socketVars>>

-----------------------------------------------------------------------------
(* Accepting.                                                              *)

waitersOf(l) == {op \in Ops : accepts[op] # Nil /\ accepts[op].handle = l}

startAccept(l, start) ==
  /\ acceptRunning' = [acceptRunning EXCEPT ![l] = @ \/ start]
  /\ acceptors' = [acceptors EXCEPT ![l] = IF start THEN @ + 1 ELSE @]

\* Something is stored that the new waiter can take at once.
readyAtStart(l) == accepted[l] # <<>> \/ acceptErr[l]

\* StartTCPAccept's condition for starting the worker.
mayStartAccept(l) == ~readyAtStart(l) /\ ~acceptRunning[l]

StartTCPAccept(l, op) ==
  /\ l \in listeners
  /\ claimOperationLocked(op, "accept")
  /\ accepts' = [accepts EXCEPT ![op] = [handle |-> l, ready |-> readyAtStart(l)]]
  /\ startAccept(l, mayStartAccept(l))
  /\ signalAfterUnlock(readyAtStart(l))
  /\ parked' = parked \cup {op}
  /\ UNCHANGED <<closed, closeDone, completion, createVars, tables, socketVars, accepted,
                 acceptErr>>

\* runTCPAccept signals a connection as well as an error.
signalAccepted(x) == signalAfterUnlock(TRUE)

\* runTCPAccept: Accept returned the connection x, or an error (Nil).  A listener
\* that lost its handle in the meantime has nobody to deliver to.
runTCPAccept(l, x) ==
  /\ acceptors[l] > 0
  /\ acceptors' = [acceptors EXCEPT ![l] = @ - 1]
  /\ born(x, l)
  /\ \/ /\ l \notin listeners
        /\ discard(x)
        /\ UNCHANGED <<accepts, accepted, acceptErr, acceptRunning, signalDue>>
     \/ /\ l \in listeners
        /\ acceptRunning' = [acceptRunning EXCEPT ![l] = FALSE]
        /\ acceptErr' = [acceptErr EXCEPT ![l] = @ \/ x = Nil]
        /\ accepted' = [accepted EXCEPT ![l] = IF x = Nil THEN @ ELSE Append(@, x)]
        /\ accepts' = [op \in Ops |-> IF op \in waitersOf(l)
                                      THEN [accepts[op] EXCEPT !.ready = TRUE] ELSE accepts[op]]
        /\ signalAccepted(x)
        /\ UNCHANGED closing
  /\ UNCHANGED <<closed, closeDone, operations, completion, parked, createVars, tables>>

TakeTCPAcceptReady(op) ==
  /\ operations[op] = "accept"
  /\ accepts[op] # Nil
  /\ LET l == accepts[op].handle
     IN  l \notin listeners \/ accepted[l] # <<>> \/ acceptErr[l]

hasAcceptWaiterLocked(l) == \E op \in Ops : accepts'[op] # Nil /\ accepts'[op].handle = l

\* TakeTCPAccept's condition for starting the worker again.
Bug_mayAcceptMoreNever(l) == FALSE
mayAcceptMore(l) == accepted'[l] = <<>> /\ ~acceptRunning[l] /\ hasAcceptWaiterLocked(l)

TakeTCPAccept(op) ==
  /\ TakeTCPAcceptReady(op)
  /\ accepts' = [accepts EXCEPT ![op] = Nil]
  /\ releaseOperationLocked(op, "accept")
  /\ parked' = parked \ {op}
  /\ LET l == accepts[op].handle
     IN  \/ /\ l \notin listeners
            /\ UNCHANGED <<streams, accepted, acceptErr, acceptRunning, acceptors>>
         \/ /\ l \in listeners
            /\ \/ /\ accepted[l] = <<>>
                  /\ acceptErr' = [acceptErr EXCEPT ![l] = FALSE]
                  /\ UNCHANGED <<accepted, streams>>
               \/ /\ accepted[l] # <<>>
                  /\ streams' = streams \cup {Head(accepted[l])}
                  /\ accepted' = [accepted EXCEPT ![l] = Tail(@)]
                  /\ UNCHANGED acceptErr
            /\ startAccept(l, mayAcceptMore(l))
  /\ UNCHANGED <<closed, closeDone, completion, signalDue, createVars, datagrams, listeners,
                 socketVars>>

\* TakeTCPAccept answers ErrPending: the guest goes on waiting.
TakeTCPAcceptPending(op) ==
  /\ operations[op] = "accept"
  /\ ~TakeTCPAcceptReady(op)
  /\ parked' = parked \cup {op}
  /\ UNCHANGED <<closed, closeDone, operations, completion, signalDue, createVars, acceptVars,
                 tables, socketVars>>

\* CancelOperation of an accept: a connection that is there stays for the next.
CancelAccept(op) ==
  /\ operations[op] = "accept"
  /\ operations' = [operations EXCEPT ![op] = "none"]
  /\ accepts' = [accepts EXCEPT ![op] = Nil]
  /\ parked' = parked \ {op}
  /\ UNCHANGED <<closed, closeDone, completion, signalDue, createVars, tables, socketVars, accepted,
                 acceptRunning, acceptErr, acceptors>>

-----------------------------------------------------------------------------
(* Closing.                                                                *)

\* The connections a listener has accepted and not handed out.
backlog(l) == ToSet(accepted[l])

\* CloseHandle up to its unlock.  A datagram socket is closed by its sending
\* goroutine, when it has drained its queue.
CloseHandle(h) ==
  /\ h \in streams \cup datagrams \cup listeners
  /\ streams' = streams \ {h}
  /\ datagrams' = datagrams \ {h}
  /\ listeners' = listeners \ {h}
  /\ IF h \in datagrams THEN closeLater({h}, "worker")
     ELSE closeLater({h} \cup IF h \in listeners THEN backlog(h) ELSE {}, "guest")
  /\ UNCHANGED <<coreVars, createVars, acceptVars, socket, maker>>

\* The sockets of the creates that are registered.
waiting == {create[creates[op]].resource : op \in {o \in Ops : creates[o] # Nil}} \ {Nil}

\* Close up to its unlock.  Cancelling the reactor's context cancels those of
\* all creates.  The sockets that are still draining are closed now.
Bug_CloseKeepsContexts ==
  /\ ~closed
  /\ closed' = TRUE
  /\ closeLater(UNION {streams, datagrams, listeners, waiting,
                       UNION {backlog(l) : l \in listeners}}, "reactor")
  /\ streams' = {}
  /\ datagrams' = {}
  /\ listeners' = {}
  /\ operations' = [op \in Ops |-> "none"]
  /\ creates' = [op \in Ops |-> Nil]
  /\ create' = [c \in Creates |-> Nil]
  /\ accepts' = [op \in Ops |-> Nil]
  /\ UNCHANGED <<closeDone, completion, signalDue, parked, made, creating, contexts, cancelDue, accepted,
                 acceptRunning, acceptErr, acceptors, socket, maker>>
Close ==
  /\ ~closed
  /\ closed' = TRUE
  /\ contexts' = {}
  /\ closeLater(UNION {streams, datagrams, listeners, waiting,
                       UNION {backlog(l) : l \in listeners}}, "reactor")
  /\ streams' = {}
  /\ datagrams' = {}
  /\ listeners' = {}
  /\ operations' = [op \in Ops |-> "none"]
  /\ creates' = [op \in Ops |-> Nil]
  /\ create' = [c \in Creates |-> Nil]
  /\ accepts' = [op \in Ops |-> Nil]
  /\ UNCHANGED <<closeDone, completion, signalDue, parked, made, creating, cancelDue, accepted,
                 acceptRunning, acceptErr, acceptors, socket, maker>>

\* Close has closed its sockets, workers.Wait() returned, closeDone is closed.
CloseReturns ==
  /\ closed
  /\ ~closeDone
  /\ \A x \in Sockets : closing[x] \notin {"reactor", "worker"} /\ acceptors[x] = 0
  /\ creating = {}
  /\ closeDone' = TRUE
  /\ UNCHANGED <<closed, operations, completion, signalDue, parked, createVars, acceptVars, tables,
                 socketVars>>

\* Nothing is left to do.
Terminated == closeDone /\ UNCHANGED vars

-----------------------------------------------------------------------------

signal == signalCompletion /\ UNCHANGED <<createVars, acceptVars, tables, socketVars>>

notify == NotifyGuest /\ UNCHANGED <<createVars, acceptVars, tables, socketVars>>

factoryReturns(c) == \E x \in unborn \cup {Nil}, err \in BOOLEAN : createReturns(c, x, err)

acceptReturns(l) == \E x \in unborn \cup {Nil} : runTCPAccept(l, x)

Next ==
  \/ \E op \in CreateOps : StartTCPConnect(op) \/ StartUDPBind(op) \/ StartTCPListen(op)
  \/ \E c \in Creates : factoryReturns(c)
  \/ \E op \in Ops : TakeCreate(op)
  \/ \E op \in Ops : TakeCreatePending(op)
  \/ \E op \in Ops : CancelCreate(op)
  \/ \E c \in Creates : cancelContext(c)
  \/ \E l \in Sockets, op \in Ops : StartTCPAccept(l, op)
  \/ \E l \in Sockets : acceptReturns(l)
  \/ \E op \in Ops : TakeTCPAccept(op)
  \/ \E op \in Ops : TakeTCPAcceptPending(op)
  \/ \E op \in Ops : CancelAccept(op)
  \/ \E h \in Sockets : CloseHandle(h)
  \/ \E x \in Sockets : CloseSocket(x)
  \/ Close
  \/ CloseReturns
  \/ signal
  \/ notify
  \/ Terminated

Spec == Init /\ [][Next]_vars

\* Goroutines that are runnable run.  The factory heeds its context and Accept
\* returns once the listener is closed; before that they need not return.  A
\* draining socket is closed (ReactorDatagram!ClosingEnds).
Fairness ==
  /\ WF_vars(signal)
  /\ WF_vars(notify)
  /\ WF_vars(CloseReturns)
  /\ \A c \in Creates :
       /\ WF_vars(cancelContext(c))
       /\ WF_vars(c \notin contexts /\ factoryReturns(c))
  /\ \A x \in Sockets :
       /\ WF_vars(CloseSocket(x))
       /\ WF_vars(socket[x] = "closed" /\ acceptReturns(x))
  /\ \A op \in Ops :
       /\ WF_vars(op \notin parked /\ (TakeCreate(op) \/ TakeCreatePending(op)))
       /\ WF_vars(op \notin parked /\ (TakeTCPAccept(op) \/ TakeTCPAcceptPending(op)))

FairSpec == Spec /\ Fairness

-----------------------------------------------------------------------------
(* Properties.                                                             *)

\* Who is responsible for a socket: a handle, a finished create, a listener's
\* backlog, or a goroutine on its way to close it.
Holders(x) ==
  {<<"handle", t>> : t \in {t \in {"stream", "datagram", "listener"} :
                              x \in CASE t = "stream" -> streams
                                      [] t = "datagram" -> datagrams
                                      [] t = "listener" -> listeners}}
  \cup {<<"create", op>> : op \in {op \in Ops : creates[op] # Nil /\ create[creates[op]].resource = x}}
  \cup {<<"backlog", l>> : l \in {l \in listeners : x \in ToSet(accepted[l])}}
  \cup {<<"closing", w>> : w \in {w \in Closers : closing[x] = w}}

\* An open socket has exactly one holder at all times, and a closed one none: no
\* interleaving of cancelling, closing and a late factory or Accept leaks a
\* socket, hands it out twice, or closes one the guest has a handle for.
NoSocketLeak ==
  \A x \in Sockets :
    Cardinality(Holders(x)) = IF socket[x] = "open" THEN 1 ELSE 0

\* A result is given to the operation that asked for it: the socket of a create
\* was made by this very createOperation, also when its id was used before, and
\* a connection in a backlog was accepted by that listener.
ResultIsOwn ==
  /\ \A op \in Ops : creates[op] # Nil =>
       /\ operations[op] = "create"
       /\ create[creates[op]] # Nil
       /\ create[creates[op]].done <=> creates[op] \notin creating
       /\ create[creates[op]].resource # Nil =>
            create[creates[op]].done /\ maker[create[creates[op]].resource] = creates[op]
  /\ \A l \in listeners : \A x \in ToSet(accepted[l]) : maker[x] = l

\* The outcomes the createOperation c may have.
outcomesOf(c) == [to : {c}, err : BOOLEAN, resource : Sockets \cup {Nil}]

Abstract == INSTANCE HostOperations WITH
  Questions <- Creates,
  AnswersTo <- outcomesOf,
  asked     <- creates,
  reply     <- [op \in Ops |->
                  LET w == create[creates[op]]
                  IN  IF creates[op] # Nil /\ w.done
                      THEN [to       |-> IF w.resource = Nil THEN creates[op] ELSE maker[w.resource],
                            err      |-> w.err,
                            resource |-> w.resource]
                      ELSE Nil]

\* Creating sockets implements HostOperations: a create gets one outcome, made by
\* this very createOperation even when its id was used before, and keeps it until
\* the guest takes or cancels it.
KeepsPromise == Abstract!Spec

\* The context of a create that is not registered any more is cancelled, or is
\* about to be: the factory is not left dialling for nobody.
ContextIsCancelled ==
  \A c \in contexts : isRegistered(c) \/ c \in cancelDue

\* A listener accepts one connection ahead at most: of a goroutine inside Accept,
\* a stored connection and a stored error there is never more than one.
OneAhead ==
  \A l \in listeners :
    /\ acceptors[l] = IF acceptRunning[l] THEN 1 ELSE 0
    /\ acceptors[l] + Len(accepted[l]) + (IF acceptErr[l] THEN 1 ELSE 0) <= 1

\* An accept that waits on a listener with a handle while nothing is stored has
\* a goroutine inside Accept.
NoStuckAccept ==
  \A op \in Ops :
    LET l == accepts[op].handle
    IN  (accepts[op] # Nil /\ l \in listeners /\ accepted[l] = <<>> /\ ~acceptErr[l])
          => acceptRunning[l]

\* A guest that waits without polling for an operation whose result is there
\* has a token coming, as long as it has not closed the listener itself.
NoLostWakeup ==
  \A op \in parked :
    (\/ TakeCreateReady(op)
     \/ TakeTCPAcceptReady(op) /\ accepts[op].handle \in listeners)
      => completion \/ signalDue

\* Once Close has returned no goroutine is left and every socket is closed, but
\* for those the guest is closing itself at this moment.
CloseIsFinal ==
  closeDone =>
    /\ creating = {}
    /\ \A x \in Sockets : acceptors[x] = 0 /\ (socket[x] = "open" => closing[x] = "guest")

\* Each registered kind has its entry in the table of that kind, at an address of
\* this id, and after Close nothing is registered.
TablesAgree ==
  /\ \A op \in Ops :
       /\ operations[op] = "create" <=> creates[op] # Nil
       /\ operations[op] = "accept" <=> accepts[op] # Nil
       /\ creates[op] # Nil => creates[op][1] = op /\ creates[op][2] <= made[op]
  /\ \A c \in creating : c[2] <= made[c[1]]
  /\ closed => /\ streams = {} /\ datagrams = {} /\ listeners = {}
               /\ \A op \in Ops : operations[op] = "none"
  /\ closeDone => closed

\* Nobody has accepted from a socket, or waits to, before it has a handle.
NewSocketsAreFresh ==
  \A x \in unborn \cup waiting :
    /\ accepted[x] = <<>> /\ ~acceptRunning[x] /\ ~acceptErr[x] /\ acceptors[x] = 0
    /\ waitersOf(x) = {}

\* The tables, the contexts and the goroutines agree: types, results that belong
\* to their operation, no context left over, nothing left when Close has returned.
Consistent ==
  /\ TypeOK
  /\ TablesAgree
  /\ ResultIsOwn
  /\ NewSocketsAreFresh
  /\ ContextIsCancelled
  /\ CloseIsFinal

\* Nobody waits for what will not happen, and nothing is accepted that nobody
\* waits for.
AcceptIsServed ==
  /\ OneAhead
  /\ NoStuckAccept
  /\ NoLostWakeup

\* Close returns, whatever the factory and the listeners were doing, and a call
\* of the factory that nobody waits for any more ends without help of the remote
\* side: CancelOperation and Close cancel its context.
CloseTerminates ==
  /\ closed ~> closeDone
  /\ \A c \in Creates : (c \in creating /\ ~isRegistered(c)) ~> c \notin creating

=============================================================================
