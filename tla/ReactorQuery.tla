----------------------------- MODULE ReactorQuery -----------------------------
(***************************************************************************)
(* The questions the guest asks its host through internal/reactor: name    *)
(* resolution (dns.go), the local address for a remote one                 *)
(* (environment.go) and management requests (management.go), with the      *)
(* parts of CancelOperation and Close (reactor.go) that touch them.        *)
(*                                                                         *)
(* Each question is answered by a service of the host in a goroutine of    *)
(* its own.  The answer to a management request, and a DNS answer without  *)
(* an error, is read in two steps: the guest looks at it, once or more     *)
(* often (its buffer may be too small), and then finishes the operation.   *)
(* A local address, and a DNS error, is taken in one step.                 *)
(*                                                                         *)
(* Data.  An answer is the address of the operation it was computed for.   *)
(***************************************************************************)
EXTENDS ReactorCore

CONSTANTS
  Slots   \* how many operation records of one id can be live at once

QueryKind == {"dns", "environment", "management"}

\* Addresses of dnsOperations, environmentOperations and managementOperations.
Queries == Ops \X Slots

ASSUME NilQueryAssumption == Nil \notin Queries

VARIABLES
  queries,    \* Reactor.dns, Reactor.environments and Reactor.management
  query,      \* the operation record at an address, Nil when it is garbage
  resolving,  \* records whose goroutine is inside the service
  contexts,   \* records whose context is not cancelled
  cancelDue   \* records CancelOperation is about to cancel

queryVars == <<queries, query, resolving, contexts, cancelDue>>
vars      == <<coreVars, queryVars>>

Records == [kind : QueryKind, done : BOOLEAN, err : BOOLEAN, result : Queries \cup {Nil}]

ASSUME NilRecordAssumption == Nil \notin Records

\* Every variable holds a value of its Go type.
TypeOK ==
  /\ CoreTypeOK
  /\ queries \in [Ops -> Queries \cup {Nil}]
  /\ query \in [Queries -> Records \cup {Nil}]
  /\ resolving \subseteq Queries
  /\ contexts \subseteq Queries
  /\ cancelDue \subseteq Queries

Init ==
  /\ CoreInit
  /\ queries = [op \in Ops |-> Nil]
  /\ query = [q \in Queries |-> Nil]
  /\ resolving = {}
  /\ contexts = {}
  /\ cancelDue = {}

-----------------------------------------------------------------------------

\* An address is reused once nothing refers to the record.
freeAddresses(op) ==
  {q \in Queries : q[1] = op /\ query[q] = Nil /\ q \notin resolving \cup contexts}

\* StartDNS, StartLocalAddrForRemote, StartManagement.
StartQuery(op, kind) ==
  \E q \in freeAddresses(op) :
    /\ claimOperationLocked(op, kind)
    /\ queries' = [queries EXCEPT ![op] = q]
    /\ query' = [query EXCEPT
                   ![q] = [kind |-> kind, done |-> FALSE, err |-> FALSE, result |-> Nil]]
    /\ resolving' = resolving \cup {q}
    /\ contexts' = contexts \cup {q}
    /\ parked' = parked \cup {op}
    /\ UNCHANGED <<closed, closeDone, completion, signalDue, cancelDue>>

\* Is the goroutine's record still the one of its id?
Bug_isRegistered(q) == queries[q[1]] # Nil
isRegistered(q) == queries[q[1]] = q

\* An answer is signalled whatever it is.
Bug_signalSuccess(err) == signalAfterUnlock(~err)
signalAnswer(err) == signalAfterUnlock(TRUE)

\* The service answered.  Management handlers put their errors into the answer.
serviceReturns(q, err) ==
  /\ q \in resolving
  /\ resolving' = resolving \ {q}
  /\ \/ /\ isRegistered(q)
        /\ LET w == query[queries[q[1]]]
           IN  /\ w.kind = "management" => ~err
               /\ query' = [query EXCEPT ![queries[q[1]]] =
                              [w EXCEPT !.done = TRUE, !.err = err, !.result = q]]
        /\ signalAnswer(err)
     \/ /\ ~isRegistered(q)
        /\ UNCHANGED <<query, signalDue>>
  /\ UNCHANGED <<closed, closeDone, operations, completion, parked, queries, contexts, cancelDue>>

\* There is an answer for op.
answered(op) == queries[op] # Nil /\ query[queries[op]].done

\* The guest is done with the operation.
release(op) ==
  /\ contexts' = contexts \ {queries[op]}
  /\ query' = [query EXCEPT ![queries[op]] = Nil]
  /\ queries' = [queries EXCEPT ![op] = Nil]
  /\ operations' = [operations EXCEPT ![op] = "none"]
  /\ parked' = parked \ {op}
  /\ UNCHANGED <<closed, closeDone, completion, signalDue, resolving, cancelDue>>

\* DNSResult and ManagementResult with an answer: the operation stays.
LookAtResult(op) ==
  /\ answered(op)
  /\ operations[op] \in {"dns", "management"}
  /\ ~query[queries[op]].err
  /\ parked' = parked \ {op}
  /\ UNCHANGED <<closed, closeDone, operations, completion, signalDue, queryVars>>

\* DNSResult with an error.
TakeDNSError(op) ==
  /\ answered(op)
  /\ operations[op] = "dns"
  /\ query[queries[op]].err
  /\ release(op)

TakeLocalAddrForRemote(op) ==
  /\ answered(op)
  /\ operations[op] = "environment"
  /\ release(op)

\* FinishDNS and FinishManagement.
FinishQuery(op) ==
  /\ answered(op)
  /\ operations[op] \in {"dns", "management"}
  /\ release(op)

\* ErrPending: the guest goes on waiting.
ResultPending(op) ==
  /\ operations[op] # "none"
  /\ ~answered(op)
  /\ parked' = parked \cup {op}
  /\ UNCHANGED <<closed, closeDone, operations, completion, signalDue, queryVars>>

\* CancelOperation up to its unlock.
Bug_CancelQueryContextKept(op) ==
  /\ operations[op] # "none"
  /\ operations' = [operations EXCEPT ![op] = "none"]
  /\ query' = [query EXCEPT ![queries[op]] = Nil]
  /\ queries' = [queries EXCEPT ![op] = Nil]
  /\ parked' = parked \ {op}
  /\ UNCHANGED <<closed, closeDone, completion, signalDue, resolving, contexts, cancelDue>>
CancelQuery(op) ==
  /\ operations[op] # "none"
  /\ operations' = [operations EXCEPT ![op] = "none"]
  /\ cancelDue' = cancelDue \cup {queries[op]}
  /\ query' = [query EXCEPT ![queries[op]] = Nil]
  /\ queries' = [queries EXCEPT ![op] = Nil]
  /\ parked' = parked \ {op}
  /\ UNCHANGED <<closed, closeDone, completion, signalDue, resolving, contexts>>

\* CancelOperation after its unlock.
cancelContext(q) ==
  /\ q \in cancelDue
  /\ cancelDue' = cancelDue \ {q}
  /\ contexts' = contexts \ {q}
  /\ UNCHANGED <<coreVars, queries, query, resolving>>

\* Close up to its unlock: the reactor's context is the parent of all others.
Close ==
  /\ ~closed
  /\ closed' = TRUE
  /\ contexts' = {}
  /\ operations' = [op \in Ops |-> "none"]
  /\ queries' = [op \in Ops |-> Nil]
  /\ query' = [q \in Queries |-> Nil]
  /\ UNCHANGED <<closeDone, completion, signalDue, parked, resolving, cancelDue>>

\* workers.Wait() returned and closeDone is closed.
CloseReturns ==
  /\ closed
  /\ ~closeDone
  /\ resolving = {}
  /\ closeDone' = TRUE
  /\ UNCHANGED <<closed, operations, completion, signalDue, parked, queryVars>>

\* Nothing is left to do.
Terminated == closeDone /\ UNCHANGED vars

signal == signalCompletion /\ UNCHANGED queryVars

notify == NotifyGuest /\ UNCHANGED queryVars

answer(q) == \E err \in BOOLEAN : serviceReturns(q, err)

poll(op) ==
  LookAtResult(op) \/ TakeDNSError(op) \/ TakeLocalAddrForRemote(op) \/ ResultPending(op)

Next ==
  \/ \E op \in Ops, kind \in QueryKind : StartQuery(op, kind)
  \/ \E q \in Queries : answer(q)
  \/ \E op \in Ops : LookAtResult(op)
  \/ \E op \in Ops : TakeDNSError(op)
  \/ \E op \in Ops : TakeLocalAddrForRemote(op)
  \/ \E op \in Ops : FinishQuery(op)
  \/ \E op \in Ops : ResultPending(op)
  \/ \E op \in Ops : CancelQuery(op)
  \/ \E q \in Queries : cancelContext(q)
  \/ Close
  \/ CloseReturns
  \/ signal
  \/ notify
  \/ Terminated

Spec == Init /\ [][Next]_vars

\* Runnable goroutines run, services heed their context and need not answer
\* before, the guest polls what it was notified about and finishes what it read.
Fairness ==
  /\ WF_vars(signal)
  /\ WF_vars(notify)
  /\ WF_vars(CloseReturns)
  /\ \A q \in Queries :
       /\ WF_vars(cancelContext(q))
       /\ WF_vars(q \notin contexts /\ answer(q))
  /\ \A op \in Ops :
       /\ WF_vars(op \notin parked /\ poll(op))
       /\ WF_vars(op \notin parked /\ FinishQuery(op))

FairSpec == Spec /\ Fairness

-----------------------------------------------------------------------------
(* Properties.                                                             *)

\* The answer the guest reads under an id is the one to the question it asked
\* under that id last: a late answer to a cancelled question never shows.
AnswerIsOwn ==
  \A op \in Ops : queries[op] # Nil =>
    LET w == query[queries[op]]
    IN  /\ w # Nil
        /\ operations[op] = w.kind
        /\ IF w.done THEN w.result = queries[op] ELSE queries[op] \in resolving

\* An id is in use exactly while it has a record, which is a record of this id and
\* has no answer while its goroutine is inside the service.
TablesAgree ==
  \A op \in Ops :
    /\ (operations[op] = "none") <=> (queries[op] = Nil)
    /\ queries[op] # Nil =>
         queries[op][1] = op /\ (query[queries[op]].done => queries[op] \notin resolving)

\* The context of a question nobody waits for is cancelled, or about to be.
ContextIsCancelled ==
  \A q \in contexts : isRegistered(q) \/ q \in cancelDue

\* The answers to the question at address q.
answersTo(q) == [to : {q}, err : BOOLEAN]

Abstract == INSTANCE HostOperations WITH
  Questions <- Queries,
  AnswersTo <- answersTo,
  asked     <- queries,
  reply     <- [op \in Ops |-> IF answered(op)
                                THEN [to  |-> query[queries[op]].result,
                                      err |-> query[queries[op]].err]
                                ELSE Nil]

\* DNS, local address and management operations implement HostOperations: the
\* one answer the guest sees is to the question it asked last under the id, and
\* stays as it is until the guest is done with it, so that it can come back with
\* a larger buffer.
KeepsPromise == Abstract!Spec

\* A guest that waits without polling for an answer that is there has a token
\* coming.
NoLostWakeup ==
  \A op \in parked : answered(op) => completion \/ signalDue

\* The table, the contexts and the goroutines agree, and no answer waits for a
\* guest that nobody wakes.
Consistent ==
  /\ TypeOK
  /\ TablesAgree
  /\ AnswerIsOwn
  /\ ContextIsCancelled
  /\ NoLostWakeup

\* An answer is read and its record given up, by a guest that only polls what it
\* is notified about.
AnswerIsTaken ==
  \A op \in Ops : answered(op) ~> ~answered(op)

=============================================================================
