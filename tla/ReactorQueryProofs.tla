------------------------- MODULE ReactorQueryProofs -------------------------
(***************************************************************************)
(* Proofs about ReactorQuery, for every set of operation ids and any       *)
(* number of records per id.  Consistent is inductive; from it follows     *)
(* that ReactorQuery implements HostOperations.                            *)
(*                                                                         *)
(* The second half is about the other side of HostOperations: HostABI,     *)
(* which is written against it and instantiated here.  The assumption of   *)
(* HostABI on its constants is the hypothesis of the theorems about it.    *)
(***************************************************************************)
EXTENDS ReactorQuery, FiniteSetTheorems, TLAPS

-----------------------------------------------------------------------------
(* The operators the model is built from.                                  *)

\* An address is a pair that starts with the id.
LEMMA AddressLemma ==
  ASSUME NEW q \in Queries
  PROVE  q[1] \in Ops /\ q # Nil
BY NilQueryAssumption DEF Queries

\* The record of an id is a record, with the fields of its Go type.
LEMMA RecordLemma ==
  ASSUME TypeOK, AnswerIsOwn, NEW op \in Ops, queries[op] # Nil
  PROVE  /\ queries[op] \in Queries
         /\ query[queries[op]] \in Records
         /\ query[queries[op]].kind \in QueryKind
         /\ query[queries[op]].done \in BOOLEAN
         /\ query[queries[op]].err \in BOOLEAN
<1>1. queries[op] \in Queries
  BY DEF TypeOK
<1>2. query[queries[op]] # Nil
  BY DEF AnswerIsOwn
<1>3. query[queries[op]] \in Records
  BY <1>1, <1>2 DEF TypeOK
<1> QED
  BY <1>1, <1>3 DEF Records

\* Different ids have different records.
LEMMA OwnRecords ==
  ASSUME TablesAgree, NEW op \in Ops, NEW other \in Ops,
         queries[op] # Nil, queries[op] = queries[other]
  PROVE  op = other
BY DEF TablesAgree

-----------------------------------------------------------------------------
(* The inductive invariant.                                                *)

LEMMA InitConsistent == Init => Consistent
<1> SUFFICES ASSUME Init
             PROVE  Consistent
  OBVIOUS
<1> USE DEF Init, CoreInit
<1>1. TypeOK
  BY DEF TypeOK, CoreTypeOK
<1>2. TablesAgree /\ AnswerIsOwn
  BY DEF TablesAgree, AnswerIsOwn
<1>3. ContextIsCancelled /\ NoLostWakeup
  BY DEF ContextIsCancelled, NoLostWakeup
<1> QED
  BY <1>1, <1>2, <1>3 DEF Consistent

\* A new question gets an address nothing refers to.
LEMMA StartQueryStep ==
  ASSUME Consistent, NEW op \in Ops, NEW kind \in QueryKind, StartQuery(op, kind)
  PROVE  Consistent'
<1> PICK q \in freeAddresses(op) :
      /\ claimOperationLocked(op, kind)
      /\ queries' = [queries EXCEPT ![op] = q]
      /\ query' = [query EXCEPT
                     ![q] = [kind |-> kind, done |-> FALSE, err |-> FALSE, result |-> Nil]]
      /\ resolving' = resolving \cup {q}
      /\ contexts' = contexts \cup {q}
      /\ parked' = parked \cup {op}
      /\ UNCHANGED <<closed, closeDone, completion, signalDue, cancelDue>>
  BY DEF StartQuery
<1>1. /\ q \in Queries /\ q[1] = op /\ q # Nil
      /\ query[q] = Nil /\ q \notin resolving /\ q \notin contexts
  BY AddressLemma DEF freeAddresses
<1>2. /\ operations[op] = "none" /\ queries[op] = Nil
      /\ operations' = [operations EXCEPT ![op] = kind]
  BY DEF claimOperationLocked, Consistent, TablesAgree
<1>3. [kind |-> kind, done |-> FALSE, err |-> FALSE, result |-> Nil] \in Records
  BY DEF Records
<1>4. TypeOK'
  BY <1>1, <1>2, <1>3 DEF Consistent, TypeOK, CoreTypeOK, QueryKind, OperationKind
<1>5. ASSUME NEW o \in Ops, o # op
      PROVE  /\ queries'[o] = queries[o] /\ operations'[o] = operations[o]
             /\ queries[o] # q
             /\ queries[o] # Nil => query'[queries[o]] = query[queries[o]]
  BY <1>1, <1>2, <1>5 DEF Consistent, TypeOK, CoreTypeOK, AnswerIsOwn
<1>6. /\ queries'[op] = q /\ operations'[op] = kind
      /\ query'[q] = [kind |-> kind, done |-> FALSE, err |-> FALSE, result |-> Nil]
  BY <1>1, <1>2 DEF Consistent, TypeOK, CoreTypeOK
<1>7. TablesAgree'
  <2> SUFFICES ASSUME NEW o \in Ops
               PROVE  /\ (operations'[o] = "none") <=> (queries'[o] = Nil)
                      /\ queries'[o] # Nil =>
                           queries'[o][1] = o /\ (query'[queries'[o]].done => queries'[o] \notin resolving')
    BY DEF TablesAgree
  <2>1. CASE o = op
    BY <2>1, <1>1, <1>6 DEF QueryKind
  <2>2. CASE o # op
    BY <2>2, <1>1, <1>5 DEF Consistent, TablesAgree
  <2> QED
    BY <2>1, <2>2
<1>8. AnswerIsOwn'
  <2> SUFFICES ASSUME NEW o \in Ops, queries'[o] # Nil
               PROVE  /\ query'[queries'[o]] # Nil
                      /\ operations'[o] = query'[queries'[o]].kind
                      /\ IF query'[queries'[o]].done THEN query'[queries'[o]].result = queries'[o]
                         ELSE queries'[o] \in resolving'
    BY DEF AnswerIsOwn
  <2>1. CASE o = op
    <3>1. query'[q] \in Records /\ query'[q] # Nil
      BY <1>3, <1>6, NilRecordAssumption
    <3> QED
      BY <2>1, <3>1, <1>1, <1>6
  <2>2. CASE o # op
    BY <2>2, <1>1, <1>5 DEF Consistent, AnswerIsOwn
  <2> QED
    BY <2>1, <2>2
<1>9. ContextIsCancelled'
  <2> SUFFICES ASSUME NEW c \in contexts', c \notin cancelDue'
               PROVE  queries'[c[1]] = c
    BY DEF ContextIsCancelled, isRegistered
  <2>1. CASE c = q
    BY <2>1, <1>1, <1>6
  <2>2. CASE c # q
    <3>1. c \in Queries /\ queries[c[1]] = c
      BY <2>2 DEF Consistent, TypeOK, ContextIsCancelled, isRegistered
    <3> QED
      BY <3>1, <1>2, <1>5, AddressLemma
  <2> QED
    BY <2>1, <2>2
<1>10. NoLostWakeup'
  <2> SUFFICES ASSUME NEW o \in parked', answered(o)'
               PROVE  completion' \/ signalDue'
    BY DEF NoLostWakeup
  <2>1. o # op
    BY <1>6 DEF answered
  <2>2. o \in parked /\ o \in Ops
    BY <2>1 DEF Consistent, TypeOK, CoreTypeOK
  <2> QED
    BY <2>1, <2>2, <1>5 DEF answered, Consistent, NoLostWakeup
<1> QED
  BY <1>4, <1>7, <1>8, <1>9, <1>10 DEF Consistent


\* The answer of a registered record goes into that record; any other is dropped.
LEMMA AnswerStep ==
  ASSUME Consistent, NEW q \in Queries, NEW err \in BOOLEAN, serviceReturns(q, err)
  PROVE  Consistent'
<1> USE DEF Consistent
<1>0. /\ q \in resolving /\ resolving' = resolving \ {q}
      /\ UNCHANGED <<closed, closeDone, operations, completion, parked, queries, contexts, cancelDue>>
      /\ q[1] \in Ops /\ q # Nil
  BY AddressLemma DEF serviceReturns
<1>1. CASE isRegistered(q)
  <2> DEFINE w == query[q]
             a == [w EXCEPT !.done = TRUE, !.err = err, !.result = q]
  <2>1. queries[q[1]] = q
    BY <1>1 DEF isRegistered
  <2>2. w \in Records /\ w.kind \in QueryKind
    BY <2>1, <1>0, RecordLemma
  <2>3. query' = [query EXCEPT ![q] = a] /\ signalDue' = TRUE
    BY <1>1, <2>1 DEF serviceReturns, signalAnswer, signalAfterUnlock
  <2>4. a \in Records /\ a.done = TRUE /\ a.result = q /\ a.kind = w.kind /\ a # Nil
    BY <2>2, NilRecordAssumption DEF Records
  <2> HIDE DEF a, w
  <2>5. query'[q] = a /\ \A p \in Queries : p # q => query'[p] = query[p]
    BY <2>3 DEF TypeOK
  <2>6. TypeOK'
    BY <1>0, <2>3, <2>4 DEF TypeOK, CoreTypeOK
  <2>7. ASSUME NEW o \in Ops, queries[o] # Nil, o # q[1]
        PROVE  /\ queries[o] # q /\ query'[queries[o]] = query[queries[o]]
               /\ queries[o] \in resolving' <=> queries[o] \in resolving
    BY <1>0, <2>1, <2>5, <2>7, OwnRecords, RecordLemma
  <2>8. TablesAgree' /\ AnswerIsOwn'
    <3> SUFFICES ASSUME NEW o \in Ops
                 PROVE  /\ (operations[o] = "none") <=> (queries[o] = Nil)
                        /\ queries[o] # Nil =>
                             /\ queries[o][1] = o
                             /\ query'[queries[o]].done => queries[o] \notin resolving'
                             /\ query'[queries[o]] # Nil
                             /\ operations[o] = query'[queries[o]].kind
                             /\ IF query'[queries[o]].done THEN query'[queries[o]].result = queries[o]
                                ELSE queries[o] \in resolving'
      BY <1>0 DEF TablesAgree, AnswerIsOwn
    <3>1. CASE o = q[1]
      BY <3>1, <1>0, <2>1, <2>4, <2>5 DEF TablesAgree, AnswerIsOwn, w
    <3>2. CASE o # q[1]
      BY <3>2, <2>7 DEF TablesAgree, AnswerIsOwn
    <3> QED
      BY <3>1, <3>2
  <2>9. ContextIsCancelled' /\ NoLostWakeup'
    BY <1>0, <2>3 DEF ContextIsCancelled, isRegistered, NoLostWakeup
  <2> QED
    BY <2>6, <2>8, <2>9
<1>2. CASE ~isRegistered(q)
  <2>1. UNCHANGED <<query, signalDue>>
    BY <1>2 DEF serviceReturns
  <2>2. TypeOK'
    BY <1>0, <2>1 DEF TypeOK, CoreTypeOK
  <2>3. \A o \in Ops : queries[o] # q
    BY <1>2, <1>0 DEF isRegistered, TablesAgree
  <2>4. TablesAgree' /\ AnswerIsOwn'
    BY <1>0, <2>1, <2>3 DEF TablesAgree, AnswerIsOwn
  <2>5. ContextIsCancelled' /\ NoLostWakeup'
    BY <1>0, <2>1 DEF ContextIsCancelled, isRegistered, NoLostWakeup, answered
  <2> QED
    BY <2>2, <2>4, <2>5
<1> QED
  BY <1>1, <1>2

\* A record is given up together with its id: taken, finished or cancelled.
LEMMA GiveUpStep ==
  ASSUME Consistent, NEW op \in Ops, queries[op] # Nil,
         operations' = [operations EXCEPT ![op] = "none"],
         query' = [query EXCEPT ![queries[op]] = Nil],
         queries' = [queries EXCEPT ![op] = Nil],
         parked' = parked \ {op},
         contexts' \subseteq contexts, cancelDue \subseteq cancelDue', cancelDue' \subseteq Queries,
         queries[op] \in contexts' => queries[op] \in cancelDue',
         UNCHANGED <<closed, closeDone, completion, signalDue, resolving>>
  PROVE  Consistent'
<1> USE DEF Consistent
<1>1. TypeOK'
  BY RecordLemma DEF TypeOK, CoreTypeOK
<1>2. queries'[op] = Nil /\ operations'[op] = "none"
  BY DEF TypeOK, CoreTypeOK
<1>3. ASSUME NEW o \in Ops, o # op
      PROVE  /\ queries'[o] = queries[o] /\ operations'[o] = operations[o]
             /\ queries[o] # Nil => query'[queries[o]] = query[queries[o]]
  <2>1. queries'[o] = queries[o] /\ operations'[o] = operations[o]
    BY <1>3 DEF TypeOK, CoreTypeOK
  <2>2. queries[o] # Nil => queries[o] # queries[op] /\ queries[o] \in Queries
    BY <1>3, OwnRecords, RecordLemma
  <2> QED
    BY <2>1, <2>2 DEF TypeOK
<1>4. TablesAgree' /\ AnswerIsOwn'
  <2> SUFFICES ASSUME NEW o \in Ops
               PROVE  /\ (operations'[o] = "none") <=> (queries'[o] = Nil)
                      /\ queries'[o] # Nil =>
                           /\ queries'[o][1] = o
                           /\ query'[queries'[o]].done => queries'[o] \notin resolving
                           /\ query'[queries'[o]] # Nil
                           /\ operations'[o] = query'[queries'[o]].kind
                           /\ IF query'[queries'[o]].done THEN query'[queries'[o]].result = queries'[o]
                              ELSE queries'[o] \in resolving
    BY DEF TablesAgree, AnswerIsOwn
  <2>1. CASE o = op
    BY <2>1, <1>2
  <2>2. CASE o # op
    BY <2>2, <1>3 DEF TablesAgree, AnswerIsOwn
  <2> QED
    BY <2>1, <2>2
<1>5. ContextIsCancelled'
  <2> SUFFICES ASSUME NEW c \in contexts', c \notin cancelDue'
               PROVE  queries'[c[1]] = c
    BY DEF ContextIsCancelled, isRegistered
  <2>1. c \in Queries /\ queries[c[1]] = c /\ c[1] \in Ops
    BY AddressLemma DEF TypeOK, ContextIsCancelled, isRegistered
  <2>2. c[1] # op
    BY <2>1
  <2> QED
    BY <2>1, <2>2, <1>3
<1>6. NoLostWakeup'
  <2> SUFFICES ASSUME NEW o \in parked', answered(o)'
               PROVE  completion' \/ signalDue'
    BY DEF NoLostWakeup
  <2>1. o \in Ops /\ o \in parked /\ o # op
    BY DEF TypeOK, CoreTypeOK
  <2> QED
    BY <2>1, <1>3 DEF answered, NoLostWakeup
<1> QED
  BY <1>1, <1>4, <1>5, <1>6

LEMMA ReleaseStep ==
  ASSUME Consistent, NEW op \in Ops, answered(op), release(op)
  PROVE  Consistent'
BY GiveUpStep, Zenon DEF release, answered, Consistent, TypeOK

LEMMA CancelStep ==
  ASSUME Consistent, NEW op \in Ops, CancelQuery(op)
  PROVE  Consistent'
<1>1. queries[op] # Nil /\ queries[op] \in Queries
  BY DEF CancelQuery, Consistent, TablesAgree, TypeOK
<1> QED
  BY <1>1, GiveUpStep DEF CancelQuery, Consistent, TypeOK

\* Close gives everything up.
LEMMA CloseStep ==
  ASSUME Consistent, Close
  PROVE  Consistent'
<1> USE DEF Consistent, Close
<1>1. TypeOK'
  BY DEF TypeOK, CoreTypeOK
<1>2. TablesAgree' /\ AnswerIsOwn'
  BY DEF TablesAgree, AnswerIsOwn
<1>3. ContextIsCancelled' /\ NoLostWakeup'
  <2>1. \A o \in Ops : ~answered(o)'
    BY DEF answered
  <2> QED
    BY <2>1 DEF ContextIsCancelled, NoLostWakeup, TypeOK, CoreTypeOK
<1> QED
  BY <1>1, <1>2, <1>3

\* The steps that touch neither table: they cancel contexts, move tokens and park
\* or unpark a guest that has nothing to take.
LEMMA QuietStep ==
  ASSUME Consistent, UNCHANGED <<operations, queries, query, resolving>>,
         closed' \in BOOLEAN, closeDone' \in BOOLEAN, completion' \in BOOLEAN, signalDue' \in BOOLEAN,
         parked' \subseteq Ops, contexts' \subseteq contexts, cancelDue' \subseteq cancelDue,
         \A q \in contexts' : q \in cancelDue => q \in cancelDue',
         \A op \in parked' : answered(op) => op \in parked \/ completion' \/ signalDue',
         parked' # {} => (completion \/ signalDue => completion' \/ signalDue')
  PROVE  Consistent'
<1> USE DEF Consistent
<1>1. TypeOK'
  BY DEF TypeOK, CoreTypeOK
<1>2. TablesAgree' /\ AnswerIsOwn'
  BY DEF TablesAgree, AnswerIsOwn
<1>3. ContextIsCancelled'
  BY DEF ContextIsCancelled, isRegistered
<1>4. NoLostWakeup'
  BY DEF NoLostWakeup, answered
<1> QED
  BY <1>1, <1>2, <1>3, <1>4

LEMMA NextConsistent == Consistent /\ [Next]_vars => Consistent'
<1> SUFFICES ASSUME Consistent, [Next]_vars
             PROVE  Consistent'
  OBVIOUS
<1>T. /\ closed \in BOOLEAN /\ closeDone \in BOOLEAN /\ completion \in BOOLEAN
      /\ signalDue \in BOOLEAN /\ parked \subseteq Ops
  BY DEF Consistent, TypeOK, CoreTypeOK
<1>1. ASSUME NEW op \in Ops, NEW kind \in QueryKind, StartQuery(op, kind)
      PROVE  Consistent'
  BY <1>1, StartQueryStep
<1>2. ASSUME NEW q \in Queries, answer(q)
      PROVE  Consistent'
  BY <1>2, AnswerStep DEF answer
<1>3. ASSUME NEW op \in Ops, LookAtResult(op)
      PROVE  Consistent'
  BY <1>3, <1>T, QuietStep DEF LookAtResult, queryVars
<1>4. ASSUME NEW op \in Ops, TakeDNSError(op) \/ TakeLocalAddrForRemote(op) \/ FinishQuery(op)
      PROVE  Consistent'
  BY <1>4, ReleaseStep DEF TakeDNSError, TakeLocalAddrForRemote, FinishQuery
<1>5. ASSUME NEW op \in Ops, ResultPending(op)
      PROVE  Consistent'
  BY <1>5, <1>T, QuietStep DEF ResultPending, queryVars
<1>6. ASSUME NEW op \in Ops, CancelQuery(op)
      PROVE  Consistent'
  BY <1>6, CancelStep
<1>7. ASSUME NEW q \in Queries, cancelContext(q)
      PROVE  Consistent'
  BY <1>7, <1>T, QuietStep DEF cancelContext, coreVars
<1>8. CASE Close
  BY <1>8, CloseStep
<1>9. CASE CloseReturns
  BY <1>9, <1>T, QuietStep DEF CloseReturns, queryVars
<1>10. CASE signal
  BY <1>10, <1>T, QuietStep DEF signal, signalCompletion, queryVars
<1>11. CASE notify
  BY <1>11, <1>T, QuietStep DEF notify, NotifyGuest, queryVars
<1>12. CASE Terminated \/ UNCHANGED vars
  BY <1>12, <1>T, QuietStep DEF Terminated, vars, coreVars, queryVars
<1> QED
  BY <1>1, <1>2, <1>3, <1>4, <1>5, <1>6, <1>7, <1>8, <1>9, <1>10, <1>11, <1>12 DEF Next

-----------------------------------------------------------------------------
(* Theorems.                                                               *)

\* In every reachable state the id table, the records, the contexts and the
\* goroutines of dns.go, environment.go and management.go agree.
THEOREM Consistency == Spec => []Consistent
<1>1. Init => Consistent
  BY InitConsistent
<1>2. Consistent /\ [Next]_vars => Consistent'
  BY NextConsistent
<1> QED
  BY <1>1, <1>2, PTL DEF Spec

\* Every variable always holds a value of its Go type.
THEOREM TypeCorrect == Spec => []TypeOK
<1>1. Consistent => TypeOK
  BY DEF Consistent
<1> QED
  BY <1>1, Consistency, PTL

\* What a service answers late, to a question that was cancelled, is never shown
\* under the id the question had.
THEOREM LateAnswersAreDropped == Spec => []AnswerIsOwn
<1>1. Consistent => AnswerIsOwn
  BY DEF Consistent
<1> QED
  BY <1>1, Consistency, PTL

\* No service is left working for nobody: CancelOperation, the Take calls and
\* Close cancel the context of what they give up.
THEOREM ContextsAreCancelled == Spec => []ContextIsCancelled
<1>1. Consistent => ContextIsCancelled
  BY DEF Consistent
<1> QED
  BY <1>1, Consistency, PTL

\* The completion channel never misses an answer a waiting guest could read.
THEOREM WakeupsAreNotLost == Spec => []NoLostWakeup
<1>1. Consistent => NoLostWakeup
  BY DEF Consistent
<1> QED
  BY <1>1, Consistency, PTL

-----------------------------------------------------------------------------
(* The refinement.                                                         *)

\* The reply the guest would be given for an id.
replyTo(op) ==
  IF answered(op) THEN [to |-> query[queries[op]].result, err |-> query[queries[op]].err] ELSE Nil

\* A new reactor has been asked nothing.
LEMMA AbstractInit == Init => Abstract!Init
BY DEF Init, CoreInit, Abstract!Init, answered

\* Questions are asked of a reactor that is open and under a free id.
LEMMA StartRefines ==
  ASSUME Consistent, NEW op \in Ops, NEW kind \in QueryKind, StartQuery(op, kind)
  PROVE  Abstract!Next
<1> PICK q \in freeAddresses(op) :
      /\ claimOperationLocked(op, kind)
      /\ queries' = [queries EXCEPT ![op] = q]
      /\ query' = [query EXCEPT
                     ![q] = [kind |-> kind, done |-> FALSE, err |-> FALSE, result |-> Nil]]
      /\ UNCHANGED closed
  BY DEF StartQuery
<1>1. /\ q \in Queries /\ q[1] = op /\ q # Nil /\ query[q] = Nil
  BY AddressLemma DEF freeAddresses
<1>2. queries[op] = Nil /\ ~closed
  BY DEF claimOperationLocked, Consistent, TablesAgree
<1>3. ASSUME NEW o \in Ops
      PROVE  replyTo(o)' = replyTo(o)
  <2>1. CASE o = op
    BY <2>1, <1>1, <1>2 DEF Consistent, TypeOK, replyTo, answered
  <2>2. CASE o # op
    <3>1. queries'[o] = queries[o] /\ queries[o] # q
      BY <2>2, <1>1 DEF Consistent, TypeOK, TablesAgree
    <3>2. queries[o] # Nil => query'[queries[o]] = query[queries[o]]
      BY <3>1, RecordLemma DEF Consistent, TypeOK
    <3> QED
      BY <3>1, <3>2 DEF replyTo, answered
  <2> QED
    BY <2>1, <2>2
<1>4. Abstract!Start(op, q)
  BY <1>2, <1>3 DEF Abstract!Start, replyTo
<1> QED
  BY <1>1, <1>4 DEF Abstract!Next

\* An answer is shown, if at all, under the id it was asked for, and only once.
LEMMA AnswerRefines ==
  ASSUME Consistent, NEW q \in Queries, NEW err \in BOOLEAN, serviceReturns(q, err)
  PROVE  Abstract!Next \/ UNCHANGED Abstract!vars
<1>0. /\ q \in resolving /\ UNCHANGED <<closed, queries>> /\ q[1] \in Ops /\ q # Nil
  BY AddressLemma DEF serviceReturns
<1>1. CASE isRegistered(q)
  <2> DEFINE op == q[1]
             a == [query[q] EXCEPT !.done = TRUE, !.err = err, !.result = q]
  <2>1. queries[op] = q
    BY <1>1 DEF isRegistered
  <2>2. query' = [query EXCEPT ![q] = a]
    BY <1>1, <2>1 DEF serviceReturns
  <2>3. query[q] \in Records
    BY <2>1, <1>0, RecordLemma DEF Consistent
  <2>4. a \in Records /\ a.done = TRUE /\ a.result = q /\ a.err = err
    BY <2>3 DEF Records
  <2> HIDE DEF a
  <2>5. query'[q] = a /\ \A p \in Queries : p # q => query'[p] = query[p]
    BY <2>2 DEF Consistent, TypeOK
  <2>6. ~answered(op)
    BY <1>0, <2>1 DEF answered, Consistent, TablesAgree
  <2>7. replyTo(op)' = [to |-> q, err |-> err]
    BY <1>0, <2>1, <2>4, <2>5 DEF replyTo, answered
  <2>8. ASSUME NEW o \in Ops, o # op
        PROVE  replyTo(o)' = replyTo(o)
    <3>1. queries[o] # Nil => query'[queries[o]] = query[queries[o]]
      BY <2>1, <2>5, <2>8, <1>0, OwnRecords, RecordLemma DEF Consistent
    <3> QED
      BY <1>0, <3>1 DEF replyTo, answered
  <2>9. [to |-> q, err |-> err] \in answersTo(queries[op])
    BY <2>1 DEF answersTo
  <2>10. /\ replyTo(op) = Nil
         /\ [o \in Ops |-> replyTo(o)'] =
              [[o \in Ops |-> replyTo(o)] EXCEPT ![op] = [to |-> q, err |-> err]]
    BY <1>0, <2>6, <2>7, <2>8 DEF replyTo
  <2> HIDE DEF op
  <2>11. Abstract!Answer(op, [to |-> q, err |-> err])
    BY <1>0, <2>1, <2>9, <2>10 DEF Abstract!Answer, replyTo, op
  <2> QED
    BY <1>0, <2>1, <2>9, <2>11 DEF Abstract!Next, op
<1>2. CASE ~isRegistered(q)
  <2>1. UNCHANGED query
    BY <1>2 DEF serviceReturns
  <2> QED
    BY <1>0, <2>1 DEF Abstract!vars, answered
<1> QED
  BY <1>1, <1>2

\* Whoever gives up a record releases the id of one question.
LEMMA GiveUpRefines ==
  ASSUME Consistent, NEW op \in Ops, queries[op] # Nil,
         query' = [query EXCEPT ![queries[op]] = Nil],
         queries' = [queries EXCEPT ![op] = Nil],
         UNCHANGED closed
  PROVE  Abstract!Next
<1>1. queries'[op] = Nil /\ replyTo(op)' = Nil
  BY DEF Consistent, TypeOK, replyTo, answered
<1>2. ASSUME NEW o \in Ops, o # op
      PROVE  replyTo(o)' = replyTo(o)
  <2>1. queries'[o] = queries[o]
    BY <1>2 DEF Consistent, TypeOK
  <2>2. queries[o] # Nil => query'[queries[o]] = query[queries[o]]
    BY <1>2, OwnRecords, RecordLemma DEF Consistent, TypeOK
  <2> QED
    BY <2>1, <2>2 DEF replyTo, answered
<1>3. [o \in Ops |-> replyTo(o)'] = [[o \in Ops |-> replyTo(o)] EXCEPT ![op] = Nil]
  BY <1>1, <1>2
<1>4. Abstract!Release(op)
  BY <1>3 DEF Abstract!Release, replyTo
<1> QED
  BY <1>4 DEF Abstract!Next

\* Every step of the reactor is a step of HostOperations or changes nothing the
\* guest can see.
LEMMA StepRefines == Consistent /\ [Next]_vars => [Abstract!Next]_(Abstract!vars)
<1> SUFFICES ASSUME Consistent, [Next]_vars
             PROVE  Abstract!Next \/ UNCHANGED Abstract!vars
  OBVIOUS
<1>1. ASSUME NEW op \in Ops, NEW kind \in QueryKind, StartQuery(op, kind)
      PROVE  Abstract!Next
  BY <1>1, StartRefines
<1>2. ASSUME NEW q \in Queries, answer(q)
      PROVE  Abstract!Next \/ UNCHANGED Abstract!vars
  BY <1>2, AnswerRefines DEF answer
<1>3. ASSUME NEW op \in Ops, TakeDNSError(op) \/ TakeLocalAddrForRemote(op) \/ FinishQuery(op)
      PROVE  Abstract!Next
  BY <1>3, GiveUpRefines DEF TakeDNSError, TakeLocalAddrForRemote, FinishQuery, release, answered
<1>4. ASSUME NEW op \in Ops, CancelQuery(op)
      PROVE  Abstract!Next
  <2>1. queries[op] # Nil
    BY <1>4 DEF CancelQuery, Consistent, TablesAgree
  <2> QED
    BY <1>4, <2>1, GiveUpRefines DEF CancelQuery
<1>5. CASE Close
  <2>1. Abstract!Close
    BY <1>5 DEF Close, Abstract!Close, answered
  <2> QED
    BY <2>1 DEF Abstract!Next
<1>6. ASSUME UNCHANGED <<closed, queries, query>>
      PROVE  UNCHANGED Abstract!vars
  BY <1>6 DEF Abstract!vars, answered
<1>7. ASSUME NEW op \in Ops, LookAtResult(op) \/ ResultPending(op)
      PROVE  UNCHANGED Abstract!vars
  BY <1>6, <1>7 DEF LookAtResult, ResultPending, queryVars
<1>8. ASSUME NEW q \in Queries, cancelContext(q)
      PROVE  UNCHANGED Abstract!vars
  BY <1>6, <1>8 DEF cancelContext, coreVars
<1>9. CASE CloseReturns \/ signal \/ notify \/ Terminated \/ UNCHANGED vars
  BY <1>6, <1>9 DEF CloseReturns, signal, signalCompletion, notify, NotifyGuest, Terminated, vars,
                    coreVars, queryVars
<1> QED
  BY <1>1, <1>2, <1>3, <1>4, <1>5, <1>7, <1>8, <1>9 DEF Next

\* DNS, local address and management operations implement HostOperations: a
\* question gets at most one answer, its own, which does not change until the
\* guest is done with it.
THEOREM Refinement == Spec => KeepsPromise
<1>1. Init => Abstract!Init
  BY AbstractInit
<1>2. Consistent /\ [Next]_vars => [Abstract!Next]_(Abstract!vars)
  BY StepRefines
<1> QED
  BY <1>1, <1>2, Consistency, PTL DEF Spec, KeepsPromise, Abstract!Spec


-----------------------------------------------------------------------------
(* The adapter: the invariant of HostABI, which is written against         *)
(* HostOperations.                                                         *)

CONSTANTS Items, Platform

VARIABLES asked, reply, stored, item, awaiting

\* HostABI, for the same guest and its operation ids.
H == INSTANCE HostABI

\* What a step of the adapter can be, as far as the reactor and the guest's
\* view of it are concerned.
asksReactor(op, kind) ==
  /\ ~closed
  /\ asked[op] = Nil
  /\ asked' = [asked EXCEPT ![op] = kind]
  /\ awaiting' = [awaiting EXCEPT ![op] = kind]
  /\ UNCHANGED <<closed, reply, stored, item>>

\* The result goes to `fate`, which may be nobody's when there is no item.
takesResult(op, fate) ==
  /\ H!fetch(op)
  /\ H!hand(H!result(op).item, fate)
  /\ awaiting' = [awaiting EXCEPT ![op] = Nil]

cancelsOperation(op) ==
  /\ H!CancelOperation(op)
  /\ awaiting' = [awaiting EXCEPT ![op] = Nil]

\* Where an item may go from the reactor.
Fates == H!ItemStates \ {"new", "reactor", "lost"}

\* The result of a fetch has the shape of one.
LEMMA FetchedResult ==
  ASSUME H!NilAssumption, H!TypeOK, NEW op \in Ops, H!hasResult(op)
  PROVE  H!result(op) \in H!Results
<1>1. CASE ~H!ownResult(op)
  <2>1. stored[asked[op]] \in Seq(H!Results) /\ stored[asked[op]] # <<>>
    BY <1>1 DEF H!hasResult, H!ownResult, H!TypeOK
  <2>2. Head(stored[asked[op]]) \in H!Results
    BY <2>1
  <2> QED
    BY <1>1, <2>2 DEF H!result
<1>2. CASE H!ownResult(op)
  BY <1>2 DEF H!hasResult, H!result, H!TypeOK
<1> QED
  BY <1>1, <1>2

\* Handing over nothing changes nothing.
LEMMA HandNothing ==
  ASSUME H!NilAssumption, H!TypeOK, UNCHANGED item, NEW fate
  PROVE  H!hand(Nil, fate)
BY DEF H!hand, H!TypeOK, H!NilAssumption

\* Which statuses end an operation of the kind the guest asked for.
LEMMA Statuses ==
  ASSUME NEW kind, NEW status, status \notin {"pending", "length"},
         status = "memory" => kind # "udpRead"
  PROVE  H!endsOperation(kind, kind, status)
BY DEF H!endsOperation

\* The errors a result can carry are neither pending nor a length.
LEMMA ErrorStatuses ==
  ASSUME NEW err \in H!Errors
  PROVE  /\ H!operationStatus(err) \notin {"pending", "length", "memory"}
         /\ H!connectStatus(err) \notin {"pending", "length", "memory"}
<1>1. H!operationStatus(err) \notin {"pending", "length", "memory"}
  BY DEF H!Errors, H!operationStatus
<1>2. H!connectErrors \subseteq {"refused", "aborted", "reset", "notConnected"}
  BY DEF H!connectErrors, H!unixConnectErrors, H!windowsConnectErrors, H!otherConnectErrors
<1> QED
  BY <1>1, <1>2 DEF H!connectStatus, H!Errors

\* A take function of the operation's own kind that ends it.
LEMMA Returns ==
  ASSUME H!GuestAndHostAgree, NEW op \in Ops, asked[op] # Nil, NEW status, H!return(op, status),
         status \notin {"pending", "length"},
         status = "memory" => asked[op] # "udpRead"
  PROVE  awaiting' = [awaiting EXCEPT ![op] = Nil]
<1>1. awaiting[op] = asked[op]
  BY DEF H!GuestAndHostAgree
<1> QED
  BY <1>1, Statuses DEF H!return, H!returns

\* A result that is an error leaves nothing to hand over.
LEMMA ErrorTaken ==
  ASSUME H!NilAssumption, H!TypeOK, H!GuestAndHostAgree, NEW op \in Ops, NEW status,
         H!takeError(op, status),
         status \notin {"pending", "length", "memory"}
  PROVE  takesResult(op, "told")
<1>1. awaiting' = [awaiting EXCEPT ![op] = Nil]
  BY Returns DEF H!takeError, H!fetch, H!hasResult
<1>2. H!hand(H!result(op).item, "told")
  BY HandNothing DEF H!takeError
<1> QED
  BY <1>1, <1>2 DEF H!takeError, takesResult

\* Every socket that is taken is the guest's or closed.
LEMMA SocketTaken ==
  ASSUME H!NilAssumption, H!TypeOK, H!GuestAndHostAgree, NEW op \in Ops, NEW mem \in BOOLEAN,
        asked[op] \in H!CreateKinds \cup {"accept"},
         NEW status, status \notin {"pending", "length", "memory"},
         \/ ~mem /\ H!invalidResultMemory(op)
         \/ mem /\ H!takeError(op, status)
         \/ /\ mem
            /\ H!fetch(op)
            /\ H!result(op).item # Nil
            /\ H!hand(H!result(op).item, H!handle(asked[op], H!result(op).encodable))
            /\ H!return(op, IF H!result(op).encodable THEN "ok" ELSE "memory")
  PROVE  cancelsOperation(op) \/ \E fate \in Fates : takesResult(op, fate)
<1>0. asked[op] # "udpRead" /\ asked[op] # Nil
  BY DEF H!CreateKinds, H!NilAssumption, H!Kinds, H!SharedKinds
<1>1. CASE H!invalidResultMemory(op)
  <2>1. awaiting' = [awaiting EXCEPT ![op] = Nil]
    BY <1>0, <1>1, Returns DEF H!invalidResultMemory
  <2> QED
    BY <1>1, <2>1 DEF H!invalidResultMemory, cancelsOperation
<1>2. CASE H!takeError(op, status)
  <2>1. takesResult(op, "told")
    BY <1>2, ErrorTaken
  <2> QED
    BY <2>1 DEF Fates, H!ItemStates
<1>3. CASE /\ H!fetch(op)
           /\ H!hand(H!result(op).item, H!handle(asked[op], H!result(op).encodable))
           /\ H!return(op, IF H!result(op).encodable THEN "ok" ELSE "memory")
  <2> DEFINE s == IF H!result(op).encodable THEN "ok" ELSE "memory"
  <2>0. H!return(op, s) /\ s \notin {"pending", "length"}
    BY <1>3
  <2> HIDE DEF s
  <2>1. awaiting' = [awaiting EXCEPT ![op] = Nil]
    BY <1>0, <2>0, Returns
  <2>2. H!handle(asked[op], H!result(op).encodable) \in Fates
    BY DEF H!handle, H!opened, Fates, H!ItemStates, H!Handles
  <2> QED
    BY <1>3, <2>1, <2>2 DEF takesResult
<1> QED
  BY <1>1, <1>2, <1>3

\* The take functions, one by one: each cancels the operation, leaves all as it
\* is, or takes its result to some fate, and the guest draws the right conclusion.
LEMMA TakeCases ==
  ASSUME H!NilAssumption, H!TypeOK, H!ResultsFit, H!GuestAndHostAgree, NEW op \in Ops, NEW mem \in BOOLEAN,
        NEW fits \in BOOLEAN,
         NEW long \in BOOLEAN,
         \/ H!takePending(op)
         \/ H!takeTCPConnect(op, mem) \/ H!takeUDPBind(op, mem) \/ H!takeTCPListen(op, mem)
         \/ H!takeTCPAccept(op, mem) \/ H!takeLocalAddrForRemote(op, mem) \/ H!takeRead(op, mem, fits)
         \/ H!takeWrite(op) \/ H!takeUDPSendReady(op) \/ H!takePacketWriteReady(op)
         \/ H!takeUDPReceive(op, mem) \/ H!takeDNS(op, mem, fits) \/ H!takeManagement(op, mem, fits, long)
  PROVE  \/ UNCHANGED H!vars
         \/ cancelsOperation(op)
         \/ \E fate \in Fates : takesResult(op, fate)
<1>0. /\ "told" \in Fates /\ "guest" \in Fates
      /\ H!hasResult(op) => H!result(op) \in H!Results /\ H!result(op).err \in H!Errors
  BY FetchedResult DEF Fates, H!ItemStates, H!Handles, H!Results
<1>00. asked[op] # Nil
  <2>1. H!CancelOperation(op) => asked[op] # Nil
    BY DEF H!CancelOperation, H!Reactor!Release
  <2>2. H!fetch(op) => asked[op] # Nil
    BY DEF H!fetch, H!hasResult
  <2>3. Nil \notin H!CreateKinds \cup H!SharedKinds \cup H!LookKinds \cup H!PlainKinds \cup {"environment"}
    BY DEF H!NilAssumption, H!Kinds
  <2> QED
    BY <2>1, <2>2, <2>3 DEF H!takePending, H!takeTCPConnect, H!takeUDPBind, H!takeTCPListen,
         H!takeTCPAccept, H!takeLocalAddrForRemote, H!takeRead, H!takeWrite, H!takeUDPSendReady,
         H!takePacketWriteReady, H!takeUDPReceive, H!takeDNS, H!takeManagement, H!CreateKinds,
         H!SharedKinds, H!LookKinds, H!DNSKinds, H!PlainKinds
<1>1. CASE H!takePending(op)
  BY <1>1 DEF H!takePending, H!return, H!returns, H!endsOperation, H!vars
<1>2. CASE H!takeTCPConnect(op, mem)
  <2>1. CASE H!hasResult(op)
    <3>1. H!connectStatus(H!result(op).err) \notin {"pending", "length", "memory"}
      BY <1>0, <2>1, ErrorStatuses
    <3> QED
      BY <1>2, <3>1, SocketTaken DEF H!takeTCPConnect, H!takeSocket, H!CreateKinds
  <2>2. CASE ~H!hasResult(op)
    <3>1. H!invalidResultMemory(op)
      BY <1>2, <2>2 DEF H!takeTCPConnect, H!takeSocket, H!takeError, H!fetch
    <3>2. awaiting' = [awaiting EXCEPT ![op] = Nil]
      BY <1>2, <3>1, <1>00, Returns DEF H!invalidResultMemory, H!takeTCPConnect
    <3> QED
      BY <3>1, <3>2 DEF H!invalidResultMemory, cancelsOperation
  <2> QED
    BY <2>1, <2>2
<1>3. CASE H!takeUDPBind(op, mem) \/ H!takeTCPListen(op, mem) \/ H!takeTCPAccept(op, mem)
  <2>0. asked[op] \in H!CreateKinds \cup {"accept"} /\ H!takeSocket(op, mem, H!operationStatus)
    BY <1>3 DEF H!takeUDPBind, H!takeTCPListen, H!takeTCPAccept, H!CreateKinds
  <2>1. CASE H!hasResult(op)
    <3>1. H!operationStatus(H!result(op).err) \notin {"pending", "length", "memory"}
      BY <1>0, <2>1, ErrorStatuses
    <3> QED
      BY <2>0, <3>1, SocketTaken DEF H!takeSocket
  <2>2. CASE ~H!hasResult(op)
    <3>1. H!invalidResultMemory(op)
      BY <2>0, <2>2 DEF H!takeSocket, H!takeError, H!fetch
    <3>2. awaiting' = [awaiting EXCEPT ![op] = Nil]
      BY <2>0, <3>1, <1>00, Returns DEF H!invalidResultMemory, H!CreateKinds
    <3> QED
      BY <3>1, <3>2 DEF H!invalidResultMemory, cancelsOperation
  <2> QED
    BY <2>1, <2>2
<1>4. CASE H!takeLocalAddrForRemote(op, mem) \/ H!takeUDPReceive(op, mem)
  <2>1. CASE H!takeLocalAddrForRemote(op, mem) /\ H!invalidResultMemory(op)
    <3>1. awaiting' = [awaiting EXCEPT ![op] = Nil]
      BY <2>1, <1>00, Returns DEF H!invalidResultMemory, H!takeLocalAddrForRemote
    <3> QED
      BY <2>1, <3>1 DEF H!invalidResultMemory, cancelsOperation
  <2>2. CASE H!takeUDPReceive(op, mem) /\ H!return(op, "memory") /\ UNCHANGED <<closed, asked,
                                                                       reply, stored, item>>
    BY <2>2 DEF H!takeUDPReceive, H!return, H!returns, H!endsOperation, H!vars
  <2>3. CASE H!takeError(op, H!operationStatus(H!result(op).err))
    <3>1. H!operationStatus(H!result(op).err) \notin {"pending", "length", "memory"}
      BY <1>0, <2>3, ErrorStatuses DEF H!takeError, H!fetch
    <3>2. takesResult(op, "told")
      BY <2>3, <3>1, ErrorTaken
    <3> QED
      BY <1>0, <3>2
  <2>4. CASE /\ H!fetch(op)
             /\ H!hand(H!result(op).item, IF H!result(op).encodable THEN "guest" ELSE "told")
             /\ H!return(op, IF H!result(op).encodable THEN "ok" ELSE "invalid")
    <3>1. awaiting' = [awaiting EXCEPT ![op] = Nil]
      <4> DEFINE s == IF H!result(op).encodable THEN "ok" ELSE "invalid"
      <4>1. H!return(op, s) /\ s \notin {"pending", "length", "memory"}
        BY <2>4
      <4> HIDE DEF s
      <4> QED
        BY <4>1, <1>00, Returns
    <3>2. (IF H!result(op).encodable THEN "guest" ELSE "told") \in Fates
      BY <1>0
    <3> QED
      BY <2>4, <3>1, <3>2 DEF takesResult
  <2> QED
    BY <1>4, <2>1, <2>2, <2>3, <2>4 DEF H!takeLocalAddrForRemote, H!takeUDPReceive
<1>5. CASE H!takeRead(op, mem, fits)
  <2> DEFINE r == H!result(op)
             delivered == r.err = "nil" /\ (r.item = Nil \/ (mem /\ fits))
             s == IF r.err # "nil" THEN H!operationStatus(r.err)
                  ELSE IF delivered THEN "ok" ELSE "memory"
             fate == IF delivered THEN "guest" ELSE "told"
  <2>1. H!fetch(op) /\ H!hand(r.item, fate) /\ H!return(op, s) /\ asked[op] = "read"
    BY <1>5 DEF H!takeRead
  <2>2. H!operationStatus(r.err) \notin {"pending", "length", "memory"}
    BY <1>0, <2>1, ErrorStatuses DEF H!fetch
  <2>3. s \notin {"pending", "length"} /\ fate \in Fates
    BY <1>0, <2>2
  <2> HIDE DEF r, s, fate
  <2>4. awaiting' = [awaiting EXCEPT ![op] = Nil]
    BY <2>1, <2>3, <1>00, Returns
  <2> QED
    BY <2>1, <2>3, <2>4 DEF takesResult, r
<1>6. CASE H!takeWrite(op) \/ H!takeUDPSendReady(op) \/ H!takePacketWriteReady(op)
  <2>1. H!takePlain(op) /\ asked[op] \in H!PlainKinds
    BY <1>6 DEF H!takeWrite, H!takeUDPSendReady, H!takePacketWriteReady, H!PlainKinds
  <2>2. H!result(op).item = Nil
    <3>1. asked[op] \notin H!SharedKinds /\ reply[op] # Nil
      BY <2>1 DEF H!takePlain, H!fetch, H!hasResult, H!ownResult, H!PlainKinds, H!SharedKinds
    <3>2. reply[op] \in H!resultsFor(asked[op])
      BY <3>1 DEF H!ResultsFit
    <3> QED
      BY <2>1, <3>1, <3>2 DEF H!resultsFor, H!result, H!ownResult
  <2>3. H!operationStatus(H!result(op).err) \notin {"pending", "length", "memory"}
    BY <1>0, <2>1, ErrorStatuses DEF H!takePlain, H!fetch
  <2>4. awaiting' = [awaiting EXCEPT ![op] = Nil]
    BY <2>1, <2>3, <1>00, Returns DEF H!takePlain
  <2>5. H!hand(H!result(op).item, "told")
    BY <2>1, <2>2, HandNothing DEF H!takePlain
  <2> QED
    BY <1>0, <2>1, <2>4, <2>5 DEF H!takePlain, takesResult
<1>7. CASE H!takeDNS(op, mem, fits) \/ H!takeManagement(op, mem, fits, long)
  <2>0. asked[op] # "udpRead"
    BY <1>7 DEF H!takeDNS, H!takeManagement, H!DNSKinds
  <2>1. CASE H!tooSmall(op)
    BY <2>1 DEF H!tooSmall, H!return, H!returns, H!endsOperation, H!vars
  <2>2. CASE H!finish(op, mem)
    <3> DEFINE s == IF mem THEN "ok" ELSE "memory"
               fate == IF mem THEN "guest" ELSE "told"
    <3>1. H!fetch(op) /\ H!hand(H!result(op).item, fate) /\ H!return(op, s)
      BY <2>2 DEF H!finish
    <3>2. s \notin {"pending", "length"} /\ fate \in Fates
      BY <1>0
    <3> HIDE DEF s, fate
    <3>3. awaiting' = [awaiting EXCEPT ![op] = Nil]
      BY <2>0, <3>1, <3>2, <1>00, Returns
    <3> QED
      BY <3>1, <3>2, <3>3 DEF takesResult
  <2>3. CASE H!giveUp(op)
    <3>1. awaiting' = [awaiting EXCEPT ![op] = Nil]
      BY <2>3, <1>00, Returns DEF H!giveUp
    <3> QED
      BY <1>0, <2>3, <3>1 DEF H!giveUp, takesResult
  <2>4. CASE H!takeError(op, H!operationStatus(H!result(op).err))
    <3>1. H!operationStatus(H!result(op).err) \notin {"pending", "length", "memory"}
      BY <1>0, <2>4, ErrorStatuses DEF H!takeError, H!fetch
    <3>2. takesResult(op, "told")
      BY <2>4, <3>1, ErrorTaken
    <3> QED
      BY <1>0, <3>2
  <2>5. CASE H!CancelOperation(op) /\ H!return(op, "invalid")
    <3>1. awaiting' = [awaiting EXCEPT ![op] = Nil]
      BY <2>5, <1>00, Returns
    <3> QED
      BY <2>5, <3>1 DEF cancelsOperation
  <2> QED
    BY <1>7, <2>1, <2>2, <2>3, <2>4, <2>5 DEF H!takeDNS, H!takeManagement
<1> QED
  BY <1>1, <1>2, <1>3, <1>4, <1>5, <1>6, <1>7

\* Every step, in those terms.
quietCall ==
  /\ UNCHANGED <<closed, asked, reply, stored, item>>
  /\ \/ UNCHANGED awaiting
     \/ \E op \in Ops : asked[op] = Nil /\ awaiting' = [awaiting EXCEPT ![op] = Nil]
closesHandle ==
  \E x \in Items, at \in SUBSET Ops, own \in BOOLEAN, taker \in Ops \cup {Nil} :
    H!closeHandle(x, at, own, taker)
AdapterSteps ==
  \/ quietCall
  \/ \E op \in Ops, kind \in H!Kinds : asksReactor(op, kind)
  \/ \E op \in Ops : asked[op] # Nil /\ \E r \in H!resultsFor(asked[op]) : H!Answered(op, r)
  \/ \E kind \in H!SharedKinds : \E r \in H!resultsFor(kind) : H!Stores(kind, r)
  \/ \E op \in Ops : cancelsOperation(op)
  \/ \E op \in Ops, fate \in Fates : takesResult(op, fate)
  \/ closesHandle
  \/ \E on \in SUBSET Ops : H!UnregisterPacketSink(on)
  \/ H!ReactorCloses

\* The take functions, the rest of Next, and stuttering are among these.
LEMMA AdapterCases ==
  ASSUME H!NilAssumption, H!TypeOK, H!ResultsFit, H!GuestAndHostAgree, [H!Next]_(H!vars)
  PROVE  AdapterSteps
<1> HIDE DEF AdapterSteps
<1>1. ASSUME NEW op \in Ops, NEW kind \in H!Kinds, H!start(op, kind)
      PROVE  AdapterSteps
  <2>1. asksReactor(op, kind)
    BY <1>1 DEF H!start, H!Reactor!Start, asksReactor
  <2> QED
    BY <2>1 DEF AdapterSteps
<1>2. ASSUME NEW op \in Ops, H!Starts(op)
      PROVE  AdapterSteps
  <2>1. \E kind \in H!Kinds : H!start(op, kind)
    BY <1>2 DEF H!Starts, H!Kinds, H!CreateKinds, H!SharedKinds, H!LookKinds, H!DNSKinds,
         H!PlainKinds, H!startTCPConnect,
       H!startUDPBind, H!startTCPListen, H!startTCPAccept, H!startRead, H!startWrite, H!startUDPReceive,
       H!startUDPSendReady, H!startPacketWriteReady, H!startDNS, H!startLocalAddrForRemote,
             H!startManagement
  <2> QED
    BY <1>1, <2>1
<1>3. ASSUME NEW op \in Ops, \/ UNCHANGED H!vars
                             \/ cancelsOperation(op)
                             \/ \E fate \in Fates : takesResult(op, fate)
      PROVE  AdapterSteps
  BY <1>3 DEF AdapterSteps, quietCall, H!vars
<1>4. ASSUME NEW op \in Ops, NEW mem \in BOOLEAN, NEW fits \in BOOLEAN, NEW long \in BOOLEAN,
         \/ H!takePending(op)
         \/ H!takeTCPConnect(op, mem) \/ H!takeUDPBind(op, mem) \/ H!takeTCPListen(op, mem)
         \/ H!takeTCPAccept(op, mem) \/ H!takeLocalAddrForRemote(op, mem) \/ H!takeRead(op, mem, fits)
         \/ H!takeWrite(op) \/ H!takeUDPSendReady(op) \/ H!takePacketWriteReady(op)
         \/ H!takeUDPReceive(op, mem) \/ H!takeDNS(op, mem, fits) \/ H!takeManagement(op, mem, fits, long)
      PROVE  AdapterSteps
  BY <1>3, <1>4, TakeCases
<1>5. ASSUME NEW op \in Ops, NEW export \in H!Kinds, NEW mem \in BOOLEAN, H!takeOther(op, export, mem)
      PROVE  AdapterSteps
  <2>0. awaiting[op] = asked[op]
    BY <1>5 DEF H!takeOther, H!GuestAndHostAgree
  <2>1. H!endsOperation(export, awaiting[op], "invalid") = FALSE
    BY <1>5, <2>0 DEF H!takeOther, H!endsOperation
  <2>2. export \in H!checksFirst => H!endsOperation(export, awaiting[op], "memory")
    BY DEF H!endsOperation, H!checksFirst, H!CreateKinds
  <2>3. cancelsOperation(op) \/ UNCHANGED H!vars
    BY <1>5, <2>1, <2>2 DEF H!takeOther, H!returns, cancelsOperation, H!vars
  <2> QED
    BY <1>3, <2>3
<1>6. ASSUME NEW op \in Ops, NEW export \in H!DNSKinds, H!takeOtherDNS(op, export)
      PROVE  AdapterSteps
  <2>0. awaiting[op] = asked[op] /\ asked[op] # export
    BY <1>6 DEF H!takeOtherDNS, H!GuestAndHostAgree, H!NilAssumption, H!Kinds, H!LookKinds
  <2>1. CASE /\ H!returns(op, export, "pending") \/ H!returns(op, export, "invalid")
             /\ UNCHANGED <<closed, asked, reply, stored, item>>
    BY <1>3, <2>0, <2>1 DEF H!returns, H!endsOperation, H!vars
  <2>2. CASE /\ H!fetch(op) /\ H!result(op).item = Nil /\ UNCHANGED item
             /\ H!returns(op, export, H!operationStatus(H!result(op).err))
    <3>1. H!result(op) \in H!Results /\ H!result(op).err \in H!Errors
      BY <2>2, FetchedResult DEF H!fetch, H!Results
    <3>2. H!result(op).err # "invalid"
      <4>1. asked[op] \in H!DNSKinds
        BY <1>6 DEF H!takeOtherDNS
      <4>2. H!result(op) = reply[op] /\ reply[op] # Nil
        BY <2>2, <4>1 DEF H!fetch, H!hasResult, H!result, H!ownResult, H!DNSKinds, H!SharedKinds
      <4>3. reply[op] \in H!resultsFor(asked[op])
        BY <4>2 DEF H!ResultsFit
      <4> QED
        BY <4>1, <4>2, <4>3 DEF H!resultsFor, H!DNSKinds
    <3>3. H!operationStatus(H!result(op).err) \notin {"pending", "length", "memory", "invalid"}
      BY <3>1, <3>2 DEF H!operationStatus, H!Errors
    <3>4. awaiting' = [awaiting EXCEPT ![op] = Nil]
      BY <2>2, <3>3 DEF H!returns, H!endsOperation
    <3>5. takesResult(op, "told")
      BY <2>2, <3>4, HandNothing DEF takesResult
    <3> QED
      BY <1>3, <3>5 DEF Fates, H!ItemStates
  <2> QED
    BY <1>6, <2>1, <2>2 DEF H!takeOtherDNS
<1>7. ASSUME NEW op \in Ops,
             \/ H!cancelOperation(op)
             \/ \E export \in H!Kinds, mem \in BOOLEAN : H!takeGone(op, export, mem)
      PROVE  AdapterSteps
  <2>1. cancelsOperation(op) \/ quietCall
    BY <1>7 DEF H!cancelOperation, cancelsOperation, quietCall, H!takeGone, H!returns
  <2> QED
    BY <1>3, <2>1 DEF AdapterSteps
<1>8. CASE UNCHANGED H!vars
  BY <1>8 DEF AdapterSteps, quietCall, H!vars
<1>9. ASSUME \/ \E op \in Ops : asked[op] # Nil /\ \E r \in H!resultsFor(asked[op]) : H!Answered(op, r)
             \/ \E kind \in H!SharedKinds : \E r \in H!resultsFor(kind) : H!Stores(kind, r)
             \/ \E x \in Items, at \in SUBSET Ops, own \in BOOLEAN, taker \in Ops \cup {Nil} :
                  H!closeHandle(x, at, own, taker)
             \/ \E on \in SUBSET Ops : H!UnregisterPacketSink(on)
             \/ H!ReactorCloses
      PROVE  AdapterSteps
  BY <1>9 DEF AdapterSteps, closesHandle
<1> QED
  BY <1>2, <1>4, <1>5, <1>6, <1>7, <1>8, <1>9 DEF H!Next

\* The inductive invariant of the adapter.
AdapterInv == H!NilAssumption /\ H!Consistent /\ \A x \in Items : item[x] # "lost"

\* The invariant holds when the adapter is made.
LEMMA AdapterInitInv == H!NilAssumption /\ H!Init => AdapterInv
<1> SUFFICES ASSUME H!NilAssumption, H!Init PROVE AdapterInv
  OBVIOUS
<1> USE DEF H!Init, H!Reactor!Init
<1>1. H!TypeOK
  <2>1. <<>> \in Seq(H!Results)
    OBVIOUS
  <2> QED
    BY <2>1 DEF H!TypeOK, H!ItemStates
<1>2. H!GuestAndHostAgree /\ H!ResultsFit
  BY DEF H!GuestAndHostAgree, H!ResultsFit
<1>3. H!HeldOnce
  BY DEF H!HeldOnce, H!replyItem, H!storedItem, H!NilAssumption
<1> QED
  BY <1>1, <1>2, <1>3 DEF AdapterInv, H!Consistent

\* What fetching a result does to the tables.
LEMMA Fetched ==
  ASSUME H!NilAssumption, H!TypeOK, H!ResultsFit, NEW op \in Ops, H!fetch(op)
  PROVE  /\ asked[op] # Nil
         /\ asked' = [asked EXCEPT ![op] = Nil]
         /\ reply' = [reply EXCEPT ![op] = Nil]
         /\ UNCHANGED closed
         /\ \/ /\ reply[op] # Nil
               /\ H!result(op) = reply[op]
               /\ UNCHANGED stored
            \/ /\ asked[op] \in H!SharedKinds
               /\ reply[op] = Nil
               /\ stored[asked[op]] # <<>>
               /\ H!result(op) = Head(stored[asked[op]])
               /\ stored' = [stored EXCEPT ![asked[op]] = <<>>]
<1>1. /\ asked[op] # Nil /\ UNCHANGED closed
      /\ asked' = [asked EXCEPT ![op] = Nil]
      /\ reply' = [reply EXCEPT ![op] = Nil]
  BY DEF H!fetch, H!Reactor!Release
<1>2. CASE H!ownResult(op)
  BY <1>1, <1>2 DEF H!fetch, H!hasResult, H!result
<1>3. CASE ~H!ownResult(op)
  <2>1. reply[op] = Nil /\ asked[op] \in H!SharedKinds
    BY <1>3 DEF H!ownResult
  <2>2. stored[asked[op]] # <<>> /\ H!result(op) = Head(stored[asked[op]])
    BY <1>3 DEF H!fetch, H!hasResult, H!result
  <2>3. stored[asked[op]] = <<Head(stored[asked[op]])>>
    BY <2>1, <2>2 DEF H!ResultsFit
  <2>4. Tail(stored[asked[op]]) = <<>>
    <3>1. ASSUME NEW x PROVE Tail(<<x>>) = <<>>
      OBVIOUS
    <3> QED
      BY <2>3, <3>1, Zenon
  <2>5. stored' = [stored EXCEPT ![asked[op]] = <<>>]
    BY <1>3, <2>4 DEF H!fetch
  <2> QED
    BY <1>1, <2>1, <2>2, <2>5
<1> QED
  BY <1>2, <1>3

\* What CancelOperation does to them.
LEMMA Cancelled ==
  ASSUME NEW op \in Ops, H!CancelOperation(op)
  PROVE  /\ asked[op] # Nil
         /\ asked' = [asked EXCEPT ![op] = Nil]
         /\ reply' = [reply EXCEPT ![op] = Nil]
         /\ UNCHANGED <<closed, stored>>
         /\ \E fate \in {"closed", "dropped"} : H!hand(H!replyItem(op), fate)
BY DEF H!CancelOperation, H!Reactor!Release, H!hand, H!replyItem, H!cancelled

\* What CloseHandle does to them: operations of the closed socket have results
\* without an item, but for a read that is left the bytes the stream had stored;
\* otherwise what was stored is gone.
settled(x, op) ==
  /\ H!replyItem(op) = Nil
  /\ asked[op] # Nil
  /\ reply'[op] \in H!resultsFor(asked[op])
  /\ reply'[op].item = Nil
handleClosed(x, own, taker) ==
  /\ UNCHANGED <<closed, asked, awaiting>>
  /\ item[x] \in H!Handles /\ H!takes(item[x]) \in H!SharedKinds
  /\ reply' \in [Ops -> H!Results \cup {Nil}]
  /\ \A op \in Ops : op # taker => reply'[op] = reply[op] \/ settled(x, op)
  /\ own => stored[H!takes(item[x])] # <<>>
  /\ taker # Nil => /\ own /\ taker \in Ops /\ reply[taker] = Nil
                    /\ asked[taker] = "read" /\ H!takes(item[x]) = "read"
                    /\ reply'[taker] = Head(stored["read"])
  /\ stored' = IF own THEN [stored EXCEPT ![H!takes(item[x])] = <<>>] ELSE stored
  /\ item' \in [Items -> H!ItemStates]
  /\ \A y \in Items :
       /\ item'[y] = item[y] \/ item'[y] \in {"closed", "dropped"}
       /\ (item[y] # "reactor" \/ ~own \/ taker # Nil \/ y # H!storedItem(H!takes(item[x])))
            => (item'[y] = "reactor" <=> item[y] = "reactor")
       /\ (own /\ taker = Nil /\ y = H!storedItem(H!takes(item[x]))) => item'[y] # "reactor"
LEMMA HandleClosed ==
  ASSUME H!NilAssumption, H!TypeOK, H!ResultsFit, NEW x \in Items, NEW at \in SUBSET Ops,
         NEW own \in BOOLEAN, NEW taker \in Ops \cup {Nil}, H!closeHandle(x, at, own, taker)
  PROVE  handleClosed(x, own, taker)
<1> DEFINE socket == item[x]
           kind == H!takes(socket)
           kept == stored[kind]
           left == IF own THEN Head(kept).item ELSE Nil
<1>1. /\ UNCHANGED <<closed, asked, awaiting>>
      /\ socket \in H!Handles
      /\ at \subseteq H!unsettled(socket)
      /\ own => kept # <<>>
      /\ taker \in IF own /\ socket = "stream" THEN {Nil} \cup {op \in at : asked[op] = "read"} ELSE {Nil}
      /\ reply' = [op \in Ops |-> IF op = taker THEN Head(kept)
                                  ELSE IF op \in at THEN H!closedResult(socket) ELSE reply[op]]
      /\ stored' = IF own THEN [stored EXCEPT ![kind] = <<>>] ELSE stored
      /\ item' = [y \in Items |-> IF y = x THEN "closed"
                                  ELSE IF y # left \/ taker # Nil THEN item[y]
                                  ELSE IF socket = "listener" THEN "closed" ELSE "dropped"]
  BY DEF H!closeHandle
<1>2. kind \in H!SharedKinds
  BY DEF H!takes, H!SharedKinds
<1>3. H!closedResult(socket) \in H!Results /\ H!closedResult(socket).item = Nil
  BY DEF H!closedResult, H!Results, H!Errors
<1>4. own => Head(kept) \in H!Results
  BY <1>1, <1>2 DEF H!TypeOK
<1>5. own => H!storedItem(kind) = left
  BY <1>1 DEF H!storedItem
<1>6. ASSUME NEW op \in at
      PROVE  /\ H!replyItem(op) = Nil
             /\ asked[op] # Nil
             /\ H!closedResult(socket) \in H!resultsFor(asked[op])
             /\ asked[op] = "read" => reply[op] = Nil /\ socket = "stream"
  <2>1. op \in H!unsettled(socket)
    BY <1>1
  <2>2. CASE asked[op] = kind /\ reply[op] = Nil
    <3>1. asked[op] # Nil
      BY <1>2, <2>2 DEF H!NilAssumption, H!Kinds
    <3>2. H!closedResult(socket) \in H!resultsFor(kind)
      BY <1>1, <1>3 DEF H!resultsFor, H!closedResult, H!takes, H!Handles, H!PlainKinds
    <3>3. asked[op] = "read" => socket = "stream"
      BY <1>1, <2>2 DEF H!takes, H!Handles
    <3> QED
      BY <2>2, <3>1, <3>2, <3>3 DEF H!replyItem
  <2>3. CASE asked[op] = "write" /\ socket = "stream" /\ reply[op] = Nil
    <3>1. asked[op] # Nil
      BY <2>3 DEF H!NilAssumption, H!Kinds, H!PlainKinds
    <3>2. H!closedResult(socket) \in H!resultsFor("write")
      BY <1>3, <2>3 DEF H!resultsFor, H!closedResult, H!PlainKinds
    <3> QED
      BY <2>3, <3>1, <3>2 DEF H!replyItem
  <2>4. CASE asked[op] = "udpWrite" /\ socket = "datagram" /\ reply[op] # Nil
    <3>1. reply[op] \in H!resultsFor("udpWrite") /\ asked[op] # Nil
      BY <2>4 DEF H!ResultsFit
    <3>2. reply[op].item = Nil
      BY <3>1 DEF H!resultsFor, H!PlainKinds
    <3>3. H!closedResult(socket) \in H!resultsFor("udpWrite")
      BY <1>3, <2>4 DEF H!resultsFor, H!closedResult, H!PlainKinds
    <3> QED
      BY <2>4, <3>1, <3>2, <3>3 DEF H!replyItem
  <2> QED
    BY <2>1, <2>2, <2>3, <2>4 DEF H!unsettled
<1>7. taker # Nil => /\ own /\ taker \in Ops /\ taker \in at /\ reply[taker] = Nil
                      /\ asked[taker] = "read" /\ kind = "read"
                      /\ reply'[taker] = Head(stored["read"])
  BY <1>1, <1>6 DEF H!takes
<1>8. ASSUME NEW op \in Ops, op # taker
      PROVE  reply'[op] = reply[op] \/ settled(x, op)
  <2>1. CASE op \in at
    BY <1>1, <1>3, <1>6, <1>8, <2>1 DEF settled
  <2>2. CASE op \notin at
    BY <1>1, <1>8, <2>2
  <2> QED
    BY <2>1, <2>2
<1>9. reply' \in [Ops -> H!Results \cup {Nil}]
  <2>1. taker \in Ops => own
    BY <1>1 DEF H!NilAssumption
  <2> HIDE DEF socket, kind, kept
  <2> QED
    BY <1>1, <1>3, <1>4, <2>1 DEF H!TypeOK
<1>10. item' \in [Items -> H!ItemStates]
  BY <1>1 DEF H!TypeOK, H!ItemStates
<1>11. ASSUME NEW y \in Items
       PROVE  /\ item'[y] = item[y] \/ item'[y] \in {"closed", "dropped"}
              /\ (item[y] # "reactor" \/ ~own \/ taker # Nil \/ y # H!storedItem(kind))
                   => (item'[y] = "reactor" <=> item[y] = "reactor")
              /\ (own /\ taker = Nil /\ y = H!storedItem(kind)) => item'[y] # "reactor"
  <2>1. item[x] # "reactor"
    BY <1>1 DEF H!Handles
  <2>2. ~own => y # left
    BY DEF H!NilAssumption
  <2> HIDE DEF kept, left, kind
  <2> QED
    BY <1>1, <1>5, <2>1, <2>2
<1> QED
  BY <1>1, <1>2, <1>7, <1>8, <1>9, <1>10, <1>11 DEF handleClosed

LEMMA HandleCloses ==
  ASSUME H!NilAssumption, H!TypeOK, H!ResultsFit, closesHandle
  PROVE  \E x \in Items, own \in BOOLEAN, taker \in Ops \cup {Nil} : handleClosed(x, own, taker)
<1>1. PICK x \in Items, at \in SUBSET Ops, own \in BOOLEAN, taker \in Ops \cup {Nil} :
             H!closeHandle(x, at, own, taker)
  BY DEF closesHandle
<1> QED
  BY <1>1, HandleClosed

\* Every step keeps the types.
LEMMA AdapterTypeStep == AdapterInv /\ [H!Next]_(H!vars) => H!TypeOK'
<1> SUFFICES ASSUME H!NilAssumption, H!TypeOK, H!ResultsFit, AdapterSteps
             PROVE  H!TypeOK'
  BY AdapterCases DEF AdapterInv, H!Consistent
<1> USE DEF H!TypeOK
<1>0. Fates \subseteq H!ItemStates /\ {"closed", "dropped"} \subseteq H!ItemStates
  BY DEF Fates, H!ItemStates
<1>01. <<>> \in Seq(H!Results)
  OBVIOUS
<1>00. ASSUME NEW x, NEW fate \in H!ItemStates, H!hand(x, fate)
       PROVE  item' \in [Items -> H!ItemStates]
  BY <1>00 DEF H!hand
<1>1. CASE quietCall
  BY <1>1 DEF quietCall
<1>2. ASSUME NEW op \in Ops, NEW kind \in H!Kinds, asksReactor(op, kind)
      PROVE  H!TypeOK'
  BY <1>2 DEF asksReactor
<1>3. ASSUME NEW op \in Ops, NEW r \in H!resultsFor(asked[op]), H!Answered(op, r)
      PROVE  H!TypeOK'
  <2>1. r \in H!Results
    BY DEF H!resultsFor
  <2> QED
    BY <1>3, <2>1 DEF H!Answered, H!Reactor!Answer, H!arrives, H!ItemStates
<1>4. ASSUME NEW kind \in H!SharedKinds, NEW r \in H!resultsFor(kind), H!Stores(kind, r)
      PROVE  H!TypeOK'
  <2>1. r \in H!Results /\ <<r>> \in Seq(H!Results)
    BY DEF H!resultsFor
  <2> QED
    BY <1>4, <2>1 DEF H!Stores, H!arrives, H!ItemStates
<1>5. ASSUME NEW op \in Ops, cancelsOperation(op)
      PROVE  H!TypeOK'
  <2>1. item' \in [Items -> H!ItemStates]
    BY <1>0, <1>00, <1>5, Cancelled DEF cancelsOperation
  <2>2. /\ asked' = [asked EXCEPT ![op] = Nil]
        /\ reply' = [reply EXCEPT ![op] = Nil]
        /\ UNCHANGED <<closed, stored>>
    BY <1>5, Cancelled DEF cancelsOperation
  <2> QED
    BY <1>5, <2>1, <2>2 DEF cancelsOperation
<1>6. ASSUME NEW op \in Ops, NEW fate \in Fates, takesResult(op, fate)
      PROVE  H!TypeOK'
  <2>1. item' \in [Items -> H!ItemStates]
    BY <1>0, <1>00, <1>6 DEF takesResult
  <2>2. /\ asked' = [asked EXCEPT ![op] = Nil]
        /\ reply' = [reply EXCEPT ![op] = Nil]
        /\ UNCHANGED closed
        /\ stored' = stored \/ stored' = [stored EXCEPT ![asked[op]] = <<>>]
    BY <1>6, Fetched DEF takesResult
  <2>3. stored' \in [H!SharedKinds -> Seq(H!Results)]
    <3>1. <<>> \in Seq(H!Results)
      OBVIOUS
    <3> QED
      BY <2>2, <3>1
  <2> QED
    BY <1>6, <2>1, <2>2, <2>3 DEF takesResult
<1>7. CASE closesHandle
  <2>1. PICK x \in Items, own \in BOOLEAN, taker \in Ops \cup {Nil} : handleClosed(x, own, taker)
    BY <1>7, HandleCloses
  <2>2. /\ UNCHANGED <<closed, asked, awaiting>>
        /\ reply' \in [Ops -> H!Results \cup {Nil}] /\ item' \in [Items -> H!ItemStates]
    BY <2>1 DEF handleClosed
  <2>3. stored' = stored \/ stored' = [stored EXCEPT ![H!takes(item[x])] = <<>>]
    BY <2>1 DEF handleClosed
  <2>4. stored' \in [H!SharedKinds -> Seq(H!Results)]
    BY <1>01, <2>3
  <2> QED
    BY <2>2, <2>4
<1>9. ASSUME NEW on \in SUBSET Ops, H!UnregisterPacketSink(on)
      PROVE  H!TypeOK'
  BY <1>9 DEF H!UnregisterPacketSink
<1>8. CASE H!ReactorCloses
  <2>1. <<>> \in Seq(H!Results)
    OBVIOUS
  <2> QED
    BY <1>0, <1>8, <2>1 DEF H!ReactorCloses, H!Reactor!Close
<1> HIDE DEF H!TypeOK
<1> QED
  BY <1>1, <1>2, <1>3, <1>4, <1>5, <1>6, <1>7, <1>8, <1>9 DEF AdapterSteps

\* What the guest concludes is what the table says.
LEMMA AdapterAgreeStep == AdapterInv /\ [H!Next]_(H!vars) => H!GuestAndHostAgree'
<1> SUFFICES ASSUME H!NilAssumption, H!TypeOK, H!ResultsFit, H!GuestAndHostAgree, AdapterSteps
             PROVE  H!GuestAndHostAgree'
  BY AdapterCases DEF AdapterInv, H!Consistent
<1> USE DEF H!GuestAndHostAgree
<1>1. CASE quietCall
  BY <1>1 DEF quietCall, H!TypeOK
<1>2. ASSUME NEW op \in Ops, NEW kind \in H!Kinds, asksReactor(op, kind)
      PROVE  H!GuestAndHostAgree'
  BY <1>2 DEF asksReactor, H!TypeOK
<1>3. ASSUME NEW op \in Ops, NEW r \in H!resultsFor(asked[op]), H!Answered(op, r)
      PROVE  H!GuestAndHostAgree'
  BY <1>3 DEF H!Answered, H!Reactor!Answer
<1>4. ASSUME NEW kind \in H!SharedKinds, NEW r \in H!resultsFor(kind), H!Stores(kind, r)
      PROVE  H!GuestAndHostAgree'
  BY <1>4 DEF H!Stores
<1>5. ASSUME NEW op \in Ops,
             asked' = [asked EXCEPT ![op] = Nil], awaiting' = [awaiting EXCEPT ![op] = Nil], UNCHANGED closed
      PROVE  H!GuestAndHostAgree'
  BY <1>5 DEF H!TypeOK
<1>6. ASSUME NEW op \in Ops, cancelsOperation(op)
      PROVE  H!GuestAndHostAgree'
  BY <1>5, <1>6, Cancelled DEF cancelsOperation
<1>7. ASSUME NEW op \in Ops, NEW fate \in Fates, takesResult(op, fate)
      PROVE  H!GuestAndHostAgree'
  BY <1>5, <1>7, Fetched DEF takesResult
<1>8. CASE closesHandle
  <2>1. UNCHANGED <<closed, asked, awaiting>>
    BY <1>8, HandleCloses DEF handleClosed
  <2> QED
    BY <2>1
<1>9. CASE H!ReactorCloses
  BY <1>9 DEF H!ReactorCloses, H!Reactor!Close
<1>10. ASSUME NEW on \in SUBSET Ops, H!UnregisterPacketSink(on)
       PROVE  H!GuestAndHostAgree'
  BY <1>10 DEF H!UnregisterPacketSink, H!TypeOK
<1> HIDE DEF H!GuestAndHostAgree
<1> QED
  BY <1>1, <1>2, <1>3, <1>4, <1>6, <1>7, <1>8, <1>9, <1>10 DEF AdapterSteps

\* A result comes to the operation or socket it belongs to, one at a time.
LEMMA ResultsFitStep == AdapterInv /\ [H!Next]_(H!vars) => H!ResultsFit'
<1> SUFFICES ASSUME H!NilAssumption, H!TypeOK, H!ResultsFit, AdapterSteps
             PROVE  H!ResultsFit'
  BY AdapterCases DEF AdapterInv, H!Consistent
<1>0. ASSUME NEW op \in Ops, asked' = [asked EXCEPT ![op] = Nil], reply' = [reply EXCEPT ![op] = Nil],
             \A k \in H!SharedKinds : stored'[k] = stored[k] \/ stored'[k] = <<>>
      PROVE  H!ResultsFit'
  BY <1>0 DEF H!TypeOK, H!ResultsFit, H!resultsFor
<1>1. CASE quietCall
  BY <1>1 DEF quietCall, H!ResultsFit, H!resultsFor
<1>2. ASSUME NEW op \in Ops, NEW kind \in H!Kinds, asksReactor(op, kind)
      PROVE  H!ResultsFit'
  <2>1. reply[op] = Nil
    BY <1>2 DEF asksReactor, H!ResultsFit, H!NilAssumption
  <2> QED
    BY <1>2, <2>1 DEF asksReactor, H!TypeOK, H!ResultsFit, H!resultsFor
<1>3. ASSUME NEW op \in Ops, NEW r \in H!resultsFor(asked[op]), H!Answered(op, r)
      PROVE  H!ResultsFit'
  BY <1>3 DEF H!Answered, H!Reactor!Answer, H!TypeOK, H!ResultsFit, H!resultsFor
<1>4. ASSUME NEW kind \in H!SharedKinds, NEW r \in H!resultsFor(kind), H!Stores(kind, r)
      PROVE  H!ResultsFit'
  <2>1. /\ stored' = [stored EXCEPT ![kind] = <<r>>]
        /\ UNCHANGED <<asked, reply>>
    BY <1>4 DEF H!Stores
  <2>2. Head(<<r>>) = r
    OBVIOUS
  <2>3. \A k \in H!SharedKinds : stored'[k] # <<>> =>
             stored'[k] = <<Head(stored'[k])>> /\ Head(stored'[k]) \in H!resultsFor(k)
    <3> TAKE k \in H!SharedKinds
    <3>1. CASE k = kind
      <4>1. stored'[k] = <<r>>
        BY <2>1, <3>1 DEF H!TypeOK
      <4> QED
        BY <2>2, <3>1, <4>1, Zenon
    <3>2. CASE k # kind
      BY <2>1, <3>2 DEF H!TypeOK, H!ResultsFit
    <3> QED
      BY <3>1, <3>2
  <2> QED
    BY <2>1, <2>3 DEF H!ResultsFit, H!resultsFor
<1>5. ASSUME NEW op \in Ops, cancelsOperation(op)
      PROVE  H!ResultsFit'
  <2>1. /\ asked' = [asked EXCEPT ![op] = Nil]
        /\ reply' = [reply EXCEPT ![op] = Nil]
        /\ UNCHANGED stored
    BY <1>5, Cancelled DEF cancelsOperation
  <2> QED
    BY <1>0, <2>1 DEF H!ResultsFit
<1>6. ASSUME NEW op \in Ops, NEW fate \in Fates, takesResult(op, fate)
      PROVE  H!ResultsFit'
  <2>1. /\ asked' = [asked EXCEPT ![op] = Nil]
        /\ reply' = [reply EXCEPT ![op] = Nil]
        /\ stored' = stored \/ stored' = [stored EXCEPT ![asked[op]] = <<>>]
    BY <1>6, Fetched DEF takesResult
  <2>2. \A k \in H!SharedKinds : stored'[k] = stored[k] \/ stored'[k] = <<>>
    BY <2>1 DEF H!TypeOK
  <2> QED
    BY <1>0, <2>1, <2>2 DEF H!ResultsFit
<1>7. CASE closesHandle
  <2>1. PICK x \in Items, own \in BOOLEAN, taker \in Ops \cup {Nil} : handleClosed(x, own, taker)
    BY <1>7, HandleCloses
  <2>2. /\ asked' = asked
        /\ \A op \in Ops : op # taker => reply'[op] = reply[op] \/ settled(x, op)
        /\ taker # Nil => /\ own /\ asked[taker] = "read" /\ H!takes(item[x]) = "read"
                          /\ reply'[taker] = Head(stored["read"])
        /\ own => stored[H!takes(item[x])] # <<>>
        /\ stored' = stored \/ stored' = [stored EXCEPT ![H!takes(item[x])] = <<>>]
    BY <2>1 DEF handleClosed
  <2>3. ASSUME NEW op \in Ops, reply'[op] # Nil
        PROVE  asked'[op] # Nil /\ reply'[op] \in H!resultsFor(asked'[op])
    <3>1. CASE op = taker
      <4>1. stored["read"] # <<>> /\ asked[op] = "read" /\ reply'[op] = Head(stored["read"])
        BY <2>2, <3>1 DEF H!NilAssumption
      <4>2. Head(stored["read"]) \in H!resultsFor("read")
        BY <4>1 DEF H!ResultsFit, H!SharedKinds
      <4>3. "read" # Nil
        BY DEF H!NilAssumption, H!Kinds, H!SharedKinds
      <4> QED
        BY <2>2, <4>1, <4>2, <4>3
    <3>2. CASE op # taker
      BY <2>2, <2>3, <3>2 DEF settled, H!ResultsFit
    <3> QED
      BY <3>1, <3>2
  <2>4. \A k \in H!SharedKinds : stored'[k] = stored[k] \/ stored'[k] = <<>>
    BY <2>2 DEF H!TypeOK
  <2> QED
    BY <2>3, <2>4 DEF H!ResultsFit, H!resultsFor
<1>8. CASE H!ReactorCloses
  BY <1>8 DEF H!ReactorCloses, H!Reactor!Close, H!ResultsFit
<1>9. ASSUME NEW on \in SUBSET Ops, H!UnregisterPacketSink(on)
      PROVE  H!ResultsFit'
  BY <1>9 DEF H!UnregisterPacketSink, H!TypeOK, H!ResultsFit, H!resultsFor
<1> QED
  BY <1>1, <1>2, <1>3, <1>4, <1>5, <1>6, <1>7, <1>8, <1>9 DEF AdapterSteps

-----------------------------------------------------------------------------
(* Items: one place leaves the reactor or one comes in, at each step.      *)

\* The items of both kinds of places.
LEMMA HeldItems ==
  ASSUME H!NilAssumption, H!TypeOK
  PROVE  /\ \A op \in Ops : H!replyItem(op) \in Items \cup {Nil}
         /\ \A k \in H!SharedKinds : H!storedItem(k) \in Items \cup {Nil}
<1>1. ASSUME NEW op \in Ops PROVE H!replyItem(op) \in Items \cup {Nil}
  BY DEF H!TypeOK, H!replyItem, H!Results
<1>2. ASSUME NEW k \in H!SharedKinds PROVE H!storedItem(k) \in Items \cup {Nil}
  <2>1. stored[k] # <<>> => Head(stored[k]) \in H!Results
    BY DEF H!TypeOK
  <2> QED
    BY <2>1 DEF H!storedItem, H!Results
<1> QED
  BY <1>1, <1>2

\* The item of an operation leaves, if it has one.
LEMMA ReplyLeaves ==
  ASSUME H!NilAssumption, H!HeldOnce, NEW op \in Ops,
         \A p \in Ops : H!replyItem(p)' = IF p = op THEN Nil ELSE H!replyItem(p),
         \A k \in H!SharedKinds : H!storedItem(k)' = H!storedItem(k),
         \A x \in Items : item'[x] = "reactor" <=> item[x] = "reactor" /\ x # H!replyItem(op)
  PROVE  H!HeldOnce'
BY DEF H!HeldOnce, H!NilAssumption

\* The item a socket has stored leaves, if it has one.
LEMMA StoredLeaves ==
  ASSUME H!NilAssumption, H!HeldOnce, NEW j \in H!SharedKinds,
         \A p \in Ops : H!replyItem(p)' = H!replyItem(p),
         \A k \in H!SharedKinds : H!storedItem(k)' = IF k = j THEN Nil ELSE H!storedItem(k),
         \A x \in Items : item'[x] = "reactor" <=> item[x] = "reactor" /\ x # H!storedItem(j)
  PROVE  H!HeldOnce'
BY DEF H!HeldOnce, H!NilAssumption

\* What a socket has stored becomes the result of an operation.
LEMMA StoredMoves ==
  ASSUME H!NilAssumption, H!HeldOnce, NEW j \in H!SharedKinds, NEW op \in Ops, H!replyItem(op) = Nil,
         \A p \in Ops : H!replyItem(p)' = IF p = op THEN H!storedItem(j) ELSE H!replyItem(p),
         \A k \in H!SharedKinds : H!storedItem(k)' = IF k = j THEN Nil ELSE H!storedItem(k),
         \A x \in Items : item'[x] = "reactor" <=> item[x] = "reactor"
  PROVE  H!HeldOnce'
BY DEF H!HeldOnce, H!NilAssumption

\* An answer comes in with a new item, or with none.
LEMMA ReplyComes ==
  ASSUME H!NilAssumption, H!TypeOK, H!HeldOnce, NEW op \in Ops, H!replyItem(op) = Nil,
        NEW y \in Items \cup {Nil},
         y # Nil => item[y] # "reactor",
         \A p \in Ops : H!replyItem(p)' = IF p = op THEN y ELSE H!replyItem(p),
         \A k \in H!SharedKinds : H!storedItem(k)' = H!storedItem(k),
         \A x \in Items : item'[x] = "reactor" <=> item[x] = "reactor" \/ x = y
  PROVE  H!HeldOnce'
<1>1. ASSUME y # Nil
      PROVE  /\ \A p \in Ops : H!replyItem(p) # y
             /\ \A k \in H!SharedKinds : H!storedItem(k) # y
  BY <1>1 DEF H!HeldOnce
<1> QED
  BY <1>1 DEF H!HeldOnce, H!NilAssumption

\* So does something at a socket.
LEMMA StoredComes ==
  ASSUME H!NilAssumption, H!TypeOK, H!HeldOnce, NEW j \in H!SharedKinds, H!storedItem(j) = Nil,
        NEW y \in Items \cup {Nil},
         y # Nil => item[y] # "reactor",
         \A p \in Ops : H!replyItem(p)' = H!replyItem(p),
         \A k \in H!SharedKinds : H!storedItem(k)' = IF k = j THEN y ELSE H!storedItem(k),
         \A x \in Items : item'[x] = "reactor" <=> item[x] = "reactor" \/ x = y
  PROVE  H!HeldOnce'
<1>1. ASSUME y # Nil
      PROVE  /\ \A p \in Ops : H!replyItem(p) # y
             /\ \A k \in H!SharedKinds : H!storedItem(k) # y
  BY <1>1 DEF H!HeldOnce
<1> QED
  BY <1>1 DEF H!HeldOnce, H!NilAssumption

\* Every step moves at most one item into the reactor or out of it, or all out.
LEMMA HeldOnceStep == AdapterInv /\ [H!Next]_(H!vars) => H!HeldOnce'
<1> SUFFICES ASSUME H!NilAssumption, H!TypeOK, H!ResultsFit, H!HeldOnce, AdapterSteps
             PROVE  H!HeldOnce'
  BY AdapterCases DEF AdapterInv, H!Consistent
<1>0. ASSUME NEW y, NEW fate, fate # "reactor", H!hand(y, fate)
      PROVE  \A x \in Items : item'[x] = "reactor" <=> item[x] = "reactor" /\ x # y
  BY <1>0 DEF H!hand
<1>1. ASSUME UNCHANGED <<reply, stored>>, \A x \in Items : item'[x] = "reactor" <=> item[x] = "reactor"
      PROVE  H!HeldOnce'
  BY <1>1 DEF H!HeldOnce, H!replyItem, H!storedItem
<1>2. CASE quietCall
  BY <1>1, <1>2 DEF quietCall
<1>3. ASSUME NEW op \in Ops, NEW kind \in H!Kinds, asksReactor(op, kind)
      PROVE  H!HeldOnce'
  BY <1>1, <1>3 DEF asksReactor
<1>4. ASSUME NEW op \in Ops, NEW r \in H!resultsFor(asked[op]), H!Answered(op, r)
      PROVE  H!HeldOnce'
  <2>1. /\ reply[op] = Nil /\ reply' = [reply EXCEPT ![op] = r] /\ UNCHANGED stored
        /\ r.item \in H!fresh \cup {Nil}
        /\ item' = [x \in Items |-> IF x = r.item THEN "reactor" ELSE item[x]]
    BY <1>4 DEF H!Answered, H!Reactor!Answer, H!arrives
  <2>2. r \in H!Results /\ r # Nil
    BY DEF H!resultsFor, H!NilAssumption
  <2>3. \A p \in Ops : H!replyItem(p)' = IF p = op THEN r.item ELSE H!replyItem(p)
    BY <2>1, <2>2 DEF H!replyItem, H!TypeOK
  <2>4. \A k \in H!SharedKinds : H!storedItem(k)' = H!storedItem(k)
    BY <2>1 DEF H!storedItem
  <2>5. \A x \in Items : item'[x] = "reactor" <=> item[x] = "reactor" \/ x = r.item
    BY <2>1
  <2>6. H!replyItem(op) = Nil /\ r.item \in Items \cup {Nil} /\ (r.item # Nil => item[r.item] # "reactor")
    BY <2>1 DEF H!replyItem, H!fresh
  <2> QED
    BY <2>3, <2>4, <2>5, <2>6, ReplyComes
<1>5. ASSUME NEW kind \in H!SharedKinds, NEW r \in H!resultsFor(kind), H!Stores(kind, r)
      PROVE  H!HeldOnce'
  <2>1. /\ stored[kind] = <<>> /\ stored' = [stored EXCEPT ![kind] = <<r>>] /\ UNCHANGED reply
        /\ r.item \in H!fresh \cup {Nil}
        /\ item' = [x \in Items |-> IF x = r.item THEN "reactor" ELSE item[x]]
    BY <1>5 DEF H!Stores, H!arrives
  <2>2. <<r>> # <<>> /\ Head(<<r>>) = r
    OBVIOUS
  <2>3. \A p \in Ops : H!replyItem(p)' = H!replyItem(p)
    BY <2>1 DEF H!replyItem
  <2>4. ASSUME NEW k \in H!SharedKinds
        PROVE  H!storedItem(k)' = IF k = kind THEN r.item ELSE H!storedItem(k)
    <3>1. CASE k = kind
      <4>1. stored'[k] = <<r>>
        BY <2>1, <3>1 DEF H!TypeOK
      <4>2. H!storedItem(k)' = Head(<<r>>).item
        BY <2>2, <4>1 DEF H!storedItem
      <4> QED
        BY <2>2, <3>1, <4>2
    <3>2. CASE k # kind
      <4>1. stored'[k] = stored[k]
        BY <2>1, <3>2 DEF H!TypeOK
      <4> QED
        BY <3>2, <4>1 DEF H!storedItem
    <3> QED
      BY <3>1, <3>2
  <2>5. \A x \in Items : item'[x] = "reactor" <=> item[x] = "reactor" \/ x = r.item
    BY <2>1
  <2>6. H!storedItem(kind) = Nil /\ r.item \in Items \cup {Nil} /\ (r.item # Nil => item[r.item] # "reactor")
    BY <2>1 DEF H!storedItem, H!fresh
  <2> QED
    BY <2>3, <2>4, <2>5, <2>6, StoredComes
<1>6. ASSUME NEW op \in Ops, reply' = [reply EXCEPT ![op] = Nil], UNCHANGED stored,
             \A x \in Items : item'[x] = "reactor" <=> item[x] = "reactor" /\ x # H!replyItem(op)
      PROVE  H!HeldOnce'
  <2>1. \A p \in Ops : H!replyItem(p)' = IF p = op THEN Nil ELSE H!replyItem(p)
    BY <1>6 DEF H!replyItem, H!TypeOK
  <2>2. \A k \in H!SharedKinds : H!storedItem(k)' = H!storedItem(k)
    BY <1>6 DEF H!storedItem
  <2> QED
    BY <1>6, <2>1, <2>2, ReplyLeaves
<1>7. ASSUME NEW op \in Ops, cancelsOperation(op)
      PROVE  H!HeldOnce'
  <2>1. reply' = [reply EXCEPT ![op] = Nil] /\ UNCHANGED stored
    BY <1>7, Cancelled DEF cancelsOperation
  <2>2. \A x \in Items : item'[x] = "reactor" <=> item[x] = "reactor" /\ x # H!replyItem(op)
    <3>1. PICK fate \in {"closed", "dropped"} : H!hand(H!replyItem(op), fate)
      BY <1>7, Cancelled DEF cancelsOperation
    <3> QED
      BY <1>0, <3>1
  <2> QED
    BY <1>6, <2>1, <2>2
<1>8. ASSUME NEW op \in Ops, NEW fate \in Fates, takesResult(op, fate)
      PROVE  H!HeldOnce'
  <2>1. H!fetch(op) /\ H!hand(H!result(op).item, fate) /\ fate # "reactor"
    BY <1>8 DEF takesResult, Fates
  <2>2. \A x \in Items : item'[x] = "reactor" <=> item[x] = "reactor" /\ x # H!result(op).item
    BY <1>0, <2>1
  <2>3. CASE reply[op] # Nil /\ H!result(op) = reply[op] /\ UNCHANGED stored
    <3>1. reply' = [reply EXCEPT ![op] = Nil] /\ H!result(op).item = H!replyItem(op)
      BY <2>1, <2>3, Fetched DEF H!replyItem
    <3> QED
      BY <1>6, <2>2, <2>3, <3>1
  <2>4. CASE /\ asked[op] \in H!SharedKinds
             /\ reply[op] = Nil
             /\ stored[asked[op]] # <<>>
             /\ H!result(op) = Head(stored[asked[op]])
             /\ stored' = [stored EXCEPT ![asked[op]] = <<>>]
    <3>1. H!result(op).item = H!storedItem(asked[op])
      BY <2>4 DEF H!storedItem
    <3>2. reply' = reply
      BY <2>1, <2>4, Fetched DEF H!TypeOK
    <3>3. \A p \in Ops : H!replyItem(p)' = H!replyItem(p)
      BY <3>2 DEF H!replyItem
    <3>4. \A k \in H!SharedKinds : H!storedItem(k)' = IF k = asked[op] THEN Nil ELSE H!storedItem(k)
      BY <2>4 DEF H!storedItem, H!TypeOK
    <3> QED
      BY <2>2, <2>4, <3>1, <3>3, <3>4, StoredLeaves
  <2> QED
    BY <2>1, <2>3, <2>4, Fetched
<1>9. CASE closesHandle
  <2>1. PICK x \in Items, own \in BOOLEAN, taker \in Ops \cup {Nil} : handleClosed(x, own, taker)
    BY <1>9, HandleCloses
  <2> DEFINE j == H!takes(item[x])
  <2>2. /\ j \in H!SharedKinds
        /\ \A op \in Ops : op # taker => reply'[op] = reply[op] \/ settled(x, op)
        /\ taker # Nil => /\ own /\ taker \in Ops /\ reply[taker] = Nil /\ j = "read"
                          /\ reply'[taker] = Head(stored["read"])
        /\ own => stored[j] # <<>>
        /\ stored' = IF own THEN [stored EXCEPT ![j] = <<>>] ELSE stored
        /\ \A y \in Items :
             /\ (item[y] # "reactor" \/ ~own \/ taker # Nil \/ y # H!storedItem(j))
                  => (item'[y] = "reactor" <=> item[y] = "reactor")
             /\ (own /\ taker = Nil /\ y = H!storedItem(j)) => item'[y] # "reactor"
    BY <2>1 DEF handleClosed
  <2> HIDE DEF j
  <2>3. ASSUME NEW op \in Ops, op # taker
        PROVE  H!replyItem(op)' = H!replyItem(op)
    BY <2>2, <2>3 DEF settled, H!replyItem
  <2>4. own => \A k \in H!SharedKinds : H!storedItem(k)' = IF k = j THEN Nil ELSE H!storedItem(k)
    BY <2>2 DEF H!storedItem, H!TypeOK
  <2>5. ~own => \A k \in H!SharedKinds : H!storedItem(k)' = H!storedItem(k)
    BY <2>2 DEF H!storedItem
  <2>6. CASE ~own
    <3>1. taker \notin Ops
      BY <2>2, <2>6 DEF H!NilAssumption
    <3>2. \A op \in Ops : H!replyItem(op)' = H!replyItem(op)
      BY <2>3, <3>1
    <3>3. \A y \in Items : item'[y] = "reactor" <=> item[y] = "reactor"
      BY <2>2, <2>6
    <3> QED
      BY <2>5, <2>6, <3>2, <3>3 DEF H!HeldOnce
  <2>7. CASE own /\ taker = Nil
    <3>1. \A op \in Ops : H!replyItem(op)' = H!replyItem(op)
      BY <2>3, <2>7 DEF H!NilAssumption
    <3>2. \A y \in Items : item'[y] = "reactor" <=> item[y] = "reactor" /\ y # H!storedItem(j)
      BY <2>2, <2>7
    <3> QED
      BY <2>2, <2>4, <2>7, <3>1, <3>2, StoredLeaves
  <2>8. CASE own /\ taker # Nil
    <3>1. taker \in Ops /\ H!replyItem(taker) = Nil
      BY <2>2, <2>8 DEF H!replyItem
    <3>2. H!replyItem(taker)' = H!storedItem(j)
      <4>1. stored[j] # <<>> /\ reply'[taker] = Head(stored[j]) /\ H!storedItem(j) = Head(stored[j]).item
        BY <2>2, <2>8 DEF H!storedItem
      <4>2. Head(stored[j]) \in H!Results
        BY <2>2, <4>1 DEF H!TypeOK
      <4>3. reply'[taker] # Nil
        BY <4>1, <4>2 DEF H!NilAssumption
      <4> QED
        BY <4>1, <4>3 DEF H!replyItem
    <3>3. \A p \in Ops : H!replyItem(p)' = IF p = taker THEN H!storedItem(j) ELSE H!replyItem(p)
      BY <2>3, <3>2
    <3>4. \A y \in Items : item'[y] = "reactor" <=> item[y] = "reactor"
      BY <2>2, <2>8
    <3> QED
      BY <2>2, <2>4, <2>8, <3>1, <3>3, <3>4, StoredMoves
  <2> QED
    BY <2>6, <2>7, <2>8
<1>11. ASSUME NEW on \in SUBSET Ops, H!UnregisterPacketSink(on)
       PROVE  H!HeldOnce'
  <2>1. ASSUME NEW op \in Ops
        PROVE  H!replyItem(op)' = H!replyItem(op)
    <3>1. CASE op \in on
      <4>1. asked[op] = "packetWrite" /\ reply'[op] = Nil
        BY <1>11, <3>1 DEF H!UnregisterPacketSink
      <4>2. reply[op] # Nil => reply[op].item = Nil
        BY <4>1 DEF H!ResultsFit, H!resultsFor, H!PlainKinds
      <4> QED
        BY <4>1, <4>2 DEF H!replyItem
    <3>2. CASE op \notin on
      BY <1>11, <3>2 DEF H!UnregisterPacketSink, H!replyItem
    <3> QED
      BY <3>1, <3>2
  <2>2. UNCHANGED <<stored, item>>
    BY <1>11 DEF H!UnregisterPacketSink
  <2>3. \A k \in H!SharedKinds : H!storedItem(k)' = H!storedItem(k)
    BY <2>2 DEF H!storedItem
  <2> QED
    BY <2>1, <2>2, <2>3 DEF H!HeldOnce
<1>10. CASE H!ReactorCloses
  <2>1. /\ \A op \in Ops : H!replyItem(op)' = Nil
        /\ \A k \in H!SharedKinds : H!storedItem(k)' = Nil
        /\ \A x \in Items : item'[x] # "reactor"
    BY <1>10 DEF H!ReactorCloses, H!Reactor!Close, H!replyItem, H!storedItem
  <2> QED
    BY <2>1 DEF H!HeldOnce, H!NilAssumption
<1> QED
  BY <1>2, <1>3, <1>4, <1>5, <1>7, <1>8, <1>9, <1>10, <1>11 DEF AdapterSteps

\* No step loses an item.
LEMMA NoItemLostStep == AdapterInv /\ [H!Next]_(H!vars) => (\A x \in Items : item[x] # "lost")'
<1> SUFFICES ASSUME AdapterInv, AdapterSteps
             PROVE  \A x \in Items : item'[x] # "lost"
  BY AdapterCases DEF AdapterInv, H!Consistent
<1>0. H!TypeOK /\ H!ResultsFit /\ \A x \in Items : item[x] # "lost"
  BY DEF AdapterInv, H!Consistent
<1>1. ASSUME NEW y, NEW fate, fate # "lost", H!hand(y, fate)
      PROVE  \A x \in Items : item'[x] # "lost"
  BY <1>0, <1>1 DEF H!hand
<1>2. CASE quietCall \/ \E op \in Ops, kind \in H!Kinds : asksReactor(op, kind)
  BY <1>0, <1>2 DEF quietCall, asksReactor
<1>3. CASE \/ \E op \in Ops : asked[op] # Nil /\ \E r \in H!resultsFor(asked[op]) : H!Answered(op, r)
           \/ \E kind \in H!SharedKinds : \E r \in H!resultsFor(kind) : H!Stores(kind, r)
  BY <1>0, <1>3 DEF H!Answered, H!Stores, H!arrives
<1>4. ASSUME NEW op \in Ops, cancelsOperation(op)
      PROVE  \A x \in Items : item'[x] # "lost"
  <2>1. PICK fate \in {"closed", "dropped"} : H!hand(H!replyItem(op), fate)
    BY <1>4, Cancelled DEF cancelsOperation
  <2> QED
    BY <1>1, <2>1
<1>5. ASSUME NEW op \in Ops, NEW fate \in Fates, takesResult(op, fate)
      PROVE  \A x \in Items : item'[x] # "lost"
  BY <1>1, <1>5 DEF takesResult, Fates
<1>6. CASE closesHandle
  <2>1. \A x \in Items : item'[x] = item[x] \/ item'[x] \in {"closed", "dropped"}
    BY <1>6, HandleCloses DEF handleClosed, AdapterInv, H!Consistent
  <2> QED
    BY <1>0, <2>1
<1>8. CASE \E on \in SUBSET Ops : H!UnregisterPacketSink(on)
  BY <1>0, <1>8 DEF H!UnregisterPacketSink
<1>7. CASE H!ReactorCloses
  BY <1>0, <1>7 DEF H!ReactorCloses
<1> QED
  BY <1>2, <1>3, <1>4, <1>5, <1>6, <1>7, <1>8 DEF AdapterSteps

\* The invariant is inductive.
LEMMA AdapterNextInv == AdapterInv /\ [H!Next]_(H!vars) => AdapterInv'
BY AdapterTypeStep, AdapterAgreeStep, ResultsFitStep, HeldOnceStep, NoItemLostStep DEF AdapterInv,
     H!Consistent

\* The instance counts the way this module does.
LEMMA SameCardinality ==
  ASSUME NEW S
  PROVE  H!Cardinality(S) = Cardinality(S)
BY DEF H!Cardinality, Cardinality

\* An item the reactor holds is in one place, counted over both kinds of places.
LEMMA HeldItemsCounted == AdapterInv => H!NothingLost
<1> SUFFICES ASSUME AdapterInv, NEW x \in Items
             PROVE  Cardinality({op \in Ops : reply[op] # Nil /\ reply[op].item = x})
                      + Cardinality({k \in H!SharedKinds : \E i \in DOMAIN stored[k] : stored[k][i].item = x})
                      = IF item[x] = "reactor" THEN 1 ELSE 0
  BY SameCardinality DEF H!NothingLost, AdapterInv
<1> DEFINE A == {op \in Ops : reply[op] # Nil /\ reply[op].item = x}
           B == {k \in H!SharedKinds : \E i \in DOMAIN stored[k] : stored[k][i].item = x}
<1>0. H!HeldOnce /\ H!ResultsFit /\ H!TypeOK /\ x # Nil
  BY DEF AdapterInv, H!Consistent, H!NilAssumption
<1>1. A = {op \in Ops : H!replyItem(op) = x}
  BY <1>0 DEF H!replyItem
<1>2. B = {k \in H!SharedKinds : H!storedItem(k) = x}
  <2>1. ASSUME NEW k \in H!SharedKinds
        PROVE  (\E i \in DOMAIN stored[k] : stored[k][i].item = x) <=> H!storedItem(k) = x
    <3>1. CASE stored[k] = <<>>
      <4>1. DOMAIN stored[k] = {}
        BY <3>1
      <4> QED
        BY <1>0, <3>1, <4>1 DEF H!storedItem
    <3>2. CASE stored[k] # <<>>
      <4> DEFINE r == Head(stored[k])
      <4>1. stored[k] = <<r>>
        BY <1>0, <3>2 DEF H!ResultsFit
      <4>2. H!storedItem(k) = r.item
        BY <3>2 DEF H!storedItem
      <4> HIDE DEF r
      <4>3. DOMAIN stored[k] = {1} /\ stored[k][1] = r
        BY <4>1
      <4> QED
        BY <4>2, <4>3
    <3> QED
      BY <3>1, <3>2
  <2> QED
    BY <2>1
<1> HIDE DEF A, B
<1>3. CASE item[x] # "reactor"
  <2>1. A = {} /\ B = {}
    BY <1>0, <1>1, <1>2, <1>3 DEF H!HeldOnce
  <2> QED
    BY <1>3, <2>1, FS_EmptySet DEF A, B
<1>4. CASE item[x] = "reactor" /\ A # {}
  <2>1. PICK op \in A : A = {op}
    BY <1>0, <1>1, <1>4 DEF H!HeldOnce
  <2>2. B = {}
    BY <1>0, <1>1, <1>2, <1>4 DEF H!HeldOnce
  <2>3. Cardinality(A) = 1 /\ Cardinality(B) = 0
    BY <2>1, <2>2, FS_EmptySet, FS_Singleton
  <2> QED
    BY <1>4, <2>3 DEF A, B
<1>5. CASE item[x] = "reactor" /\ A = {}
  <2>1. PICK k \in B : B = {k}
    BY <1>0, <1>1, <1>2, <1>5 DEF H!HeldOnce
  <2>2. Cardinality(A) = 0 /\ Cardinality(B) = 1
    BY <1>5, <2>1, FS_EmptySet, FS_Singleton
  <2> QED
    BY <1>5, <2>2 DEF A, B
<1> QED
  BY <1>3, <1>4, <1>5

\* For every number of operation ids and items and on every platform, the
\* inductive invariant of the adapter holds in every reachable state.
THEOREM AdapterInvariance == H!NilAssumption => (H!Spec => []AdapterInv)
BY AdapterInitInv, AdapterNextInv, PTL DEF H!Spec

\* What the guest concludes from the statuses of the functions it imports is
\* what the reactor's table says: it never takes an id for free that is still
\* registered, and what it awaits is registered as what it was started as,
\* however it mixes up the kinds of operations, whatever is wrong with its memory
\* and whichever sockets it closes.  Only the end of a packet sink, which takes
\* the waits for room on it, and of the reactor leave it waiting for operations
\* that are gone.
THEOREM AdapterConsistency == H!NilAssumption => (H!Spec => []H!Consistent)
<1>1. AdapterInv => H!Consistent
  BY DEF AdapterInv
<1> QED
  BY AdapterInvariance, <1>1, PTL

\* Every handle, chunk of bytes, datagram and answer that leaves the reactor
\* reaches the guest, is given up at its request, or is reported as failed, and
\* what the reactor still holds it holds in one place.
THEOREM NothingIsLostInTheAdapter == H!NilAssumption => (H!Spec => []H!NothingLost)
BY AdapterInvariance, HeldItemsCounted, PTL

=============================================================================
