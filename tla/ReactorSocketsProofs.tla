------------------------- MODULE ReactorSocketsProofs -------------------------
(***************************************************************************)
(* Proofs about ReactorSockets, for every set of sockets, operation ids    *)
(* and kinds, and any number of creates per id.                            *)
(*                                                                         *)
(* The invariant says of each socket where it is held instead of counting  *)
(* its holders; that there is one holder, NoSocketLeak, follows.           *)
(***************************************************************************)
EXTENDS ReactorSockets, FiniteSetTheorems, SequenceTheorems, TLAPS

-----------------------------------------------------------------------------
(* Where a socket is held.                                                 *)

inTable(x)      == x \in streams \cup datagrams \cup listeners
madeFor(op, x)  == creates[op] # Nil /\ create[creates[op]].resource = x
inBacklog(l, x) == l \in listeners /\ x \in backlog(l)

\* An open socket is held in one way, and any other in none.  That one way is one
\* holder: see OneCreate and OneListener.
heldOnce(x) ==
  /\ socket[x] = "open" <=> \/ inTable(x)
                            \/ \E op \in Ops : madeFor(op, x)
                            \/ \E l \in Sockets : inBacklog(l, x)
                            \/ closing[x] # "none"
  /\ x \in streams => x \notin datagrams \cup listeners
  /\ x \in datagrams => x \notin listeners
  /\ closing[x] # "none" =>
       /\ ~inTable(x)
       /\ \A op \in Ops : ~madeFor(op, x)
       /\ \A l \in Sockets : ~inBacklog(l, x)
  /\ \A op \in Ops : madeFor(op, x) => ~inTable(x) /\ \A l \in Sockets : ~inBacklog(l, x)
  /\ \A l \in Sockets : inBacklog(l, x) => ~inTable(x)

Held == \A x \in Sockets : heldOnce(x)

\* The inductive invariant.
Inv == Consistent /\ AcceptIsServed /\ Held

\* What is known of a socket nobody has accepted from.
fresh(x) ==
  /\ accepted[x] = <<>> /\ ~acceptRunning[x] /\ ~acceptErr[x] /\ acceptors[x] = 0
  /\ \A op \in Ops : accepts[op] # Nil => accepts[op].handle # x

-----------------------------------------------------------------------------
(* The operators the model is built from.                                  *)

LEMMA Backlogs ==
  /\ ToSet(<<>>) = {}
  /\ \A x : ToSet(Append(<<>>, x)) = {x}
  /\ \A S : \A s \in Seq(S) : Len(s) = 0 => s = <<>>
  /\ \A S : \A s \in Seq(S) : Len(s) = 1 =>
       Tail(s) = <<>> /\ ToSet(s) = {Head(s)} /\ Head(s) \in S /\ s # <<>>
<1>1. ToSet(<<>>) = {}
  BY DEF ToSet
<1>2. ASSUME NEW x
      PROVE  ToSet(Append(<<>>, x)) = {x}
  <2>1. Append(<<>>, x) = <<x>>
    OBVIOUS
  <2> QED
    BY <2>1 DEF ToSet
<1>3. ASSUME NEW S, NEW s \in Seq(S), Len(s) = 0
      PROVE  s = <<>>
  BY <1>3, EmptySeq
<1>4. ASSUME NEW S, NEW s \in Seq(S), Len(s) = 1
      PROVE  Tail(s) = <<>> /\ ToSet(s) = {Head(s)} /\ Head(s) \in S /\ s # <<>>
  <2>1. s # <<>> /\ Head(s) = s[1] /\ s[1] \in S /\ DOMAIN s = {1}
    BY <1>4
  <2>2. Tail(s) \in Seq(S) /\ Len(Tail(s)) = 0
    BY <1>4
  <2> QED
    BY <2>1, <2>2, EmptySeq DEF ToSet
<1> QED
  BY <1>1, <1>2, <1>3, <1>4

\* An address is a pair of an id and a number.
LEMMA AddressLemma ==
  ASSUME NEW c \in Creates
  PROVE  c[1] \in CreateOps /\ c[1] \in Ops /\ c[2] \in 1..MaxCreates /\ c # Nil
BY NilCreateAssumption, CreateOpsAssumption DEF Creates

\* The createOperation of an id.
LEMMA CreateLemma ==
  ASSUME TypeOK, TablesAgree, ResultIsOwn, NEW op \in Ops, creates[op] # Nil
  PROVE  /\ creates[op] \in Creates /\ creates[op][1] = op /\ op \in CreateOps
         /\ operations[op] = "create"
         /\ create[creates[op]] \in CreateOperations
         /\ create[creates[op]].kind \in CreateKind
         /\ create[creates[op]].done \in BOOLEAN
         /\ create[creates[op]].err \in BOOLEAN
         /\ create[creates[op]].resource \in Sockets \cup {Nil}
<1>1. creates[op] \in Creates /\ creates[op][1] = op /\ operations[op] = "create"
  BY DEF TypeOK, TablesAgree
<1>2. create[creates[op]] \in CreateOperations
  BY <1>1 DEF TypeOK, ResultIsOwn
<1> QED
  BY <1>1, <1>2, AddressLemma DEF CreateOperations

\* Different ids have different createOperations.
LEMMA OwnCreates ==
  ASSUME TablesAgree, NEW op \in Ops, NEW other \in Ops,
         creates[op] # Nil, creates[op] = creates[other]
  PROVE  op = other
BY DEF TablesAgree

\* One createOperation holds a socket, and one backlog.
LEMMA OneCreate ==
  ASSUME Inv, NEW x \in Sockets, NEW op \in Ops, NEW other \in Ops,
         madeFor(op, x), madeFor(other, x)
  PROVE  op = other
BY OwnCreates, NilSocketAssumption DEF Inv, Consistent, ResultIsOwn, madeFor

LEMMA OneListener ==
  ASSUME Inv, NEW x \in Sockets, NEW l \in Sockets, NEW m \in Sockets,
         inBacklog(l, x), inBacklog(m, x)
  PROVE  l = m
BY DEF Inv, Consistent, ResultIsOwn, inBacklog, backlog

\* A listener's state: at most one connection is stored.
LEMMA ListenerLemma ==
  ASSUME Inv, NEW l \in listeners
  PROVE  /\ l \in Sockets /\ accepted[l] \in Seq(Sockets) /\ acceptors[l] \in Nat
         /\ acceptRunning[l] \in BOOLEAN /\ acceptErr[l] \in BOOLEAN
         /\ acceptors[l] = IF acceptRunning[l] THEN 1 ELSE 0
         /\ accepted[l] = <<>> => backlog(l) = {}
         /\ accepted[l] # <<>> =>
              /\ Len(accepted[l]) = 1 /\ ~acceptRunning[l] /\ ~acceptErr[l]
              /\ Tail(accepted[l]) = <<>> /\ backlog(l) = {Head(accepted[l])}
              /\ Head(accepted[l]) \in Sockets
         /\ acceptErr[l] => ~acceptRunning[l] /\ accepted[l] = <<>>
<1>1. /\ l \in Sockets /\ accepted[l] \in Seq(Sockets) /\ acceptors[l] \in Nat
      /\ acceptRunning[l] \in BOOLEAN /\ acceptErr[l] \in BOOLEAN
  BY DEF Inv, Consistent, TypeOK
<1>2. /\ acceptors[l] = IF acceptRunning[l] THEN 1 ELSE 0
      /\ acceptors[l] + Len(accepted[l]) + (IF acceptErr[l] THEN 1 ELSE 0) <= 1
  BY DEF Inv, AcceptIsServed, OneAhead
<1>3. Len(accepted[l]) \in Nat
  BY <1>1
<1>4. Len(accepted[l]) = 0 => accepted[l] = <<>>
  BY <1>1, Backlogs
<1>5. CASE Len(accepted[l]) = 0
  BY <1>1, <1>2, <1>4, <1>5, Backlogs DEF backlog
<1>6. CASE Len(accepted[l]) # 0
  <2>1. Len(accepted[l]) = 1 /\ ~acceptRunning[l] /\ ~acceptErr[l]
    <3>1. 1 <= Len(accepted[l])
      BY <1>3, <1>6
    <3>2. \A n, a, e \in Nat : 1 <= n /\ a + n + e <= 1 => n = 1 /\ a = 0 /\ e = 0
      OBVIOUS
    <3>3. (IF acceptErr[l] THEN 1 ELSE 0) \in Nat
      OBVIOUS
    <3>4. Len(accepted[l]) = 1 /\ acceptors[l] = 0 /\ (IF acceptErr[l] THEN 1 ELSE 0) = 0
      BY <1>1, <1>2, <1>3, <3>1, <3>2, <3>3, Zenon
    <3> QED
      BY <1>1, <1>2, <3>4
  <2> QED
    BY <1>1, <1>2, <2>1, Backlogs DEF backlog
<1> QED
  BY <1>5, <1>6

\* A socket that is not there yet, or waits to be taken, is fresh.
LEMMA FreshLemma ==
  ASSUME Inv, NEW x \in Sockets, socket[x] = "unborn" \/ \E op \in Ops : madeFor(op, x)
  PROVE  fresh(x)
BY NilSocketAssumption
   DEF Inv, Consistent, NewSocketsAreFresh, unborn, waiting, waitersOf, madeFor, fresh

LEMMA FreshNext ==
  ASSUME TypeOK', ResultIsOwn',
         \A x \in Sockets : socket'[x] = "unborn" \/ (\E op \in Ops : madeFor(op, x)') => fresh(x)'
  PROVE  NewSocketsAreFresh'
BY DEF NewSocketsAreFresh, unborn, waiting, waitersOf, madeFor, fresh, TypeOK, ResultIsOwn,
       CreateOperations

-----------------------------------------------------------------------------
(* The steps.                                                              *)

LEMMA InitInv == Init => Inv
<1> SUFFICES ASSUME Init
             PROVE  Inv
  OBVIOUS
<1> USE DEF Init, CoreInit
<1>1. TypeOK
  <2>1. accepted \in [Sockets -> Seq(Sockets)]
    OBVIOUS
  <2>2. made \in [CreateOps -> 0 .. MaxCreates] /\ acceptors \in [Sockets -> Nat]
    BY MaxCreatesAssumption
  <2>3. CoreTypeOK
    BY DEF CoreTypeOK
  <2>4. /\ socket \in [Sockets -> {"unborn", "open", "closed"}]
        /\ closing \in [Sockets -> Closers \cup {"none"}]
        /\ maker \in [Sockets -> Creates \cup Sockets \cup {Nil}]
        /\ creates \in [Ops -> Creates \cup {Nil}]
        /\ create \in [Creates -> CreateOperations \cup {Nil}]
        /\ accepts \in [Ops -> Waiters \cup {Nil}]
        /\ acceptRunning \in [Sockets -> BOOLEAN]
        /\ acceptErr \in [Sockets -> BOOLEAN]
    OBVIOUS
  <2> QED
    BY <2>1, <2>2, <2>3, <2>4 DEF TypeOK
<1>2. TablesAgree /\ ResultIsOwn /\ ContextIsCancelled /\ CloseIsFinal
  BY DEF TablesAgree, ResultIsOwn, ContextIsCancelled, CloseIsFinal
<1>3. NewSocketsAreFresh
  BY DEF NewSocketsAreFresh, unborn, waiting, waitersOf
<1>4. AcceptIsServed
  BY DEF AcceptIsServed, OneAhead, NoStuckAccept, NoLostWakeup
<1>5. Held
  BY DEF Held, heldOnce, inTable, madeFor, inBacklog
<1> QED
  BY <1>1, <1>2, <1>3, <1>4, <1>5 DEF Inv, Consistent

\* Tokens, polls without a result, and contexts: the tables and the sockets stay.
LEMMA QuietStep ==
  ASSUME Inv, UNCHANGED <<closed, closeDone, operations, creates, create, made, creating, acceptVars,
                          tables, socketVars>>,
         completion' \in BOOLEAN, signalDue' \in BOOLEAN, parked' \subseteq Ops,
         contexts' \subseteq contexts, cancelDue' \subseteq cancelDue,
         \A c \in contexts' : c \in cancelDue => c \in cancelDue',
         \A op \in parked' : TakeCreateReady(op) \/ TakeTCPAcceptReady(op) =>
            op \in parked \/ completion' \/ signalDue',
         parked' # {} => (completion \/ signalDue => completion' \/ signalDue')
  PROVE  Inv'
<1> USE DEF Inv, Consistent, acceptVars, tables, socketVars
<1>1. TypeOK'
  BY DEF TypeOK, CoreTypeOK
<1>2. TablesAgree' /\ ResultIsOwn' /\ CloseIsFinal'
  BY DEF TablesAgree, ResultIsOwn, CloseIsFinal
<1>3. ContextIsCancelled'
  BY DEF ContextIsCancelled, isRegistered
<1>4. NewSocketsAreFresh'
  BY DEF NewSocketsAreFresh, unborn, waiting, waitersOf
<1>5. OneAhead' /\ NoStuckAccept'
  BY DEF AcceptIsServed, OneAhead, NoStuckAccept
<1>6. NoLostWakeup'
  BY DEF AcceptIsServed, NoLostWakeup, TakeCreateReady, TakeTCPAcceptReady
<1>7. Held'
  BY DEF Held, heldOnce, inTable, madeFor, inBacklog, backlog
<1> QED
  BY <1>1, <1>2, <1>3, <1>4, <1>5, <1>6, <1>7 DEF AcceptIsServed

\* A create begins: its address is one nothing refers to.
LEMMA BeginCreateStep ==
  ASSUME Inv, NEW op \in CreateOps, NEW kind \in CreateKind, beginCreate(op, kind)
  PROVE  Inv'
<1> USE DEF Inv, Consistent, acceptVars, tables, socketVars
<1> DEFINE c == <<op, made'[op]>>
           w == [kind |-> kind, done |-> FALSE, err |-> FALSE, resource |-> Nil]
<1>1. /\ made[op] < MaxCreates /\ made' = [made EXCEPT ![op] = @ + 1]
      /\ ~closed /\ operations[op] = "none" /\ operations' = [operations EXCEPT ![op] = "create"]
      /\ creates' = [creates EXCEPT ![op] = c]
      /\ create' = [create EXCEPT ![c] = w]
      /\ creating' = creating \cup {c} /\ contexts' = contexts \cup {c}
      /\ parked' = parked \cup {op}
      /\ UNCHANGED <<closed, closeDone, completion, signalDue, cancelDue, acceptVars, tables,
                     socketVars>>
  BY DEF beginCreate, claimOperationLocked
<1>2. /\ op \in Ops /\ creates[op] = Nil /\ accepts[op] = Nil /\ ~closeDone
      /\ made[op] \in 0..MaxCreates /\ made'[op] = made[op] + 1 /\ made'[op] \in 1..MaxCreates
      /\ \A o \in CreateOps : o # op => made'[o] = made[o]
  BY <1>1, CreateOpsAssumption, MaxCreatesAssumption DEF TypeOK, TablesAgree
<1>3. c \in Creates /\ c[1] = op /\ c[2] = made[op] + 1 /\ c # Nil /\ c \notin creating
  <2>1. c \in Creates /\ c[1] = op /\ c[2] = made[op] + 1
    BY <1>2 DEF Creates
  <2>2. ~(made[op] + 1 <= made[op])
    BY <1>2
  <2> QED
    BY <2>1, <2>2, NilCreateAssumption DEF TablesAgree
<1>4. w \in CreateOperations /\ w # Nil /\ w.resource = Nil /\ ~w.done
  <2>1. w \in CreateOperations /\ w.resource = Nil /\ ~w.done
    BY DEF CreateOperations
  <2> QED
    BY <2>1, NilRecordAssumption
<1> HIDE DEF c, w
<1>5. /\ creates'[op] = c /\ create'[c] = w /\ operations'[op] = "create"
      /\ \A o \in Ops \ {op} : creates'[o] = creates[o] /\ operations'[o] = operations[o]
      /\ \A b \in Creates \ {c} : create'[b] = create[b]
  BY <1>1, <1>2, <1>3 DEF TypeOK, CoreTypeOK
<1>6. \A o \in Ops \ {op} : creates[o] # c
  BY <1>3 DEF TablesAgree
<1>7. TypeOK'
  <2>1. /\ operations' \in [Ops -> OperationKind \cup {"none"}]
        /\ creates' \in [Ops -> Creates \cup {Nil}]
        /\ create' \in [Creates -> CreateOperations \cup {Nil}]
        /\ parked' \subseteq Ops
    BY <1>1, <1>2, <1>3, <1>4 DEF TypeOK, CoreTypeOK, OperationKind
  <2>2. made' \in [CreateOps -> 0 .. MaxCreates]
    <3>1. made[op] + 1 \in 0..MaxCreates
      BY <1>1, <1>2, MaxCreatesAssumption
    <3> QED
      BY <1>1, <3>1 DEF TypeOK
  <2>3. creating' \subseteq Creates /\ contexts' \subseteq Creates
    BY <1>1, <1>3 DEF TypeOK
  <2> QED
    BY <1>1, <2>1, <2>2, <2>3 DEF TypeOK, CoreTypeOK
<1>8. TablesAgree'
  <2>1. ASSUME NEW o \in Ops
        PROVE  /\ operations'[o] = "create" <=> creates'[o] # Nil
               /\ operations'[o] = "accept" <=> accepts'[o] # Nil
               /\ creates'[o] # Nil => creates'[o][1] = o /\ creates'[o][2] <= made'[o]
    <3>1. CASE o = op
      BY <1>1, <1>2, <1>3, <1>5, <3>1
    <3>2. CASE o # op
      <4>1. creates[o] # Nil => o \in CreateOps
        BY CreateLemma
      <4> QED
        BY <1>1, <1>2, <1>5, <3>2, <4>1 DEF TablesAgree
    <3> QED
      BY <3>1, <3>2
  <2>2. ASSUME NEW b \in creating'
        PROVE  b[2] <= made'[b[1]]
    <3>1. CASE b = c
      BY <1>2, <1>3, <3>1
    <3>2. CASE b # c
      <4>1. b \in creating /\ b \in Creates /\ b[2] <= made[b[1]]
        BY <1>1, <3>2 DEF TypeOK, TablesAgree
      <4>2. b[1] \in CreateOps /\ b[2] \in Nat /\ made[b[1]] \in Nat
        BY <4>1, AddressLemma, MaxCreatesAssumption DEF TypeOK
      <4> QED
        BY <1>2, <4>1, <4>2
    <3> QED
      BY <3>1, <3>2
  <2> QED
    BY <1>1, <1>2, <2>1, <2>2 DEF TablesAgree
<1>9. ResultIsOwn'
  <2> SUFFICES ASSUME NEW o \in Ops, creates'[o] # Nil
               PROVE  /\ operations'[o] = "create"
                      /\ create'[creates'[o]] # Nil
                      /\ create'[creates'[o]].done <=> creates'[o] \notin creating'
                      /\ create'[creates'[o]].resource # Nil =>
                           /\ create'[creates'[o]].done
                           /\ maker'[create'[creates'[o]].resource] = creates'[o]
    BY <1>1 DEF ResultIsOwn
  <2>1. CASE o = op
    BY <1>1, <1>4, <1>5, <2>1
  <2>2. CASE o # op
    BY <1>1, <1>5, <1>6, <2>2, CreateLemma DEF ResultIsOwn
  <2> QED
    BY <2>1, <2>2
<1>10. ContextIsCancelled'
  <2> SUFFICES ASSUME NEW b \in contexts', b \notin cancelDue'
               PROVE  creates'[b[1]] = b
    BY DEF ContextIsCancelled, isRegistered
  <2>1. CASE b = c
    BY <1>3, <1>5, <2>1
  <2>2. CASE b # c
    <3>1. b \in Creates /\ creates[b[1]] = b
      BY <1>1, <2>2 DEF TypeOK, ContextIsCancelled, isRegistered
    <3>2. b[1] # op /\ b[1] \in Ops
      BY <1>2, <3>1, AddressLemma
    <3> QED
      BY <1>5, <3>1, <3>2
  <2> QED
    BY <2>1, <2>2
<1>11. \A o \in Ops, x \in Sockets : madeFor(o, x)' <=> madeFor(o, x)
  <2> SUFFICES ASSUME NEW o \in Ops, NEW x \in Sockets
               PROVE  madeFor(o, x)' <=> madeFor(o, x)
    OBVIOUS
  <2>1. CASE o = op
    BY <1>2, <1>4, <1>5, <2>1, NilSocketAssumption DEF madeFor
  <2>2. CASE o # op
    BY <1>5, <1>6, <2>2, CreateLemma DEF madeFor
  <2> QED
    BY <2>1, <2>2
<1>12. Held'
  BY <1>1, <1>11 DEF Held, heldOnce, inTable, inBacklog, backlog
<1>13. NewSocketsAreFresh'
  BY <1>1, <1>7, <1>9, <1>11, FreshLemma, FreshNext DEF fresh
<1>14. OneAhead' /\ NoStuckAccept' /\ CloseIsFinal'
  BY <1>1, <1>2 DEF AcceptIsServed, OneAhead, NoStuckAccept, CloseIsFinal
<1>15. NoLostWakeup'
  <2> SUFFICES ASSUME NEW o \in parked',
                      \/ TakeCreateReady(o)'
                      \/ TakeTCPAcceptReady(o)' /\ accepts'[o].handle \in listeners'
               PROVE  completion' \/ signalDue'
    BY DEF NoLostWakeup
  <2>1. o # op
    BY <1>1, <1>2, <1>4, <1>5 DEF TakeCreateReady, TakeTCPAcceptReady
  <2>2. o \in parked /\ o \in Ops
    BY <1>1, <2>1 DEF TypeOK, CoreTypeOK
  <2>3. creates[o] # Nil => creates[o] \in Creates
    BY <2>2 DEF TypeOK
  <2> QED
    BY <1>1, <1>5, <1>6, <2>1, <2>2, <2>3
       DEF AcceptIsServed, NoLostWakeup, TakeCreateReady, TakeTCPAcceptReady
<1> QED
  BY <1>7, <1>8, <1>9, <1>10, <1>12, <1>13, <1>14, <1>15 DEF AcceptIsServed

\* The factory is back: the createOperation of its address keeps what it made, or
\* the goroutine closes it.
LEMMA CreateReturnsStep ==
  ASSUME Inv, NEW c \in Creates, NEW x \in unborn \cup {Nil}, NEW err \in BOOLEAN,
         createReturns(c, x, err)
  PROVE  Inv'
<1> USE DEF Inv, Consistent, acceptVars, tables
<1>1. /\ c \in creating /\ creating' = creating \ {c}
      /\ UNCHANGED <<closed, closeDone, operations, completion, parked, creates, made, contexts,
                     cancelDue, acceptVars, tables>>
  BY DEF createReturns
<1>2. /\ \A y \in Sockets : /\ socket'[y] = IF y = x THEN "open" ELSE socket[y]
                           /\ maker'[y] = IF y = x THEN c ELSE maker[y]
      /\ x \in Sockets => socket[x] = "unborn"
      /\ socket' \in [Sockets -> {"unborn", "open", "closed"}]
      /\ maker' \in [Sockets -> Creates \cup Sockets \cup {Nil}]
  <2>1. /\ socket' = [y \in Sockets |-> IF y = x THEN "open" ELSE socket[y]]
        /\ maker' = [y \in Sockets |-> IF y = x THEN c ELSE maker[y]]
    BY DEF createReturns, born
  <2>2. x \in Sockets => socket[x] = "unborn"
    BY NilSocketAssumption DEF unborn
  <2>3. /\ socket' \in [Sockets -> {"unborn", "open", "closed"}]
        /\ maker' \in [Sockets -> Creates \cup Sockets \cup {Nil}]
    BY <2>1 DEF TypeOK
  <2> QED
    BY <2>1, <2>2, <2>3
<1>3. c[1] \in Ops /\ c # Nil /\ ~closeDone
  BY <1>1, AddressLemma DEF CloseIsFinal
\* What was not born before is held by nobody.
<1>4. ASSUME x \in Sockets
      PROVE  /\ ~inTable(x) /\ closing[x] = "none"
             /\ \A op \in Ops : ~madeFor(op, x)
             /\ \A l \in Sockets : ~inBacklog(l, x)
  BY <1>2, <1>4 DEF Held, heldOnce
<1>5. \A op \in Ops : creates[op] = c => op = c[1]
  BY <1>3 DEF TablesAgree
<1>6. TablesAgree' /\ ContextIsCancelled' /\ OneAhead' /\ NoStuckAccept'
  BY <1>1 DEF TablesAgree, ContextIsCancelled, isRegistered, AcceptIsServed, OneAhead, NoStuckAccept
<1>7. CloseIsFinal'
  BY <1>1, <1>3 DEF CloseIsFinal
<1>8. \A l \in listeners : \A y \in backlog(l) : maker'[y] = l
  <2> SUFFICES ASSUME NEW l \in listeners, NEW y \in backlog(l)
               PROVE  maker'[y] = l
    OBVIOUS
  <2>1. l \in Sockets /\ y \in Sockets
    BY ListenerLemma
  <2>2. y # x
    BY <1>4, <2>1 DEF inBacklog
  <2> QED
    BY <1>2, <2>1, <2>2 DEF ResultIsOwn, backlog
<1>9. CASE isRegistered(c)
  <2> DEFINE op == c[1]
             w  == [create[c] EXCEPT !.done = TRUE, !.err = err, !.resource = x]
  <2>1. /\ creates[op] = c /\ create' = [create EXCEPT ![c] = w]
        /\ signalDue' = TRUE /\ closing' = closing
    BY <1>9 DEF createReturns, isRegistered, signalAfterUnlock
  <2>2. /\ create[c] \in CreateOperations /\ ~create[c].done
    BY <1>1, <1>3, <2>1, CreateLemma DEF ResultIsOwn
  <2>3. x \in Sockets \cup {Nil}
    BY DEF unborn
  <2>4. w \in CreateOperations /\ w.resource = x /\ w.done = TRUE
    BY <2>2, <2>3 DEF CreateOperations
  <2>5. w # Nil
    BY <2>4, NilRecordAssumption
  <2> HIDE DEF w
  <2>6. create'[c] = w /\ \A b \in Creates \ {c} : create'[b] = create[b]
    BY <2>1 DEF TypeOK
  <2>7. \A o \in Ops \ {op} : creates[o] # Nil => creates[o] \in Creates \ {c}
    BY <1>5, CreateLemma
  <2>8. TypeOK'
    BY <1>1, <1>2, <2>1, <2>4 DEF TypeOK, CoreTypeOK
  <2>9. ASSUME NEW o \in Ops, NEW y \in Sockets
        PROVE  madeFor(o, y)' <=> (IF o = op THEN y = x ELSE madeFor(o, y))
    <3>1. CASE o = op
      BY <1>1, <1>3, <2>1, <2>4, <2>6, <3>1, NilSocketAssumption DEF madeFor
    <3>2. CASE o # op
      BY <1>1, <2>6, <2>7, <3>2 DEF madeFor
    <3> QED
      BY <3>1, <3>2
  <2>10. \A y \in Sockets : ~madeFor(op, y)
    <3>1. create[c].resource = Nil
      BY <1>3, <2>1, <2>2 DEF ResultIsOwn
    <3> QED
      BY <2>1, <3>1, NilSocketAssumption DEF madeFor
  <2>11. ResultIsOwn'
    <3> SUFFICES ASSUME NEW o \in Ops, creates'[o] # Nil
                 PROVE  /\ operations'[o] = "create"
                        /\ create'[creates'[o]] # Nil
                        /\ create'[creates'[o]].done <=> creates'[o] \notin creating'
                        /\ create'[creates'[o]].resource # Nil =>
                             /\ create'[creates'[o]].done
                             /\ maker'[create'[creates'[o]].resource] = creates'[o]
      BY <1>1, <1>8 DEF ResultIsOwn, backlog
    <3>1. CASE o = op
      BY <1>1, <1>2, <2>1, <2>3, <2>4, <2>5, <2>6, <3>1 DEF ResultIsOwn
    <3>2. CASE o # op
      <4>1. /\ creates'[o] = creates[o] /\ creates[o] # c /\ operations'[o] = operations[o]
            /\ create'[creates[o]] = create[creates[o]]
        BY <1>1, <2>6, <2>7, <3>2
      <4>2. create[creates[o]].resource # Nil => create[creates[o]].resource # x
        BY <1>1, <1>4, CreateLemma DEF madeFor
      <4>3. create[creates[o]].resource # Nil =>
              /\ create[creates[o]].done /\ maker'[create[creates[o]].resource] = creates[o]
        BY <1>1, <1>2, <4>2, CreateLemma DEF ResultIsOwn
      <4> QED
        BY <1>1, <4>1, <4>3 DEF ResultIsOwn
    <3> QED
      BY <3>1, <3>2
  <2>12. Held'
    <3> SUFFICES ASSUME NEW y \in Sockets
                 PROVE  heldOnce(y)'
      BY DEF Held
    <3>1. /\ heldOnce(y)
          /\ inTable(y)' <=> inTable(y)
          /\ \A l \in Sockets : inBacklog(l, y)' <=> inBacklog(l, y)
      BY <1>1 DEF Held, inTable, inBacklog, backlog
    <3>2. CASE y = x
      <4>1. socket'[y] = "open" /\ madeFor(op, y)' /\ closing'[y] = "none"
        BY <1>2, <1>3, <1>4, <2>1, <2>9, <3>2
      <4>2. ~inTable(y) /\ \A l \in Sockets : ~inBacklog(l, y)
        BY <1>4, <3>2
      <4> QED
        BY <1>1, <1>3, <3>1, <4>1, <4>2 DEF heldOnce, inTable
    <3>3. CASE y # x
      <4>1. /\ socket'[y] = socket[y] /\ closing'[y] = closing[y]
            /\ \A o \in Ops : madeFor(o, y)' <=> madeFor(o, y)
        BY <1>2, <2>1, <2>9, <2>10, <3>3
      <4> QED
        BY <1>1, <3>1, <4>1 DEF heldOnce
    <3> QED
      BY <3>2, <3>3
  <2>13. NewSocketsAreFresh'
    <3>1. ASSUME NEW y \in Sockets, socket'[y] = "unborn" \/ \E o \in Ops : madeFor(o, y)'
          PROVE  fresh(y)'
      <4>1. socket[y] = "unborn" \/ \E o \in Ops : madeFor(o, y)
        BY <1>2, <2>9, <3>1
      <4>2. fresh(y)
        BY <4>1, FreshLemma
      <4> QED
        BY <1>1, <4>2 DEF fresh
    <3> QED
      BY <2>8, <2>11, <3>1, FreshNext
  <2>14. NoLostWakeup'
    BY <2>1 DEF NoLostWakeup
  <2> QED
    BY <1>6, <1>7, <2>8, <2>11, <2>12, <2>13, <2>14 DEF AcceptIsServed
<1>10. CASE ~isRegistered(c)
  <2>1. /\ closing' = [y \in Sockets |-> IF y = x THEN "worker" ELSE closing[y]]
        /\ UNCHANGED <<create, signalDue>>
    <3>1. closeLater({x} \ {Nil}, "worker") /\ UNCHANGED <<create, signalDue>>
      BY <1>10 DEF createReturns, discard
    <3>2. \A y \in Sockets : y \in {x} \ {Nil} <=> y = x
      BY NilSocketAssumption
    <3> QED
      BY <3>1, <3>2 DEF closeLater
  <2>2. \A o \in Ops : creates[o] # c
    BY <1>5, <1>10 DEF isRegistered
  <2>3. TypeOK'
    BY <1>1, <1>2, <2>1 DEF TypeOK, CoreTypeOK, Closers
  <2>4. ResultIsOwn'
    <3> SUFFICES ASSUME NEW o \in Ops, creates[o] # Nil
                 PROVE  /\ create[creates[o]].done <=> creates[o] \notin creating'
                        /\ create[creates[o]].resource # Nil =>
                             maker'[create[creates[o]].resource] = creates[o]
      BY <1>1, <1>8, <2>1 DEF ResultIsOwn, backlog
    <3>1. create[creates[o]].resource # Nil => create[creates[o]].resource # x
      BY <1>1, <1>4, CreateLemma DEF madeFor
    <3> QED
      BY <1>1, <1>2, <2>2, <3>1, CreateLemma DEF ResultIsOwn
  <2>5. Held'
    <3> SUFFICES ASSUME NEW y \in Sockets
                 PROVE  heldOnce(y)'
      BY DEF Held
    <3>1. /\ heldOnce(y)
          /\ inTable(y)' <=> inTable(y)
          /\ \A l \in Sockets : inBacklog(l, y)' <=> inBacklog(l, y)
          /\ \A o \in Ops : madeFor(o, y)' <=> madeFor(o, y)
      BY <1>1, <2>1 DEF Held, inTable, inBacklog, backlog, madeFor
    <3>2. CASE y = x
      <4>1. socket'[y] = "open" /\ closing'[y] = "worker"
        BY <1>2, <2>1, <3>2
      <4> QED
        BY <1>1, <1>4, <3>1, <3>2, <4>1 DEF heldOnce, inTable
    <3>3. CASE y # x
      <4>1. socket'[y] = socket[y] /\ closing'[y] = closing[y]
        BY <1>2, <2>1, <3>3
      <4> QED
        BY <1>1, <3>1, <4>1 DEF heldOnce
    <3> QED
      BY <3>2, <3>3
  <2>6. NewSocketsAreFresh'
    <3>1. ASSUME NEW y \in Sockets, socket'[y] = "unborn" \/ \E o \in Ops : madeFor(o, y)'
          PROVE  fresh(y)'
      <4>1. socket[y] = "unborn" \/ \E o \in Ops : madeFor(o, y)
        BY <1>1, <1>2, <2>1, <3>1 DEF madeFor
      <4>2. fresh(y)
        BY <4>1, FreshLemma
      <4> QED
        BY <1>1, <4>2 DEF fresh
    <3> QED
      BY <2>3, <2>4, <3>1, FreshNext
  <2>7. NoLostWakeup'
    BY <1>1, <2>1 DEF AcceptIsServed, NoLostWakeup, TakeCreateReady, TakeTCPAcceptReady
  <2> QED
    BY <1>6, <1>7, <2>3, <2>4, <2>5, <2>6, <2>7 DEF AcceptIsServed
<1> QED
  BY <1>9, <1>10

\* The create is given up: its socket goes to the guest, or to whoever closes it.
handedOver(y) ==
  \/ closing' = [x \in Sockets |-> IF x = y THEN "guest" ELSE closing[x]] /\ UNCHANGED tables
  \/ y # Nil /\ closing' = closing /\ \E kind \in CreateKind : intoTable(kind, y)

givesUpCreate(op) ==
  /\ operations' = [operations EXCEPT ![op] = "none"]
  /\ create' = [create EXCEPT ![creates[op]] = Nil]
  /\ creates' = [creates EXCEPT ![op] = Nil]
  /\ parked' = parked \ {op}
  /\ contexts' \subseteq contexts /\ cancelDue \subseteq cancelDue' /\ cancelDue' \subseteq Creates
  /\ creates[op] \in contexts' => creates[op] \in cancelDue'
  /\ handedOver(create[creates[op]].resource)
  /\ UNCHANGED <<closed, closeDone, completion, signalDue, made, creating, acceptVars, socket, maker>>

\* A create is taken or cancelled.
LEMMA GiveUpCreate ==
  ASSUME Inv, NEW op \in Ops, creates[op] # Nil, givesUpCreate(op)
  PROVE  Inv'
<1> DEFINE y == create[creates[op]].resource
<1>0. handedOver(y)
  BY DEF givesUpCreate
<1>y. y = create[creates[op]].resource
  OBVIOUS
<1> HIDE DEF y
<1> USE DEF givesUpCreate
<1> USE DEF Inv, Consistent, acceptVars, tables
<1>1. /\ operations[op] = "create" /\ ~closed /\ creates[op] \in Creates
      /\ y \in Sockets \cup {Nil} /\ ~closeDone
  BY <1>y, CreateLemma DEF TablesAgree
<1>2. /\ creates'[op] = Nil /\ operations'[op] = "none"
      /\ \A o \in Ops \ {op} : /\ creates'[o] = creates[o] /\ operations'[o] = operations[o]
                              /\ creates[o] # Nil => create'[creates[o]] = create[creates[o]]
  <2>1. /\ creates'[op] = Nil /\ operations'[op] = "none"
        /\ \A o \in Ops \ {op} : creates'[o] = creates[o] /\ operations'[o] = operations[o]
    BY DEF TypeOK, CoreTypeOK
  <2>2. ASSUME NEW o \in Ops \ {op}, creates[o] # Nil
        PROVE  create'[creates[o]] = create[creates[o]]
    <3>1. creates[o] # creates[op] /\ creates[o] \in Creates
      BY <2>2, OwnCreates, CreateLemma
    <3> QED
      BY <3>1 DEF TypeOK
  <2> QED
    BY <2>1, <2>2
<1>3. /\ streams \subseteq streams' /\ streams' \subseteq Sockets /\ streams' \subseteq streams \cup {y}
      /\ datagrams \subseteq datagrams' /\ datagrams' \subseteq Sockets
      /\ datagrams' \subseteq datagrams \cup {y}
      /\ listeners \subseteq listeners' /\ listeners' \subseteq Sockets
      /\ listeners' \subseteq listeners \cup {y}
      /\ closing' \in [Sockets -> Closers \cup {"none"}]
  BY <1>0, <1>1 DEF handedOver, intoTable, TypeOK, Closers
<1>4. TypeOK'
  <2>1. /\ operations' \in [Ops -> OperationKind \cup {"none"}] /\ parked' \subseteq Ops
        /\ creates' \in [Ops -> Creates \cup {Nil}]
        /\ create' \in [Creates -> CreateOperations \cup {Nil}]
    BY DEF TypeOK, CoreTypeOK
  <2> QED
    BY <1>3, <2>1 DEF TypeOK, CoreTypeOK
\* The socket that moves.
<1>5. ASSUME y \in Sockets
      PROVE  /\ madeFor(op, y) /\ socket[y] = "open" /\ fresh(y)
             /\ ~inTable(y) /\ closing[y] = "none" /\ \A l \in Sockets : ~inBacklog(l, y)
             /\ \A o \in Ops : madeFor(o, y) => o = op
             /\ accepted[y] = <<>> /\ backlog(y) = {}
  <2>1. madeFor(op, y) /\ heldOnce(y)
    BY <1>y, <1>5 DEF madeFor, Held
  <2>2. fresh(y)
    BY <1>5, <2>1, FreshLemma
  <2>3. \A o \in Ops : madeFor(o, y) => o = op
    BY <1>5, <2>1, OneCreate
  <2>4. /\ ~inTable(y) /\ closing[y] = "none" /\ socket[y] = "open"
        /\ \A l \in Sockets : ~inBacklog(l, y)
    BY <2>1 DEF heldOnce
  <2> QED
    BY <2>1, <2>2, <2>3, <2>4, Backlogs DEF fresh, backlog
<1>6. TablesAgree'
  <2>1. ASSUME NEW o \in Ops
        PROVE  /\ operations'[o] = "create" <=> creates'[o] # Nil
               /\ operations'[o] = "accept" <=> accepts'[o] # Nil
               /\ creates'[o] # Nil => creates'[o][1] = o /\ creates'[o][2] <= made'[o]
    <3>1. CASE o = op
      BY <1>1, <1>2, <3>1 DEF TablesAgree
    <3>2. CASE o # op
      BY <1>2, <3>2 DEF TablesAgree
    <3> QED
      BY <3>1, <3>2
  <2> QED
    BY <1>1, <2>1 DEF TablesAgree
<1>7. ResultIsOwn'
  <2>1. ASSUME NEW o \in Ops, creates'[o] # Nil
        PROVE  /\ operations'[o] = "create"
               /\ create'[creates'[o]] # Nil
               /\ create'[creates'[o]].done <=> creates'[o] \notin creating'
               /\ create'[creates'[o]].resource # Nil =>
                    /\ create'[creates'[o]].done
                    /\ maker'[create'[creates'[o]].resource] = creates'[o]
    <3>1. o # op
      BY <1>2, <2>1
    <3> QED
      BY <1>2, <2>1, <3>1 DEF ResultIsOwn
  <2>2. \A l \in listeners' : \A x \in ToSet(accepted[l]) : maker[x] = l
    BY <1>3, <1>5 DEF ResultIsOwn, backlog
  <2> QED
    BY <2>1, <2>2 DEF ResultIsOwn
<1>8. ContextIsCancelled'
  <2> SUFFICES ASSUME NEW b \in contexts', b \notin cancelDue'
               PROVE  creates'[b[1]] = b
    BY DEF ContextIsCancelled, isRegistered
  <2>1. b \in Creates /\ creates[b[1]] = b /\ b[1] \in Ops
    BY AddressLemma DEF TypeOK, ContextIsCancelled, isRegistered
  <2>2. b[1] # op
    BY <2>1
  <2> QED
    BY <1>2, <2>1, <2>2
<1>9. ASSUME NEW x \in Sockets, NEW o \in Ops
      PROVE  madeFor(o, x)' <=> (o # op /\ madeFor(o, x))
  BY <1>2 DEF madeFor
<1>10. ASSUME NEW x \in Sockets, NEW l \in Sockets
       PROVE  inBacklog(l, x)' <=> inBacklog(l, x)
  BY <1>3, <1>5 DEF inBacklog, backlog
<1>11. Held'
  <2> SUFFICES ASSUME NEW x \in Sockets
               PROVE  heldOnce(x)'
    BY DEF Held
  <2>1. heldOnce(x)
    BY DEF Held
  <2>2. CASE x = y
    <3>1. \/ closing'[x] = "guest" /\ ~inTable(x)'
          \/ /\ closing'[x] = "none" /\ inTable(x)'
             /\ x \in streams' => x \notin datagrams' \cup listeners'
             /\ x \in datagrams' => x \notin listeners'
      BY <1>0, <1>5, <2>2 DEF handedOver, intoTable, inTable, CreateKind
    <3>2. /\ socket'[x] = "open"
          /\ \A o \in Ops : ~madeFor(o, x)'
          /\ \A l \in Sockets : ~inBacklog(l, x)'
      BY <1>5, <1>9, <1>10, <2>2
    <3> QED
      BY <3>1, <3>2 DEF heldOnce, inTable
  <2>3. CASE x # y
    <3>1. /\ closing'[x] = closing[x] /\ socket'[x] = socket[x] /\ (inTable(x)' <=> inTable(x))
          /\ x \in streams' <=> x \in streams
          /\ x \in datagrams' <=> x \in datagrams
          /\ x \in listeners' <=> x \in listeners
      BY <1>0, <1>3, <2>3 DEF handedOver, inTable
    <3>2. ~madeFor(op, x)
      BY <1>y, <2>3 DEF madeFor
    <3> QED
      BY <1>9, <1>10, <2>1, <3>1, <3>2 DEF heldOnce
  <2> QED
    BY <2>2, <2>3
<1>12. NewSocketsAreFresh'
  <2>1. ASSUME NEW x \in Sockets, socket'[x] = "unborn" \/ \E o \in Ops : madeFor(o, x)'
        PROVE  fresh(x)'
    <3>1. fresh(x)
      BY <1>9, <2>1, FreshLemma
    <3> QED
      BY <3>1 DEF fresh
  <2> QED
    BY <1>4, <1>7, <2>1, FreshNext
<1>13. OneAhead' /\ NoStuckAccept'
  <2>1. OneAhead'
    <3>1. \A l \in listeners' \ listeners : l = y /\ l \in Sockets
      BY <1>3
    <3>2. ASSUME NEW l \in listeners' \ listeners
          PROVE  acceptors[l] = 0 /\ ~acceptRunning[l] /\ ~acceptErr[l] /\ Len(accepted[l]) = 0
      BY <1>5, <3>1 DEF fresh
    <3> QED
      BY <3>2 DEF AcceptIsServed, OneAhead
  <2>2. NoStuckAccept'
    <3>1. \A o \in Ops : accepts[o] # Nil => accepts[o].handle # y
      <4>1. ASSUME NEW o \in Ops, accepts[o] # Nil
            PROVE  accepts[o].handle \in Sockets
        BY <4>1 DEF TypeOK, Waiters
      <4> QED
        BY <4>1, <1>1, <1>5, NilSocketAssumption DEF fresh
    <3> QED
      BY <1>3, <3>1 DEF AcceptIsServed, NoStuckAccept
  <2> QED
    BY <2>1, <2>2
<1>14. CloseIsFinal'
  BY <1>1 DEF CloseIsFinal
<1>15. NoLostWakeup'
  <2> SUFFICES ASSUME NEW o \in parked',
                      \/ TakeCreateReady(o)'
                      \/ TakeTCPAcceptReady(o)' /\ accepts'[o].handle \in listeners'
               PROVE  completion \/ signalDue
    BY DEF NoLostWakeup
  <2>1. o \in Ops /\ o # op /\ o \in parked
    BY DEF TypeOK, CoreTypeOK
  <2>2. CASE TakeCreateReady(o)'
    BY <1>2, <2>1, <2>2 DEF AcceptIsServed, NoLostWakeup, TakeCreateReady
  <2>3. CASE TakeTCPAcceptReady(o)' /\ accepts'[o].handle \in listeners'
    <3>1. accepts[o] # Nil /\ operations[o] = "accept" /\ accepts[o].handle \in Sockets
      BY <1>2, <2>1, <2>3 DEF TakeTCPAcceptReady, TypeOK, Waiters
    <3>2. accepts[o].handle \in listeners
      BY <1>3, <1>5, <2>1, <2>3, <3>1 DEF fresh
    <3>3. TakeTCPAcceptReady(o)
      BY <1>3, <2>3, <3>1, <3>2 DEF TakeTCPAcceptReady
    <3> QED
      BY <2>1, <3>2, <3>3 DEF AcceptIsServed, NoLostWakeup
  <2> QED
    BY <2>2, <2>3
<1> QED
  BY <1>4, <1>6, <1>7, <1>8, <1>11, <1>12, <1>13, <1>14, <1>15 DEF AcceptIsServed

LEMMA TakeCreateStep ==
  ASSUME Inv, NEW op \in Ops, NEW kind \in CreateKind, takeCreate(op, kind)
  PROVE  Inv'
<1> DEFINE y == create[creates[op]].resource
<1>1. /\ creates[op] # Nil
      /\ \/ closeLater({y} \ {Nil}, "guest") /\ UNCHANGED tables
         \/ y # Nil /\ intoTable(kind, y) /\ UNCHANGED closing
  BY DEF takeCreate, TakeCreateReady, failed
<1>2. handedOver(y)
  <2>1. \A x \in Sockets : x \in {y} \ {Nil} <=> x = y
    BY NilSocketAssumption
  <2> QED
    BY <1>1, <2>1 DEF closeLater, handedOver
<1>3. operations' = [operations EXCEPT ![op] = "none"] /\ cancelDue \subseteq Creates
  BY DEF takeCreate, TakeCreateReady, releaseOperationLocked, Inv, Consistent, TypeOK, CoreTypeOK
<1>4. givesUpCreate(op)
  BY <1>2, <1>3 DEF takeCreate, givesUpCreate
<1> QED
  BY <1>1, <1>4, GiveUpCreate

LEMMA CancelCreateStep ==
  ASSUME Inv, NEW op \in Ops, CancelCreate(op)
  PROVE  Inv'
<1> DEFINE y == create[creates[op]].resource
<1>1. creates[op] # Nil /\ creates[op] \in Creates /\ cancelDue \subseteq Creates
  BY DEF CancelCreate, Inv, Consistent, TablesAgree, TypeOK
<1>2. handedOver(y)
  <2>1. \A x \in Sockets : x \in {y} \ {Nil} <=> x = y
    BY NilSocketAssumption
  <2> QED
    BY <2>1 DEF closeLater, CancelCreate, handedOver
<1>3. givesUpCreate(op)
  BY <1>1, <1>2 DEF CancelCreate, givesUpCreate
<1> QED
  BY <1>1, <1>3, GiveUpCreate

\* What the steps of an accept leave to the creates.
LEMMA CreatesStay ==
  ASSUME Inv, UNCHANGED <<createVars, maker, listeners>>,
         \A o \in Ops : operations'[o] = "create" <=> operations[o] = "create",
         \A m \in listeners : backlog(m)' \subseteq backlog(m)
  PROVE  ResultIsOwn' /\ ContextIsCancelled' /\ \A o \in Ops, x \in Sockets : madeFor(o, x)' <=> madeFor(o, x)
BY DEF Inv, Consistent, ResultIsOwn, ContextIsCancelled, isRegistered, madeFor, createVars, backlog

\* The guest waits for a connection; if none is stored somebody accepts.
LEMMA StartAcceptStep ==
  ASSUME Inv, NEW l \in Sockets, NEW op \in Ops, StartTCPAccept(l, op)
  PROVE  Inv'
<1> USE DEF Inv, Consistent, createVars, tables, socketVars
<1> DEFINE w == [handle |-> l, ready |-> readyAtStart(l)]
<1>1. /\ l \in listeners /\ ~closed /\ operations[op] = "none"
      /\ operations' = [operations EXCEPT ![op] = "accept"]
      /\ accepts' = [accepts EXCEPT ![op] = w]
      /\ acceptRunning' = [acceptRunning EXCEPT ![l] = @ \/ mayStartAccept(l)]
      /\ acceptors' = [acceptors EXCEPT ![l] = IF mayStartAccept(l) THEN @ + 1 ELSE @]
      /\ signalDue' = (signalDue \/ readyAtStart(l))
      /\ parked' = parked \cup {op}
      /\ UNCHANGED <<closed, closeDone, completion, createVars, tables, socketVars, accepted,
                     acceptErr>>
  BY DEF StartTCPAccept, claimOperationLocked, startAccept, signalAfterUnlock
<1>2. ~closeDone /\ creates[op] = Nil /\ accepts[op] = Nil
  BY <1>1 DEF TablesAgree
<1>3. readyAtStart(l) \in BOOLEAN /\ mayStartAccept(l) \in BOOLEAN
  BY DEF readyAtStart, mayStartAccept
<1>4. w \in Waiters /\ w # Nil /\ w.handle = l
  <2>1. w \in Waiters
    BY <1>3 DEF Waiters
  <2> QED
    BY <2>1, NilRecordAssumption
<1> HIDE DEF w
<1>5. /\ accepts'[op] = w /\ operations'[op] = "accept"
      /\ \A o \in Ops \ {op} : accepts'[o] = accepts[o] /\ operations'[o] = operations[o]
      /\ \A m \in Sockets \ {l} : acceptRunning'[m] = acceptRunning[m] /\ acceptors'[m] = acceptors[m]
  BY <1>1 DEF TypeOK, CoreTypeOK
<1>6. /\ acceptRunning'[l] = (acceptRunning[l] \/ mayStartAccept(l))
      /\ acceptors'[l] = IF mayStartAccept(l) THEN acceptors[l] + 1 ELSE acceptors[l]
  BY <1>1 DEF TypeOK
<1>S. readyAtStart(l) \/ signalDue => signalDue' = TRUE
  <2>1. ASSUME readyAtStart(l) \/ signalDue
        PROVE  (signalDue \/ readyAtStart(l)) = TRUE
    BY <2>1
  <2> QED
    BY <1>1, <2>1, Zenon
<1>7. TypeOK'
  <2>1. /\ accepts' \in [Ops -> Waiters \cup {Nil}] /\ operations' \in [Ops -> OperationKind \cup {"none"}]
        /\ acceptRunning' \in [Sockets -> BOOLEAN] /\ acceptors' \in [Sockets -> Nat]
    BY <1>1, <1>3, <1>4 DEF TypeOK, CoreTypeOK, OperationKind
  <2> QED
    BY <1>1, <1>3, <2>1 DEF TypeOK, CoreTypeOK
<1>8. TablesAgree'
  BY <1>1, <1>2, <1>4, <1>5 DEF TablesAgree
<1>9. ResultIsOwn' /\ ContextIsCancelled' /\ \A o \in Ops, x \in Sockets : madeFor(o, x)' <=> madeFor(o, x)
  BY <1>1, <1>5, CreatesStay DEF backlog
<1>10. Held'
  BY <1>1, <1>9 DEF Held, heldOnce, inTable, inBacklog, backlog
<1>11. NewSocketsAreFresh'
  <2>1. ASSUME NEW x \in Sockets, socket'[x] = "unborn" \/ \E o \in Ops : madeFor(o, x)'
        PROVE  fresh(x)'
    <3>1. fresh(x)
      BY <1>1, <1>9, <2>1, FreshLemma
    <3>2. x # l
      BY <1>1, <1>9, <2>1 DEF Held, heldOnce, inTable
    <3> QED
      BY <1>1, <1>4, <1>5, <3>1, <3>2 DEF fresh
  <2> QED
    BY <1>7, <1>9, <2>1, FreshNext
<1>12. OneAhead' /\ NoStuckAccept'
  <2>1. ASSUME NEW m \in listeners
        PROVE  /\ acceptors'[m] = IF acceptRunning'[m] THEN 1 ELSE 0
               /\ acceptors'[m] + Len(accepted[m]) + (IF acceptErr[m] THEN 1 ELSE 0) <= 1
    <3>1. CASE m = l /\ mayStartAccept(l)
      <4>1. ~acceptRunning[l] /\ accepted[l] = <<>> /\ ~acceptErr[l]
        BY <3>1 DEF mayStartAccept, readyAtStart
      <4>2. acceptors'[l] = 1 /\ acceptRunning'[l] /\ Len(accepted[l]) = 0
        <5>1. acceptors[l] = 0
          BY <1>1, <4>1, ListenerLemma
        <5>2. Len(accepted[l]) = 0
          BY <4>1
        <5>3. acceptors'[l] = acceptors[l] + 1 /\ acceptRunning'[l]
          BY <1>6, <3>1, Zenon
        <5> QED
          BY <5>1, <5>2, <5>3
      <4> QED
        BY <3>1, <4>1, <4>2
    <3>2. CASE ~(m = l /\ mayStartAccept(l))
      <4>1. acceptors'[m] = acceptors[m] /\ acceptRunning'[m] = acceptRunning[m] /\ m \in Sockets
        BY <1>5, <1>6, <3>2, ListenerLemma
      <4> QED
        BY <4>1 DEF AcceptIsServed, OneAhead
    <3> QED
      BY <3>1, <3>2
  <2>2. ASSUME NEW o \in Ops, accepts'[o] # Nil, accepts'[o].handle \in listeners,
               accepted[accepts'[o].handle] = <<>>, ~acceptErr[accepts'[o].handle]
        PROVE  acceptRunning'[accepts'[o].handle]
    <3>1. CASE o = op
      BY <1>4, <1>5, <1>6, <2>2, <3>1 DEF mayStartAccept, readyAtStart
    <3>2. CASE o # op
      <4>1. acceptRunning[accepts[o].handle]
        BY <1>5, <2>2, <3>2 DEF AcceptIsServed, NoStuckAccept
      <4> QED
        BY <1>5, <1>6, <2>2, <3>2, <4>1, ListenerLemma
    <3> QED
      BY <3>1, <3>2
  <2> QED
    BY <1>1, <2>1, <2>2 DEF OneAhead, NoStuckAccept
<1>13. CloseIsFinal'
  BY <1>1, <1>2 DEF CloseIsFinal
<1>14. NoLostWakeup'
  <2> SUFFICES ASSUME NEW o \in parked',
                      \/ TakeCreateReady(o)'
                      \/ TakeTCPAcceptReady(o)' /\ accepts'[o].handle \in listeners'
               PROVE  completion' \/ signalDue'
    BY DEF NoLostWakeup
  <2>1. CASE o = op
    <3>1. TakeTCPAcceptReady(o)'
      BY <1>5, <2>1 DEF TakeCreateReady
    <3>2. accepts'[o].handle = l
      BY <1>4, <1>5, <2>1
    <3>3. l \notin listeners' \/ accepted'[l] # <<>> \/ acceptErr'[l]
      BY <3>1, <3>2 DEF TakeTCPAcceptReady
    <3>4. readyAtStart(l)
      BY <1>1, <3>3 DEF readyAtStart
    <3> QED
      BY <1>S, <3>4
  <2>2. CASE o # op
    <3>1. o \in parked /\ o \in Ops
      BY <1>1, <2>2 DEF TypeOK, CoreTypeOK
    <3>2. completion \/ signalDue
      BY <1>1, <1>5, <2>2, <3>1 DEF AcceptIsServed, NoLostWakeup, TakeCreateReady, TakeTCPAcceptReady
    <3> QED
      BY <1>1, <1>S, <3>2
  <2> QED
    BY <2>1, <2>2
<1> QED
  BY <1>7, <1>8, <1>9, <1>10, <1>11, <1>12, <1>13, <1>14 DEF AcceptIsServed

\* An accept is cancelled: what it waited for stays.
LEMMA CancelAcceptStep ==
  ASSUME Inv, NEW op \in Ops, CancelAccept(op)
  PROVE  Inv'
<1> USE DEF Inv, Consistent, createVars, tables, socketVars
<1>1. /\ operations[op] = "accept"
      /\ operations' = [operations EXCEPT ![op] = "none"] /\ accepts' = [accepts EXCEPT ![op] = Nil]
      /\ parked' = parked \ {op}
      /\ UNCHANGED <<closed, closeDone, completion, signalDue, createVars, tables, socketVars, accepted,
                     acceptRunning, acceptErr, acceptors>>
  BY DEF CancelAccept
<1>2. /\ accepts'[op] = Nil /\ operations'[op] = "none"
      /\ \A o \in Ops \ {op} : accepts'[o] = accepts[o] /\ operations'[o] = operations[o]
  BY <1>1 DEF TypeOK, CoreTypeOK
<1>3. TypeOK'
  BY <1>1 DEF TypeOK, CoreTypeOK
<1>4. TablesAgree'
  BY <1>1, <1>2 DEF TablesAgree
<1>5. ResultIsOwn' /\ ContextIsCancelled' /\ \A o \in Ops, x \in Sockets : madeFor(o, x)' <=> madeFor(o, x)
  BY <1>1, <1>2, CreatesStay DEF backlog
<1>6. Held'
  BY <1>1, <1>5 DEF Held, heldOnce, inTable, inBacklog, backlog
<1>7. NewSocketsAreFresh'
  BY <1>1, <1>2, <1>3, <1>5, FreshLemma, FreshNext DEF fresh
<1>8. OneAhead' /\ NoStuckAccept' /\ CloseIsFinal'
  BY <1>1, <1>2 DEF AcceptIsServed, OneAhead, NoStuckAccept, CloseIsFinal
<1>9. NoLostWakeup'
  <2>1. \A o \in parked' : o # op /\ o \in parked /\ o \in Ops
    BY <1>1 DEF TypeOK, CoreTypeOK
  <2> QED
    BY <1>1, <1>2, <2>1 DEF AcceptIsServed, NoLostWakeup, TakeCreateReady, TakeTCPAcceptReady
<1> QED
  BY <1>3, <1>4, <1>5, <1>6, <1>7, <1>8, <1>9 DEF AcceptIsServed

\* Accept is back: the listener stores what it got, or the goroutine closes it.
LEMMA AcceptReturnsStep ==
  ASSUME Inv, NEW l \in Sockets, NEW x \in unborn \cup {Nil}, runTCPAccept(l, x)
  PROVE  Inv'
<1> USE DEF Inv, Consistent, createVars, tables
<1>1. /\ acceptors[l] > 0 /\ acceptors' = [acceptors EXCEPT ![l] = @ - 1]
      /\ UNCHANGED <<closed, closeDone, operations, completion, parked, createVars, tables>>
  BY DEF runTCPAccept
<1>2. /\ \A y \in Sockets : /\ socket'[y] = IF y = x THEN "open" ELSE socket[y]
                           /\ maker'[y] = IF y = x THEN l ELSE maker[y]
      /\ x \in Sockets => socket[x] = "unborn"
      /\ socket' \in [Sockets -> {"unborn", "open", "closed"}]
      /\ maker' \in [Sockets -> Creates \cup Sockets \cup {Nil}]
      /\ x \in Sockets \cup {Nil}
  <2>1. /\ socket' = [y \in Sockets |-> IF y = x THEN "open" ELSE socket[y]]
        /\ maker' = [y \in Sockets |-> IF y = x THEN l ELSE maker[y]]
    BY DEF runTCPAccept, born
  <2>2. (x \in Sockets => socket[x] = "unborn") /\ x \in Sockets \cup {Nil}
    BY NilSocketAssumption DEF unborn
  <2>3. /\ socket' \in [Sockets -> {"unborn", "open", "closed"}]
        /\ maker' \in [Sockets -> Creates \cup Sockets \cup {Nil}]
    BY <2>1 DEF TypeOK
  <2> QED
    BY <2>1, <2>2, <2>3
<1>3. /\ acceptors[l] \in Nat /\ acceptors[l] # 0 /\ acceptors'[l] = acceptors[l] - 1
      /\ \A m \in Sockets \ {l} : acceptors'[m] = acceptors[m]
      /\ acceptors' \in [Sockets -> Nat] /\ ~closeDone
  <2>1. acceptors[l] \in Nat /\ acceptors[l] # 0 /\ acceptors[l] - 1 \in Nat
    BY <1>1 DEF TypeOK
  <2> QED
    BY <1>1, <2>1 DEF TypeOK, CloseIsFinal
<1>4. ASSUME x \in Sockets
      PROVE  /\ ~inTable(x) /\ closing[x] = "none"
             /\ \A op \in Ops : ~madeFor(op, x)
             /\ \A m \in Sockets : ~inBacklog(m, x)
  BY <1>2, <1>4 DEF Held, heldOnce
<1>5. ~fresh(l)
  BY <1>3 DEF fresh
<1>6. ContextIsCancelled' /\ CloseIsFinal'
  BY <1>1, <1>3 DEF ContextIsCancelled, isRegistered, CloseIsFinal
<1>7. \A op \in Ops, y \in Sockets : madeFor(op, y)' <=> madeFor(op, y)
  BY <1>1 DEF madeFor
\* What was held before keeps its maker.
<1>8. \A m \in listeners : \A y \in backlog(m) : maker'[y] = m
  <2> SUFFICES ASSUME NEW m \in listeners, NEW y \in backlog(m)
               PROVE  maker'[y] = m
    OBVIOUS
  <2>1. m \in Sockets /\ y \in Sockets
    BY ListenerLemma
  <2>2. y # x
    BY <1>4, <2>1 DEF inBacklog
  <2> QED
    BY <1>2, <2>1, <2>2 DEF ResultIsOwn, backlog
<1>9. ASSUME NEW op \in Ops, creates'[op] # Nil
      PROVE  /\ operations'[op] = "create"
             /\ create'[creates'[op]] # Nil
             /\ create'[creates'[op]].done <=> creates'[op] \notin creating'
             /\ create'[creates'[op]].resource # Nil =>
                  /\ create'[creates'[op]].done
                  /\ maker'[create'[creates'[op]].resource] = creates'[op]
  <2>1. create[creates[op]].resource # Nil => create[creates[op]].resource # x
    BY <1>1, <1>4, <1>9, CreateLemma DEF madeFor
  <2> QED
    BY <1>1, <1>2, <1>9, <2>1, CreateLemma DEF ResultIsOwn
<1>10. ASSUME NEW y \in Sockets, socket'[y] = "unborn" \/ \E op \in Ops : madeFor(op, y)'
       PROVE  fresh(y) /\ y # l
  BY <1>2, <1>5, <1>7, <1>10, FreshLemma
<1>11. CASE l \notin listeners
  <2>1. /\ closing' = [y \in Sockets |-> IF y = x THEN "worker" ELSE closing[y]]
        /\ UNCHANGED <<accepts, accepted, acceptErr, acceptRunning, signalDue>>
    <3>1. /\ closeLater({x} \ {Nil}, "worker")
          /\ UNCHANGED <<accepts, accepted, acceptErr, acceptRunning, signalDue>>
      BY <1>11 DEF runTCPAccept, discard
    <3>2. \A y \in Sockets : y \in {x} \ {Nil} <=> y = x
      BY NilSocketAssumption
    <3> QED
      BY <3>1, <3>2 DEF closeLater
  <2>2. TypeOK'
    BY <1>1, <1>2, <1>3, <2>1 DEF TypeOK, CoreTypeOK, Closers
  <2>3. TablesAgree'
    BY <1>1, <2>1 DEF TablesAgree
  <2>4. ResultIsOwn'
    BY <1>1, <1>8, <1>9, <2>1 DEF ResultIsOwn, backlog
  <2>5. NewSocketsAreFresh'
    <3>1. \A y \in Sockets : (socket'[y] = "unborn" \/ \E op \in Ops : madeFor(op, y)') => fresh(y)'
      BY <1>1, <1>3, <1>10, <2>1 DEF fresh
    <3> QED
      BY <2>2, <2>4, <3>1, FreshNext
  <2>6. Held'
    <3> SUFFICES ASSUME NEW y \in Sockets
                 PROVE  heldOnce(y)'
      BY DEF Held
    <3>1. /\ heldOnce(y)
          /\ inTable(y)' <=> inTable(y)
          /\ \A m \in Sockets : inBacklog(m, y)' <=> inBacklog(m, y)
      BY <1>1, <2>1 DEF Held, inTable, inBacklog, backlog
    <3>2. CASE y = x
      <4>1. socket'[y] = "open" /\ closing'[y] = "worker"
        BY <1>2, <2>1, <3>2
      <4> QED
        BY <1>1, <1>4, <1>7, <3>1, <3>2, <4>1 DEF heldOnce, inTable
    <3>3. CASE y # x
      <4>1. socket'[y] = socket[y] /\ closing'[y] = closing[y]
        BY <1>2, <2>1, <3>3
      <4> QED
        BY <1>1, <1>7, <3>1, <4>1 DEF heldOnce
    <3> QED
      BY <3>2, <3>3
  <2>7. OneAhead' /\ NoStuckAccept'
    <3>1. \A m \in listeners : m # l /\ m \in Sockets
      BY <1>11, ListenerLemma
    <3> QED
      BY <1>1, <1>3, <2>1, <3>1 DEF AcceptIsServed, OneAhead, NoStuckAccept
  <2>8. NoLostWakeup'
    BY <1>1, <2>1 DEF AcceptIsServed, NoLostWakeup, TakeCreateReady, TakeTCPAcceptReady
  <2> QED
    BY <1>6, <2>2, <2>3, <2>4, <2>5, <2>6, <2>7, <2>8 DEF AcceptIsServed
<1>12. CASE l \in listeners
  <2>1. /\ acceptRunning' = [acceptRunning EXCEPT ![l] = FALSE]
        /\ acceptErr' = [acceptErr EXCEPT ![l] = @ \/ x = Nil]
        /\ accepted' = [accepted EXCEPT ![l] = IF x = Nil THEN @ ELSE Append(@, x)]
        /\ accepts' = [op \in Ops |-> IF op \in waitersOf(l)
                                      THEN [accepts[op] EXCEPT !.ready = TRUE] ELSE accepts[op]]
        /\ signalDue' = TRUE /\ closing' = closing
    BY <1>12 DEF runTCPAccept, signalAccepted, signalAfterUnlock
  <2>2. /\ accepted[l] = <<>> /\ acceptErr[l] = FALSE /\ acceptors'[l] = 0 /\ backlog(l) = {}
    <3>1. acceptRunning[l] /\ acceptors[l] = 1
      BY <1>3, <1>12, ListenerLemma
    <3>2. accepted[l] = <<>> /\ acceptErr[l] = FALSE /\ backlog(l) = {}
      BY <1>12, <3>1, ListenerLemma
    <3> QED
      BY <1>3, <3>1, <3>2
  <2>3. ASSUME NEW op \in Ops
        PROVE  /\ accepts'[op] \in Waiters \cup {Nil}
               /\ accepts'[op] = Nil <=> accepts[op] = Nil
               /\ accepts[op] # Nil => accepts'[op].handle = accepts[op].handle
    <3>1. CASE op \in waitersOf(l)
      <4>1. accepts[op] \in Waiters /\ accepts[op] # Nil
        BY <3>1 DEF waitersOf, TypeOK
      <4>2. /\ [accepts[op] EXCEPT !.ready = TRUE] \in Waiters
            /\ [accepts[op] EXCEPT !.ready = TRUE].handle = accepts[op].handle
        BY <4>1 DEF Waiters
      <4> QED
        BY <2>1, <3>1, <4>1, <4>2, NilRecordAssumption
    <3>2. CASE op \notin waitersOf(l)
      BY <2>1, <3>2 DEF TypeOK
    <3> QED
      BY <3>1, <3>2
  <2>4. /\ accepted'[l] = IF x = Nil THEN <<>> ELSE Append(<<>>, x)
        /\ acceptErr'[l] = (x = Nil) /\ acceptRunning'[l] = FALSE
        /\ \A m \in Sockets \ {l} : /\ accepted'[m] = accepted[m] /\ acceptErr'[m] = acceptErr[m]
                                   /\ acceptRunning'[m] = acceptRunning[m]
    BY <2>1, <2>2 DEF TypeOK
  <2>5. TypeOK'
    <3>1. accepted' \in [Sockets -> Seq(Sockets)]
      <4>1. x # Nil => Append(accepted[l], x) \in Seq(Sockets)
        BY <1>2 DEF TypeOK
      <4> QED
        BY <2>1, <4>1 DEF TypeOK
    <3>2. accepts' \in [Ops -> Waiters \cup {Nil}]
      BY <2>1, <2>3
    <3>3. acceptRunning' \in [Sockets -> BOOLEAN] /\ acceptErr' \in [Sockets -> BOOLEAN]
      BY <2>1 DEF TypeOK
    <3> QED
      BY <1>1, <1>2, <1>3, <2>1, <3>1, <3>2, <3>3 DEF TypeOK, CoreTypeOK
  <2>6. TablesAgree'
    BY <1>1, <2>3 DEF TablesAgree
  <2>7. /\ \A m \in listeners \ {l} : backlog(m)' = backlog(m)
        /\ \A y \in Sockets : y \in backlog(l)' <=> y = x
        /\ \A y \in backlog(l)' : y = x /\ y \in Sockets
    <3>1. \A m \in listeners \ {l} : m \in Sockets
      BY ListenerLemma
    <3>2. backlog(l)' = IF x = Nil THEN {} ELSE {x}
      BY <2>4, Backlogs DEF backlog
    <3> QED
      BY <1>2, <2>4, <3>1, <3>2, NilSocketAssumption DEF backlog
  <2>8. ResultIsOwn'
    <3>1. ASSUME NEW m \in listeners, NEW y \in backlog(m)'
          PROVE  maker'[y] = m
      BY <1>2, <1>8, <2>7
    <3> QED
      BY <1>1, <1>9, <3>1 DEF ResultIsOwn, backlog
  <2>9. NewSocketsAreFresh'
    <3>1. \A y \in Sockets : (socket'[y] = "unborn" \/ \E op \in Ops : madeFor(op, y)') => fresh(y)'
      BY <1>3, <1>10, <2>3, <2>4 DEF fresh
    <3> QED
      BY <2>5, <2>8, <3>1, FreshNext
  <2>10. Held'
    <3> SUFFICES ASSUME NEW y \in Sockets
                 PROVE  heldOnce(y)'
      BY DEF Held
    <3>1. heldOnce(y) /\ (inTable(y)' <=> inTable(y)) /\ closing'[y] = closing[y]
      BY <1>1, <2>1 DEF Held, inTable
    <3>2. \A m \in Sockets : inBacklog(m, y)' <=> IF m = l THEN y = x ELSE inBacklog(m, y)
      BY <1>1, <1>12, <2>7 DEF inBacklog
    <3>3. CASE y = x
      <4>1. socket'[y] = "open" /\ inBacklog(l, y)' /\ \A m \in Sockets \ {l} : ~inBacklog(m, y)'
        BY <1>2, <1>4, <3>2, <3>3
      <4> QED
        BY <1>1, <1>4, <1>7, <3>1, <3>3, <4>1 DEF heldOnce, inTable
    <3>4. CASE y # x
      <4>1. socket'[y] = socket[y] /\ \A m \in Sockets : inBacklog(m, y)' <=> inBacklog(m, y)
        BY <1>2, <2>2, <3>2, <3>4 DEF inBacklog
      <4> QED
        BY <1>1, <1>7, <3>1, <4>1 DEF heldOnce
    <3> QED
      BY <3>3, <3>4
  <2>11. OneAhead'
    <3>1. ASSUME NEW m \in listeners
          PROVE  /\ acceptors'[m] = IF acceptRunning'[m] THEN 1 ELSE 0
                 /\ acceptors'[m] + Len(accepted'[m]) + (IF acceptErr'[m] THEN 1 ELSE 0) <= 1
      <4>1. CASE m = l
        <5>1. Len(<<>>) = 0 /\ (x # Nil => Len(Append(<<>>, x)) = 1)
          OBVIOUS
        <5>2. CASE x = Nil
          <6>1. /\ acceptors'[l] = 0 /\ ~acceptRunning'[l] /\ acceptErr'[l] = TRUE
                /\ Len(accepted'[l]) = 0
            BY <2>2, <2>4, <5>1, <5>2
          <6> QED
            BY <4>1, <6>1
        <5>3. CASE x # Nil
          <6>1. /\ acceptors'[l] = 0 /\ ~acceptRunning'[l] /\ ~acceptErr'[l]
                /\ Len(accepted'[l]) = 1
            BY <2>2, <2>4, <5>1, <5>3
          <6> QED
            BY <4>1, <6>1
        <5> QED
          BY <5>2, <5>3
      <4>2. CASE m # l
        <5>1. m \in Sockets \ {l}
          BY <4>2, ListenerLemma
        <5> QED
          BY <1>3, <2>4, <5>1 DEF AcceptIsServed, OneAhead
      <4> QED
        BY <4>1, <4>2
    <3> QED
      BY <1>1, <3>1 DEF OneAhead
  <2>12. NoStuckAccept'
    <3> SUFFICES ASSUME NEW op \in Ops, accepts'[op] # Nil, accepts'[op].handle \in listeners,
                        accepted'[accepts'[op].handle] = <<>>, ~acceptErr'[accepts'[op].handle]
                 PROVE  acceptRunning'[accepts'[op].handle]
      BY <1>1 DEF NoStuckAccept
    <3>1. accepts'[op].handle # l
      <4>1. \A y : Append(<<>>, y) # <<>>
        OBVIOUS
      <4> QED
        BY <2>4, <4>1
    <3>2. accepts[op] # Nil /\ accepts'[op].handle = accepts[op].handle /\ accepts[op].handle \in Sockets \ {l}
      BY <2>3, <3>1, ListenerLemma
    <3> QED
      BY <2>4, <3>2 DEF AcceptIsServed, NoStuckAccept
  <2>13. NoLostWakeup'
    BY <2>1 DEF NoLostWakeup
  <2> QED
    BY <1>6, <2>5, <2>6, <2>8, <2>9, <2>10, <2>11, <2>12, <2>13 DEF AcceptIsServed
<1> QED
  BY <1>11, <1>12

\* The guest takes a connection, an error, or hears that the listener is gone; if
\* others wait, somebody goes on accepting.
LEMMA TakeAcceptStep ==
  ASSUME Inv, NEW op \in Ops, TakeTCPAccept(op)
  PROVE  Inv'
<1> USE DEF Inv, Consistent, createVars, socketVars
<1> PICK l : l = accepts[op].handle
  OBVIOUS
<1>1. /\ operations[op] = "accept" /\ accepts[op] # Nil
      /\ l \notin listeners \/ accepted[l] # <<>> \/ acceptErr[l]
      /\ accepts' = [accepts EXCEPT ![op] = Nil]
      /\ operations' = [operations EXCEPT ![op] = IF @ = "accept" THEN "none" ELSE @]
      /\ parked' = parked \ {op}
      /\ UNCHANGED <<closed, closeDone, completion, signalDue, createVars, datagrams, listeners,
                     socketVars>>
  BY DEF TakeTCPAccept, TakeTCPAcceptReady, releaseOperationLocked
<1>2. \/ l \notin listeners /\ UNCHANGED <<streams, accepted, acceptErr, acceptRunning, acceptors>>
      \/ /\ l \in listeners
         /\ \/ /\ accepted[l] = <<>>
               /\ acceptErr' = [acceptErr EXCEPT ![l] = FALSE]
               /\ UNCHANGED <<accepted, streams>>
            \/ /\ accepted[l] # <<>>
               /\ streams' = streams \cup {Head(accepted[l])}
               /\ accepted' = [accepted EXCEPT ![l] = Tail(@)]
               /\ UNCHANGED acceptErr
         /\ startAccept(l, mayAcceptMore(l))
  BY DEF TakeTCPAccept
<1>3. l \in Sockets /\ ~closed /\ ~closeDone
  BY <1>1 DEF TypeOK, Waiters, TablesAgree
<1>4. /\ accepts'[op] = Nil /\ operations'[op] = "none"
      /\ \A o \in Ops \ {op} : accepts'[o] = accepts[o] /\ operations'[o] = operations[o]
      /\ operations' \in [Ops -> OperationKind \cup {"none"}]
      /\ accepts' \in [Ops -> Waiters \cup {Nil}]
  BY <1>1 DEF TypeOK, CoreTypeOK
<1>5. /\ \A m \in Sockets \ {l} : /\ accepted'[m] = accepted[m] /\ acceptErr'[m] = acceptErr[m]
                                 /\ acceptRunning'[m] = acceptRunning[m]
                                 /\ acceptors'[m] = acceptors[m]
      /\ l \notin listeners => /\ accepted'[l] = accepted[l] /\ acceptErr'[l] = acceptErr[l]
                               /\ acceptRunning'[l] = acceptRunning[l]
                               /\ acceptors'[l] = acceptors[l]
  BY <1>2, <1>3 DEF startAccept, TypeOK
\* The listener has nothing stored afterwards.
<1>6. ASSUME l \in listeners
      PROVE  /\ accepted'[l] = <<>> /\ acceptErr'[l] = FALSE /\ backlog(l)' = {}
             /\ ~acceptRunning[l] /\ acceptors[l] = 0
             /\ accepted[l] = <<>> => backlog(l) = {} /\ streams' = streams
             /\ accepted[l] # <<>> => /\ backlog(l) = {Head(accepted[l])}
                                      /\ streams' = streams \cup backlog(l)
                                      /\ Head(accepted[l]) \in Sockets
  <2>1. CASE accepted[l] = <<>>
    <3>1. /\ acceptErr' = [acceptErr EXCEPT ![l] = FALSE] /\ accepted' = accepted /\ streams' = streams
          /\ acceptErr[l]
      BY <1>1, <1>2, <1>6, <2>1
    <3>2. ~acceptRunning[l] /\ acceptors[l] = 0 /\ backlog(l) = {}
      BY <1>6, <2>1, <3>1, ListenerLemma
    <3> QED
      BY <1>3, <2>1, <3>1, <3>2 DEF TypeOK, backlog
  <2>2. CASE accepted[l] # <<>>
    <3>1. /\ streams' = streams \cup {Head(accepted[l])}
          /\ accepted' = [accepted EXCEPT ![l] = Tail(@)] /\ acceptErr' = acceptErr
      BY <1>2, <1>6, <2>2
    <3>2. /\ ~acceptRunning[l] /\ acceptors[l] = 0 /\ ~acceptErr[l] /\ acceptErr[l] \in BOOLEAN
          /\ Tail(accepted[l]) = <<>> /\ backlog(l) = {Head(accepted[l])}
          /\ Head(accepted[l]) \in Sockets
      BY <1>6, <2>2, ListenerLemma
    <3>3. accepted'[l] = <<>>
      BY <1>3, <3>1, <3>2 DEF TypeOK
    <3> QED
      BY <2>2, <3>1, <3>2, <3>3, Backlogs DEF backlog
  <2> QED
    BY <2>1, <2>2
<1>7. ASSUME l \in listeners
      PROVE  /\ acceptRunning'[l] = hasAcceptWaiterLocked(l)
             /\ acceptors'[l] = IF hasAcceptWaiterLocked(l) THEN 1 ELSE 0
             /\ acceptRunning' \in [Sockets -> BOOLEAN] /\ acceptors' \in [Sockets -> Nat]
  <2>1. mayAcceptMore(l) = hasAcceptWaiterLocked(l) /\ hasAcceptWaiterLocked(l) \in BOOLEAN
    BY <1>6, <1>7 DEF mayAcceptMore, hasAcceptWaiterLocked
  <2>2. /\ acceptRunning' = [acceptRunning EXCEPT ![l] = @ \/ mayAcceptMore(l)]
        /\ acceptors' = [acceptors EXCEPT ![l] = IF mayAcceptMore(l) THEN @ + 1 ELSE @]
    BY <1>2, <1>7 DEF startAccept
  <2>3. acceptRunning[l] = FALSE /\ acceptors[l] = 0
    BY <1>3, <1>6, <1>7 DEF TypeOK
  <2>4. /\ acceptRunning'[l] = (acceptRunning[l] \/ mayAcceptMore(l))
        /\ acceptors'[l] = IF mayAcceptMore(l) THEN acceptors[l] + 1 ELSE acceptors[l]
        /\ acceptRunning' \in [Sockets -> BOOLEAN] /\ acceptors' \in [Sockets -> Nat]
    BY <1>3, <2>2 DEF TypeOK
  <2> QED
    BY <2>1, <2>3, <2>4
<1>8. TypeOK'
  <2>1. CASE l \notin listeners
    BY <1>1, <1>2, <1>4, <2>1 DEF TypeOK, CoreTypeOK
  <2>2. CASE l \in listeners
    <3>1. streams' \subseteq Sockets
      BY <1>6, <2>2 DEF TypeOK
    <3>2. accepted' \in [Sockets -> Seq(Sockets)] /\ acceptErr' \in [Sockets -> BOOLEAN]
      <4>1. accepted[l] # <<>> => Tail(accepted[l]) \in Seq(Sockets)
        BY <2>2, ListenerLemma
      <4>2. CASE accepted[l] = <<>>
        BY <1>2, <2>2, <4>2 DEF TypeOK
      <4>3. CASE accepted[l] # <<>>
        <5>1. accepted' = [accepted EXCEPT ![l] = Tail(accepted[l])] /\ acceptErr' = acceptErr
          BY <1>2, <2>2, <4>3
        <5> QED
          BY <4>1, <4>3, <5>1 DEF TypeOK
      <4> QED
        BY <4>2, <4>3
    <3> QED
      BY <1>1, <1>4, <1>7, <2>2, <3>1, <3>2 DEF TypeOK, CoreTypeOK
  <2> QED
    BY <2>1, <2>2
<1>9. TablesAgree'
  BY <1>1, <1>3, <1>4 DEF TablesAgree
<1>10. \A m \in listeners : backlog(m)' = IF m = l THEN {} ELSE backlog(m)
  <2>1. \A m \in listeners : m \in Sockets
    BY ListenerLemma
  <2> QED
    BY <1>5, <1>6, <2>1 DEF backlog
<1>11. ResultIsOwn' /\ ContextIsCancelled' /\ \A o \in Ops, x \in Sockets : madeFor(o, x)' <=> madeFor(o, x)
  BY <1>1, <1>4, <1>10, CreatesStay
<1>12. Held'
  <2> SUFFICES ASSUME NEW x \in Sockets
               PROVE  heldOnce(x)'
    BY DEF Held
  <2>1. heldOnce(x) /\ socket'[x] = socket[x] /\ closing'[x] = closing[x]
    BY <1>1 DEF Held
  <2>2. \A m \in Sockets : inBacklog(m, x)' <=> (m # l /\ inBacklog(m, x))
    <3> SUFFICES ASSUME NEW m \in Sockets
                 PROVE  inBacklog(m, x)' <=> (m # l /\ inBacklog(m, x))
      OBVIOUS
    <3> QED
      BY <1>1, <1>10 DEF inBacklog
  <2>3. CASE inBacklog(l, x)
    <3>1. l \in listeners /\ accepted[l] # <<>> /\ x \in streams'
      BY <1>6, <2>3 DEF inBacklog
    <3>2. \A m \in Sockets : ~inBacklog(m, x)'
      BY <1>3, <2>2, <2>3, OneListener
    <3>3. /\ ~inTable(x) /\ closing[x] = "none" /\ socket[x] = "open"
          /\ \A o \in Ops : ~madeFor(o, x)
      BY <1>3, <2>1, <2>3 DEF heldOnce
    <3> QED
      BY <1>1, <1>11, <2>1, <3>1, <3>2, <3>3 DEF heldOnce, inTable
  <2>4. CASE ~inBacklog(l, x)
    <3>1. \A m \in Sockets : inBacklog(m, x)' <=> inBacklog(m, x)
      BY <2>2, <2>4
    <3>2. x \in streams' <=> x \in streams
      BY <1>2, <1>6, <2>4 DEF inBacklog
    <3> QED
      BY <1>1, <1>11, <2>1, <3>1, <3>2 DEF heldOnce, inTable
  <2> QED
    BY <2>3, <2>4
<1>13. NewSocketsAreFresh'
  <2>1. ASSUME NEW x \in Sockets, socket'[x] = "unborn" \/ \E o \in Ops : madeFor(o, x)'
        PROVE  fresh(x)'
    <3>1. fresh(x)
      BY <1>1, <1>11, <2>1, FreshLemma
    <3>2. x # l
      BY <1>1, <3>1 DEF fresh
    <3> QED
      BY <1>4, <1>5, <3>1, <3>2 DEF fresh
  <2> QED
    BY <1>8, <1>11, <2>1, FreshNext
<1>14. OneAhead'
  <2>1. ASSUME NEW m \in listeners
        PROVE  /\ acceptors'[m] = IF acceptRunning'[m] THEN 1 ELSE 0
               /\ acceptors'[m] + Len(accepted'[m]) + (IF acceptErr'[m] THEN 1 ELSE 0) <= 1
    <3>1. CASE m = l
      <4>1. /\ acceptors'[l] = IF acceptRunning'[l] THEN 1 ELSE 0
            /\ acceptErr'[l] = FALSE /\ Len(accepted'[l]) = 0
        BY <1>6, <1>7, <3>1
      <4>2. acceptors'[l] \in {0, 1}
        BY <1>7, <3>1
      <4> QED
        BY <3>1, <4>1, <4>2
    <3>2. CASE m # l
      <4>1. m \in Sockets \ {l}
        BY <3>2, ListenerLemma
      <4> QED
        BY <1>5, <4>1 DEF AcceptIsServed, OneAhead
    <3> QED
      BY <3>1, <3>2
  <2> QED
    BY <1>1, <2>1 DEF OneAhead
<1>15. NoStuckAccept'
  <2> SUFFICES ASSUME NEW o \in Ops, accepts'[o] # Nil, accepts'[o].handle \in listeners,
                      accepted'[accepts'[o].handle] = <<>>, ~acceptErr'[accepts'[o].handle]
               PROVE  acceptRunning'[accepts'[o].handle]
    BY <1>1 DEF NoStuckAccept
  <2>1. CASE accepts'[o].handle = l
    <3>1. hasAcceptWaiterLocked(l)
      BY <2>1 DEF hasAcceptWaiterLocked
    <3> QED
      BY <1>7, <2>1, <3>1
  <2>2. CASE accepts'[o].handle # l
    <3>1. o # op
      BY <1>4
    <3>2. accepts'[o] = accepts[o] /\ accepts[o].handle \in Sockets \ {l}
      BY <1>4, <2>2, <3>1, ListenerLemma
    <3> QED
      BY <1>5, <3>2 DEF AcceptIsServed, NoStuckAccept
  <2> QED
    BY <2>1, <2>2
<1>16. CloseIsFinal'
  BY <1>1, <1>3 DEF CloseIsFinal
<1>17. NoLostWakeup'
  <2> SUFFICES ASSUME NEW o \in parked',
                      \/ TakeCreateReady(o)'
                      \/ TakeTCPAcceptReady(o)' /\ accepts'[o].handle \in listeners'
               PROVE  completion \/ signalDue
    BY <1>1 DEF NoLostWakeup
  <2>1. o \in parked /\ o \in Ops /\ o # op
    BY <1>1 DEF TypeOK, CoreTypeOK
  <2>2. CASE TakeCreateReady(o)'
    BY <1>1, <1>4, <2>1, <2>2 DEF AcceptIsServed, NoLostWakeup, TakeCreateReady
  <2>3. CASE TakeTCPAcceptReady(o)' /\ accepts'[o].handle \in listeners'
    <3>1. /\ accepts[o] # Nil /\ operations[o] = "accept" /\ accepts'[o] = accepts[o]
          /\ accepts[o].handle \in listeners
          /\ accepted'[accepts[o].handle] # <<>> \/ acceptErr'[accepts[o].handle]
      BY <1>1, <1>4, <2>1, <2>3 DEF TakeTCPAcceptReady
    <3>2. accepts[o].handle \in Sockets \ {l}
      BY <1>6, <3>1, ListenerLemma
    <3> QED
      BY <1>5, <2>1, <3>1, <3>2 DEF AcceptIsServed, NoLostWakeup, TakeTCPAcceptReady
  <2> QED
    BY <2>2, <2>3
<1> QED
  BY <1>8, <1>9, <1>11, <1>12, <1>13, <1>14, <1>15, <1>16, <1>17 DEF AcceptIsServed

\* A socket is given to somebody who closes it, and its table lets go of it: the
\* listener's backlog goes with the listener.
LEMMA CloseHandleStep ==
  ASSUME Inv, NEW h \in Sockets, CloseHandle(h)
  PROVE  Inv'
<1> USE DEF Inv, Consistent, createVars, acceptVars, coreVars
<1>1. /\ h \in streams \cup datagrams \cup listeners
      /\ streams' = streams \ {h} /\ datagrams' = datagrams \ {h} /\ listeners' = listeners \ {h}
      /\ UNCHANGED <<closed, closeDone, operations, completion, signalDue, parked, createVars,
                     acceptVars, socket, maker>>
  BY DEF CloseHandle
<1>2. inTable(h) /\ heldOnce(h) /\ ~closeDone
  <2>1. inTable(h) /\ heldOnce(h)
    BY <1>1 DEF inTable, Held
  <2>2. closed => ~inTable(h)
    BY DEF TablesAgree, inTable
  <2> QED
    BY <2>1, <2>2 DEF TablesAgree
<1>3. PICK who \in Closers :
        closing' = [x \in Sockets |-> IF x = h \/ inBacklog(h, x) THEN who ELSE closing[x]]
  <2>1. CASE h \in datagrams
    <3>1. \A x \in Sockets : x \in {h} <=> x = h \/ inBacklog(h, x)
      BY <1>2, <2>1 DEF heldOnce, inBacklog
    <3>2. closing' = [x \in Sockets |-> IF x \in {h} THEN "worker" ELSE closing[x]]
      BY <2>1 DEF CloseHandle, closeLater
    <3>3. closing' = [x \in Sockets |-> IF x = h \/ inBacklog(h, x) THEN "worker" ELSE closing[x]]
      BY <3>1, <3>2
    <3> QED
      BY <3>3 DEF Closers
  <2>2. CASE h \notin datagrams
    <3> DEFINE xs == {h} \cup IF h \in listeners THEN backlog(h) ELSE {}
    <3>1. \A x \in Sockets : x \in xs <=> x = h \/ inBacklog(h, x)
      BY DEF inBacklog
    <3>2. closing' = [x \in Sockets |-> IF x \in xs THEN "guest" ELSE closing[x]]
      BY <2>2 DEF CloseHandle, closeLater
    <3> HIDE DEF xs
    <3>3. closing' = [x \in Sockets |-> IF x = h \/ inBacklog(h, x) THEN "guest" ELSE closing[x]]
      BY <3>1, <3>2
    <3> QED
      BY <3>3 DEF Closers
  <2> QED
    BY <2>1, <2>2
<1>4. TypeOK'
  BY <1>1, <1>3 DEF TypeOK, CoreTypeOK
<1>5. TablesAgree' /\ ResultIsOwn' /\ ContextIsCancelled' /\ CloseIsFinal'
  BY <1>1, <1>2 DEF TablesAgree, ResultIsOwn, ContextIsCancelled, isRegistered, CloseIsFinal
<1>6. \A o \in Ops, x \in Sockets : madeFor(o, x)' <=> madeFor(o, x)
  BY <1>1 DEF madeFor
<1>7. NewSocketsAreFresh'
  BY <1>1, <1>4, <1>5, <1>6, FreshLemma, FreshNext DEF fresh
<1>8. OneAhead' /\ NoStuckAccept' /\ NoLostWakeup'
  BY <1>1 DEF AcceptIsServed, OneAhead, NoStuckAccept, NoLostWakeup, TakeCreateReady,
              TakeTCPAcceptReady
<1>9. Held'
  <2> SUFFICES ASSUME NEW x \in Sockets
               PROVE  heldOnce(x)'
    BY DEF Held
  <2>1. heldOnce(x) /\ socket'[x] = socket[x]
    BY <1>1 DEF Held
  <2>2. \A m \in Sockets : inBacklog(m, x)' <=> (m # h /\ inBacklog(m, x))
    BY <1>1 DEF inBacklog, backlog
  <2>3. CASE x = h
    <3>1. /\ ~inTable(x)' /\ closing'[x] = who /\ socket'[x] = "open"
          /\ \A o \in Ops : ~madeFor(o, x)'
          /\ \A m \in Sockets : ~inBacklog(m, x)'
      BY <1>1, <1>2, <1>3, <1>6, <2>2, <2>3 DEF heldOnce, inTable
    <3>2. who # "none"
      BY DEF Closers
    <3> QED
      BY <3>1, <3>2 DEF heldOnce, inTable
  <2>4. CASE x # h /\ inBacklog(h, x)
    <3>1. \A m \in Sockets : ~inBacklog(m, x)'
      BY <2>2, <2>4, OneListener
    <3>2. /\ ~inTable(x)' /\ closing'[x] = who /\ socket'[x] = "open"
          /\ \A o \in Ops : ~madeFor(o, x)'
      BY <1>1, <1>3, <1>6, <2>1, <2>4 DEF heldOnce, inTable
    <3>3. who # "none"
      BY DEF Closers
    <3> QED
      BY <3>1, <3>2, <3>3 DEF heldOnce, inTable
  <2>5. CASE x # h /\ ~inBacklog(h, x)
    <3>1. \A m \in Sockets : inBacklog(m, x)' <=> inBacklog(m, x)
      BY <2>2, <2>5
    <3>2. /\ closing'[x] = closing[x]
          /\ x \in streams' <=> x \in streams
          /\ x \in datagrams' <=> x \in datagrams
          /\ x \in listeners' <=> x \in listeners
      BY <1>1, <1>3, <2>5
    <3> QED
      BY <1>6, <2>1, <3>1, <3>2 DEF heldOnce, inTable
  <2> QED
    BY <2>3, <2>4, <2>5
<1> QED
  BY <1>4, <1>5, <1>7, <1>8, <1>9 DEF AcceptIsServed

\* The socket is closed by the one that had it to close.
LEMMA CloseSocketStep ==
  ASSUME Inv, NEW y \in Sockets, CloseSocket(y)
  PROVE  Inv'
<1> USE DEF Inv, Consistent, createVars, acceptVars, coreVars, tables
<1>1. /\ closing[y] # "none" /\ closing' = [closing EXCEPT ![y] = "none"]
      /\ socket' = [socket EXCEPT ![y] = "closed"]
      /\ UNCHANGED <<closed, closeDone, operations, completion, signalDue, parked, createVars,
                     acceptVars, tables, maker>>
  BY DEF CloseSocket
<1>2. /\ closing'[y] = "none" /\ socket'[y] = "closed"
      /\ \A x \in Sockets \ {y} : closing'[x] = closing[x] /\ socket'[x] = socket[x]
  BY <1>1 DEF TypeOK
<1>3. TypeOK'
  BY <1>1 DEF TypeOK, CoreTypeOK
<1>4. TablesAgree' /\ ResultIsOwn' /\ ContextIsCancelled'
  BY <1>1 DEF TablesAgree, ResultIsOwn, ContextIsCancelled, isRegistered
<1>5. CloseIsFinal'
  BY <1>1, <1>2 DEF CloseIsFinal
<1>6. \A o \in Ops, x \in Sockets : madeFor(o, x)' <=> madeFor(o, x)
  BY <1>1 DEF madeFor
<1>7. NewSocketsAreFresh'
  <2>1. \A x \in Sockets : socket'[x] = "unborn" => socket[x] = "unborn"
    BY <1>2
  <2> QED
    BY <1>1, <1>3, <1>4, <1>6, <2>1, FreshLemma, FreshNext DEF fresh
<1>8. OneAhead' /\ NoStuckAccept' /\ NoLostWakeup'
  BY <1>1 DEF AcceptIsServed, OneAhead, NoStuckAccept, NoLostWakeup, TakeCreateReady,
              TakeTCPAcceptReady
<1>9. Held'
  <2> SUFFICES ASSUME NEW x \in Sockets
               PROVE  heldOnce(x)'
    BY DEF Held
  <2>1. /\ heldOnce(x) /\ (inTable(x)' <=> inTable(x))
        /\ \A m \in Sockets : inBacklog(m, x)' <=> inBacklog(m, x)
    BY <1>1 DEF Held, inTable, inBacklog, backlog
  <2>2. CASE x = y
    BY <1>1, <1>2, <1>6, <2>1, <2>2 DEF heldOnce, inTable
  <2>3. CASE x # y
    BY <1>1, <1>2, <1>6, <2>1, <2>3 DEF heldOnce
  <2> QED
    BY <2>2, <2>3
<1> QED
  BY <1>3, <1>4, <1>5, <1>7, <1>8, <1>9 DEF AcceptIsServed

\* Close takes everything out of the tables, and closes it.
LEMMA CloseStep ==
  ASSUME Inv, Close
  PROVE  Inv'
<1> USE DEF Inv, Consistent
<1>1. /\ closed' = TRUE /\ contexts' = {} /\ streams' = {} /\ datagrams' = {} /\ listeners' = {}
      /\ operations' = [op \in Ops |-> "none"] /\ creates' = [op \in Ops |-> Nil]
      /\ create' = [c \in Creates |-> Nil] /\ accepts' = [op \in Ops |-> Nil]
      /\ UNCHANGED <<closeDone, completion, signalDue, parked, made, creating, cancelDue, accepted,
                     acceptRunning, acceptErr, acceptors, socket, maker>>
      /\ ~closed
  BY DEF Close
<1>2. /\ closing' \in [Sockets -> Closers \cup {"none"}]
      /\ \A x \in Sockets : closing'[x] # "none" <=> socket[x] = "open"
  <2> DEFINE xs == UNION {streams, datagrams, listeners, waiting,
                          UNION {backlog(l) : l \in listeners}}
  <2>1. closing' = [x \in Sockets |-> IF x \in xs THEN "reactor" ELSE closing[x]]
    BY DEF Close, closeLater
  <2>2. ASSUME NEW x \in Sockets
        PROVE  socket[x] = "open" <=> x \in xs \/ closing[x] # "none"
    <3>1. x \in waiting <=> \E op \in Ops : madeFor(op, x)
      BY NilSocketAssumption DEF waiting, madeFor
    <3>2. x \in UNION {backlog(l) : l \in listeners} <=> \E l \in Sockets : inBacklog(l, x)
      BY DEF inBacklog, TypeOK
    <3>3. x \in xs <=> inTable(x) \/ x \in waiting \/ x \in UNION {backlog(l) : l \in listeners}
      BY DEF inTable
    <3>4. heldOnce(x)
      BY DEF Held
    <3> QED
      BY <3>1, <3>2, <3>3, <3>4 DEF heldOnce
  <2> HIDE DEF xs
  <2>3. \A x \in Sockets : closing'[x] = IF x \in xs THEN "reactor" ELSE closing[x]
    BY <2>1
  <2> QED
    BY <2>1, <2>2, <2>3 DEF TypeOK, Closers
<1>3. TypeOK'
  BY <1>1, <1>2 DEF TypeOK, CoreTypeOK
<1>4. TablesAgree' /\ ResultIsOwn' /\ ContextIsCancelled'
  BY <1>1 DEF TablesAgree, ResultIsOwn, ContextIsCancelled
<1>5. CloseIsFinal'
  BY <1>1 DEF CloseIsFinal, TablesAgree
<1>6. \A o \in Ops, x \in Sockets : ~madeFor(o, x)'
  BY <1>1 DEF madeFor
<1>7. NewSocketsAreFresh'
  BY <1>1, <1>3, <1>4, <1>6, FreshLemma, FreshNext DEF fresh
<1>8. OneAhead' /\ NoStuckAccept'
  BY <1>1 DEF OneAhead, NoStuckAccept
<1>9. NoLostWakeup'
  <2>1. \A o \in Ops : ~TakeCreateReady(o)' /\ ~TakeTCPAcceptReady(o)'
    BY <1>1 DEF TakeCreateReady, TakeTCPAcceptReady
  <2> QED
    BY <1>3, <2>1 DEF NoLostWakeup, TypeOK, CoreTypeOK
<1>10. Held'
  <2>1. \A x \in Sockets : ~inTable(x)' /\ \A m \in Sockets : ~inBacklog(m, x)'
    BY <1>1 DEF inTable, inBacklog
  <2> QED
    BY <1>1, <1>2, <1>6, <2>1 DEF Held, heldOnce
<1> QED
  BY <1>3, <1>4, <1>5, <1>7, <1>8, <1>9, <1>10 DEF AcceptIsServed

\* Close returns once its own sockets are closed and the goroutines have ended.
LEMMA CloseReturnsStep ==
  ASSUME Inv, CloseReturns
  PROVE  Inv'
<1> USE DEF Inv, Consistent, createVars, acceptVars, tables, socketVars
<1>1. /\ closed /\ closeDone' = TRUE /\ creating = {}
      /\ \A x \in Sockets : closing[x] \notin {"reactor", "worker"} /\ acceptors[x] = 0
      /\ UNCHANGED <<closed, operations, completion, signalDue, parked, createVars, acceptVars, tables,
                     socketVars>>
  BY DEF CloseReturns
<1>2. TypeOK'
  BY <1>1 DEF TypeOK, CoreTypeOK
<1>3. TablesAgree' /\ ResultIsOwn' /\ ContextIsCancelled'
  BY <1>1 DEF TablesAgree, ResultIsOwn, ContextIsCancelled, isRegistered
<1>4. CloseIsFinal'
  <2>1. ASSUME NEW x \in Sockets, socket[x] = "open"
        PROVE  closing[x] = "guest"
    <3>1. \A op \in Ops : creates[op] = Nil
      BY <1>1 DEF TablesAgree
    <3>2. ~inTable(x) /\ (\A op \in Ops : ~madeFor(op, x)) /\ \A l \in Sockets : ~inBacklog(l, x)
      BY <1>1, <3>1 DEF TablesAgree, inTable, madeFor, inBacklog
    <3>3. closing[x] # "none"
      BY <2>1, <3>2 DEF Held, heldOnce
    <3> QED
      BY <1>1, <3>3 DEF TypeOK, Closers
  <2> QED
    BY <1>1, <2>1 DEF CloseIsFinal
<1>5. NewSocketsAreFresh'
  BY <1>1 DEF NewSocketsAreFresh, unborn, waiting, waitersOf
<1>6. OneAhead' /\ NoStuckAccept' /\ NoLostWakeup'
  BY <1>1 DEF AcceptIsServed, OneAhead, NoStuckAccept, NoLostWakeup, TakeCreateReady,
              TakeTCPAcceptReady
<1>7. Held'
  BY <1>1 DEF Held, heldOnce, inTable, madeFor, inBacklog, backlog
<1> QED
  BY <1>2, <1>3, <1>4, <1>5, <1>6, <1>7 DEF AcceptIsServed

LEMMA NextInv == Inv /\ [Next]_vars => Inv'
<1> SUFFICES ASSUME Inv, [Next]_vars
             PROVE  Inv'
  OBVIOUS
<1>T. /\ completion \in BOOLEAN /\ signalDue \in BOOLEAN /\ parked \subseteq Ops
  BY DEF Inv, Consistent, TypeOK, CoreTypeOK
<1>1. ASSUME NEW op \in CreateOps, StartTCPConnect(op) \/ StartUDPBind(op) \/ StartTCPListen(op)
      PROVE  Inv'
  BY <1>1, BeginCreateStep DEF StartTCPConnect, StartUDPBind, StartTCPListen, CreateKind
<1>2. ASSUME NEW c \in Creates, factoryReturns(c)
      PROVE  Inv'
  BY <1>2, CreateReturnsStep DEF factoryReturns
<1>3. ASSUME NEW op \in Ops, TakeCreate(op)
      PROVE  Inv'
  BY <1>3, TakeCreateStep DEF TakeCreate, TakeTCPConnect, TakeUDPBind, TakeTCPListen, CreateKind
<1>4. ASSUME NEW op \in Ops, TakeCreatePending(op)
      PROVE  Inv'
  <2>1. ~TakeCreateReady(op) /\ ~TakeTCPAcceptReady(op)
    BY <1>4 DEF TakeCreatePending, TakeTCPAcceptReady
  <2> QED
    BY <1>4, <1>T, <2>1, QuietStep DEF TakeCreatePending, createVars
<1>5. ASSUME NEW op \in Ops, CancelCreate(op)
      PROVE  Inv'
  BY <1>5, CancelCreateStep
<1>6. ASSUME NEW c \in Creates, cancelContext(c)
      PROVE  Inv'
  BY <1>6, <1>T, QuietStep DEF cancelContext, coreVars
<1>7. ASSUME NEW l \in Sockets, NEW op \in Ops, StartTCPAccept(l, op)
      PROVE  Inv'
  BY <1>7, StartAcceptStep
<1>8. ASSUME NEW l \in Sockets, acceptReturns(l)
      PROVE  Inv'
  BY <1>8, AcceptReturnsStep DEF acceptReturns
<1>9. ASSUME NEW op \in Ops, TakeTCPAccept(op)
      PROVE  Inv'
  BY <1>9, TakeAcceptStep
<1>10. ASSUME NEW op \in Ops, TakeTCPAcceptPending(op)
       PROVE  Inv'
  <2>1. ~TakeCreateReady(op) /\ ~TakeTCPAcceptReady(op)
    BY <1>10 DEF TakeTCPAcceptPending, TakeCreateReady
  <2> QED
    BY <1>10, <1>T, <2>1, QuietStep DEF TakeTCPAcceptPending, createVars
<1>11. ASSUME NEW op \in Ops, CancelAccept(op)
       PROVE  Inv'
  BY <1>11, CancelAcceptStep
<1>12. ASSUME NEW h \in Sockets, CloseHandle(h)
       PROVE  Inv'
  BY <1>12, CloseHandleStep
<1>13. ASSUME NEW x \in Sockets, CloseSocket(x)
       PROVE  Inv'
  BY <1>13, CloseSocketStep
<1>14. CASE Close
  BY <1>14, CloseStep
<1>15. CASE CloseReturns
  BY <1>15, CloseReturnsStep
<1>16. CASE signal
  BY <1>16, <1>T, QuietStep DEF signal, signalCompletion, createVars
<1>17. CASE notify
  BY <1>17, <1>T, QuietStep DEF notify, NotifyGuest, createVars
<1>18. CASE Terminated \/ UNCHANGED vars
  BY <1>18, <1>T, QuietStep DEF Terminated, vars, coreVars, createVars
<1> QED
  BY <1>1, <1>2, <1>3, <1>4, <1>5, <1>6, <1>7, <1>8, <1>9, <1>10, <1>11, <1>12, <1>13, <1>14,
     <1>15, <1>16, <1>17, <1>18 DEF Next

-----------------------------------------------------------------------------
(* Theorems.                                                               *)

\* The invariant holds in every reachable state, for any number of sockets, ids
\* and creates.
THEOREM Invariance == Spec => []Inv
<1>1. Init => Inv
  BY InitInv
<1>2. Inv /\ [Next]_vars => Inv'
  BY NextInv
<1> QED
  BY <1>1, <1>2, PTL DEF Spec

\* The tables, the contexts and the goroutines of factory.go and listener.go agree,
\* results belong to the operation that asked for them, and nothing is left when
\* Close has returned.
THEOREM Consistency == Spec => []Consistent
<1>1. Inv => Consistent
  BY DEF Inv
<1> QED
  BY <1>1, Invariance, PTL

\* A listener accepts one connection ahead at most, an accept never waits with
\* nobody accepting, and no result waits for a guest nobody wakes.
THEOREM AcceptsAreServed == Spec => []AcceptIsServed
<1>1. Inv => AcceptIsServed
  BY DEF Inv
<1> QED
  BY <1>1, Invariance, PTL

\* The holders of a socket are those the invariant speaks of.
LEMMA HoldersOf ==
  ASSUME Inv, NEW x \in Sockets
  PROVE  \A g : g \in Holders(x) <=>
           \/ g = <<"handle", "stream">> /\ x \in streams
           \/ g = <<"handle", "datagram">> /\ x \in datagrams
           \/ g = <<"handle", "listener">> /\ x \in listeners
           \/ \E op \in Ops : g = <<"create", op>> /\ madeFor(op, x)
           \/ \E l \in Sockets : g = <<"backlog", l>> /\ inBacklog(l, x)
           \/ g = <<"closing", closing[x]>> /\ closing[x] # "none"
<1> TAKE g
<1>1. listeners \subseteq Sockets /\ closing[x] \in Closers \cup {"none"} /\ "none" \notin Closers
  BY DEF Inv, Consistent, TypeOK, Closers
<1> DEFINE A == {<<"handle", t>> : t \in {t \in {"stream", "datagram", "listener"} :
                              x \in CASE t = "stream" -> streams
                                      [] t = "datagram" -> datagrams
                                      [] t = "listener" -> listeners}}
           B == {<<"create", op>> : op \in {op \in Ops : creates[op] # Nil /\ create[creates[op]].resource = x}}
           C == {<<"backlog", l>> : l \in {l \in listeners : x \in ToSet(accepted[l])}}
           D == {<<"closing", w>> : w \in {w \in Closers : closing[x] = w}}
<1>2. g \in A <=> \/ g = <<"handle", "stream">> /\ x \in streams
                  \/ g = <<"handle", "datagram">> /\ x \in datagrams
                  \/ g = <<"handle", "listener">> /\ x \in listeners
  OBVIOUS
<1>3. g \in B <=> \E op \in Ops : g = <<"create", op>> /\ madeFor(op, x)
  BY DEF madeFor
<1>4. g \in C <=> \E l \in Sockets : g = <<"backlog", l>> /\ inBacklog(l, x)
  BY <1>1 DEF inBacklog, backlog
<1>5. g \in D <=> g = <<"closing", closing[x]>> /\ closing[x] # "none"
  BY <1>1
<1>6. Holders(x) = A \cup B \cup C \cup D
  BY DEF Holders
<1> HIDE DEF A, B, C, D
<1> QED
  BY <1>2, <1>3, <1>4, <1>5, <1>6

LEMMA OneHolder == Inv => NoSocketLeak
<1> SUFFICES ASSUME Inv, NEW x \in Sockets
             PROVE  Cardinality(Holders(x)) = IF socket[x] = "open" THEN 1 ELSE 0
  BY DEF NoSocketLeak
<1>1. heldOnce(x)
  BY DEF Inv, Held
<1>2. CASE socket[x] # "open"
  <2>1. Holders(x) = {}
    BY <1>1, <1>2, HoldersOf DEF heldOnce, inTable
  <2> QED
    BY <1>2, <2>1, FS_EmptySet
<1>3. CASE socket[x] = "open"
  <2>1. PICK g : g \in Holders(x)
    BY <1>1, <1>3, HoldersOf DEF heldOnce, inTable
  <2>2. ASSUME NEW f \in Holders(x)
        PROVE  f = g
    <3>1. CASE closing[x] # "none"
      BY <1>1, <2>1, <3>1, HoldersOf DEF heldOnce, inTable
    <3>2. CASE \E op \in Ops : madeFor(op, x)
      BY <1>1, <2>1, <3>2, HoldersOf, OneCreate DEF heldOnce, inTable
    <3>3. CASE \E l \in Sockets : inBacklog(l, x)
      BY <1>1, <2>1, <3>3, HoldersOf, OneListener DEF heldOnce, inTable
    <3>4. CASE inTable(x)
      BY <1>1, <2>1, <3>4, HoldersOf DEF heldOnce, inTable
    <3> QED
      BY <1>1, <1>3, <3>1, <3>2, <3>3, <3>4 DEF heldOnce
  <2>3. Holders(x) = {g}
    BY <2>1, <2>2
  <2> QED
    BY <1>3, <2>3, FS_Singleton
<1> QED
  BY <1>2, <1>3

\* No interleaving of cancelling, closing and a late factory or Accept leaks a
\* socket, hands it out twice, or closes one the guest has a handle for.
THEOREM SocketsAreHeldOnce == Spec => []NoSocketLeak
BY OneHolder, Invariance, PTL

-----------------------------------------------------------------------------
(* The refinement.                                                         *)

\* What the guest would be given for an id.
replyTo(op) ==
  LET w == create[creates[op]]
  IN  IF creates[op] # Nil /\ w.done
      THEN [to       |-> IF w.resource = Nil THEN creates[op] ELSE maker[w.resource],
            err      |-> w.err,
            resource |-> w.resource]
      ELSE Nil

LEMMA AbstractInit == Init => Abstract!Init
BY DEF Init, CoreInit, Abstract!Init

\* A step that leaves the creates alone shows the guest nothing new, even if a
\* socket is born in it.
LEMMA UnseenStep ==
  ASSUME Inv, UNCHANGED <<closed, creates>>,
         \A op \in Ops : creates[op] # Nil => create'[creates[op]] = create[creates[op]],
         \A x \in Sockets : socket[x] = "open" => maker'[x] = maker[x]
  PROVE  UNCHANGED Abstract!vars
<1>1. ASSUME NEW op \in Ops
      PROVE  replyTo(op)' = replyTo(op)
  <2>1. CASE creates[op] = Nil
    BY <2>1 DEF replyTo
  <2>2. CASE creates[op] # Nil
    <3>1. create'[creates[op]] = create[creates[op]] /\ creates'[op] = creates[op]
      BY <2>2
    <3>2. create[creates[op]].resource \in Sockets \cup {Nil}
      BY <2>2, CreateLemma DEF Inv, Consistent
    <3>3. create[creates[op]].resource # Nil =>
            maker'[create[creates[op]].resource] = maker[create[creates[op]].resource]
      <4> SUFFICES ASSUME create[creates[op]].resource # Nil
                   PROVE  maker'[create[creates[op]].resource] = maker[create[creates[op]].resource]
        OBVIOUS
      <4>1. PICK x \in Sockets : x = create[creates[op]].resource
        BY <3>2
      <4>2. madeFor(op, x) /\ heldOnce(x)
        BY <2>2, <4>1 DEF madeFor, Inv, Held
      <4> QED
        BY <4>1, <4>2 DEF heldOnce
    <3> QED
      BY <3>1, <3>3 DEF replyTo
  <2> QED
    BY <2>1, <2>2
<1> QED
  BY <1>1 DEF Abstract!vars, replyTo

LEMMA BeginRefines ==
  ASSUME Inv, NEW op \in CreateOps, NEW kind \in CreateKind, beginCreate(op, kind)
  PROVE  Abstract!Next
<1> PICK c : c = <<op, made'[op]>>
  OBVIOUS
<1> DEFINE w == [kind |-> kind, done |-> FALSE, err |-> FALSE, resource |-> Nil]
<1>1. /\ made[op] < MaxCreates /\ made' = [made EXCEPT ![op] = @ + 1] /\ ~closed
      /\ operations[op] = "none" /\ creates' = [creates EXCEPT ![op] = c]
      /\ create' = [create EXCEPT ![c] = w] /\ UNCHANGED <<closed, maker>>
  BY DEF beginCreate, claimOperationLocked, socketVars
<1>2. op \in Ops /\ creates[op] = Nil /\ c \in Creates /\ c[1] = op
  <2>1. op \in Ops /\ creates[op] = Nil /\ made'[op] \in 1..MaxCreates
    BY <1>1, CreateOpsAssumption, MaxCreatesAssumption DEF Inv, Consistent, TypeOK, TablesAgree
  <2> QED
    BY <2>1 DEF Creates
<1>3. ~w.done
  OBVIOUS
<1> HIDE DEF w
<1>4. creates'[op] = c /\ create'[c] = w
  BY <1>1, <1>2 DEF Inv, Consistent, TypeOK
<1>5. ASSUME NEW o \in Ops
      PROVE  replyTo(o)' = replyTo(o)
  <2>1. CASE o = op
    BY <1>2, <1>3, <1>4, <2>1 DEF replyTo
  <2>2. CASE o # op
    <3>1. creates'[o] = creates[o]
      BY <1>1, <2>2 DEF Inv, Consistent, TypeOK
    <3>2. creates[o] # Nil => creates[o] # c /\ create'[creates[o]] = create[creates[o]]
      BY <1>1, <1>2, <2>2, CreateLemma DEF Inv, Consistent, TypeOK
    <3> QED
      BY <1>1, <3>1, <3>2 DEF replyTo
  <2> QED
    BY <2>1, <2>2
<1>6. Abstract!Start(op, c)
  BY <1>1, <1>2, <1>5 DEF Abstract!Start, replyTo
<1> QED
  BY <1>2, <1>6 DEF Abstract!Next

LEMMA ReturnsRefines ==
  ASSUME Inv, NEW c \in Creates, NEW x \in unborn \cup {Nil}, NEW err \in BOOLEAN,
         createReturns(c, x, err)
  PROVE  Abstract!Next \/ UNCHANGED Abstract!vars
<1> USE DEF Inv, Consistent
<1>1. c \in creating /\ UNCHANGED <<closed, creates>> /\ c[1] \in Ops /\ c # Nil
  BY AddressLemma DEF createReturns
<1>2. /\ \A y \in Sockets : maker'[y] = IF y = x THEN c ELSE maker[y]
      /\ \A y \in Sockets : socket[y] = "open" => y # x
      /\ x \in Sockets \cup {Nil}
  BY NilSocketAssumption DEF createReturns, born, unborn
<1>3. CASE ~isRegistered(c)
  <2>1. create' = create
    BY <1>3 DEF createReturns
  <2> QED
    BY <1>1, <1>2, <2>1, UnseenStep
<1>4. CASE isRegistered(c)
  <2> PICK op \in Ops : op = c[1]
    BY <1>1
  <2> DEFINE w == [create[c] EXCEPT !.done = TRUE, !.err = err, !.resource = x]
             a == [to |-> c, err |-> err, resource |-> x]
  <2>1. creates[op] = c /\ create' = [create EXCEPT ![c] = w]
    BY <1>4 DEF createReturns, isRegistered
  <2>2. create[c] \in CreateOperations /\ ~create[c].done
    BY <1>1, <2>1, CreateLemma DEF ResultIsOwn
  <2>3. w.done = TRUE /\ w.err = err /\ w.resource = x
    BY <2>2 DEF CreateOperations
  <2> HIDE DEF w
  <2>4. create'[c] = w /\ \A b \in Creates \ {c} : create'[b] = create[b]
    BY <2>1 DEF TypeOK
  <2>5. replyTo(op) = Nil
    BY <2>1, <2>2 DEF replyTo
  <2>6. replyTo(op)' = a
    <3>1. (IF x = Nil THEN c ELSE maker'[x]) = c
      BY <1>2
    <3> QED
      BY <1>1, <2>1, <2>3, <2>4, <3>1 DEF replyTo
  <2>7. ASSUME NEW o \in Ops, o # op
        PROVE  replyTo(o)' = replyTo(o)
    <3>1. CASE creates[o] = Nil
      BY <1>1, <3>1 DEF replyTo
    <3>2. CASE creates[o] # Nil
      <4>1. creates[o] \in Creates \ {c} /\ create[creates[o]].resource \in Sockets \cup {Nil}
        BY <1>1, <2>1, <2>7, <3>2, OwnCreates, CreateLemma
      <4>2. create'[creates[o]] = create[creates[o]]
        BY <2>4, <4>1
      <4>3. create[creates[o]].resource # Nil =>
              maker'[create[creates[o]].resource] = maker[create[creates[o]].resource]
        <5> SUFFICES ASSUME NEW y \in Sockets, y = create[creates[o]].resource
                     PROVE  maker'[y] = maker[y]
          BY <4>1
        <5>1. socket[y] = "open"
          BY <3>2 DEF madeFor, Held, heldOnce
        <5> QED
          BY <1>2, <5>1
      <4> QED
        BY <1>1, <4>2, <4>3 DEF replyTo
    <3> QED
      BY <3>1, <3>2
  <2>8. a \in outcomesOf(creates[op])
    BY <1>2, <2>1 DEF outcomesOf
  <2> HIDE DEF a
  <2>9. [o \in Ops |-> replyTo(o)'] = [[o \in Ops |-> replyTo(o)] EXCEPT ![op] = a]
    BY <2>6, <2>7
  <2>10. Abstract!Answer(op, a)
    BY <1>1, <2>1, <2>5, <2>8, <2>9 DEF Abstract!Answer, replyTo
  <2> QED
    BY <1>1, <2>1, <2>8, <2>10 DEF Abstract!Next
<1> QED
  BY <1>3, <1>4

\* Whoever gives up a create releases its id.
LEMMA GiveUpRefines ==
  ASSUME Inv, NEW op \in Ops, creates[op] # Nil,
         create' = [create EXCEPT ![creates[op]] = Nil],
         creates' = [creates EXCEPT ![op] = Nil],
         UNCHANGED <<closed, maker>>
  PROVE  Abstract!Next
<1> USE DEF Inv, Consistent
<1>1. creates'[op] = Nil /\ replyTo(op)' = Nil
  BY DEF TypeOK, replyTo
<1>2. ASSUME NEW o \in Ops, o # op
      PROVE  replyTo(o)' = replyTo(o)
  <2>1. creates'[o] = creates[o]
    BY <1>2 DEF TypeOK
  <2>2. creates[o] # Nil => create'[creates[o]] = create[creates[o]]
    BY <1>2, OwnCreates, CreateLemma DEF TypeOK
  <2> QED
    BY <2>1, <2>2 DEF replyTo
<1>3. [o \in Ops |-> replyTo(o)'] = [[o \in Ops |-> replyTo(o)] EXCEPT ![op] = Nil]
  BY <1>1, <1>2
<1>4. Abstract!Release(op)
  BY <1>3 DEF Abstract!Release, replyTo
<1> QED
  BY <1>4 DEF Abstract!Next

\* Every step is a step of HostOperations or changes nothing the guest can see.
LEMMA StepRefines == Inv /\ [Next]_vars => [Abstract!Next]_(Abstract!vars)
<1> SUFFICES ASSUME Inv, [Next]_vars
             PROVE  Abstract!Next \/ UNCHANGED Abstract!vars
  OBVIOUS
<1>1. ASSUME NEW op \in CreateOps, StartTCPConnect(op) \/ StartUDPBind(op) \/ StartTCPListen(op)
      PROVE  Abstract!Next
  BY <1>1, BeginRefines DEF StartTCPConnect, StartUDPBind, StartTCPListen, CreateKind
<1>2. ASSUME NEW c \in Creates, factoryReturns(c)
      PROVE  Abstract!Next \/ UNCHANGED Abstract!vars
  BY <1>2, ReturnsRefines DEF factoryReturns
<1>3. ASSUME NEW op \in Ops, TakeCreate(op)
      PROVE  Abstract!Next
  BY <1>3, GiveUpRefines
     DEF TakeCreate, TakeTCPConnect, TakeUDPBind, TakeTCPListen, takeCreate, TakeCreateReady
<1>4. ASSUME NEW op \in Ops, CancelCreate(op)
      PROVE  Abstract!Next
  <2>1. creates[op] # Nil
    BY <1>4 DEF CancelCreate, Inv, Consistent, TablesAgree
  <2> QED
    BY <1>4, <2>1, GiveUpRefines DEF CancelCreate
<1>5. ASSUME NEW l \in Sockets, acceptReturns(l)
      PROVE  UNCHANGED Abstract!vars
  <2>1. PICK x \in unborn \cup {Nil} : runTCPAccept(l, x)
    BY <1>5 DEF acceptReturns
  <2>2. UNCHANGED <<closed, creates, create>>
    BY <2>1 DEF runTCPAccept, createVars
  <2>3. \A y \in Sockets : socket[y] = "open" => maker'[y] = maker[y]
    BY <2>1, NilSocketAssumption DEF runTCPAccept, born, unborn
  <2> QED
    BY <2>2, <2>3, UnseenStep
<1>6. CASE Close
  <2>1. Abstract!Close
    BY <1>6 DEF Close, Abstract!Close
  <2> QED
    BY <2>1 DEF Abstract!Next
<1>7. ASSUME UNCHANGED <<closed, creates, create, maker>>
      PROVE  UNCHANGED Abstract!vars
  BY <1>7, UnseenStep
<1>8. ASSUME NEW op \in Ops,
             \/ TakeCreatePending(op) \/ TakeTCPAccept(op) \/ TakeTCPAcceptPending(op)
             \/ CancelAccept(op) \/ \E l \in Sockets : StartTCPAccept(l, op)
      PROVE  UNCHANGED Abstract!vars
  BY <1>7, <1>8 DEF TakeCreatePending, TakeTCPAccept, TakeTCPAcceptPending, CancelAccept,
                    StartTCPAccept, createVars, socketVars
<1>9. ASSUME NEW c \in Creates, cancelContext(c)
      PROVE  UNCHANGED Abstract!vars
  BY <1>7, <1>9 DEF cancelContext, coreVars, socketVars
<1>10. ASSUME NEW x \in Sockets, CloseHandle(x) \/ CloseSocket(x)
       PROVE  UNCHANGED Abstract!vars
  BY <1>7, <1>10 DEF CloseHandle, CloseSocket, coreVars, createVars
<1>11. CASE CloseReturns \/ signal \/ notify \/ Terminated \/ UNCHANGED vars
  BY <1>7, <1>11 DEF CloseReturns, signal, signalCompletion, notify, NotifyGuest, Terminated, vars,
                     coreVars, createVars, socketVars
<1> QED
  BY <1>1, <1>2, <1>3, <1>4, <1>5, <1>6, <1>8, <1>9, <1>10, <1>11 DEF Next

\* Creating sockets implements HostOperations: a create gets one outcome, made by
\* this very createOperation even when its id was used before, and keeps it until
\* the guest takes or cancels it.
THEOREM Refinement == Spec => KeepsPromise
<1>1. Init => Abstract!Init
  BY AbstractInit
<1>2. Inv /\ [Next]_vars => [Abstract!Next]_(Abstract!vars)
  BY StepRefines
<1> QED
  BY <1>1, <1>2, Invariance, PTL DEF Spec, KeepsPromise, Abstract!Spec

-----------------------------------------------------------------------------

\* A socket that was closed is gone: it is not handed out, stored or closed again.
ClosedForGood ==
  \A x \in Sockets : socket[x] = "closed" => socket'[x] = "closed" /\ Holders(x)' = {}

nobodyHolds == \A x \in Sockets : socket[x] = "closed" => Holders(x) = {}

LEMMA NobodyHolds == Inv => nobodyHolds
BY HoldersOf DEF nobodyHolds, Inv, Held, heldOnce, inTable

LEMMA NextNobodyHolds == Inv' => nobodyHolds'
BY NobodyHolds, PTL

LEMMA StepKeepsClosed == Inv /\ [Next]_vars => ClosedForGood
<1> SUFFICES ASSUME Inv, [Next]_vars, NEW x \in Sockets, socket[x] = "closed"
             PROVE  socket'[x] = "closed" /\ Holders(x)' = {}
  BY DEF ClosedForGood
<1>1. socket'[x] = "closed"
  <2>1. CASE UNCHANGED socket
    BY <2>1
  <2>2. CASE \E y \in Sockets : CloseSocket(y)
    BY <2>2 DEF CloseSocket, Inv, Consistent, TypeOK
  <2>3. CASE \E from : \E y \in unborn \cup {Nil} : born(y, from)
    BY <2>3, NilSocketAssumption DEF born, unborn
  <2>4. \/ UNCHANGED socket
        \/ \E y \in Sockets : CloseSocket(y)
        \/ \E from : \E y \in unborn \cup {Nil} : born(y, from)
    <3>1. ASSUME NEW c \in Creates, factoryReturns(c)
          PROVE  \E from : \E y \in unborn \cup {Nil} : born(y, from)
      BY <3>1 DEF factoryReturns, createReturns
    <3>2. ASSUME NEW l \in Sockets, acceptReturns(l)
          PROVE  \E from : \E y \in unborn \cup {Nil} : born(y, from)
      BY <3>2 DEF acceptReturns, runTCPAccept
    <3>3. \/ UNCHANGED socket \/ (\E y \in Sockets : CloseSocket(y))
          \/ (\E c \in Creates : factoryReturns(c)) \/ (\E l \in Sockets : acceptReturns(l))
      BY DEF Next, StartTCPConnect, StartUDPBind, StartTCPListen, beginCreate, TakeCreate,
             TakeTCPConnect, TakeUDPBind, TakeTCPListen, takeCreate, TakeCreatePending, CancelCreate,
             cancelContext, StartTCPAccept, TakeTCPAccept, TakeTCPAcceptPending, CancelAccept,
             CloseHandle, Close, CloseReturns, signal, notify, Terminated, vars, socketVars
    <3> QED
      BY <3>1, <3>2, <3>3
  <2> QED
    BY <2>1, <2>2, <2>3, <2>4
<1>2. Inv'
  BY NextInv
<1>3. Holders(x)' = {}
  BY <1>1, <1>2, NextNobodyHolds DEF nobodyHolds
<1> QED
  BY <1>1, <1>3

\* In no step does a closed socket come back, whoever still had it in hand.
THEOREM ClosedStaysClosed == Spec => [][ClosedForGood]_vars
<1>1. Inv /\ [Next]_vars => [ClosedForGood]_vars
  BY StepKeepsClosed
<1> QED
  BY <1>1, Invariance, PTL DEF Spec

=============================================================================
