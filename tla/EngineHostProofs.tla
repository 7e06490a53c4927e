--------------------------- MODULE EngineHostProofs ---------------------------
(***************************************************************************)
(* Proofs about EngineHost, for any number of instances and web clients,   *)
(* and about CoreABI, the calls into the guest that EngineHost serialises. *)
(***************************************************************************)
EXTENDS EngineHost, FiniteSetTheorems, TLAPS

\* The inductive part of the invariant.  What is said of the end of the host and of
\* the sinks follows from it.
Agree == TypeOK /\ PlacesAgree /\ SinksAgree /\ OneWebClient /\ ShutdownKnowsUsers

-----------------------------------------------------------------------------
(* The books.                                                              *)

LEMMA InitAgrees == Init => Agree
BY NilAssumption DEF Init, Agree, TypeOK, UserStates, Ends, Users, PlacesAgree, SinksAgree,
                     OneWebClient, ShutdownKnowsUsers, InGuest, usesGuest

\* Nobody is nobody.
LEMMA NilIsNoUser == Nil \notin Users
BY NilAssumption DEF Users

LEMMA TypeStep == TypeOK /\ [Next]_vars => TypeOK'
<1> SUFFICES ASSUME TypeOK, [Next]_vars
             PROVE  TypeOK'
  OBVIOUS
<1> USE DEF TypeOK, Users, UserStates, Ends, lockVars, sinkVars, tokenVars, shutdownVars, goes
<1>1. ASSUME NEW i \in Instances, CreateInstance(i) \/ unregisterSinks(i) \/ closeEvents(i)
      PROVE  TypeOK'
  BY <1>1 DEF CreateInstance, unregisterSinks, closeEvents
<1>2. ASSUME NEW w \in Clients, CreateWebClient(w)
      PROVE  TypeOK'
  BY <1>2 DEF CreateWebClient
<1>3. ASSUME NEW u \in Users, enterCreate(u) \/ created(u) \/ createFails(u)
      PROVE  TypeOK'
  BY <1>3 DEF enterCreate, created, createFails
<1>4. ASSUME NEW u \in Users, takeToken(u) \/ wake(u) \/ drive(u) \/ driveReturns(u) \/ SeesClose(u)
      PROVE  TypeOK'
  BY <1>4 DEF takeToken, wake, drive, driveReturns, SeesClose
<1>5. ASSUME NEW u \in Users, enterDrop(u) \/ dropReturns(u) \/ remove(u) \/ finish(u) \/ CloseUser(u)
      PROVE  TypeOK'
  BY <1>5 DEF enterDrop, dropReturns, remove, finish, CloseUser
<1>6. ASSUME NEW u \in Users, startOperation(u) \/ complete(u)
      PROVE  TypeOK'
  BY <1>6 DEF startOperation, complete
<1>7. CASE receiveToken \/ distribute \/ endBroadcast
  BY <1>7 DEF receiveToken, distribute, endBroadcast
<1>8. ASSUME NEW u \in Users, shutdownCloses(u)
      PROVE  TypeOK'
  BY <1>8 DEF shutdownCloses
<1>9. CASE Close \/ shutdownWaited \/ cancel \/ closeReactor \/ closeModule
  BY <1>9 DEF Close, shutdownWaited, cancel, closeReactor, closeModule
<1>10. CASE Terminated \/ UNCHANGED vars
  BY <1>10 DEF Terminated, vars
<1> HIDE DEF TypeOK, Users
<1> QED
  BY <1>1, <1>2, <1>3, <1>4, <1>5, <1>6, <1>7, <1>8, <1>9, <1>10 DEF Next, Lives

\* The lock of the guest, the table and the guest itself follow every step of a
\* user; other users and what they hold are not touched.
LEMMA PlacesStep == Agree /\ [Next]_vars => PlacesAgree'
<1> SUFFICES ASSUME Agree, [Next]_vars
             PROVE  PlacesAgree'
  OBVIOUS
<1> USE NilIsNoUser DEF PlacesAgree, InGuest, usesGuest, goes, lockVars, sinkVars, tokenVars, shutdownVars
<1>0. TypeOK /\ PlacesAgree /\ SinksAgree
  BY DEF Agree
<1>1. ASSUME NEW i \in Instances, CreateInstance(i) \/ unregisterSinks(i) \/ closeEvents(i)
      PROVE  PlacesAgree'
  BY <1>0, <1>1 DEF CreateInstance, unregisterSinks, closeEvents, TypeOK, Users
<1>2. ASSUME NEW w \in Clients, CreateWebClient(w)
      PROVE  PlacesAgree'
  BY <1>0, <1>2 DEF CreateWebClient, TypeOK, Users
<1>3. ASSUME NEW u \in Users, enterCreate(u)
      PROVE  PlacesAgree'
  BY <1>0, <1>3 DEF enterCreate, TypeOK
<1>4. ASSUME NEW u \in Users, created(u)
      PROVE  PlacesAgree'
  BY <1>0, <1>4 DEF created, TypeOK
<1>5. ASSUME NEW u \in Users, createFails(u)
      PROVE  PlacesAgree'
  BY <1>0, <1>5 DEF createFails, TypeOK
<1>6. ASSUME NEW u \in Users, takeToken(u) \/ wake(u) \/ SeesClose(u)
      PROVE  PlacesAgree'
  BY <1>0, <1>6 DEF takeToken, wake, SeesClose, TypeOK
<1>7. ASSUME NEW u \in Users, drive(u) \/ enterDrop(u)
      PROVE  PlacesAgree'
  BY <1>0, <1>7 DEF drive, enterDrop, TypeOK
<1>8. ASSUME NEW u \in Users, driveReturns(u)
      PROVE  PlacesAgree'
  BY <1>0, <1>8 DEF driveReturns, TypeOK
<1>9. ASSUME NEW u \in Users, dropReturns(u)
      PROVE  PlacesAgree'
  BY <1>0, <1>9 DEF dropReturns, TypeOK
<1>10. ASSUME NEW u \in Users, remove(u)
       PROVE  PlacesAgree'
  BY <1>0, <1>10 DEF remove, TypeOK
<1>11. ASSUME NEW u \in Users, finish(u) \/ CloseUser(u) \/ shutdownCloses(u)
       PROVE  PlacesAgree'
  BY <1>0, <1>11 DEF finish, CloseUser, shutdownCloses, TypeOK
<1>12. ASSUME NEW u \in Users, startOperation(u) \/ complete(u)
       PROVE  PlacesAgree'
  BY <1>0, <1>12 DEF startOperation, complete, TypeOK
<1>13. CASE receiveToken \/ distribute \/ endBroadcast
  BY <1>0, <1>13 DEF receiveToken, distribute, endBroadcast
<1>14. CASE Close \/ shutdownWaited \/ cancel \/ closeReactor \/ closeModule
  BY <1>0, <1>14 DEF Close, shutdownWaited, cancel, closeReactor, closeModule
<1>15. CASE Terminated \/ UNCHANGED vars
  BY <1>0, <1>15 DEF Terminated, vars
<1> HIDE DEF PlacesAgree
<1> QED
  BY <1>1, <1>2, <1>3, <1>4, <1>5, <1>6, <1>7, <1>8, <1>9, <1>10, <1>11, <1>12, <1>13, <1>14, <1>15
     DEF Next, Lives

\* The sinks come before the instance and go after it, also when its creation fails.
LEMMA SinksStep == Agree /\ [Next]_vars => SinksAgree'
<1> SUFFICES ASSUME TypeOK, SinksAgree, [Next]_vars
             PROVE  SinksAgree'
  BY DEF Agree
<1> USE UsersAssumption DEF SinksAgree, usesGuest, goes, sinkVars
<1>1. ASSUME NEW i \in Instances, CreateInstance(i)
      PROVE  SinksAgree'
  BY <1>1 DEF CreateInstance, TypeOK, Users
<1>2. ASSUME NEW i \in Instances, unregisterSinks(i) \/ closeEvents(i)
      PROVE  SinksAgree'
  BY <1>2 DEF unregisterSinks, closeEvents, TypeOK, Users
<1>3. ASSUME NEW w \in Clients, CreateWebClient(w)
      PROVE  SinksAgree'
  BY <1>3 DEF CreateWebClient, TypeOK, Users
<1>4. ASSUME NEW u \in Users, enterCreate(u) \/ created(u) \/ createFails(u)
      PROVE  SinksAgree'
  BY <1>4 DEF enterCreate, created, createFails, TypeOK
<1>5. ASSUME NEW u \in Users, takeToken(u) \/ wake(u) \/ drive(u) \/ driveReturns(u) \/ SeesClose(u)
      PROVE  SinksAgree'
  BY <1>5 DEF takeToken, wake, drive, driveReturns, SeesClose, TypeOK
<1>6. ASSUME NEW u \in Users, enterDrop(u) \/ dropReturns(u)
      PROVE  SinksAgree'
  BY <1>6 DEF enterDrop, dropReturns, TypeOK
<1>7. ASSUME NEW u \in Users, remove(u) \/ finish(u) \/ CloseUser(u) \/ shutdownCloses(u)
      PROVE  SinksAgree'
  BY <1>7 DEF remove, finish, CloseUser, shutdownCloses, TypeOK
<1>8. ASSUME NEW u \in Users, startOperation(u) \/ complete(u)
      PROVE  SinksAgree'
  BY <1>8 DEF startOperation, complete
<1>9. CASE receiveToken \/ distribute \/ endBroadcast
  BY <1>9 DEF receiveToken, distribute, endBroadcast
<1>10. CASE Close \/ shutdownWaited \/ cancel \/ closeReactor \/ closeModule
  BY <1>10 DEF Close, shutdownWaited, cancel, closeReactor, closeModule
<1>11. CASE Terminated \/ UNCHANGED vars
  BY <1>11 DEF Terminated, vars
<1> HIDE DEF SinksAgree
<1> QED
  BY <1>1, <1>2, <1>3, <1>4, <1>5, <1>6, <1>7, <1>8, <1>9, <1>10, <1>11 DEF Next, Lives

\* The table and mu change only at the ends of a creation, and the table when a
\* user is removed.
LEMMA TableFrame ==
  ASSUME TypeOK, [Next]_vars,
         \A i \in Instances : ~CreateInstance(i), \A w \in Clients : ~CreateWebClient(w),
         \A u \in Users : ~created(u)
  PROVE  table' \subseteq table /\ mu' \in {mu, Nil}
<1> USE DEF lockVars
<1>1. ASSUME NEW i \in Instances, unregisterSinks(i) \/ closeEvents(i)
      PROVE  table' \subseteq table /\ mu' \in {mu, Nil}
  BY <1>1 DEF unregisterSinks, closeEvents
<1>2. ASSUME NEW u \in Users, enterCreate(u) \/ createFails(u) \/ remove(u)
      PROVE  table' \subseteq table /\ mu' \in {mu, Nil}
  BY <1>2 DEF enterCreate, createFails, remove
<1>3. ASSUME NEW u \in Users,
             \/ takeToken(u) \/ wake(u) \/ drive(u) \/ driveReturns(u) \/ SeesClose(u)
             \/ enterDrop(u) \/ dropReturns(u) \/ finish(u) \/ CloseUser(u)
             \/ startOperation(u) \/ complete(u) \/ shutdownCloses(u)
      PROVE  table' \subseteq table /\ mu' \in {mu, Nil}
  BY <1>3 DEF takeToken, wake, drive, driveReturns, SeesClose, enterDrop, dropReturns, finish,
              CloseUser, startOperation, complete, shutdownCloses
<1>4. CASE receiveToken \/ distribute \/ endBroadcast
  BY <1>4 DEF receiveToken, distribute, endBroadcast
<1>5. CASE Close \/ shutdownWaited \/ cancel \/ closeReactor \/ closeModule
  BY <1>5 DEF Close, shutdownWaited, cancel, closeReactor, closeModule
<1>6. CASE Terminated \/ UNCHANGED vars
  BY <1>6 DEF Terminated, vars
<1> QED
  BY <1>1, <1>2, <1>3, <1>4, <1>5, <1>6 DEF Next, Lives

\* Whoever creates a web client holds mu until it is in the table.
LEMMA OneWebClientStep == Agree /\ [Next]_vars => OneWebClient'
<1> SUFFICES ASSUME TypeOK, PlacesAgree, OneWebClient, [Next]_vars
             PROVE  OneWebClient'
  BY DEF Agree
<1>1. ASSUME NEW i \in Instances, CreateInstance(i)
      PROVE  OneWebClient'
  BY <1>1, UsersAssumption DEF CreateInstance, OneWebClient
<1>2. ASSUME NEW w \in Clients, CreateWebClient(w)
      PROVE  OneWebClient'
  BY <1>2 DEF CreateWebClient, OneWebClient
<1>3. ASSUME NEW u \in Users, created(u)
      PROVE  OneWebClient'
  <2>1. mu = u
    BY <1>3 DEF created, PlacesAgree
  <2> QED
    BY <1>3, <2>1, NilAssumption DEF created, OneWebClient
<1>4. CASE table' \subseteq table /\ mu' \in {mu, Nil}
  BY <1>4, NilAssumption DEF OneWebClient
<1> QED
  BY <1>1, <1>2, <1>3, <1>4, TableFrame

\* Close takes its copy while nobody creates, and afterwards nobody can; a user
\* leaves the copy when it is done, and then it has left the table.
LEMMA ShutdownStep == Agree /\ [Next]_vars => ShutdownKnowsUsers'
<1> SUFFICES ASSUME TypeOK, PlacesAgree, ShutdownKnowsUsers, [Next]_vars
             PROVE  ShutdownKnowsUsers'
  BY DEF Agree
<1> USE NilIsNoUser DEF ShutdownKnowsUsers, shutdownVars, lockVars
<1>1. ASSUME NEW i \in Instances, CreateInstance(i) \/ unregisterSinks(i) \/ closeEvents(i)
      PROVE  ShutdownKnowsUsers'
  BY <1>1 DEF CreateInstance, unregisterSinks, closeEvents
<1>2. ASSUME NEW w \in Clients, CreateWebClient(w)
      PROVE  ShutdownKnowsUsers'
  BY <1>2 DEF CreateWebClient
<1>3. ASSUME NEW u \in Users, created(u)
      PROVE  ShutdownKnowsUsers'
  <2>1. mu = u
    BY <1>3 DEF created, PlacesAgree
  <2> QED
    BY <1>3, <2>1 DEF created
<1>4. ASSUME NEW u \in Users, enterCreate(u) \/ createFails(u) \/ remove(u)
      PROVE  ShutdownKnowsUsers'
  BY <1>4 DEF enterCreate, createFails, remove
<1>5. ASSUME NEW u \in Users,
             \/ takeToken(u) \/ wake(u) \/ drive(u) \/ driveReturns(u) \/ SeesClose(u)
             \/ enterDrop(u) \/ dropReturns(u) \/ finish(u) \/ CloseUser(u)
             \/ startOperation(u) \/ complete(u) \/ shutdownCloses(u)
      PROVE  ShutdownKnowsUsers'
  BY <1>5 DEF takeToken, wake, drive, driveReturns, SeesClose, enterDrop, dropReturns, finish,
              CloseUser, startOperation, complete, shutdownCloses
<1>6. CASE receiveToken \/ distribute \/ endBroadcast
  BY <1>6 DEF receiveToken, distribute, endBroadcast
<1>7. CASE Close \/ cancel \/ closeReactor \/ closeModule
  BY <1>7 DEF Close, cancel, closeReactor, closeModule
<1>8. CASE shutdownWaited
  <2>1. waitingFor \notin table
    BY <1>8 DEF shutdownWaited, PlacesAgree, TypeOK
  <2> QED
    BY <1>8, <2>1 DEF shutdownWaited
<1>9. CASE Terminated \/ UNCHANGED vars
  BY <1>9 DEF Terminated, vars
<1> HIDE DEF ShutdownKnowsUsers
<1> QED
  BY <1>1, <1>2, <1>3, <1>4, <1>5, <1>6, <1>7, <1>8, <1>9 DEF Next, Lives

LEMMA AgreeStep == Agree /\ [Next]_vars => Agree'
<1>1. Agree => TypeOK
  BY DEF Agree
<1> QED
  BY <1>1, TypeStep, PlacesStep, SinksStep, OneWebClientStep, ShutdownStep DEF Agree

\* What the books say of the guest and of the sinks.
LEMMA AgreeIsConsistent == Agree => Consistent
<1> SUFFICES ASSUME Agree
             PROVE  GuestOutlivesUsers /\ SinksOutliveInstances
  BY DEF Agree, Consistent
<1>0. TypeOK /\ PlacesAgree /\ SinksAgree /\ ShutdownKnowsUsers
  BY DEF Agree
<1>1. GuestOutlivesUsers
  <2> SUFFICES ASSUME ended # "open"
               PROVE  guestMu = Nil /\ alive = {} /\ \A u \in Users : ~usesGuest(u)
    BY DEF GuestOutlivesUsers
  <2>1. mu = Nil /\ table = {}
    BY <1>0 DEF ShutdownKnowsUsers
  <2>2. \A u \in Users : user[u] \in {"absent", "removed"}
    BY <1>0, <2>1, NilIsNoUser DEF PlacesAgree
  <2>3. \A u \in Users : ~usesGuest(u) /\ guestMu # u /\ u \notin alive
    BY <1>0, <2>2 DEF PlacesAgree, usesGuest, InGuest
  <2> QED
    BY <1>0, <2>3 DEF TypeOK
<1>2. SinksOutliveInstances
  BY <1>0 DEF SinksOutliveInstances, PlacesAgree, SinksAgree, usesGuest, TypeOK, Users
<1> QED
  BY <1>1, <1>2

-----------------------------------------------------------------------------
(* Tokens.                                                                 *)

\* A user that was not told of a completed operation, and will look at a token.
awaits(u) == u \in owed /\ user[u] \in {"creating", "selecting", "woken", "driving"}

onTheWay(u) == token \/ broadcaster = "holding" \/ u \in completions

\* A token goes from the reactor's channel to the broadcaster and from there to
\* everybody in the table: a creation that is under way keeps the broadcaster
\* out of it.
LEMMA TokensStep == Agree /\ TokensReachUsers /\ [Next]_vars => TokensReachUsers'
<1> SUFFICES ASSUME TypeOK, PlacesAgree, TokensReachUsers, [Next]_vars,
                    NEW v \in Users, awaits(v)'
             PROVE  onTheWay(v)'
  <2>1. Agree /\ [Next]_vars => owed' \subseteq Users
    BY TypeStep DEF Agree, TypeOK
  <2> QED
    BY <2>1 DEF Agree, TokensReachUsers, awaits, onTheWay
<1> USE DEF awaits, onTheWay, goes, lockVars, tokenVars, sinkVars, shutdownVars
<1>0. awaits(v) => onTheWay(v)
  BY DEF TokensReachUsers
<1>1. ASSUME NEW i \in Instances, CreateInstance(i) \/ unregisterSinks(i) \/ closeEvents(i)
      PROVE  onTheWay(v)'
  BY <1>0, <1>1 DEF CreateInstance, unregisterSinks, closeEvents, TypeOK
<1>2. ASSUME NEW w \in Clients, CreateWebClient(w)
      PROVE  onTheWay(v)'
  BY <1>0, <1>2 DEF CreateWebClient, TypeOK
<1>3. ASSUME NEW u \in Users, enterCreate(u)
      PROVE  onTheWay(v)'
  BY <1>0, <1>3 DEF enterCreate, TypeOK, PlacesAgree, usesGuest
<1>4. ASSUME NEW u \in Users, created(u) \/ createFails(u)
      PROVE  onTheWay(v)'
  BY <1>0, <1>4 DEF created, createFails, TypeOK
<1>5. ASSUME NEW u \in Users, takeToken(u) \/ wake(u)
      PROVE  onTheWay(v)'
  BY <1>0, <1>5 DEF takeToken, wake, TypeOK
<1>6. ASSUME NEW u \in Users, drive(u) \/ driveReturns(u)
      PROVE  onTheWay(v)'
  BY <1>0, <1>6 DEF drive, driveReturns, TypeOK
<1>7. ASSUME NEW u \in Users,
             SeesClose(u) \/ enterDrop(u) \/ dropReturns(u) \/ remove(u) \/ CloseUser(u)
      PROVE  onTheWay(v)'
  BY <1>0, <1>7 DEF SeesClose, enterDrop, dropReturns, remove, CloseUser, TypeOK
<1>8. ASSUME NEW u \in Users, finish(u)
      PROVE  onTheWay(v)'
  BY <1>0, <1>8 DEF finish
<1>9. ASSUME NEW u \in Users, startOperation(u) \/ complete(u) \/ shutdownCloses(u)
      PROVE  onTheWay(v)'
  BY <1>0, <1>9 DEF startOperation, complete, shutdownCloses
<1>10. CASE receiveToken \/ endBroadcast
  BY <1>0, <1>10 DEF receiveToken, endBroadcast
<1>11. CASE distribute
  <2>1. v \in table
    BY <1>11, NilIsNoUser DEF distribute, PlacesAgree
  <2> QED
    BY <1>11, <2>1 DEF distribute
<1>12. CASE Close \/ shutdownWaited \/ cancel \/ closeReactor \/ closeModule
  BY <1>0, <1>12 DEF Close, shutdownWaited, cancel, closeReactor, closeModule
<1>13. CASE Terminated \/ UNCHANGED vars
  BY <1>0, <1>13 DEF Terminated, vars
<1> HIDE DEF awaits, onTheWay
<1> QED
  BY <1>1, <1>2, <1>3, <1>4, <1>5, <1>6, <1>7, <1>8, <1>9, <1>10, <1>11, <1>12, <1>13
     DEF Next, Lives

-----------------------------------------------------------------------------
(* The theorems.                                                           *)

\* The books hold in every reachable state of the host.
THEOREM Bookkeeping == Spec => []Agree
BY InitAgrees, AgreeStep, PTL DEF Spec

\* What the run checks: the types, the books, and that the guest and the sinks
\* are there as long as anybody uses them.
THEOREM Consistency == Spec => []Consistent
BY Bookkeeping, AgreeIsConsistent, PTL

\* Once host.cancel was called nobody is in the guest or on the way to it, however
\* creations, failures, drivers and Close calls interleaved: module.Close and
\* runtime.Close pull the guest away from under nobody.
THEOREM NobodyIsLeftInGuest == Spec => []GuestOutlivesUsers
<1>1. Consistent => GuestOutlivesUsers
  BY DEF Consistent
<1> QED
  BY Consistency, <1>1, PTL

\* Registered sinks have open channels and instances in the guest have their
\* sinks; what ended or was never created has none.
THEOREM SinksAreThere == Spec => []SinksOutliveInstances
<1>1. Consistent => SinksOutliveInstances
  BY DEF Consistent
<1> QED
  BY Consistency, <1>1, PTL

\* guestMu does what it is for: of all creations, drivers and drops, at most one
\* is inside the guest.
THEOREM OneCallerInGuest ==
  Spec => [](\A u, v \in Users : user[u] \in InGuest /\ user[v] \in InGuest => u = v)
<1>1. Agree => \A u, v \in Users : user[u] \in InGuest /\ user[v] \in InGuest => u = v
  BY DEF Agree, PlacesAgree
<1> QED
  BY Bookkeeping, <1>1, PTL

\* A completed operation never waits beside a driver that does not know of it: a
\* token is in the reactor's channel, in the broadcaster's hands, or in the
\* driver's own channel, also for an operation that completed while its user was
\* still being created and in no table.
THEOREM TokensArrive == Spec => []TokensReachUsers
<1>1. Init => TokensReachUsers
  BY DEF Init, TokensReachUsers
<1>2. TokensReachUsers /\ Agree /\ [Next]_vars => TokensReachUsers'
  BY TokensStep
<1> QED
  BY Bookkeeping, <1>1, <1>2, PTL DEF Spec

-----------------------------------------------------------------------------
(* The calls into the guest that the host serialises: CoreABI.  Its        *)
(* methods are relations between the state before and the states it may    *)
(* return in; `sound` is what holds between any two steps of a method and  *)
(* `base` what every method leaves alone.                                  *)

CONSTANTS
  Cores, Kinds, PacketLengths, StreamWires, BindWires, GuestABI, Memory, MaxOperations,
  MaxRefusals, Wrong

VARIABLES memory, cores, web, guest, engine, stranded, overrun, lost

C == INSTANCE CoreABI

\* What is assumed of the constants of the core ABI.
CoreAssumptions ==
  /\ C!CoresAssumption /\ C!BoundsAssumption /\ C!LengthsAssumption /\ C!KindsAssumption

\* The instance counts the way this module does.
LEMMA SameCardinality ==
  ASSUME NEW S
  PROVE  C!Cardinality(S) = Cardinality(S)
BY DEF C!Cardinality, Cardinality

\* And finite sets are the same.
LEMMA SameFiniteness ==
  ASSUME NEW S
  PROVE  C!IsFiniteSet(S) <=> IsFiniteSet(S)
BY DEF C!IsFiniteSet, IsFiniteSet

\* The states of a call.
CallStates ==
  [memory : [C!Pointers -> Nat], cores : [Cores -> C!CoreFields], web : C!WebFields, guest : C!GuestFields,
   stranded : SUBSET C!Pointers, overrun : BOOLEAN, core : Cores \cup {0}, err : BOOLEAN,
   pointer : 0 .. Memory, batch : SUBSET C!Operations,
   answer : {"none", "result", "error", "malformed"}]

\* Two states of a call agree on all but what a free or an allocation changes.
sameCall(s, t) ==
  /\ t.web = s.web /\ t.guest = s.guest /\ t.core = s.core /\ t.batch = s.batch
  /\ t.answer = s.answer /\ t.overrun = s.overrun

\* .. and on buffers, too.
sameBuffers(s, t) ==
  /\ t \in CallStates /\ sameCall(s, t)
  /\ t.memory = s.memory /\ t.cores = s.cores /\ t.stranded = s.stranded

\* What one call of the guest's allocator makes of s.
allocatedAt(s, t, p, n) ==
  /\ t \in CallStates /\ sameCall(s, t) /\ t.err = s.err
  /\ t.memory = [s.memory EXCEPT ![p] = n]
  /\ t.cores = s.cores /\ t.stranded = s.stranded /\ t.pointer = p

\* .. of a free the guest accepts: the buffer is gone.
freedAt(s, t, p) ==
  /\ t \in CallStates /\ sameCall(s, t) /\ t.err = s.err
  /\ t.memory = [s.memory EXCEPT ![p] = 0]
  /\ t.cores = s.cores /\ t.stranded = s.stranded \ {p}

\* .. of a free it refuses: the buffer stays, and the call fails.
refusedAt(s, t, p) ==
  /\ t \in CallStates /\ sameCall(s, t) /\ t.err
  /\ t.memory = s.memory /\ t.cores = s.cores /\ t.stranded = s.stranded \cup {p}

\* A Core keeps another buffer.
keptAt(s, t, b, buffer) ==
  /\ t \in CallStates /\ sameCall(s, t) /\ t.err = s.err
  /\ t.memory = s.memory /\ t.stranded = s.stranded /\ t.pointer = s.pointer
  /\ \A c \in Cores :
       /\ c # s.core => t.cores[c] = s.cores[c]
       /\ t.cores[c].handle = s.cores[c].handle /\ t.cores[c].dropped = s.cores[c].dropped
       /\ \A x \in C!Buffers : t.cores[c].buffer[x] =
            IF c = s.core /\ x = b THEN buffer ELSE s.cores[c].buffer[x]

\* The fields of a state of a call have their types.
LEMMA CallFields ==
  ASSUME NEW s \in CallStates
  PROVE  /\ s.memory \in [C!Pointers -> Nat] /\ s.cores \in [Cores -> C!CoreFields]
         /\ s.web \in C!WebFields /\ s.guest \in C!GuestFields /\ s.stranded \in SUBSET C!Pointers
         /\ s.overrun \in BOOLEAN /\ s.core \in Cores \cup {0} /\ s.err \in BOOLEAN
         /\ s.pointer \in 0 .. Memory /\ s.batch \in SUBSET C!Operations
         /\ s.answer \in {"none", "result", "error", "malformed"}
BY DEF CallStates

\* A call that fails changes nothing but its error.
LEMMA FailShape ==
  ASSUME NEW s \in CallStates
  PROVE  sameBuffers(s, C!Fail(s)) /\ C!Fail(s).err
BY DEF CallStates, C!Fail, sameCall, sameBuffers

\* Setting or clearing the error changes nothing else.
LEMMA ErrorShape ==
  ASSUME NEW s \in CallStates, NEW e \in BOOLEAN, NEW t, t = [s EXCEPT !.err = e]
  PROVE  sameBuffers(s, t) /\ (t.err <=> e)
BY DEF CallStates, sameCall, sameBuffers

\* Returning a pointer changes nothing else.
LEMMA PointerShape ==
  ASSUME NEW s \in CallStates, NEW p \in 0 .. Memory
  PROVE  LET t == [s EXCEPT !.pointer = p]
         IN  sameBuffers(s, t) /\ t.err = s.err /\ t.pointer = p
BY DEF CallStates, sameCall, sameBuffers

\* The updates of CoreABI have the shapes above: an allocation ..
LEMMA AllocatedShape ==
  ASSUME CoreAssumptions, NEW s \in CallStates, NEW p \in C!Pointers, NEW n \in Nat
  PROVE  allocatedAt(s, [s EXCEPT !.memory[p] = n, !.pointer = p], p, n)
<1>1. p \in 0 .. Memory
  BY DEF C!Pointers, CoreAssumptions, C!BoundsAssumption
<1>2. [s.memory EXCEPT ![p] = n] \in [C!Pointers -> Nat]
  BY CallFields
<1> QED
  BY <1>1, <1>2 DEF CallStates, sameCall, allocatedAt

\* .. a free ..
LEMMA FreedShape ==
  ASSUME NEW s \in CallStates, NEW p \in C!Pointers
  PROVE  freedAt(s, [s EXCEPT !.memory[p] = 0, !.stranded = @ \ {p}], p)
<1>2. [s.memory EXCEPT ![p] = 0] \in [C!Pointers -> Nat] /\ s.stranded \ {p} \in SUBSET C!Pointers
  BY CallFields
<1> QED
  BY <1>2 DEF CallStates, sameCall, freedAt

\* .. a refused free ..
LEMMA RefusedShape ==
  ASSUME NEW s \in CallStates, NEW p \in C!Pointers
  PROVE  refusedAt(s, [C!Fail(s) EXCEPT !.stranded = @ \cup {p}], p)
<1>2. s.stranded \cup {p} \in SUBSET C!Pointers
  BY CallFields
<1> QED
  BY <1>2 DEF CallStates, sameCall, refusedAt, C!Fail

\* Allocating, freeing and cleaning up have two outcomes each.
LEMMA AllocateCases ==
  ASSUME CoreAssumptions, NEW s \in CallStates, NEW n \in Nat, NEW t \in C!allocate(s, n)
  PROVE  t = C!Fail(s) \/ \E p \in C!Pointers : s.memory[p] = 0 /\ allocatedAt(s, t, p, n)
<1>1. CASE t = C!Fail(s)
  BY <1>1
<1>2. CASE \E p \in C!Pointers : s.memory[p] = 0 /\ t = [s EXCEPT !.memory[p] = n, !.pointer = p]
  <2>1. PICK p \in C!Pointers : s.memory[p] = 0 /\ t = [s EXCEPT !.memory[p] = n, !.pointer = p]
    BY <1>2
  <2>2. allocatedAt(s, [s EXCEPT !.memory[p] = n, !.pointer = p], p, n)
    BY AllocatedShape
  <2> QED
    BY <2>1, <2>2
<1> QED
  BY <1>1, <1>2 DEF C!allocate, C!callOne

\* free: the guest takes the buffer back or refuses.
LEMMA FreeCases ==
  ASSUME NEW s \in CallStates, NEW p \in C!Pointers, NEW t \in C!free(s, p)
  PROVE  freedAt(s, t, p) \/ refusedAt(s, t, p)
<1>1. CASE t = [s EXCEPT !.memory[p] = 0, !.stranded = @ \ {p}]
  BY <1>1, FreedShape
<1>2. CASE t = [C!Fail(s) EXCEPT !.stranded = @ \cup {p}]
  BY <1>2, RefusedShape
<1> QED
  BY <1>1, <1>2 DEF C!free

\* cleanupBuffer, the deferred free, has the outcomes of a free whatever failed before.
LEMMA CleanupCases ==
  ASSUME NEW s \in CallStates, NEW p \in C!Pointers, NEW t \in C!cleanupBuffer(s, p)
  PROVE  freedAt(s, t, p) \/ refusedAt(s, t, p)
<1> DEFINE r == [s EXCEPT !.err = FALSE]
<1>1. PICK u \in C!free(r, p) : t = [u EXCEPT !.err = u.err \/ s.err]
  BY DEF C!cleanupBuffer
<1>2. sameBuffers(s, r) /\ ~r.err
  BY ErrorShape
<1> HIDE DEF r
<1>3. freedAt(r, u, p) \/ refusedAt(r, u, p)
  BY <1>2, FreeCases DEF sameBuffers
<1>4. u \in CallStates /\ u.err \in BOOLEAN /\ s.err \in BOOLEAN
  BY <1>3, CallFields DEF freedAt, refusedAt
<1>5. sameBuffers(u, t) /\ (t.err <=> u.err \/ s.err)
  <2>1. (u.err \/ s.err) \in BOOLEAN
    OBVIOUS
  <2> QED
    BY <1>1, <1>4, <2>1, ErrorShape
<1>6. t.err \in BOOLEAN
  BY <1>5, CallFields DEF sameBuffers
<1> QED
  BY <1>2, <1>3, <1>4, <1>5, <1>6 DEF sameBuffers, freedAt, refusedAt, sameCall

\* Keep changes one buffer of one Core.
LEMMA KeepShape ==
  ASSUME NEW s \in CallStates, s.core \in Cores, NEW b \in C!Buffers, NEW buffer \in C!BufferFields
  PROVE  keptAt(s, C!Keep(s, b, buffer), b, buffer)
<1> DEFINE old == s.cores[s.core]
           fields == [old EXCEPT !.buffer[b] = buffer]
           coreTable == [s.cores EXCEPT ![s.core] = fields]
           t == [s EXCEPT !.cores = coreTable]
<1>1. old \in C!CoreFields /\ s.cores \in [Cores -> C!CoreFields]
  BY CallFields
<1>2. /\ fields \in C!CoreFields /\ fields.handle = old.handle /\ fields.dropped = old.dropped
      /\ fields.buffer = [old.buffer EXCEPT ![b] = buffer] /\ old.buffer \in [C!Buffers -> C!BufferFields]
  BY <1>1 DEF C!CoreFields
<1>3. coreTable \in [Cores -> C!CoreFields]
  BY <1>1, <1>2
<1>4. C!Keep(s, b, buffer) = t
  BY DEF C!Keep
<1> HIDE DEF fields, coreTable
<1>5. /\ t \in CallStates /\ t.err = s.err /\ sameCall(s, t) /\ t.memory = s.memory
      /\ t.stranded = s.stranded /\ t.pointer = s.pointer /\ t.cores = coreTable
  BY <1>3 DEF CallStates, sameCall
<1>6. ASSUME NEW c \in Cores
      PROVE  /\ c # s.core => coreTable[c] = s.cores[c]
             /\ coreTable[c].handle = s.cores[c].handle /\ coreTable[c].dropped = s.cores[c].dropped
             /\ \A x \in C!Buffers : coreTable[c].buffer[x] =
                  IF c = s.core /\ x = b THEN buffer ELSE s.cores[c].buffer[x]
  <2>1. coreTable[c] = IF c = s.core THEN fields ELSE s.cores[c]
    BY <1>1 DEF coreTable
  <2>2. CASE c # s.core
    BY <2>1, <2>2
  <2>3. CASE c = s.core
    BY <1>2, <2>1, <2>3
  <2> QED
    BY <2>2, <2>3
<1> HIDE DEF t
<1> QED
  BY <1>4, <1>5, <1>6 DEF keptAt

\* Pointers the Cores keep, and the ones nobody gets rid of any more.
owned(s) == {p \in C!Pointers : \E c \in Cores, b \in C!Buffers : s.cores[c].buffer[b].pointer = p}
paid(s)  == s.stranded \ owned(s)

\* A buffer that a Core keeps, while those at the pointers T are in use for the call.
goodBuffer(s, c, b, T) ==
  IF s.cores[c].buffer[b].pointer = 0 THEN s.cores[c].buffer[b] = C!NoBuffer
  ELSE /\ s.cores[c].buffer[b].capacity > 0
       /\ s.memory[s.cores[c].buffer[b].pointer] >= s.cores[c].buffer[b].capacity
       /\ b = "address" => s.cores[c].buffer[b].capacity = C!socketAddressLength
       /\ s.cores[c].buffer[b].pointer \notin T

\* No buffer is kept twice.
distinctBuffers(s) ==
  \A c, d \in Cores, a, b \in C!Buffers :
    (c # d \/ a # b) /\ s.cores[c].buffer[a].pointer # 0 =>
      s.cores[c].buffer[a].pointer # s.cores[d].buffer[b].pointer

\* The memory of the guest in a state of a call.
sound(s, T) ==
  /\ s \in CallStates /\ T \subseteq C!Pointers
  /\ ~s.overrun
  /\ \A c \in Cores, b \in C!Buffers : goodBuffer(s, c, b, T)
  /\ distinctBuffers(s)
  /\ \A p \in s.stranded \cup T : s.memory[p] # 0
  /\ T \cap s.stranded = {}
  /\ \A p \in C!Pointers : s.memory[p] # 0 => p \in s.stranded \cup T \cup owned(s)

\* What every part of a call keeps: the buffers in use, those of other Cores, and
\* what was paid.
base(s, t, T) ==
  /\ t.core = s.core
  /\ \A p \in T : t.memory[p] = s.memory[p]
  /\ \A c \in Cores : /\ c # s.core => t.cores[c] = s.cores[c]
                      /\ t.cores[c].handle = s.cores[c].handle
                      /\ t.cores[c].dropped = s.cores[c].dropped
  /\ t.web = s.web
  /\ paid(s) \subseteq paid(t)

\* The guest has not been asked for anything.
idle(s, t) == t.guest = s.guest /\ t.answer = s.answer /\ t.batch = s.batch

\* Another buffer is nobody's any more.
pays(s, t) == \E p \in paid(t) : p \notin paid(s)

\* What two steps leave alone, both together do; what one of them has paid stays paid.
LEMMA BaseTransitive ==
  ASSUME NEW s, NEW t, NEW u, NEW T, NEW V, base(s, t, T), base(t, u, V), T \subseteq V
  PROVE  base(s, u, T) /\ (pays(s, t) \/ pays(t, u) => pays(s, u))
BY DEF base, pays

\* A call that does nothing leaves everything alone.
LEMMA BaseReflexive ==
  ASSUME NEW s, NEW T
  PROVE  base(s, s, T)
BY DEF base

\* The pointers and the sizes of buffers.
LEMMA BufferTypes ==
  ASSUME CoreAssumptions, NEW s \in CallStates, NEW c \in Cores, NEW b \in C!Buffers
  PROVE  /\ s.cores[c].buffer[b].pointer \in 0 .. Memory
         /\ s.cores[c].buffer[b].pointer # 0 => s.cores[c].buffer[b].pointer \in C!Pointers
         /\ s.cores[c].buffer[b].capacity \in Nat
         /\ s.cores[c].buffer[b] \in C!BufferFields
         /\ s.cores[c].dropped \in BOOLEAN /\ s.cores[c].handle \in Cores \cup {0}
<1>1. s.cores[c] \in C!CoreFields
  BY CallFields
<1>2. s.cores[c].buffer[b] \in C!BufferFields /\ s.cores[c].dropped \in BOOLEAN
      /\ s.cores[c].handle \in Cores \cup {0}
  BY <1>1 DEF C!CoreFields
<1> QED
  BY <1>2 DEF C!BufferFields, C!Pointers, CoreAssumptions, C!BoundsAssumption

\* The same buffers are as sound.
LEMMA SameBuffers ==
  ASSUME NEW s, NEW T, sound(s, T), NEW t, sameBuffers(s, t)
  PROVE  sound(t, T) /\ base(s, t, T) /\ idle(s, t)
<1>1. owned(t) = owned(s) /\ paid(t) = paid(s)
  BY DEF owned, paid, sameBuffers
<1>2. sound(t, T)
  BY <1>1 DEF sound, goodBuffer, distinctBuffers, sameBuffers, sameCall
<1> QED
  BY <1>1, <1>2 DEF base, idle, sameBuffers, sameCall

\* Failing keeps the buffers in order.
LEMMA FailedIsSound ==
  ASSUME NEW s, NEW T, sound(s, T)
  PROVE  sound(C!Fail(s), T) /\ base(s, C!Fail(s), T) /\ idle(s, C!Fail(s)) /\ C!Fail(s).err
<1>1. s \in CallStates
  BY DEF sound
<1> QED
  BY <1>1, FailShape, SameBuffers

\* A buffer that was free is nobody's.
LEMMA Allocated ==
  ASSUME CoreAssumptions,
         NEW s, NEW T, sound(s, T), NEW n \in Nat \ {0}, NEW t \in C!allocate(s, n), ~s.err
  PROVE  \/ t = C!Fail(s)
         \/ /\ ~t.err /\ t.pointer \in C!Pointers \ T /\ t.memory[t.pointer] = n
            /\ t.pointer # 0
            /\ t.pointer \notin s.stranded /\ t.pointer \notin owned(s)
            /\ sound(t, T \cup {t.pointer}) /\ base(s, t, T) /\ idle(s, t) /\ t.cores = s.cores
<1>1. n \in Nat /\ s \in CallStates /\ ~s.overrun
  BY DEF sound
<1>2. t = C!Fail(s) \/ \E p \in C!Pointers : s.memory[p] = 0 /\ allocatedAt(s, t, p, n)
  BY <1>1, AllocateCases
<1> SUFFICES ASSUME NEW p \in C!Pointers, s.memory[p] = 0, allocatedAt(s, t, p, n)
             PROVE  /\ ~t.err /\ t.pointer \in C!Pointers \ T /\ t.memory[t.pointer] = n
                    /\ t.pointer # 0
                    /\ t.pointer \notin s.stranded /\ t.pointer \notin owned(s)
                    /\ sound(t, T \cup {t.pointer}) /\ base(s, t, T) /\ idle(s, t)
                    /\ t.cores = s.cores
  BY <1>2
<1>3. p \in C!Pointers /\ s.memory[p] = 0 /\ p # 0
  BY DEF C!Pointers
<1>4. s \in CallStates /\ ~s.overrun
  BY <1>1
<1>5. /\ t \in CallStates /\ t.err = s.err /\ sameCall(s, t)
      /\ t.memory = [s.memory EXCEPT ![p] = n]
      /\ t.cores = s.cores /\ t.stranded = s.stranded /\ t.pointer = p
  BY DEF allocatedAt
<1>6. t.memory[p] = n /\ \A q \in C!Pointers \ {p} : t.memory[q] = s.memory[q]
  BY <1>3, <1>4, <1>5, CallFields
<1>7. p \notin T /\ p \notin s.stranded
  BY <1>3 DEF sound
<1>8. \A c \in Cores, b \in C!Buffers : s.cores[c].buffer[b].pointer # p
  <2>1. ASSUME NEW c \in Cores, NEW b \in C!Buffers, s.cores[c].buffer[b].pointer = p PROVE FALSE
    <3>1. s.cores[c].buffer[b].capacity > 0 /\ s.memory[p] >= s.cores[c].buffer[b].capacity
      BY <1>3, <2>1 DEF sound, goodBuffer
    <3> QED
      BY <1>3, <1>4, <3>1, BufferTypes
  <2> QED
    BY <2>1
<1>9. owned(t) = owned(s) /\ paid(t) = paid(s) /\ p \notin owned(s)
  BY <1>5, <1>8 DEF owned, paid
<1>10. sound(t, T \cup {p})
  <2>1. ASSUME NEW c \in Cores, NEW b \in C!Buffers PROVE goodBuffer(t, c, b, T \cup {p})
    <3>0. goodBuffer(s, c, b, T)
      BY DEF sound
    <3>1. CASE s.cores[c].buffer[b].pointer = 0
      BY <1>5, <3>0, <3>1 DEF goodBuffer
    <3>2. CASE s.cores[c].buffer[b].pointer # 0
      <4>1. s.cores[c].buffer[b].pointer \in C!Pointers \ {p}
        BY <1>4, <1>8, <3>2, BufferTypes
      <4>2. t.memory[s.cores[c].buffer[b].pointer] = s.memory[s.cores[c].buffer[b].pointer]
        BY <1>6, <4>1
      <4> QED
        BY <1>5, <1>8, <3>0, <3>2, <4>2 DEF goodBuffer
    <3> QED
      BY <3>1, <3>2
  <2>2. ASSUME NEW q \in t.stranded \cup (T \cup {p}) PROVE t.memory[q] # 0
    <3>1. q \in C!Pointers
      BY <1>3, <1>5, CallFields DEF sound
    <3> QED
      BY <1>5, <1>6, <2>2, <3>1 DEF sound
  <2>3. ASSUME NEW q \in C!Pointers, t.memory[q] # 0 PROVE q \in t.stranded \cup (T \cup {p}) \cup owned(t)
    BY <1>5, <1>6, <1>9, <2>3 DEF sound
  <2>4. (T \cup {p}) \cap t.stranded = {} /\ T \cup {p} \subseteq C!Pointers /\ ~t.overrun
    BY <1>3, <1>4, <1>5, <1>7 DEF sound, sameCall
  <2>5. distinctBuffers(t)
    BY <1>5 DEF sound, distinctBuffers
  <2> QED
    BY <1>5, <2>1, <2>2, <2>3, <2>4, <2>5 DEF sound
<1>11. base(s, t, T)
  <2>1. \A q \in T : t.memory[q] = s.memory[q]
    BY <1>6, <1>7 DEF sound
  <2> QED
    BY <1>5, <1>9, <2>1 DEF base, sameCall
<1>12. idle(s, t)
  BY <1>5 DEF idle, sameCall
<1> QED
  BY <1>3, <1>5, <1>6, <1>7, <1>9, <1>10, <1>11, <1>12

\* Freeing one buffer leaves the others alone.
LEMMA FreedMemory ==
  ASSUME NEW s \in CallStates, NEW p \in C!Pointers, NEW t, freedAt(s, t, p)
  PROVE  t.memory[p] = 0 /\ \A q \in C!Pointers \ {p} : t.memory[q] = s.memory[q]
BY CallFields DEF freedAt

\* A buffer that was in use for the call is freed, or paid with.
LEMMA Cleaned ==
  ASSUME CoreAssumptions,
         NEW s, NEW T, NEW p \in C!Pointers \ T, sound(s, T \cup {p}), NEW t \in C!cleanupBuffer(s, p)
  PROVE  /\ sound(t, T) /\ base(s, t, T) /\ idle(s, t)
         /\ s.err => t.err
         /\ t.err => s.err \/ pays(s, t)
<1>1. s \in CallStates /\ ~s.overrun /\ p \in C!Pointers /\ p \notin s.stranded /\ s.memory[p] # 0
  BY DEF sound
<1>2. freedAt(s, t, p) \/ refusedAt(s, t, p)
  BY <1>1, CleanupCases
<1>3. t \in CallStates /\ sameCall(s, t) /\ t.cores = s.cores /\ (s.err => t.err)
  BY <1>2 DEF freedAt, refusedAt
<1>4. owned(t) = owned(s) /\ distinctBuffers(t)
  BY <1>3 DEF owned, sound, distinctBuffers
<1>5. p \notin owned(s)
  BY <1>1 DEF owned, sound, goodBuffer, C!Pointers
<1>6. \A q \in C!Pointers \ {p} : t.memory[q] = s.memory[q]
  BY <1>1, <1>2, FreedMemory DEF refusedAt
<1>7. ASSUME NEW c \in Cores, NEW b \in C!Buffers PROVE goodBuffer(t, c, b, T)
  <2>0. goodBuffer(s, c, b, T \cup {p})
    BY DEF sound
  <2>1. CASE s.cores[c].buffer[b].pointer = 0
    BY <1>3, <2>0, <2>1 DEF goodBuffer
  <2>2. CASE s.cores[c].buffer[b].pointer # 0
    <3>1. s.cores[c].buffer[b].pointer \in C!Pointers \ {p}
      BY <1>1, <2>0, <2>2, BufferTypes DEF goodBuffer
    <3>2. t.memory[s.cores[c].buffer[b].pointer] = s.memory[s.cores[c].buffer[b].pointer]
      BY <1>6, <3>1
    <3> QED
      BY <1>3, <2>0, <2>2, <3>2 DEF goodBuffer
  <2> QED
    BY <2>1, <2>2
<1>8. CASE freedAt(s, t, p)
  <2>1. t.memory[p] = 0 /\ t.stranded = s.stranded \ {p} /\ t.err = s.err
    <3>1. t.memory[p] = 0
      BY <1>1, <1>8, FreedMemory
    <3> QED
      BY <1>8, <3>1 DEF freedAt
  <2>2. sound(t, T)
    <3>1. \A q \in t.stranded \cup T : t.memory[q] # 0
      BY <1>6, <2>1, CallFields DEF sound
    <3>2. \A q \in C!Pointers : t.memory[q] # 0 => q \in t.stranded \cup T \cup owned(t)
      BY <1>4, <1>6, <2>1 DEF sound
    <3>3. T \cap t.stranded = {} /\ T \subseteq C!Pointers /\ ~t.overrun
      BY <1>1, <1>3, <2>1 DEF sound, sameCall
    <3> QED
      BY <1>3, <1>4, <1>7, <3>1, <3>2, <3>3 DEF sound
  <2>3. paid(t) = paid(s)
    BY <1>1, <1>4, <2>1 DEF paid
  <2>4. base(s, t, T)
    BY <1>3, <1>6, <2>2, <2>3 DEF base, sameCall, sound
  <2> QED
    BY <1>3, <2>1, <2>2, <2>4 DEF idle, sameCall
<1>9. CASE refusedAt(s, t, p)
  <2>1. t.memory = s.memory /\ t.stranded = s.stranded \cup {p} /\ t.err
    BY <1>9 DEF refusedAt
  <2>2. sound(t, T)
    <3>1. \A q \in t.stranded \cup T : t.memory[q] # 0
      BY <1>1, <2>1 DEF sound
    <3>2. \A q \in C!Pointers : t.memory[q] # 0 => q \in t.stranded \cup T \cup owned(t)
      BY <1>4, <2>1 DEF sound
    <3>3. T \cap t.stranded = {} /\ T \subseteq C!Pointers /\ ~t.overrun
      BY <1>1, <1>3, <2>1 DEF sound, sameCall
    <3> QED
      BY <1>3, <1>4, <1>7, <3>1, <3>2, <3>3 DEF sound
  <2>3. paid(s) \subseteq paid(t) /\ p \in paid(t) /\ p \notin paid(s)
    BY <1>1, <1>4, <1>5, <2>1 DEF paid
  <2>4. base(s, t, T)
    BY <1>3, <2>1, <2>3 DEF base, sameCall
  <2> QED
    BY <1>3, <2>1, <2>2, <2>3, <2>4 DEF idle, sameCall, pays
<1> QED
  BY <1>2, <1>8, <1>9

\* The zero value of a buffer is a buffer.
LEMMA NoBufferFields ==
  ASSUME CoreAssumptions
  PROVE  C!NoBuffer \in C!BufferFields /\ C!NoBuffer.pointer = 0
BY DEF C!NoBuffer, C!BufferFields, CoreAssumptions, C!BoundsAssumption

\* A buffer the Core keeps and the guest does not take back stays where it is.
LEMMA HeldRefused ==
  ASSUME CoreAssumptions, NEW s, NEW T, sound(s, T), NEW c \in Cores, NEW b \in C!Buffers,
         NEW p, p = s.cores[c].buffer[b].pointer, p # 0, NEW t, refusedAt(s, t, p)
  PROVE  sound(t, T) /\ base(s, t, T) /\ idle(s, t) /\ t.err
<1>1. /\ t \in CallStates /\ sameCall(s, t) /\ t.err
      /\ t.memory = s.memory /\ t.cores = s.cores /\ t.stranded = s.stranded \cup {p}
  BY DEF refusedAt
<1>2. s \in CallStates /\ ~s.overrun /\ T \subseteq C!Pointers /\ goodBuffer(s, c, b, T)
  BY DEF sound
<1>3. p \in C!Pointers /\ p \in owned(s) /\ s.memory[p] # 0 /\ p \notin T
  <2>1. p \in C!Pointers /\ s.cores[c].buffer[b].capacity \in Nat
    BY <1>2, BufferTypes
  <2>2. s.memory[p] \in Nat
    BY <1>2, <2>1, CallFields
  <2>3. /\ s.cores[c].buffer[b].capacity > 0 /\ s.memory[p] >= s.cores[c].buffer[b].capacity
        /\ p \notin T
    BY <1>2 DEF goodBuffer
  <2>4. p \in owned(s)
    BY <2>1 DEF owned
  <2> QED
    BY <2>1, <2>2, <2>3, <2>4
<1>4. owned(t) = owned(s) /\ paid(t) = paid(s)
  <2>1. owned(t) = owned(s)
    BY <1>1 DEF owned
  <2> QED
    BY <1>1, <1>3, <2>1 DEF paid
<1>5. sound(t, T)
  <2>1. \A d \in Cores, x \in C!Buffers : goodBuffer(t, d, x, T)
    BY <1>1 DEF sound, goodBuffer
  <2>2. distinctBuffers(t)
    BY <1>1 DEF sound, distinctBuffers
  <2>3. /\ \A q \in t.stranded \cup T : t.memory[q] # 0
        /\ T \cap t.stranded = {} /\ ~t.overrun
        /\ \A q \in C!Pointers : t.memory[q] # 0 => q \in t.stranded \cup T \cup owned(t)
    BY <1>1, <1>3, <1>4 DEF sound, sameCall
  <2> QED
    BY <1>1, <1>2, <2>1, <2>2, <2>3 DEF sound
<1> QED
  BY <1>1, <1>4, <1>5 DEF base, idle, sameCall

\* .. and one that the Core lets go of is freed, or paid with.
LEMMA HeldDropped ==
  ASSUME CoreAssumptions, NEW s, NEW T, sound(s, T), s.core \in Cores, NEW b \in C!Buffers,
         NEW p, p = s.cores[s.core].buffer[b].pointer, p # 0,
         NEW u, freedAt(s, u, p) \/ refusedAt(s, u, p), NEW t, keptAt(u, t, b, C!NoBuffer)
  PROVE  /\ sound(t, T) /\ base(s, t, T) /\ idle(s, t)
         /\ s.err => t.err
         /\ t.err => s.err \/ pays(s, t)
         /\ t.cores[s.core].buffer[b] = C!NoBuffer
         /\ \A x \in C!Buffers \ {b} : t.cores[s.core].buffer[x] = s.cores[s.core].buffer[x]
<1> DEFINE c == s.core
<1>1. /\ s \in CallStates /\ ~s.overrun /\ T \subseteq C!Pointers /\ goodBuffer(s, c, b, T)
      /\ distinctBuffers(s)
  BY DEF sound
<1>2. p \in C!Pointers /\ p \in owned(s) /\ s.memory[p] # 0 /\ p \notin T
  <2>1. p \in C!Pointers /\ s.cores[c].buffer[b].capacity \in Nat
    BY <1>1, BufferTypes
  <2>2. s.memory[p] \in Nat
    BY <1>1, <2>1, CallFields
  <2>3. /\ s.cores[c].buffer[b].capacity > 0 /\ s.memory[p] >= s.cores[c].buffer[b].capacity
        /\ p \notin T
    BY <1>1 DEF goodBuffer
  <2>4. p \in owned(s)
    BY <2>1 DEF owned
  <2> QED
    BY <2>1, <2>2, <2>3, <2>4
<1>3. /\ u \in CallStates /\ sameCall(s, u) /\ u.cores = s.cores /\ (s.err => u.err)
      /\ \A q \in C!Pointers \ {p} : u.memory[q] = s.memory[q]
  <2>1. \A q \in C!Pointers \ {p} : u.memory[q] = s.memory[q]
    BY <1>1, <1>2, FreedMemory DEF refusedAt
  <2> QED
    BY <2>1 DEF freedAt, refusedAt
<1>4. /\ t \in CallStates /\ sameCall(s, t) /\ t.err = u.err /\ t.stranded = u.stranded
      /\ \A q \in C!Pointers \ {p} : t.memory[q] = s.memory[q]
      /\ t.memory = u.memory
  BY <1>3 DEF keptAt, sameCall
<1>5. \A d \in Cores : /\ d # c => t.cores[d] = s.cores[d]
                       /\ t.cores[d].handle = s.cores[d].handle
                       /\ t.cores[d].dropped = s.cores[d].dropped
                       /\ \A x \in C!Buffers : t.cores[d].buffer[x] =
                            IF d = c /\ x = b THEN C!NoBuffer ELSE s.cores[d].buffer[x]
  BY <1>3 DEF keptAt, sameCall
<1>6. distinctBuffers(t)
  <2>1. ASSUME NEW d \in Cores, NEW e \in Cores, NEW x \in C!Buffers, NEW y \in C!Buffers,
               d # e \/ x # y, t.cores[d].buffer[x].pointer # 0
        PROVE  t.cores[d].buffer[x].pointer # t.cores[e].buffer[y].pointer
    <3>1. t.cores[d].buffer[x] = s.cores[d].buffer[x]
      BY <1>5, <2>1, NoBufferFields
    <3>2. CASE e = c /\ y = b
      BY <1>5, <2>1, <3>2, NoBufferFields
    <3>3. CASE ~(e = c /\ y = b)
      <4>1. t.cores[e].buffer[y] = s.cores[e].buffer[y]
        BY <1>5, <3>3
      <4> QED
        BY <1>1, <2>1, <3>1, <4>1 DEF distinctBuffers
    <3> QED
      BY <3>2, <3>3
  <2> QED
    BY <2>1 DEF distinctBuffers
<1>7. \A d \in Cores, x \in C!Buffers : (d # c \/ x # b) => s.cores[d].buffer[x].pointer # p
  BY <1>1 DEF distinctBuffers
<1>8. owned(t) = owned(s) \ {p}
  <2>1. ASSUME NEW q \in C!Pointers, q # 0
        PROVE  q \in owned(t) <=> q \in owned(s) /\ q # p
    <3>1. ASSUME NEW d \in Cores, NEW x \in C!Buffers, t.cores[d].buffer[x].pointer = q
          PROVE  q \in owned(s) /\ q # p
      <4>1. ~(d = c /\ x = b) /\ t.cores[d].buffer[x] = s.cores[d].buffer[x]
        BY <1>5, <2>1, <3>1, NoBufferFields
      <4> QED
        BY <1>7, <3>1, <4>1 DEF owned
    <3>2. ASSUME NEW d \in Cores, NEW x \in C!Buffers, s.cores[d].buffer[x].pointer = q, q # p
          PROVE  q \in owned(t)
      <4>1. t.cores[d].buffer[x] = s.cores[d].buffer[x]
        BY <1>5, <3>2
      <4> QED
        BY <3>2, <4>1 DEF owned
    <3> QED
      BY <3>1, <3>2 DEF owned
  <2>2. 0 \notin C!Pointers /\ owned(s) \subseteq C!Pointers /\ owned(t) \subseteq C!Pointers
    BY DEF C!Pointers, owned
  <2> QED
    BY <2>1, <2>2
<1>9. ASSUME NEW d \in Cores, NEW x \in C!Buffers PROVE goodBuffer(t, d, x, T)
  <2>0. goodBuffer(s, d, x, T)
    BY DEF sound
  <2>1. CASE d = c /\ x = b
    BY <1>5, <2>1, NoBufferFields DEF goodBuffer
  <2>2. CASE ~(d = c /\ x = b)
    <3>1. t.cores[d].buffer[x] = s.cores[d].buffer[x]
      BY <1>5, <2>2
    <3>2. CASE s.cores[d].buffer[x].pointer = 0
      BY <2>0, <3>1, <3>2 DEF goodBuffer
    <3>3. CASE s.cores[d].buffer[x].pointer # 0
      <4>1. s.cores[d].buffer[x].pointer \in C!Pointers \ {p}
        BY <1>1, <1>7, <2>2, <3>3, BufferTypes
      <4>2. t.memory[s.cores[d].buffer[x].pointer] = s.memory[s.cores[d].buffer[x].pointer]
        BY <1>4, <4>1
      <4> QED
        BY <2>0, <3>1, <3>3, <4>2 DEF goodBuffer
    <3> QED
      BY <3>2, <3>3
  <2> QED
    BY <2>1, <2>2
<1>10. /\ t.cores[c].buffer[b] = C!NoBuffer
       /\ \A x \in C!Buffers \ {b} : t.cores[c].buffer[x] = s.cores[c].buffer[x]
  BY <1>5
<1>11. /\ \A q \in t.stranded \cup T : t.memory[q] # 0
       /\ \A q \in C!Pointers : t.memory[q] # 0 => q \in t.stranded \cup T \cup owned(t)
       /\ T \cap t.stranded = {}
       /\ paid(s) \subseteq paid(t)
       /\ t.err => s.err \/ pays(s, t)
  <2>0. 0 \notin s.stranded /\ s.stranded \subseteq C!Pointers
    BY <1>1, CallFields DEF C!Pointers
  <2>1. CASE freedAt(s, u, p)
    <3>1. t.memory[p] = 0 /\ t.stranded = s.stranded \ {p}
      <4>1. u.memory[p] = 0
        BY <1>1, <1>2, <2>1, FreedMemory
      <4> QED
        BY <1>4, <2>1, <4>1 DEF freedAt
    <3>2. t.err = s.err
      BY <1>4, <2>1 DEF freedAt
    <3>3. \A q \in t.stranded \cup T : t.memory[q] # 0
      BY <1>2, <1>4, <2>0, <3>1 DEF sound
    <3>4. \A q \in C!Pointers : t.memory[q] # 0 => q \in t.stranded \cup T \cup owned(t)
      BY <1>4, <1>8, <3>1 DEF sound
    <3>5. T \cap t.stranded = {}
      BY <3>1 DEF sound
    <3>6. paid(s) \subseteq paid(t)
      BY <1>2, <1>8, <2>0, <3>1 DEF paid
    <3> QED
      BY <3>2, <3>3, <3>4, <3>5, <3>6
  <2>2. CASE refusedAt(s, u, p)
    <3>1. t.memory = s.memory /\ t.stranded = s.stranded \cup {p}
      BY <1>4, <2>2 DEF refusedAt
    <3>3. \A q \in t.stranded \cup T : t.memory[q] # 0
      BY <1>2, <3>1 DEF sound
    <3>4. \A q \in C!Pointers : t.memory[q] # 0 => q \in t.stranded \cup T \cup owned(t)
      BY <1>8, <3>1 DEF sound
    <3>5. T \cap t.stranded = {}
      BY <1>2, <3>1 DEF sound
    <3>6. paid(s) \subseteq paid(t) /\ p \in paid(t) /\ p \notin paid(s)
      BY <1>2, <1>8, <2>0, <3>1 DEF paid
    <3> QED
      BY <3>3, <3>4, <3>5, <3>6 DEF pays
  <2> QED
    BY <2>1, <2>2
<1>12. sound(t, T)
  BY <1>1, <1>4, <1>6, <1>9, <1>11 DEF sound, sameCall
<1>13. base(s, t, T)
  <2>1. \A q \in T : t.memory[q] = s.memory[q]
    BY <1>1, <1>2, <1>4
  <2> QED
    BY <1>4, <1>5, <1>11, <2>1 DEF base, sameCall
<1>14. idle(s, t) /\ (s.err => t.err)
  BY <1>3, <1>4 DEF idle, sameCall
<1> QED
  BY <1>10, <1>11, <1>12, <1>13, <1>14

\* What was allocated for the call is kept from now on.
LEMMA HeldNew ==
  ASSUME CoreAssumptions,
         NEW s, NEW T, NEW p \in C!Pointers \ T, sound(s, T \cup {p}), s.core \in Cores,
         NEW b \in C!Buffers, s.cores[s.core].buffer[b] = C!NoBuffer,
         NEW n \in Nat \ {0}, s.memory[p] = n, b = "address" => n = C!socketAddressLength,
         NEW new, new.pointer = p, new.capacity = n, NEW t, keptAt(s, t, b, new)
  PROVE  /\ sound(t, T) /\ base(s, t, T) /\ idle(s, t) /\ t.err = s.err /\ t.pointer = s.pointer
         /\ t.cores[s.core].buffer[b] = new
         /\ \A x \in C!Buffers \ {b} : t.cores[s.core].buffer[x] = s.cores[s.core].buffer[x]
<1> DEFINE c == s.core
<1>0. new.pointer = p /\ new.capacity = n
  OBVIOUS
<1>1. /\ s \in CallStates /\ ~s.overrun /\ T \subseteq C!Pointers /\ p \in C!Pointers /\ p # 0
      /\ distinctBuffers(s) /\ p \notin s.stranded
  BY DEF sound, C!Pointers
<1>2. /\ t \in CallStates /\ sameCall(s, t) /\ t.err = s.err /\ t.stranded = s.stranded
      /\ t.memory = s.memory /\ t.pointer = s.pointer
  BY DEF keptAt
<1>3. \A d \in Cores : /\ d # c => t.cores[d] = s.cores[d]
                       /\ t.cores[d].handle = s.cores[d].handle
                       /\ t.cores[d].dropped = s.cores[d].dropped
                       /\ \A x \in C!Buffers : t.cores[d].buffer[x] =
                            IF d = c /\ x = b THEN new ELSE s.cores[d].buffer[x]
  BY DEF keptAt
<1>4. \A d \in Cores, x \in C!Buffers : s.cores[d].buffer[x].pointer # p
  BY <1>1 DEF sound, goodBuffer
<1>5. distinctBuffers(t)
  <2>1. ASSUME NEW d \in Cores, NEW e \in Cores, NEW x \in C!Buffers, NEW y \in C!Buffers,
               d # e \/ x # y, t.cores[d].buffer[x].pointer # 0
        PROVE  t.cores[d].buffer[x].pointer # t.cores[e].buffer[y].pointer
    <3>1. CASE d = c /\ x = b
      <4>1. t.cores[e].buffer[y] = s.cores[e].buffer[y] /\ t.cores[d].buffer[x] = new
        BY <1>3, <2>1, <3>1
      <4> QED
        BY <1>0, <1>4, <4>1
    <3>2. CASE e = c /\ y = b
      <4>1. t.cores[d].buffer[x] = s.cores[d].buffer[x] /\ t.cores[e].buffer[y] = new
        BY <1>3, <2>1, <3>2
      <4> QED
        BY <1>0, <1>4, <4>1
    <3>3. CASE ~(d = c /\ x = b) /\ ~(e = c /\ y = b)
      <4>1. t.cores[e].buffer[y] = s.cores[e].buffer[y] /\ t.cores[d].buffer[x] = s.cores[d].buffer[x]
        BY <1>3, <3>3
      <4> QED
        BY <1>1, <2>1, <4>1 DEF distinctBuffers
    <3> QED
      BY <3>1, <3>2, <3>3
  <2> QED
    BY <2>1 DEF distinctBuffers
<1>6. owned(t) = owned(s) \cup {p}
  <2>1. ASSUME NEW q \in C!Pointers, q # 0
        PROVE  q \in owned(t) <=> q \in owned(s) \/ q = p
    <3>1. ASSUME NEW d \in Cores, NEW x \in C!Buffers, t.cores[d].buffer[x].pointer = q, q # p
          PROVE  q \in owned(s)
      BY <1>0, <1>3, <3>1 DEF owned
    <3>2. ASSUME NEW d \in Cores, NEW x \in C!Buffers, s.cores[d].buffer[x].pointer = q
          PROVE  q \in owned(t)
      <4>1. t.cores[d].buffer[x] = s.cores[d].buffer[x]
        BY <1>3, <2>1, <3>2, NoBufferFields
      <4> QED
        BY <3>2, <4>1 DEF owned
    <3>3. q = p => q \in owned(t)
      BY <1>0, <1>3 DEF owned
    <3> QED
      BY <3>1, <3>2, <3>3 DEF owned
  <2>2. 0 \notin C!Pointers /\ owned(s) \subseteq C!Pointers /\ owned(t) \subseteq C!Pointers
    BY DEF C!Pointers, owned
  <2> QED
    BY <1>1, <2>1, <2>2
<1>7. ASSUME NEW d \in Cores, NEW x \in C!Buffers PROVE goodBuffer(t, d, x, T)
  <2>0. goodBuffer(s, d, x, T \cup {p})
    BY DEF sound
  <2>1. CASE d = c /\ x = b
    <3>1. t.cores[d].buffer[x] = new
      BY <1>3, <2>1
    <3> QED
      BY <1>0, <1>1, <1>2, <2>1, <3>1 DEF goodBuffer
  <2>2. CASE ~(d = c /\ x = b)
    <3>1. t.cores[d].buffer[x] = s.cores[d].buffer[x]
      BY <1>3, <2>2
    <3> QED
      BY <1>2, <2>0, <3>1 DEF goodBuffer
  <2> QED
    BY <2>1, <2>2
<1>8. 0 \notin s.stranded /\ s.stranded \subseteq C!Pointers
  BY <1>1, CallFields DEF C!Pointers
<1>9. \A q \in C!Pointers : t.memory[q] # 0 => q \in t.stranded \cup T \cup owned(t)
  <2>1. 0 \notin C!Pointers
    BY DEF C!Pointers
  <2> QED
    BY <1>2, <1>6, <2>1 DEF sound
<1>10. sound(t, T)
  <2>1. \A q \in t.stranded \cup T : t.memory[q] # 0
    BY <1>2 DEF sound
  <2>2. T \cap t.stranded = {} /\ ~t.overrun
    BY <1>1, <1>2 DEF sound, sameCall
  <2> QED
    BY <1>1, <1>2, <1>5, <1>7, <1>9, <2>1, <2>2 DEF sound
<1>11. paid(s) \subseteq paid(t)
  BY <1>1, <1>2, <1>6 DEF paid
<1>12. base(s, t, T) /\ idle(s, t)
  BY <1>2, <1>3, <1>11 DEF base, idle, sameCall
<1> QED
  BY <1>2, <1>3, <1>10, <1>12

\* The bytes are in buffers of s.
inside(s, bytes) ==
  \A x \in bytes : IF x[1] = 0 THEN ~(x[2] > 0) ELSE ~(s.memory[x[1]] < x[2])

\* The guest that keeps to them does no harm.
LEMMA Touched ==
  ASSUME NEW s \in CallStates, ~s.overrun, NEW bytes, inside(s, bytes)
  PROVE  C!Touch(s, bytes) = s
<1>1. (s.overrun \/ \E x \in bytes : IF x[1] = 0 THEN x[2] > 0 ELSE s.memory[x[1]] < x[2]) = s.overrun
  BY CallFields DEF inside
<1>2. C!Touch(s, bytes) = [s EXCEPT !.overrun = s.overrun]
  BY <1>1 DEF C!Touch
<1> QED
  BY <1>2 DEF CallStates

\* A range that fits a live buffer is inside the memory.
LEMMA InsideOne ==
  ASSUME NEW s \in CallStates, NEW p \in C!Pointers, NEW n \in Nat, s.memory[p] >= n
  PROVE  inside(s, {<<p, n>>})
<1>0. s.memory[p] \in Nat
  BY CallFields
<1>1. p # 0 /\ s.memory[p] \in Nat
  BY <1>0 DEF C!Pointers
<1>2. ~(s.memory[p] < n)
  BY <1>1
<1> QED
  BY <1>1, <1>2 DEF inside

\* .. and so are two ranges that are.
LEMMA InsideBoth ==
  ASSUME NEW s, NEW A, NEW B, inside(s, A), inside(s, B)
  PROVE  inside(s, A \cup B)
BY DEF inside

\* What errorMessage can find: nothing, or a text that it copies.
LEMMA ErrorMessageCases ==
  ASSUME NEW s, NEW t \in C!errorMessage(s)
  PROVE  \/ t = s \/ t = C!Fail(s)
         \/ \E u \in C!allocate(s, C!EnvelopeLength) :
              IF u.err THEN t = u
              ELSE \E v \in {C!Fail(u), C!Touch(u, {<<u.pointer, C!EnvelopeLength>>}),
                             C!Fail(C!Touch(u, {<<u.pointer, C!EnvelopeLength>>}))} :
                     t \in C!cleanupBuffer(v, u.pointer)
BY DEF C!errorMessage, C!Then, C!WithBuffer, C!Released, C!callOne

\* An error status leaves everything as it was.
LEMMA StatusError ==
  ASSUME CoreAssumptions, NEW s, NEW T, sound(s, T), ~s.err, NEW t \in C!statusError(s)
  PROVE  sound(t, T) /\ base(s, t, T) /\ idle(s, t) /\ t.err
<1>1. PICK e \in C!errorMessage(s) : t = C!Fail(e)
  BY DEF C!statusError
<1>2. sound(e, T) /\ base(s, e, T) /\ idle(s, e)
  <2>1. CASE e = s
    BY <2>1, BaseReflexive DEF idle
  <2>2. CASE e = C!Fail(s)
    BY <2>2, FailedIsSound
  <2>3. ASSUME NEW u \in C!allocate(s, C!EnvelopeLength),
               IF u.err THEN e = u
               ELSE \E v \in {C!Fail(u), C!Touch(u, {<<u.pointer, C!EnvelopeLength>>}),
                              C!Fail(C!Touch(u, {<<u.pointer, C!EnvelopeLength>>}))} :
                      e \in C!cleanupBuffer(v, u.pointer)
        PROVE  sound(e, T) /\ base(s, e, T) /\ idle(s, e)
    <3>0. C!EnvelopeLength \in Nat \ {0} /\ C!EnvelopeLength \in Nat
      BY DEF C!EnvelopeLength
    <3>1. CASE u = C!Fail(s)
      BY <2>3, <3>1, FailedIsSound
    <3>2. CASE u # C!Fail(s)
      <4>1. /\ ~u.err /\ u.pointer \in C!Pointers \ T /\ u.memory[u.pointer] = C!EnvelopeLength
            /\ sound(u, T \cup {u.pointer}) /\ base(s, u, T) /\ idle(s, u)
        BY <3>0, <3>2, Allocated
      <4>2. u \in CallStates /\ ~u.overrun
        BY <4>1 DEF sound
      <4>3. C!Touch(u, {<<u.pointer, C!EnvelopeLength>>}) = u
        <5>1. inside(u, {<<u.pointer, C!EnvelopeLength>>})
          BY <3>0, <4>1, <4>2, InsideOne
        <5> QED
          BY <4>2, <5>1, Touched
      <4>4. PICK v \in {C!Fail(u), u} : e \in C!cleanupBuffer(v, u.pointer)
        BY <2>3, <4>1, <4>3
      <4>5. sound(v, T \cup {u.pointer}) /\ base(u, v, T \cup {u.pointer}) /\ idle(u, v)
        BY <4>1, FailedIsSound, BaseReflexive DEF idle
      <4>6. sound(e, T) /\ base(v, e, T) /\ idle(v, e)
        BY <4>1, <4>4, <4>5, Cleaned
      <4>7. base(s, v, T)
        BY <4>1, <4>5, BaseTransitive
      <4>8. base(s, e, T)
        BY <4>6, <4>7, BaseTransitive
      <4> QED
        BY <4>1, <4>5, <4>6, <4>8 DEF idle
    <3> QED
      BY <3>1, <3>2
  <2> QED
    BY <2>1, <2>2, <2>3, ErrorMessageCases
<1>3. sound(t, T) /\ base(e, t, T) /\ idle(e, t) /\ t.err
  BY <1>1, <1>2, FailedIsSound
<1>4. base(s, t, T)
  BY <1>2, <1>3, BaseTransitive
<1> QED
  BY <1>2, <1>3, <1>4 DEF idle

\* The guest answers what it is asked to, or it changed nothing.
LEMMA Answered ==
  ASSUME CoreAssumptions, NEW s, NEW T, sound(s, T), ~s.err, NEW d, NEW t \in C!Answer(s, d)
  PROVE  t = d \/ (sound(t, T) /\ base(s, t, T) /\ idle(s, t) /\ t.err)
<1>1. t = d \/ t = C!Fail(s) \/ t \in C!statusError(s)
  BY DEF C!Answer, C!callOne
<1> QED
  BY <1>1, FailedIsSound, StatusError

\* The first step of grow frees the old buffer, the second one allocates the new.
emptied(s, u, b) ==
  LET p == s.cores[s.core].buffer[b].pointer
  IN  \/ p = 0 /\ u = s
      \/ p # 0 /\ \E f \in C!free(s, p) : u = IF f.err THEN f ELSE C!Keep(f, b, C!NoBuffer)

\* .. and then a new buffer is allocated and kept, unless that failed.
refilled(s, t, b, n) ==
  \/ s.err /\ t = s
  \/ /\ ~s.err
     /\ \E v \in C!allocate(s, n) :
          t = IF v.err THEN v ELSE C!Keep(v, b, [pointer |-> v.pointer, capacity |-> n])

\* grow keeps a buffer that is large enough; it empties and refills one that is not.
LEMMA GrowCases ==
  ASSUME NEW s, NEW b, NEW n, NEW t \in C!grow(s, b, n)
  PROVE  \/ /\ s.cores[s.core].buffer[b].capacity >= n
            /\ t = [s EXCEPT !.pointer = s.cores[s.core].buffer[b].pointer]
         \/ /\ ~(s.cores[s.core].buffer[b].capacity >= n)
            /\ \E u : emptied(s, u, b) /\ refilled(u, t, b, n)
BY DEF C!grow, C!Then, emptied, refilled

\* What the part of a call that provides a buffer may change.
provides(s, t, b, n, T) ==
  /\ sound(t, T) /\ base(s, t, T) /\ idle(s, t)
  /\ \A x \in C!Buffers \ {b} : t.cores[s.core].buffer[x] = s.cores[s.core].buffer[x]
  /\ ~t.err => /\ t.pointer \in C!Pointers
               /\ t.pointer = t.cores[s.core].buffer[b].pointer
               /\ t.cores[s.core].buffer[b].capacity >= n

\* The Core keeps a buffer that was allocated for it.
LEMMA KeepsNew ==
  ASSUME CoreAssumptions, NEW s, NEW T, sound(s, T), ~s.err, s.core \in Cores, NEW b \in C!Buffers,
         s.cores[s.core].buffer[b] = C!NoBuffer, NEW n \in Nat \ {0},
         b = "address" => n = C!socketAddressLength,
         NEW v \in C!allocate(s, n), NEW t,
         t = IF v.err THEN v ELSE C!Keep(v, b, [pointer |-> v.pointer, capacity |-> n])
  PROVE  provides(s, t, b, n, T)
<1>1. CASE v = C!Fail(s)
  <2>1. sound(t, T) /\ base(s, t, T) /\ idle(s, t) /\ t.err /\ t = C!Fail(s)
    BY <1>1, FailedIsSound
  <2>2. t.cores = s.cores
    BY <2>1, FailShape DEF sameBuffers, sound
  <2> QED
    BY <2>1, <2>2 DEF provides
<1>2. CASE v # C!Fail(s)
  <2> DEFINE p == v.pointer
             new == [pointer |-> p, capacity |-> n]
  <2>1. /\ ~v.err /\ p \in C!Pointers \ T /\ v.memory[p] = n
        /\ sound(v, T \cup {p}) /\ base(s, v, T) /\ idle(s, v) /\ v.cores = s.cores
    BY <1>2, Allocated
  <2>2. v \in CallStates /\ v.core = s.core
    BY <2>1 DEF sound, base
  <2>3. new \in C!BufferFields
    BY <2>1 DEF C!BufferFields, C!Pointers, CoreAssumptions, C!BoundsAssumption
  <2>4. keptAt(v, t, b, new)
    BY <2>1, <2>2, <2>3, KeepShape
  <2>5. /\ sound(t, T) /\ base(v, t, T) /\ idle(v, t) /\ t.err = v.err /\ t.pointer = p
        /\ t.cores[s.core].buffer[b] = new
        /\ \A x \in C!Buffers \ {b} : t.cores[s.core].buffer[x] = v.cores[s.core].buffer[x]
    <3>0. new.pointer = p /\ new.capacity = n
      OBVIOUS
    <3> HIDE DEF p, new
    <3>1. /\ v.core \in Cores /\ v.cores[v.core].buffer[b] = C!NoBuffer /\ p \in C!Pointers \ T
          /\ sound(v, T \cup {p}) /\ v.memory[p] = n
      BY <2>1, <2>2
    <3>2. /\ sound(t, T) /\ base(v, t, T) /\ idle(v, t) /\ t.err = v.err /\ t.pointer = v.pointer
          /\ t.cores[v.core].buffer[b] = new
          /\ \A x \in C!Buffers \ {b} : t.cores[v.core].buffer[x] = v.cores[v.core].buffer[x]
      BY <2>4, <3>0, <3>1, HeldNew
    <3> QED
      BY <2>2, <3>2 DEF p
  <2>6. base(s, t, T) /\ idle(s, t)
    BY <2>1, <2>5, BaseTransitive DEF idle
  <2>7. new.pointer = p /\ new.capacity = n /\ p \in C!Pointers
    BY <2>1
  <2> HIDE DEF new, p
  <2> QED
    BY <2>1, <2>5, <2>6, <2>7 DEF provides
<1> QED
  BY <1>1, <1>2

\* A buffer with room for n bytes, whatever failed before.
LEMMA Grown ==
  ASSUME CoreAssumptions,
         NEW s, NEW T, sound(s, T), ~s.err, s.core \in Cores, NEW b \in C!Buffers \ {"address"},
         NEW n \in Nat \ {0}, NEW t \in C!grow(s, b, n)
  PROVE  provides(s, t, b, n, T)
<1> DEFINE old == s.cores[s.core].buffer[b]
<1>1. s \in CallStates /\ b \in C!Buffers /\ goodBuffer(s, s.core, b, T)
  BY DEF sound
<1>2. old \in C!BufferFields /\ old.pointer \in 0 .. Memory /\ old.capacity \in Nat
  BY <1>1, BufferTypes
<1>3. CASE old.capacity >= n
  <2>1. t = [s EXCEPT !.pointer = old.pointer]
    BY <1>3, GrowCases
  <2>2. sameBuffers(s, t) /\ t.err = s.err /\ t.pointer = old.pointer
    BY <1>1, <1>2, <2>1, PointerShape
  <2>3. sound(t, T) /\ base(s, t, T) /\ idle(s, t) /\ t.cores = s.cores
    BY <2>2, SameBuffers DEF sameBuffers
  <2>4. old.pointer # 0
    BY <1>1, <1>2, <1>3 DEF goodBuffer, C!NoBuffer
  <2>5. old.pointer \in C!Pointers
    BY <1>1, <2>4, BufferTypes
  <2> QED
    BY <1>3, <2>2, <2>3, <2>5 DEF provides
<1>4. CASE ~(old.capacity >= n)
  <2>1. PICK u : emptied(s, u, b) /\ refilled(u, t, b, n)
    BY <1>4, GrowCases
  <2>2. /\ sound(u, T) /\ base(s, u, T) /\ idle(s, u)
        /\ ~u.err => u.cores[s.core].buffer[b] = C!NoBuffer
        /\ \A x \in C!Buffers \ {b} : u.cores[s.core].buffer[x] = s.cores[s.core].buffer[x]
    <3>1. CASE old.pointer = 0
      <4>1. u = s /\ old = C!NoBuffer
        BY <1>1, <2>1, <3>1 DEF goodBuffer, emptied
      <4> QED
        BY <4>1, BaseReflexive DEF idle
    <3>2. CASE old.pointer # 0
      <4>1. PICK f \in C!free(s, old.pointer) : u = IF f.err THEN f ELSE C!Keep(f, b, C!NoBuffer)
        BY <2>1, <3>2 DEF emptied
      <4>2. old.pointer \in C!Pointers
        BY <1>1, <3>2, BufferTypes
      <4>3. freedAt(s, f, old.pointer) \/ refusedAt(s, f, old.pointer)
        BY <1>1, <4>2, FreeCases
      <4>4. CASE f.err
        <5>1. refusedAt(s, f, old.pointer) /\ u = f
          BY <4>1, <4>3, <4>4 DEF freedAt
        <5>2. sound(u, T) /\ base(s, u, T) /\ idle(s, u) /\ u.err
          BY <1>1, <3>2, <5>1, HeldRefused
        <5> QED
          BY <5>1, <5>2 DEF refusedAt
      <4>5. CASE ~f.err
        <5>1. u = C!Keep(f, b, C!NoBuffer)
          BY <4>1, <4>5
        <5>2. f \in CallStates /\ f.core = s.core
          BY <4>3 DEF freedAt, refusedAt, sameCall
        <5>3. keptAt(f, u, b, C!NoBuffer)
          BY <1>1, <5>1, <5>2, KeepShape, NoBufferFields
        <5>4. /\ sound(u, T) /\ base(s, u, T) /\ idle(s, u)
              /\ u.cores[s.core].buffer[b] = C!NoBuffer
              /\ \A x \in C!Buffers \ {b} : u.cores[s.core].buffer[x] = s.cores[s.core].buffer[x]
          <6> DEFINE p == old.pointer
          <6>1. p = s.cores[s.core].buffer[b].pointer /\ p # 0 /\ (freedAt(s, f, p) \/ refusedAt(s, f, p))
            BY <3>2, <4>3
          <6> HIDE DEF p, old
          <6> QED
            BY <6>1, <5>3, HeldDropped
        <5> QED
          BY <5>4
      <4> QED
        BY <4>4, <4>5
    <3> QED
      BY <3>1, <3>2
  <2>3. CASE u.err
    BY <2>1, <2>2, <2>3 DEF provides, refilled
  <2>4. CASE ~u.err
    <3>1. u.core = s.core
      BY <2>2 DEF base
    <3>2. provides(u, t, b, n, T)
      <4>1. PICK v \in C!allocate(u, n) :
              t = IF v.err THEN v ELSE C!Keep(v, b, [pointer |-> v.pointer, capacity |-> n])
        BY <2>1, <2>4 DEF refilled
      <4> QED
        BY <1>1, <2>2, <2>4, <3>1, <4>1, KeepsNew
    <3>3. base(s, t, T)
      BY <2>2, <3>2, BaseTransitive DEF provides
    <3> QED
      BY <2>2, <3>1, <3>2, <3>3 DEF provides, idle
  <2> QED
    BY <2>3, <2>4
<1> QED
  BY <1>3, <1>4

\* .. and one for an address.
LEMMA AddressProvided ==
  ASSUME CoreAssumptions,
         NEW s, NEW T, sound(s, T), ~s.err, s.core \in Cores, NEW t \in C!ensureDataPlaneAddress(s)
  PROVE  provides(s, t, "address", C!socketAddressLength, T)
<1> DEFINE old == s.cores[s.core].buffer["address"]
<1>0. C!socketAddressLength \in Nat \ {0} /\ "address" \in C!Buffers
  BY DEF C!socketAddressLength, C!Buffers
<1>1. s \in CallStates /\ goodBuffer(s, s.core, "address", T)
  BY <1>0 DEF sound
<1>2. old \in C!BufferFields /\ old.pointer \in 0 .. Memory /\ old.capacity \in Nat
  BY <1>0, <1>1, BufferTypes
<1>3. CASE old.pointer # 0
  <2>1. t = [s EXCEPT !.pointer = old.pointer]
    BY <1>3 DEF C!ensureDataPlaneAddress
  <2>2. sameBuffers(s, t) /\ t.err = s.err /\ t.pointer = old.pointer
    BY <1>1, <1>2, <2>1, PointerShape
  <2>3. sound(t, T) /\ base(s, t, T) /\ idle(s, t) /\ t.cores = s.cores
    BY <2>2, SameBuffers DEF sameBuffers
  <2>4. old.capacity = C!socketAddressLength
    BY <1>1, <1>3 DEF goodBuffer
  <2>5. old.pointer \in C!Pointers
    BY <1>0, <1>1, <1>3, BufferTypes
  <2> QED
    BY <1>0, <2>2, <2>3, <2>4, <2>5 DEF provides
<1>4. CASE old.pointer = 0
  <2>1. PICK v \in C!allocate(s, C!socketAddressLength) :
          t = IF v.err THEN v
              ELSE C!Keep(v, "address", [pointer |-> v.pointer, capacity |-> C!socketAddressLength])
    BY <1>4 DEF C!ensureDataPlaneAddress, C!Then
  <2>2. old = C!NoBuffer
    BY <1>1, <1>4 DEF goodBuffer
  <2> QED
    BY <1>0, <2>1, <2>2, KeepsNew
<1> QED
  BY <1>3, <1>4

\* States that differ in neither memory nor buffers.
sameHolding(s, t) ==
  /\ t \in CallStates /\ t.core = s.core /\ t.overrun = s.overrun
  /\ t.memory = s.memory /\ t.stranded = s.stranded
  /\ \A c \in Cores, b \in C!Buffers : t.cores[c].buffer[b] = s.cores[c].buffer[b]

\* A step that touches no buffer keeps the buffers in order.
LEMMA SameHolding ==
  ASSUME NEW s, NEW T, sound(s, T), NEW t, sameHolding(s, t)
  PROVE  sound(t, T) /\ paid(t) = paid(s)
<1>1. owned(t) = owned(s) /\ paid(t) = paid(s)
  BY DEF owned, paid, sameHolding
<1>2. distinctBuffers(t)
  <2>1. ASSUME NEW d \in Cores, NEW e \in Cores, NEW x \in C!Buffers, NEW y \in C!Buffers,
               d # e \/ x # y, t.cores[d].buffer[x].pointer # 0
        PROVE  t.cores[d].buffer[x].pointer # t.cores[e].buffer[y].pointer
    <3>1. t.cores[d].buffer[x] = s.cores[d].buffer[x] /\ t.cores[e].buffer[y] = s.cores[e].buffer[y]
      BY DEF sameHolding
    <3> QED
      BY <2>1, <3>1 DEF sound, distinctBuffers
  <2> QED
    BY <2>1 DEF distinctBuffers
<1>3. \A c \in Cores, b \in C!Buffers : goodBuffer(t, c, b, T)
  BY DEF sound, sameHolding, goodBuffer
<1> QED
  BY <1>1, <1>2, <1>3 DEF sound, sameHolding

\* .. nor in anything but the guest and what it answers.
guestAt(s, t, g, a) ==
  /\ t \in CallStates /\ t.core = s.core /\ t.overrun = s.overrun /\ t.web = s.web
  /\ t.memory = s.memory /\ t.stranded = s.stranded /\ t.cores = s.cores /\ t.pointer = s.pointer
  /\ t.batch = s.batch /\ t.guest = g /\ t.answer = a

\* A step of the guest alone keeps them in order.
LEMMA GuestAt ==
  ASSUME NEW s, NEW T, sound(s, T), NEW t, NEW g, NEW a, guestAt(s, t, g, a)
  PROVE  sound(t, T) /\ base(s, t, T)
<1>1. sameHolding(s, t)
  BY DEF guestAt, sameHolding
<1>2. sound(t, T) /\ paid(t) = paid(s)
  BY <1>1, SameHolding
<1> QED
  BY <1>2 DEF base, guestAt

\* The guest with one operation changed.
with(g, o, x) == [g EXCEPT !.operations[o] = x]

\* Changing the state of one operation changes nothing else in the guest.
LEMMA WithOperation ==
  ASSUME NEW g \in C!GuestFields, NEW o \in C!Operations,
         NEW x \in {"none", "pending", "completed", "announced"}
  PROVE  /\ with(g, o, x) \in C!GuestFields
         /\ with(g, o, x).instances = g.instances /\ with(g, o, x).web = g.web
         /\ with(g, o, x).operations[o] = x
         /\ \A r \in C!Operations \ {o} : with(g, o, x).operations[r] = g.operations[r]
BY DEF C!GuestFields, with

\* Such a change is a step of the guest alone.
LEMMA OperationShape ==
  ASSUME NEW s \in CallStates, NEW o \in C!Operations,
         NEW x \in {"none", "pending", "completed", "announced"}
  PROVE  LET t == [s EXCEPT !.guest.operations[o] = x]
         IN  guestAt(s, t, with(s.guest, o, x), s.answer) /\ t.err = s.err
<1>1. with(s.guest, o, x) \in C!GuestFields
  BY CallFields, WithOperation
<1>2. [s EXCEPT !.guest.operations[o] = x] = [s EXCEPT !.guest = with(s.guest, o, x)]
  BY DEF with
<1> QED
  BY <1>1, <1>2 DEF CallStates, guestAt

\* What a call that asks the guest for something ends in: an error that changed
\* nothing, or a guest g and an answer a; an error that comes after that has its
\* price.
asked(s, t, g, a, T) ==
  /\ sound(t, T) /\ base(s, t, T)
  /\ \/ t.err /\ idle(s, t)
     \/ t.guest = g /\ t.answer = a /\ t.batch = s.batch /\ (t.err => pays(s, t))

\* A request may fail before the guest has done anything ..
LEMMA AskedFails ==
  ASSUME NEW s, NEW t, NEW g, NEW a, NEW T, sound(t, T), base(s, t, T), idle(s, t), t.err
  PROVE  asked(s, t, g, a, T)
BY DEF asked

\* .. or be granted ..
LEMMA AskedDone ==
  ASSUME NEW s, NEW t, NEW g, NEW a, NEW T, sound(s, T), guestAt(s, t, g, a), ~t.err
  PROVE  asked(s, t, g, a, T)
<1>1. sound(t, T) /\ base(s, t, T)
  BY GuestAt
<1> QED
  BY <1>1 DEF asked, guestAt

\* .. or be answered with either ..
LEMMA AskedAnswer ==
  ASSUME CoreAssumptions,
         NEW s, NEW T, sound(s, T), ~s.err, NEW d, NEW g, NEW a, guestAt(s, d, g, a), ~d.err,
         NEW t \in C!Answer(s, d)
  PROVE  asked(s, t, g, a, T)
<1>1. t = d \/ (sound(t, T) /\ base(s, t, T) /\ idle(s, t) /\ t.err)
  BY Answered
<1> QED
  BY <1>1, AskedFails, AskedDone

\* .. and what was prepared before it does not matter.
LEMMA AskedAfter ==
  ASSUME NEW s, NEW u, NEW t, NEW g, NEW a, NEW T, base(s, u, T), idle(s, u), asked(u, t, g, a, T)
  PROVE  asked(s, t, g, a, T)
<1>1. base(s, t, T) /\ (pays(u, t) => pays(s, t))
  BY BaseTransitive DEF asked
<1> QED
  BY <1>1 DEF asked, idle

\* .. and also when a buffer for the call is to be freed in the end.
LEMMA AskedInside ==
  ASSUME CoreAssumptions, NEW s, NEW u, NEW v, NEW t, NEW g, NEW a, NEW T, NEW p \in C!Pointers \ T,
         base(s, u, T), idle(s, u), asked(u, v, g, a, T \cup {p}), t \in C!cleanupBuffer(v, p)
  PROVE  asked(s, t, g, a, T)
<1>1. sound(v, T \cup {p}) /\ base(u, v, T \cup {p})
  BY DEF asked
<1>2. /\ sound(t, T) /\ base(v, t, T) /\ idle(v, t) /\ (v.err => t.err)
      /\ t.err => v.err \/ pays(v, t)
  BY <1>1, Cleaned
<1>3. base(u, t, T) /\ (pays(v, t) => pays(u, t)) /\ (pays(u, v) => pays(u, t))
  <2>1. base(u, v, T)
    BY <1>1 DEF base
  <2> QED
    BY <1>2, <2>1, BaseTransitive
<1>4. asked(u, t, g, a, T)
  BY <1>2, <1>3 DEF asked, idle
<1> QED
  BY <1>4, AskedAfter

-----------------------------------------------------------------------------
(* The methods.                                                            *)

\* The bytes are those of buffers for the call, or of buffers the Core keeps and
\* does not change when it provides b.
covered(s, bytes, b, T) ==
  \A x \in bytes :
    \/ x[1] = 0 /\ x[2] = 0
    \/ x[1] \in T /\ x[2] \in Nat /\ s.memory[x[1]] >= x[2]
    \/ \E y \in C!Buffers \ {b} : LET kept == s.cores[s.core].buffer[y]
                                IN  kept.pointer # 0 /\ x[1] = kept.pointer /\ x[2] \in Nat
                                    /\ kept.capacity >= x[2]

\* The bytes of a buffer the Core keeps ..
LEMMA KeptIsCovered ==
  ASSUME NEW s, NEW b, NEW T, NEW y \in C!Buffers \ {b}, NEW p, NEW n \in Nat, p # 0,
         s.cores[s.core].buffer[y].pointer = p, s.cores[s.core].buffer[y].capacity >= n
  PROVE  covered(s, {<<p, n>>}, b, T)
BY DEF covered

\* .. and of two of them.
LEMMA BothAreCovered ==
  ASSUME NEW s, NEW b, NEW T, NEW x, NEW y, covered(s, {x}, b, T), covered(s, {y}, b, T)
  PROVE  covered(s, {x, y}, b, T)
BY DEF covered

\* No bytes at all.
LEMMA NothingIsCovered ==
  ASSUME NEW s, NEW b, NEW T
  PROVE  covered(s, {<<0, 0>>}, b, T)
BY DEF covered

\* Providing one buffer leaves the bytes of the others where they were.
LEMMA CoveredKept ==
  ASSUME NEW s, NEW t, NEW bytes, NEW b, NEW n, NEW T, covered(s, bytes, b, T),
         provides(s, t, b, n, T)
  PROVE  covered(t, bytes, b, T)
<1>1. t.core = s.core /\ \A p \in T : t.memory[p] = s.memory[p]
  BY DEF provides, base
<1>2. \A y \in C!Buffers \ {b} : t.cores[t.core].buffer[y] = s.cores[s.core].buffer[y]
  BY <1>1 DEF provides
<1>3. ASSUME NEW x \in bytes
      PROVE  \/ x[1] = 0 /\ x[2] = 0
             \/ x[1] \in T /\ x[2] \in Nat /\ t.memory[x[1]] >= x[2]
             \/ \E y \in C!Buffers \ {b} : LET kept == t.cores[t.core].buffer[y]
                                         IN  kept.pointer # 0 /\ x[1] = kept.pointer
                                             /\ x[2] \in Nat /\ kept.capacity >= x[2]
  <2>1. CASE x[1] = 0 /\ x[2] = 0
    BY <2>1
  <2>2. CASE x[1] \in T /\ x[2] \in Nat /\ s.memory[x[1]] >= x[2]
    BY <1>1, <2>2
  <2>3. ASSUME NEW y \in C!Buffers \ {b}, s.cores[s.core].buffer[y].pointer # 0,
               x[1] = s.cores[s.core].buffer[y].pointer, x[2] \in Nat,
               s.cores[s.core].buffer[y].capacity >= x[2]
        PROVE  \E z \in C!Buffers \ {b} : LET kept == t.cores[t.core].buffer[z]
                                         IN  kept.pointer # 0 /\ x[1] = kept.pointer
                                             /\ x[2] \in Nat /\ kept.capacity >= x[2]
    BY <1>2, <2>3
  <2> QED
    BY <2>1, <2>2, <2>3 DEF covered
<1> QED
  BY <1>3 DEF covered

\* Bytes covered by buffers the caller holds are inside the memory.
LEMMA CoveredInside ==
  ASSUME CoreAssumptions,
         NEW s, NEW bytes, NEW b, NEW T, sound(s, T), s.core \in Cores, covered(s, bytes, b, T)
  PROVE  inside(s, bytes)
<1> SUFFICES ASSUME NEW x \in bytes
             PROVE  IF x[1] = 0 THEN ~(x[2] > 0) ELSE ~(s.memory[x[1]] < x[2])
  BY DEF inside
<1>0. s \in CallStates /\ T \subseteq C!Pointers /\ s.memory \in [C!Pointers -> Nat]
  BY CallFields DEF sound
<1>1. CASE x[1] = 0 /\ x[2] = 0
  BY <1>1
<1>2. CASE x[1] \in T /\ x[2] \in Nat /\ s.memory[x[1]] >= x[2]
  <2>1. s.memory[x[1]] \in Nat /\ x[1] \in C!Pointers
    BY <1>0, <1>2
  <2>2. x[1] # 0
    BY <2>1 DEF C!Pointers
  <2> QED
    BY <1>2, <2>1, <2>2
<1>3. ASSUME NEW y \in C!Buffers, s.cores[s.core].buffer[y].pointer # 0,
             x[1] = s.cores[s.core].buffer[y].pointer, x[2] \in Nat,
             s.cores[s.core].buffer[y].capacity >= x[2]
      PROVE  IF x[1] = 0 THEN ~(x[2] > 0) ELSE ~(s.memory[x[1]] < x[2])
  <2>1. goodBuffer(s, s.core, y, T)
    BY DEF sound
  <2>2. s.memory[x[1]] >= s.cores[s.core].buffer[y].capacity
    BY <1>3, <2>1 DEF goodBuffer
  <2>3. s.cores[s.core].buffer[y].capacity \in Nat /\ x[1] \in C!Pointers
    BY <1>0, <1>3, BufferTypes
  <2>4. s.memory[x[1]] \in Nat
    BY <1>0, <2>3
  <2> QED
    BY <1>3, <2>2, <2>3, <2>4
<1> QED
  BY <1>1, <1>2, <1>3 DEF covered

\* A provided buffer is as large as it should be.
LEMMA ProvidedIsInside ==
  ASSUME CoreAssumptions, NEW s, NEW t, NEW b \in C!Buffers, NEW n \in Nat, NEW T, s.core \in Cores,
         provides(s, t, b, n, T), ~t.err
  PROVE  inside(t, {<<t.pointer, n>>})
<1>1. sound(t, T) /\ t.core = s.core /\ t.pointer \in C!Pointers
  BY DEF provides, base
<1>2. t \in CallStates /\ goodBuffer(t, s.core, b, T)
  BY <1>1 DEF sound
<1>3. t.memory[t.pointer] >= n
  <2>1. t.pointer = t.cores[s.core].buffer[b].pointer /\ t.cores[s.core].buffer[b].capacity >= n
    BY DEF provides
  <2>2. t.pointer # 0
    BY <1>1 DEF C!Pointers
  <2>3. t.memory[t.pointer] >= t.cores[s.core].buffer[b].capacity
    BY <1>2, <2>1, <2>2 DEF goodBuffer
  <2>4. t.memory[t.pointer] \in Nat
    BY <1>1, <1>2, CallFields
  <2>5. t.cores[s.core].buffer[b].capacity \in Nat
    BY <1>2, BufferTypes
  <2> QED
    BY <2>1, <2>3, <2>4, <2>5
<1> QED
  BY <1>1, <1>2, <1>3, InsideOne

\* .. and is used with the bytes that were covered before.
LEMMA ProvidedInside ==
  ASSUME CoreAssumptions,
         NEW s, NEW t, NEW bytes, NEW b \in C!Buffers, NEW n \in Nat, NEW T, s.core \in Cores,
         covered(s, bytes, b, T), provides(s, t, b, n, T), ~t.err
  PROVE  C!Touch(t, bytes \cup {<<t.pointer, n>>}) = t
<1>1. sound(t, T) /\ t.core = s.core
  BY DEF provides, base
<1>2. inside(t, bytes)
  BY <1>1, CoveredKept, CoveredInside
<1>3. t \in CallStates /\ ~t.overrun
  BY <1>1 DEF sound
<1>4. inside(t, {<<t.pointer, n>>})
  BY ProvidedIsInside
<1> QED
  BY <1>2, <1>3, <1>4, InsideBoth, Touched

\* The guest may write the whole of a buffer that was just provided.
LEMMA ProvidedAlone ==
  ASSUME CoreAssumptions, NEW s, NEW t, NEW b \in C!Buffers, NEW n \in Nat, NEW T, s.core \in Cores,
         provides(s, t, b, n, T), ~t.err
  PROVE  C!Touch(t, {<<t.pointer, n>>}) = t
<1>1. covered(s, {}, b, T)
  BY DEF covered
<1>2. C!Touch(t, {} \cup {<<t.pointer, n>>}) = t
  BY <1>1, ProvidedInside
<1> QED
  BY <1>2

\* A call that asks for nothing that stays.
quiet(s, t) == sound(t, {}) /\ base(s, t, {}) /\ idle(s, t)

\* Calls that pass no buffer and leave nothing in the guest.
LEMMA QuietCall ==
  ASSUME CoreAssumptions, NEW s, sound(s, {}), ~s.err,
         NEW t \in C!Start(s) \cup C!Stop(s) \cup C!Drive(s) \cup C!NotifyCompletions(s) \cup C!State(s)
                   \cup C!NextDeadline(s) \cup C!CloseResource(s) \cup C!SetResourceDeadline(s)
                   \cup C!WebClientCall(s)
  PROVE  quiet(s, t)
<1>1. t = C!Fail(s) \/ t \in C!Answer(s, s)
  BY DEF C!Start, C!Stop, C!Drive, C!NotifyCompletions, C!State, C!NextDeadline, C!CloseResource,
         C!SetResourceDeadline, C!WebClientCall, C!callStatus, C!dataPlaneCallStatus
<1>2. t = s \/ (sound(t, {}) /\ base(s, t, {}) /\ idle(s, t))
  BY <1>1, Answered, FailedIsSound
<1> QED
  BY <1>2, BaseReflexive DEF quiet, idle

\* SendPacket leaves nothing in the guest but the packet.
LEMMA PacketSent ==
  ASSUME CoreAssumptions,
         NEW s, sound(s, {}), ~s.err, s.core \in Cores, NEW n \in Nat \ {0}, NEW t \in C!SendPacket(s, n)
  PROVE  quiet(s, t)
<1>1. PICK u \in C!ensurePacketBuffer(s, n) :
        IF u.err THEN t = u ELSE t \in C!Answer(u, C!Touch(u, {<<u.pointer, n>>}))
  BY DEF C!SendPacket, C!Then
<1>2. provides(s, u, "packet", n, {})
  BY Grown DEF C!ensurePacketBuffer, C!Buffers
<1>3. quiet(s, u)
  BY <1>2 DEF provides, quiet
<1>4. CASE u.err
  BY <1>1, <1>3, <1>4
<1>5. CASE ~u.err
  <2>1. C!Touch(u, {<<u.pointer, n>>}) = u
    BY <1>2, <1>5, ProvidedAlone DEF C!Buffers
  <2>2. t = u \/ (sound(t, {}) /\ base(u, t, {}) /\ idle(u, t))
    BY <1>1, <1>3, <1>5, <2>1, Answered DEF quiet
  <2>3. CASE t = u
    BY <1>3, <2>3
  <2>4. CASE sound(t, {}) /\ base(u, t, {}) /\ idle(u, t)
    BY <1>3, <2>4, BaseTransitive DEF quiet, idle
  <2> QED
    BY <2>2, <2>3, <2>4
<1> QED
  BY <1>4, <1>5

\* An operation of a Core.
operation(c, kind) == [core |-> c, kind |-> kind]

\* An operation of a Core is one of the operations.
LEMMA OperationType ==
  ASSUME NEW c \in Cores, NEW kind \in Kinds \cup {C!RPC}
  PROVE  operation(c, kind) \in C!Operations
BY DEF C!Operations, operation

\* The guest has accepted an operation, or not.
accepted(s, t, kind, T) ==
  asked(s, t, with(s.guest, operation(s.core, kind), "pending"), s.answer, T)

\* What was prepared before an operation is submitted does not matter.
LEMMA AcceptedAfter ==
  ASSUME NEW s, NEW u, NEW t, NEW kind, NEW T, base(s, u, T), idle(s, u), accepted(u, t, kind, T)
  PROVE  accepted(s, t, kind, T)
<1>1. u.guest = s.guest /\ u.answer = s.answer /\ u.core = s.core
  BY DEF idle, base
<1>2. asked(u, t, with(s.guest, operation(s.core, kind), "pending"), s.answer, T)
  BY <1>1 DEF accepted
<1> QED
  BY <1>2, AskedAfter DEF accepted

\* A submission may fail before the guest has accepted anything.
LEMMA AcceptedFails ==
  ASSUME NEW s, NEW t, NEW kind, NEW T, sound(t, T), base(s, t, T), idle(s, t), t.err
  PROVE  accepted(s, t, kind, T)
BY AskedFails DEF accepted

\* A submission within an allocation and its deferred free is a submission.
LEMMA AcceptedInside ==
  ASSUME CoreAssumptions, NEW s, NEW u, NEW v, NEW t, NEW kind, NEW T, NEW p \in C!Pointers \ T,
         base(s, u, T), idle(s, u), accepted(u, v, kind, T \cup {p}), t \in C!cleanupBuffer(v, p)
  PROVE  accepted(s, t, kind, T)
<1>1. u.guest = s.guest /\ u.answer = s.answer /\ u.core = s.core
  BY DEF idle, base
<1>2. asked(u, v, with(s.guest, operation(s.core, kind), "pending"), s.answer, T \cup {p})
  BY <1>1 DEF accepted
<1> QED
  BY <1>2, AskedInside DEF accepted

\* The guest is asked for an operation.
LEMMA AcceptedAnswer ==
  ASSUME CoreAssumptions,
         NEW s, NEW T, sound(s, T), ~s.err, s.core \in Cores, NEW kind \in Kinds \cup {C!RPC},
         NEW bytes, C!Touch(s, bytes) = s,
         NEW t \in C!Answer(s, [C!Touch(s, bytes) EXCEPT
                                !.guest.operations[[core |-> s.core, kind |-> kind]] = "pending"])
  PROVE  accepted(s, t, kind, T)
<1> DEFINE o == operation(s.core, kind)
           d == [s EXCEPT !.guest.operations[o] = "pending"]
<1>1. s \in CallStates /\ o \in C!Operations
  BY OperationType DEF sound
<1>2. t \in C!Answer(s, d)
  BY DEF operation
<1> HIDE DEF o
<1>3. guestAt(s, d, with(s.guest, o, "pending"), s.answer) /\ d.err = s.err
  BY <1>1, OperationShape
<1> HIDE DEF d
<1>4. asked(s, t, with(s.guest, o, "pending"), s.answer, T)
  BY <1>2, <1>3, AskedAnswer
<1> QED
  BY <1>4 DEF accepted, o

\* submit, with any bytes of buffers the caller holds.
LEMMA SubmitAccepted ==
  ASSUME CoreAssumptions,
         NEW s, NEW T, sound(s, T), ~s.err, s.core \in Cores, NEW kind \in Kinds, NEW bytes,
         covered(s, bytes, "output", T), NEW t \in C!submit(s, kind, bytes)
  PROVE  accepted(s, t, kind, T)
<1>0. C!operationIDLength \in Nat \ {0} /\ C!operationIDLength \in Nat /\ "output" \in C!Buffers \ {"address"}
  BY DEF C!operationIDLength, C!Buffers
<1>1. PICK u \in C!ensureDataPlaneOutput(s, C!operationIDLength) :
        IF u.err THEN t = u
        ELSE t \in C!Answer(u, [C!Touch(u, bytes \cup {<<u.pointer, C!operationIDLength>>}) EXCEPT
                                !.guest.operations[[core |-> u.core, kind |-> kind]] = "pending"])
  BY DEF C!submit, C!Then
<1>2. provides(s, u, "output", C!operationIDLength, T)
  BY <1>0, Grown DEF C!ensureDataPlaneOutput
<1>3. sound(u, T) /\ base(s, u, T) /\ idle(s, u) /\ u.core = s.core
  BY <1>2 DEF provides, base
<1>4. CASE u.err
  BY <1>1, <1>3, <1>4, AcceptedFails
<1>5. CASE ~u.err
  <2>1. C!Touch(u, bytes \cup {<<u.pointer, C!operationIDLength>>}) = u
    BY <1>0, <1>2, <1>5, ProvidedInside
  <2>2. accepted(u, t, kind, T)
    BY <1>1, <1>3, <1>5, <2>1, AcceptedAnswer
  <2> QED
    BY <1>3, <2>2, AcceptedAfter
<1> QED
  BY <1>4, <1>5

\* submit of the kinds that have no input.
LEMMA SubmitPlain ==
  ASSUME CoreAssumptions,
         NEW s, sound(s, {}), ~s.err, s.core \in Cores, NEW kind \in Kinds, NEW t \in C!submit(s, kind, {})
  PROVE  accepted(s, t, kind, {})
<1>1. covered(s, {}, "output", {})
  BY DEF covered
<1> QED
  BY <1>1, SubmitAccepted

\* The parameters are in a buffer for this call.
LEMMA SubmitInput ==
  ASSUME CoreAssumptions,
         NEW s, sound(s, {}), ~s.err, s.core \in Cores, NEW kind \in Kinds, NEW n \in Nat,
         NEW t \in C!submitWithInput(s, kind, n)
  PROVE  accepted(s, t, kind, {})
<1>0. s \in CallStates
  BY DEF sound
<1>1. PICK u \in C!writeInput(s, n) :
        IF u.err THEN t = u
        ELSE IF u.pointer = 0 THEN t \in C!submit(u, kind, {<<u.pointer, n>>})
        ELSE \E v \in C!submit(u, kind, {<<u.pointer, n>>}) : t \in C!cleanupBuffer(v, u.pointer)
  BY DEF C!submitWithInput, C!Then, C!Released
<1>2. CASE n = 0
  <2>1. u = [s EXCEPT !.pointer = 0] /\ 0 \in 0 .. Memory
    BY <1>1, <1>2 DEF C!writeInput, CoreAssumptions, C!BoundsAssumption
  <2>2. sameBuffers(s, u) /\ u.err = s.err /\ u.pointer = 0
    BY <1>0, <2>1, PointerShape
  <2>3. sound(u, {}) /\ base(s, u, {}) /\ idle(s, u) /\ u.core = s.core
    BY <2>2, SameBuffers DEF base
  <2>4. covered(u, {<<u.pointer, n>>}, "output", {})
    BY <1>2, <2>2 DEF covered
  <2>5. accepted(u, t, kind, {})
    BY <1>1, <2>2, <2>3, <2>4, SubmitAccepted
  <2> QED
    BY <2>3, <2>5, AcceptedAfter
<1>3. CASE n # 0
  <2>1. u \in C!allocate(s, n) /\ n \in Nat \ {0}
    BY <1>1, <1>3 DEF C!writeInput
  <2>2. CASE u = C!Fail(s)
    <3>1. sound(u, {}) /\ base(s, u, {}) /\ idle(s, u) /\ u.err
      BY <2>2, FailedIsSound
    <3> QED
      BY <1>1, <3>1, AcceptedFails
  <2>3. CASE u # C!Fail(s)
    <3>1. /\ ~u.err /\ u.pointer \in C!Pointers \ {} /\ u.memory[u.pointer] = n /\ u.pointer # 0
          /\ sound(u, {} \cup {u.pointer}) /\ base(s, u, {}) /\ idle(s, u)
      BY <2>1, <2>3, Allocated
    <3>2. PICK v \in C!submit(u, kind, {<<u.pointer, n>>}) : t \in C!cleanupBuffer(v, u.pointer)
      BY <1>1, <3>1
    <3>3. covered(u, {<<u.pointer, n>>}, "output", {} \cup {u.pointer})
      BY <3>1 DEF covered
    <3>4. u.core = s.core
      BY <3>1 DEF base
    <3>5. accepted(u, v, kind, {} \cup {u.pointer})
      BY <3>1, <3>2, <3>3, <3>4, SubmitAccepted
    <3> QED
      BY <3>1, <3>2, <3>5, AcceptedInside
  <2> QED
    BY <2>2, <2>3
<1> QED
  BY <1>2, <1>3

\* The parameters are in buffers the Core keeps.
LEMMA SubmitSend ==
  ASSUME CoreAssumptions,
         NEW s, sound(s, {}), ~s.err, s.core \in Cores, C!OperationUDPSend \in Kinds, NEW n \in Nat,
         NEW t \in C!SubmitUDPSend(s, n)
  PROVE  accepted(s, t, C!OperationUDPSend, {})
<1> DEFINE bytes(a, data) == {<<a.pointer, C!socketAddressLength>>, <<data, n>>}
           kind == C!OperationUDPSend
<1>0. /\ C!socketAddressLength \in Nat /\ "address" \in C!Buffers /\ "input" \in C!Buffers \ {"address"}
      /\ "address" \in C!Buffers \ {"output"} /\ "input" \in C!Buffers \ {"output"}
      /\ "address" \in C!Buffers \ {"input"}
  BY DEF C!socketAddressLength, C!Buffers
<1>1. CASE n > C!maxDataPlaneTransferBytes
  <2>1. t = C!Fail(s)
    BY <1>1 DEF C!SubmitUDPSend
  <2> QED
    BY <2>1, FailedIsSound, AcceptedFails
<1>2. CASE ~(n > C!maxDataPlaneTransferBytes)
  <2>1. PICK a \in C!ensureDataPlaneAddress(s) :
          t \in IF a.err THEN {a}
                ELSE IF n = 0 THEN C!submit(a, kind, bytes(a, 0))
                ELSE UNION {IF u.err THEN {u} ELSE C!submit(u, kind, bytes(a, u.pointer)) :
                              u \in C!ensureDataPlaneInput(a, n)}
    BY <1>2 DEF C!SubmitUDPSend, C!Then
  <2>2. provides(s, a, "address", C!socketAddressLength, {})
    BY AddressProvided
  <2>3. sound(a, {}) /\ base(s, a, {}) /\ idle(s, a) /\ a.core = s.core
    BY <2>2 DEF provides, base
  <2>4. CASE a.err
    BY <2>1, <2>3, <2>4, AcceptedFails
  <2>5. CASE ~a.err /\ n = 0
    <3>1. covered(a, bytes(a, 0), "output", {})
      <4>1. /\ a.pointer \in C!Pointers /\ a.pointer = a.cores[a.core].buffer["address"].pointer
            /\ a.cores[a.core].buffer["address"].capacity >= C!socketAddressLength
        BY <2>2, <2>3, <2>5 DEF provides
      <4>2. a.pointer # 0
        BY <4>1 DEF C!Pointers
      <4>3. covered(a, {<<a.pointer, C!socketAddressLength>>}, "output", {})
        BY <1>0, <4>1, <4>2, KeptIsCovered
      <4> QED
        BY <2>5, <4>3, NothingIsCovered, BothAreCovered
    <3>2. t \in C!submit(a, kind, bytes(a, 0))
      BY <2>1, <2>5
    <3> HIDE DEF bytes, kind
    <3>3. kind \in Kinds
      BY DEF kind
    <3>4. accepted(a, t, kind, {})
      BY <2>3, <2>5, <3>1, <3>2, <3>3, SubmitAccepted
    <3> QED
      BY <2>3, <3>4, AcceptedAfter DEF kind
  <2>6. CASE ~a.err /\ n # 0
    <3>1. PICK u \in C!ensureDataPlaneInput(a, n) :
            IF u.err THEN t = u ELSE t \in C!submit(u, kind, bytes(a, u.pointer))
      BY <2>1, <2>6
    <3>2. provides(a, u, "input", n, {})
      <4>1. n \in Nat \ {0}
        BY <2>6
      <4> QED
        BY <1>0, <2>3, <2>6, <4>1, Grown DEF C!ensureDataPlaneInput
    <3>3. sound(u, {}) /\ base(a, u, {}) /\ idle(a, u) /\ u.core = a.core
      BY <3>2 DEF provides, base
    <3>4. base(s, u, {}) /\ idle(s, u)
      BY <2>3, <3>3, BaseTransitive DEF idle
    <3>5. CASE u.err
      BY <3>1, <3>3, <3>4, <3>5, AcceptedFails
    <3>6. CASE ~u.err
      <4>1. /\ a.pointer \in C!Pointers /\ a.pointer = a.cores[a.core].buffer["address"].pointer
            /\ a.cores[a.core].buffer["address"].capacity >= C!socketAddressLength
        BY <2>2, <2>3, <2>6 DEF provides
      <4>2. u.cores[u.core].buffer["address"] = a.cores[a.core].buffer["address"]
        BY <1>0, <3>2, <3>3 DEF provides
      <4>3. /\ u.pointer \in C!Pointers /\ u.pointer = u.cores[u.core].buffer["input"].pointer
            /\ u.cores[u.core].buffer["input"].capacity >= n
        BY <3>2, <3>3, <3>6 DEF provides
      <4>4. a.pointer # 0 /\ u.pointer # 0
        BY <4>1, <4>3 DEF C!Pointers
      <4>5. covered(u, bytes(a, u.pointer), "output", {})
        <5>1. /\ u.cores[u.core].buffer["address"].pointer = a.pointer
              /\ u.cores[u.core].buffer["address"].capacity >= C!socketAddressLength
          BY <4>1, <4>2
        <5>2. covered(u, {<<a.pointer, C!socketAddressLength>>}, "output", {})
          BY <1>0, <4>4, <5>1, KeptIsCovered
        <5>3. covered(u, {<<u.pointer, n>>}, "output", {})
          BY <1>0, <4>3, <4>4, KeptIsCovered
        <5> QED
          BY <5>2, <5>3, BothAreCovered
      <4>6. t \in C!submit(u, kind, bytes(a, u.pointer))
        BY <3>1, <3>6
      <4> HIDE DEF bytes, kind
      <4>7. kind \in Kinds
        BY DEF kind
      <4>8. accepted(u, t, kind, {})
        BY <2>3, <3>3, <3>6, <4>5, <4>6, <4>7, SubmitAccepted
      <4> QED
        BY <3>4, <4>8, AcceptedAfter DEF kind
    <3> QED
      BY <3>5, <3>6
  <2> QED
    BY <2>4, <2>5, <2>6
<1> QED
  BY <1>1, <1>2

\* All kinds of operations.
LEMMA Submitting ==
  ASSUME CoreAssumptions,
         NEW s, sound(s, {}), ~s.err, s.core \in Cores, NEW kind \in Kinds, NEW n \in Nat,
         NEW t \in C!Submit(s, kind, n)
  PROVE  accepted(s, t, kind, {})
<1> USE DEF C!OperationTCPConnect, C!OperationTCPBind, C!OperationTCPAccept, C!OperationTCPRead,
            C!OperationTCPWrite, C!OperationUDPBind, C!OperationUDPReceive, C!OperationUDPSend
<1>0. kind \in 1 .. 8
  BY DEF C!valid, CoreAssumptions, C!KindsAssumption
<1>1. CASE kind = C!OperationTCPConnect
  BY <1>1, SubmitInput DEF C!Submit, C!SubmitTCPConnect, C!socketAddressLength
<1>2. CASE kind = C!OperationTCPBind
  BY <1>2, SubmitPlain DEF C!Submit, C!SubmitTCPBind
<1>3. CASE kind = C!OperationTCPAccept
  BY <1>3, SubmitPlain DEF C!Submit, C!SubmitTCPAccept
<1>4. CASE kind = C!OperationTCPRead
  BY <1>4, SubmitPlain DEF C!Submit, C!SubmitTCPRead
<1>5. CASE kind = C!OperationTCPWrite
  <2>1. t = C!Fail(s) \/ t \in C!submitWithInput(s, kind, n)
    BY <1>5 DEF C!Submit, C!SubmitTCPWrite
  <2> QED
    BY <2>1, SubmitInput, FailedIsSound, AcceptedFails
<1>6. CASE kind = C!OperationUDPBind
  BY <1>6, SubmitPlain DEF C!Submit, C!SubmitUDPBind
<1>7. CASE kind = C!OperationUDPReceive
  BY <1>7, SubmitPlain DEF C!Submit, C!SubmitUDPReceive
<1>8. CASE kind = C!OperationUDPSend
  BY <1>8, SubmitSend DEF C!Submit
<1> QED
  BY <1>0, <1>1, <1>2, <1>3, <1>4, <1>5, <1>6, <1>7, <1>8

\* The guest has announced a batch, which the call returns or refuses, or the call
\* failed and the guest did nothing.
drained(s, t) ==
  /\ sound(t, {}) /\ base(s, t, {})
  /\ \/ t.err /\ idle(s, t)
     \/ /\ t.answer = s.answer
        /\ t.guest = [s.guest EXCEPT !.operations =
                        [o \in C!Operations |-> IF o \in t.batch THEN "announced" ELSE @[o]]]
        /\ t.batch \subseteq {o \in C!Operations : /\ o.core = s.core
                                                /\ o.kind # C!RPC
                                                /\ s.guest.operations[o] = "completed"}

\* DrainCompletions announces operations of its own Core that have completed.
LEMMA Draining ==
  ASSUME CoreAssumptions,
         NEW s, sound(s, {}), ~s.err, s.core \in Cores, NEW t \in C!DrainCompletions(s, C!completionBatch)
  PROVE  drained(s, t)
<1> DEFINE n == C!completionBatch * C!completionLength
           batch(u, B) == C!announce(u, {<<u.pointer, n>>}, B)
<1>0. n \in Nat \ {0} /\ n \in Nat /\ "output" \in C!Buffers \ {"address"}
  BY DEF C!completionBatch, C!completionLength, C!Buffers
<1>1. PICK u \in C!ensureDataPlaneOutput(s, n) :
        IF u.err THEN t = u
        ELSE \/ t = C!Fail(u)
             \/ t \in C!statusError(u)
             \/ \E B \in C!Batches(u, C!completionBatch) : t \in {batch(u, B), C!Fail(batch(u, B))}
  BY DEF C!DrainCompletions, C!Then, C!callOne
<1> HIDE DEF n
<1>2. provides(s, u, "output", n, {})
  BY <1>0, Grown DEF C!ensureDataPlaneOutput, n
<1>3. sound(u, {}) /\ base(s, u, {}) /\ idle(s, u) /\ u.core = s.core
  BY <1>2 DEF provides, base
<1>4. CASE u.err
  BY <1>1, <1>3, <1>4 DEF drained
<1>5. CASE ~u.err
  <2>1. C!Touch(u, {<<u.pointer, n>>}) = u
    BY <1>0, <1>2, <1>5, ProvidedAlone
  <2>2. CASE t = C!Fail(u) \/ t \in C!statusError(u)
    <3>1. sound(t, {}) /\ base(u, t, {}) /\ idle(u, t) /\ t.err
      BY <1>3, <1>5, <2>2, FailedIsSound, StatusError
    <3>2. base(s, t, {}) /\ idle(s, t)
      BY <1>3, <3>1, BaseTransitive DEF idle
    <3> QED
      BY <3>1, <3>2 DEF drained
  <2>3. ASSUME NEW B \in C!Batches(u, C!completionBatch), t \in {batch(u, B), C!Fail(batch(u, B))}
        PROVE  drained(s, t)
    <3> DEFINE g == [u.guest EXCEPT !.operations =
                       [o \in C!Operations |-> IF o \in B THEN "announced" ELSE @[o]]]
               d(e) == [u EXCEPT !.guest = g, !.batch = B, !.err = e]
    <3>1. u \in CallStates /\ u.guest \in C!GuestFields
      BY <1>3, CallFields DEF sound
    <3>2. g \in C!GuestFields
      BY <3>1 DEF C!GuestFields
    <3>3. /\ B \in SUBSET C!Operations
          /\ B \subseteq {o \in C!Operations : /\ o.core = u.core /\ o.kind # C!RPC
                                            /\ u.guest.operations[o] = "completed"}
      BY <2>3 DEF C!Batches
    <3>4. PICK e \in BOOLEAN : t = d(e)
      <4>1. u.err \in BOOLEAN
        BY <3>1 DEF CallStates
      <4>2. batch(u, B) = d(u.err)
        BY <2>1, <3>1 DEF C!announce, CallStates
      <4>3. C!Fail(batch(u, B)) = d(TRUE)
        BY <2>1, <3>1 DEF C!announce, C!Fail, CallStates
      <4> QED
        BY <2>3, <4>1, <4>2, <4>3
    <3> HIDE DEF g
    <3>5. /\ sameHolding(u, d(e)) /\ d(e).answer = u.answer /\ d(e).guest = g /\ d(e).batch = B
          /\ d(e).web = u.web /\ d(e).cores = u.cores
      BY <3>1, <3>2, <3>3 DEF CallStates, sameHolding
    <3> HIDE DEF d
    <3>6. sound(t, {}) /\ paid(t) = paid(u)
      BY <1>3, <3>4, <3>5, SameHolding
    <3>7. base(u, t, {})
      BY <3>4, <3>5, <3>6 DEF base, sameHolding
    <3>8. base(s, t, {})
      BY <1>3, <3>7, BaseTransitive
    <3>9. t.guest = [s.guest EXCEPT !.operations =
                       [o \in C!Operations |-> IF o \in t.batch THEN "announced" ELSE @[o]]]
      BY <1>3, <3>4, <3>5 DEF idle, g
    <3>10. t.answer = s.answer /\ t.batch = B
      BY <1>3, <3>4, <3>5 DEF idle
    <3>11. t.batch \subseteq {o \in C!Operations : /\ o.core = s.core /\ o.kind # C!RPC
                                                /\ s.guest.operations[o] = "completed"}
      BY <1>3, <3>3, <3>10 DEF idle
    <3> QED
      BY <3>6, <3>8, <3>9, <3>10, <3>11 DEF drained
  <2> QED
    BY <1>1, <1>5, <2>2, <2>3
<1> QED
  BY <1>4, <1>5

\* The guest has given the result away, whatever the call makes of it, or it has
\* not been asked.
took(s, t, o) ==
  /\ sound(t, {}) /\ base(s, t, {}) /\ t.batch = s.batch
  /\ \/ t.err /\ idle(s, t)
     \/ /\ t.guest = with(s.guest, o, "none")
        /\ t.answer = "result" => ~t.err

\* What was prepared before a result is taken does not matter.
LEMMA TookAfter ==
  ASSUME NEW s, NEW u, NEW t, NEW o, base(s, u, {}), idle(s, u), took(u, t, o)
  PROVE  took(s, t, o)
<1>1. base(s, t, {})
  BY BaseTransitive DEF took
<1> QED
  BY <1>1 DEF took, idle

\* Taking a result may fail before the guest has given it away.
LEMMA TookFails ==
  ASSUME NEW s, NEW t, NEW o, sound(t, {}), base(s, t, {}), idle(s, t), t.err
  PROVE  took(s, t, o)
BY DEF took, idle

\* The guest forgets an operation whose result it has given away.
LEMMA TakenShape ==
  ASSUME NEW s \in CallStates, NEW o \in C!Operations
  PROVE  guestAt(s, C!Taken(s, o), with(s.guest, o, "none"), s.answer) /\ C!Taken(s, o).err = s.err
BY OperationShape DEF C!Taken

\* Reading an answer changes nothing in the guest ..
LEMMA AnswerShape ==
  ASSUME NEW s \in CallStates, NEW e \in BOOLEAN, NEW a \in {"none", "result", "error", "malformed"}
  PROVE  LET t == [s EXCEPT !.err = e, !.answer = a]
         IN  guestAt(s, t, s.guest, a) /\ (t.err <=> e)
BY DEF CallStates, guestAt

\* .. and neither does returning it.
LEMMA OnlyAnswerShape ==
  ASSUME NEW s \in CallStates, NEW a \in {"none", "result", "error", "malformed"}
  PROVE  LET t == [s EXCEPT !.answer = a]
         IN  guestAt(s, t, s.guest, a) /\ t.err = s.err
BY DEF CallStates, guestAt

\* The three ways a result is read: a result, an error, malformed.
LEMMA TakingAnswer ==
  ASSUME CoreAssumptions,
         NEW s, sound(s, {}), ~s.err, NEW o \in C!Operations, NEW bytes, inside(s, bytes),
         NEW wellFormed \in BOOLEAN, NEW t \in C!TakeAnswer(s, o, bytes, wellFormed)
  PROVE  took(s, t, o)
<1> DEFINE gone == C!Taken(s, o)
           g == with(s.guest, o, "none")
<1>1. s \in CallStates /\ ~s.overrun
  BY DEF sound
<1>2. guestAt(s, gone, g, s.answer) /\ gone.err = s.err
  BY <1>1, TakenShape
<1>3. \/ t = C!Fail(s)
      \/ \E u \in C!statusError(gone) : t = [u EXCEPT !.answer = "error"]
      \/ t = [C!Touch(gone, bytes) EXCEPT !.err = ~wellFormed,
                !.answer = IF wellFormed THEN "result" ELSE "malformed"]
  BY DEF C!TakeAnswer, C!callOne
<1> HIDE DEF gone, g
<1>4. sound(gone, {}) /\ base(s, gone, {}) /\ gone.guest = g /\ gone.batch = s.batch
  BY <1>2, GuestAt DEF guestAt
<1>5. CASE t = C!Fail(s)
  BY <1>5, FailedIsSound, TookFails
<1>6. ASSUME NEW u \in C!statusError(gone), t = [u EXCEPT !.answer = "error"]
      PROVE  took(s, t, o)
  <2>1. sound(u, {}) /\ base(gone, u, {}) /\ idle(gone, u) /\ u.err
    BY <1>2, <1>4, StatusError
  <2>2. u \in CallStates
    BY <2>1 DEF sound
  <2>3. guestAt(u, t, u.guest, "error")
    BY <1>6, <2>2, OnlyAnswerShape
  <2>4. sound(t, {}) /\ base(u, t, {})
    BY <2>1, <2>3, GuestAt
  <2>5. base(s, u, {})
    BY <1>4, <2>1, BaseTransitive
  <2>6. base(s, t, {})
    BY <2>4, <2>5, BaseTransitive
  <2>7. t.guest = g /\ t.answer = "error" /\ t.batch = s.batch
    BY <1>4, <2>1, <2>3 DEF guestAt, idle
  <2> QED
    BY <2>4, <2>6, <2>7 DEF took, g
<1>7. CASE t = [C!Touch(gone, bytes) EXCEPT !.err = ~wellFormed,
                !.answer = IF wellFormed THEN "result" ELSE "malformed"]
  <2> DEFINE a == IF wellFormed THEN "result" ELSE "malformed"
             e == ~wellFormed
  <2>1. inside(gone, bytes)
    BY <1>2 DEF inside, guestAt
  <2>2. gone \in CallStates /\ ~gone.overrun
    BY <1>1, <1>2 DEF guestAt
  <2>3. t = [gone EXCEPT !.err = e, !.answer = a]
    BY <1>7, <2>1, <2>2, Touched
  <2>4. e \in BOOLEAN /\ a \in {"none", "result", "error", "malformed"} /\ (a = "result" => ~e)
    OBVIOUS
  <2> HIDE DEF a, e
  <2>5. guestAt(gone, t, gone.guest, a) /\ (t.err <=> e)
    BY <2>2, <2>3, <2>4, AnswerShape
  <2>6. sound(t, {}) /\ base(gone, t, {})
    BY <1>4, <2>5, GuestAt
  <2>7. base(s, t, {})
    BY <1>4, <2>6, BaseTransitive
  <2>8. t.guest = g /\ t.batch = s.batch /\ t.answer = a
    BY <1>4, <2>5 DEF guestAt
  <2> QED
    BY <2>4, <2>5, <2>6, <2>7, <2>8 DEF took, g
<1> QED
  BY <1>3, <1>5, <1>6, <1>7

\* Results of a fixed length are taken with the output buffer.
LEMMA TakingFixed ==
  ASSUME CoreAssumptions,
         NEW s, sound(s, {}), ~s.err, s.core \in Cores, NEW o \in C!Operations, NEW n \in Nat \ {0},
         NEW wellFormed \in BOOLEAN, NEW t \in C!takeFixedResult(s, o, n, wellFormed)
  PROVE  took(s, t, o)
<1>1. PICK u \in C!ensureDataPlaneOutput(s, n) :
        IF u.err THEN t = u ELSE t \in C!TakeAnswer(u, o, {<<u.pointer, n>>}, wellFormed)
  BY DEF C!takeFixedResult, C!Then
<1>2. provides(s, u, "output", n, {})
  BY Grown DEF C!ensureDataPlaneOutput, C!Buffers
<1>3. sound(u, {}) /\ base(s, u, {}) /\ idle(s, u) /\ u.core = s.core
  BY <1>2 DEF provides, base
<1>4. CASE u.err
  BY <1>1, <1>3, <1>4, TookFails
<1>5. CASE ~u.err
  <2>1. inside(u, {<<u.pointer, n>>})
    BY <1>2, <1>5, ProvidedIsInside DEF C!Buffers
  <2>2. took(u, t, o)
    BY <1>1, <1>3, <1>5, <2>1, TakingAnswer
  <2> QED
    BY <1>3, <2>2, TookAfter
<1> QED
  BY <1>4, <1>5

\* Results of variable length are taken with an output buffer of the largest length.
LEMMA TakingVariable ==
  ASSUME CoreAssumptions,
         NEW s, sound(s, {}), ~s.err, s.core \in Cores, NEW o \in C!Operations, NEW n \in Nat \ {0},
         NEW wellFormed \in BOOLEAN, NEW t \in C!takeVariableResult(s, o, n, wellFormed)
  PROVE  took(s, t, o)
<1> DEFINE capacity == IF o.kind = C!OperationUDPReceive THEN 65535 ELSE C!maxDataPlaneTransferBytes
<1>0. /\ capacity \in Nat \ {0} /\ capacity \in Nat /\ n \in Nat
      /\ "input" \in C!Buffers \ {"address"} /\ "output" \in C!Buffers \ {"address"}
      /\ "input" \in C!Buffers \ {"output"}
  BY DEF C!maxDataPlaneTransferBytes, C!Buffers
<1>1. PICK d \in C!ensureDataPlaneInput(s, capacity) :
        t \in IF d.err THEN {d}
              ELSE UNION {IF u.err THEN {u}
                          ELSE C!TakeAnswer(u, o, {<<d.pointer, capacity>>, <<u.pointer, n>>}, wellFormed) :
                            u \in C!ensureDataPlaneOutput(d, n)}
  BY DEF C!takeVariableResult, C!Then
<1> HIDE DEF capacity
<1>2. provides(s, d, "input", capacity, {})
  BY <1>0, Grown DEF C!ensureDataPlaneInput
<1>3. sound(d, {}) /\ base(s, d, {}) /\ idle(s, d) /\ d.core = s.core
  BY <1>2 DEF provides, base
<1>4. CASE d.err
  BY <1>1, <1>3, <1>4, TookFails
<1>5. CASE ~d.err
  <2>1. PICK u \in C!ensureDataPlaneOutput(d, n) :
          t \in IF u.err THEN {u}
                ELSE C!TakeAnswer(u, o, {<<d.pointer, capacity>>, <<u.pointer, n>>}, wellFormed)
    BY <1>1, <1>5
  <2>2. provides(d, u, "output", n, {})
    BY <1>0, <1>3, <1>5, Grown DEF C!ensureDataPlaneOutput
  <2>3. sound(u, {}) /\ base(d, u, {}) /\ idle(d, u) /\ u.core = d.core
    BY <2>2 DEF provides, base
  <2>4. base(s, u, {}) /\ idle(s, u)
    BY <1>3, <2>3, BaseTransitive DEF idle
  <2>5. CASE u.err
    BY <2>1, <2>3, <2>4, <2>5, TookFails
  <2>6. CASE ~u.err
    <3>1. /\ d.pointer \in C!Pointers /\ d.pointer = d.cores[d.core].buffer["input"].pointer
          /\ d.cores[d.core].buffer["input"].capacity >= capacity
      BY <1>2, <1>3, <1>5 DEF provides
    <3>2. d.pointer # 0
      BY <3>1 DEF C!Pointers
    <3>3. covered(d, {<<d.pointer, capacity>>}, "output", {})
      BY <1>0, <3>1, <3>2, KeptIsCovered
    <3>4. inside(u, {<<d.pointer, capacity>>})
      BY <1>3, <2>2, <2>3, <3>3, CoveredKept, CoveredInside
    <3>5. inside(u, {<<u.pointer, n>>})
      BY <1>0, <1>3, <2>2, <2>6, ProvidedIsInside
    <3>6. inside(u, {<<d.pointer, capacity>>, <<u.pointer, n>>})
      BY <3>4, <3>5 DEF inside
    <3>7. took(u, t, o)
      BY <2>1, <2>3, <2>6, <3>6, TakingAnswer
    <3> QED
      BY <2>4, <3>7, TookAfter
  <2> QED
    BY <2>5, <2>6
<1> QED
  BY <1>4, <1>5

\* All kinds of results.
LEMMA Taking ==
  ASSUME CoreAssumptions,
         NEW s, sound(s, {}), ~s.err, s.core \in Cores, NEW o \in C!Operations, o.kind # C!RPC,
         NEW t \in C!TakeResult(s, o)
  PROVE  took(s, t, o)
<1>0. o.kind \in 1 .. 8
  BY DEF C!Operations, C!valid, C!OperationTCPConnect, C!OperationUDPSend, CoreAssumptions,
       C!KindsAssumption
<1>1. CASE o.kind \in {1, 3}
  <2>1. t \in C!takeStreamResult(s, o)
    BY <1>1 DEF C!TakeResult, C!OperationTCPConnect, C!OperationTCPAccept, C!OperationTCPBind,
      C!OperationUDPBind, C!OperationTCPRead, C!OperationUDPReceive, C!OperationTCPWrite, C!OperationUDPSend
  <2>2. PICK w \in StreamWires :
          t \in C!takeFixedResult(s, o, C!streamResultLength, C!decodeStreamResult(w) # Wrong)
    BY <2>1 DEF C!takeStreamResult
  <2>3. (C!decodeStreamResult(w) # Wrong) \in BOOLEAN /\ C!streamResultLength \in Nat \ {0}
    BY DEF C!streamResultLength, C!socketAddressLength
  <2> QED
    BY <2>2, <2>3, TakingFixed
<1>2. CASE o.kind \in {2, 6}
  <2>1. t \in C!takeBindResult(s, o)
    BY <1>2 DEF C!TakeResult, C!OperationTCPConnect, C!OperationTCPAccept, C!OperationTCPBind,
      C!OperationUDPBind, C!OperationTCPRead, C!OperationUDPReceive, C!OperationTCPWrite, C!OperationUDPSend
  <2>2. PICK w \in BindWires :
          t \in C!takeFixedResult(s, o, C!bindResultLength, C!decodeBindResult(w) # Wrong)
    BY <2>1 DEF C!takeBindResult
  <2>3. (C!decodeBindResult(w) # Wrong) \in BOOLEAN /\ C!bindResultLength \in Nat \ {0}
    BY DEF C!bindResultLength, C!socketAddressLength
  <2> QED
    BY <2>2, <2>3, TakingFixed
<1>3. CASE o.kind = 4
  <2>1. t \in C!takeTCPReadResult(s, o)
    BY <1>3 DEF C!TakeResult, C!OperationTCPConnect, C!OperationTCPAccept, C!OperationTCPBind,
      C!OperationUDPBind, C!OperationTCPRead, C!OperationUDPReceive, C!OperationTCPWrite, C!OperationUDPSend
  <2>2. PICK flag \in 0 .. 2 : t \in C!takeVariableResult(s, o, C!tcpReadMetadataLength, flag <= 1)
    BY <2>1 DEF C!takeTCPReadResult
  <2>3. (flag <= 1) \in BOOLEAN /\ C!tcpReadMetadataLength \in Nat \ {0}
    BY DEF C!tcpReadMetadataLength
  <2> QED
    BY <2>2, <2>3, TakingVariable
<1>4. CASE o.kind = 7
  <2>1. t \in C!takeUDPReceiveResult(s, o)
    BY <1>4 DEF C!TakeResult, C!OperationTCPConnect, C!OperationTCPAccept, C!OperationTCPBind,
      C!OperationUDPBind, C!OperationTCPRead, C!OperationUDPReceive, C!OperationTCPWrite, C!OperationUDPSend
  <2>2. PICK w \in BindWires, flag \in 0 .. 2 :
          t \in C!takeVariableResult(s, o, C!udpReceiveMetadataLength,
                                   C!decodeSocketAddress(w.local) # Wrong /\ flag <= 1)
    BY <2>1 DEF C!takeUDPReceiveResult
  <2>3. (C!decodeSocketAddress(w.local) # Wrong /\ flag <= 1) \in BOOLEAN
        /\ C!udpReceiveMetadataLength \in Nat \ {0}
    BY DEF C!udpReceiveMetadataLength, C!socketAddressLength
  <2> QED
    BY <2>2, <2>3, TakingVariable
<1>5. CASE o.kind \in {5, 8}
  <2>1. t \in C!takeLengthResult(s, o)
    BY <1>5 DEF C!TakeResult, C!OperationTCPConnect, C!OperationTCPAccept, C!OperationTCPBind,
      C!OperationUDPBind, C!OperationTCPRead, C!OperationUDPReceive, C!OperationTCPWrite, C!OperationUDPSend
  <2>2. t \in C!TakeAnswer(s, o, {}, TRUE)
    BY <2>1 DEF C!takeLengthResult
  <2>3. inside(s, {}) /\ TRUE \in BOOLEAN
    BY DEF inside
  <2> QED
    BY <2>2, <2>3, TakingAnswer
<1> QED
  BY <1>0, <1>1, <1>2, <1>3, <1>4, <1>5

\* An operation that is cancelled completes, or nothing happens.
LEMMA Cancelling ==
  ASSUME CoreAssumptions,
         NEW s, sound(s, {}), ~s.err, NEW o \in C!Operations, NEW t \in C!CancelOperation(s, o)
  PROVE  \/ quiet(s, t)
         \/ s.guest.operations[o] = "pending"
            /\ asked(s, t, with(s.guest, o, "completed"), s.answer, {})
<1>1. CASE s.guest.operations[o] # "pending"
  <2>1. t \in C!Answer(s, s)
    BY <1>1 DEF C!CancelOperation, C!dataPlaneCallStatus
  <2>2. t = s \/ (sound(t, {}) /\ base(s, t, {}) /\ idle(s, t))
    BY <2>1, Answered
  <2> QED
    BY <2>2, BaseReflexive DEF quiet, idle
<1>2. CASE s.guest.operations[o] = "pending"
  <2> DEFINE d == [s EXCEPT !.guest.operations[o] = "completed"]
  <2>1. t \in C!Answer(s, d)
    BY <1>2 DEF C!CancelOperation, C!dataPlaneCallStatus
  <2>2. s \in CallStates
    BY DEF sound
  <2>3. guestAt(s, d, with(s.guest, o, "completed"), s.answer) /\ d.err = s.err
    BY <2>2, OperationShape
  <2> HIDE DEF d
  <2>4. asked(s, t, with(s.guest, o, "completed"), s.answer, {})
    BY <2>1, <2>3, AskedAnswer
  <2> QED
    BY <1>2, <2>4
<1> QED
  BY <1>1, <1>2

\* The request is in a buffer for the call, and there is a second one for the id.
LEMMA RequestAccepted ==
  ASSUME CoreAssumptions, NEW s, NEW T, sound(s, T), ~s.err, s.core \in Cores, s.pointer \in T,
         s.memory[s.pointer] = C!EnvelopeLength, NEW t \in C!submitRequest(s)
  PROVE  accepted(s, t, C!RPC, T)
<1>0. /\ C!operationIDLength \in Nat \ {0} /\ C!operationIDLength \in Nat /\ C!EnvelopeLength \in Nat
      /\ C!RPC \in Kinds \cup {C!RPC}
  BY DEF C!operationIDLength, C!EnvelopeLength
<1>1. PICK u \in C!allocate(s, C!operationIDLength) :
        t \in IF u.err THEN {u}
              ELSE UNION {C!cleanupBuffer(v, u.pointer) :
                     v \in C!Answer(u, [C!Touch(u, {<<s.pointer, C!EnvelopeLength>>,
                                                <<u.pointer, C!operationIDLength>>}) EXCEPT
                                        !.guest.operations[[core |-> u.core, kind |-> C!RPC]] = "pending"])}
  BY DEF C!submitRequest, C!WithBuffer, C!Then, C!Released
<1>2. CASE u = C!Fail(s)
  BY <1>1, <1>2, FailedIsSound, AcceptedFails
<1>3. CASE u # C!Fail(s)
  <2> DEFINE bytes == {<<s.pointer, C!EnvelopeLength>>, <<u.pointer, C!operationIDLength>>}
  <2>1. /\ ~u.err /\ u.pointer \in C!Pointers \ T /\ u.memory[u.pointer] = C!operationIDLength
        /\ sound(u, T \cup {u.pointer}) /\ base(s, u, T) /\ idle(s, u)
    BY <1>0, <1>3, Allocated
  <2>2. PICK v \in C!Answer(u, [C!Touch(u, bytes) EXCEPT
                                !.guest.operations[[core |-> u.core, kind |-> C!RPC]] = "pending"]) :
          t \in C!cleanupBuffer(v, u.pointer)
    <3> DEFINE answers == C!Answer(u, [C!Touch(u, bytes) EXCEPT
                            !.guest.operations[[core |-> u.core, kind |-> C!RPC]] = "pending"])
    <3>1. t \in UNION {C!cleanupBuffer(v, u.pointer) : v \in answers}
      BY <1>1, <2>1
    <3> HIDE DEF answers
    <3>2. \E v \in answers : t \in C!cleanupBuffer(v, u.pointer)
      BY <3>1
    <3> QED
      BY <3>2 DEF answers
  <2>3. u \in CallStates /\ ~u.overrun /\ u.core = s.core /\ T \subseteq C!Pointers
    BY <2>1 DEF sound, base
  <2>4. u.memory[s.pointer] = C!EnvelopeLength
    BY <2>1 DEF base
  <2>5. inside(u, {<<s.pointer, C!EnvelopeLength>>})
    BY <1>0, <2>3, <2>4, InsideOne DEF C!EnvelopeLength
  <2>6. inside(u, {<<u.pointer, C!operationIDLength>>})
    BY <1>0, <2>1, <2>3, InsideOne DEF C!operationIDLength
  <2>7. inside(u, bytes)
    BY <2>5, <2>6 DEF inside
  <2>8. C!Touch(u, bytes) = u
    BY <2>3, <2>7, Touched
  <2> HIDE DEF bytes
  <2>9. accepted(u, v, C!RPC, T \cup {u.pointer})
    BY <1>0, <2>1, <2>2, <2>3, <2>8, AcceptedAnswer
  <2> QED
    BY <2>1, <2>2, <2>9, AcceptedInside
<1> QED
  BY <1>2, <1>3

\* SubmitRPC: the request is allocated, submitted and freed.
LEMMA Requesting ==
  ASSUME CoreAssumptions, NEW s, sound(s, {}), ~s.err, s.core \in Cores, NEW t \in C!SubmitRPC(s)
  PROVE  accepted(s, t, C!RPC, {})
<1>0. C!EnvelopeLength \in Nat \ {0}
  BY DEF C!EnvelopeLength
<1>1. PICK u \in C!allocate(s, C!EnvelopeLength) :
        IF u.err THEN t = u ELSE \E v \in C!submitRequest(u) : t \in C!cleanupBuffer(v, u.pointer)
  BY DEF C!SubmitRPC, C!WithBuffer, C!Then, C!Released
<1>2. CASE u = C!Fail(s)
  BY <1>1, <1>2, FailedIsSound, AcceptedFails
<1>3. CASE u # C!Fail(s)
  <2>1. /\ ~u.err /\ u.pointer \in C!Pointers \ {} /\ u.memory[u.pointer] = C!EnvelopeLength
        /\ sound(u, {} \cup {u.pointer}) /\ base(s, u, {}) /\ idle(s, u)
    BY <1>0, <1>3, Allocated
  <2>2. PICK v \in C!submitRequest(u) : t \in C!cleanupBuffer(v, u.pointer)
    BY <1>1, <2>1
  <2>3. u.core = s.core
    BY <2>1 DEF base
  <2>4. accepted(u, v, C!RPC, {} \cup {u.pointer})
    BY <2>1, <2>2, <2>3, RequestAccepted
  <2> QED
    BY <2>1, <2>2, <2>4, AcceptedInside
<1> QED
  BY <1>2, <1>3

\* The guest has given the response away, or still has it.
LEMMA TakingResponse ==
  ASSUME CoreAssumptions,
         NEW s, sound(s, {}), ~s.err, NEW o \in C!Operations, NEW t \in C!TakeRPCResponse(s, o)
  PROVE  quiet(s, t) \/ asked(s, t, with(s.guest, o, "none"), "result", {})
<1> DEFINE g == with(s.guest, o, "none")
<1>0. C!EnvelopeLength \in Nat \ {0} /\ C!EnvelopeLength \in Nat
  BY DEF C!EnvelopeLength
<1>1. \/ t = s \/ t = C!Fail(s) \/ t \in C!statusError(s)
      \/ \E u \in C!allocate(s, C!EnvelopeLength) :
           t \in IF u.err THEN {u}
                 ELSE UNION {C!cleanupBuffer(v, u.pointer) : v \in C!callOne(u, C!statusError(u) \cup {C!Fail(u)} \cup
                        {[C!Touch(C!Taken(u, o), {<<u.pointer, C!EnvelopeLength>>}) EXCEPT !.answer = "result"]})}
  BY DEF C!TakeRPCResponse, C!callOne, C!WithBuffer, C!Then, C!Released
<1>2. CASE t = s \/ t = C!Fail(s) \/ t \in C!statusError(s)
  BY <1>2, FailedIsSound, StatusError, BaseReflexive DEF quiet, idle
<1>3. ASSUME NEW u \in C!allocate(s, C!EnvelopeLength),
             t \in IF u.err THEN {u}
                   ELSE UNION {C!cleanupBuffer(v, u.pointer) : v \in C!callOne(u, C!statusError(u) \cup {C!Fail(u)} \cup
                          {[C!Touch(C!Taken(u, o), {<<u.pointer, C!EnvelopeLength>>}) EXCEPT !.answer = "result"]})}
      PROVE  quiet(s, t) \/ asked(s, t, g, "result", {})
  <2>1. CASE u = C!Fail(s)
    BY <1>3, <2>1, FailedIsSound DEF quiet
  <2>2. CASE u # C!Fail(s)
    <3> DEFINE p == u.pointer
               gone == C!Taken(u, o)
               d == [gone EXCEPT !.answer = "result"]
    <3>1. /\ ~u.err /\ p \in C!Pointers \ {} /\ u.memory[p] = C!EnvelopeLength
          /\ sound(u, {} \cup {p}) /\ base(s, u, {}) /\ idle(s, u)
      BY <1>0, <2>2, Allocated
    <3>2. u \in CallStates /\ ~u.overrun /\ u.guest = s.guest
      BY <3>1 DEF sound, idle
    <3>3. guestAt(u, gone, g, u.answer) /\ gone.err = u.err
      BY <3>2, TakenShape
    <3> HIDE DEF gone, g
    <3>4. gone \in CallStates /\ ~gone.overrun /\ gone.memory = u.memory
      BY <3>2, <3>3 DEF guestAt
    <3>5. inside(gone, {<<p, C!EnvelopeLength>>})
      BY <1>0, <3>1, <3>4, InsideOne DEF C!EnvelopeLength
    <3>6. C!Touch(gone, {<<p, C!EnvelopeLength>>}) = gone
      BY <3>4, <3>5, Touched
    <3>7. PICK v \in {C!Fail(u), d} \cup C!statusError(u) : t \in C!cleanupBuffer(v, p)
      BY <1>3, <3>1, <3>6 DEF gone, C!callOne
    <3>8. guestAt(gone, d, gone.guest, "result") /\ d.err = gone.err
      BY <3>4, OnlyAnswerShape
    <3> HIDE DEF d, p
    <3>9. guestAt(u, d, g, "result") /\ ~d.err
      BY <3>1, <3>3, <3>8 DEF guestAt
    <3>10. asked(u, v, g, "result", {} \cup {p})
      BY <3>1, <3>7, <3>9, AskedDone, AskedFails, FailedIsSound, StatusError
    <3>11. asked(s, t, g, "result", {})
      BY <3>1, <3>7, <3>10, AskedInside
    <3> QED
      BY <3>11
  <2> QED
    BY <2>1, <2>2
<1> QED
  BY <1>1, <1>2, <1>3

\* FreeRPCOperation: the guest forgets the operation or the call fails.
LEMMA FreeingResponse ==
  ASSUME CoreAssumptions,
         NEW s, sound(s, {}), ~s.err, NEW o \in C!Operations, NEW t \in C!FreeRPCOperation(s, o)
  PROVE  asked(s, t, with(s.guest, o, "none"), s.answer, {})
<1>1. s \in CallStates /\ t \in C!Answer(s, C!Taken(s, o))
  BY DEF sound, C!FreeRPCOperation
<1>2. guestAt(s, C!Taken(s, o), with(s.guest, o, "none"), s.answer) /\ C!Taken(s, o).err = s.err
  BY <1>1, TakenShape
<1> QED
  BY <1>1, <1>2, AskedAnswer

\* The checks of New change nothing.
LEMMA NewCases ==
  ASSUME NEW s \in CallStates, ~s.err, NEW u \in C!New(s)
  PROVE  u = s \/ u = C!Fail(s)
<1>1. PICK v \in C!validateDataPlaneABI(s) : IF v.err THEN u = v ELSE u \in C!validateRPCABI(v)
  BY DEF C!New, C!Then
<1>2. v = s \/ v = C!Fail(s)
  BY <1>1 DEF C!validateDataPlaneABI, C!callOne
<1>3. C!Fail(s).err
  BY FailShape
<1>4. v = s => u = s \/ u = C!Fail(s)
  BY <1>1 DEF C!validateRPCABI, C!callOne
<1> QED
  BY <1>1, <1>2, <1>3, <1>4

\* The guest has an instance, and the Core its handle.
enrolledAt(s, t) ==
  /\ sameHolding(s, t) /\ t.web = s.web /\ t.answer = s.answer /\ t.batch = s.batch /\ t.err = s.err
  /\ t.guest = [s.guest EXCEPT !.instances = @ \cup {s.core}]
  /\ \A c \in Cores : c # s.core => t.cores[c] = s.cores[c]
  /\ t.cores[s.core].handle = s.core
  /\ t.cores[s.core].dropped = s.cores[s.core].dropped

\* A handle the guest hands out is the Core's own.
LEMMA EnrolledShape ==
  ASSUME NEW s \in CallStates, s.core \in Cores
  PROVE  enrolledAt(s, [s EXCEPT !.guest.instances = @ \cup {s.core}, !.cores[s.core].handle = s.core])
<1> DEFINE old == s.cores[s.core]
           fields == [old EXCEPT !.handle = s.core]
           coreTable == [s.cores EXCEPT ![s.core] = fields]
           g == [s.guest EXCEPT !.instances = @ \cup {s.core}]
           t == [s EXCEPT !.guest = g, !.cores = coreTable]
<1>1. old \in C!CoreFields /\ s.cores \in [Cores -> C!CoreFields] /\ s.guest \in C!GuestFields
  BY CallFields
<1>2. /\ fields \in C!CoreFields /\ fields.handle = s.core /\ fields.dropped = old.dropped
      /\ fields.buffer = old.buffer
  BY <1>1 DEF C!CoreFields
<1>3. coreTable \in [Cores -> C!CoreFields]
  BY <1>1, <1>2
<1>4. [s EXCEPT !.guest.instances = @ \cup {s.core}, !.cores[s.core].handle = s.core] = t
  OBVIOUS
<1>5. g \in C!GuestFields
  BY <1>1 DEF C!GuestFields
<1> HIDE DEF fields, coreTable, g
<1>6. /\ t \in CallStates /\ t.err = s.err /\ t.memory = s.memory /\ t.web = s.web
      /\ t.answer = s.answer /\ t.batch = s.batch /\ t.core = s.core /\ t.overrun = s.overrun
      /\ t.stranded = s.stranded /\ t.cores = coreTable /\ t.guest = g
  BY <1>3, <1>5 DEF CallStates
<1> HIDE DEF t
<1>7. /\ \A c \in Cores : c # s.core => coreTable[c] = s.cores[c]
      /\ coreTable[s.core] = fields
  BY <1>1 DEF coreTable
<1>8. \A c \in Cores, b \in C!Buffers : coreTable[c].buffer[b] = s.cores[c].buffer[b]
  BY <1>2, <1>7
<1>9. sameHolding(s, t)
  BY <1>6, <1>8 DEF sameHolding
<1> QED
  BY <1>2, <1>4, <1>6, <1>7, <1>9 DEF enrolledAt, g

\* What became of a new instance: the guest does not know it, or it does and the
\* Core has its handle; an error after that has its price.
instanceCreated(s, t) ==
  /\ sound(t, {}) /\ paid(s) \subseteq paid(t) /\ t.web = s.web /\ t.answer = s.answer
  /\ \/ t.err /\ base(s, t, {}) /\ t.guest = s.guest
     \/ /\ \A c \in Cores : c # s.core => t.cores[c] = s.cores[c]
        /\ t.guest = [s.guest EXCEPT !.instances = @ \cup {s.core}]
        /\ t.cores[s.core].handle = s.core /\ ~t.cores[s.core].dropped
        /\ t.err => pays(s, t)

\* Create may fail before the guest has created anything.
LEMMA CreatedFails ==
  ASSUME NEW s, NEW t, sound(t, {}), base(s, t, {}), idle(s, t), t.err
  PROVE  instanceCreated(s, t)
BY DEF instanceCreated, base, idle

\* Create: an error after the guest has created the instance costs the envelope's buffer.
LEMMA Creating ==
  ASSUME CoreAssumptions, NEW s, sound(s, {}), ~s.err, s.core \in Cores, NEW t \in C!Create(s)
  PROVE  instanceCreated(s, t)
<1>0. C!EnvelopeLength \in Nat \ {0} /\ C!EnvelopeLength \in Nat
  BY DEF C!EnvelopeLength
<1>1. CASE s.cores[s.core].handle # 0 \/ s.cores[s.core].dropped
  BY <1>1, FailedIsSound, CreatedFails DEF C!Create
<1>2. CASE ~(s.cores[s.core].handle # 0 \/ s.cores[s.core].dropped)
  <2>1. PICK u \in C!allocate(s, C!EnvelopeLength) :
          t \in IF u.err THEN {u}
                ELSE UNION {C!cleanupBuffer(v, u.pointer) : v \in C!callOne(u, C!statusError(u) \cup
                       {[C!Touch(u, {<<u.pointer, C!EnvelopeLength>>}) EXCEPT
                           !.guest.instances = @ \cup {u.core}, !.cores[u.core].handle = u.core]})}
    BY <1>2 DEF C!Create, C!WithBuffer, C!Then, C!Released
  <2>2. CASE u = C!Fail(s)
    BY <2>1, <2>2, FailedIsSound, CreatedFails
  <2>3. CASE u # C!Fail(s)
    <3> DEFINE p == u.pointer
               d == [u EXCEPT !.guest.instances = @ \cup {u.core}, !.cores[u.core].handle = u.core]
    <3>1. /\ ~u.err /\ p \in C!Pointers \ {} /\ u.memory[p] = C!EnvelopeLength
          /\ sound(u, {} \cup {p}) /\ base(s, u, {}) /\ idle(s, u) /\ u.cores = s.cores
      BY <1>0, <2>3, Allocated
    <3>2. u \in CallStates /\ ~u.overrun /\ u.core = s.core
      BY <3>1 DEF sound, base
    <3>3. C!Touch(u, {<<p, C!EnvelopeLength>>}) = u
      <4>1. inside(u, {<<p, C!EnvelopeLength>>})
        BY <1>0, <3>1, <3>2, InsideOne DEF C!EnvelopeLength
      <4> QED
        BY <3>2, <4>1, Touched
    <3>4. PICK v \in {C!Fail(u), d} \cup C!statusError(u) : t \in C!cleanupBuffer(v, p)
      BY <2>1, <3>1, <3>3 DEF C!callOne
    <3>5. enrolledAt(u, d)
      BY <3>2, EnrolledShape
    <3> HIDE DEF d, p
    <3>6. CASE v \in {C!Fail(u)} \cup C!statusError(u)
      <4>1. sound(v, {} \cup {p}) /\ base(u, v, {} \cup {p}) /\ idle(u, v) /\ v.err
        BY <3>1, <3>6, FailedIsSound, StatusError
      <4>2. sound(t, {}) /\ base(v, t, {}) /\ idle(v, t) /\ t.err
        BY <3>1, <3>4, <4>1, Cleaned
      <4>3. base(u, v, {})
        BY <4>1 DEF base
      <4>4. base(s, v, {})
        BY <3>1, <4>3, BaseTransitive
      <4>5. base(s, t, {}) /\ idle(s, t)
        BY <3>1, <4>1, <4>2, <4>4, BaseTransitive DEF idle
      <4> QED
        BY <4>2, <4>5, CreatedFails
    <3>7. CASE v = d
      <4>1. sound(d, {} \cup {p}) /\ paid(d) = paid(u)
        BY <3>1, <3>5, SameHolding DEF enrolledAt
      <4>2. /\ sound(t, {}) /\ base(d, t, {}) /\ idle(d, t)
            /\ t.err => d.err \/ pays(d, t)
        BY <3>1, <3>4, <3>7, <4>1, Cleaned
      <4>3. d.core = s.core /\ ~d.err /\ d.web = s.web /\ d.answer = s.answer
            /\ d.guest = [s.guest EXCEPT !.instances = @ \cup {s.core}]
        BY <3>1, <3>2, <3>5 DEF enrolledAt, sameHolding, base, idle
      <4>4. paid(s) \subseteq paid(d)
        BY <3>1, <4>1 DEF base
      <4>5. paid(s) \subseteq paid(t) /\ (t.err => pays(s, t))
        BY <4>2, <4>3, <4>4 DEF base, pays
      <4>6. /\ \A c \in Cores : c # s.core => d.cores[c] = s.cores[c]
            /\ d.cores[s.core].handle = s.core /\ ~d.cores[s.core].dropped
        BY <1>2, <3>1, <3>2, <3>5 DEF enrolledAt
      <4>7. /\ \A c \in Cores : c # s.core => t.cores[c] = d.cores[c]
            /\ t.cores[s.core].handle = d.cores[s.core].handle
            /\ t.cores[s.core].dropped = d.cores[s.core].dropped
            /\ t.web = d.web /\ t.answer = d.answer /\ t.guest = d.guest
        BY <4>2, <4>3 DEF base, idle
      <4> QED
        BY <4>2, <4>3, <4>5, <4>6, <4>7 DEF instanceCreated
    <3> QED
      BY <3>4, <3>6, <3>7
  <2> QED
    BY <2>2, <2>3
<1> QED
  BY <1>1, <1>2

\* The guest has a web client or not, and the WebClient knows it; the Cores are as
\* they were.
webAt(s, t, g, w) ==
  /\ sameHolding(s, t) /\ t.cores = s.cores /\ t.answer = s.answer /\ t.err = s.err
  /\ t.guest = g /\ t.web = w

\* A step of the web client is one of the guest and of its object.
LEMMA WebShape ==
  ASSUME NEW s \in CallStates, NEW g \in C!GuestFields, NEW w \in C!WebFields,
         NEW t, t = [s EXCEPT !.guest = g, !.web = w]
  PROVE  webAt(s, t, g, w)
BY DEF CallStates, sameHolding, webAt

\* What a call changed for the web client, except when it failed before.
webCall(s, t, g, w) ==
  /\ sound(t, {}) /\ paid(s) \subseteq paid(t) /\ t.answer = s.answer
  /\ \A c \in Cores : t.cores[c] = s.cores[c]
  /\ \/ t.err /\ t.guest = s.guest /\ t.web = s.web
     \/ t.guest = g /\ t.web = w /\ (t.err => pays(s, t))

\* A call of the web client may fail before the guest has done anything.
LEMMA WebCallFails ==
  ASSUME CoreAssumptions,
         NEW s, s.core = 0, NEW t, NEW g, NEW w, sound(t, {}), base(s, t, {}), idle(s, t), t.err
  PROVE  webCall(s, t, g, w)
BY DEF webCall, base, idle, CoreAssumptions, C!CoresAssumption

\* Create of the web client, which a second call does not repeat.
LEMMA WebCreating ==
  ASSUME CoreAssumptions, NEW s, sound(s, {}), ~s.err, s.core = 0, NEW t \in C!WebClientCreate(s)
  PROVE  /\ s.web.created \/ s.web.dropped => t = C!Fail(s)
         /\ webCall(s, t, [s.guest EXCEPT !.web = TRUE], [s.web EXCEPT !.created = TRUE])
<1> DEFINE g == [s.guest EXCEPT !.web = TRUE]
           w == [s.web EXCEPT !.created = TRUE]
<1>0. C!EnvelopeLength \in Nat \ {0} /\ C!EnvelopeLength \in Nat
  BY DEF C!EnvelopeLength
<1>1. CASE s.web.created \/ s.web.dropped
  <2>1. t = C!Fail(s)
    BY <1>1 DEF C!WebClientCreate
  <2> HIDE DEF g, w
  <2>2. webCall(s, t, g, w)
    BY <2>1, FailedIsSound, WebCallFails
  <2> QED
    BY <2>1, <2>2 DEF g, w
<1>2. CASE ~(s.web.created \/ s.web.dropped)
  <2>1. PICK u \in C!allocate(s, C!EnvelopeLength) :
          t \in IF u.err THEN {u}
                ELSE UNION {C!cleanupBuffer(v, u.pointer) : v \in C!Answer(u,
                       [C!Touch(u, {<<u.pointer, C!EnvelopeLength>>}) EXCEPT
                          !.guest.web = TRUE, !.web.created = TRUE])}
    BY <1>2 DEF C!WebClientCreate, C!WithBuffer, C!Then, C!Released
  <2>2. CASE u = C!Fail(s)
    <3>1. t = C!Fail(s)
      BY <2>1, <2>2, FailedIsSound
    <3> HIDE DEF g, w
    <3>2. webCall(s, t, g, w)
      BY <3>1, FailedIsSound, WebCallFails
    <3> QED
      BY <1>2, <3>2 DEF g, w
  <2>3. CASE u # C!Fail(s)
    <3> DEFINE p == u.pointer
               d == [u EXCEPT !.guest.web = TRUE, !.web.created = TRUE]
    <3>1. /\ ~u.err /\ p \in C!Pointers \ {} /\ u.memory[p] = C!EnvelopeLength
          /\ sound(u, {} \cup {p}) /\ base(s, u, {}) /\ idle(s, u) /\ u.cores = s.cores
      BY <1>0, <2>3, Allocated
    <3>2. u \in CallStates /\ ~u.overrun /\ u.core = 0 /\ u.guest = s.guest /\ u.web = s.web
      BY <3>1 DEF sound, base, idle
    <3>3. C!Touch(u, {<<p, C!EnvelopeLength>>}) = u
      <4>1. inside(u, {<<p, C!EnvelopeLength>>})
        BY <1>0, <3>1, <3>2, InsideOne DEF C!EnvelopeLength
      <4> QED
        BY <3>2, <4>1, Touched
    <3>4. PICK v \in C!Answer(u, d) : t \in C!cleanupBuffer(v, p)
      BY <2>1, <3>1, <3>3
    <3>5. webAt(u, d, g, w)
      <4>1. d = [u EXCEPT !.guest = g, !.web = w]
        BY <3>2
      <4>2. u.guest \in C!GuestFields /\ u.web \in C!WebFields
        BY <3>2, CallFields
      <4>3. g \in C!GuestFields /\ w \in C!WebFields
        BY <3>2, <4>2 DEF C!GuestFields, C!WebFields
      <4> HIDE DEF g, w, d
      <4> QED
        BY <3>2, <4>1, <4>3, WebShape
    <3> HIDE DEF d, p, g, w
    <3>6. v = d \/ (sound(v, {} \cup {p}) /\ base(u, v, {} \cup {p}) /\ idle(u, v) /\ v.err)
      BY <3>1, <3>4, Answered
    <3>7. CASE sound(v, {} \cup {p}) /\ base(u, v, {} \cup {p}) /\ idle(u, v) /\ v.err
      <4>2. sound(t, {}) /\ base(v, t, {}) /\ idle(v, t) /\ t.err
        BY <3>1, <3>4, <3>7, Cleaned
      <4>3. base(u, v, {})
        BY <3>7 DEF base
      <4>4. base(s, v, {})
        BY <3>1, <4>3, BaseTransitive
      <4>5. base(s, t, {}) /\ idle(s, t)
        BY <3>1, <3>7, <4>2, <4>4, BaseTransitive DEF idle
      <4>6. webCall(s, t, g, w)
        BY <4>2, <4>5, WebCallFails
      <4> QED
        BY <1>2, <4>6 DEF g, w
    <3>8. CASE v = d
      <4>1. sound(d, {} \cup {p}) /\ paid(d) = paid(u)
        BY <3>1, <3>5, SameHolding DEF webAt
      <4>2. /\ sound(t, {}) /\ base(d, t, {}) /\ idle(d, t)
            /\ t.err => d.err \/ pays(d, t)
        BY <3>1, <3>4, <3>8, <4>1, Cleaned
      <4>3. ~d.err /\ d.core = 0 /\ d.answer = s.answer /\ d.guest = g /\ d.web = w /\ d.cores = s.cores
        BY <3>1, <3>2, <3>5 DEF webAt, sameHolding, idle
      <4>4. paid(s) \subseteq paid(d)
        BY <3>1, <4>1 DEF base
      <4>5. paid(s) \subseteq paid(t) /\ (t.err => pays(s, t))
        BY <4>2, <4>3, <4>4 DEF base, pays
      <4>6. \A c \in Cores : t.cores[c] = s.cores[c]
        BY <4>2, <4>3 DEF base, CoreAssumptions, C!CoresAssumption
      <4>7. t.answer = s.answer /\ t.guest = g /\ t.web = w
        BY <4>2, <4>3 DEF base, idle
      <4>8. webCall(s, t, g, w)
        BY <4>2, <4>5, <4>6, <4>7 DEF webCall
      <4> QED
        BY <1>2, <4>8 DEF g, w
    <3> QED
      BY <3>6, <3>7, <3>8
  <2> QED
    BY <2>2, <2>3
<1> QED
  BY <1>1, <1>2

\* Drop of the web client.
LEMMA WebDropping ==
  ASSUME CoreAssumptions, NEW s, sound(s, {}), ~s.err, s.core = 0, s.web.created, ~s.web.dropped,
         NEW t \in C!WebClientDrop(s)
  PROVE  webCall(s, t, [s.guest EXCEPT !.web = FALSE], [s.web EXCEPT !.dropped = TRUE])
<1> DEFINE g == [s.guest EXCEPT !.web = FALSE]
           w == [s.web EXCEPT !.dropped = TRUE]
           d == [s EXCEPT !.guest.web = FALSE]
<1>0. s \in CallStates /\ s.guest \in C!GuestFields /\ s.web \in C!WebFields
  BY CallFields DEF sound
<1>1. PICK u \in C!Answer(s, d) : t \in IF u.err THEN {u} ELSE {[u EXCEPT !.web.dropped = TRUE]}
  BY DEF C!WebClientDrop, C!Then
<1>2. d \in CallStates /\ d.err = s.err /\ d.guest = g /\ d.web = s.web
      /\ [d EXCEPT !.web.dropped = TRUE] = [s EXCEPT !.guest = g, !.web = w]
  <2>1. g \in C!GuestFields
    BY <1>0 DEF C!GuestFields
  <2>2. d = [s EXCEPT !.guest = g]
    OBVIOUS
  <2> HIDE DEF g, d
  <2> QED
    BY <1>0, <2>1, <2>2 DEF CallStates
<1>3. g \in C!GuestFields /\ w \in C!WebFields
  BY <1>0 DEF C!GuestFields, C!WebFields
<1> HIDE DEF d, g, w
<1>4. u = d \/ (sound(u, {}) /\ base(s, u, {}) /\ idle(s, u) /\ u.err)
  BY <1>1, Answered
<1>5. CASE sound(u, {}) /\ base(s, u, {}) /\ idle(s, u) /\ u.err
  <2>1. webCall(s, t, g, w)
    BY <1>1, <1>5, WebCallFails
  <2> QED
    BY <2>1 DEF g, w
<1>6. CASE u = d
  <2>1. t = [s EXCEPT !.guest = g, !.web = w]
    BY <1>1, <1>2, <1>6
  <2>2. webAt(s, t, g, w)
    BY <1>0, <1>3, <2>1, WebShape
  <2>3. sound(t, {}) /\ paid(t) = paid(s)
    BY <2>2, SameHolding DEF webAt
  <2>4. webCall(s, t, g, w)
    BY <2>2, <2>3 DEF webCall, webAt
  <2> QED
    BY <2>4 DEF g, w
<1> QED
  BY <1>4, <1>5, <1>6

\* A Core has given up one of its buffers.
releases(s, t, b) ==
  /\ sound(t, {}) /\ base(s, t, {}) /\ idle(s, t)
  /\ t.cores[s.core].buffer[b] = C!NoBuffer
  /\ \A x \in C!Buffers \ {b} : t.cores[s.core].buffer[x] = s.cores[s.core].buffer[x]

\* release gives back one buffer and goes on when the guest refuses it.
LEMMA Releasing ==
  ASSUME CoreAssumptions,
         NEW S, NEW b \in C!Buffers, \A s \in S : sound(s, {}) /\ s.core \in Cores, NEW t \in C!release(S, b)
  PROVE  \E s \in S : releases(s, t, b)
<1>1. PICK s \in S :
        t \in IF s.cores[s.core].buffer[b].pointer = 0 THEN {s}
              ELSE {C!Keep(u, b, C!NoBuffer) : u \in C!cleanupBuffer(s, s.cores[s.core].buffer[b].pointer)}
  BY DEF C!release
<1> DEFINE p == s.cores[s.core].buffer[b].pointer
<1>2. sound(s, {}) /\ s \in CallStates /\ s.core \in Cores /\ goodBuffer(s, s.core, b, {})
  BY DEF sound
<1>3. CASE p = 0
  <2>1. t = s /\ s.cores[s.core].buffer[b] = C!NoBuffer
    BY <1>1, <1>2, <1>3 DEF goodBuffer
  <2> QED
    BY <1>2, <2>1, BaseReflexive DEF releases, idle
<1>4. CASE p # 0
  <2>1. PICK u \in C!cleanupBuffer(s, p) : t = C!Keep(u, b, C!NoBuffer)
    BY <1>1, <1>4
  <2>2. p \in C!Pointers
    BY <1>2, <1>4, BufferTypes
  <2>3. freedAt(s, u, p) \/ refusedAt(s, u, p)
    BY <1>2, <2>1, <2>2, CleanupCases
  <2>4. u \in CallStates /\ u.core = s.core
    BY <2>3 DEF freedAt, refusedAt, sameCall
  <2>5. keptAt(u, t, b, C!NoBuffer)
    BY <1>2, <2>1, <2>4, KeepShape, NoBufferFields
  <2>7. /\ sound(t, {}) /\ base(s, t, {}) /\ idle(s, t)
        /\ t.cores[s.core].buffer[b] = C!NoBuffer
        /\ \A x \in C!Buffers \ {b} : t.cores[s.core].buffer[x] = s.cores[s.core].buffer[x]
    BY <1>2, <1>4, <2>3, <2>5, HeldDropped
  <2> QED
    BY <2>7 DEF releases
<1> QED
  BY <1>3, <1>4

\* The guest without an instance and its operations.
without(g, c) ==
  [g EXCEPT !.instances = @ \ {c},
            !.operations = [o \in C!Operations |-> IF o.core = c THEN "none" ELSE @[o]]]

\* What the guest holds once an instance is gone.
LEMMA WithoutInstance ==
  ASSUME NEW g \in C!GuestFields, NEW c
  PROVE  /\ without(g, c) \in C!GuestFields
         /\ without(g, c).instances = g.instances \ {c} /\ without(g, c).web = g.web
         /\ \A o \in C!Operations :
              without(g, c).operations[o] = IF o.core = c THEN "none" ELSE g.operations[o]
BY DEF C!GuestFields, without

\* The Core has no handle any more.
closedAt(s, t) ==
  /\ sameHolding(s, t) /\ t.web = s.web /\ t.answer = s.answer
  /\ t.guest = without(s.guest, s.core)
  /\ \A c \in Cores : c # s.core => t.cores[c] = s.cores[c]
  /\ t.cores[s.core].dropped

\* The Core that was dropped, and the guest without its instance.
LEMMA ClosedShape ==
  ASSUME NEW s \in CallStates, s.core \in Cores, NEW t,
         t = [[s EXCEPT !.guest = without(s.guest, s.core)] EXCEPT
                !.cores[s.core].dropped = TRUE, !.cores[s.core].handle = 0]
  PROVE  closedAt(s, t)
<1> DEFINE old == s.cores[s.core]
           fields == [old EXCEPT !.dropped = TRUE, !.handle = 0]
           coreTable == [s.cores EXCEPT ![s.core] = fields]
           g == without(s.guest, s.core)
           d == [s EXCEPT !.guest = g, !.cores = coreTable]
<1>1. old \in C!CoreFields /\ s.cores \in [Cores -> C!CoreFields] /\ s.guest \in C!GuestFields
  BY CallFields
<1>2. fields \in C!CoreFields /\ fields.dropped /\ fields.buffer = old.buffer
  BY <1>1 DEF C!CoreFields
<1>3. coreTable \in [Cores -> C!CoreFields]
  BY <1>1, <1>2
<1>4. g \in C!GuestFields
  BY <1>1, WithoutInstance
<1>5. t = d
  <2>0. g = without(s.guest, s.core)
    OBVIOUS
  <2> HIDE DEF g
  <2>1. t = [[s EXCEPT !.guest = g] EXCEPT !.cores[s.core].dropped = TRUE, !.cores[s.core].handle = 0]
    BY <2>0
  <2>2. [s EXCEPT !.guest = g].cores = s.cores
    BY DEF CallStates
  <2>3. [[s EXCEPT !.guest = g] EXCEPT !.cores[s.core].dropped = TRUE, !.cores[s.core].handle = 0]
        = [[s EXCEPT !.guest = g] EXCEPT !.cores = coreTable]
    BY <1>1, <2>2 DEF C!CoreFields
  <2> HIDE DEF coreTable
  <2>4. [[s EXCEPT !.guest = g] EXCEPT !.cores = coreTable] = d
    BY DEF CallStates
  <2> QED
    BY <2>1, <2>3, <2>4
<1> HIDE DEF fields, coreTable, g
<1>6. /\ d \in CallStates /\ d.memory = s.memory /\ d.web = s.web
      /\ d.answer = s.answer /\ d.core = s.core /\ d.overrun = s.overrun
      /\ d.stranded = s.stranded /\ d.cores = coreTable /\ d.guest = g
  BY <1>3, <1>4 DEF CallStates
<1> HIDE DEF d
<1>7. /\ \A c \in Cores : c # s.core => coreTable[c] = s.cores[c]
      /\ coreTable[s.core] = fields
  BY <1>1 DEF coreTable
<1>8. \A c \in Cores, b \in C!Buffers : coreTable[c].buffer[b] = s.cores[c].buffer[b]
  BY <1>2, <1>7
<1>9. sameHolding(s, d)
  BY <1>6, <1>8 DEF sameHolding
<1> QED
  BY <1>2, <1>5, <1>6, <1>7, <1>9 DEF closedAt, g

\* What became of an instance: it is still there, or it is gone, with all buffers.
dropping(s, t) ==
  /\ sound(t, {}) /\ paid(s) \subseteq paid(t) /\ t.web = s.web /\ t.answer = s.answer
  /\ \/ t.err /\ base(s, t, {}) /\ t.guest = s.guest
     \/ /\ t.guest = without(s.guest, s.core)
        /\ \A c \in Cores : c # s.core => t.cores[c] = s.cores[c]
        /\ t.cores[s.core].dropped
        /\ \A b \in C!Buffers : t.cores[s.core].buffer[b] = C!NoBuffer

\* Drop releases the four buffers in turn, whichever of the frees fail.
LEMMA Dropping ==
  ASSUME CoreAssumptions, NEW s, sound(s, {}), ~s.err, s.core \in Cores,
         s.cores[s.core].handle # 0, ~s.cores[s.core].dropped, NEW t \in C!Drop(s)
  PROVE  dropping(s, t)
<1> DEFINE gone == without(s.guest, s.core)
           d == [s EXCEPT !.guest = gone]
           closedCore(u) == [u EXCEPT !.cores[u.core].dropped = TRUE, !.cores[u.core].handle = 0]
<1>0. s \in CallStates /\ s.guest \in C!GuestFields
  BY CallFields DEF sound
<1>1. PICK u \in C!Answer(s, d) :
        t \in IF u.err THEN {u}
              ELSE C!release(C!release(C!release(C!release({closedCore(u)}, "packet"), "input"), "address"), "output")
  BY DEF C!Drop, C!Then, C!callStatus, without
<1>2. gone \in C!GuestFields
  BY <1>0, WithoutInstance
<1>3. d.core = s.core
  BY <1>0 DEF CallStates
<1>4. closedAt(s, closedCore(d))
  BY <1>0, <1>3, ClosedShape
<1>5. u = d \/ (sound(u, {}) /\ base(s, u, {}) /\ idle(s, u) /\ u.err)
  <2> HIDE DEF d
  <2> QED
    BY <1>1, Answered
<1> HIDE DEF closedCore, d, gone
<1>6. CASE sound(u, {}) /\ base(s, u, {}) /\ idle(s, u) /\ u.err
  BY <1>1, <1>6 DEF dropping, base, idle
<1>7. CASE ~(sound(u, {}) /\ base(s, u, {}) /\ idle(s, u) /\ u.err)
  <2>1. u = d
    BY <1>5, <1>7
  <2> DEFINE v == closedCore(d)
  <2>2. d.err = s.err
    BY <1>0 DEF CallStates, d
  <2>3. t \in C!release(C!release(C!release(C!release({v}, "packet"), "input"), "address"), "output")
    BY <1>1, <2>1, <2>2
  <2>4. sound(v, {}) /\ paid(v) = paid(s)
    BY <1>4, SameHolding DEF closedAt
  <2>5. v.core = s.core
    BY <1>4 DEF closedAt, sameHolding
  <2> HIDE DEF v
  <2> DEFINE A == C!release({v}, "packet")
             B == C!release(A, "input")
             D == C!release(B, "address")
  <2>6. {"packet", "input", "address", "output"} = C!Buffers
    BY DEF C!Buffers
  <2>7. \A x \in A : releases(v, x, "packet")
    BY <2>4, <2>5, <2>6, Releasing
  <2>8. \A x \in A : sound(x, {}) /\ x.core = s.core
    BY <2>5, <2>7 DEF releases, base
  <2> HIDE DEF A
  <2>9. \A x \in B : \E y \in A : releases(y, x, "input")
    BY <2>6, <2>8, Releasing
  <2>10. \A x \in B : sound(x, {}) /\ x.core = s.core
    BY <2>8, <2>9 DEF releases, base
  <2> HIDE DEF B
  <2>11. \A x \in D : \E y \in B : releases(y, x, "address")
    BY <2>6, <2>10, Releasing
  <2>12. \A x \in D : sound(x, {}) /\ x.core = s.core
    BY <2>10, <2>11 DEF releases, base
  <2>13. t \in C!release(D, "output")
    BY <2>3 DEF A, B
  <2> HIDE DEF D
  <2>14. PICK x3 \in D : releases(x3, t, "output")
    BY <2>6, <2>12, <2>13, Releasing
  <2>15. PICK x2 \in B : releases(x2, x3, "address")
    BY <2>11
  <2>16. PICK x1 \in A : releases(x1, x2, "input")
    BY <2>9
  <2>17. releases(v, x1, "packet")
    BY <2>7
  <2>18. base(v, t, {}) /\ idle(v, t) /\ sound(t, {})
    <3>1. base(v, x2, {}) /\ idle(v, x2)
      BY <2>16, <2>17, BaseTransitive DEF releases, idle
    <3>2. base(v, x3, {}) /\ idle(v, x3)
      BY <2>15, <3>1, BaseTransitive DEF releases, idle
    <3> QED
      BY <2>14, <3>2, BaseTransitive DEF releases, idle
  <2>19. x1.core = s.core /\ x2.core = s.core /\ x3.core = s.core
    BY <2>8, <2>10, <2>12
  <2>20. \A b \in C!Buffers : t.cores[s.core].buffer[b] = C!NoBuffer
    <3>1. t.cores[s.core].buffer["output"] = C!NoBuffer
      BY <2>14, <2>19 DEF releases
    <3>2. t.cores[s.core].buffer["address"] = C!NoBuffer
      BY <2>6, <2>14, <2>15, <2>19 DEF releases
    <3>3. t.cores[s.core].buffer["input"] = C!NoBuffer
      <4>1. x2.cores[s.core].buffer["input"] = C!NoBuffer
        BY <2>16, <2>19 DEF releases
      <4>2. x3.cores[s.core].buffer["input"] = C!NoBuffer
        BY <2>6, <2>15, <2>19, <4>1 DEF releases
      <4> QED
        BY <2>6, <2>14, <2>19, <4>2 DEF releases
    <3>4. t.cores[s.core].buffer["packet"] = C!NoBuffer
      <4>1. x1.cores[s.core].buffer["packet"] = C!NoBuffer
        BY <2>5, <2>17 DEF releases
      <4>2. x2.cores[s.core].buffer["packet"] = C!NoBuffer
        BY <2>6, <2>16, <2>19, <4>1 DEF releases
      <4>3. x3.cores[s.core].buffer["packet"] = C!NoBuffer
        BY <2>6, <2>15, <2>19, <4>2 DEF releases
      <4> QED
        BY <2>6, <2>14, <2>19, <4>3 DEF releases
    <3> QED
      BY <2>6, <3>1, <3>2, <3>3, <3>4
  <2>21. /\ v.web = s.web /\ v.answer = s.answer /\ v.guest = without(s.guest, s.core)
         /\ \A c \in Cores : c # s.core => v.cores[c] = s.cores[c]
         /\ v.cores[s.core].dropped
    BY <1>4 DEF closedAt, v
  <2>22. /\ t.web = s.web /\ t.answer = s.answer /\ t.guest = without(s.guest, s.core)
         /\ \A c \in Cores : c # s.core => t.cores[c] = s.cores[c]
         /\ t.cores[s.core].dropped /\ paid(s) \subseteq paid(t)
    BY <2>4, <2>5, <2>18, <2>21 DEF base, idle
  <2> QED
    BY <2>18, <2>20, <2>22 DEF dropping
<1> QED
  BY <1>6, <1>7

-----------------------------------------------------------------------------
(* The steps of the engine.                                                *)

\* A dropped Core has no buffers.
clean(s) ==
  \A c \in Cores, b \in C!Buffers : s.cores[c].dropped => s.cores[c].buffer[b] = C!NoBuffer

\* The state a call begins in.
beginsIn(s, c) ==
  /\ s.memory = memory /\ s.cores = cores /\ s.web = web /\ s.guest = guest
  /\ s.stranded = stranded /\ s.overrun = overrun /\ s.core = c /\ ~s.err /\ s.answer = "none"
  /\ s.batch = {}

\* The buffers Cores keep, by Core and name.
LEMMA HeldPairs ==
  /\ \A h \in C!held : h.core \in Cores /\ h.buffer \in C!Buffers
  /\ \A c \in Cores, b \in C!Buffers : [core |-> c, buffer |-> b] \in C!held
BY DEF C!held

\* Between calls the buffers are in order: a method starts in such a state.
LEMMA NowIsSound ==
  ASSUME CoreAssumptions, C!Consistent, NEW c \in Cores \cup {0}
  PROVE  /\ beginsIn(C!Now(c), c) /\ sound(C!Now(c), {}) /\ clean(C!Now(c))
         /\ paid(C!Now(c)) = C!forgotten
<1> DEFINE s == C!Now(c)
<1>1. beginsIn(s, c)
  BY DEF C!Now, beginsIn
<1>2. s \in CallStates
  <2>1. 0 \in 0 .. Memory
    BY DEF CoreAssumptions, C!BoundsAssumption
  <2> QED
    BY <2>1 DEF C!Now, CallStates, C!Consistent, C!TypeOK
<1> HIDE DEF s
<1>3. \A d \in Cores, b \in C!Buffers : C!heldAt([core |-> d, buffer |-> b]) = s.cores[d].buffer[b]
  BY <1>1 DEF C!heldAt, beginsIn
<1>4. ~s.overrun /\ {} \subseteq C!Pointers
  BY <1>1 DEF beginsIn, C!Consistent, C!GuestStaysInBuffer
<1>5. ASSUME NEW d \in Cores, NEW b \in C!Buffers PROVE goodBuffer(s, d, b, {})
  <2> DEFINE h == [core |-> d, buffer |-> b]
  <2>1. h \in C!held /\ C!heldAt(h) = s.cores[d].buffer[b] /\ h.buffer = b
    BY <1>3, HeldPairs
  <2> HIDE DEF h
  <2>2. IF C!heldAt(h).pointer = 0 THEN C!heldAt(h) = C!NoBuffer
        ELSE /\ C!heldAt(h).capacity > 0
             /\ memory[C!heldAt(h).pointer] >= C!heldAt(h).capacity
             /\ h.buffer = "address" => C!heldAt(h).capacity = C!socketAddressLength
    BY <2>1 DEF C!Consistent, C!BuffersAreLive
  <2> QED
    BY <1>1, <2>1, <2>2 DEF goodBuffer, beginsIn
<1>6. distinctBuffers(s)
  <2>1. ASSUME NEW d \in Cores, NEW e \in Cores, NEW x \in C!Buffers, NEW y \in C!Buffers,
               d # e \/ x # y, s.cores[d].buffer[x].pointer # 0
        PROVE  s.cores[d].buffer[x].pointer # s.cores[e].buffer[y].pointer
    <3> DEFINE h == [core |-> d, buffer |-> x]
               g == [core |-> e, buffer |-> y]
    <3>1. h \in C!held /\ g \in C!held /\ h # g
      BY <2>1, HeldPairs
    <3>2. C!heldAt(h) = s.cores[d].buffer[x] /\ C!heldAt(g) = s.cores[e].buffer[y]
      BY <1>3
    <3> HIDE DEF h, g
    <3> QED
      BY <2>1, <3>1, <3>2 DEF C!Consistent, C!BuffersAreDistinct
  <2> QED
    BY <2>1 DEF distinctBuffers
<1>7. \A p \in C!Pointers : p \in owned(s) <=> \E h \in C!held : C!heldAt(h).pointer = p
  <2>1. \A h \in C!held : C!heldAt(h) = s.cores[h.core].buffer[h.buffer]
    BY <1>1 DEF C!heldAt, beginsIn
  <2>2. ASSUME NEW p \in C!Pointers, NEW d \in Cores, NEW b \in C!Buffers, s.cores[d].buffer[b].pointer = p
        PROVE  \E h \in C!held : C!heldAt(h).pointer = p
    <3>1. [core |-> d, buffer |-> b] \in C!held /\ C!heldAt([core |-> d, buffer |-> b]).pointer = p
      BY <1>3, <2>2, HeldPairs
    <3> QED
      BY <3>1
  <2>3. ASSUME NEW p \in C!Pointers, NEW h \in C!held, C!heldAt(h).pointer = p PROVE p \in owned(s)
    BY <2>1, <2>3, HeldPairs DEF owned
  <2> QED
    BY <2>2, <2>3 DEF owned
<1>8. \A p \in s.stranded : s.memory[p] # 0
  BY <1>1 DEF beginsIn, C!Consistent, C!BuffersAreLive
<1>9. \A p \in C!Pointers : s.memory[p] # 0 => p \in s.stranded \cup owned(s)
  BY <1>1, <1>7 DEF beginsIn, C!Consistent, C!NoGuestLeak
<1>10. sound(s, {})
  BY <1>2, <1>4, <1>5, <1>6, <1>8, <1>9 DEF sound
<1>11. clean(s)
  <2>1. ASSUME NEW d \in Cores, NEW b \in C!Buffers, s.cores[d].dropped
        PROVE  s.cores[d].buffer[b] = C!NoBuffer
    <3> DEFINE h == [core |-> d, buffer |-> b]
    <3>1. h \in C!held /\ C!heldAt(h) = s.cores[d].buffer[b] /\ h.core = d
      BY <1>3, HeldPairs
    <3> HIDE DEF h
    <3> QED
      BY <1>1, <2>1, <3>1 DEF beginsIn, C!Consistent, C!NoGuestLeak
  <2> QED
    BY <2>1 DEF clean
<1>12. paid(s) = C!forgotten
  <2>1. s.stranded = stranded /\ stranded \subseteq C!Pointers
    BY <1>1 DEF beginsIn, C!Consistent, C!TypeOK
  <2> QED
    BY <1>7, <2>1 DEF paid, C!forgotten
<1> QED
  BY <1>1, <1>10, <1>11, <1>12 DEF s

\* What a call leaves behind is consistent again.
LEMMA SoundMemory ==
  ASSUME NEW t, sound(t, {}), clean(t), memory' = t.memory, cores' = t.cores,
         stranded' = t.stranded, overrun' = t.overrun
  PROVE  /\ C!BuffersAreLive' /\ C!BuffersAreDistinct' /\ C!NoGuestLeak' /\ C!GuestStaysInBuffer'
         /\ C!forgotten' = paid(t)
<1>1. \A h \in C!held : /\ C!heldAt(h)' = t.cores[h.core].buffer[h.buffer]
                        /\ h.core \in Cores /\ h.buffer \in C!Buffers
  BY HeldPairs DEF C!heldAt
<1>2. ASSUME NEW d \in Cores, NEW b \in C!Buffers
      PROVE  \E h \in C!held : C!heldAt(h)' = t.cores[d].buffer[b] /\ h.core = d /\ h.buffer = b
  <2>1. [core |-> d, buffer |-> b] \in C!held
    BY HeldPairs
  <2> QED
    BY <1>1, <2>1
<1>3. \A p \in C!Pointers : p \in owned(t) <=> \E h \in C!held : C!heldAt(h)'.pointer = p
  BY <1>1, <1>2 DEF owned
<1>4. t \in CallStates /\ t.stranded \subseteq C!Pointers
  BY CallFields DEF sound
<1>5. C!BuffersAreLive'
  <2>1. ASSUME NEW h \in C!held
        PROVE  IF C!heldAt(h)'.pointer = 0 THEN C!heldAt(h)' = C!NoBuffer
               ELSE /\ C!heldAt(h)'.capacity > 0
                    /\ t.memory[C!heldAt(h)'.pointer] >= C!heldAt(h)'.capacity
                    /\ h.buffer = "address" => C!heldAt(h)'.capacity = C!socketAddressLength
    BY <1>1 DEF sound, goodBuffer
  <2>2. \A p \in t.stranded : t.memory[p] # 0
    BY DEF sound
  <2> QED
    BY <2>1, <2>2 DEF C!BuffersAreLive
<1>6. C!BuffersAreDistinct'
  <2>1. ASSUME NEW h \in C!held, NEW g \in C!held, h # g, C!heldAt(h)'.pointer # 0
        PROVE  C!heldAt(h)'.pointer # C!heldAt(g)'.pointer
    <3>1. h.core # g.core \/ h.buffer # g.buffer
      BY <2>1 DEF C!held
    <3>2. /\ C!heldAt(h)' = t.cores[h.core].buffer[h.buffer] /\ h.core \in Cores /\ h.buffer \in C!Buffers
          /\ C!heldAt(g)' = t.cores[g.core].buffer[g.buffer] /\ g.core \in Cores /\ g.buffer \in C!Buffers
      BY <1>1
    <3>3. distinctBuffers(t)
      BY DEF sound
    <3>4. t.cores[h.core].buffer[h.buffer].pointer # 0
      BY <2>1, <3>2
    <3>5. t.cores[h.core].buffer[h.buffer].pointer # t.cores[g.core].buffer[g.buffer].pointer
      BY <3>1, <3>2, <3>3, <3>4 DEF distinctBuffers
    <3> QED
      BY <3>2, <3>5
  <2> QED
    BY <2>1 DEF C!BuffersAreDistinct
<1>7. C!NoGuestLeak'
  <2>1. \A p \in C!Pointers : t.memory[p] # 0 => p \in t.stranded \/ \E h \in C!held : C!heldAt(h)'.pointer = p
    BY <1>3 DEF sound
  <2>2. \A h \in C!held : t.cores[h.core].dropped => C!heldAt(h)' = C!NoBuffer
    BY <1>1 DEF clean
  <2> QED
    BY <2>1, <2>2 DEF C!NoGuestLeak
<1>8. C!GuestStaysInBuffer'
  BY DEF sound, C!GuestStaysInBuffer
<1>9. C!forgotten' = paid(t)
  BY <1>3, <1>4 DEF C!forgotten, paid
<1> QED
  BY <1>5, <1>6, <1>7, <1>8, <1>9

\* What is lost is paid for.
counted(A, n, F) == IsFiniteSet(A) /\ Cardinality(A) + n <= Cardinality(F)

\* There are finitely many pointers.
LEMMA PointersFinite ==
  ASSUME CoreAssumptions, NEW F, F \subseteq C!Pointers
  PROVE  IsFiniteSet(F) /\ Cardinality(F) \in Nat
<1>1. IsFiniteSet(C!Pointers)
  BY FS_Interval DEF C!Pointers, CoreAssumptions, C!BoundsAssumption
<1> QED
  BY <1>1, FS_Subset, FS_CardinalityType

\* Losses that were counted stay counted when more buffers are forgotten ..
LEMMA CountedKept ==
  ASSUME CoreAssumptions, NEW A, NEW n \in Nat, NEW F, counted(A, n, F), NEW B, B \subseteq A,
         NEW G, F \subseteq G, G \subseteq C!Pointers
  PROVE  counted(B, n, G)
<1>1. IsFiniteSet(F) /\ IsFiniteSet(G) /\ Cardinality(F) \in Nat /\ Cardinality(G) \in Nat
  BY PointersFinite
<1>2. Cardinality(F) <= Cardinality(G)
  BY <1>1, FS_Subset
<1>3. IsFiniteSet(A) /\ IsFiniteSet(B) /\ Cardinality(B) <= Cardinality(A)
  BY FS_Subset DEF counted
<1>4. Cardinality(A) \in Nat /\ Cardinality(B) \in Nat
  BY <1>3, FS_CardinalityType
<1> QED
  BY <1>1, <1>2, <1>3, <1>4 DEF counted

\* .. and one more buffer pays for one more loss.
LEMMA CountedMore ==
  ASSUME CoreAssumptions, NEW A, NEW n \in Nat, NEW F, counted(A, n, F), NEW B, NEW m \in Nat,
         NEW G, F \subseteq G, G \subseteq C!Pointers, NEW p \in G, p \notin F,
         NEW x, (B \subseteq A \cup {x} /\ m = n) \/ (B \subseteq A /\ m = n + 1)
  PROVE  counted(B, m, G)
<1>1. IsFiniteSet(F) /\ IsFiniteSet(G) /\ Cardinality(F) \in Nat /\ Cardinality(G) \in Nat
  BY PointersFinite
<1>2. Cardinality(F) + 1 <= Cardinality(G)
  <2>1. IsFiniteSet(F \cup {p}) /\ Cardinality(F \cup {p}) = Cardinality(F) + 1
    BY <1>1, FS_AddElement
  <2>2. F \cup {p} \subseteq G
    OBVIOUS
  <2> QED
    BY <1>1, <2>1, <2>2, FS_Subset
<1>3. IsFiniteSet(A) /\ Cardinality(A) \in Nat
  BY FS_CardinalityType DEF counted
<1>4. CASE B \subseteq A \cup {x} /\ m = n
  <2>1. IsFiniteSet(A \cup {x}) /\ Cardinality(A \cup {x}) <= Cardinality(A) + 1
    <3>1. /\ IsFiniteSet(A \cup {x})
          /\ \/ Cardinality(A \cup {x}) = Cardinality(A)
             \/ Cardinality(A \cup {x}) = Cardinality(A) + 1
      BY <1>3, FS_AddElement
    <3> QED
      BY <1>3, <3>1
  <2>2. IsFiniteSet(B) /\ Cardinality(B) <= Cardinality(A \cup {x})
    BY <1>4, <2>1, FS_Subset
  <2>3. Cardinality(B) \in Nat /\ Cardinality(A \cup {x}) \in Nat
    BY <2>1, <2>2, FS_CardinalityType
  <2> QED
    BY <1>1, <1>2, <1>3, <1>4, <2>1, <2>2, <2>3 DEF counted
<1>5. CASE B \subseteq A /\ m = n + 1
  <2>1. IsFiniteSet(B) /\ Cardinality(B) <= Cardinality(A)
    BY <1>3, <1>5, FS_Subset
  <2>2. Cardinality(B) \in Nat
    BY <2>1, FS_CardinalityType
  <2> QED
    BY <1>1, <1>2, <1>3, <1>5, <2>1, <2>2 DEF counted
<1> QED
  BY <1>4, <1>5

\* NothingLost is about these numbers.
LEMMA LossesCounted == C!NothingLost <=> counted(C!Orphans, lost, C!forgotten)
BY SameCardinality, SameFiniteness DEF C!NothingLost, counted

\* What the callers know, by type.
Engines ==
  [cores : [Cores -> C!Lives], web : C!Lives, operations : [C!Operations -> {"none", "submitted", "completed"}]]

\* .. and it has that type.
LEMMA EngineTypes ==
  ASSUME C!Consistent
  PROVE  /\ engine \in Engines
         /\ engine.cores \in [Cores -> C!Lives]
         /\ engine.operations \in [C!Operations -> {"none", "submitted", "completed"}]
BY DEF C!Consistent, C!TypeOK, Engines

\* An operation is given by its Core and its kind.
LEMMA OperationCore ==
  ASSUME NEW o \in C!Operations
  PROVE  o.core \in Cores /\ o.kind \in Kinds \cup {C!RPC} /\ o = operation(o.core, o.kind)
BY DEF C!Operations, operation

\* The engine after a call of it has returned in t.
afterCall(t, c) ==
  /\ C!forgotten \subseteq C!forgotten' /\ C!forgotten' \subseteq C!Pointers
  /\ pays(C!Now(c), t) => \E p \in C!forgotten' : p \notin C!forgotten

\* A call that returns with its buffers in order leaves the memory consistent.
LEMMA MemoryStep ==
  ASSUME CoreAssumptions, C!Consistent, NEW c \in Cores \cup {0}, NEW t, sound(t, {}), clean(t),
         paid(C!Now(c)) \subseteq paid(t), C!Becomes(t), engine' \in Engines
  PROVE  /\ C!TypeOK' /\ C!BuffersAreLive' /\ C!BuffersAreDistinct' /\ C!NoGuestLeak' /\ C!GuestStaysInBuffer'
         /\ afterCall(t, c)
<1>1. /\ memory' = t.memory /\ cores' = t.cores /\ stranded' = t.stranded /\ overrun' = t.overrun
      /\ web' = t.web /\ guest' = t.guest /\ lost' \in {lost, lost + 1}
  BY DEF C!Becomes
<1>2. /\ C!BuffersAreLive' /\ C!BuffersAreDistinct' /\ C!NoGuestLeak' /\ C!GuestStaysInBuffer'
      /\ C!forgotten' = paid(t)
  BY <1>1, SoundMemory
<1>3. paid(C!Now(c)) = C!forgotten
  BY NowIsSound
<1>4. t \in CallStates
  BY DEF sound
<1>5. C!forgotten' \subseteq C!Pointers
  BY <1>2, <1>4, CallFields DEF paid
<1>6. afterCall(t, c)
  BY <1>2, <1>3, <1>5 DEF afterCall, pays
<1>7. lost' \in Nat
  <2>1. lost \in Nat
    BY DEF C!Consistent, C!TypeOK
  <2> QED
    BY <1>1, <2>1
<1>8. C!TypeOK'
  <2>1. /\ t.memory \in [C!Pointers -> Nat] /\ t.cores \in [Cores -> C!CoreFields]
        /\ t.web \in C!WebFields /\ t.guest \in C!GuestFields /\ t.stranded \in SUBSET C!Pointers
        /\ t.overrun \in BOOLEAN
    BY <1>4, CallFields
  <2> QED
    BY <1>1, <1>7, <2>1 DEF C!TypeOK, Engines
<1> QED
  BY <1>2, <1>6, <1>8

\* A call on a Core in use, or none: what the callers believe of the others stays.
LEMMA CallStep ==
  ASSUME CoreAssumptions, C!Consistent, NEW c \in Cores \cup {0}, c # 0 => ~cores[c].dropped,
         NEW t, sound(t, {}), base(C!Now(c), t, {}), C!Becomes(t), engine' \in Engines,
         t.guest.instances = guest.instances, t.guest.web = guest.web,
         engine'.web = engine.web,
         \A d \in Cores : \/ engine'.cores[d] = engine.cores[d]
                          \/ engine.cores[d] = "open" /\ engine'.cores[d] = "failing",
         \A o \in C!Operations : t.guest.operations[o] # "none" =>
                                 guest.operations[o] # "none" \/ engine.cores[o.core] = "open",
         NEW X,
         \A o \in C!Operations :
           t.guest.operations[o] # "none" /\ engine'.cores[o.core] = "open"
             /\ engine'.operations[o] = "none"
               => o \in X \/ (guest.operations[o] # "none" /\ engine.operations[o] = "none")
  PROVE  C!Consistent' /\ C!Orphans' \subseteq C!Orphans \cup X /\ afterCall(t, c)
<1> DEFINE s == C!Now(c)
<1>1. beginsIn(s, c) /\ clean(s)
  BY NowIsSound
<1> HIDE DEF s
<1>2. /\ \A d \in Cores : d # c => t.cores[d] = cores[d]
      /\ \A d \in Cores : t.cores[d].handle = cores[d].handle /\ t.cores[d].dropped = cores[d].dropped
      /\ t.web = web /\ paid(s) \subseteq paid(t)
  BY <1>1 DEF base, beginsIn, s
<1>3. clean(t)
  <2>1. ASSUME NEW d \in Cores, NEW b \in C!Buffers, t.cores[d].dropped
        PROVE  t.cores[d].buffer[b] = C!NoBuffer
    <3>1. d # c
      BY <1>2, <2>1 DEF CoreAssumptions, C!CoresAssumption
    <3> QED
      BY <1>1, <1>2, <2>1, <3>1 DEF clean, beginsIn
  <2> QED
    BY <2>1 DEF clean
<1>4. /\ C!TypeOK' /\ C!BuffersAreLive' /\ C!BuffersAreDistinct' /\ C!NoGuestLeak' /\ C!GuestStaysInBuffer'
      /\ afterCall(t, c)
  BY <1>2, <1>3, MemoryStep DEF s
<1>5. cores' = t.cores /\ web' = t.web /\ guest' = t.guest
  BY DEF C!Becomes
<1>6. C!CallersAgree
  BY DEF C!Consistent
<1>7. C!CallersAgree'
  <2>1. ASSUME NEW d \in Cores
        PROVE  /\ engine'.cores[d] \in {"open", "failing"} => t.cores[d].handle # 0 /\ ~t.cores[d].dropped
               /\ engine'.cores[d] \in {"unused", "done"} => d \notin t.guest.instances
               /\ engine'.cores[d] = "unused" => ~t.cores[d].dropped
    BY <1>2, <1>6 DEF C!CallersAgree
  <2>2. ASSUME NEW o \in C!Operations, t.guest.operations[o] # "none"
        PROVE  engine'.cores[o.core] # "unused"
    <3>1. o.core \in Cores
      BY OperationCore
    <3>2. engine.cores[o.core] # "unused"
      BY <1>6, <2>2 DEF C!CallersAgree, C!live
    <3> QED
      BY <3>1, <3>2
  <2>3. /\ engine'.web = "open" => t.web.created /\ ~t.web.dropped
        /\ engine'.web \in {"unused", "done"} => ~t.guest.web
    BY <1>2, <1>6 DEF C!CallersAgree
  <2> QED
    BY <1>5, <2>1, <2>2, <2>3 DEF C!CallersAgree, C!live
<1>8. C!Orphans' \subseteq C!Orphans \cup X
  <2>1. ASSUME NEW d \in t.guest.instances, engine'.cores[d] \in {"failed", "done"}
        PROVE  d \in C!Orphans
    <3>1. d \in guest.instances /\ d \in Cores
      BY DEF C!Consistent, C!TypeOK, C!GuestFields
    <3> QED
      BY <2>1, <3>1 DEF C!Orphans
  <2>2. ASSUME NEW o \in C!Operations, t.guest.operations[o] # "none", engine'.cores[o.core] = "open",
               engine'.operations[o] = "none"
        PROVE  o \in C!Orphans \cup X
    <3>1. o.core \in Cores
      BY OperationCore
    <3>2. engine.cores[o.core] = "open"
      BY <2>2, <3>1
    <3> QED
      BY <2>2, <3>2 DEF C!Orphans, C!live
  <2>3. ASSUME NEW w \in {"web"}, t.guest.web, engine'.web \in {"failed", "done"}
        PROVE  w \in C!Orphans
    BY <2>3 DEF C!Orphans
  <2> QED
    BY <1>5, <2>1, <2>2, <2>3 DEF C!Orphans, C!live
<1> QED
  BY <1>4, <1>7, <1>8 DEF C!Consistent

\* A call that loses nothing keeps NothingLost ..
LEMMA KeptStep ==
  ASSUME CoreAssumptions,
         C!Consistent, C!NothingLost, NEW t, NEW c, afterCall(t, c), C!Orphans' \subseteq C!Orphans, lost' = lost
  PROVE  C!NothingLost'
<1>1. lost \in Nat /\ counted(C!Orphans, lost, C!forgotten)
  BY LossesCounted DEF C!Consistent, C!TypeOK
<1>2. counted(C!Orphans', lost, C!forgotten')
  BY <1>1, CountedKept DEF afterCall
<1> QED
  BY <1>2, SameCardinality, SameFiniteness DEF C!NothingLost, counted

\* .. and so does one that loses a thing and has forgotten a buffer.
LEMMA PaidStep ==
  ASSUME CoreAssumptions,
         C!Consistent, C!NothingLost, NEW t, NEW c, afterCall(t, c), pays(C!Now(c), t), NEW x,
         \/ C!Orphans' \subseteq C!Orphans \cup {x} /\ lost' = lost
         \/ C!Orphans' \subseteq C!Orphans /\ lost' = lost + 1
  PROVE  C!NothingLost'
<1>1. lost \in Nat /\ counted(C!Orphans, lost, C!forgotten)
  BY LossesCounted DEF C!Consistent, C!TypeOK
<1>2. PICK p \in C!forgotten' : p \notin C!forgotten
  BY DEF afterCall
<1>3. lost' \in Nat
  BY <1>1
<1>4. counted(C!Orphans', lost', C!forgotten')
  BY <1>1, <1>2, <1>3, CountedMore DEF afterCall
<1> QED
  BY <1>4, SameCardinality, SameFiniteness DEF C!NothingLost, counted

\* A Core that is open is in use.
LEMMA OpenCore ==
  ASSUME C!Consistent, NEW c \in Cores, C!open(c)
  PROVE  ~cores[c].dropped /\ cores[c].handle # 0
BY DEF C!Consistent, C!CallersAgree, C!open

\* Calls that leave nothing in the guest keep the invariant.
LEMMA QuietStep ==
  ASSUME CoreAssumptions,
         C!Consistent, C!NothingLost, NEW c \in Cores \cup {0}, c # 0 => ~cores[c].dropped,
         NEW t, quiet(C!Now(c), t), C!Becomes(t), UNCHANGED engine
  PROVE  C!Consistent' /\ C!NothingLost'
<1>1. beginsIn(C!Now(c), c)
  BY NowIsSound
<1>2. sound(t, {}) /\ base(C!Now(c), t, {}) /\ t.guest = guest /\ t.answer = "none"
  BY <1>1 DEF quiet, idle, beginsIn
<1>3. engine' = engine /\ engine' \in Engines
  BY EngineTypes
<1>4. C!Consistent' /\ C!Orphans' \subseteq C!Orphans \cup {} /\ afterCall(t, c)
  BY <1>2, <1>3, CallStep
<1>5. lost' = lost
  BY <1>2 DEF C!Becomes
<1> QED
  BY <1>4, <1>5, KeptStep

\* Every step of the driver of an instance keeps it ..
LEMMA DriveInstanceStep ==
  ASSUME CoreAssumptions, C!Consistent, C!NothingLost, NEW c \in Cores, C!DriveInstance(c)
  PROVE  C!Consistent' /\ C!NothingLost'
<1>1. PICK t \in C!Start(C!Now(c)) \cup C!Stop(C!Now(c)) \cup C!Drive(C!Now(c)) \cup C!NotifyCompletions(C!Now(c))
              \cup C!State(C!Now(c)) \cup C!NextDeadline(C!Now(c)) \cup C!CloseResource(C!Now(c))
              \cup C!SetResourceDeadline(C!Now(c)) : C!Becomes(t)
  BY DEF C!DriveInstance
<1>2. sound(C!Now(c), {}) /\ ~C!Now(c).err
  BY NowIsSound DEF beginsIn
<1>3. quiet(C!Now(c), t)
  BY <1>1, <1>2, QuietCall
<1>4. ~cores[c].dropped /\ UNCHANGED engine
  BY OpenCore DEF C!DriveInstance
<1> QED
  BY <1>1, <1>3, <1>4, QuietStep

\* The largest transfer is a number.
LEMMA MaxIsNat == C!maxDataPlaneTransferBytes \in Nat
BY DEF C!maxDataPlaneTransferBytes

\* .. every packet ..
LEMMA SendOnePacketStep ==
  ASSUME CoreAssumptions,
         C!Consistent, C!NothingLost, NEW c \in Cores, NEW n \in PacketLengths, C!SendOnePacket(c, n)
  PROVE  C!Consistent' /\ C!NothingLost'
<1>1. PICK t \in C!SendPacket(C!Now(c), n) : C!Becomes(t)
  BY DEF C!SendOnePacket
<1>2. sound(C!Now(c), {}) /\ ~C!Now(c).err /\ C!Now(c).core = c
  BY NowIsSound DEF beginsIn
<1>3. n \in Nat \ {0}
  <2>1. n \in 1 .. C!maxDataPlaneTransferBytes
    BY DEF CoreAssumptions, C!LengthsAssumption
  <2> QED
    BY <2>1, MaxIsNat
<1>4. quiet(C!Now(c), t)
  BY <1>1, <1>2, <1>3, PacketSent
<1>5. ~cores[c].dropped /\ UNCHANGED engine
  BY OpenCore DEF C!SendOnePacket
<1> QED
  BY <1>1, <1>4, <1>5, QuietStep

\* .. and every step of the driver of the web client.
LEMMA DriveWebClientStep ==
  ASSUME CoreAssumptions, C!Consistent, C!NothingLost, C!DriveWebClient
  PROVE  C!Consistent' /\ C!NothingLost'
<1>1. PICK t \in C!WebClientCall(C!Now(0)) : C!Becomes(t)
  BY DEF C!DriveWebClient
<1>2. sound(C!Now(0), {}) /\ ~C!Now(0).err
  BY NowIsSound DEF beginsIn
<1>3. quiet(C!Now(0), t)
  BY <1>1, <1>2, QuietCall
<1>4. UNCHANGED engine
  BY DEF C!DriveWebClient
<1> QED
  BY <1>1, <1>3, <1>4, QuietStep

\* An operation the guest accepted is known to the caller, or paid for.
LEMMA SubmittedStep ==
  ASSUME CoreAssumptions, C!Consistent, C!NothingLost, NEW o \in C!Operations, NEW calls,
         \A t \in calls : accepted(C!Now(o.core), t, o.kind, {}), C!Submitted(o, calls)
  PROVE  C!Consistent' /\ C!NothingLost'
<1> DEFINE c == o.core
           s == C!Now(c)
           g == with(guest, o, "pending")
<1>1. PICK t \in calls :
        /\ C!Becomes(t)
        /\ engine' = IF t.err THEN engine ELSE [engine EXCEPT !.operations[o] = "submitted"]
  BY DEF C!Submitted
<1>2. /\ c \in Cores /\ C!open(c) /\ guest.operations[o] = "none" /\ o = operation(c, o.kind)
      /\ engine.cores[c] = "open"
  BY OperationCore DEF C!Submitted, C!live, C!open
<1>3. ~cores[c].dropped
  BY <1>2, OpenCore
<1>4. beginsIn(s, c) /\ s.answer = "none"
  BY <1>2, NowIsSound DEF beginsIn
<1>5. /\ sound(t, {}) /\ base(s, t, {}) /\ t.answer = "none"
      /\ \/ t.err /\ t.guest = guest
         \/ t.guest = g /\ (t.err => pays(s, t))
  <2>1. asked(s, t, g, "none", {})
    BY <1>2, <1>4 DEF accepted, beginsIn
  <2> HIDE DEF g
  <2> QED
    BY <1>4, <2>1 DEF asked, idle, beginsIn
<1>6. lost' = lost
  BY <1>1, <1>5 DEF C!Becomes
<1>7. guest \in C!GuestFields
  BY DEF C!Consistent, C!TypeOK
<1>8. /\ g.instances = guest.instances /\ g.web = guest.web
      /\ \A r \in C!Operations \ {o} : g.operations[r] = guest.operations[r]
  BY <1>7, WithOperation
<1>9. /\ engine' \in Engines /\ engine'.web = engine.web /\ engine'.cores = engine.cores
      /\ \A r \in C!Operations \ {o} : engine'.operations[r] = engine.operations[r]
      /\ ~t.err => engine'.operations[o] = "submitted"
  BY <1>1, EngineTypes DEF Engines
<1> HIDE DEF s, g, c
<1>10. CASE t.err /\ t.guest = guest
  <2>1. engine' = engine
    BY <1>1, <1>10
  <2>2. C!Consistent' /\ C!Orphans' \subseteq C!Orphans \cup {} /\ afterCall(t, c)
    BY <1>1, <1>2, <1>3, <1>5, <1>9, <1>10, <2>1, CallStep DEF s
  <2> QED
    BY <1>6, <2>2, KeptStep
<1>11. CASE ~t.err /\ t.guest = g
  <2>1. /\ \A r \in C!Operations : g.operations[r] # "none" =>
             guest.operations[r] # "none" \/ engine.cores[r.core] = "open"
        /\ \A r \in C!Operations : g.operations[r] # "none" /\ engine'.operations[r] = "none" =>
             guest.operations[r] # "none" /\ engine.operations[r] = "none"
    BY <1>2, <1>8, <1>9, <1>11 DEF c
  <2>2. C!Consistent' /\ C!Orphans' \subseteq C!Orphans \cup {} /\ afterCall(t, c)
    BY <1>1, <1>2, <1>3, <1>5, <1>8, <1>9, <1>11, <2>1, CallStep DEF s
  <2> QED
    BY <1>6, <2>2, KeptStep
<1>12. CASE t.err /\ t.guest = g /\ pays(s, t)
  <2> DEFINE X == {o}
  <2>1. /\ \A r \in C!Operations : g.operations[r] # "none" =>
             guest.operations[r] # "none" \/ engine.cores[r.core] = "open"
        /\ \A r \in C!Operations : g.operations[r] # "none" /\ engine'.operations[r] = "none" =>
             r \in X \/ (guest.operations[r] # "none" /\ engine.operations[r] = "none")
    BY <1>2, <1>8, <1>9 DEF c
  <2> HIDE DEF X
  <2>2. C!Consistent' /\ C!Orphans' \subseteq C!Orphans \cup X /\ afterCall(t, c)
    BY <1>1, <1>2, <1>3, <1>5, <1>8, <1>9, <1>12, <2>1, CallStep DEF s
  <2>3. pays(C!Now(c), t)
    BY <1>12 DEF s
  <2> QED
    BY <1>6, <2>2, <2>3, PaidStep DEF X
<1> QED
  BY <1>5, <1>10, <1>11, <1>12

\* So submitting an operation keeps the invariant ..
LEMMA SubmitOperationStep ==
  ASSUME CoreAssumptions,
         C!Consistent, C!NothingLost, NEW o \in C!Operations, NEW n \in PacketLengths \cup {0},
         C!SubmitOperation(o, n)
  PROVE  C!Consistent' /\ C!NothingLost'
<1>1. o.core \in Cores /\ o.kind \in Kinds
  BY OperationCore DEF C!SubmitOperation
<1>2. sound(C!Now(o.core), {}) /\ ~C!Now(o.core).err /\ C!Now(o.core).core = o.core
  BY <1>1, NowIsSound DEF beginsIn
<1>3. n \in Nat
  <2>1. n = 0 \/ n \in 1 .. C!maxDataPlaneTransferBytes
    BY DEF CoreAssumptions, C!LengthsAssumption
  <2> QED
    BY <2>1, MaxIsNat
<1>4. \A t \in C!Submit(C!Now(o.core), o.kind, n) : accepted(C!Now(o.core), t, o.kind, {})
  BY <1>1, <1>2, <1>3, Submitting
<1> QED
  BY <1>4, SubmittedStep DEF C!SubmitOperation

\* .. and so does submitting an RPC.
LEMMA SubmitRequestStep ==
  ASSUME CoreAssumptions, C!Consistent, C!NothingLost, NEW o \in C!Operations, C!SubmitRequest(o)
  PROVE  C!Consistent' /\ C!NothingLost'
<1>1. o.core \in Cores /\ o.kind = C!RPC
  BY OperationCore DEF C!SubmitRequest
<1>2. sound(C!Now(o.core), {}) /\ ~C!Now(o.core).err /\ C!Now(o.core).core = o.core
  BY <1>1, NowIsSound DEF beginsIn
<1>3. \A t \in C!SubmitRPC(C!Now(o.core)) : accepted(C!Now(o.core), t, o.kind, {})
  BY <1>1, <1>2, Requesting
<1> QED
  BY <1>3, SubmittedStep DEF C!SubmitRequest

\* No operation is new.
LEMMA LiveStep ==
  ASSUME CoreAssumptions, C!Consistent, NEW c \in Cores \cup {0}, c # 0 => ~cores[c].dropped,
         NEW t, sound(t, {}), base(C!Now(c), t, {}), C!Becomes(t), engine' \in Engines,
         t.guest.instances = guest.instances, t.guest.web = guest.web,
         engine'.web = engine.web,
         \A d \in Cores : \/ engine'.cores[d] = engine.cores[d]
                          \/ engine.cores[d] = "open" /\ engine'.cores[d] = "failing",
         \A r \in C!Operations : t.guest.operations[r] # "none" => guest.operations[r] # "none",
         \A r \in C!Operations :
           t.guest.operations[r] # "none" /\ engine'.cores[r.core] = "open"
             /\ engine'.operations[r] = "none" => engine.operations[r] = "none"
  PROVE  C!Consistent' /\ C!Orphans' \subseteq C!Orphans /\ afterCall(t, c)
<1> DEFINE X == {}
<1>1. /\ \A r \in C!Operations : t.guest.operations[r] # "none" =>
           guest.operations[r] # "none" \/ engine.cores[r.core] = "open"
      /\ \A r \in C!Operations :
           t.guest.operations[r] # "none" /\ engine'.cores[r.core] = "open"
             /\ engine'.operations[r] = "none"
               => r \in X \/ (guest.operations[r] # "none" /\ engine.operations[r] = "none")
  OBVIOUS
<1> HIDE DEF X
<1>2. C!Consistent' /\ C!Orphans' \subseteq C!Orphans \cup X /\ afterCall(t, c)
  BY <1>1, CallStep
<1> QED
  BY <1>2 DEF X

\* The guest with one operation changed has no new one.
LEMMA OneOperation ==
  ASSUME C!Consistent, NEW o \in C!Operations, NEW x \in {"none", "pending", "completed", "announced"},
         x # "none" => guest.operations[o] # "none"
  PROVE  /\ with(guest, o, x).instances = guest.instances /\ with(guest, o, x).web = guest.web
         /\ \A r \in C!Operations :
              with(guest, o, x).operations[r] # "none" => guest.operations[r] # "none"
         /\ with(guest, o, x).operations[o] = x
<1>1. guest \in C!GuestFields
  BY DEF C!Consistent, C!TypeOK
<1> DEFINE g == with(guest, o, x)
<1>2. /\ g.instances = guest.instances /\ g.web = guest.web /\ g.operations[o] = x
      /\ \A r \in C!Operations \ {o} : g.operations[r] = guest.operations[r]
  BY <1>1 DEF with, C!GuestFields
<1> HIDE DEF g
<1>3. \A r \in C!Operations : g.operations[r] # "none" => guest.operations[r] # "none"
  BY <1>2
<1> QED
  BY <1>2, <1>3 DEF g

\* Cancelling keeps it: the operation is still there to be taken.
LEMMA CancelStep ==
  ASSUME CoreAssumptions, C!Consistent, C!NothingLost, NEW o \in C!Operations, C!Cancel(o)
  PROVE  C!Consistent' /\ C!NothingLost'
<1> DEFINE c == o.core
           g == with(guest, o, "completed")
<1>1. PICK t \in C!CancelOperation(C!Now(c), o) : C!Becomes(t)
  BY DEF C!Cancel
<1>2. c \in Cores /\ C!open(c) /\ engine' = engine
  BY OperationCore DEF C!Cancel
<1>3. beginsIn(C!Now(c), c) /\ sound(C!Now(c), {}) /\ ~C!Now(c).err
  BY <1>2, NowIsSound DEF beginsIn
<1>4. ~cores[c].dropped
  BY <1>2, OpenCore
<1>5. CASE quiet(C!Now(c), t)
  BY <1>1, <1>2, <1>4, <1>5, QuietStep
<1>6. CASE guest.operations[o] = "pending" /\ asked(C!Now(c), t, g, C!Now(c).answer, {})
  <2>0. /\ g.instances = guest.instances /\ g.web = guest.web
        /\ \A r \in C!Operations : g.operations[r] # "none" => guest.operations[r] # "none"
    BY <1>6, OneOperation
  <2> HIDE DEF g, c
  <2>1. /\ sound(t, {}) /\ base(C!Now(c), t, {}) /\ t.answer = "none"
        /\ t.guest = guest \/ t.guest = g
    BY <1>3, <1>6 DEF asked, idle, beginsIn
  <2>2. /\ t.guest.instances = guest.instances /\ t.guest.web = guest.web
        /\ \A r \in C!Operations : t.guest.operations[r] # "none" => guest.operations[r] # "none"
    BY <2>0, <2>1
  <2>3. engine' \in Engines
    BY <1>2, EngineTypes
  <2>4. C!Consistent' /\ C!Orphans' \subseteq C!Orphans /\ afterCall(t, c)
    BY <1>1, <1>2, <1>4, <2>1, <2>2, <2>3, LiveStep
  <2>5. lost' = lost
    BY <1>1, <2>1 DEF C!Becomes
  <2> QED
    BY <2>4, <2>5, KeptStep
<1>7. C!Now(c).guest = guest
  BY <1>3 DEF beginsIn
<1> QED
  BY <1>1, <1>3, <1>5, <1>6, <1>7, Cancelling

\* The guest may complete an operation at any time.
LEMMA GuestCompletesStep ==
  ASSUME CoreAssumptions, C!Consistent, C!NothingLost, NEW o \in C!Operations, C!guestCompletes(o)
  PROVE  C!Consistent' /\ C!NothingLost'
<1> DEFINE s == C!Now(0)
           g == with(guest, o, "completed")
           t == [s EXCEPT !.guest.operations[o] = "completed"]
<1>1. beginsIn(s, 0) /\ sound(s, {}) /\ s \in CallStates
  BY NowIsSound DEF sound
<1> HIDE DEF s
<1>2. guestAt(s, t, with(s.guest, o, "completed"), s.answer) /\ t.err = s.err
  BY <1>1, OperationShape
<1> HIDE DEF t
<1>3. sound(t, {}) /\ base(s, t, {})
  BY <1>1, <1>2, GuestAt
<1>4. guest.operations[o] = "pending" /\ guest' = g
      /\ UNCHANGED <<memory, cores, web, engine, stranded, overrun, lost>>
  BY DEF C!guestCompletes, with
<1>5. /\ g.instances = guest.instances /\ g.web = guest.web
      /\ \A r \in C!Operations : g.operations[r] # "none" => guest.operations[r] # "none"
  BY <1>4, OneOperation
<1>6. t.guest = g
  BY <1>1, <1>2 DEF guestAt, beginsIn
<1> HIDE DEF g
<1>7. C!Becomes(t)
  BY <1>1, <1>2, <1>4, <1>6 DEF C!Becomes, guestAt, beginsIn
<1>8. engine' \in Engines /\ engine' = engine
  BY <1>4, EngineTypes
<1>9. C!Consistent' /\ C!Orphans' \subseteq C!Orphans /\ afterCall(t, 0)
  BY <1>3, <1>5, <1>6, <1>7, <1>8, LiveStep DEF s
<1> QED
  BY <1>4, <1>9, KeptStep

\* Draining keeps it: what was announced and not received is still there.
LEMMA DrainStep ==
  ASSUME CoreAssumptions, C!Consistent, C!NothingLost, NEW c \in Cores, C!drainCompletions(c)
  PROVE  C!Consistent' /\ C!NothingLost'
<1>1. PICK t \in C!DrainCompletions(C!Now(c), C!completionBatch) :
        /\ C!Becomes(t)
        /\ engine' = IF t.err \/ \E o \in t.batch : engine.operations[o] = "none"
                     THEN [engine EXCEPT !.cores[c] = "failing"]
                     ELSE [engine EXCEPT !.operations =
                             [o \in C!Operations |-> IF o \in t.batch THEN "completed" ELSE @[o]]]
  BY DEF C!drainCompletions
<1>2. engine.cores[c] = "open" /\ ~cores[c].dropped
  BY OpenCore DEF C!drainCompletions, C!open
<1>3. beginsIn(C!Now(c), c) /\ sound(C!Now(c), {}) /\ ~C!Now(c).err /\ C!Now(c).core = c
  BY NowIsSound DEF beginsIn
<1>4. drained(C!Now(c), t)
  BY <1>1, <1>3, Draining
<1>5. /\ sound(t, {}) /\ base(C!Now(c), t, {}) /\ t.answer = "none"
      /\ t.guest.instances = guest.instances /\ t.guest.web = guest.web
      /\ \A r \in C!Operations : t.guest.operations[r] # "none" => guest.operations[r] # "none"
  <2>1. guest \in C!GuestFields
    BY DEF C!Consistent, C!TypeOK
  <2>2. CASE t.guest = guest
    BY <1>3, <1>4, <2>2 DEF drained, idle, beginsIn
  <2>3. CASE /\ t.guest = [guest EXCEPT !.operations =
                             [o \in C!Operations |-> IF o \in t.batch THEN "announced" ELSE @[o]]]
             /\ \A o \in t.batch : guest.operations[o] = "completed"
    <3>1. /\ t.guest.instances = guest.instances /\ t.guest.web = guest.web
          /\ \A r \in C!Operations :
               t.guest.operations[r] = IF r \in t.batch THEN "announced" ELSE guest.operations[r]
      BY <2>1, <2>3 DEF C!GuestFields
    <3>2. \A r \in C!Operations : t.guest.operations[r] # "none" => guest.operations[r] # "none"
      BY <2>3, <3>1
    <3> QED
      BY <1>3, <1>4, <3>1, <3>2 DEF drained, idle, beginsIn
  <2> QED
    BY <1>3, <1>4, <2>2, <2>3 DEF drained, idle, beginsIn
<1>6. lost' = lost
  BY <1>1, <1>5 DEF C!Becomes
<1>7. CASE t.err \/ \E o \in t.batch : engine.operations[o] = "none"
  <2>1. engine' = [engine EXCEPT !.cores[c] = "failing"]
    BY <1>1, <1>7
  <2>2. /\ engine' \in Engines /\ engine'.web = engine.web /\ engine'.operations = engine.operations
        /\ \A d \in Cores : engine'.cores[d] = IF d = c THEN "failing" ELSE engine.cores[d]
    BY <2>1, EngineTypes DEF Engines, C!Lives
  <2>3. C!Consistent' /\ C!Orphans' \subseteq C!Orphans /\ afterCall(t, c)
    BY <1>1, <1>2, <1>5, <2>2, LiveStep
  <2> QED
    BY <1>6, <2>3, KeptStep
<1>8. CASE ~(t.err \/ \E o \in t.batch : engine.operations[o] = "none")
  <2>1. engine' = [engine EXCEPT !.operations =
                     [o \in C!Operations |-> IF o \in t.batch THEN "completed" ELSE @[o]]]
    BY <1>1, <1>8
  <2>2. /\ engine' \in Engines /\ engine'.web = engine.web /\ engine'.cores = engine.cores
        /\ \A r \in C!Operations :
             engine'.operations[r] = IF r \in t.batch THEN "completed" ELSE engine.operations[r]
    BY <2>1, EngineTypes DEF Engines
  <2>3. \A r \in C!Operations : engine'.operations[r] = "none" => engine.operations[r] = "none"
    BY <2>2
  <2>4. C!Consistent' /\ C!Orphans' \subseteq C!Orphans /\ afterCall(t, c)
    BY <1>1, <1>2, <1>5, <2>2, <2>3, LiveStep
  <2> QED
    BY <1>6, <2>4, KeptStep
<1> QED
  BY <1>7, <1>8

\* An operation that the guest has given away, or a Core whose driver ends.
LEMMA EndedStep ==
  ASSUME CoreAssumptions,
         C!Consistent, NEW o \in C!Operations, engine.cores[o.core] = "open", engine.operations[o] # "none",
         NEW t, sound(t, {}), base(C!Now(o.core), t, {}), C!Becomes(t),
         t.guest = guest \/ t.guest = with(guest, o, "none"),
         \/ engine' = engine
         \/ engine' = [engine EXCEPT !.cores[o.core] = "failing"]
         \/ t.guest = with(guest, o, "none") /\ engine' = [engine EXCEPT !.operations[o] = "none"]
  PROVE  C!Consistent' /\ C!Orphans' \subseteq C!Orphans /\ afterCall(t, o.core)
<1> DEFINE c == o.core
           g == with(guest, o, "none")
<1>1. c \in Cores /\ ~cores[c].dropped
  BY OperationCore, OpenCore DEF C!open
<1>2. /\ g.instances = guest.instances /\ g.web = guest.web /\ g.operations[o] = "none"
      /\ \A r \in C!Operations : g.operations[r] # "none" => guest.operations[r] # "none"
  BY OneOperation
<1> HIDE DEF g
<1>3. /\ t.guest.instances = guest.instances /\ t.guest.web = guest.web
      /\ \A r \in C!Operations : t.guest.operations[r] # "none" => guest.operations[r] # "none"
  BY <1>2 DEF g
<1>4. /\ engine' \in Engines /\ engine'.web = engine.web
      /\ \A d \in Cores : \/ engine'.cores[d] = engine.cores[d]
                          \/ engine.cores[d] = "open" /\ engine'.cores[d] = "failing"
  <2>1. CASE engine' = engine
    BY <2>1, EngineTypes
  <2>2. CASE engine' = [engine EXCEPT !.cores[c] = "failing"]
    BY <1>1, <2>2, EngineTypes DEF Engines, C!Lives
  <2>3. CASE engine' = [engine EXCEPT !.operations[o] = "none"]
    BY <2>3, EngineTypes DEF Engines
  <2> QED
    BY <2>1, <2>2, <2>3
<1>5. \A r \in C!Operations : t.guest.operations[r] # "none" /\ engine'.operations[r] = "none"
                              => engine.operations[r] = "none"
  <2>1. CASE engine' = engine
    BY <2>1
  <2>2. CASE engine' = [engine EXCEPT !.cores[c] = "failing"]
    BY <1>1, <2>2, EngineTypes DEF Engines
  <2>3. CASE t.guest = g /\ engine' = [engine EXCEPT !.operations[o] = "none"]
    <3>1. \A r \in C!Operations \ {o} : engine'.operations[r] = engine.operations[r]
      BY <2>3, EngineTypes DEF Engines
    <3> QED
      BY <1>2, <2>3, <3>1
  <2> QED
    BY <2>1, <2>2, <2>3 DEF g
<1> QED
  BY <1>1, <1>3, <1>4, <1>5, LiveStep

\* A result that was taken and could not be returned is counted in lost.
LEMMA TakeResultStep ==
  ASSUME CoreAssumptions, C!Consistent, C!NothingLost, NEW o \in C!Operations, C!takeResult(o)
  PROVE  C!Consistent' /\ C!NothingLost'
<1> DEFINE c == o.core
<1>1. PICK t \in C!TakeResult(C!Now(c), o) :
        /\ C!Becomes(t)
        /\ \/ /\ t.answer \in {"result", "error"}
              /\ engine' = [engine EXCEPT !.operations[o] = "none"]
           \/ /\ t.err
              /\ engine' = [engine EXCEPT !.cores[c] = "failing"]
  BY DEF C!takeResult
<1>2. c \in Cores /\ engine.cores[c] = "open" /\ engine.operations[o] # "none" /\ o.kind # C!RPC
  BY OperationCore DEF C!takeResult, C!open
<1>3. beginsIn(C!Now(c), c) /\ sound(C!Now(c), {}) /\ ~C!Now(c).err /\ C!Now(c).core = c
  BY <1>2, NowIsSound DEF beginsIn
<1>4. took(C!Now(c), t, o)
  BY <1>1, <1>2, <1>3, Taking
<1>5. /\ sound(t, {}) /\ base(C!Now(c), t, {})
      /\ \/ t.guest = guest /\ t.answer = "none"
         \/ t.guest = with(guest, o, "none") /\ (t.answer = "result" => ~t.err)
  BY <1>3, <1>4 DEF took, idle, beginsIn
<1>6. lost' = lost
  BY <1>1, <1>5 DEF C!Becomes
<1>7. \/ engine' = [engine EXCEPT !.cores[c] = "failing"]
      \/ t.guest = with(guest, o, "none") /\ engine' = [engine EXCEPT !.operations[o] = "none"]
  BY <1>1, <1>5
<1>8. C!Consistent' /\ C!Orphans' \subseteq C!Orphans /\ afterCall(t, c)
  BY <1>1, <1>2, <1>5, <1>7, EndedStep
<1> QED
  BY <1>6, <1>8, KeptStep

\* .. and so is a response.
LEMMA TakeRPCStep ==
  ASSUME CoreAssumptions, C!Consistent, C!NothingLost, NEW o \in C!Operations, C!takeRPC(o)
  PROVE  C!Consistent' /\ C!NothingLost'
<1> DEFINE c == o.core
           g == with(guest, o, "none")
<1>1. PICK t \in C!TakeRPCResponse(C!Now(c), o) :
        /\ C!Becomes(t)
        /\ engine' = IF t.err THEN [engine EXCEPT !.cores[c] = "failing"]
                     ELSE IF t.answer = "result" THEN [engine EXCEPT !.operations[o] = "none"]
                     ELSE engine
  BY DEF C!takeRPC
<1>2. c \in Cores /\ engine.cores[c] = "open" /\ engine.operations[o] # "none"
  BY OperationCore DEF C!takeRPC, C!open
<1>3. beginsIn(C!Now(c), c) /\ sound(C!Now(c), {}) /\ ~C!Now(c).err
  BY <1>2, NowIsSound DEF beginsIn
<1>4. quiet(C!Now(c), t) \/ asked(C!Now(c), t, g, "result", {})
  <2>1. C!Now(c).guest = guest
    BY <1>3 DEF beginsIn
  <2> QED
    BY <1>1, <1>3, <2>1, TakingResponse
<1> HIDE DEF g
<1>5. /\ sound(t, {}) /\ base(C!Now(c), t, {})
      /\ \/ t.guest = guest /\ t.answer = "none"
         \/ t.guest = g /\ t.answer = "result" /\ (t.err => pays(C!Now(c), t))
  BY <1>3, <1>4 DEF quiet, asked, idle, beginsIn
<1>6. \/ engine' = engine
      \/ engine' = [engine EXCEPT !.cores[c] = "failing"]
      \/ t.guest = g /\ engine' = [engine EXCEPT !.operations[o] = "none"]
  BY <1>1, <1>5
<1>7. C!Consistent' /\ C!Orphans' \subseteq C!Orphans /\ afterCall(t, c)
  BY <1>1, <1>2, <1>5, <1>6, EndedStep DEF g
<1> HIDE DEF c
<1>8. CASE t.answer = "result" /\ t.err
  <2>1. lost' = lost + 1 /\ pays(C!Now(c), t)
    BY <1>1, <1>5, <1>8 DEF C!Becomes
  <2> QED
    BY <1>7, <2>1, PaidStep
<1>9. CASE ~(t.answer = "result" /\ t.err)
  <2>1. lost' = lost
    BY <1>1, <1>9 DEF C!Becomes
  <2> QED
    BY <1>7, <2>1, KeptStep
<1> QED
  BY <1>8, <1>9

\* Freeing an RPC keeps the invariant.
LEMMA FreeRPCStep ==
  ASSUME CoreAssumptions, C!Consistent, C!NothingLost, NEW o \in C!Operations, C!freeRPC(o)
  PROVE  C!Consistent' /\ C!NothingLost'
<1> DEFINE c == o.core
           g == with(guest, o, "none")
<1>1. PICK t \in C!FreeRPCOperation(C!Now(c), o) :
        C!Becomes(t) /\ engine' = IF t.err THEN engine ELSE [engine EXCEPT !.operations[o] = "none"]
  BY DEF C!freeRPC
<1>2. c \in Cores /\ engine.cores[c] = "open" /\ engine.operations[o] # "none"
  BY OperationCore DEF C!freeRPC, C!open
<1>3. beginsIn(C!Now(c), c) /\ sound(C!Now(c), {}) /\ ~C!Now(c).err /\ C!Now(c).guest = guest
      /\ C!Now(c).answer = "none"
  BY <1>2, NowIsSound DEF beginsIn
<1>4. asked(C!Now(c), t, g, "none", {})
  BY <1>1, <1>3, FreeingResponse
<1> HIDE DEF g
<1>5. /\ sound(t, {}) /\ base(C!Now(c), t, {}) /\ t.answer = "none"
      /\ (t.guest = guest /\ t.err) \/ t.guest = g
  BY <1>3, <1>4 DEF asked, idle
<1>6. C!Consistent' /\ C!Orphans' \subseteq C!Orphans /\ afterCall(t, c)
  BY <1>1, <1>2, <1>5, EndedStep DEF g
<1>7. lost' = lost
  BY <1>1, <1>5 DEF C!Becomes
<1> HIDE DEF c
<1> QED
  BY <1>6, <1>7, KeptStep

\* Creating keeps it: an instance whose creator got an error is paid for.
LEMMA CreateInstanceStep ==
  ASSUME CoreAssumptions, C!Consistent, C!NothingLost, NEW c \in Cores, C!CreateInstance(c)
  PROVE  C!Consistent' /\ C!NothingLost'
<1> DEFINE s == C!Now(c)
           g == [guest EXCEPT !.instances = @ \cup {c}]
<1>1. PICK t \in C!Then(C!New(s), C!Create) :
        C!Becomes(t) /\ engine' = [engine EXCEPT !.cores[c] = IF t.err THEN "failed" ELSE "open"]
  BY DEF C!CreateInstance
<1>2. engine.cores[c] = "unused"
  BY DEF C!CreateInstance
<1>3. beginsIn(s, c) /\ sound(s, {}) /\ ~s.err /\ s.core = c /\ clean(s) /\ s \in CallStates
  BY NowIsSound DEF beginsIn, sound
<1> HIDE DEF s
<1>4. instanceCreated(s, t)
  <2>1. PICK u \in C!New(s) : t \in IF u.err THEN {u} ELSE C!Create(u)
    BY <1>1 DEF C!Then
  <2>2. u = s \/ u = C!Fail(s)
    BY <1>3, <2>1, NewCases
  <2>3. CASE u = s
    BY <1>3, <2>1, <2>3, Creating
  <2>4. CASE u = C!Fail(s)
    BY <1>3, <2>1, <2>4, FailedIsSound, CreatedFails
  <2> QED
    BY <2>2, <2>3, <2>4
<1>5. /\ sound(t, {}) /\ paid(s) \subseteq paid(t) /\ t.web = web /\ t.answer = "none"
      /\ \A d \in Cores : d # c => t.cores[d] = cores[d]
      /\ \/ /\ t.err /\ t.guest = guest
            /\ t.cores[c].handle = cores[c].handle /\ t.cores[c].dropped = cores[c].dropped
         \/ /\ t.guest = g /\ t.cores[c].handle # 0 /\ ~t.cores[c].dropped
            /\ t.err => pays(s, t)
  BY <1>3, <1>4 DEF instanceCreated, base, beginsIn, CoreAssumptions, C!CoresAssumption
<1>6. C!CallersAgree /\ guest \in C!GuestFields
  BY DEF C!Consistent, C!TypeOK
<1>7. g.instances = guest.instances \cup {c} /\ g.web = guest.web /\ g.operations = guest.operations
  BY <1>6 DEF C!GuestFields
<1> HIDE DEF g
<1>8. /\ engine' \in Engines /\ engine'.web = engine.web /\ engine'.operations = engine.operations
      /\ \A d \in Cores \ {c} : engine'.cores[d] = engine.cores[d]
      /\ engine'.cores[c] = IF t.err THEN "failed" ELSE "open"
  BY <1>1, EngineTypes DEF Engines, C!Lives
<1>9. clean(t)
  <2>1. ASSUME NEW d \in Cores, NEW b \in C!Buffers, t.cores[d].dropped
        PROVE  t.cores[d].buffer[b] = C!NoBuffer
    <3>1. CASE d # c
      BY <1>3, <1>5, <2>1, <3>1 DEF clean, beginsIn
    <3>2. CASE d = c
      BY <1>2, <1>5, <1>6, <2>1, <3>2 DEF C!CallersAgree
    <3> QED
      BY <3>1, <3>2
  <2> QED
    BY <2>1 DEF clean
<1>10. /\ C!TypeOK' /\ C!BuffersAreLive' /\ C!BuffersAreDistinct' /\ C!NoGuestLeak' /\ C!GuestStaysInBuffer'
       /\ afterCall(t, c)
  BY <1>1, <1>5, <1>8, <1>9, MemoryStep DEF s
<1>11. cores' = t.cores /\ web' = t.web /\ guest' = t.guest /\ lost' = lost
  BY <1>1, <1>5 DEF C!Becomes
<1>12. t.guest.web = guest.web /\ t.guest.operations = guest.operations
       /\ t.guest.instances \subseteq guest.instances \cup {c}
  BY <1>5, <1>7
<1>13. C!CallersAgree'
  <2>1. ASSUME NEW d \in Cores
        PROVE  /\ engine'.cores[d] \in {"open", "failing"} => t.cores[d].handle # 0 /\ ~t.cores[d].dropped
               /\ engine'.cores[d] \in {"unused", "done"} => d \notin t.guest.instances
               /\ engine'.cores[d] = "unused" => ~t.cores[d].dropped
    <3>1. CASE d # c
      BY <1>5, <1>6, <1>8, <1>12, <3>1 DEF C!CallersAgree
    <3>2. CASE d = c
      BY <1>5, <1>8, <3>2
    <3> QED
      BY <3>1, <3>2
  <2>2. ASSUME NEW o \in C!Operations, t.guest.operations[o] # "none"
        PROVE  engine'.cores[o.core] # "unused"
    <3>1. o.core \in Cores /\ engine.cores[o.core] # "unused"
      BY <1>6, <1>12, <2>2, OperationCore DEF C!CallersAgree, C!live
    <3> QED
      BY <1>8, <3>1
  <2>3. /\ engine'.web = "open" => t.web.created /\ ~t.web.dropped
        /\ engine'.web \in {"unused", "done"} => ~t.guest.web
    BY <1>5, <1>6, <1>8, <1>12 DEF C!CallersAgree
  <2> QED
    BY <1>11, <2>1, <2>2, <2>3 DEF C!CallersAgree, C!live
<1>14. ASSUME NEW x \in C!Orphans' PROVE x \in C!Orphans \/ (x = c /\ t.err /\ t.guest = g)
  <2>1. CASE x \in t.guest.instances /\ engine'.cores[x] \in {"failed", "done"}
    <3>1. x \in Cores
      BY <2>1, <1>12, <1>6 DEF C!GuestFields
    <3>2. CASE x = c
      <4>1. c \notin guest.instances
        BY <1>2, <1>6 DEF C!CallersAgree
      <4>2. t.err
        BY <1>8, <2>1, <3>2
      <4> QED
        BY <1>5, <2>1, <3>2, <4>1, <4>2
    <3>3. CASE x # c
      BY <1>8, <1>12, <2>1, <3>1, <3>3 DEF C!Orphans
    <3> QED
      BY <3>2, <3>3
  <2>2. CASE /\ x \in C!Operations /\ t.guest.operations[x] # "none"
             /\ engine'.cores[x.core] = "open" /\ engine'.operations[x] = "none"
    <3>1. x.core \in Cores /\ engine.cores[x.core] # "unused"
      BY <1>6, <1>12, <2>2, OperationCore DEF C!CallersAgree, C!live
    <3>2. x.core # c
      BY <1>2, <3>1
    <3> QED
      BY <1>8, <1>12, <2>2, <3>1, <3>2 DEF C!Orphans, C!live
  <2>3. CASE x \in {"web"} /\ t.guest.web /\ engine'.web \in {"failed", "done"}
    BY <1>8, <1>12, <2>3 DEF C!Orphans
  <2> QED
    BY <1>11, <1>14, <2>1, <2>2, <2>3 DEF C!Orphans, C!live
<1>15. C!Consistent'
  BY <1>10, <1>13 DEF C!Consistent
<1>16. CASE t.err /\ t.guest = g /\ pays(s, t)
  <2>1. C!Orphans' \subseteq C!Orphans \cup {c} /\ pays(C!Now(c), t)
    BY <1>14, <1>16 DEF s
  <2> QED
    BY <1>10, <1>11, <1>15, <2>1, PaidStep
<1>17. CASE ~(t.err /\ t.guest = g)
  <2>1. C!Orphans' \subseteq C!Orphans
    BY <1>14, <1>17
  <2> QED
    BY <1>10, <1>11, <1>15, <2>1, KeptStep
<1>18. CASE t.err /\ t.guest = guest /\ t.guest = g
  \* The guest had the instance before: only a Core that was created has one.
  <2>1. c \in guest.instances /\ c \notin guest.instances
    BY <1>2, <1>6, <1>7, <1>18 DEF C!CallersAgree
  <2> QED
    BY <2>1
<1> QED
  BY <1>5, <1>16, <1>17, <1>18

\* Dropping keeps it: the guest has given up the instance and its operations before a free can fail.
LEMMA DropInstanceStep ==
  ASSUME CoreAssumptions, C!Consistent, C!NothingLost, NEW c \in Cores, C!DropInstance(c)
  PROVE  C!Consistent' /\ C!NothingLost'
<1> DEFINE s == C!Now(c)
<1>1. PICK t \in C!Drop(s) :
        /\ C!Becomes(t)
        /\ engine' = [engine EXCEPT !.cores[c] = IF t.err THEN "kept" ELSE "done",
                        !.operations = [o \in C!Operations |-> IF o.core = c THEN "none" ELSE @[o]]]
  BY DEF C!DropInstance
<1>2. engine.cores[c] \in {"open", "failing"} /\ C!CallersAgree /\ guest \in C!GuestFields
  BY DEF C!DropInstance, C!Consistent, C!TypeOK
<1>3. beginsIn(s, c) /\ sound(s, {}) /\ ~s.err /\ s.core = c /\ clean(s)
  BY NowIsSound DEF beginsIn
<1>4. s.cores[c].handle # 0 /\ ~s.cores[c].dropped
  BY <1>2, <1>3 DEF C!CallersAgree, beginsIn
<1>5. dropping(s, t)
  <2> HIDE DEF s
  <2> QED
    BY <1>1, <1>3, <1>4, Dropping
<1> HIDE DEF s
<1>6. /\ sound(t, {}) /\ paid(s) \subseteq paid(t) /\ t.web = web /\ t.answer = "none"
      /\ \A d \in Cores : d # c => t.cores[d] = cores[d]
      /\ \/ t.err /\ t.guest = guest /\ ~t.cores[c].dropped
         \/ /\ t.guest = without(guest, c) /\ t.cores[c].dropped
            /\ \A b \in C!Buffers : t.cores[c].buffer[b] = C!NoBuffer
  BY <1>3, <1>4, <1>5 DEF dropping, base, beginsIn
<1>7. /\ t.guest.web = guest.web /\ t.guest.instances \subseteq guest.instances
      /\ ~t.err => c \notin t.guest.instances
      /\ \A o \in C!Operations : t.guest.operations[o] # "none" => guest.operations[o] # "none"
  <2>1. /\ without(guest, c).instances = guest.instances \ {c} /\ without(guest, c).web = guest.web
        /\ \A o \in C!Operations :
             without(guest, c).operations[o] = IF o.core = c THEN "none" ELSE guest.operations[o]
    BY <1>2, WithoutInstance
  <2>2. CASE t.err /\ t.guest = guest
    BY <2>2
  <2>3. CASE t.guest = without(guest, c)
    BY <2>1, <2>3
  <2> QED
    BY <1>6, <2>2, <2>3
<1>8. /\ engine' \in Engines /\ engine'.web = engine.web
      /\ \A d \in Cores \ {c} : engine'.cores[d] = engine.cores[d]
      /\ engine'.cores[c] = IF t.err THEN "kept" ELSE "done"
      /\ \A o \in C!Operations : engine'.operations[o] = IF o.core = c THEN "none" ELSE engine.operations[o]
  BY <1>1, EngineTypes DEF Engines, C!Lives
<1>9. clean(t)
  <2>1. ASSUME NEW d \in Cores, NEW b \in C!Buffers, t.cores[d].dropped
        PROVE  t.cores[d].buffer[b] = C!NoBuffer
    BY <1>3, <1>6, <2>1 DEF clean, beginsIn
  <2> QED
    BY <2>1 DEF clean
<1>10. /\ C!TypeOK' /\ C!BuffersAreLive' /\ C!BuffersAreDistinct' /\ C!NoGuestLeak' /\ C!GuestStaysInBuffer'
       /\ afterCall(t, c)
  BY <1>1, <1>6, <1>8, <1>9, MemoryStep DEF s
<1>11. cores' = t.cores /\ web' = t.web /\ guest' = t.guest /\ lost' = lost
  BY <1>1, <1>6 DEF C!Becomes
<1>12. C!CallersAgree'
  <2>1. ASSUME NEW d \in Cores
        PROVE  /\ engine'.cores[d] \in {"open", "failing"} => t.cores[d].handle # 0 /\ ~t.cores[d].dropped
               /\ engine'.cores[d] \in {"unused", "done"} => d \notin t.guest.instances
               /\ engine'.cores[d] = "unused" => ~t.cores[d].dropped
    <3>1. CASE d # c
      BY <1>2, <1>6, <1>7, <1>8, <3>1 DEF C!CallersAgree
    <3>2. CASE d = c
      BY <1>7, <1>8, <3>2
    <3> QED
      BY <3>1, <3>2
  <2>2. ASSUME NEW o \in C!Operations, t.guest.operations[o] # "none"
        PROVE  engine'.cores[o.core] # "unused"
    <3>1. o.core \in Cores /\ engine.cores[o.core] # "unused"
      BY <1>2, <1>7, <2>2, OperationCore DEF C!CallersAgree, C!live
    <3> QED
      BY <1>8, <3>1
  <2>3. /\ engine'.web = "open" => t.web.created /\ ~t.web.dropped
        /\ engine'.web \in {"unused", "done"} => ~t.guest.web
    BY <1>2, <1>6, <1>7, <1>8 DEF C!CallersAgree
  <2> QED
    BY <1>11, <2>1, <2>2, <2>3 DEF C!CallersAgree, C!live
<1>13. ASSUME NEW x \in C!Orphans' PROVE x \in C!Orphans
  <2>1. CASE x \in t.guest.instances /\ engine'.cores[x] \in {"failed", "done"}
    <3>1. x \in Cores /\ x \in guest.instances
      BY <1>2, <1>7, <2>1 DEF C!GuestFields
    <3>2. x # c
      BY <1>7, <1>8, <2>1
    <3> QED
      BY <1>8, <2>1, <3>1, <3>2 DEF C!Orphans
  <2>2. CASE /\ x \in C!Operations /\ t.guest.operations[x] # "none"
             /\ engine'.cores[x.core] = "open" /\ engine'.operations[x] = "none"
    <3>1. x.core \in Cores
      BY <2>2, OperationCore
    <3>2. x.core # c
      BY <1>8, <2>2
    <3> QED
      BY <1>7, <1>8, <2>2, <3>1, <3>2 DEF C!Orphans, C!live
  <2>3. CASE x \in {"web"} /\ t.guest.web /\ engine'.web \in {"failed", "done"}
    BY <1>7, <1>8, <2>3 DEF C!Orphans
  <2> QED
    BY <1>11, <1>13, <2>1, <2>2, <2>3 DEF C!Orphans, C!live
<1>14. C!Consistent'
  BY <1>10, <1>12 DEF C!Consistent
<1> QED
  BY <1>10, <1>11, <1>13, <1>14, KeptStep

\* The Cores and what their callers believe stay when the web client changes.
LEMMA WebStep ==
  ASSUME CoreAssumptions,
         C!Consistent, NEW t, sound(t, {}), paid(C!Now(0)) \subseteq paid(t), C!Becomes(t),
         \A c \in Cores : t.cores[c] = cores[c], engine' \in Engines,
         engine'.cores = engine.cores, engine'.operations = engine.operations,
         t.guest.instances = guest.instances, t.guest.operations = guest.operations,
         engine'.web = "open" => t.web.created /\ ~t.web.dropped,
         engine'.web \in {"unused", "done"} => ~t.guest.web
  PROVE  /\ C!Consistent' /\ afterCall(t, 0)
         /\ \A x \in C!Orphans' : x \in C!Orphans \/
              (x = "web" /\ t.guest.web /\ engine'.web \in {"failed", "done"})
<1>1. clean(t)
  <2>1. clean(C!Now(0)) /\ C!Now(0).cores = cores
    BY NowIsSound DEF beginsIn
  <2> QED
    BY <2>1 DEF clean
<1>2. /\ C!TypeOK' /\ C!BuffersAreLive' /\ C!BuffersAreDistinct' /\ C!NoGuestLeak' /\ C!GuestStaysInBuffer'
      /\ afterCall(t, 0)
  BY <1>1, MemoryStep
<1>3. cores' = t.cores /\ web' = t.web /\ guest' = t.guest
  BY DEF C!Becomes
<1>4. C!CallersAgree'
  <2>1. C!CallersAgree
    BY DEF C!Consistent
  <2>2. ASSUME NEW d \in Cores
        PROVE  /\ engine'.cores[d] \in {"open", "failing"} => t.cores[d].handle # 0 /\ ~t.cores[d].dropped
               /\ engine'.cores[d] \in {"unused", "done"} => d \notin t.guest.instances
               /\ engine'.cores[d] = "unused" => ~t.cores[d].dropped
    BY <2>1 DEF C!CallersAgree
  <2>3. ASSUME NEW o \in C!Operations, t.guest.operations[o] # "none"
        PROVE  engine'.cores[o.core] # "unused"
    BY <2>1, <2>3 DEF C!CallersAgree, C!live
  <2> QED
    BY <1>3, <2>2, <2>3 DEF C!CallersAgree, C!live
<1>5. ASSUME NEW x \in C!Orphans'
      PROVE  x \in C!Orphans \/ (x = "web" /\ t.guest.web /\ engine'.web \in {"failed", "done"})
  <2>1. CASE x \in t.guest.instances /\ engine'.cores[x] \in {"failed", "done"}
    BY <2>1 DEF C!Orphans
  <2>2. CASE /\ x \in C!Operations /\ t.guest.operations[x] # "none"
             /\ engine'.cores[x.core] = "open" /\ engine'.operations[x] = "none"
    BY <2>2 DEF C!Orphans, C!live
  <2>3. CASE x \in {"web"} /\ t.guest.web /\ engine'.web \in {"failed", "done"}
    BY <2>3
  <2> QED
    BY <1>3, <1>5, <2>1, <2>2, <2>3 DEF C!Orphans, C!live
<1> QED
  BY <1>2, <1>4, <1>5 DEF C!Consistent

\* Creating the web client keeps the invariant ..
LEMMA CreateWebClientStep ==
  ASSUME CoreAssumptions, C!Consistent, C!NothingLost, C!CreateWebClient
  PROVE  C!Consistent' /\ C!NothingLost'
<1> DEFINE s == C!Now(0)
           g == [guest EXCEPT !.web = TRUE]
           w == [web EXCEPT !.created = TRUE]
<1>1. PICK t \in C!Then(C!New(s), C!WebClientCreate) :
        C!Becomes(t) /\ engine' = [engine EXCEPT !.web = IF t.err THEN "failed" ELSE "open"]
  BY DEF C!CreateWebClient
<1>2. /\ engine.web = "unused" /\ guest \in C!GuestFields /\ web \in C!WebFields /\ ~guest.web
  BY DEF C!CreateWebClient, C!Consistent, C!TypeOK, C!CallersAgree
<1>3. /\ beginsIn(s, 0) /\ sound(s, {}) /\ ~s.err /\ s.core = 0 /\ s \in CallStates
      /\ s.web = web /\ s.guest = guest /\ s.cores = cores /\ s.answer = "none"
  BY NowIsSound DEF beginsIn, sound
<1> HIDE DEF s
<1>4. webCall(s, t, g, w) /\ (~t.err => ~web.dropped)
  <2>0. s.guest = guest /\ s.web = web /\ C!Fail(s).err
    BY <1>3, FailShape
  <2>1. PICK u \in C!New(s) : t \in IF u.err THEN {u} ELSE C!WebClientCreate(u)
    BY <1>1 DEF C!Then
  <2>2. u = s \/ u = C!Fail(s)
    BY <1>3, <2>1, NewCases
  <2>3. CASE u = s
    BY <1>3, <2>0, <2>1, <2>3, WebCreating
  <2>4. CASE u = C!Fail(s)
    <3>1. t = C!Fail(s)
      BY <2>0, <2>1, <2>4
    <3> HIDE DEF g, w
    <3>2. webCall(s, t, g, w)
      BY <1>3, <3>1, FailedIsSound, WebCallFails
    <3> QED
      BY <2>0, <3>1, <3>2
  <2> QED
    BY <2>2, <2>3, <2>4
<1>5. g.instances = guest.instances /\ g.web /\ g.operations = guest.operations
  BY <1>2 DEF C!GuestFields
<1>6. w.created /\ w.dropped = web.dropped
  BY <1>2 DEF C!WebFields
<1> HIDE DEF g, w
<1>7. /\ sound(t, {}) /\ paid(s) \subseteq paid(t) /\ t.answer = "none"
      /\ \A c \in Cores : t.cores[c] = cores[c]
      /\ \/ t.err /\ t.guest = guest
         \/ t.guest = g /\ t.web = w /\ (t.err => pays(s, t))
  BY <1>3, <1>4 DEF webCall
<1>8. /\ engine' \in Engines /\ engine'.cores = engine.cores /\ engine'.operations = engine.operations
      /\ engine'.web = IF t.err THEN "failed" ELSE "open"
  BY <1>1, EngineTypes DEF Engines, C!Lives
<1>9. t.guest.instances = guest.instances /\ t.guest.operations = guest.operations
  BY <1>5, <1>7
<1>10. /\ engine'.web = "open" => t.web.created /\ ~t.web.dropped
       /\ engine'.web \notin {"unused", "done"}
  BY <1>4, <1>6, <1>7, <1>8
<1>11. /\ C!Consistent' /\ afterCall(t, 0)
       /\ \A x \in C!Orphans' : x \in C!Orphans \/
            (x = "web" /\ t.guest.web /\ engine'.web \in {"failed", "done"})
  BY <1>1, <1>7, <1>8, <1>9, <1>10, WebStep DEF s
<1>12. lost' = lost
  BY <1>1, <1>7 DEF C!Becomes
<1>13. CASE t.err /\ pays(s, t)
  <2>1. C!Orphans' \subseteq C!Orphans \cup {"web"} /\ pays(C!Now(0), t)
    BY <1>11, <1>13 DEF s
  <2> QED
    BY <1>11, <1>12, <2>1, PaidStep
<1>14. CASE ~(t.err /\ pays(s, t))
  <2>1. ~(t.guest.web /\ engine'.web \in {"failed", "done"})
    BY <1>2, <1>7, <1>8, <1>14
  <2>2. C!Orphans' \subseteq C!Orphans
    BY <1>11, <2>1
  <2> QED
    BY <1>11, <1>12, <2>2, KeptStep
<1> QED
  BY <1>13, <1>14

\* .. and so does dropping it.
LEMMA DropWebClientStep ==
  ASSUME CoreAssumptions, C!Consistent, C!NothingLost, C!DropWebClient
  PROVE  C!Consistent' /\ C!NothingLost'
<1> DEFINE s == C!Now(0)
           g == [guest EXCEPT !.web = FALSE]
           w == [web EXCEPT !.dropped = TRUE]
<1>1. PICK t \in C!WebClientDrop(s) :
        C!Becomes(t) /\ engine' = [engine EXCEPT !.web = IF t.err THEN "kept" ELSE "done"]
  BY DEF C!DropWebClient
<1>2. engine.web = "open" /\ guest \in C!GuestFields /\ web.created /\ ~web.dropped
  BY DEF C!DropWebClient, C!Consistent, C!TypeOK, C!CallersAgree
<1>3. /\ sound(s, {}) /\ ~s.err /\ s.core = 0
      /\ s.web = web /\ s.guest = guest /\ s.cores = cores /\ s.answer = "none"
  BY NowIsSound DEF beginsIn
<1> HIDE DEF s
<1>4. webCall(s, t, g, w)
  BY <1>1, <1>2, <1>3, WebDropping
<1>5. g.instances = guest.instances /\ ~g.web /\ g.operations = guest.operations
  BY <1>2 DEF C!GuestFields
<1> HIDE DEF g, w
<1>6. /\ sound(t, {}) /\ paid(s) \subseteq paid(t) /\ t.answer = "none"
      /\ \A c \in Cores : t.cores[c] = cores[c]
      /\ \/ t.err /\ t.guest = guest
         \/ t.guest = g
  BY <1>3, <1>4 DEF webCall
<1>7. /\ engine' \in Engines /\ engine'.cores = engine.cores /\ engine'.operations = engine.operations
      /\ engine'.web = IF t.err THEN "kept" ELSE "done"
  BY <1>1, EngineTypes DEF Engines, C!Lives
<1>8. /\ t.guest.instances = guest.instances /\ t.guest.operations = guest.operations
      /\ ~t.err => ~t.guest.web
  BY <1>5, <1>6
<1>9. /\ engine'.web # "open" /\ (engine'.web \in {"unused", "done"} => ~t.guest.web)
      /\ ~(t.guest.web /\ engine'.web \in {"failed", "done"})
  BY <1>7, <1>8
<1>10. /\ C!Consistent' /\ afterCall(t, 0)
       /\ \A x \in C!Orphans' : x \in C!Orphans \/
            (x = "web" /\ t.guest.web /\ engine'.web \in {"failed", "done"})
  BY <1>1, <1>6, <1>7, <1>8, <1>9, WebStep DEF s
<1>11. lost' = lost /\ C!Orphans' \subseteq C!Orphans
  BY <1>1, <1>6, <1>9, <1>10 DEF C!Becomes
<1> QED
  BY <1>10, <1>11, KeptStep

-----------------------------------------------------------------------------
(* The theorems.                                                           *)

\* A guest that was just instantiated satisfies it.
LEMMA CoreInit ==
  ASSUME CoreAssumptions, C!Init
  PROVE  C!Consistent /\ C!NothingLost
<1>1. C!TypeOK
  <2>1. C!NoBuffer \in C!BufferFields
    BY NoBufferFields
  <2>2. [b \in C!Buffers |-> C!NoBuffer] \in [C!Buffers -> C!BufferFields]
    BY <2>1
  <2>3. [handle |-> 0, dropped |-> FALSE, buffer |-> [b \in C!Buffers |-> C!NoBuffer]] \in C!CoreFields
    BY <2>2 DEF C!CoreFields
  <2>4. cores \in [Cores -> C!CoreFields]
    BY <2>3 DEF C!Init
  <2>5. guest \in C!GuestFields /\ web \in C!WebFields
    BY DEF C!Init, C!GuestFields, C!WebFields
  <2>6. engine \in [cores : [Cores -> C!Lives], web : C!Lives,
                    operations : [C!Operations -> {"none", "submitted", "completed"}]]
    BY DEF C!Init, C!Lives
  <2> QED
    BY <2>4, <2>5, <2>6 DEF C!Init, C!TypeOK
<1>2. \A h \in C!held : C!heldAt(h) = C!NoBuffer /\ ~cores[h.core].dropped
  BY HeldPairs DEF C!Init, C!heldAt
<1>3. C!BuffersAreLive /\ C!BuffersAreDistinct /\ C!NoGuestLeak /\ C!GuestStaysInBuffer
  BY <1>2, NoBufferFields DEF C!Init, C!BuffersAreLive, C!BuffersAreDistinct, C!NoGuestLeak,
       C!GuestStaysInBuffer
<1>4. C!CallersAgree
  BY DEF C!Init, C!CallersAgree, C!live
<1>5. C!Orphans = {} /\ C!forgotten = {} /\ lost = 0
  BY DEF C!Init, C!Orphans, C!forgotten, C!live
<1>6. C!NothingLost
  BY <1>5, FS_EmptySet, SameCardinality, SameFiniteness DEF C!NothingLost
<1> QED
  BY <1>1, <1>3, <1>4, <1>6 DEF C!Consistent

\* And a step of somebody else keeps it.
LEMMA CoreStutters ==
  ASSUME C!Consistent, C!NothingLost, UNCHANGED C!vars
  PROVE  C!Consistent' /\ C!NothingLost'
<1>1. memory' = memory /\ cores' = cores /\ web' = web /\ guest' = guest /\ engine' = engine
      /\ stranded' = stranded /\ overrun' = overrun /\ lost' = lost
  BY DEF C!vars
<1>2. C!TypeOK' /\ C!CallersAgree'
  BY <1>1 DEF C!Consistent, C!TypeOK, C!CallersAgree, C!live
<1>3. C!BuffersAreLive' /\ C!BuffersAreDistinct' /\ C!NoGuestLeak' /\ C!GuestStaysInBuffer'
  BY <1>1 DEF C!Consistent, C!BuffersAreLive, C!BuffersAreDistinct, C!NoGuestLeak,
       C!GuestStaysInBuffer, C!heldAt
<1>4. C!Orphans' = C!Orphans /\ C!forgotten' = C!forgotten
  BY <1>1 DEF C!Orphans, C!forgotten, C!live, C!heldAt
<1>5. C!NothingLost'
  BY <1>1, <1>4 DEF C!NothingLost
<1> QED
  BY <1>2, <1>3, <1>5 DEF C!Consistent

\* The invariant of internal/coreabi: whatever calls of core.go, dataplane.go, rpc.go
\* and web_client.go are made in any order, and whichever allocations, frees and
\* calls the guest refuses, for any number of instances and any size of memory.
THEOREM CoreInvariance == CoreAssumptions => (C!Spec => [](C!Consistent /\ C!NothingLost))
<1> SUFFICES ASSUME CoreAssumptions PROVE C!Spec => [](C!Consistent /\ C!NothingLost)
  OBVIOUS
<1>1. C!Init => C!Consistent /\ C!NothingLost
  BY CoreInit
<1>2. (C!Consistent /\ C!NothingLost) /\ [C!Next]_(C!vars) => (C!Consistent /\ C!NothingLost)'
  <2> SUFFICES ASSUME C!Consistent, C!NothingLost, [C!Next]_(C!vars)
               PROVE  C!Consistent' /\ C!NothingLost'
    OBVIOUS
  <2>1. CASE UNCHANGED C!vars
    BY <2>1, CoreStutters
  <2>2. ASSUME NEW c \in Cores, C!CreateInstance(c) PROVE C!Consistent' /\ C!NothingLost'
    BY <2>2, CreateInstanceStep
  <2>3. ASSUME NEW c \in Cores, C!DriveInstance(c) PROVE C!Consistent' /\ C!NothingLost'
    BY <2>3, DriveInstanceStep
  <2>4. ASSUME NEW c \in Cores, NEW length \in PacketLengths, C!SendOnePacket(c, length)
        PROVE  C!Consistent' /\ C!NothingLost'
    BY <2>4, SendOnePacketStep
  <2>5. ASSUME NEW c \in Cores, C!DropInstance(c) PROVE C!Consistent' /\ C!NothingLost'
    BY <2>5, DropInstanceStep
  <2>6. ASSUME NEW o \in C!Operations, NEW length \in PacketLengths \cup {0}, C!SubmitOperation(o, length)
        PROVE  C!Consistent' /\ C!NothingLost'
    BY <2>6, SubmitOperationStep
  <2>7. ASSUME NEW o \in C!Operations, C!SubmitRequest(o) PROVE C!Consistent' /\ C!NothingLost'
    BY <2>7, SubmitRequestStep
  <2>8. ASSUME NEW o \in C!Operations, C!Cancel(o) PROVE C!Consistent' /\ C!NothingLost'
    BY <2>8, CancelStep
  <2>9. ASSUME NEW o \in C!Operations, C!guestCompletes(o) PROVE C!Consistent' /\ C!NothingLost'
    BY <2>9, GuestCompletesStep
  <2>10. ASSUME NEW c \in Cores, C!drainCompletions(c) PROVE C!Consistent' /\ C!NothingLost'
    BY <2>10, DrainStep
  <2>11. ASSUME NEW o \in C!Operations, C!takeResult(o) PROVE C!Consistent' /\ C!NothingLost'
    BY <2>11, TakeResultStep
  <2>12. ASSUME NEW o \in C!Operations, C!takeRPC(o) PROVE C!Consistent' /\ C!NothingLost'
    BY <2>12, TakeRPCStep
  <2>13. ASSUME NEW o \in C!Operations, C!freeRPC(o) PROVE C!Consistent' /\ C!NothingLost'
    BY <2>13, FreeRPCStep
  <2>14. CASE C!CreateWebClient
    BY <2>14, CreateWebClientStep
  <2>15. CASE C!DriveWebClient
    BY <2>15, DriveWebClientStep
  <2>16. CASE C!DropWebClient
    BY <2>16, DropWebClientStep
  <2> QED
    BY <2>1, <2>2, <2>3, <2>4, <2>5, <2>6, <2>7, <2>8, <2>9, <2>10, <2>11, <2>12, <2>13, <2>14,
       <2>15, <2>16 DEF C!Next
<1> QED
  BY <1>1, <1>2, PTL DEF C!Spec

\* Every buffer a Core keeps between calls is live, its own and as large as its
\* capacity says; the deferred frees leave no other buffer behind but those the guest
\* refused to take; the guest is never handed bytes outside a live buffer; and the
\* guest holds what the callers believe it holds.
THEOREM CoreConsistency == CoreAssumptions => (C!Spec => []C!Consistent)
BY CoreInvariance, PTL

\* An error of Create, Submit, TakeResult or SubmitRPC that hides something the guest
\* has done always comes from a free the guest refused, and each such buffer hides
\* one thing at most.
THEOREM NothingIsLostInTheGuest == CoreAssumptions => (C!Spec => []C!NothingLost)
BY CoreInvariance, PTL

=============================================================================
