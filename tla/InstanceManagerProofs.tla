----------------------- MODULE InstanceManagerProofs -----------------------
(***************************************************************************)
(* Proofs about InstanceManager.                                           *)
(*                                                                         *)
(* The inductive invariant is all that the run checks: Consistent, with    *)
(* the bookkeeping TableAgrees and RequestAgrees, SavedIsEffective and     *)
(* EntriesAreAlive.  There is a lemma for every step; the lemmas about     *)
(* creating, closing and returning serve several.                          *)
(***************************************************************************)
EXTENDS InstanceManager, TLAPS

Inv == Consistent /\ SavedIsEffective /\ EntriesAreAlive

LEMMA InitInv == Init => Inv
<1> SUFFICES ASSUME Init PROVE Inv
  OBVIOUS
<1> USE NilAssumption DEF Init, Ids
<1>1. TypeOK
  BY DEF TypeOK, Works, idleWork, Steps, Entries
<1>2. OneRunsPerId /\ NoneOutOfReach
  BY DEF OneRunsPerId, NoneOutOfReach, unfinished
<1>3. TableAgrees
  BY DEF TableAgrees
<1>4. RequestAgrees
  BY DEF RequestAgrees, idleWork, replacing
<1>5. SavedIsEffective /\ EntriesAreAlive
  BY DEF SavedIsEffective, EntriesAreAlive
<1> QED
  BY <1>1, <1>2, <1>3, <1>4, <1>5 DEF Inv, Consistent

-----------------------------------------------------------------------------
\* Steps that change nothing but contexts, requests' places and flags.

LEMMA QuietStep ==
  ASSUME Inv, TypeOK',
         UNCHANGED <<engine, idOf, config, instances, mutations, work, registering, appClose,
                     left, unsaved>>,
         ctxOver \subseteq ctxOver',
         hostClosed => hostClosed',
         reactorClosed' => reactorClosed \/ (hostClosed' /\ \A x \in Objects : ~unfinished(x))
  PROVE  Inv'
<1> USE DEF Inv, Consistent
<1>1. OneRunsPerId' /\ NoneOutOfReach'
  BY DEF OneRunsPerId, NoneOutOfReach, unfinished, webMade, inTable
<1>2. TableAgrees'
  BY DEF TableAgrees, webMade, over, unfinished
<1>3. RequestAgrees'
  BY DEF RequestAgrees, kept, over, inTable, newConfig, replacing, aloneUnderId, webMade, unfinished
<1>4. SavedIsEffective'
  BY DEF SavedIsEffective
<1>5. EntriesAreAlive'
  BY DEF EntriesAreAlive, TableAgrees, over, unfinished, TypeOK, Entries
<1> QED
  BY <1>1, <1>2, <1>3, <1>4, <1>5

LEMMA QuietSteps ==
  ASSUME Inv,
         \/ \E r \in Requests : Handle(r) \/ cancel(r)
         \/ timeout \/ HostClose \/ shutdownReactor
         \/ \E x \in Objects : becomesRunning(x)
  PROVE  Inv'
<1> USE DEF Inv, Consistent, engineVars, ctxVars, appVars, hostVars, historyVars
<1>1. CASE \E r \in Requests : Handle(r) \/ cancel(r)
  <2>1. TypeOK'
    BY <1>1 DEF Handle, cancel, TypeOK
  <2> QED
    BY <1>1, <2>1, QuietStep DEF Handle, cancel
<1>2. CASE timeout \/ HostClose
  <2>1. TypeOK'
    BY <1>2 DEF timeout, HostClose, TypeOK
  <2> QED
    BY <1>2, <2>1, QuietStep DEF timeout, HostClose
<1>3. CASE shutdownReactor
  <2>1. TypeOK'
    BY <1>3 DEF shutdownReactor, TypeOK
  <2> QED
    BY <1>3, <2>1, QuietStep DEF shutdownReactor
<1>4. CASE \E x \in Objects : becomesRunning(x)
  <2>1. TypeOK'
    BY <1>4 DEF becomesRunning, TypeOK
  <2> QED
    BY <1>4, <2>1, QuietStep DEF becomesRunning
<1> QED
  BY <1>1, <1>2, <1>3, <1>4

-----------------------------------------------------------------------------
\* The end of a drive loop, and Host.Close's closing of an instance.

LEMMA RunEndsStep ==
  ASSUME Inv, NEW x \in Objects, runEnds(x)
  PROVE  Inv'
<1> USE NilAssumption DEF Inv, Consistent, ctxVars, appVars, hostVars
<1>1. /\ unfinished(x) /\ over(x)'
      /\ engine'[x] = "ended" => engine[x] = "closing"
      /\ \A y \in Objects : y # x => engine'[y] = engine[y] /\ config'[y] = config[y]
      /\ config'[x] = Nil /\ unsaved' = unsaved \ {x}
      /\ UNCHANGED <<idOf, instances, mutations, work, ctxOver, registering, appClose,
                     hostClosed, reactorClosed, left>>
  BY DEF runEnds, TypeOK, unfinished, over
<1>2. TypeOK'
  BY DEF runEnds, TypeOK, unfinished
<1>3. OneRunsPerId' /\ NoneOutOfReach'
  BY <1>1 DEF OneRunsPerId, NoneOutOfReach, unfinished, over, webMade, inTable
<1>4. TableAgrees'
  BY <1>1 DEF TableAgrees, webMade, over, unfinished, TypeOK, Entries
<1>5. RequestAgrees'
  BY <1>1, <1>2 DEF RequestAgrees, kept, over, inTable, newConfig, replacing, aloneUnderId,
                    webMade, unfinished, TypeOK, Works, Entries
<1>6. SavedIsEffective'
  BY <1>1 DEF SavedIsEffective, over, TypeOK, Entries
<1>7. EntriesAreAlive'
  BY <1>1 DEF EntriesAreAlive, TableAgrees, over, unfinished, TypeOK, Entries
<1> QED
  BY <1>2, <1>3, <1>4, <1>5, <1>6, <1>7

LEMMA ShutdownClosesStep ==
  ASSUME Inv, NEW x \in Objects, shutdownCloses(x)
  PROVE  Inv'
<1> USE NilAssumption DEF Inv, Consistent, ctxVars, appVars, hostVars, historyVars
<1>1. /\ hostClosed /\ engine[x] = "live" /\ engine'[x] = "closing"
      /\ \A y \in Objects : y # x => engine'[y] = engine[y]
      /\ UNCHANGED <<idOf, config, instances, mutations, work, ctxOver, registering, appClose,
                     hostClosed, reactorClosed, left, unsaved>>
  BY DEF shutdownCloses, closeObject, TypeOK
<1>2. TypeOK'
  BY DEF shutdownCloses, closeObject, TypeOK
<1>3. OneRunsPerId' /\ NoneOutOfReach'
  BY <1>1 DEF OneRunsPerId, NoneOutOfReach, unfinished, webMade, inTable
<1>4. TableAgrees'
  BY <1>1 DEF TableAgrees, webMade, over, unfinished, TypeOK, Entries
<1>5. RequestAgrees'
  BY <1>1, <1>2 DEF RequestAgrees, kept, over, inTable, newConfig, replacing, aloneUnderId,
                    webMade, unfinished, TypeOK, Works, Entries
<1>6. SavedIsEffective'
  BY <1>1 DEF SavedIsEffective, TypeOK, Entries
<1>7. EntriesAreAlive'
  BY <1>1 DEF EntriesAreAlive, TableAgrees, over, unfinished, TypeOK, Entries
<1> QED
  BY <1>2, <1>3, <1>4, <1>5, <1>6, <1>7

-----------------------------------------------------------------------------
\* Close on an instance by the application.

LEMMA CloseStep ==
  ASSUME Inv, NEW x \in Objects, Close(x)
  PROVE  Inv'
<1> USE NilAssumption DEF Inv, Consistent, ctxVars, hostVars, historyVars
<1>1. /\ appClose[x] = "no" /\ inTable(x) /\ appClose'[x] = "closing"
      /\ engine'[x] = IF engine[x] = "live" THEN "closing" ELSE engine[x]
      /\ \A y \in Objects : y # x => engine'[y] = engine[y] /\ appClose'[y] = appClose[y]
      /\ UNCHANGED <<idOf, config, instances, mutations, work, ctxOver, registering,
                     hostClosed, reactorClosed, left, unsaved>>
  BY DEF Close, closeObject, TypeOK
<1>2. TypeOK'
  BY DEF Close, closeObject, TypeOK
<1>3. OneRunsPerId' /\ NoneOutOfReach'
  BY <1>1 DEF OneRunsPerId, NoneOutOfReach, unfinished, webMade, inTable
<1>4. TableAgrees'
  BY <1>1 DEF TableAgrees, webMade, over, unfinished, TypeOK, Entries, inTable
<1>5. RequestAgrees'
  BY <1>1, <1>2 DEF RequestAgrees, kept, over, inTable, newConfig, replacing, aloneUnderId,
                    webMade, unfinished, TypeOK, Works, Entries
<1>6. SavedIsEffective'
  BY <1>1 DEF SavedIsEffective, TypeOK, Entries
<1>7. EntriesAreAlive'
  BY <1>1 DEF EntriesAreAlive, TableAgrees, over, unfinished, TypeOK, Entries
<1> QED
  BY <1>2, <1>3, <1>4, <1>5, <1>6, <1>7

LEMMA CloseReturnsStep ==
  ASSUME Inv, NEW x \in Objects, closeReturns(x)
  PROVE  Inv'
<1> USE NilAssumption DEF Inv, Consistent, engineVars, ctxVars, hostVars
<1>1. /\ appClose[x] = "closing" /\ appClose'[x] # "closing"
      /\ appClose'[x] = "removing" => over(x)
      /\ appClose'[x] = "no" /\ inTable(x) => x \in left'
      /\ \A y \in Objects : y # x => appClose'[y] = appClose[y]
      /\ left \subseteq left'
      /\ UNCHANGED <<engine, idOf, config, instances, mutations, work, ctxOver, registering,
                     hostClosed, reactorClosed, unsaved>>
  BY DEF closeReturns, leave, TypeOK
<1>2. TypeOK'
  BY DEF closeReturns, leave, TypeOK
<1>3. OneRunsPerId' /\ NoneOutOfReach'
  BY <1>1 DEF OneRunsPerId, NoneOutOfReach, unfinished, webMade, inTable
<1>4. TableAgrees'
  BY <1>1 DEF TableAgrees, webMade, over, unfinished, TypeOK, Entries, inTable
<1>5. RequestAgrees'
  BY <1>1, <1>2 DEF RequestAgrees, kept, over, inTable, newConfig, replacing, aloneUnderId,
                    webMade, unfinished, TypeOK, Works, Entries
<1>6. SavedIsEffective'
  BY <1>1 DEF SavedIsEffective
<1>7. EntriesAreAlive'
  BY <1>1 DEF EntriesAreAlive, over, TypeOK, Entries, inTable
<1> QED
  BY <1>2, <1>3, <1>4, <1>5, <1>6, <1>7

\* What remove takes out, and what it leaves alone.
LEMMA Removed ==
  ASSUME TypeOK, NEW x \in Objects, instances' = remove(x)
  PROVE  /\ instances' \in [Ids -> Entries \cup {Nil}]
         /\ ~inTable(x)'
         /\ \A id \in Ids : instances'[id] # Nil =>
              instances'[id] = instances[id] /\ instances[id].instance # x
         /\ \A y \in Objects : y # x => (inTable(y)' <=> inTable(y))
  BY DEF remove, inTable, TypeOK

LEMMA CloseRemovesStep ==
  ASSUME Inv, NEW x \in Objects, closeRemoves(x)
  PROVE  Inv'
<1> USE NilAssumption DEF Inv, Consistent, engineVars, ctxVars, hostVars
<1>1. /\ over(x) /\ instances' = remove(x) /\ left' = left \ {x}
      /\ \A y \in Objects : y # x => appClose'[y] = appClose[y]
      /\ appClose'[x] = "no"
      /\ UNCHANGED <<engine, idOf, config, mutations, work, ctxOver, registering, hostClosed,
                     reactorClosed, unsaved>>
  BY DEF closeRemoves, TypeOK, TableAgrees
<1>r. /\ instances' \in [Ids -> Entries \cup {Nil}]
      /\ ~inTable(x)'
      /\ \A id \in Ids : instances'[id] # Nil =>
           instances'[id] = instances[id] /\ instances[id].instance # x
      /\ \A y \in Objects : y # x => (inTable(y)' <=> inTable(y))
  BY <1>1, Removed
<1>2. TypeOK'
  BY <1>r DEF closeRemoves, TypeOK
<1>3. OneRunsPerId' /\ NoneOutOfReach'
  BY <1>1, <1>r DEF OneRunsPerId, NoneOutOfReach, unfinished, over, webMade
<1>4. TableAgrees'
  BY <1>1, <1>r DEF TableAgrees, webMade, over, unfinished, TypeOK, Entries
<1>5. RequestAgrees'
  BY <1>1, <1>2, <1>r DEF RequestAgrees, kept, over, newConfig, replacing, aloneUnderId,
                    webMade, unfinished, TypeOK, Works, Entries
<1>6. SavedIsEffective'
  BY <1>1, <1>r DEF SavedIsEffective
<1>7. EntriesAreAlive'
  BY <1>1, <1>r DEF EntriesAreAlive, over, TypeOK, Entries
<1> QED
  BY <1>2, <1>3, <1>4, <1>5, <1>6, <1>7

LEMMA ClearStep ==
  ASSUME Inv, clear
  PROVE  Inv'
<1> USE NilAssumption DEF Inv, Consistent, engineVars, ctxVars, appVars, hostVars, historyVars
<1>1. /\ \A id \in Ids : instances'[id] = Nil
      /\ reactorClosed
      /\ UNCHANGED <<engine, idOf, config, mutations, work, ctxOver, registering, appClose,
                     hostClosed, reactorClosed, unsaved, left>>
  BY DEF clear
<1>2. TypeOK'
  BY DEF clear, TypeOK
<1>3. OneRunsPerId' /\ NoneOutOfReach'
  BY <1>1 DEF OneRunsPerId, NoneOutOfReach, TableAgrees, unfinished, webMade
<1>4. TableAgrees'
  BY <1>1 DEF TableAgrees, webMade, over, unfinished
<1>5. RequestAgrees'
  BY <1>1, <1>2 DEF RequestAgrees, kept, over, newConfig, replacing, aloneUnderId,
                    webMade, unfinished, TypeOK, Works, Entries, inTable
<1>6. SavedIsEffective' /\ EntriesAreAlive'
  BY <1>1 DEF SavedIsEffective, EntriesAreAlive
<1> QED
  BY <1>2, <1>3, <1>4, <1>5, <1>6

-----------------------------------------------------------------------------
\* Host.CreateInstance.

LEMMA RegisterAppStep ==
  ASSUME Inv, NEW x \in Objects, registerApp(x)
  PROVE  Inv'
<1> USE NilAssumption DEF Inv, Consistent, ctxVars, hostVars, historyVars
<1>0. /\ registering[x] = "created" /\ idOf[x] \in Ids
      /\ UNCHANGED <<idOf, config, mutations, work, ctxOver, appClose, hostClosed, reactorClosed,
                     unsaved, left>>
  BY DEF registerApp, TableAgrees, Ids
<1>a. CASE instances[idOf[x]] = Nil
  <2>1. /\ instances'[idOf[x]] = [instance |-> x, owner |-> "application", config |-> Nil]
        /\ \A id \in Ids : id # idOf[x] => instances'[id] = instances[id]
        /\ registering'[x] = "no"
        /\ \A y \in Objects : y # x => registering'[y] = registering[y]
        /\ engine' = engine
    BY <1>a, <1>0 DEF registerApp, register, TypeOK
  <2>2. TypeOK'
    BY <1>a, <1>0 DEF registerApp, register, TypeOK, Entries
  <2>3. /\ inTable(x)'
        /\ \A y \in Objects : y # x => (inTable(y)' <=> inTable(y))
    <3>1. instances'[idOf[x]] # Nil /\ instances'[idOf[x]].instance = x
      BY <1>0, <2>1, NilRecordAssumption DEF Entries
    <3> QED
      BY <3>1, <2>1, <1>0, <1>a DEF inTable
  <2>4. OneRunsPerId' /\ NoneOutOfReach'
    BY <1>0, <2>1, <2>3 DEF OneRunsPerId, NoneOutOfReach, unfinished, webMade
  <2>5. TableAgrees'
    BY <1>0, <2>1 DEF TableAgrees, webMade, over, unfinished, TypeOK, Entries
  <2>6. RequestAgrees'
    BY <1>0, <2>1, <2>2, <2>3 DEF RequestAgrees, kept, over, newConfig, replacing, aloneUnderId,
                    webMade, unfinished, TypeOK, Works, Entries
  <2>7. SavedIsEffective'
    BY <1>0, <2>1 DEF SavedIsEffective
  <2>8. EntriesAreAlive'
    BY <1>0, <2>1 DEF EntriesAreAlive, TableAgrees, over, unfinished, TypeOK, Entries
  <2> QED
    BY <2>2, <2>4, <2>5, <2>6, <2>7, <2>8
<1>b. CASE instances[idOf[x]] # Nil
  <2>1. /\ registering'[x] = "discarding"
        /\ \A y \in Objects : y # x => registering'[y] = registering[y] /\ engine'[y] = engine[y]
        /\ engine'[x] = IF engine[x] = "live" THEN "closing" ELSE engine[x]
        /\ instances' = instances
    BY <1>b, <1>0 DEF registerApp, register, closeObject, TypeOK
  <2>2. TypeOK'
    BY <1>b, <1>0 DEF registerApp, register, closeObject, TypeOK
  <2>4. OneRunsPerId' /\ NoneOutOfReach'
    BY <1>0, <2>1 DEF OneRunsPerId, NoneOutOfReach, unfinished, webMade, inTable
  <2>5. TableAgrees'
    BY <1>0, <2>1 DEF TableAgrees, webMade, over, unfinished, TypeOK, Entries
  <2>6. RequestAgrees'
    BY <1>0, <2>1, <2>2 DEF RequestAgrees, kept, over, newConfig, replacing, aloneUnderId,
                    webMade, unfinished, TypeOK, Works, Entries, inTable
  <2>7. SavedIsEffective'
    BY <1>0, <2>1 DEF SavedIsEffective, TypeOK, Entries
  <2>8. EntriesAreAlive'
    BY <1>0, <2>1 DEF EntriesAreAlive, TableAgrees, over, unfinished, TypeOK, Entries
  <2> QED
    BY <2>2, <2>4, <2>5, <2>6, <2>7, <2>8
<1> QED
  BY <1>a, <1>b

LEMMA DiscardAppStep ==
  ASSUME Inv, NEW x \in Objects, discardApp(x)
  PROVE  Inv'
<1> USE NilAssumption DEF Inv, Consistent, engineVars, ctxVars, hostVars, historyVars
<1>1. /\ over(x) /\ registering'[x] = "no"
      /\ \A y \in Objects : y # x => registering'[y] = registering[y]
      /\ UNCHANGED <<engine, idOf, config, instances, mutations, work, ctxOver, appClose,
                     hostClosed, reactorClosed, unsaved, left>>
  BY DEF discardApp, TypeOK
<1>2. TypeOK'
  BY DEF discardApp, TypeOK
<1>3. OneRunsPerId' /\ NoneOutOfReach'
  BY <1>1 DEF OneRunsPerId, NoneOutOfReach, unfinished, webMade, over, inTable
<1>4. TableAgrees'
  BY <1>1 DEF TableAgrees, webMade, over, unfinished, TypeOK, Entries
<1>5. RequestAgrees'
  BY <1>1, <1>2 DEF RequestAgrees, kept, over, newConfig, replacing, aloneUnderId,
                    webMade, unfinished, TypeOK, Works, Entries, inTable
<1>6. SavedIsEffective' /\ EntriesAreAlive'
  BY <1>1 DEF SavedIsEffective, EntriesAreAlive, over
<1> QED
  BY <1>2, <1>3, <1>4, <1>5, <1>6

\* A new object takes a name that nobody refers to.
LEMMA NewObject ==
  ASSUME Inv, NEW x \in Objects, NEW id \in Ids, NEW cfg \in Requests \cup {Nil},
         createObject(x, id, cfg)
  PROVE  /\ ~inTable(x) /\ registering[x] = "no" /\ appClose[x] = "no"
         /\ x \notin work.todo /\ x # work.closing /\ x # work.fresh
         /\ work.step \in {"patching", "reading", "saving"} => work.previous.instance # x
         /\ engine'[x] = "live" /\ idOf'[x] = id /\ config'[x] = cfg
         /\ \A y \in Objects : y # x => /\ engine'[y] = engine[y] /\ idOf'[y] = idOf[y]
                                        /\ config'[y] = config[y]
         /\ unsaved' = unsaved \ {x} /\ left' = left \ {x} /\ ~hostClosed
         /\ engine' \in [Objects -> {"none", "live", "closing", "ended", "failed"}]
         /\ ran' \subseteq Objects /\ idOf' \in [Objects -> Ids \cup {Nil}]
         /\ config' \in [Objects -> Requests \cup {Nil}]
<1> USE NilAssumption DEF Inv, Consistent
<1>1. free(x)
  BY DEF createObject
<1>2. CASE engine[x] = "none"
  BY <1>2 DEF createObject, TypeOK, TableAgrees, RequestAgrees, inTable, kept, Works
<1>3. CASE engine[x] # "none"
  BY <1>1, <1>3 DEF free, createObject, TypeOK, RequestAgrees, Works
<1> QED
  BY <1>2, <1>3

LEMMA CreateInstanceStep ==
  ASSUME Inv, NEW x \in Objects, NEW id \in AppIds, CreateInstance(x, id)
  PROVE  Inv'
<1> USE NilAssumption DEF Inv, Consistent, ctxVars, hostVars
<1>0. id \in Ids /\ Nil \in Requests \cup {Nil} /\ createObject(x, id, Nil)
  BY DEF CreateInstance, Ids
<1>1. /\ ~inTable(x) /\ registering[x] = "no" /\ appClose[x] = "no"
      /\ x \notin work.todo /\ x # work.closing /\ x # work.fresh
      /\ work.step \in {"patching", "reading", "saving"} => work.previous.instance # x
      /\ engine'[x] = "live" /\ idOf'[x] = id /\ config'[x] = Nil
      /\ \A y \in Objects : y # x => /\ engine'[y] = engine[y] /\ idOf'[y] = idOf[y]
                                     /\ config'[y] = config[y]
      /\ unsaved' = unsaved \ {x} /\ left' = left \ {x} /\ ~hostClosed
  BY <1>0, NewObject
<1>2. /\ registering'[x] = "created"
      /\ \A y \in Objects : y # x => registering'[y] = registering[y]
      /\ UNCHANGED <<instances, mutations, work, ctxOver, appClose, hostClosed, reactorClosed>>
  BY DEF CreateInstance, TypeOK
<1>3. TypeOK'
  BY <1>0, NewObject DEF CreateInstance, TypeOK, createObject
<1>4. OneRunsPerId' /\ NoneOutOfReach'
  BY <1>1, <1>2 DEF OneRunsPerId, NoneOutOfReach, unfinished, webMade, inTable
<1>5. TableAgrees'
  BY <1>0, <1>1, <1>2 DEF TableAgrees, webMade, over, unfinished, TypeOK, Entries, inTable
<1>6. RequestAgrees'
  BY <1>1, <1>2, <1>3 DEF RequestAgrees, kept, over, newConfig, replacing, aloneUnderId,
                    webMade, unfinished, TypeOK, Works, Entries, inTable
<1>7. SavedIsEffective' /\ EntriesAreAlive'
  BY <1>1, <1>2 DEF SavedIsEffective, EntriesAreAlive, TableAgrees, over, inTable, TypeOK, Entries
<1> QED
  BY <1>3, <1>4, <1>5, <1>6, <1>7

-----------------------------------------------------------------------------
\* The end of a request.

LEMMA IdleAgrees ==
  ASSUME work' = idleWork
  PROVE  RequestAgrees'
  BY DEF idleWork, RequestAgrees, replacing

LEMMA IdleFields ==
  /\ idleWork \in Works
  /\ idleWork.step = "none" /\ idleWork.fresh = Nil /\ idleWork.closing = Nil
  /\ idleWork.previous = Nil /\ idleWork.todo = {} /\ ~idleWork.restoring
  BY DEF idleWork, Works, Steps

\* A request that has no object of its own any more, and that has left a mark
\* on what it did not close, may end wherever it is.
LEMMA ReturnStep ==
  ASSUME Inv, NEW r \in Requests, return(r),
         UNCHANGED <<engineVars, instances, appVars, hostVars, left>>,
         unsaved \subseteq unsaved', unsaved' \subseteq Objects,
         work.fresh = Nil \/ over(work.fresh),
         work.closing = Nil \/ (inTable(work.closing) => work.closing \in left),
         work.step \in {"reading", "saving"} /\ engine[work.previous.instance] = "live" =>
           work.previous.instance \in unsaved'
  PROVE  Inv'
<1> USE NilAssumption DEF Inv, Consistent, engineVars, appVars, hostVars
<1>1. /\ work' = idleWork /\ work'.fresh = Nil /\ work'.closing = Nil /\ work'.step = "none"
      /\ mutations' = Nil
  BY IdleFields DEF return
<1>2. TypeOK'
  BY IdleFields DEF return, TypeOK
<1>3. RequestAgrees'
  BY <1>1, IdleAgrees
<1>4. OneRunsPerId' /\ NoneOutOfReach'
  BY <1>1 DEF OneRunsPerId, NoneOutOfReach, unfinished, webMade, inTable, over
<1>5. TableAgrees'
  BY <1>1 DEF TableAgrees, webMade, over, unfinished, TypeOK, Entries, inTable
<1>6. SavedIsEffective'
  BY <1>1 DEF SavedIsEffective
<1>7. EntriesAreAlive'
  BY <1>1 DEF EntriesAreAlive, over, TypeOK, Entries, inTable
<1> QED
  BY <1>2, <1>3, <1>4, <1>5, <1>6, <1>7

-----------------------------------------------------------------------------
\* runNetworkInstance decides: nothing runs under the identity, or what does is
\* to be closed first.

LEMMA RunStep ==
  ASSUME Inv, NEW r \in Requests, NEW id \in Ids, NEW overwrite \in BOOLEAN,
         runNetworkInstance(r, id, overwrite)
  PROVE  Inv'
<1> USE NilAssumption DEF Inv, Consistent, ctxVars, appVars, hostVars, historyVars, engineVars
<1>0. /\ mutations = Nil /\ work = idleWork /\ work.step = "none"
      /\ work.fresh = Nil /\ work.closing = Nil
      /\ UNCHANGED <<ran, idOf, config, instances, used, registering, appClose, hostClosed,
                     reactorClosed, unsaved, left>>
  BY IdleFields DEF runNetworkInstance, locks, RequestAgrees
<1>a. CASE instances[id] = Nil /\ enter(r, [idleWork EXCEPT !.step = "creating", !.id = id])
           /\ UNCHANGED <<engine, ctxVars>>
  <2>1. /\ mutations' = r /\ work'.step = "creating" /\ work'.id = id /\ work'.fresh = Nil
        /\ work'.closing = Nil /\ ~work'.restoring /\ work'.todo = {}
        /\ work'.previous = Nil /\ work' \in Works
    BY <1>a DEF enter, idleWork, Works, Steps
  <2>2. TypeOK'
    BY <1>a, <1>0, <2>1 DEF enter, TypeOK
  <2>3. OneRunsPerId' /\ NoneOutOfReach'
    BY <1>0, <1>a, <2>1 DEF OneRunsPerId, NoneOutOfReach, unfinished, webMade, inTable
  <2>4. TableAgrees'
    BY <1>0, <1>a, <2>1 DEF TableAgrees, webMade, over, unfinished, TypeOK, Entries
  <2>5. aloneUnderId'
    BY <1>0, <1>a, <2>1 DEF aloneUnderId, webMade, unfinished, NoneOutOfReach, TableAgrees, inTable,
                            TypeOK
  <2>6. RequestAgrees'
    BY <2>1, <2>5 DEF RequestAgrees, idleWork
  <2>7. SavedIsEffective' /\ EntriesAreAlive'
    BY <1>0, <1>a, <2>1 DEF SavedIsEffective, EntriesAreAlive, over, TypeOK, Entries
  <2> QED
    BY <2>2, <2>3, <2>4, <2>6, <2>7
<1>b. CASE return(r) /\ UNCHANGED engine
  BY <1>0, <1>b, ReturnStep DEF TypeOK
<1>c. CASE /\ instances[id] # Nil /\ instances[id].owner = "web"
           /\ enter(r, [idleWork EXCEPT !.step = "closing", !.id = id, !.previous = instances[id],
                          !.closing = instances[id].instance,
                          !.alreadyFailed = engine[instances[id].instance] = "failed"])
           /\ engine' = closeObject(instances[id].instance)
           /\ UNCHANGED ctxVars
  <2> DEFINE x == instances[id].instance
  <2>1. /\ x \in Objects /\ instances[id] \in Entries
        /\ (engine[x] = "failed") \in BOOLEAN
    BY <1>c DEF TypeOK, Entries
  <2>2. /\ mutations' = r /\ work'.step = "closing" /\ work'.id = id /\ work'.fresh = Nil
        /\ work'.closing = x /\ ~work'.restoring /\ work'.todo = {}
        /\ work'.previous = instances[id]
        /\ work' \in Works
    BY <1>c, <2>1 DEF enter, idleWork, Works, Steps
  <2>3. /\ engine'[x] = IF engine[x] = "live" THEN "closing" ELSE engine[x]
        /\ \A y \in Objects : y # x => engine'[y] = engine[y]
        /\ engine' \in [Objects -> {"none", "live", "closing", "ended", "failed"}]
    BY <1>c, <2>1 DEF closeObject, TypeOK
  <2>4. TypeOK'
    BY <1>c, <1>0, <2>2, <2>3 DEF enter, TypeOK
  <2>5. /\ engine[x] # "none" /\ idOf[x] = id /\ registering[x] = "no"
        /\ instances[id].config # Nil
        /\ instances'[id].instance = x
    BY <1>0, <1>c DEF TableAgrees
  <2> HIDE DEF x
  <2>6. OneRunsPerId' /\ NoneOutOfReach'
    BY <1>0, <2>1, <2>2, <2>3 DEF OneRunsPerId, NoneOutOfReach, unfinished, webMade, inTable
  <2>7. TableAgrees'
    BY <1>0, <2>1, <2>2, <2>3, <2>5 DEF TableAgrees, webMade, over, unfinished, TypeOK, Entries
  <2>8. aloneUnderId'
    BY <1>0, <1>c, <2>1, <2>2, <2>3, <2>5
       DEF aloneUnderId, webMade, unfinished, NoneOutOfReach, TableAgrees, inTable, TypeOK
  <2>9. RequestAgrees'
    BY <1>0, <2>1, <2>2, <2>3, <2>5, <2>8 DEF RequestAgrees, kept
  <2>10. SavedIsEffective' /\ EntriesAreAlive'
    BY <1>0, <2>1, <2>2, <2>3 DEF SavedIsEffective, EntriesAreAlive, over, TypeOK, Entries
  <2> QED
    BY <2>4, <2>6, <2>7, <2>9, <2>10
<1> QED
  BY <1>a, <1>b, <1>c DEF runNetworkInstance

-----------------------------------------------------------------------------
\* closeManagedInstance, for a replacement and in closeWebInstances.

LEMMA CloseManagedStep ==
  ASSUME Inv, NEW r \in Requests, closeManagedInstance(r)
  PROVE  Inv'
<1> USE NilAssumption DEF Inv, Consistent, ctxVars, appVars, hostVars, engineVars
<1>x. PICK x \in Objects : x = work.closing
  BY DEF closeManagedInstance, holds, RequestAgrees, TypeOK, Works
<1>0. /\ mutations = r /\ work.step = "closing" /\ kept(x) /\ work.fresh = Nil
      /\ UNCHANGED <<engine, ran, idOf, config, pc, mutations, ctxOver, timedOut, used, registering,
                     appClose, hostClosed, reactorClosed, unsaved>>
  BY <1>x DEF closeManagedInstance, holds, proceed, RequestAgrees, TypeOK, Works
<1>1. /\ work'.step = "closed" /\ work' \in Works
      /\ over(x) \/ (r \in ctxOver /\ work'.err)
      /\ work'.id = work.id /\ work'.previous = work.previous /\ work'.restoring = work.restoring
      /\ work'.fresh = work.fresh /\ work'.closing = x /\ work'.todo = work.todo
  <2>1. PICK err \in BOOLEAN :
          /\ over(x) \/ (r \in ctxOver /\ err)
          /\ work' = [work EXCEPT !.step = "closed", !.err = err]
    BY <1>x DEF closeManagedInstance, proceed
  <2> QED
    BY <1>x, <2>1 DEF TypeOK, Works, Steps
<1>a. CASE r \in ctxOver
  <2>1. instances' = instances /\ left' = leave(x)
    BY <1>a, <1>x DEF closeManagedInstance
  <2>2. /\ left \subseteq left' /\ left' \subseteq Objects /\ (inTable(x)' => x \in left')
    BY <1>0, <2>1 DEF leave, TypeOK, inTable
  <2>3. TypeOK'
    BY <1>x, <1>0, <1>1, <2>1, <2>2 DEF TypeOK
  <2>4. OneRunsPerId' /\ NoneOutOfReach'
    BY <1>x, <1>0, <1>1, <2>1 DEF OneRunsPerId, NoneOutOfReach, unfinished, webMade, inTable
  <2>5. TableAgrees'
    BY <1>x, <1>0, <1>1, <2>1, <2>2 DEF TableAgrees, webMade, over, unfinished, TypeOK, Entries
  <2>6. RequestAgrees'
    BY <1>x, <1>0, <1>1, <2>1, <2>2 DEF RequestAgrees, kept, over, replacing, aloneUnderId, webMade,
                                   unfinished, TypeOK, Works
  <2>7. SavedIsEffective' /\ EntriesAreAlive'
    BY <1>x, <1>0, <1>1, <2>1, <2>2 DEF SavedIsEffective, EntriesAreAlive, over, TypeOK, Entries
  <2> QED
    BY <2>3, <2>4, <2>5, <2>6, <2>7
<1>b. CASE r \notin ctxOver
  <2>1. instances' = remove(x) /\ left' = left \ {x} /\ over(x)
    BY <1>b, <1>x, <1>1 DEF closeManagedInstance
  <2>2. /\ instances' \in [Ids -> Entries \cup {Nil}]
        /\ ~inTable(x)'
        /\ \A id \in Ids : instances'[id] # Nil =>
             instances'[id] = instances[id] /\ instances[id].instance # x
        /\ \A y \in Objects : y # x => (inTable(y)' <=> inTable(y))
    BY <1>0, <2>1, Removed
  <2>3. TypeOK'
    BY <1>x, <1>0, <1>1, <2>1, <2>2 DEF TypeOK
  <2>4. OneRunsPerId' /\ NoneOutOfReach'
    BY <1>x, <1>0, <1>1, <2>1, <2>2 DEF OneRunsPerId, NoneOutOfReach, unfinished, webMade, over
  <2>5. TableAgrees'
    BY <1>x, <1>0, <1>1, <2>1, <2>2 DEF TableAgrees, webMade, over, unfinished, TypeOK, Entries
  <2>6. RequestAgrees'
    BY <1>x, <1>0, <1>1, <2>1, <2>2 DEF RequestAgrees, kept, over, replacing, aloneUnderId, webMade,
                                   unfinished, TypeOK, Works
  <2>7. SavedIsEffective' /\ EntriesAreAlive'
    BY <1>x, <1>0, <1>1, <2>1, <2>2 DEF SavedIsEffective, EntriesAreAlive, over, TypeOK, Entries
  <2> QED
    BY <2>3, <2>4, <2>5, <2>6, <2>7
<1> QED
  BY <1>a, <1>b

\* A request goes on after a Close only if it has seen the end of the instance.
LEMMA CloseResultStep ==
  ASSUME Inv, NEW r \in Requests, closeManagedInstanceResult(r)
  PROVE  Inv'
<1> USE NilAssumption DEF Inv, Consistent, ctxVars, appVars, hostVars, engineVars, historyVars
<1>0. /\ mutations = r /\ work.step = "closed" /\ work.closing \in Objects /\ work.fresh = Nil
      /\ inTable(work.closing) => work.closing \in left
      /\ over(work.closing) \/ (work.err /\ r \in ctxOver)
      /\ UNCHANGED <<engine, ran, idOf, config, instances, used, registering, appClose, hostClosed,
                     reactorClosed, left, unsaved>>
  BY DEF closeManagedInstanceResult, holds, RequestAgrees, TypeOK, Works
<1>a. CASE return(r)
  BY <1>0, <1>a, ReturnStep DEF TypeOK
<1>b. CASE ~return(r)
  <2>0. /\ ~(work.err /\ ~(work.alreadyFailed /\ r \notin ctxOver))
        /\ proceed([work EXCEPT !.step = IF work.previous = Nil THEN "looping" ELSE "creating",
                                  !.closing = Nil, !.alreadyFailed = FALSE, !.err = FALSE])
        /\ UNCHANGED ctxVars
    BY <1>b DEF closeManagedInstanceResult
  <2>1. /\ over(work.closing) /\ work' \in Works
        /\ work'.step = IF work.previous = Nil THEN "looping" ELSE "creating"
        /\ work'.id = work.id /\ work'.previous = work.previous /\ work'.restoring = work.restoring
        /\ work'.fresh = Nil /\ work'.closing = Nil /\ work'.todo = work.todo
        /\ UNCHANGED <<pc, mutations, ctxOver, timedOut>>
    <3>1. over(work.closing) /\ UNCHANGED <<pc, mutations, ctxOver, timedOut>>
      BY <1>0, <2>0 DEF proceed
    <3>2. PICK step \in Steps : /\ step = IF work.previous = Nil THEN "looping" ELSE "creating"
                                /\ work' = [work EXCEPT !.step = step, !.closing = Nil,
                                                        !.alreadyFailed = FALSE, !.err = FALSE]
      BY <2>0 DEF proceed, Steps
    <3>3. work \in Works
      BY DEF TypeOK
    <3>4. work' \in Works
      BY <3>2, <3>3 DEF Works
    <3> QED
      BY <1>0, <3>1, <3>2, <3>3, <3>4 DEF Works
  <2>2. TypeOK'
    BY <1>0, <2>1 DEF TypeOK
  <2>3. OneRunsPerId' /\ NoneOutOfReach'
    BY <1>0, <2>1 DEF OneRunsPerId, NoneOutOfReach, unfinished, webMade, inTable
  <2>4. TableAgrees'
    BY <1>0, <2>1 DEF TableAgrees, webMade, over, unfinished, TypeOK, Entries
  <2>5. RequestAgrees'
    BY <1>0, <2>1 DEF RequestAgrees, kept, over, replacing, aloneUnderId, webMade, unfinished,
                      TypeOK, Works
  <2>6. SavedIsEffective' /\ EntriesAreAlive'
    BY <1>0, <2>1 DEF SavedIsEffective, EntriesAreAlive, over, TypeOK, Entries, inTable
  <2> QED
    BY <2>2, <2>3, <2>4, <2>5, <2>6
<1> QED
  BY <1>a, <1>b

-----------------------------------------------------------------------------
\* createWebInstance.

\* A creation that failed has left nothing behind that runs, so that a
\* restoration is alone under its identity as well.
LEMMA CreateFailedStep ==
  ASSUME Inv, NEW r \in Requests, mutations = r, createFailed(r),
         work.step = "creating" \/ (work.step = "discarding" /\ over(work.fresh)),
         UNCHANGED <<engineVars, instances, appVars, hostVars, historyVars>>
  PROVE  Inv'
<1> USE NilAssumption DEF Inv, Consistent, ctxVars, appVars, hostVars, engineVars, historyVars
<1>0. /\ work.closing = Nil /\ (work.fresh = Nil \/ over(work.fresh))
      /\ work.id \in Ids /\ aloneUnderId
  BY DEF RequestAgrees, replacing
<1>a. CASE return(r)
  BY <1>0, <1>a, ReturnStep DEF TypeOK
<1>b. CASE ~return(r)
  <2>0. /\ work.previous # Nil
        /\ proceed([work EXCEPT !.step = "creating", !.restoring = TRUE, !.fresh = Nil])
        /\ UNCHANGED ctxVars
    BY <1>b DEF createFailed
  <2>1. /\ work' \in Works /\ work'.step = "creating" /\ work'.id = work.id
        /\ work'.previous = work.previous /\ work'.restoring
        /\ work'.fresh = Nil /\ work'.closing = Nil /\ work'.todo = work.todo
        /\ UNCHANGED <<pc, mutations, ctxOver, timedOut>>
    BY <1>0, <2>0 DEF proceed, TypeOK, Works, Steps
  <2>2. TypeOK'
    BY <2>1 DEF TypeOK
  <2>3. OneRunsPerId' /\ NoneOutOfReach'
    BY <1>0, <2>1 DEF OneRunsPerId, NoneOutOfReach, unfinished, over, webMade, inTable
  <2>4. TableAgrees'
    BY <1>0, <2>1 DEF TableAgrees, webMade, over, unfinished, TypeOK, Entries
  <2>5. aloneUnderId'
    BY <1>0, <2>1 DEF aloneUnderId, webMade, unfinished, over
  <2>6. RequestAgrees'
    BY <1>0, <2>0, <2>1, <2>5 DEF RequestAgrees, kept
  <2>7. SavedIsEffective' /\ EntriesAreAlive'
    BY <1>0, <2>1 DEF SavedIsEffective, EntriesAreAlive, over, TypeOK, Entries
  <2> QED
    BY <2>2, <2>3, <2>4, <2>6, <2>7
<1> QED
  BY <1>a, <1>b

LEMMA CreateStep ==
  ASSUME Inv, NEW r \in Requests, createInstance(r)
  PROVE  Inv'
<1> USE NilAssumption DEF Inv, Consistent, ctxVars, appVars, hostVars, engineVars, historyVars
<1>0. /\ mutations = r /\ work.step = "creating" /\ work.closing = Nil /\ work.fresh = Nil
      /\ work.id \in Ids /\ aloneUnderId
      /\ UNCHANGED <<instances, used, registering, appClose, hostClosed, reactorClosed>>
  BY DEF createInstance, holds, RequestAgrees, replacing
<1>a. CASE createFailed(r) /\ UNCHANGED <<engineVars, historyVars>>
  BY <1>0, <1>a, CreateFailedStep
<1>b. ASSUME NEW x \in Objects, createObject(x, work.id, newConfig(r)),
             proceed([work EXCEPT !.step = "starting", !.fresh = x]), UNCHANGED ctxVars
      PROVE  Inv'
  <2>0. PICK cfg \in Requests : cfg = newConfig(r)
    BY DEF newConfig, RequestAgrees, TypeOK, Works, Entries
  <2>1. /\ ~inTable(x) /\ registering[x] = "no" /\ appClose[x] = "no"
        /\ x \notin work.todo
        /\ engine'[x] = "live" /\ idOf'[x] = work.id /\ config'[x] = cfg
        /\ \A y \in Objects : y # x => /\ engine'[y] = engine[y] /\ idOf'[y] = idOf[y]
                                       /\ config'[y] = config[y]
        /\ unsaved' = unsaved \ {x} /\ left' = left \ {x} /\ ~hostClosed
        /\ engine' \in [Objects -> {"none", "live", "closing", "ended", "failed"}]
        /\ ran' \subseteq Objects /\ idOf' \in [Objects -> Ids \cup {Nil}]
        /\ config' \in [Objects -> Requests \cup {Nil}]
    BY <1>0, <1>b, <2>0, NewObject
  <2>2. /\ work' \in Works /\ work'.step = "starting" /\ work'.id = work.id
        /\ work'.previous = work.previous /\ work'.restoring = work.restoring
        /\ work'.fresh = x /\ work'.closing = Nil /\ work'.todo = work.todo
        /\ UNCHANGED <<pc, mutations, ctxOver, timedOut>>
    BY <1>0, <1>b DEF proceed, TypeOK, Works, Steps
  <2>3. TypeOK'
    BY <1>0, <2>1, <2>2 DEF TypeOK
  <2>4. OneRunsPerId' /\ NoneOutOfReach'
    BY <1>0, <2>1, <2>2 DEF OneRunsPerId, NoneOutOfReach, unfinished, webMade, inTable, aloneUnderId
  <2>5. TableAgrees'
    BY <1>0, <2>1, <2>2 DEF TableAgrees, webMade, over, unfinished, TypeOK, Entries, inTable
  <2>6. aloneUnderId'
    BY <1>0, <2>1, <2>2 DEF aloneUnderId, webMade, unfinished
  <2>7. newConfig(mutations)' = cfg /\ ~inTable(x)' /\ webMade(x)'
    BY <1>0, <2>0, <2>1, <2>2 DEF newConfig, inTable, webMade
  <2>8. RequestAgrees'
    BY <1>0, <2>1, <2>2, <2>6, <2>7 DEF RequestAgrees, kept, TypeOK, Works
  <2>9. SavedIsEffective' /\ EntriesAreAlive'
    BY <1>0, <2>1, <2>2 DEF SavedIsEffective, EntriesAreAlive, TableAgrees, over, TypeOK, Entries,
                            inTable
  <2> QED
    BY <2>3, <2>4, <2>5, <2>8, <2>9
<1> QED
  BY <1>a, <1>b DEF createInstance

\* What the steps of createWebInstance know of the object they have made.
LEMMA FreshFacts ==
  ASSUME Inv, NEW r \in Requests, mutations = r,
         work.step \in {"starting", "registering", "discarding"}
  PROVE  /\ work.fresh \in Objects /\ work.closing = Nil /\ work.id \in Ids /\ aloneUnderId
         /\ kept(work.fresh) /\ idOf[work.fresh] = work.id /\ ~inTable(work.fresh)
         /\ work.step \in {"starting", "registering"} =>
              /\ engine[work.fresh] = "live" => config[work.fresh] = newConfig(r)
              /\ engine[work.fresh] \in {"closing", "ended"} => hostClosed
         /\ newConfig(r) \in Requests
         /\ unfinished(work.fresh) => webMade(work.fresh)
  BY NilAssumption DEF Inv, Consistent, RequestAgrees, replacing, newConfig, TypeOK, Works, Entries

\* The new object is closed, and the request waits for its end.
LEMMA DiscardingStep ==
  ASSUME Inv, NEW r \in Requests, mutations = r, work.step \in {"starting", "registering"},
         proceed([work EXCEPT !.step = "discarding"]), engine' = closeObject(work.fresh),
         UNCHANGED <<ran, idOf, config, instances, ctxVars, appVars, hostVars, historyVars>>
  PROVE  Inv'
<1> USE NilAssumption DEF Inv, Consistent, ctxVars, appVars, hostVars, historyVars
<1>x. PICK x \in Objects : x = work.fresh
  BY FreshFacts
<1>0. /\ work.closing = Nil /\ work.id \in Ids /\ aloneUnderId
      /\ kept(x) /\ idOf[x] = work.id /\ ~inTable(x)
  BY <1>x, FreshFacts
<1>1. /\ work' \in Works /\ work'.step = "discarding" /\ work'.id = work.id
      /\ work'.previous = work.previous /\ work'.restoring = work.restoring
      /\ work'.fresh = x /\ work'.closing = Nil /\ work'.todo = work.todo
      /\ UNCHANGED <<pc, mutations, ctxOver, timedOut>>
  BY <1>x, <1>0 DEF proceed, TypeOK, Works, Steps
<1>2. /\ engine'[x] = IF engine[x] = "live" THEN "closing" ELSE engine[x]
      /\ \A y \in Objects : y # x => engine'[y] = engine[y]
      /\ engine' \in [Objects -> {"none", "live", "closing", "ended", "failed"}]
  BY <1>x DEF closeObject, TypeOK
<1>3. TypeOK'
  BY <1>1, <1>2 DEF TypeOK
<1>4. OneRunsPerId' /\ NoneOutOfReach'
  BY <1>x, <1>1, <1>2 DEF OneRunsPerId, NoneOutOfReach, unfinished, webMade, inTable
<1>5. TableAgrees'
  BY <1>0, <1>1, <1>2 DEF TableAgrees, webMade, over, unfinished, TypeOK, Entries, inTable, kept
<1>6. RequestAgrees'
  BY <1>x, <1>0, <1>1, <1>2 DEF RequestAgrees, kept, inTable, aloneUnderId, webMade, unfinished,
                                TypeOK, Works
<1>7. SavedIsEffective' /\ EntriesAreAlive'
  BY <1>0, <1>1, <1>2 DEF SavedIsEffective, EntriesAreAlive, over, TypeOK, Entries, inTable
<1> QED
  BY <1>3, <1>4, <1>5, <1>6, <1>7

LEMMA StartStep ==
  ASSUME Inv, NEW r \in Requests, start(r)
  PROVE  Inv'
<1> USE NilAssumption DEF Inv, Consistent, ctxVars, appVars, hostVars, historyVars
<1>0. /\ mutations = r /\ work.step = "starting"
      /\ UNCHANGED <<ran, idOf, config, instances, ctxVars, appVars, hostVars, historyVars>>
  BY DEF start, holds
<1>a. CASE proceed([work EXCEPT !.step = "discarding"]) /\ engine' = closeObject(work.fresh)
  BY <1>0, <1>a, DiscardingStep
<1>b. CASE proceed([work EXCEPT !.step = "registering"]) /\ UNCHANGED engine
  <2>1. /\ work' \in Works /\ work'.step = "registering" /\ work'.id = work.id
        /\ work'.previous = work.previous /\ work'.restoring = work.restoring
        /\ work'.fresh = work.fresh /\ work'.closing = work.closing /\ work'.todo = work.todo
        /\ UNCHANGED <<pc, mutations, ctxOver, timedOut>>
    BY <1>0, <1>b DEF proceed, TypeOK, Works, Steps
  <2>2. TypeOK'
    BY <1>0, <1>b, <2>1 DEF TypeOK
  <2>3. OneRunsPerId' /\ NoneOutOfReach'
    BY <1>0, <1>b, <2>1 DEF OneRunsPerId, NoneOutOfReach, unfinished, webMade, inTable
  <2>4. TableAgrees'
    BY <1>0, <1>b, <2>1 DEF TableAgrees, webMade, over, unfinished
  <2>5. RequestAgrees'
    BY <1>0, <1>b, <2>1 DEF RequestAgrees, kept, inTable, replacing, aloneUnderId, webMade,
                            unfinished, newConfig
  <2>6. SavedIsEffective' /\ EntriesAreAlive'
    BY <1>0, <1>b, <2>1 DEF SavedIsEffective, EntriesAreAlive, over
  <2> QED
    BY <2>2, <2>3, <2>4, <2>5, <2>6
<1> QED
  BY <1>a, <1>b DEF start

LEMMA RegisterWebStep ==
  ASSUME Inv, NEW r \in Requests, registerWeb(r)
  PROVE  Inv'
<1> USE NilAssumption DEF Inv, Consistent, ctxVars, appVars, hostVars, historyVars
<1>0. /\ mutations = r /\ work.step = "registering"
      /\ UNCHANGED <<ran, idOf, config, appVars, hostVars, historyVars>>
  BY DEF registerWeb, holds
<1>x. PICK x \in Objects : x = work.fresh
  BY <1>0, FreshFacts
<1>1. /\ work.closing = Nil /\ work.id \in Ids /\ aloneUnderId
      /\ kept(x) /\ idOf[x] = work.id /\ ~inTable(x)
      /\ engine[x] = "live" => config[x] = newConfig(r)
      /\ engine[x] \in {"closing", "ended"} => hostClosed
      /\ newConfig(r) \in Requests
      /\ unfinished(x) => webMade(x)
  BY <1>0, <1>x, FreshFacts
<1>a. CASE instances[work.id] # Nil
  <2>1. /\ instances' = instances /\ proceed([work EXCEPT !.step = "discarding"])
        /\ engine' = closeObject(work.fresh) /\ UNCHANGED ctxVars
    BY <1>a DEF registerWeb, register
  <2> QED
    BY <1>0, <2>1, DiscardingStep
<1>b. CASE instances[work.id] = Nil
  <2>i. PICK i \in Ids : i = work.id
    BY <1>1
  <2>c. PICK cfg \in Requests : cfg = newConfig(r)
    BY <1>1
  <2>e. PICK entry \in Entries : entry = [instance |-> x, owner |-> "web", config |-> cfg]
    BY DEF Entries
  <2>1. /\ instances'[i] = entry /\ entry # Nil /\ entry.instance = x /\ entry.owner = "web"
        /\ entry.config = cfg
        /\ \A j \in Ids : j # i => instances'[j] = instances[j]
        /\ instances' \in [Ids -> Entries \cup {Nil}]
        /\ return(r) /\ engine' = engine
    BY <1>b, <1>x, <2>i, <2>c, <2>e, NilRecordAssumption DEF registerWeb, register, TypeOK
  <2>2. work' = idleWork /\ work'.fresh = Nil /\ work'.closing = Nil /\ work'.step = "none"
    BY <2>1, IdleFields DEF return
  <2>3. TypeOK'
    BY <1>0, <2>1, IdleFields DEF return, TypeOK
  <2>4. inTable(x)' /\ \A y \in Objects : inTable(y) => inTable(y)'
    BY <1>b, <2>1, <2>i DEF inTable
  <2>5. OneRunsPerId' /\ NoneOutOfReach'
    BY <1>0, <1>x, <2>1, <2>4 DEF OneRunsPerId, NoneOutOfReach, unfinished, webMade
  <2>6. TableAgrees'
    BY <1>0, <1>1, <2>i, <2>1, <2>2 DEF TableAgrees, webMade, over, unfinished, kept
  <2>7. RequestAgrees'
    BY <2>2, IdleAgrees
  <2>8. SavedIsEffective'
    BY <1>0, <1>1, <2>i, <2>c, <2>1, <2>2 DEF SavedIsEffective
  <2>9. EntriesAreAlive'
    BY <1>0, <1>1, <2>i, <2>1, <2>2 DEF EntriesAreAlive, TableAgrees, kept, over, unfinished, TypeOK,
                                        Entries
  <2> QED
    BY <2>3, <2>5, <2>6, <2>7, <2>8, <2>9
<1> QED
  BY <1>a, <1>b

LEMMA DiscardStep ==
  ASSUME Inv, NEW r \in Requests, discard(r)
  PROVE  Inv'
  BY CreateFailedStep DEF discard, holds

-----------------------------------------------------------------------------
\* patchConfig.

LEMMA PatchStep ==
  ASSUME Inv, NEW r \in Requests, NEW id \in Ids, patchConfig(r, id)
  PROVE  Inv'
<1> USE NilAssumption DEF Inv, Consistent, ctxVars, appVars, hostVars, historyVars, engineVars
<1>0. /\ mutations = Nil /\ work = idleWork /\ work.step = "none"
      /\ work.fresh = Nil /\ work.closing = Nil
      /\ UNCHANGED <<engine, ran, idOf, config, instances, used, registering, appClose, hostClosed,
                     reactorClosed, unsaved, left>>
  BY IdleFields DEF patchConfig, locks, RequestAgrees
<1>a. CASE return(r)
  BY <1>0, <1>a, ReturnStep DEF TypeOK
<1>b. CASE ~return(r)
  <2>0. /\ instances[id] # Nil /\ instances[id].owner = "web"
        /\ enter(r, [idleWork EXCEPT !.step = "patching", !.id = id, !.previous = instances[id]])
        /\ UNCHANGED ctxVars
    BY <1>b DEF patchConfig
  <2>1. /\ mutations' = r /\ work'.step = "patching" /\ work'.id = id /\ work'.fresh = Nil
        /\ work'.previous = instances[id]
        /\ work'.closing = Nil /\ ~work'.restoring /\ work'.todo = {}
        /\ work' \in Works
    BY <2>0 DEF enter, idleWork, Works, Steps, TypeOK
  <2>2. TypeOK'
    BY <1>0, <2>0, <2>1 DEF enter, TypeOK
  <2>3. OneRunsPerId' /\ NoneOutOfReach'
    BY <1>0, <2>1 DEF OneRunsPerId, NoneOutOfReach, unfinished, webMade, inTable
  <2>4. TableAgrees'
    BY <1>0, <2>1 DEF TableAgrees, webMade, over, unfinished, TypeOK, Entries
  <2>5. RequestAgrees'
    BY <1>0, <2>0, <2>1 DEF RequestAgrees, TableAgrees, kept, replacing, unfinished, webMade
  <2>6. SavedIsEffective' /\ EntriesAreAlive'
    BY <1>0, <2>1 DEF SavedIsEffective, EntriesAreAlive, over, TypeOK, Entries
  <2> QED
    BY <2>2, <2>3, <2>4, <2>5, <2>6
<1> QED
  BY <1>a, <1>b

\* What patchConfig knows of the instance it patches, in the table or not.
LEMMA PatchedFacts ==
  ASSUME Inv, NEW r \in Requests, mutations = r,
         work.step \in {"patching", "reading", "saving"}
  PROVE  /\ work.previous \in Entries /\ work.previous.instance \in Objects
         /\ work.previous # Nil /\ work.id \in Ids
         /\ work.fresh = Nil /\ work.closing = Nil
         /\ kept(work.previous.instance) /\ idOf[work.previous.instance] = work.id
         /\ unfinished(work.previous.instance) => webMade(work.previous.instance)
         /\ work.step = "saving" =>
              /\ work.effective # Nil
              /\ engine[work.previous.instance] = "live" =>
                   work.effective = config[work.previous.instance]
  BY NilAssumption DEF Inv, Consistent, RequestAgrees, TypeOK, Works, Entries

LEMMA PatchRPCStep ==
  ASSUME Inv, NEW r \in Requests, patchRPC(r)
  PROVE  Inv'
<1> USE NilAssumption DEF Inv, Consistent, ctxVars, appVars, hostVars, historyVars
<1>0. /\ mutations = r /\ work.step = "patching"
      /\ UNCHANGED <<engine, ran, idOf, instances, ctxVars, appVars, hostVars, historyVars>>
  BY DEF patchRPC, holds
<1>x. PICK x \in Objects : x = work.previous.instance
  BY <1>0, PatchedFacts
<1>1. /\ work.previous # Nil /\ work.id \in Ids /\ work.fresh = Nil /\ work.closing = Nil
      /\ kept(x) /\ idOf[x] = work.id /\ (unfinished(x) => webMade(x))
  BY <1>0, <1>x, PatchedFacts
<1>2. /\ work' \in Works /\ work'.step = "reading" /\ work'.id = work.id
      /\ work'.previous = work.previous /\ work'.restoring = work.restoring
      /\ work'.fresh = Nil /\ work'.closing = Nil /\ work'.todo = work.todo
      /\ UNCHANGED <<pc, mutations, ctxOver, timedOut>>
  BY <1>0, <1>1 DEF patchRPC, proceed, TypeOK, Works, Steps
<1>3. /\ \A y \in Objects : y # x => config'[y] = config[y]
      /\ config'[x] # config[x] => engine[x] = "live"
      /\ config[x] # Nil => config'[x] # Nil
      /\ config' \in [Objects -> Requests \cup {Nil}]
  BY <1>x DEF patchRPC, TypeOK
<1>4. TypeOK'
  BY <1>0, <1>2, <1>3 DEF TypeOK
<1>5. OneRunsPerId' /\ NoneOutOfReach'
  BY <1>0, <1>1, <1>2, <1>3 DEF OneRunsPerId, NoneOutOfReach, unfinished, webMade, inTable
<1>6. TableAgrees'
  BY <1>0, <1>1, <1>2, <1>3 DEF TableAgrees, webMade, over, unfinished, TypeOK, Entries, kept
<1>7. RequestAgrees'
  BY <1>x, <1>0, <1>1, <1>2, <1>3, <1>4 DEF RequestAgrees, kept, replacing, TypeOK, Works,
                                             unfinished, webMade
<1>8. SavedIsEffective' /\ EntriesAreAlive'
  BY <1>x, <1>0, <1>1, <1>2, <1>3 DEF SavedIsEffective, EntriesAreAlive, over, TypeOK, Entries
<1> QED
  BY <1>4, <1>5, <1>6, <1>7, <1>8

LEMMA ReadRPCStep ==
  ASSUME Inv, NEW r \in Requests, readRPC(r)
  PROVE  Inv'
<1> USE NilAssumption DEF Inv, Consistent, ctxVars, appVars, hostVars, engineVars
<1>0. /\ mutations = r /\ work.step = "reading"
      /\ UNCHANGED <<engineVars, instances, appVars, hostVars, left>>
  BY DEF readRPC, holds
<1>x. PICK x \in Objects : x = work.previous.instance
  BY <1>0, PatchedFacts
<1>1. /\ work.previous # Nil /\ work.id \in Ids /\ work.fresh = Nil /\ work.closing = Nil
      /\ kept(x) /\ idOf[x] = work.id /\ (unfinished(x) => webMade(x))
  BY <1>0, <1>x, PatchedFacts
<1>a. CASE return(r) /\ unsaved' = IF unfinished(x) THEN unsaved \cup {x} ELSE unsaved
  <2>1. /\ unsaved \subseteq unsaved' /\ unsaved' \subseteq Objects
        /\ engine[x] = "live" => x \in unsaved'
    BY <1>a DEF TypeOK, unfinished
  <2> QED
    BY <1>0, <1>x, <1>1, <1>a, <2>1, ReturnStep
<1>b. CASE /\ engine[x] = "live"
           /\ proceed([work EXCEPT !.step = "saving", !.effective = config[x]])
           /\ UNCHANGED <<ctxVars, unsaved>>
  <2>0. config[x] \in Requests
    BY <1>1, <1>b DEF unfinished, webMade, TypeOK
  <2>1. /\ work' \in Works /\ work'.step = "saving" /\ work'.id = work.id
        /\ work'.previous = work.previous /\ work'.restoring = work.restoring
        /\ work'.fresh = Nil /\ work'.closing = Nil /\ work'.todo = work.todo
        /\ work'.effective = config[x]
        /\ UNCHANGED <<pc, mutations, ctxOver, timedOut>>
    BY <1>0, <1>1, <1>b, <2>0 DEF proceed, TypeOK, Works, Steps
  <2>2. TypeOK'
    BY <1>0, <1>b, <2>1 DEF TypeOK
  <2>3. OneRunsPerId' /\ NoneOutOfReach'
    BY <1>0, <1>1, <1>b, <2>1 DEF OneRunsPerId, NoneOutOfReach, unfinished, webMade, inTable
  <2>4. TableAgrees'
    BY <1>0, <1>1, <1>b, <2>1 DEF TableAgrees, webMade, over, unfinished
  <2>5. RequestAgrees'
    BY <1>x, <1>0, <1>1, <1>b, <2>0, <2>1 DEF RequestAgrees, kept, replacing, unfinished, webMade
  <2>6. SavedIsEffective' /\ EntriesAreAlive'
    BY <1>0, <1>1, <1>b, <2>1 DEF SavedIsEffective, EntriesAreAlive, over
  <2> QED
    BY <2>2, <2>3, <2>4, <2>5, <2>6
<1> QED
  BY <1>x, <1>a, <1>b DEF readRPC

\* The instance that was patched is under its own identity or nowhere, so what
\* was read back is stored with it or not at all.
LEMMA SaveConfigStep ==
  ASSUME Inv, NEW r \in Requests, saveConfig(r)
  PROVE  Inv'
<1> USE NilAssumption DEF Inv, Consistent, ctxVars, appVars, hostVars, engineVars
<1>0. /\ mutations = r /\ work.step = "saving" /\ return(r)
      /\ UNCHANGED <<engineVars, appVars, hostVars, left>>
  BY DEF saveConfig, holds
<1>x. PICK x \in Objects : x = work.previous.instance
  BY <1>0, PatchedFacts
<1>1. /\ work.id \in Ids /\ work.fresh = Nil /\ work.closing = Nil
      /\ kept(x) /\ idOf[x] = work.id
      /\ work.effective \in Requests /\ (engine[x] = "live" => work.effective = config[x])
  BY <1>0, <1>x, PatchedFacts DEF TypeOK, Works
<1>2. /\ work' = idleWork /\ work'.fresh = Nil /\ work'.closing = Nil /\ work'.step = "none"
  BY <1>0, IdleFields DEF return
<1>i. PICK i \in Ids : i = work.id
  BY <1>1
<1>a. CASE instances[i] # Nil /\ instances[i].instance = x
  <2>0. /\ instances' = [instances EXCEPT ![i].config = work.effective]
        /\ unsaved' = unsaved \ {x} /\ instances[i] \in Entries
    BY <1>a, <1>i, <1>x DEF saveConfig, TypeOK
  <2>1. /\ instances'[i] \in Entries /\ instances'[i].instance = x
        /\ instances'[i].owner = instances[i].owner /\ instances'[i].config = work.effective
        /\ \A j \in Ids : j # i => instances'[j] = instances[j]
        /\ instances' \in [Ids -> Entries \cup {Nil}]
    BY <1>a, <1>1, <2>0 DEF TypeOK, Entries
  <2>2. instances'[i] # Nil
    BY <2>1, NilRecordAssumption
  <2>3. \A j \in Ids : j # i /\ instances[j] # Nil => instances[j].instance # x
    BY <1>1, <1>i DEF TableAgrees
  <2>4. TypeOK'
    BY <1>0, <2>0, <2>1, IdleFields DEF return, TypeOK
  <2>5. \A y \in Objects : inTable(y) <=> inTable(y)'
    BY <1>a, <2>1, <2>2 DEF inTable
  <2>6. OneRunsPerId' /\ NoneOutOfReach'
    BY <1>0, <1>1, <2>5 DEF OneRunsPerId, NoneOutOfReach, unfinished, webMade
  <2>7. TableAgrees'
    BY <1>0, <1>a, <1>1, <1>2, <2>1, <2>2 DEF TableAgrees, webMade, over, unfinished
  <2>8. RequestAgrees'
    BY <1>2, IdleAgrees
  <2>9. SavedIsEffective'
    BY <1>x, <1>0, <1>1, <1>2, <2>0, <2>1, <2>2, <2>3 DEF SavedIsEffective
  <2>10. EntriesAreAlive'
    BY <1>0, <1>a, <1>1, <1>2, <2>1, <2>2 DEF EntriesAreAlive, over
  <2> QED
    BY <2>4, <2>6, <2>7, <2>8, <2>9, <2>10
<1>b. CASE ~(instances[i] # Nil /\ instances[i].instance = x)
  <2>0. UNCHANGED <<instances, unsaved>>
    BY <1>b, <1>i, <1>x DEF saveConfig
  <2>1. \A j \in Ids : instances[j] # Nil => instances[j].instance # x
    BY <1>b, <1>1, <1>i DEF TableAgrees
  <2>4. TypeOK'
    BY <1>0, <2>0, IdleFields DEF return, TypeOK
  <2>6. OneRunsPerId' /\ NoneOutOfReach'
    BY <1>0, <1>1, <2>0 DEF OneRunsPerId, NoneOutOfReach, unfinished, webMade, inTable
  <2>7. TableAgrees'
    BY <1>0, <1>1, <1>2, <2>0 DEF TableAgrees, webMade, over, unfinished
  <2>8. RequestAgrees'
    BY <1>2, IdleAgrees
  <2>9. SavedIsEffective' /\ EntriesAreAlive'
    BY <1>x, <1>0, <1>1, <1>2, <2>0, <2>1 DEF SavedIsEffective, EntriesAreAlive, over
  <2> QED
    BY <2>4, <2>6, <2>7, <2>8, <2>9
<1> QED
  BY <1>a, <1>b

-----------------------------------------------------------------------------
\* closeWebInstances.

LEMMA CloseWebStep ==
  ASSUME Inv, NEW r \in Requests, NEW closed \in SUBSET Ids, closeWebInstances(r, closed)
  PROVE  Inv'
<1> USE NilAssumption DEF Inv, Consistent, ctxVars, appVars, hostVars, historyVars, engineVars
<1>0. /\ mutations = Nil /\ work = idleWork /\ work.step = "none"
      /\ work.fresh = Nil /\ work.closing = Nil
      /\ UNCHANGED <<engine, ran, idOf, config, instances, used, registering, appClose, hostClosed,
                     reactorClosed, unsaved, left, ctxOver, timedOut>>
  BY IdleFields DEF closeWebInstances, locks, RequestAgrees
<1>1. PICK todo \in SUBSET Objects :
        /\ enter(r, [idleWork EXCEPT !.step = "looping", !.todo = todo])
        /\ \A x \in todo : kept(x)
  <2> DEFINE T == {instances[id].instance :
                     id \in {i \in closed : instances[i] # Nil /\ instances[i].owner = "web"}}
  <2>1. T \in SUBSET Objects
    BY DEF TypeOK, Entries
  <2>2. \A x \in T : kept(x)
    BY DEF TableAgrees, kept
  <2> QED
    BY <2>1, <2>2 DEF closeWebInstances
<1>2. /\ mutations' = r /\ work'.step = "looping" /\ work'.fresh = Nil
      /\ work'.previous = Nil /\ work'.closing = Nil /\ ~work'.restoring /\ work'.todo = todo
      /\ work' \in Works
  BY <1>1 DEF enter, idleWork, Works, Steps
<1>3. TypeOK'
  BY <1>0, <1>1, <1>2 DEF enter, TypeOK
<1>4. OneRunsPerId' /\ NoneOutOfReach'
  BY <1>0, <1>2 DEF OneRunsPerId, NoneOutOfReach, unfinished, webMade, inTable
<1>5. TableAgrees'
  BY <1>0, <1>2 DEF TableAgrees, webMade, over, unfinished
<1>6. RequestAgrees'
  BY <1>0, <1>1, <1>2 DEF RequestAgrees, kept, replacing
<1>7. SavedIsEffective' /\ EntriesAreAlive'
  BY <1>0, <1>2 DEF SavedIsEffective, EntriesAreAlive, over
<1> QED
  BY <1>3, <1>4, <1>5, <1>6, <1>7

LEMMA CloseNextStep ==
  ASSUME Inv, NEW r \in Requests, closeNext(r)
  PROVE  Inv'
<1> USE NilAssumption DEF Inv, Consistent, ctxVars, appVars, hostVars, historyVars, engineVars
<1>0. /\ mutations = r /\ work.step = "looping" /\ work.fresh = Nil /\ work.closing = Nil
      /\ UNCHANGED <<ran, idOf, config, instances, used, registering, appClose, hostClosed,
                     reactorClosed, unsaved, left>>
  BY DEF closeNext, holds, RequestAgrees
<1>a. CASE return(r) /\ UNCHANGED engine
  BY <1>0, <1>a, ReturnStep DEF TypeOK
<1>b. ASSUME NEW x \in work.todo,
             proceed([work EXCEPT !.step = "closing", !.closing = x, !.todo = @ \ {x},
                                  !.alreadyFailed = engine[x] = "failed"]),
             engine' = closeObject(x), UNCHANGED ctxVars
      PROVE  Inv'
  <2>0. x \in Objects /\ kept(x) /\ (engine[x] = "failed") \in BOOLEAN
    BY DEF TypeOK, Works, RequestAgrees
  <2>1. /\ work' \in Works /\ work'.step = "closing" /\ work'.id = work.id
        /\ work'.previous = work.previous /\ work'.restoring = work.restoring
        /\ work'.fresh = Nil /\ work'.closing = x /\ work'.todo = work.todo \ {x}
        /\ UNCHANGED <<pc, mutations, ctxOver, timedOut>>
    BY <1>0, <1>b, <2>0 DEF proceed, TypeOK, Works, Steps
  <2>2. /\ engine'[x] = IF engine[x] = "live" THEN "closing" ELSE engine[x]
        /\ \A y \in Objects : y # x => engine'[y] = engine[y]
        /\ engine' \in [Objects -> {"none", "live", "closing", "ended", "failed"}]
    BY <1>b, <2>0 DEF closeObject, TypeOK
  <2>3. TypeOK'
    BY <1>0, <2>1, <2>2 DEF TypeOK
  <2>4. OneRunsPerId' /\ NoneOutOfReach'
    BY <1>0, <2>1, <2>2 DEF OneRunsPerId, NoneOutOfReach, unfinished, webMade, inTable
  <2>5. TableAgrees'
    BY <1>0, <2>0, <2>1, <2>2 DEF TableAgrees, webMade, over, unfinished, TypeOK, Entries, kept
  <2>6. RequestAgrees'
    BY <1>0, <2>0, <2>1, <2>2 DEF RequestAgrees, kept, replacing, TypeOK, Works
  <2>7. SavedIsEffective' /\ EntriesAreAlive'
    BY <1>0, <2>0, <2>1, <2>2 DEF SavedIsEffective, EntriesAreAlive, over, TypeOK, Entries
  <2> QED
    BY <2>3, <2>4, <2>5, <2>6, <2>7
<1> QED
  BY <1>a, <1>b DEF closeNext

-----------------------------------------------------------------------------
\* The invariant is inductive.

LEMMA NextInv == Inv /\ [Next]_vars => Inv'
<1> SUFFICES ASSUME Inv, [Next]_vars PROVE Inv'
  OBVIOUS
<1>1. CASE UNCHANGED vars
  BY <1>1, QuietStep DEF vars, engineVars, ctxVars, appVars, hostVars, historyVars, Inv, Consistent,
                         TypeOK
<1>2. ASSUME NEW r \in Requests, takesLock(r) PROVE Inv'
  <2>1. \A id \in WebIds \cup used : id \in Ids
    BY DEF Inv, Consistent, TypeOK, Ids
  <2> QED
    BY <1>2, <2>1, RunStep, PatchStep, CloseWebStep DEF takesLock
<1>3. ASSUME NEW r \in Requests, requestStep(r) PROVE Inv'
  BY <1>3, CloseManagedStep, CloseResultStep, CreateStep, StartStep, RegisterWebStep, DiscardStep,
     PatchRPCStep, ReadRPCStep, SaveConfigStep, CloseNextStep DEF requestStep
<1>4. ASSUME NEW x \in Objects,
             \/ runEnds(x) \/ shutdownCloses(x) \/ registerApp(x) \/ discardApp(x)
             \/ Close(x) \/ closeReturns(x) \/ closeRemoves(x)
             \/ \E id \in AppIds : CreateInstance(x, id)
      PROVE  Inv'
  BY <1>4, RunEndsStep, ShutdownClosesStep, RegisterAppStep, DiscardAppStep, CloseStep,
     CloseReturnsStep, CloseRemovesStep, CreateInstanceStep
<1>5. CASE \/ \E r \in Requests : Handle(r) \/ cancel(r)
           \/ timeout \/ HostClose \/ shutdownReactor
           \/ \E x \in Objects : becomesRunning(x)
  BY <1>5, QuietSteps
<1>6. CASE clear
  BY <1>6, ClearStep
<1> QED
  BY <1>1, <1>2, <1>3, <1>4, <1>5, <1>6, Zenon DEF Next

\* However requests, the application, failing instances and Host.Close
\* interleave, the invariant holds: for any number of identities, instances and
\* requests.
THEOREM Invariance == Spec => []Inv
<1>1. Spec => Init /\ [][Next]_vars
  BY DEF Spec
<1> QED
  BY <1>1, InitInv, NextInv, PTL

\* Two instances of the configuration server never run under one identity, and
\* no instance runs that neither the table nor the call that creates it has.
THEOREM Consistency == Spec => []Consistent
<1>1. Inv => Consistent
  BY DEF Inv
<1> QED
  BY <1>1, Invariance, PTL

\* What is saved for a running instance is what the guest runs it with, unless
\* the result of a patch could not be read back: storePatch and createWebInstance
\* do not let the two drift apart.
THEOREM SavedConfigIsEffective == Spec => []SavedIsEffective
<1>1. Inv => SavedIsEffective
  BY DEF Inv
<1> QED
  BY <1>1, Invariance, PTL

\* An instance that was closed leaves the table, or some Close of it has not
\* returned or had an ended context; nothing runs after Host.Close has closed
\* the reactor, registered late or not.
THEOREM EntriesAreOfTheLiving == Spec => []EntriesAreAlive
<1>1. Inv => EntriesAreAlive
  BY DEF Inv
<1> QED
  BY <1>1, Invariance, PTL

\* A step of instanceManager takes an entry out only when its instance has
\* ended, and puts no other instance in its place in the same step: a late
\* remove does not hit the replacement, register does not overwrite.
EntriesAreKept ==
  \A id \in Ids :
    instances[id] # Nil =>
      \/ instances'[id] # Nil /\ instances'[id].instance = instances[id].instance
                             /\ instances'[id].owner = instances[id].owner
      \/ instances'[id] = Nil /\ over(instances[id].instance)

LEMMA RemoveKeepsEntries ==
  ASSUME TypeOK, NEW x \in Objects, instances' = remove(x), over(x)
  PROVE  EntriesAreKept
  BY DEF remove, EntriesAreKept, TypeOK

LEMMA RegisterKeepsEntries ==
  ASSUME TypeOK, NEW id \in Ids, NEW entry \in Entries, instances' = register(id, entry)
  PROVE  EntriesAreKept
  BY DEF register, EntriesAreKept, TypeOK

LEMMA StepKeepsEntries == Inv /\ [Next]_vars => [EntriesAreKept]_vars
<1> SUFFICES ASSUME Inv, Next PROVE EntriesAreKept
  OBVIOUS
<1> USE NilAssumption DEF Inv, Consistent
<1>1. CASE instances' = instances
  BY <1>1 DEF EntriesAreKept
<1>2. ASSUME NEW r \in Requests, closeManagedInstance(r) PROVE EntriesAreKept
  <2>1. work.closing \in Objects
    BY <1>2 DEF closeManagedInstance, holds, RequestAgrees, TypeOK, Works
  <2>2. CASE r \in ctxOver
    BY <1>1, <1>2, <2>2 DEF closeManagedInstance
  <2>3. CASE r \notin ctxOver
    <3>1. instances' = remove(work.closing) /\ over(work.closing)
      BY <1>2, <2>3 DEF closeManagedInstance
    <3> QED
      BY <2>1, <3>1, RemoveKeepsEntries
  <2> QED
    BY <2>2, <2>3
<1>3. ASSUME NEW r \in Requests, registerWeb(r) PROVE EntriesAreKept
  <2>1. work.fresh \in Objects /\ work.id \in Ids /\ newConfig(r) \in Requests
    BY <1>3, FreshFacts DEF registerWeb, holds
  <2>2. [instance |-> work.fresh, owner |-> "web", config |-> newConfig(r)] \in Entries
    BY <2>1 DEF Entries
  <2> QED
    BY <1>3, <2>1, <2>2, RegisterKeepsEntries DEF registerWeb
<1>4. ASSUME NEW r \in Requests, saveConfig(r) PROVE EntriesAreKept
  <2>0. work.id \in Ids /\ work.effective \in Requests
    BY <1>4, PatchedFacts DEF saveConfig, holds, TypeOK, Works
  <2>1. CASE instances' # instances
    <3>1. /\ instances' = [instances EXCEPT ![work.id].config = work.effective]
          /\ instances[work.id] # Nil
      BY <1>4, <2>1 DEF saveConfig
    <3>2. /\ instances'[work.id] \in Entries
          /\ instances'[work.id].instance = instances[work.id].instance
          /\ instances'[work.id].owner = instances[work.id].owner
          /\ \A id \in Ids : id # work.id => instances'[id] = instances[id]
      BY <2>0, <3>1 DEF TypeOK, Entries
    <3> QED
      BY <3>2, NilRecordAssumption DEF EntriesAreKept
  <2> QED
    BY <1>1, <2>1
<1>5. ASSUME NEW x \in Objects, registerApp(x) PROVE EntriesAreKept
  <2>1. idOf[x] \in Ids
    BY <1>5 DEF registerApp, TableAgrees, Ids
  <2>2. [instance |-> x, owner |-> "application", config |-> Nil] \in Entries
    BY DEF Entries
  <2> QED
    BY <1>5, <2>1, <2>2, RegisterKeepsEntries DEF registerApp
<1>6. ASSUME NEW x \in Objects, closeRemoves(x) PROVE EntriesAreKept
  BY <1>6, RemoveKeepsEntries DEF closeRemoves, TableAgrees
<1>7. CASE clear
  <2>1. \A x \in Objects : ~unfinished(x)
    BY <1>7 DEF clear, TableAgrees
  <2> QED
    BY <1>7, <2>1 DEF clear, TableAgrees, EntriesAreKept, unfinished, over, TypeOK, Entries
<1>8. ASSUME NEW r \in Requests, Handle(r) \/ cancel(r) \/ takesLock(r) PROVE instances' = instances
  BY <1>8 DEF Handle, cancel, takesLock, runNetworkInstance, patchConfig, closeWebInstances
<1>9. ASSUME NEW r \in Requests,
             \/ closeManagedInstanceResult(r) \/ createInstance(r) \/ start(r) \/ discard(r)
             \/ patchRPC(r) \/ readRPC(r) \/ closeNext(r)
      PROVE  instances' = instances
  BY <1>9 DEF closeManagedInstanceResult, createInstance, start, discard, patchRPC, readRPC, closeNext
<1>10. ASSUME NEW x \in Objects,
              \/ runEnds(x) \/ becomesRunning(x) \/ shutdownCloses(x) \/ discardApp(x)
              \/ Close(x) \/ closeReturns(x) \/ \E id \in AppIds : CreateInstance(x, id)
       PROVE  instances' = instances
  BY <1>10 DEF runEnds, becomesRunning, shutdownCloses, discardApp, Close, closeReturns,
               CreateInstance
<1>11. CASE timeout \/ HostClose \/ shutdownReactor
  BY <1>1, <1>11 DEF timeout, HostClose, shutdownReactor
<1> QED
  BY <1>1, <1>2, <1>3, <1>4, <1>5, <1>6, <1>7, <1>8, <1>9, <1>10, <1>11, Zenon
     DEF Next, requestStep

\* The table loses an entry only by the end of its instance, whatever closes,
\* replacements and removals overlap (action property).
THEOREM RunningInstancesStay == Spec => [][EntriesAreKept]_vars
<1>1. Spec => [][Next]_vars
  BY DEF Spec
<1> QED
  BY <1>1, Invariance, StepKeepsEntries, PTL

=============================================================================
