-------------------------- MODULE InstanceManager --------------------------
(***************************************************************************)
(* The table of instances: internal/host management.go and host.go.        *)
(*                                                                         *)
(* The application creates and closes instances through the public API.    *)
(* A configuration server does so through management requests, each in a   *)
(* goroutine of the reactor: run (which replaces, and restores what it     *)
(* could not replace), patch, retain and delete.  `mutations` serialises   *)
(* the requests; nothing serialises the application with them.  The lock   *)
(* `mu` protects single accesses of the table, which are single steps.     *)
(*                                                                         *)
(* The engine is what CreateInstance, Start, Close and RPC promise: see    *)
(* EngineHost, EngineCommands and EngineOperations.  An object is one      *)
(* engine instance; their number bounds how many instances exist at once,  *)
(* and a new one gets the least number that is not in use.  Requests are   *)
(* numbered as they arrive; a configuration is named after the request     *)
(* that brought it.  HostAPI has the requests that only read the table.    *)
(***************************************************************************)
EXTENDS Integers, FiniteSets

CONSTANTS
  WebIds,     \* identities that the configuration server assigns
  AppIds,     \* random identities; they bound the instances the application creates
  Objects,    \* numbers of engine instances
  Requests,   \* numbers of management requests
  CloseCalls, \* bound on the calls of Instance.Close in progress
  Nil

ASSUME IdsAssumption == WebIds \cap AppIds = {}
ASSUME NumbersAssumption == Objects \subseteq Nat /\ Requests \subseteq Nat
ASSUME NilAssumption == Nil \notin WebIds \cup AppIds \cup Objects \cup Requests

Ids == WebIds \cup AppIds

VARIABLES
  engine,        \* life of an object; "failed" has ended with a terminal error
  ran,           \* objects whose `running` channel is closed
  idOf,          \* the identity an object was created with
  config,        \* the configuration the guest runs an object with
  instances,     \* instanceManager.instances
  pc,            \* where a management request is
  mutations,     \* instanceManager.mutations: the request that holds it
  work,          \* local variables of that request
  ctxOver,       \* requests in progress whose context has ended
  timedOut,      \* the ten-second context of a restoration or read-back has ended
  used,          \* identities newInstanceUUID has made; none is made twice
  registering,   \* objects the application has created and not yet registered
  appClose,      \* Instance.Close calls of the application
  hostClosed,    \* engine.Host.closed
  reactorClosed, \* Reactor.Close: handlers are cancelled, new ones refused
  unsaved,       \* history: running objects patched without reading the result back
  left           \* history: objects that a Close with an ended context left in the table

engineVars == <<engine, ran, idOf, config>>
ctxVars    == <<ctxOver, timedOut>>
appVars    == <<used, registering, appClose>>
hostVars   == <<hostClosed, reactorClosed>>
historyVars == <<unsaved, left>>
vars == <<engineVars, instances, pc, mutations, work, ctxVars, appVars, hostVars, historyVars>>

Entries == [instance : Objects, owner : {"application", "web"}, config : Requests \cup {Nil}]

ASSUME NilRecordAssumption == Nil \notin Entries

\* runNetworkInstance closes, creates, starts, registers and discards;
\* patchConfig patches, reads and saves; closeWebInstances loops and closes.
Steps == {"none", "closing", "closed", "creating", "starting", "registering", "discarding",
          "patching", "reading", "saving", "looping"}

idleWork ==
  [step        |-> "none",
   id          |-> Nil,
   previous    |-> Nil,      \* the entry that is replaced or patched
   restoring   |-> FALSE,    \* in the second createWebInstance
   fresh       |-> Nil,      \* the object created and not yet registered
   closing     |-> Nil,      \* closeManagedInstance: instance,
   alreadyFailed |-> FALSE,  \*   alreadyFailed
   err         |-> FALSE,    \*   and err # nil
   todo        |-> {},       \* objects that closeWebInstances has not reached
   effective   |-> Nil]      \* the configuration read back

Works ==
  [step : Steps, id : Ids \cup {Nil}, previous : Entries \cup {Nil}, restoring : BOOLEAN,
   fresh : Objects \cup {Nil}, closing : Objects \cup {Nil}, alreadyFailed : BOOLEAN,
   err : BOOLEAN, todo : SUBSET Objects, effective : Requests \cup {Nil}]

TypeOK ==
  /\ engine \in [Objects -> {"none", "live", "closing", "ended", "failed"}]
  /\ ran \subseteq Objects
  /\ idOf \in [Objects -> Ids \cup {Nil}]
  /\ config \in [Objects -> Requests \cup {Nil}]
  /\ instances \in [Ids -> Entries \cup {Nil}]
  /\ pc \in [Requests -> {"idle", "waiting", "holding", "returned"}]
  /\ mutations \in Requests \cup {Nil}
  /\ work \in Works
  /\ ctxOver \subseteq Requests
  /\ timedOut \in BOOLEAN
  /\ used \subseteq AppIds
  /\ registering \in [Objects -> {"no", "created", "discarding"}]
  /\ appClose \in [Objects -> {"no", "closing", "removing"}]
  /\ hostClosed \in BOOLEAN /\ reactorClosed \in BOOLEAN
  /\ unsaved \subseteq Objects /\ left \subseteq Objects

over(x)       == engine[x] \in {"ended", "failed"}   \* `done` is closed
unfinished(x) == engine[x] \in {"live", "closing"}
webMade(x)    == config[x] # Nil                     \* the application's have no NetworkConfig
inTable(x)    == \E id \in Ids : instances[id] # Nil /\ instances[id].instance = x

-----------------------------------------------------------------------------
\* The engine.

\* An object that nothing refers to; the next instance may use its name.
free(x) ==
  \/ engine[x] = "none"
  \/ /\ over(x) /\ ~inTable(x)
     /\ registering[x] = "no" /\ appClose[x] = "no"
     /\ x \notin work.todo \cup {work.closing, work.fresh}
     /\ work.previous # Nil /\ work.previous.instance = x => work.step = "creating"

\* CreateInstance of the engine for identity id; it is refused once the host is closed.
createObject(x, id, cfg) ==
  /\ ~hostClosed
  /\ free(x) /\ \A y \in Objects : y < x => ~free(y)
  /\ engine' = [engine EXCEPT ![x] = "live"]
  /\ ran' = ran \ {x}
  /\ idOf' = [idOf EXCEPT ![x] = id]
  /\ config' = [config EXCEPT ![x] = cfg]
  /\ unsaved' = unsaved \ {x} /\ left' = left \ {x}

\* What Instance.Close of the engine does before it waits.
closeObject(x) == [engine EXCEPT ![x] = IF @ = "live" THEN "closing" ELSE @]

\* The drive loop ends: with or without an error after a Close, with an error
\* of its own otherwise.
runEnds(x) ==
  /\ \/ engine[x] = "closing" /\ engine' = [engine EXCEPT ![x] = "ended"]
     \/ unfinished(x) /\ engine' = [engine EXCEPT ![x] = "failed"]
  /\ config' = [config EXCEPT ![x] = Nil] /\ unsaved' = unsaved \ {x}
  /\ UNCHANGED <<ran, idOf, instances, pc, mutations, work, ctxVars, appVars, hostVars, left>>

\* The guest reports that a started object runs.
becomesRunning(x) ==
  /\ engine[x] = "live"
  /\ work.step = "starting" /\ work.fresh = x
  /\ ran' = ran \cup {x}
  /\ UNCHANGED <<engine, idOf, config, instances, pc, mutations, work, ctxVars, appVars,
                 hostVars, historyVars>>

-----------------------------------------------------------------------------
\* The table.

register(id, entry) ==
  IF instances[id] = Nil THEN [instances EXCEPT ![id] = entry] ELSE instances

\* removing by identity takes the replacement out as well
Bug_remove(x) ==
  [id \in Ids |-> IF id = idOf[x] THEN Nil ELSE instances[id]]

remove(x) ==
  [id \in Ids |-> IF instances[id] # Nil /\ instances[id].instance = x
                  THEN Nil ELSE instances[id]]

leave(x) == IF inTable(x) THEN left \cup {x} ELSE left

-----------------------------------------------------------------------------
\* A management request: arrival, the lock, its contexts, its end.

Handle(r) ==
  /\ pc[r] = "idle" /\ ~reactorClosed
  /\ \A q \in Requests : q < r => pc[q] # "idle"
  /\ pc' = [pc EXCEPT ![r] = "waiting"]
  /\ UNCHANGED <<engineVars, instances, mutations, work, ctxVars, appVars, hostVars,
                 historyVars>>

\* The request is cancelled: its web client is dropped, or it is finished early.
cancel(r) ==
  /\ pc[r] \in {"waiting", "holding"} /\ r \notin ctxOver
  /\ ctxOver' = ctxOver \cup {r}
  /\ UNCHANGED <<engineVars, instances, pc, mutations, work, timedOut, appVars, hostVars, historyVars>>

\* a context without the timeout
Bug_timeout == FALSE /\ UNCHANGED vars

\* context.WithTimeout(..., 10*time.Second)
timeout ==
  /\ ~timedOut
  /\ work.restoring \/ work.step = "reading"
  /\ timedOut' = TRUE
  /\ UNCHANGED <<engineVars, instances, pc, mutations, work, ctxOver, appVars, hostVars, historyVars>>

\* Err() of the context that createWebInstance was given
ctxEnded(r) == IF work.restoring THEN timedOut ELSE r \in ctxOver

locks(r) == pc[r] = "waiting" /\ mutations = Nil

enter(r, w) ==
  /\ mutations' = r
  /\ pc' = [pc EXCEPT ![r] = "holding"]
  /\ work' = w

holds(r, step) == mutations = r /\ work.step = step

proceed(w) == work' = w /\ UNCHANGED <<pc, mutations>>

\* The deferred Unlock and cancel.
return(r) ==
  /\ mutations' = Nil
  /\ pc' = [pc EXCEPT ![r] = "returned"]
  /\ work' = idleWork
  /\ ctxOver' = ctxOver \ {r} /\ timedOut' = FALSE

-----------------------------------------------------------------------------
\* runNetworkInstance, up to the decision about the previous instance.

runNetworkInstance(r, id, overwrite) ==
  LET previous == instances[id]
      x == previous.instance IN
  /\ locks(r)
  /\ \/ /\ previous = Nil
        /\ enter(r, [idleWork EXCEPT !.step = "creating", !.id = id])
        /\ UNCHANGED <<engine, ctxVars>>
     \/ \* read-only, or already running
        /\ previous # Nil
        /\ previous.owner # "web" \/ (~overwrite /\ engine[x] # "failed")
        /\ return(r)
        /\ UNCHANGED engine
     \/ /\ previous # Nil /\ previous.owner = "web"
        /\ overwrite \/ engine[x] = "failed"
        /\ enter(r, [idleWork EXCEPT !.step = "closing", !.id = id, !.previous = previous,
                                     !.closing = x, !.alreadyFailed = engine[x] = "failed"])
        /\ engine' = closeObject(x)
        /\ UNCHANGED ctxVars
  /\ UNCHANGED <<ran, idOf, config, instances, appVars, hostVars, historyVars>>

\* Instance.Close inside closeManagedInstance: the wait, and the removal
\* unless the context has ended.
closeManagedInstance(r) ==
  /\ holds(r, "closing")
  /\ \E err \in BOOLEAN :
       /\ \/ over(work.closing) /\ err = (engine[work.closing] = "failed")
          \/ r \in ctxOver /\ err
       /\ proceed([work EXCEPT !.step = "closed", !.err = err])
  /\ IF r \in ctxOver THEN UNCHANGED instances ELSE instances' = remove(work.closing)
  /\ left' = IF r \in ctxOver THEN leave(work.closing) ELSE left \ {work.closing}
  /\ UNCHANGED <<engineVars, ctxVars, appVars, hostVars, unsaved>>

\* An earlier terminal error is forgiven, any other error ends the request.
closeManagedInstanceResult(r) ==
  /\ holds(r, "closed")
  /\ IF work.err /\ ~(work.alreadyFailed /\ r \notin ctxOver)
     THEN return(r)
     ELSE /\ proceed([work EXCEPT !.step = IF work.previous = Nil THEN "looping" ELSE "creating",
                                  !.closing = Nil, !.alreadyFailed = FALSE, !.err = FALSE])
          /\ UNCHANGED ctxVars
  /\ UNCHANGED <<engineVars, instances, appVars, hostVars, historyVars>>

-----------------------------------------------------------------------------
\* createWebInstance, for the new configuration and for the restoration.

newConfig(r) == IF work.restoring THEN work.previous.config ELSE r

\* What a failed createWebInstance leads to: the restoration of the previous
\* entry, once, under a context of its own.
createFailed(r) ==
  IF work.previous # Nil /\ ~work.restoring
  THEN /\ proceed([work EXCEPT !.step = "creating", !.restoring = TRUE, !.fresh = Nil])
       /\ UNCHANGED ctxVars
  ELSE return(r)

createInstance(r) ==
  /\ holds(r, "creating")
  /\ \/ \E x \in Objects :
          /\ createObject(x, work.id, newConfig(r))
          /\ proceed([work EXCEPT !.step = "starting", !.fresh = x])
          /\ UNCHANGED ctxVars
     \/ createFailed(r) /\ UNCHANGED <<engineVars, historyVars>>
  /\ UNCHANGED <<instances, appVars, hostVars>>

\* Start returns: nil only if the object has run; an error when the context
\* or the object has ended, when a Close was requested, or when the guest refuses.
start(r) ==
  LET x == work.fresh IN
  /\ holds(r, "starting")
  /\ \/ x \in ran /\ proceed([work EXCEPT !.step = "registering"]) /\ UNCHANGED engine
     \/ /\ ctxEnded(r) \/ over(x) \/ x \notin ran
        /\ proceed([work EXCEPT !.step = "discarding"])
        /\ engine' = closeObject(x)
  /\ UNCHANGED <<ran, idOf, config, instances, ctxVars, appVars, hostVars, historyVars>>

registerWeb(r) ==
  LET x == work.fresh
      entry == [instance |-> x, owner |-> "web", config |-> newConfig(r)] IN
  /\ holds(r, "registering")
  /\ instances' = register(work.id, entry)
  /\ IF instances[work.id] = Nil
     THEN return(r) /\ UNCHANGED engine
     ELSE /\ proceed([work EXCEPT !.step = "discarding"])
          /\ engine' = closeObject(x)
          /\ UNCHANGED ctxVars
  /\ UNCHANGED <<ran, idOf, config, appVars, hostVars, historyVars>>

\* runtime.Close(WithoutCancel(ctx)) has returned.
discard(r) ==
  /\ holds(r, "discarding")
  /\ over(work.fresh)
  /\ createFailed(r)
  /\ UNCHANGED <<engineVars, instances, appVars, hostVars, historyVars>>

-----------------------------------------------------------------------------
\* patchConfig.

patchConfig(r, id) ==
  LET entry == instances[id] IN
  /\ locks(r)
  /\ IF entry = Nil \/ (entry # Nil /\ entry.owner # "web")
     THEN return(r)
     ELSE /\ enter(r, [idleWork EXCEPT !.step = "patching", !.id = id, !.previous = entry])
          /\ UNCHANGED ctxVars
  /\ UNCHANGED <<engineVars, instances, appVars, hostVars, historyVars>>

\* a patch that reports an error is returned at once
Bug_patchRPC(r) ==
  LET x == work.previous.instance IN
  /\ holds(r, "patching")
  /\ \/ engine[x] = "live" /\ config' = [config EXCEPT ![x] = r]
     \/ UNCHANGED config
  /\ IF r \in ctxOver
     THEN return(r)
     ELSE proceed([work EXCEPT !.step = "reading"]) /\ UNCHANGED ctxVars
  /\ UNCHANGED <<engine, ran, idOf, instances, appVars, hostVars, historyVars>>

\* The PatchConfig RPC: the guest applies the patch or not.  The call reports
\* an error in either case when its context has ended; the error does not
\* change what happens next.
patchRPC(r) ==
  LET x == work.previous.instance IN
  /\ holds(r, "patching")
  /\ \/ engine[x] = "live" /\ config' = [config EXCEPT ![x] = r]
     \/ UNCHANGED config
  /\ proceed([work EXCEPT !.step = "reading"])
  /\ UNCHANGED <<engine, ran, idOf, instances, ctxVars, appVars, hostVars, historyVars>>

\* The GetConfig RPC, under WithoutCancel and ten seconds.
readRPC(r) ==
  LET x == work.previous.instance IN
  /\ holds(r, "reading")
  /\ \/ /\ engine[x] = "live"
        /\ proceed([work EXCEPT !.step = "saving", !.effective = config[x]])
        /\ UNCHANGED <<ctxVars, unsaved>>
     \/ return(r) /\ unsaved' = IF unfinished(x) THEN unsaved \cup {x} ELSE unsaved
  /\ UNCHANGED <<engineVars, instances, appVars, hostVars, left>>

\* The snapshot is stored unless the entry has left the table.
saveConfig(r) ==
  LET x == work.previous.instance IN
  /\ holds(r, "saving")
  /\ IF instances[work.id] # Nil /\ instances[work.id].instance = x
     THEN /\ instances' = [instances EXCEPT ![work.id].config = work.effective]
          /\ unsaved' = unsaved \ {x}
     ELSE UNCHANGED <<instances, unsaved>>
  /\ return(r)
  /\ UNCHANGED <<engineVars, appVars, hostVars, left>>

-----------------------------------------------------------------------------
\* retainNetworkInstances and deleteNetworkInstances: they close the web
\* instances with certain identities, as a snapshot of the table has them.

closeWebInstances(r, closed) ==
  /\ locks(r)
  /\ enter(r, [idleWork EXCEPT
       !.step = "looping",
       !.todo = {instances[id].instance :
                   id \in {i \in closed : instances[i] # Nil /\ instances[i].owner = "web"}}])
  /\ UNCHANGED <<engineVars, instances, ctxVars, appVars, hostVars, historyVars>>

closeNext(r) ==
  /\ holds(r, "looping")
  /\ \/ \E x \in work.todo :
          /\ proceed([work EXCEPT !.step = "closing", !.closing = x, !.todo = @ \ {x},
                                  !.alreadyFailed = engine[x] = "failed"])
          /\ engine' = closeObject(x)
          /\ UNCHANGED ctxVars
     \/ work.todo = {} /\ return(r) /\ UNCHANGED engine
  /\ UNCHANGED <<ran, idOf, config, instances, appVars, hostVars, historyVars>>

-----------------------------------------------------------------------------
\* The application.

\* Host.CreateInstance, with a random identity.
CreateInstance(x, id) ==
  /\ id \notin used /\ used' = used \cup {id}
  /\ createObject(x, id, Nil)
  /\ registering' = [registering EXCEPT ![x] = "created"]
  /\ UNCHANGED <<instances, pc, mutations, work, ctxVars, appClose, hostVars>>

registerApp(x) ==
  LET id == idOf[x] IN
  /\ registering[x] = "created"
  /\ instances' = register(id, [instance |-> x, owner |-> "application", config |-> Nil])
  /\ IF instances[id] = Nil
     THEN registering' = [registering EXCEPT ![x] = "no"] /\ UNCHANGED engine
     ELSE /\ registering' = [registering EXCEPT ![x] = "discarding"]
          /\ engine' = closeObject(x)
  /\ UNCHANGED <<ran, idOf, config, pc, mutations, work, ctxVars, used, appClose, hostVars,
                 historyVars>>

discardApp(x) ==
  /\ registering[x] = "discarding" /\ over(x)
  /\ registering' = [registering EXCEPT ![x] = "no"]
  /\ UNCHANGED <<engineVars, instances, pc, mutations, work, ctxVars, used, appClose,
                 hostVars, historyVars>>

\* Instance.Close on an instance that Instances() has returned: the request,
\* the return by `done`, and the removal from the table.
Close(x) ==
  /\ Cardinality({y \in Objects : appClose[y] # "no"}) < CloseCalls
  /\ appClose[x] = "no" /\ inTable(x)
  /\ appClose' = [appClose EXCEPT ![x] = "closing"]
  /\ engine' = closeObject(x)
  /\ UNCHANGED <<ran, idOf, config, instances, pc, mutations, work, ctxVars,
                 used, registering, hostVars, historyVars>>

closeReturns(x) ==
  /\ appClose[x] = "closing"
  /\ \/ over(x) /\ appClose' = [appClose EXCEPT ![x] = "removing"] /\ UNCHANGED left
     \/ \* the context has ended
        appClose' = [appClose EXCEPT ![x] = "no"] /\ left' = leave(x)
  /\ UNCHANGED <<engineVars, instances, pc, mutations, work, ctxVars, used, registering,
                 hostVars, unsaved>>

\* the entry is taken out only before the wait
Bug_closeRemoves(x) ==
  /\ appClose[x] = "removing"
  /\ appClose' = [appClose EXCEPT ![x] = "no"]
  /\ UNCHANGED <<engineVars, instances, pc, mutations, work, ctxVars, used, registering,
                 hostVars, historyVars>>

closeRemoves(x) ==
  /\ appClose[x] = "removing"
  /\ appClose' = [appClose EXCEPT ![x] = "no"]
  /\ instances' = remove(x)
  /\ left' = left \ {x}
  /\ UNCHANGED <<engineVars, pc, mutations, work, ctxVars, used, registering, hostVars,
                 unsaved>>

-----------------------------------------------------------------------------
\* Host.Close: the engine stops creating, closes every instance, then the
\* reactor, which cancels the handlers and waits for them; then the table.

HostClose ==
  /\ ~hostClosed
  /\ hostClosed' = TRUE
  /\ UNCHANGED <<engineVars, instances, pc, mutations, work, ctxVars, appVars,
                 reactorClosed, historyVars>>

shutdownCloses(x) ==
  /\ hostClosed /\ engine[x] = "live"
  /\ engine' = closeObject(x)
  /\ UNCHANGED <<ran, idOf, config, instances, pc, mutations, work, ctxVars, appVars,
                 hostVars, historyVars>>

shutdownReactor ==
  /\ hostClosed /\ ~reactorClosed
  /\ \A x \in Objects : ~unfinished(x)
  /\ reactorClosed' = TRUE
  /\ ctxOver' = ctxOver \cup {r \in Requests : pc[r] \in {"waiting", "holding"}}
  /\ UNCHANGED <<engineVars, instances, pc, mutations, work, timedOut, appVars, hostClosed,
                 historyVars>>

clear ==
  /\ reactorClosed
  /\ \A r \in Requests : pc[r] \in {"idle", "returned"}
  /\ \E id \in Ids : instances[id] # Nil
  /\ instances' = [id \in Ids |-> Nil]
  /\ UNCHANGED <<engineVars, pc, mutations, work, ctxVars, appVars, hostVars, historyVars>>

-----------------------------------------------------------------------------
Init ==
  /\ engine = [x \in Objects |-> "none"] /\ ran = {}
  /\ idOf = [x \in Objects |-> Nil] /\ config = [x \in Objects |-> Nil]
  /\ instances = [id \in Ids |-> Nil]
  /\ pc = [r \in Requests |-> "idle"] /\ mutations = Nil /\ work = idleWork
  /\ ctxOver = {} /\ timedOut = FALSE
  /\ used = {} /\ registering = [x \in Objects |-> "no"] /\ appClose = [x \in Objects |-> "no"]
  /\ hostClosed = FALSE /\ reactorClosed = FALSE
  /\ unsaved = {} /\ left = {}

requestStep(r) ==
  \/ closeManagedInstance(r) \/ closeManagedInstanceResult(r)
  \/ createInstance(r) \/ start(r) \/ registerWeb(r) \/ discard(r)
  \/ patchRPC(r) \/ readRPC(r) \/ saveConfig(r) \/ closeNext(r)

takesLock(r) ==
  \/ \E id \in WebIds \cup used, overwrite \in BOOLEAN : runNetworkInstance(r, id, overwrite)
  \/ \E id \in WebIds \cup used : patchConfig(r, id)
  \/ \E closed \in SUBSET Ids : closeWebInstances(r, closed)

Next ==
  \/ \E r \in Requests : Handle(r) \/ cancel(r) \/ takesLock(r) \/ requestStep(r)
  \/ timeout
  \/ \E x \in Objects :
       \/ runEnds(x) \/ becomesRunning(x) \/ shutdownCloses(x)
       \/ registerApp(x) \/ discardApp(x)
       \/ Close(x) \/ closeReturns(x) \/ closeRemoves(x)
       \/ \E id \in AppIds : CreateInstance(x, id)
  \/ HostClose \/ shutdownReactor \/ clear

Spec == Init /\ [][Next]_vars

\* A handler runs on unless it waits for the guest: a Start that has neither
\* run nor ended, or an RPC without an answer, may wait until its context ends.
waitsForGuest(r) ==
  \/ holds(r, "starting") /\ ~(work.fresh \in ran \/ over(work.fresh) \/ ctxEnded(r))
  \/ holds(r, "patching") /\ ~(over(work.previous.instance) \/ r \in ctxOver)
  \/ holds(r, "reading") /\ ~(over(work.previous.instance) \/ timedOut)

\* Go runs every goroutine that can run, mutations is handed on to a waiter
\* (sync.Mutex does not starve), timers fire, a drive loop that was asked to
\* close ends (EngineHost's CloseTerminates), and Host.Close's goroutine goes on.
Fairness ==
  /\ \A r \in Requests :
       /\ WF_vars(~waitsForGuest(r) /\ requestStep(r))
       /\ SF_vars(takesLock(r))
  /\ WF_vars(timeout)
  /\ \A x \in Objects :
       /\ WF_vars(engine[x] = "closing" /\ runEnds(x))
       /\ WF_vars(shutdownCloses(x))
  /\ WF_vars(shutdownReactor)

FairSpec == Spec /\ Fairness

-----------------------------------------------------------------------------
\* Two instances that the configuration server created under one identity do
\* not run at the same time: a replacement waits for the end of what it
\* replaces, a restoration for the end of the failed replacement.
OneRunsPerId ==
  \A x, y \in Objects :
    webMade(x) /\ webMade(y) /\ unfinished(x) /\ unfinished(y) /\ idOf[x] = idOf[y] => x = y

\* No instance runs out of reach: it is in the table, or the call that created
\* it has not returned.  Cancelled closes and removals that come late (after
\* the instance was replaced) are the hard cases.
NoneOutOfReach ==
  \A x \in Objects : unfinished(x) => inTable(x) \/ work.fresh = x \/ registering[x] # "no"

\* The goroutines refer to objects that exist, and to what they took them for: an
\* object in the table has the identity it is listed under, the application's are
\* not patched, and one that is being registered is the application's, which
\* nobody but Host.Close has closed so far.
TableAgrees ==
  /\ \A id \in Ids :
       instances[id] # Nil =>
         LET x == instances[id].instance IN
         /\ engine[x] # "none" /\ idOf[x] = id /\ registering[x] = "no"
         /\ instances[id].owner = "application" => ~webMade(x)
         /\ instances[id].owner = "web" =>
              instances[id].config # Nil /\ (unfinished(x) => webMade(x))
         /\ engine[x] = "closing" =>
              hostClosed \/ x \in left \/ appClose[x] # "no" \/ work.closing = x
  /\ \A x \in Objects :
       /\ registering[x] # "no" => engine[x] # "none" /\ idOf[x] \in AppIds /\ ~webMade(x)
       /\ registering[x] = "created" /\ engine[x] \in {"closing", "ended"} => hostClosed
       /\ appClose[x] # "no" => engine[x] # "none"
       /\ appClose[x] = "removing" => over(x)
  /\ reactorClosed => hostClosed /\ \A x \in Objects : ~unfinished(x)

\* an object that a request still refers to, and that nobody can replace
kept(x) == engine[x] # "none" /\ registering[x] = "no"

\* From its decision on, a request that runs an instance is the only one to have
\* one under that identity: what the server made is being closed or is its own.
replacing == work.step \in {"creating", "starting", "registering", "discarding"} \/
             (work.step \in {"closing", "closed"} /\ work.previous # Nil)
aloneUnderId ==
  \A y \in Objects :
    webMade(y) /\ unfinished(y) /\ idOf[y] = work.id => y \in {work.fresh, work.closing}

\* The local variables of the request that holds `mutations` are those of the
\* place where it is.  The hard parts: a Close that goes on to a creation has
\* seen the end of what it closed, and one that has given up has left a mark;
\* a new object is in no table and is closed by nobody else but Host.Close; what
\* was read back is still what the guest runs.
RequestAgrees ==
  /\ mutations = Nil => work = idleWork
  /\ work.fresh # Nil <=> work.step \in {"starting", "registering", "discarding"}
  /\ work.closing # Nil <=> work.step \in {"closing", "closed"}
  /\ work.restoring => work.previous # Nil
  /\ work.previous # Nil => work.previous.config # Nil /\ work.step # "looping"
  /\ work.step \in {"patching", "reading", "saving"} =>
       LET x == work.previous.instance IN
       /\ work.previous # Nil /\ work.id \in Ids
       /\ kept(x) /\ idOf[x] = work.id /\ (unfinished(x) => webMade(x))
       /\ work.step = "saving" => /\ work.effective # Nil
                                  /\ engine[x] = "live" => work.effective = config[x]
  /\ \A x \in work.todo : kept(x)
  /\ work.closing # Nil => kept(work.closing)
  /\ work.step = "closed" =>
       /\ over(work.closing) \/ (work.err /\ mutations \in ctxOver)
       /\ inTable(work.closing) => work.closing \in left
  /\ work.fresh # Nil =>
       /\ kept(work.fresh) /\ idOf[work.fresh] = work.id /\ ~inTable(work.fresh)
       /\ unfinished(work.fresh) => webMade(work.fresh)
       /\ work.step \in {"starting", "registering"} =>
            /\ engine[work.fresh] = "live" => config[work.fresh] = newConfig(mutations)
            /\ engine[work.fresh] \in {"closing", "ended"} => hostClosed
  /\ replacing => work.id \in Ids /\ aloneUnderId

\* One instance per identity, and all of them within reach.
Consistent == TypeOK /\ OneRunsPerId /\ NoneOutOfReach /\ TableAgrees /\ RequestAgrees

\* What the table has saved for a running instance of the configuration server
\* is what the guest runs it with, patches that reported an error and restored
\* instances included, unless the result of a patch could not be read back: a
\* later restoration would start from what is saved.
SavedIsEffective ==
  \A id \in Ids :
    LET entry == instances[id] IN
    entry # Nil /\ entry.owner = "web" =>
      LET x == entry.instance IN
      \/ engine[x] # "live" \/ x \in unsaved
      \/ work.step \in {"reading", "saving"} /\ work.previous.instance = x
      \/ entry.config = config[x]

\* An instance that has ended without an error is in the table for a reason: a
\* Close of it has yet to take it out, had an ended context, or is the host's.
\* (Such an entry counts as running: a request to run it returns at once.)  And
\* what is registered after a concurrent Host.Close has cleared the table has
\* ended, so no instance is out of reach of the Close.
EntriesAreAlive ==
  \A id \in Ids :
    instances[id] # Nil =>
      LET x == instances[id].instance IN
      /\ engine[x] = "ended" => hostClosed \/ x \in left \/ appClose[x] # "no" \/ work.closing = x
      /\ reactorClosed => over(x)

\* No cancelled request keeps `mutations`, wherever it was when it was
\* cancelled: the parts that ignore the cancellation (discarding a new
\* instance, restoring the old one, reading a patch back) end by themselves.
\* And after Host.Close has begun every request ends.
RequestsEnd ==
  /\ []<>(mutations \notin ctxOver)
  /\ hostClosed ~> (reactorClosed /\ \A r \in Requests : pc[r] \in {"idle", "returned"})

=============================================================================
