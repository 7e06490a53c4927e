# EasyTier Go host: TLA+ models, checks and proofs

The repository is a Go program that runs the EasyTier core, a WebAssembly guest,
and gives it the outside world: sockets, DNS, packets, timers, management. The guest
is single threaded and never blocks; everything that takes time is an *operation* of
the host. It is started under an id the guest chooses, a goroutine does the work,
a *completion token* wakes the guest, and the guest takes the result. Most of what can
go wrong lies between these steps, and this directory models them.

## The system

| Part | State | Operations | Talks to |
|---|---|---|---|
| `internal/reactor` reactor.go | `operations` (id to kind), `completions` (a channel of one token), `closed`, `workers` | `CancelOperation`, `CloseHandle`, `Close`, `signalCompletion` | every part of the reactor; the broadcast goroutine of the engine |
| reactor/stream.go | per connection: read running, stored result, queue of waiters, queue of writes, write running | `StartRead`/`TakeRead`, `StartWrite`/`TakeWrite` | `net.Conn` |
| reactor/udp.go | per socket: received datagrams, receive worker, send queue and worker, sticky send error | `StartUDPReceive`/`TakeUDPReceive`, `TryUDPSend`, `StartUDPSendReady`/`TakeUDPSendReady` | `net.PacketConn` |
| reactor/factory.go, listener.go | creates in progress with their contexts; per listener accepted connections and an accept worker | `StartTCPConnect`, `StartUDPBind`, `StartTCPListen`, `StartTCPAccept` and their `Take` | `platform.Sockets`, `net.Listener` |
| reactor/dns.go, environment.go, management.go | questions in progress with their contexts | start, look at the result, finish | resolver, environment, the instance manager |
| reactor/packet.go, event.go | per sink: bounded queue, token, closed channel | `TryPacketWrite`, `StartPacketWriteReady`, `ReceivePacket` | the embedding program |
| `internal/hostabi` | none but a cipher cache | imports of the guest: memory and wire formats to reactor calls and back | guest, reactor |
| `internal/coreabi` | scratch buffers in guest memory | exports of the guest | guest, engine |
| `internal/engine` instance.go, dataplane.go, rpc.go | per instance: command channels, pending operations and RPCs, deadline, `closeRequested`, `done` | one driver goroutine; `performOperation`, `RPC`, `SendPacket`, `Start`, `Stop`, `Close` | host (locks), core ABI |
| engine/host.go, web_client.go | instances, web client, `mu`, `guestMu`, `closed` | create, close, broadcast of completions | reactor, drivers |
| `internal/host` management.go, host.go | table of instances under `mu`, changes under `mutations` | register, replace, patch, retain, delete, clear | engine; called by the reactor's management operation |
| `internal/host` instance_config*.go | a builder | validate, build, encode | none |
| `platform`, `netstd` | none | interfaces and their `net` implementation | operating system |

Three locks order everything: `reactor.mu` (short critical sections, never held during a
platform call), `engine.Host.guestMu` (the guest is being called; it may call into the
reactor), `engine.Host.mu` (the table of instances; held while waiting for `guestMu`).

What is hard here: goroutines inside `Read`, `Write`, `ReadFrom`, `Accept`, dials and
lookups return after the operation was cancelled, its id reused, its handle closed or the
reactor shut down; tokens collapse, so a result without a token of its own must be covered
by another one; workers stop at limits and somebody must restart them; `Close` must unblock
and join all of it. In the engine, callers give up while their operation is being
submitted, completed or cancelled, and the driver may fail between any two steps; creations
hold one lock while they wait for another; tokens are raised for instances that are not in
the table yet. The instance manager keeps a lock over calls that may take for ever, undoes
what failed half way, and shares its table with an application that no lock holds back.
PROJECT.json lists these hazards at their lines, with the properties that watch them.

## Modules

State machines:

| Module | Models | Status |
|---|---|---|
| `ReactorCore` | what all reactor parts share: ids, kinds, the token, pending `signalCompletion` calls, which ids the guest is waiting for | used by the next five |
| `HostOperations` | the abstract reactor: an id asks one question, which gets at most one answer of its own that does not change until it is released | implemented by `ReactorQuery` and `ReactorSockets`, used by `HostABI` |
| `ReactorStream`, `ReactorStreamProofs` | stream.go, `CloseHandle` and `Close` for streams | checked, proved |
| `ReactorDatagram` | udp.go, with sockets that drain after `CloseHandle` | checked, proved in `ReactorPacketProofs` |
| `ReactorSockets`, `ReactorSocketsProofs` | factory.go and listener.go | checked and proved, refinement included |
| `ReactorQuery`, `ReactorQueryProofs` | dns.go, environment.go, management.go | checked and proved, refinement included |
| `ReactorPacket`, `ReactorPacketProofs` | packet.go | checked, proved |
| `HostABI` | the imports of the guest (`hostabi` but its wire formats): memory, statuses, what the guest concludes from them | checked, proved in `ReactorQueryProofs` |
| `CoreABI` | the exports of the guest as `coreabi` calls them: buffers in guest memory, two-step results, failures at every point | checked, proved in `EngineHostProofs` |
| `EngineOperations`, `EngineOperationsProofs` | `performOperation`, `cancelAndWait`, `RPC`, `freeRPCAndWait` against the driver loop | checked, proved |
| `EngineCommands`, `EngineCommandsProofs` | `Start`, `Stop`, `Wait`, `SendPacket`, `execute`, `handlePacketBatch` against the driver loop | checked, proved |
| `EngineConn` | conn.go, listener.go, packet_conn.go, and `CloseResource` and `SetDeadline` of dataplane.go | checked, proved in `EngineOperationsProofs` |
| `EngineHost`, `EngineHostProofs` | host.go, web_client.go and the life of an instance: two locks, tokens, sinks, shutdown | checked, proved |
| `InstanceManager`, `InstanceManagerProofs` | management.go and the parts of `internal/host` host.go that change the table | checked, proved |

Functions, each checked on all small inputs by the ASSUMEs of an MC module:

| Module | Models | Checked by |
|---|---|---|
| `CoreWire` | dataplane_wire.go, error and operation kinds of dataplane.go | `MCCoreABI` |
| `HostWire` | socket_wire.go, udp_wire.go, dns_wire.go, checks of event.go, packet.go, udp.go | `MCHostABI` |
| `NetStd` | platform/netstd: which socket options and networks a request becomes, per platform | `MCHostABI` |
| `CipherCache` | crypto.go: cache of ciphers, bounds in guest memory | `MCHostABI` |
| `EngineErrors` | timeouts, timers and errors of dataplane.go, instance.go and the connections | `MCEngineConn` |
| `EngineConfig` | `New`, `NewHost`, `ConnectWebClient`, the envelopes of config.go, `WithoutCancel` | `MCEngineHost` |
| `EngineEvents` | event sinks (event.go), the journal and the channel of events | `MCEngineHost` |
| `InstanceConfig` | the builder of a configuration, its validation and its TOML text | `MCInstanceConfig`, through `MCInstanceManager` |
| `HostAPI` | sockets and queries of `internal/host`, identities, RPC deadlines, patches | `MCInstanceManager` |

Each run has an `MC` module of the name of its state machine.

### Conventions

*One critical section, one action.* Everything between `mu.Lock()` and `mu.Unlock()` is one
action. What a function does after its unlock (signal, cancel a context, close a socket) is
recorded as due and done by a later action, so that other goroutines come in between.
A platform call is two actions, its start being part of the action that launched the
goroutine; the environment decides when it returns, and with what.

*Several goroutines about to signal* are merged into the boolean `signalDue`: their only
effect is `completion := TRUE`, which is idempotent, so nothing observable depends on how
many there are.

*The guest* starts, takes, cancels and closes as it likes, under any free id. It is
`parked` on an id after a start, or after a `Take` that answered `ErrPending`, and looks
again only when notified. `NotifyGuest` consumes the token and unparks all ids, as
`drive(true)` does with `NotifyCompletions`. The safety properties do not depend on the guest
being well behaved; the liveness properties that need a guest state it in their fairness.

*Addresses.* Go compares pointers to tell an operation from its successor under the same
id (`reactor.creates[operation] != create`). The models give each id a few addresses and
reuse one only when nothing refers to it any more, as the garbage collector does.

*Data.* A byte stream is the sequence 1, 2, 3, ...: the guest must have received a prefix of
it. A datagram or packet is its number. Errors are told apart only where the code does.

*Operators named `Bug_...`* are variants of the definition that follows them, each with one
plausible mistake. Nothing uses them in the specifications; PROJECT.json pairs each with the
property that TLC finds violated once the variant takes the definition's place. They show
that the properties can fail.

### Correspondence

Definitions keep the names of the Go functions and fields (`prepareStreamReadLocked`,
`receiveRunning`, `closeNow`); the map in PROJECT.json gives the lines. In short:

- *ReactorStream*: `StartRead`, `runStreamRead`, `TakeRead`, `CancelRead`, `StartWrite`,
  `beginWrite`/`finishWrite`/`exitWrites` (the loop of `runStreamWrites`), `TakeWrite`,
  `CancelWrite`, `CloseHandle`, `Close`. History variables hold what was delivered.
- *ReactorDatagram*: the send worker is a small process (`takeSend`, `tellRoom`, `WriteTo`,
  `closeSocket`, `finishUDPSends`), because it takes from its channel outside the lock.
- *ReactorSockets*: a socket is unborn, open or closed, and is at any time in at most one
  place: a create, a backlog, a table, or somebody's hands on the way to `Close`.
- *ReactorQuery*: the three services have the same shape; they differ in whether a result is
  taken at once or looked at and finished.
- *ReactorPacket*: a receiver runs the loop of `ReceivePacket`: check under the lock, sleep on
  four channels, check again.
- *EngineOperations*: one state per `select` of the caller; the driver receives a command,
  handles it and drives in one further step, which nobody can observe half done. A failing
  guest makes `drive` fail at any point, with some completions already handed out.
- *EngineCommands*: the selects of `execute` are states of the caller; the driver takes a
  batch, hands its packets over one by one, drives and answers, and then serves the command it
  met behind the packets. Which `select` heeds the context is an operator of its own
  (`heedsContext`), because the promise to the packet's owner hangs on it.
- *EngineHost*: instances and the web client are *users* of the guest. A creation holds `mu`
  from its check of `closed` to its entry in the table, through the guest call; `drive` and
  `shutdown` hold one lock at a time. The reactor is abstract: a user has an operation under
  way, or a completed one it was not told about.
- *EngineConn*: three goroutines share one connection of any kind. A caller asks, the driver
  submits, the guest answers, the caller receives; a closing instance lets it leave at each of
  these points while its operation goes on. Deadlines are armed, expire and are cleared.
- *CoreABI*: a method is a function from a state to the states it may return in, written in the
  order of the Go code with its deferred frees, so that "an error here" is one operator (`Then`)
  and not a variant of each action. What the callers in `internal/engine` know is kept beside
  what the guest holds, and the difference is what the properties are about.
- *HostABI*: one action per import, with the memory arguments good or bad. The guest's
  knowledge is `awaiting`, changed by the returned status only. A take function of another kind is
  an action of its own, twice: the three for names share `DNSResult`, which releases a failed lookup
  whoever asks (`takeOtherDNS`). What happens under the guest is `closeHandle`, which settles
  operations at the socket and disposes of what it had stored, `UnregisterPacketSink` and
  `ReactorCloses`. Which socket an operation waits at is left open: closing one settles any
  subset of the operations of its kinds.
- *InstanceManager*: the local variables of the request that holds `mutations` are the record
  `work`; its `step` says where in `runNetworkInstance`, `createWebInstance`, `patchConfig` or
  `closeWebInstances` it is. The engine is abstract: an instance is live, closing, ended or
  failed, as `EngineHost` and `EngineCommands` justify. A configuration is named after the
  request that brought it, so that the saved one can be compared with the one in effect.

The modules overlap on purpose where one part's promise is another's assumption: `driveLoop`
is in three engine modules, each time with the channels that module is about and the others as
one wakeup action; `CloseTerminates` of `EngineHost` is the fairness of `runEnds` in
`InstanceManager`; `CloseTerminates` of the reactor modules is `closeReactor` in `EngineHost`;
the reactor of `HostABI` is `HostOperations`; `EngineConn` has `performOperation` as four steps
whose orders `EngineOperations` justifies.

## Runs

Each run takes about three minutes at most with two workers.

| Run | Checks | Instance |
|---|---|---|
| `stream` | `Inv`, `StreamIntegrity`, `NoStuckRead`, `NoLostWakeup`, `ClosingEnds` | one stream, two ids, reads and writes, buffers smaller than a read, reuse of ids, fairness |
| `datagram` | `Consistent`, `DatagramIntegrity`, `NoStuckOperation`, `ClosingEnds` | one socket, two ids, queues of two, three datagrams each way, fairness |
| `sockets` | `Consistent`, `NoSocketLeak`, `AcceptIsServed`, `KeepsPromise`, `CloseTerminates` | two sockets, one id for creates of all kinds under reuse, two for accepts, a factory that only heeds its context, fairness |
| `query` | `Consistent`, `KeepsPromise`, `AnswerIsTaken` | all three services, two ids, reuse, fairness |
| `packet` | `Consistent`, `NobodyIsForgotten`, `ReceiversReturn` | three receivers, a sink of two, two waiting writers, fairness |
| `host_abi` | `Consistent`, `NothingLost` | all imports, two ids, two items, good and bad memory, handles and sinks closed under waiting operations |
| `core_abi` | `Consistent`, `NothingLost` | two instances and a web client, memory for three buffers, one refused free |
| `engine_operations` | `Consistent`, `NothingIsAbandoned`, `CallsReturn` | two data plane calls, or one beside an RPC, batches of one, fairness |
| `engine_commands` | `Consistent`, `BorrowHolds`, `CommandsReturn` | two packets, a Start, a Stop or a Wait, a channel and a batch of two, fairness |
| `engine_conn` | `Consistent`, `BytesAreExact`, `CallsReturn` | every kind of connection, two readers or writers and a closer, chunks of one byte, fairness |
| `engine_host` | `Consistent`, `TokensReachUsers`, `CloseTerminates` | an instance and a web client, fairness |
| `manager` | `Consistent`, `SavedIsEffective`, `EntriesAreAlive`, `RequestsEnd` | an identity of the server, which the application may close too, and one of the application, two instances at a time, two requests, one application Close at a time, fairness |

Where a property is a conjunction (`Inv`, `Consistent`, `NoStuckOperation`, `AcceptIsServed`,
`NobodyIsForgotten` and others), its parts are named and commented in the module:

- `Inv` of the stream is its inductive invariant: type, registration of reads and writes, one
  goroutine per direction, handles, stored results, wakeups.
- `Consistent` of the datagram socket: type, one receive worker, which has room for what it
  will get, `TryUDPSend` neither panics nor blocks, a socket loses its handle before it is closed,
  `Close` finds every socket and leaves nothing behind. `NoStuckOperation`: a
  waiting receive or send always has a worker, a result or a token on the way.
- `Consistent` of the sockets: type, tables that agree, a result belongs to the operation that asked for it, the
  context of an abandoned create is cancelled, `Close` leaves nothing behind.
  `AcceptIsServed`: one connection is accepted ahead, no waiter is left without a goroutine in
  `Accept`, no result without a token.
- `Consistent` of the queries: type, tables that agree, answers belong to their question, contexts of abandoned
  questions are cancelled, no answer without a token.
- `Consistent` of the packets: type, new sinks are empty, packets are delivered once and in order.
  `NobodyIsForgotten`: the receivers of a sink never all sleep beside a packet (`NoSleepingQueue`)
  and a full queue always has a token, or a receiver that is about to look or to pass one on
  (`FullQueueIsWatched`); a wait for room has a registered sink that is full, and room has a token
  for the guest. One of several receivers may sleep beside a packet, since tokens collapse; the end
  of a sink is found out by receivers (`ReceiversReturn`), not announced to waiting writers.
- `Consistent` of the host ABI: type, the ids the guest takes for free are free in the
  reactor and the operations it awaits are registered as what it started (`GuestAndHostAgree`; exempt
  are waits for room on a packet sink that has ended and a closed reactor, of which the guest learns
  when it next asks), a result is of the kind that was asked for, and no item waits in two places.
  `NothingLost`: whatever left the reactor reached the guest or was reported as failed,
  and a handle the guest could not be told of is closed.
- `Consistent` of the core ABI: type, every buffer has one owner that knows its length, nothing
  is left allocated but what the guest refused to take back, no call points outside a live
  buffer, and instances, operations and the web client are where their callers believe them to be.
  An allocation may return any free pointer. `NothingLost`: a call that fails leaves an instance, an operation or a response behind
  only when a free was refused, and at most one for each; `cleanupBuffer` turns that refusal
  into the error of a call that the guest had accepted.
- `Consistent` of the connections: type, the mutexes are held exactly by calls with an operation,
  a result channel is used once, by a call that waits for it. `BytesAreExact`: bytes, datagrams and connections are received once and in
  order; a `Write` reports what was accepted, up to one chunk in doubt when the instance closes.
- `Consistent` of the engine's commands: type, a call is in one place, nobody waits for an answer that will not come,
  and there is room for every answer.
- `Consistent` of the host: type, locks, tables and sinks agree with where everybody is, nobody is in the guest when it goes away, sinks and channels
  of events outlive whoever uses them.
- `Consistent` of the manager: type, what the table and the request under `mutations` rely on
  (`TableAgrees`, `RequestAgrees`), no two instances of the server run under one identity
  (`OneRunsPerId`), no running instance is out of reach of the table and of the call that
  created it (`NoneOutOfReach`). `EntriesAreAlive`: an ended instance is in the table only where
  a `Close` with an ended context left it, and one that is registered after `Host.Close` has
  cleared the table has ended.
- `KeepsPromise` is the specification of `HostOperations` under a refinement mapping: the
  operation of an id is the address registered for it, its answer the result stored there,
  together with who made it.
- `Consistent` of the engine's operations: type, the driver never blocks on a result channel, no call waits
  for a driver that is gone, a call reports what the guest did.

All of them pass: no disagreement between the code and what its comments and tests say was
found.

*Functions.* The ASSUMEs of the MC modules run over every input that differs in what the code
tells apart, and compare with what the function is for rather than with a second copy of it:
what was encoded is decoded again, or refused (`AddressesSurvive`, `OptionsAreCanonical`,
`ConfigSurvives`); a policy is honoured on every platform or refused (`StreamPolicyIsHonoured`,
`DatagramPolicyIsHonoured`); a timeout is never early and less than a millisecond late
(`TimeoutsRoundUp`, `TimersAreNotEarly`, `DeadlinesAreKept`); a cached cipher is the one for
its key, through evictions (`CiphersAreRight`); a history of events, patches or builder calls
ends as its steps say (`EventsAreBounded`, `PatchesAreKept`, `LastSecureModeWins`); a host
that could not be created leaves nothing open (`FailedHostLeavesNothing`). Widths
(`MaxUint32`, `MaxInt64`, `Millisecond`) are small numbers there, on either side of each
boundary.

*Bounds.* Queue capacities and the batch size (64 in the code) are 1 or 2, so that full, the
step to full and the step back happen in short behaviours; the code compares with the
capacity and nothing else. Two or three ids are enough for an operation, its successor under
the same id and a competitor. One handle suffices where nothing but ids and `Close` ties handles
together (streams, datagram sockets, sinks; the stream theorems hold for any number); sockets
are two, a listener and a connection it accepts. One instance beside a web client shows every
order of the locks between two users; `Together` lets two calls of `EngineOperations` meet, of
the same kind or of both; three goroutines of `EngineConn` are two that compete for a mutex and one
that closes; memory for three buffers is less than a call of `CoreABI` may want, so that
allocating fails at each of its points; two instances of the manager are the old one and its
replacement, and names of ended instances are used again, so that a restoration can follow.
The length of a stream or the number of datagrams is bounded by a constant named in each
cfg; every bound is a guard of the environment (the peer sends no more), never of the code.
Symmetry is used for ids, items and instances in the two runs without a liveness property
(`host_abi`, `core_abi`).

*Deadlock* is checked in every run but `manager`, `engine_conn`, `core_abi` and `host_abi`, whose
requests, bytes or operations are used up: the others may stop only where a module says so with
its step `Terminated` (the reactor or the instance is closed and everybody has returned).

*Fairness.* A runnable goroutine runs: weak fairness of the step after an unlock, of worker
steps, of the driver. A platform call comes back when its socket is closed or its context
cancelled, which `net.Conn` and the contexts of `platform` promise; it need not come back
before. That a UDP send comes back while its socket is open is not assumed: `ClosedHandleDrains`,
a part of `ClosingEnds` of the datagram socket, states it as its antecedent, `SendsReturn`. The guest takes results only where a property is
about it, and then only after a notification. A Go `select` with several ready cases takes
each of them sooner or later, which is strong fairness of `Receive` and `SeesClose` in
`EngineOperations` and of `Receive` in `EngineCommands`. A `sync.Mutex` does not starve a
waiter: strong fairness of taking `guestMu` in `EngineHost`, `mutations` in
`InstanceManager` and the mutexes of a connection in `EngineConn`. The guest ends an operation whose
deadline has passed or whose resource is closed (`proceed` in `EngineConn`), and need not end
others. In the manager a request that waits for the guest (a Start, an RPC) is fair
only once the guest has answered, the instance or the context has ended, and the ten-second
timers fire. `Reactor.Close` and `Host.Close` are never assumed to be called.

*Assumptions on the environment.* `Read` with a non-empty buffer does not return 0 bytes
without an error; closing a socket unblocks calls on it; factories and services heed their
context. A factory may return a socket together with an error, or neither.

## Proofs

The theorems hold for every value of the constants: any sets of ids, handles, instances,
requests and calls, any capacity, batch limit and stream length. PROJECT.json lists those a
reader should know; here is how they are obtained. A proof module extends its component. Four of
them hold, in a second section, the proofs of a neighbouring component as well, which they
instantiate under a letter (`D == INSTANCE ReactorDatagram ...`): there the assumptions on
its constants are a hypothesis of the theorem (`DatagramAssumptions => (D!Spec => ...)`), and
lemmas such as `SameCardinality` identify the instance's library operators with the module's own.
Each component has an inductive
invariant `Inv` (`Agree` in `EngineHostProofs`; `Consistent` itself in `ReactorQueryProofs`),
a lemma for each action that the action preserves it, and a theorem that combines `Init => Inv` and
`Inv /\ [Next]_vars => Inv'` to `Spec => []Inv` by temporal logic. The properties of the runs
follow from it. What makes the invariants inductive is part of `Consistent`, so the runs
check it too.

`ReactorStreamProofs`: `Invariance`, `TypeCorrect`, `ReadsAreRegistered`, `OneReaderPerStream`,
`BytesArriveInOrder`, `NoFalseEOF`, `NoReadIsStuck`, `WakeupsAreNotLost`, `OneWriterPerStream`,
`WritesAreAccounted`, `CloseLeavesNothing`. That bytes arrive in order needs that only one
goroutine reads, that none reads while a result is stored, and that the stored result begins
where the last delivery ended; that no reader is stuck needs that the queue of a stream and
the registered waiters agree, because a worker serves the queue while `Take` looks at the
table; that wakeups are not lost needs to know which waiter of a stream is the next to be
served.

`ReactorQueryProofs`: `Consistency`, `TypeCorrect`, `LateAnswersAreDropped`,
`ContextsAreCancelled`, `WakeupsAreNotLost`, `Refinement`. That an answer is shown to its own
question rests on `TablesAgree`: an id is in use exactly while it has a record, which is one of its
own and has no answer while its goroutine is inside the service. With it every action is shown to
be a step of `HostOperations`, or none: start asks, the service's return answers, take or
finish and cancel release.

*The imports of the guest*, in the same module: `AdapterInvariance`, `AdapterConsistency`,
`NothingIsLostInTheAdapter`. `NothingLost` counts the places of an item, so the invariant says
instead that no two places hold the same one and that the reactor's items are those in a
place (`HeldOnce`); that every import returns a status the guest draws the right conclusion from needs that a
stored result is of the kind the id was registered for (`ResultsFit`). `HandleClosed` gathers what
closing a socket does to results, places and items; bytes that move from the stream to a read that
still takes them are the one case in which an item changes its place inside the reactor.

`ReactorPacketProofs`: `Invariance`, `Consistency`, `ForgottenByNobody`, `QueuesAreBounded`,
`PacketsAreDeliveredInOrder`. `Consistent` and `NobodyIsForgotten` are inductive together, once it
is known that a sink that can still be registered has an empty queue (`NewSinksAreEmpty`). The hard case
is a receiver that consumed the token and finds the queue emptied by another one, or that leaves
packets behind: who has the token to pass on is what the lemmas about `ReceivePacket` follow
(`WatchedStep` for a full queue).

*The datagram socket*, in the same module: `DatagramInvariance`, `DatagramConsistency`,
`DatagramsInOrder`, `NoDatagramOperationIsStuck`. All three properties of the run are inductive
together. That datagrams arrive in order needs one reader per socket and room for what it reads
(`ReceiverHasRoom`); that sends go out in order needs to know when the sending goroutine has a
request in hand (`SenderAgrees`), and that a send neither panics nor is dropped that a socket loses its
handle before its channel is closed (`HandlesGoFirst`). That nobody is stuck rests on the lemmas that
follow the mark for room from `TryUDPSend` to the token.

`ReactorSocketsProofs`: `Invariance`, `Consistency`, `AcceptsAreServed`, `SocketsAreHeldOnce`,
`Refinement`, `ClosedStaysClosed`. `NoSocketLeak` counts the holders of a socket, which is not a form
to do induction with. The invariant says instead of each socket in which way it is held (a
table, a create, a backlog, somebody about to close it) and that these exclude each other; that a
way is one holder follows from `ResultIsOwn` for creates and from a lemma on backlogs.
`TablesAgree` (a registered kind has its entry in the table of that kind) and `NewSocketsAreFresh`
(nobody has accepted from a socket before it has a handle) complete it.

`EngineHostProofs`: `Bookkeeping`, `Consistency`, `NobodyIsLeftInGuest`, `SinksAreThere`,
`OneCallerInGuest`, `TokensArrive`. `PlacesAgree` ties the holders of `guestMu` and `mu` and the
tables to the places where creations, drivers and the shutdown are; `SinksAgree`,
`OneWebClient` and `ShutdownKnowsUsers` do so for sinks, for the one web client, and for
those `shutdown` waits for. That a token arrives at a user that is in no table yet follows from
where the token is and who reads the table under `mu`.

*The calls into the guest*, in the same module: `CoreInvariance`, `CoreConsistency`,
`NothingIsLostInTheGuest`. `Consistent` and `NothingLost` are inductive together over the actions,
but an action is a whole method, a function to sets of states, and what holds between the
calls of the guest inside it has to be said first. `sound(s, T)` is the order of the buffers in the
middle of a method that uses those at `T` for itself; `base(s, t, T)` is what every part of a
method leaves alone: these buffers, those of other Cores, and what was paid. A buffer is *paid* when the
guest refused to take it back and no Core keeps it. There is a lemma for each helper (`allocate`,
`cleanupBuffer`, `grow`, `statusError`) and for each method on top of them. `asked`,
`accepted` and `took` say of a method that an error either found the guest idle or was
paid for; the deferred free that turns a success into an error is the one case where it is
paid for, and this is why the losses never outnumber the buffers (`CountedMore`). `CallersAgree` is
needed because `Drop` returns at once, and without an error, on a Core that has no handle: that the
guest then has no such instance either follows only from what the callers have done before.

`EngineOperationsProofs`: `Invariance`, `Consistency`, `DriverIsNeverBlocked`,
`NothingIsLeftBehind`. The invariant is stated per call
(`callerAgrees`, `guestAgrees` in `CallsAgree`) and for the driver (`DriverAgrees`): for each
`select` of the caller, where its command, its result and the guest's operation may be. Most of it is about
callers that have gone: their channels must still have room, and their operation a
cancellation on its way.

*The connections*, in the same module: `ConnInvariance`, `ConnConsistency`, `ConnBytesAreExact`.
That what is read is what arrived is inductive only with `EachItemOnce` (an item is in one result
channel or returned, never both) and with `CallsAgree`, which lets an operation outlive its call
only when the instance closes; that a `Write` reports what was accepted needs `WritesAgree`, which
ties the guest's log to the count of the call and the length in its result channel.

`EngineCommandsProofs`: `Invariance`, `Consistency`, `PacketsAreLent`, `DriverNeverBlocks`.
A call is in one place (`InOnePlace`: the channel, the batch or the command behind it, at most
once), and `CallsAgree` and `DriverAgrees` say what its caller then waits for. Lemmas about cutting a
sequence in two carry the batch that `Receive` takes off the channel.

`InstanceManagerProofs`: `Invariance`, `Consistency`, `SavedConfigIsEffective`,
`EntriesAreOfTheLiving`, `RunningInstancesStay`. `TableAgrees` says what the table and the
application's calls may assume of an instance, `RequestAgrees` what the request under `mutations`
knows at each of its places. The heart is `aloneUnderId`: from its decision on, the request's own
instance and the one it closes are the only ones of the server under that identity. It is
established by `NoneOutOfReach` (what is not in the table does not run), survives what the
application does meanwhile because the application's identities carry no configuration of the
server, and gives `OneRunsPerId` when the new instance is created. That a patch does not touch
an instance of the application needs that the patched object is not replaced while a request
refers to it.

*Assumptions.* The named ASSUMEs of the modules, which the runs evaluate: `Nil` is no id, handle,
record or entry, sets of different kinds are disjoint, bounds are natural numbers (positive
where the code's constant is). None restricts sizes.

*Only model-checked.* Liveness and anything about `ENABLED`, which the prover does not
handle: `ClosingEnds`, `CloseTerminates`, `AnswerIsTaken`, `ReceiversReturn`, `CallsReturn`,
`CommandsReturn`, `RequestsEnd`. What functions compute on all inputs (the ASSUMEs of the
MC modules), which would need induction over data. Every invariant that a run checks is the
subject of a theorem.

## Not modelled

- The guest is a binary; what it may do is the environment of the models.
- `proto` is generated code: most of the repository's lines, and none of its logic.
- `cmd` and `examples` sit on top of the public API. `AfterFunc` of `contextutil` is used
  by them only.
- The unpacking of an import's arguments from the stack (the `...Function` wrappers in
  `hostabi`), the methods of the public API that check for nil and delegate, copying
  (`clone...`), formatting and the wording of errors.
- AES-GCM, the TOML reader of the guest and Go's `net` and `net/url` are external.
- The deadline of the guest is a wakeup that may come at any time in the state machines;
  `EngineErrors` has the arithmetic of the timer.

Some behaviours are in the models without a property of their own, or show in the comment of one,
because nothing in the repository says what is wanted:

- `CloseHandle` on a datagram socket or a listener does not complete the operations waiting on
  it (the next take is answered `ErrInvalid`), and one failing send makes all later calls of `TryUDPSend` on that socket fail.
- `UnregisterPacketSink` releases the waits for room on the sink without a completion: a guest that
  asks only when notified hears of it with the next notification.
- Of several receivers of a sink one may sleep beside a queued packet, until the next write or
  until another receiver passes a token on.
- A `Start` waits for `running` only, so that a `Stop` that overtakes it leaves it waiting for its
  context or the end of the instance.
- A `Close` with an expired context leaves an entry of an ended instance in the manager's table; a
  request to run it without overwrite is then answered with success.
- A patch that was applied but could not be read back leaves the document shown to the
  configuration server stale in those fields until they are patched again (`PatchesAreKept`).
- `collectNetworkInfo` without identities asks every instance, `listNetworkInstanceMeta` none; and
  one instance that does not answer fails the whole `collectNetworkInfo` (`CollectIsExact`).
- An event goes to the journal before the channel is tried: a guest that emits again what would
  have blocked has it in the journal twice (`EventsAreBounded`).
- The TOML encoder does not escape U+007F, which the validation lets through in a network name
  or secret; a TOML reader refuses the text (the exception named in `ConfigSurvives`). A STUN
  server `host?` or `host#` with nothing after the mark is accepted.
- A guest that refuses to free a buffer makes a call fail that it has carried out (`NothingLost` of
  the core ABI counts these).

## Plan

Done: all components with logic of their own are modelled and checked, the reactor's creates and
queries are proved to refine an abstract specification, and every invariant of the runs is
proved for all values of the constants. Left is what the tools do not reach: liveness stays
with TLC, on the instances of the runs, and so do the functions of the wire formats and of the
configuration.
