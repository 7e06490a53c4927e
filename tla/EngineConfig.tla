---------------------------- MODULE EngineConfig ----------------------------
(***************************************************************************)
(* What is prepared before the guest runs: the host itself (New in         *)
(* internal/host host.go, NewHost in internal/engine host.go) and the      *)
(* envelopes an instance and a web client are created from (config.go).    *)
(*                                                                         *)
(* Data.  An address is its family ("4", "6", "mapped" for IPv4 inside     *)
(* IPv6, "none" for the zero value) and which one it is; a listener is a   *)
(* URL that parses or not, with a scheme or not.  Absent is Go's nil or    *)
(* the empty string, Wrong what a function that reports an error returns.  *)
(***************************************************************************)
EXTENDS Integers, Sequences, SequencesExt, TLC

CONSTANTS Wrong, Absent

createConfigVersion    == 14
webClientConfigVersion == 1

defaultPacketQueueCapacity == 64

isIPv4(address) == address.family = "4"
isIPv6(address) == address.family = "6"

validOptionalIP(address, family) == address # Absent => address.family = family

all(values, valid(_)) == \A i \in DOMAIN values : valid(values[i])

\* Every list is written, an empty one too.
encodeEnvironmentSnapshot(snapshot) ==
  IF /\ validOptionalIP(snapshot.PublicIPv4, "4")
     /\ validOptionalIP(snapshot.PublicIPv6, "6")
     /\ all(snapshot.InterfaceIPv4s, isIPv4)
     /\ all(snapshot.InterfaceIPv6s, isIPv6)
     /\ all(snapshot.MappedListeners, LAMBDA url : url.parses /\ url.scheme)
     /\ all(snapshot.LocalIPs, LAMBDA address : address.family # "none")
     /\ all(snapshot.PreferredIPv6Sources, LAMBDA source : isIPv6(source.IP))
  THEN [public_ipv4            |-> snapshot.PublicIPv4,
        interface_ipv4s        |-> snapshot.InterfaceIPv4s,
        public_ipv6            |-> snapshot.PublicIPv6,
        interface_ipv6s        |-> snapshot.InterfaceIPv6s,
        mapped_listeners       |-> snapshot.MappedListeners,
        local_ips              |-> snapshot.LocalIPs,
        protected_tcp_ports    |-> snapshot.ProtectedTCPPorts,
        preferred_ipv6_sources |-> [i \in DOMAIN snapshot.PreferredIPv6Sources |->
                                      [ip      |-> snapshot.PreferredIPv6Sources[i].IP,
                                       ifindex |-> snapshot.PreferredIPv6Sources[i].IfIndex]]]
  ELSE Wrong

encodeCreateEnvelope(configTOML, snapshot) ==
  LET environment == encodeEnvironmentSnapshot(snapshot) IN
  IF configTOML = Absent \/ environment = Wrong THEN Wrong
  ELSE [version |-> createConfigVersion, config |-> configTOML, environment |-> environment]

\* ConnectWebClient of the host adds the operating system and fills an empty host
\* name in with the machine's own; encodeWebClientEnvelope refuses what is still
\* empty.
ConnectWebClient(options, machine, GOOS) ==
  [OSType |-> GOOS] @@ [options EXCEPT !.Hostname = IF @ = Absent THEN machine ELSE @]

encodeWebClientEnvelope(options, snapshot) ==
  LET environment == encodeEnvironmentSnapshot(snapshot) IN
  IF Absent \in {options.Endpoint, options.MachineID, options.Hostname} \/ environment = Wrong
  THEN Wrong
  ELSE [version     |-> webClientConfigVersion,
        endpoint    |-> options.Endpoint,
        machine_id  |-> options.MachineID,
        hostname    |-> options.Hostname,
        secure_mode |-> options.SecureMode,
        os_type     |-> options.OSType,
        environment |-> environment]

\* mergeServices: what the application does not bring is netstd's.
mergeServices(configured) ==
  [service \in {"Sockets", "DNS", "Environment"} |->
     IF configured[service] = Absent THEN "netstd" ELSE configured[service]]

-----------------------------------------------------------------------------
(* NewHost: five steps, each of which may fail, and what each one opens.   *)

hostSteps == <<"wasi", "adapter", "instantiate", "compile", "module">>

opens(step) ==
  CASE step = "wasi"        -> {"reactor"}    \* reactor.New follows at once
    [] step = "adapter"     -> {}
    [] step = "instantiate" -> {}
    [] step = "compile"     -> {"compiled"}
    [] step = "module"      -> {"module"}

\* The steps before `failed` have been taken; it is 6 when none fails.
opened(failed) ==
  {"lifetime", "runtime"} \cup UNION {opens(hostSteps[i]) : i \in 1 .. failed - 1}

\* The deferred calls: compiled is closed in any case, the rest on an error.
cleansUp(failed) ==
  (IF failed > 4 THEN {"compiled"} ELSE {})
  \cup IF failed = 6 THEN {}
       ELSE {"lifetime", "runtime"} \cup ({"module", "reactor"} \cap opened(failed))

\* A context that keeps the values of another one and does not end with it.
WithoutCancel(parent) == [parent EXCEPT !.deadline = Absent, !.done = FALSE]

\* Capacity and context are looked at before anything is opened.
NewHost(ctx, services, capacity, failed) ==
  IF ctx.done \/ capacity < 0 THEN [ok |-> FALSE, open |-> {}]
  ELSE [ok       |-> failed = 6,
        open     |-> opened(failed) \ cleansUp(failed),
        ctx      |-> WithoutCancel(ctx),
        services |-> services,
        capacity |-> IF capacity = 0 THEN defaultPacketQueueCapacity ELSE capacity]

\* New of internal/host: the guest must be the one the protocol was generated
\* for.  The context may also end between its look at it and NewHost's, at `then`.
New(artifactCommit, protocolCommit, ctx, then, platform, capacity, failed) ==
  IF artifactCommit # protocolCommit \/ ctx.done THEN [ok |-> FALSE, open |-> {}]
  ELSE NewHost(then, mergeServices(platform), capacity, failed)

=============================================================================
