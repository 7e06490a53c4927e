-------------------------------- MODULE NetStd --------------------------------
(***************************************************************************)
(* What platform/netstd does with the options of a socket or a query: it   *)
(* honours them with Go's net package, or refuses, on each of its          *)
(* platforms (socket_options_unix.go, _windows.go, _other.go).             *)
(*                                                                         *)
(* Data.  The options are records as HostWire decodes them.  The result is *)
(* what the operating system is asked for: a network and socket options.   *)
(***************************************************************************)
EXTENDS HostWire

Platforms == {"unix", "windows", "other"}

nonDefault(context, bind) ==
  context.mark # Absent \/ context.netns # Absent \/ bind.device # Absent

\* applyTCPSocketOptions of each platform: the socket options that are set,
\* reuseAddr Absent when SO_REUSEADDR is left alone.  network is the one Go dials
\* or listens on, "tcp4" or "tcp6".
onlyV6On(network, bind) == bind.onlyV6 /\ network = "tcp6"

applyUnix(network, bind) ==
  [reuseAddr |-> IF bind.reuseAddr = Absent THEN TRUE ELSE bind.reuseAddr,
   reusePort |-> bind.reusePort,
   onlyV6    |-> onlyV6On(network, bind)]

applyWindows(network, bind) ==
  IF bind.reusePort /\ bind.reuseAddr = FALSE THEN Wrong
  ELSE [reuseAddr |-> IF bind.reusePort THEN TRUE ELSE bind.reuseAddr,
        reusePort |-> FALSE,
        onlyV6    |-> onlyV6On(network, bind)]

applyOther(network, bind) ==
  IF bind.reuseAddr # Absent \/ bind.reusePort \/ bind.onlyV6 THEN Wrong
  ELSE [reuseAddr |-> Absent, reusePort |-> FALSE, onlyV6 |-> FALSE]

\* tcpControl: the socket is not used when setting its options fails.
tcpControl(platform, network, bind) ==
  CASE platform = "unix" -> applyUnix(network, bind)
    [] platform = "windows" -> applyWindows(network, bind)
    [] platform = "other" -> applyOther(network, bind)

TCPConnectFake      == 1
TCPConnectSTUNProbe == 5

\* ConnectTCP: linger is switched off for a probe.
ConnectTCP(platform, network, o) ==
  IF o.purpose = TCPConnectFake \/ nonDefault(o.context, o.bind) THEN Wrong
  ELSE LET applied == tcpControl(platform, network, o.bind)
       IN IF applied = Wrong THEN Wrong
          ELSE [network |-> network, local |-> o.local, applied |-> applied,
                linger  |-> o.purpose # TCPConnectSTUNProbe]

ListenTCP(platform, network, o) ==
  IF nonDefault(o.context, o.bind) THEN Wrong
  ELSE LET applied == tcpControl(platform, network, o.bind)
       IN IF applied = Wrong THEN Wrong
          ELSE [network |-> network, local |-> o.local, applied |-> applied]

udpNetwork(o) ==
  IF o.local # Absent /\ To4(o.local.ip) THEN "udp4"
  ELSE IF o.bind.onlyV6 THEN "udp6"
  ELSE IF o.local # Absent THEN "udp"
  ELSE IF o.context.version = "V4" THEN "udp4" ELSE "udp"

BindUDP(o) ==
  IF nonDefault(o.context, o.bind) \/ o.bind.reuseAddr \/ o.bind.reusePort THEN Wrong
  ELSE [network |-> udpNetwork(o), local |-> o.local]

\* LocalAddrForRemote: the network of the remote address.
LocalAddrForRemote(remote, context) ==
  IF context.mark # Absent \/ context.netns # Absent THEN Wrong
  ELSE IF To4(remote.ip) THEN "udp4" ELSE "udp6"

\* LookupIP: a literal is its own answer, whatever version was asked for; mark
\* and network namespace of the query are not looked at.  addresses is what the
\* resolver finds for a name, by network.
Unmap(address) == IF address = "mapped" THEN "ip4" ELSE address
lookupNetwork(version) ==
  CASE version = 4 -> "ip4" [] version = 6 -> "ip6" [] OTHER -> "ip"
LookupIP(query, literal, addresses) ==
  IF literal # Absent THEN <<Unmap(literal)>>
  ELSE LET found == addresses[lookupNetwork(query.ipVersion)]
       IN [i \in DOMAIN found |-> Unmap(found[i])]

\* LookupTXT: the first record.
LookupTXT(records) == IF records = <<>> THEN Wrong ELSE Head(records)

=============================================================================
