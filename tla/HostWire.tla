------------------------------- MODULE HostWire -------------------------------
(***************************************************************************)
(* The records the guest and internal/hostabi exchange, as socket_wire.go, *)
(* udp_wire.go and dns_wire.go read and write them, and the checks of the  *)
(* calls that start no operation (event.go, packet.go, udp.go).            *)
(*                                                                         *)
(* Data.  A record is the fields the code tells apart, not a string of     *)
(* bytes; a run of bytes that only has to be zero is a field that is 0     *)
(* when it is.  The sixteen bytes of an IP address are a shape and what    *)
(* they hold: "short" are four bytes and twelve zeros, "mapped" is an IPv4 *)
(* address inside IPv6, "long" any other.  Absent is Go's nil, Wrong what  *)
(* a function that returns an error returns.                               *)
(***************************************************************************)
EXTENDS Integers, Sequences, FiniteSets

CONSTANTS
  Wrong,
  Absent,
  Interfaces  \* indices of the network interfaces of the machine

maxHostEventKindLen    == 64
maxHostEventMessageLen == 64 * 1024
maxHostPacketLen       == 1024 * 1024
maxUDPPayload          == 65535
maxDNSResultLen        == 1024 * 1024

-----------------------------------------------------------------------------
(* Addresses: udp_wire.go.  A net.IP in Go's sixteen-byte form.            *)

To4(ip) == ip.shape = "mapped"

\* encodeUDPMetadata for a peer; the host never sends an optional address.
encodeUDPMetadata(peer) ==
  IF \/ peer = Absent
     \/ peer.port \notin 0 .. 65535
     \/ ~To4(peer.ip) /\ peer.zone # Absent /\ peer.zone \notin Interfaces
  THEN Wrong
  ELSE [family   |-> IF To4(peer.ip) THEN 4 ELSE 6,
        ip       |-> IF To4(peer.ip) THEN [peer.ip EXCEPT !.shape = "short"] ELSE peer.ip,
        port     |-> peer.port,
        flowinfo |-> 0,
        scope    |-> IF To4(peer.ip) \/ peer.zone = Absent THEN 0 ELSE peer.zone,
        optional |-> [family |-> 0, ip |-> [shape |-> "short", host |-> 0], ifindex |-> 0]]

\* The peer of decodeUDPMetadata: an IPv4 address comes back in its mapped form.
decodePeer(wire) ==
  IF \/ wire.family \notin {4, 6}
     \/ wire.family = 4 /\ (wire.ip.shape # "short" \/ wire.flowinfo # 0 \/ wire.scope # 0)
     \/ wire.scope # 0 /\ wire.scope \notin Interfaces
  THEN Wrong
  ELSE [ip   |-> IF wire.family = 4 THEN [wire.ip EXCEPT !.shape = "mapped"] ELSE wire.ip,
        port |-> wire.port,
        zone |-> IF wire.scope = 0 THEN Absent ELSE wire.scope]

isZero(ip) == ip.shape = "short" /\ ip.host = 0

\* The optional source address of decodeUDPMetadata.
decodeOptional(optional) ==
  IF \/ optional.family \notin {0, 4, 6}
     \/ optional.family = 0 /\ ~(isZero(optional.ip) /\ optional.ifindex = 0)
     \/ optional.family = 4 /\ (optional.ip.shape # "short" \/ optional.ifindex # 0)
  THEN Wrong
  ELSE IF optional.family = 0 THEN Absent
       ELSE IF optional.family = 4 THEN [optional.ip EXCEPT !.shape = "mapped"] ELSE optional.ip

decodeUDPMetadata(wire) ==
  IF decodePeer(wire) = Wrong \/ decodeOptional(wire.optional) = Wrong THEN Wrong
  ELSE [peer     |-> decodePeer(wire),
        source   |-> decodeOptional(wire.optional),
        flowinfo |-> wire.flowinfo,
        ifindex  |-> wire.optional.ifindex]

\* decodeSocketAddress: an absent address is all zeros.
decodeSocketAddress(wire, optional) ==
  IF optional /\ wire.family = 0
  THEN IF isZero(wire.ip) /\ wire.port = 0 /\ wire.flowinfo = 0 /\ wire.scope = 0 THEN Absent ELSE Wrong
  ELSE IF decodePeer(wire) # Wrong /\ wire.flowinfo # 0 THEN Wrong
  ELSE decodePeer(wire)

\* encodeNetAddr: the address of a TCP or a UDP socket, of nothing else.
encodeNetAddr(address) ==
  IF address.network \notin {"tcp", "udp"} THEN Wrong ELSE encodeUDPMetadata(address.addr)

encodeTCPSocketResult(handle, local, peer) ==
  IF encodeNetAddr(local) = Wrong \/ encodeNetAddr(peer) = Wrong THEN Wrong
  ELSE [handle |-> handle, local |-> encodeNetAddr(local), peer |-> encodeNetAddr(peer)]

encodeBoundSocketResult(handle, local) ==
  IF encodeNetAddr(local) = Wrong THEN Wrong
  ELSE [handle |-> handle, local |-> encodeNetAddr(local)]

-----------------------------------------------------------------------------
(* Socket options: socket_wire.go.  A text is [present, length, utf8].     *)

decodeIPVersion(b) == IF b \in 0 .. 2 THEN <<"V4", "V6", "Both">>[b + 1] ELSE Wrong

decodeSocketMark(present, mark) ==
  IF present > 1 \/ (present = 0 /\ mark # 0) THEN Wrong
  ELSE IF present = 0 THEN Absent ELSE mark

decodeWireBool(b) == IF b > 1 THEN Wrong ELSE b = 1

\* The network namespace: a token that fits into what is left.
decodeNetNS(text, room) ==
  IF text.present > 1 \/ text.length > room \/ (text.present = 0 /\ text.length # 0)
     \/ (text.present = 1 /\ ~text.utf8)
  THEN Wrong
  ELSE IF text.present = 0 THEN Absent ELSE text.length

\* The bind device: all that is left.
decodeBindDevice(text, room) ==
  IF text.present > 1 \/ text.length # room \/ (text.present = 0 /\ text.length # 0)
  THEN Wrong
  ELSE IF text.present = 0 THEN Absent ELSE text.length

decodeSocketContext(wire, room) ==
  LET version == decodeIPVersion(wire.version)
      mark    == decodeSocketMark(wire.markPresent, wire.mark)
      netns   == decodeNetNS(wire.netns, room)
  IN IF version = Wrong \/ mark = Wrong \/ netns = Wrong THEN Wrong
     ELSE [version |-> version, mark |-> mark, netns |-> netns]

decodeReuseAddr(b) == IF b \in 0 .. 2 THEN <<Absent, FALSE, TRUE>>[b + 1] ELSE Wrong

bindPolicy(reuseAddr, wire) ==
  LET reusePort == decodeWireBool(wire.reusePort)
      onlyV6    == decodeWireBool(wire.onlyV6)
      device    == decodeBindDevice(wire.device, wire.rest)
  IN IF reuseAddr = Wrong \/ reusePort = Wrong \/ onlyV6 = Wrong \/ device = Wrong THEN Wrong
     ELSE [reuseAddr |-> reuseAddr, reusePort |-> reusePort, onlyV6 |-> onlyV6, device |-> device]

\* TCP knows a default for reuse_addr, UDP does not.
decodeTCPBindPolicy(wire) == bindPolicy(decodeReuseAddr(wire.reuseAddr), wire)
decodeUDPBindPolicy(wire) == bindPolicy(decodeWireBool(wire.reuseAddr), wire)

decodeTCPConnectPurpose(b) == IF b \in 0 .. 8 THEN b ELSE Wrong
decodeUDPBindPurpose(b)    == IF b \in 0 .. 8 THEN b ELSE Wrong
decodeTCPListenPurpose(b)  == IF b \in 0 .. 6 THEN b ELSE Wrong

\* A record that is too short counts as one of another version.
optionsVersion == 2

options(remote, local, context, bind, purpose) ==
  IF remote = Wrong \/ local = Wrong \/ context = Wrong \/ bind = Wrong \/ purpose = Wrong THEN Wrong
  ELSE [remote |-> remote, local |-> local, context |-> context, bind |-> bind, purpose |-> purpose]

decodeTCPConnectOptions(wire) ==
  IF wire.version # optionsVersion THEN Wrong
  ELSE options(decodeSocketAddress(wire.remote, FALSE), decodeSocketAddress(wire.local, TRUE),
               decodeSocketContext(wire.context, wire.room), decodeTCPBindPolicy(wire.bind),
               decodeTCPConnectPurpose(wire.purpose))

decodeUDPBindOptions(wire) ==
  IF wire.version # optionsVersion THEN Wrong
  ELSE options(Absent, decodeSocketAddress(wire.local, TRUE),
               decodeSocketContext(wire.context, wire.room), decodeUDPBindPolicy(wire.bind),
               decodeUDPBindPurpose(wire.purpose))

decodeTCPListenOptions(wire) ==
  IF wire.version # optionsVersion THEN Wrong
  ELSE options(Absent, decodeSocketAddress(wire.local, FALSE),
               decodeSocketContext(wire.context, wire.room), decodeTCPBindPolicy(wire.bind),
               decodeTCPListenPurpose(wire.purpose))

-----------------------------------------------------------------------------
(* Names: dns_wire.go.                                                     *)

dnsWireVersion == 1

\* room is what follows the network namespace's length, of which four bytes are
\* the length of the host name and all others the name.
decodeDNSQuery(wire) ==
  LET mark  == decodeSocketMark(wire.markPresent, wire.mark)
      netns == decodeNetNS(wire.netns, wire.room)
  IN IF \/ wire.version # dnsWireVersion
        \/ wire.ipVersion \notin {0, 4, 6}
        \/ mark = Wrong
        \/ netns = Wrong
        \/ wire.room - wire.netns.length < 4
        \/ wire.host.length = 0
        \/ wire.host.length # wire.room - wire.netns.length - 4
        \/ ~wire.host.utf8
     THEN Wrong
     ELSE [ipVersion |-> wire.ipVersion, mark |-> mark, netns |-> netns, host |-> wire.host.length]

boundedDNSResult(length) == IF length > maxDNSResultLen THEN Wrong ELSE length

\* The encoders return the length of the encoding.
sizes(records, size(_)) ==
  LET sum[n \in 0 .. Len(records)] == IF n = 0 THEN 4 ELSE sum[n - 1] + size(records[n])
  IN sum[Len(records)]

encodeDNSAddresses(addresses) ==
  IF \E i \in DOMAIN addresses : addresses[i] \notin {"ip4", "ip6"} THEN Wrong
  ELSE boundedDNSResult(sizes(addresses, LAMBDA a : IF a = "ip4" THEN 5 ELSE 17))

encodeDNSTXT(text) == IF ~text.utf8 THEN Wrong ELSE boundedDNSResult(4 + text.length)

encodeDNSSRV(records) ==
  IF \E i \in DOMAIN records : records[i] = Absent THEN Wrong
  ELSE boundedDNSResult(sizes(records, LAMBDA r : 10 + r))

-----------------------------------------------------------------------------
(* Calls that are over when they return.  mem: the guest's memory can be   *)
(* read; sink: what the reactor says of the handle.                        *)

emitEvent(kindLength, messageLength, mem, sink) ==
  IF kindLength \notin 1 .. maxHostEventKindLen \/ messageLength \notin 1 .. maxHostEventMessageLen
  THEN "invalid"
  ELSE IF ~mem THEN "memory" ELSE sink

tryPacketWrite(length, mem, sink) ==
  IF length \notin 1 .. maxHostPacketLen THEN "invalid"
  ELSE IF ~mem THEN "memory" ELSE sink

\* A source address, a flow label or an interface cannot be asked for.
tryUDPSend(length, wire, mem, sink) ==
  IF length > maxUDPPayload \/ ~mem THEN "memory"
  ELSE LET metadata == decodeUDPMetadata(wire)
       IN IF metadata = Wrong THEN "invalid"
          ELSE IF metadata.source # Absent \/ metadata.flowinfo # 0 \/ metadata.ifindex # 0
          THEN "invalid" ELSE sink

=============================================================================
