------------------------------- MODULE HostAPI -------------------------------
(***************************************************************************)
(* The calls of internal/host that leave the table of instances as it is:  *)
(* the sockets of an instance (host.go), its RPCs (rpc.go), the queries of *)
(* the configuration server and the merging of a patch (management.go).    *)
(* InstanceManager has the calls that change the table.                    *)
(*                                                                         *)
(* Data.  An address is what net.SplitHostPort makes of it; service is     *)
(* Unset when it is not a decimal number.  Methods of the guest answer     *)
(* with a value or Refused.  A configuration maps its fields to values; a  *)
(* patch is the set of fields it has values for.  Unset is Go's nil,       *)
(* Refused what a function that reports an error returns.                  *)
(***************************************************************************)
EXTENDS Integers, Sequences, SequencesExt

CONSTANTS Unset, Refused

-----------------------------------------------------------------------------
(* Sockets.                                                                *)

splitAddress(address) ==
  IF ~address.splits \/ address.service = Unset THEN Refused
  ELSE IF address.service >= 2^16 THEN Refused
  ELSE [host |-> address.host, port |-> address.service]

\* "any" is 0.0.0.0, "ipv4" another IPv4 address, "" no host at all.
parseDialAddress(address) ==
  LET split == splitAddress(address)
  IN  IF split = Refused THEN Refused
      ELSE IF split.host \in {"any", "ipv4"} THEN split ELSE Refused

parseBindPort(address) ==
  LET split == splitAddress(address)
  IN  IF split = Refused THEN Refused
      ELSE IF split.host \in {"", "any"} THEN split.port ELSE Refused

networks == [tcp |-> {"tcp", "tcp4"}, udp |-> {"udp", "udp4"}]

requireNetwork(network, protocol) == network \in networks[protocol]

\* The call of the engine that Dial, Listen and ListenPacket make.
Dial(network, address) ==
  LET peer == parseDialAddress(address) IN
  IF network \notin networks.tcp \cup networks.udp \/ peer = Refused THEN Refused
  ELSE [call |-> IF network \in networks.tcp THEN "Dial" ELSE "DialUDP", peer |-> peer]

Listen(network, address) ==
  LET port == parseBindPort(address) IN
  IF ~requireNetwork(network, "tcp") \/ port = Refused THEN Refused
  ELSE [call |-> "Listen", port |-> port]

ListenPacket(network, address) ==
  LET port == parseBindPort(address) IN
  IF ~requireNetwork(network, "udp") \/ port = Refused THEN Refused
  ELSE [call |-> "ListenPacket", port |-> port]

-----------------------------------------------------------------------------
(* RPCs.  Millisecond is the length of one in the unit of time.Duration.   *)

\* The time the guest is given, rounded up.
timeoutMillis(remaining, Millisecond) ==
  remaining \div Millisecond + (IF remaining % Millisecond # 0 THEN 1 ELSE 0)

\* callRPCRequest.  The context may end before the request is sent or while it
\* is answered; then its error is returned, answer or not.  deadline is the
\* time until it, Unset without one.
callRPCRequest(endedBefore, deadline, Millisecond, answer, endedAfter) ==
  IF endedBefore \/ (deadline # Unset /\ deadline <= 0)
  THEN [sent |-> FALSE, timeout |-> Unset, result |-> Refused]
  ELSE [sent    |-> TRUE,
        timeout |-> IF deadline = Unset THEN Unset ELSE timeoutMillis(deadline, Millisecond),
        result  |-> IF endedAfter \/ answer.failed \/ ~answer.decodes THEN Refused
                    ELSE IF answer.error # Unset \/ ~answer.payload THEN Refused
                    ELSE answer.response]

\* The queries of an instance.  rpc is what callRPC returns for each method.
methods == {"ListPeer", "ListRoute", "ShowNodeInfo", "GetForeignNetworkSummary"}

listPeerResponse(rpc)      == rpc["ListPeer"]
listRouteResponse(rpc)     == rpc["ListRoute"]
showNodeInfo(rpc)          == rpc["ShowNodeInfo"]
foreignNetworkSummary(rpc) == rpc["GetForeignNetworkSummary"]

\* The two that the application may make.
ListPeer(rpc)  == listPeerResponse(rpc)
ListRoute(rpc) == listRouteResponse(rpc)

-----------------------------------------------------------------------------
(* Identities.  A byte stands for the two digits that print it, a part of  *)
(* a UUID for its four bytes, the highest first.                           *)

newInstanceUUID(random) ==
  LET value == [random EXCEPT ![7] = (@ % 16) + 64, ![9] = (@ % 64) + 128] IN
  [Part1 |-> SubSeq(value, 1, 4),  Part2 |-> SubSeq(value, 5, 8),
   Part3 |-> SubSeq(value, 9, 12), Part4 |-> SubSeq(value, 13, 16)]

\* The five groups between the dashes.
uuidString(id) ==
  LET value == id.Part1 \o id.Part2 \o id.Part3 \o id.Part4 IN
  <<SubSeq(value, 1, 4), SubSeq(value, 5, 6), SubSeq(value, 7, 8), SubSeq(value, 9, 10),
    SubSeq(value, 11, 16)>>

\* The order of such strings; the dashes stand in the same places.
uuidBefore(left, right) ==
  LET l == FlattenSeq(left)
      r == FlattenSeq(right)
  IN  \E n \in DOMAIN l : l[n] < r[n] /\ \A m \in 1 .. n - 1 : l[m] = r[m]

uuidSet(ids) == {uuidString(ids[i]) : i \in {j \in DOMAIN ids : ids[j] # Unset}}

-----------------------------------------------------------------------------
(* Queries.  instances is the table: entries under the string of their id. *)

snapshot(instances) ==
  LET keys == SortSeq(SetToSeq(DOMAIN instances), uuidBefore)
  IN  [i \in DOMAIN keys |-> instances[keys[i]]]

Instances(instances) ==
  LET entries == snapshot(instances) IN [i \in DOMAIN entries |-> entries[i].instance]

mapState(state) ==
  IF state \in {"created", "starting", "running", "stopping"} THEN state ELSE "stopped"

\* The route of the node itself has its address.
virtualIPv4(routes, self) ==
  LET mine == SelectSeq(routes, LAMBDA route : route.PeerId = self)
  IN  IF mine = <<>> THEN Unset ELSE mine[1].Ipv4Addr

\* A peer that is listed twice counts with its last entry.
peerWithId(peers, id) ==
  LET found == SelectSeq(peers, LAMBDA peer : peer.PeerId = id)
  IN  IF found = <<>> THEN Unset ELSE Last(found)

\* Public servers first, then by address.  The order of equals is open.
routeBefore(left, right) ==
  IF left.Route.public # right.Route.public THEN left.Route.public
  ELSE left.Route.Ipv4Addr < right.Route.Ipv4Addr

peerRoutePairs(peers, routes) ==
  LET known == SelectSeq(routes, LAMBDA route : peerWithId(peers, route.PeerId) # Unset)
  IN  SortSeq([i \in DOMAIN known |->
                 [Route |-> known[i], Peer |-> peerWithId(peers, known[i].PeerId)]],
              routeBefore)

\* runningInfo, from what is observed of the instance: its state, its terminal
\* error, and what the four queries return that are made only while it runs.
runningInfo(seen) ==
  LET state   == mapState(seen.state)
      summary == [Running  |-> state \notin {"created", "stopped"},
                  ErrorMsg |-> seen.terminalError,
                  VirtualIpv4 |-> Unset, PeerRoutePairs |-> Unset]
      peers   == listPeerResponse(seen.rpc)
      routes  == listRouteResponse(seen.rpc)
      node    == showNodeInfo(seen.rpc)
  IN  IF state # "running" THEN summary
      ELSE IF Refused \in {peers, routes, node, foreignNetworkSummary(seen.rpc)} THEN Refused
      ELSE [summary EXCEPT !.VirtualIpv4 = virtualIPv4(routes, node),
                           !.PeerRoutePairs = peerRoutePairs(peers, routes)]

\* collectNetworkInfo: no identity at all includes every instance; one that
\* cannot be asked fails the whole query.
collectNetworkInfo(instances, ids, seen) ==
  LET included == uuidSet(ids)
      chosen == SelectSeq(snapshot(instances),
                          LAMBDA entry : included = {} \/ uuidString(entry.id) \in included)
      info   == [i \in DOMAIN chosen |-> runningInfo(seen[uuidString(chosen[i].id)])]
  IN  IF \E i \in DOMAIN chosen : info[i] = Refused THEN Refused
      ELSE [i \in DOMAIN chosen |-> [id |-> uuidString(chosen[i].id), info |-> info[i]]]

getNetworkInstanceConfig(instances, id) ==
  IF id = Unset THEN Refused
  ELSE IF uuidString(id) \notin DOMAIN instances THEN Refused
  ELSE LET entry == instances[uuidString(id)] IN
       IF entry.owner # "web" THEN Refused
       ELSE [Config |-> entry.config, Source |-> entry.source]

\* The same for one instance that is selected by id; a name does not select.
selectedInstanceID(identifier) == IF identifier.Id = Unset THEN Refused ELSE identifier.Id

getConfig(instances, identifier) ==
  LET id == selectedInstanceID(identifier) IN
  IF id = Refused THEN Refused
  ELSE LET response == getNetworkInstanceConfig(instances, id) IN
       IF response = Refused THEN Refused ELSE response.Config

\* Here no identity at all includes no instance.
listNetworkInstanceMeta(instances, ids) ==
  LET chosen == SelectSeq(snapshot(instances), LAMBDA entry : uuidString(entry.id) \in uuidSet(ids))
  IN  [i \in DOMAIN chosen |->
         [InstId           |-> chosen[i].id,
          ConfigPermission |-> IF chosen[i].owner = "application" THEN 3 ELSE 0,
          Source           |-> chosen[i].source]]

instanceIDs(instances) ==
  LET entries == snapshot(instances) IN [i \in DOMAIN entries |-> entries[i].id]

\* handle and dispatch, for a request that may not decode, and the envelope of
\* the answer, which holds a response or an error and at least a microsecond.
handle(request, answer, micros) ==
  LET dispatched == request.decodes /\ request.rpc /\ request.known /\ request.payload IN
  [RuntimeUs |-> IF micros = 0 THEN 1 ELSE micros,
   Response  |-> IF dispatched THEN answer ELSE Refused]

-----------------------------------------------------------------------------
(* Patches.                                                                *)

\* The only fields a running instance can be patched in.
hosted == {"PortForwards", "Acl", "ProxyNetworks", "DisableRelayData"}

hostedConfigPatch(patch) == patch \cap hosted

mergeHostedConfigPatch(desired, effective, patch) ==
  [f \in DOMAIN desired |-> IF f \in hostedConfigPatch(patch) THEN effective[f] ELSE desired[f]]

\* What patchConfig stores in the entry when it could read the configuration
\* back: the document the server sees and the text a restoration starts from.
storePatch(entry, effective, patch) ==
  [entry EXCEPT !.config = mergeHostedConfigPatch(@, effective, patch),
                !.configTOML = effective]

=============================================================================
