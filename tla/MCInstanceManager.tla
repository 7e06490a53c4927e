------------------------- MODULE MCInstanceManager -------------------------
(***************************************************************************)
(* InstanceManager on small instances, and the functions of HostAPI on all *)
(* inputs that differ in what the code tells apart; MCInstanceConfig does  *)
(* so for InstanceConfig.                                                  *)
(***************************************************************************)
EXTENDS InstanceManager, MCInstanceConfig

API == INSTANCE HostAPI

-----------------------------------------------------------------------------
(* Sockets and RPCs.                                                       *)

Networks  == {"tcp", "tcp4", "tcp6", "udp", "udp4", "udp6", "unix"}
Addresses == [splits : BOOLEAN, host : {"", "any", "ipv4", "ipv6", "name"},
              service : {Unset, 0, 1, 65535, 65536}]

\* A socket is of the transport that was named, on the port that was named, and
\* what a listener is bound to can be dialled and listened on.
ASSUME SocketsAreAsNamed ==
  \A n \in Networks, a \in Addresses :
    LET dial   == API!Dial(n, a)
        listen == API!Listen(n, a)
        packet == API!ListenPacket(n, a)
        bound(l) == [splits |-> TRUE, host |-> "any", service |-> l.port]
    IN  /\ listen = Refused \/ packet = Refused
        /\ dial # Refused => /\ dial.peer.port = a.service /\ a.service <= 65535
                             /\ n \notin {"tcp6", "udp6", "unix"}
                             /\ dial.peer.host \notin {"", "ipv6", "name"}
        /\ listen # Refused => /\ API!Dial(n, bound(listen)).call = "Dial"
                               /\ API!Listen(n, bound(listen)) = listen
                               /\ a.host # "ipv4" /\ listen.port = a.service
        /\ packet # Refused => /\ API!Dial(n, bound(packet)).call = "DialUDP"
                               /\ API!ListenPacket(n, bound(packet)) = packet

Answers == [failed : BOOLEAN, decodes : BOOLEAN, error : {Unset, "error"}, payload : BOOLEAN,
            response : {"response"}]

\* A request that is sent tells the guest a deadline that is not before the
\* caller's and less than a millisecond after it, never zero; an answer is
\* returned only when nothing went wrong and the context has not ended.
ASSUME DeadlinesAreKept ==
  \A before, after \in BOOLEAN, deadline \in {Unset} \cup -3 .. 10, answer \in Answers :
    LET rpc == API!callRPCRequest(before, deadline, 3, answer, after) IN
    /\ before => ~rpc.sent
    /\ deadline # Unset /\ rpc.sent =>
         rpc.timeout >= 1 /\ rpc.timeout * 3 >= deadline /\ (rpc.timeout - 1) * 3 < deadline
    /\ rpc.result # Refused <=>
         /\ rpc.sent /\ ~after
         /\ answer.decodes /\ ~answer.failed /\ answer.error = Unset /\ answer.payload

-----------------------------------------------------------------------------
(* Queries.                                                                *)

Peers  == [PeerId : {1, 2}, cost : {1, 2}]
Routes == [PeerId : {1, 2, 3}, public : BOOLEAN, Ipv4Addr : {1, 2}]

\* Every route to a listed peer is reported once and no other, public servers
\* first and then by address.
ASSUME PairsAreSorted ==
  \A peers \in Lists(Peers), routes \in Lists(Routes) \cup {<<r, s, r>> : r, s \in Routes} :
    LET pairs == API!peerRoutePairs(peers, routes)
        known(r) == \E i \in DOMAIN peers : peers[i].PeerId = r.PeerId
    IN  /\ \A i \in DOMAIN pairs : pairs[i].Peer.PeerId = pairs[i].Route.PeerId
        /\ \A r \in Routes :
             Cardinality({i \in DOMAIN pairs : pairs[i].Route = r})
               = IF known(r) THEN Cardinality({i \in DOMAIN routes : routes[i] = r}) ELSE 0
        /\ \A i, j \in DOMAIN pairs :
             i < j => LET a == pairs[i].Route
                          b == pairs[j].Route
                      IN  /\ b.public => a.public
                          /\ a.public = b.public => a.Ipv4Addr <= b.Ipv4Addr

\* Identities that differ in one byte, on either side of every boundary of parts
\* and groups.
zeros  == [i \in 1 .. 16 |-> 0]
Random == {[zeros EXCEPT ![k] = b] : k \in {4, 5, 7, 8, 9, 12, 16}, b \in {0, 1, 33, 128, 255}}
Uuids  == {API!newInstanceUUID(random) : random \in Random}

\* Two instances have the same string exactly when they have the same identity,
\* and an identity that was made up is a random one (version 4, variant 1), with
\* 122 random bits.
ASSUME IdentitiesAreTold ==
  \A v, w \in Random :
    LET a == API!newInstanceUUID(v)
        b == API!newInstanceUUID(w)
        random(x) == <<SubSeq(x, 1, 6), x[7] % 16, x[8], x[9] % 64, SubSeq(x, 10, 16)>>
    IN  /\ API!uuidString(a) = API!uuidString(b) <=> random(v) = random(w)
        /\ a.Part2[3] \div 16 = 4 /\ a.Part3[1] \div 64 = 2

keyed(ids) == [key \in {API!uuidString(id) : id \in ids} |->
                 LET id == CHOOSE i \in ids : API!uuidString(i) = key
                 IN  [id |-> id, instance |-> <<"instance", id>>]]

\* A snapshot has every instance once, by identity, whatever the order of the map.
ASSUME SnapshotsAreSorted ==
  \A a, b, c \in Uuids :
    LET entries == API!snapshot(keyed({a, b, c}))
        value(i) == LET id == entries[i].id IN id.Part1 \o id.Part2 \o id.Part3 \o id.Part4
    IN  /\ {entries[i].id : i \in DOMAIN entries} = {a, b, c}
        /\ \A i, j \in DOMAIN entries :
             i < j => \E n \in 1 .. 16 : /\ SubSeq(value(i), 1, n - 1) = SubSeq(value(j), 1, n - 1)
                                         /\ value(i)[n] < value(j)[n]
        /\ API!Instances(keyed({a, b, c})) = [i \in DOMAIN entries |-> <<"instance", entries[i].id>>]

uuid(n) == API!newInstanceUUID([zeros EXCEPT ![16] = n])
keyOf(n) == API!uuidString(uuid(n))
hosts == [k \in {keyOf(1), keyOf(2)} |->
            IF k = keyOf(1)
            THEN [id |-> uuid(1), owner |-> "application", config |-> Unset, source |-> "user"]
            ELSE [id |-> uuid(2), owner |-> "web", config |-> "config", source |-> "web"]]

route == [PeerId |-> 1, public |-> FALSE, Ipv4Addr |-> 1]
Seen  == [state : {"created", "running", "stopping", "stopped", "other"},
          terminalError : {Unset, "error"},
          rpc : [ListPeer : {Refused, <<[PeerId |-> 1, cost |-> 1]>>},
                 ListRoute : {Refused, <<route>>}, ShowNodeInfo : {Refused, 1, 2},
                 GetForeignNetworkSummary : {Refused, "foreign"}]]

\* Requests may repeat an identity, name one that is not there, and leave one out.
Requested == Lists({uuid(1), uuid(2), uuid(3), Unset})
namedIn(ids) == {n \in 1 .. 3 : \E i \in DOMAIN ids : ids[i] = uuid(n)}

Others == {s \in Seen : s.state = "running" /\ s.terminalError = Unset /\ s.rpc["ShowNodeInfo"] # 1}

\* A query fails only for an instance that was included, was seen running and
\* did not answer; one that does not run is reported all the same.  The server is
\* told of the peers and routes that the application would be told of.
ASSUME CollectIsExact ==
  \A ids \in Requested, s1 \in Seen, s2 \in Others :
    LET seen(n) == IF n = 1 THEN s1 ELSE s2
        info   == API!collectNetworkInfo(hosts, ids,
                                         [k \in DOMAIN hosts |-> IF k = keyOf(1) THEN s1 ELSE s2])
        asked  == IF namedIn(ids) = {} THEN {1, 2} ELSE namedIn(ids) \cap {1, 2}
        silent == {n \in asked : /\ seen(n).state = "running"
                                 /\ \E m \in API!methods : seen(n).rpc[m] = Refused}
    IN  IF silent # {} THEN info = Refused
        ELSE /\ {info[i].id : i \in DOMAIN info} = {keyOf(n) : n \in asked}
             /\ Len(info) = Cardinality(asked)
             /\ \A i \in DOMAIN info :
                  LET s == seen(IF info[i].id = keyOf(1) THEN 1 ELSE 2) IN
                  /\ info[i].info.Running <=> s.state \in {"running", "stopping"}
                  /\ info[i].info.ErrorMsg = s.terminalError
                  /\ s.state = "running" =>
                       info[i].info.PeerRoutePairs
                         = API!peerRoutePairs(API!ListPeer(s.rpc), API!ListRoute(s.rpc))
                  /\ info[i].info.VirtualIpv4 # Unset => s.state = "running" /\ s.rpc["ShowNodeInfo"] = 1

\* A query of the server that cannot be read or fails is an error to it, never an
\* empty answer, and every answer took some time.
ASSUME FailuresAreReported ==
  \A request \in [decodes : BOOLEAN, rpc : BOOLEAN, known : BOOLEAN, payload : BOOLEAN],
     s \in Seen, micros \in 0 .. 1 :
    LET answer  == API!collectNetworkInfo(hosts, <<uuid(1)>>, [k \in DOMAIN hosts |-> s])
        reply   == API!handle(request, answer, micros)
    IN  /\ reply.RuntimeUs > 0
        /\ reply.Response # Refused =>
             \A f \in DOMAIN request : request[f] /\ Len(reply.Response) = 1

\* The configuration server reads the configuration of exactly the instances it
\* may also write: its own.  It is told of every instance it asks about by an
\* identity it was given.
ASSUME ReadableIsWritable ==
  /\ API!instanceIDs(hosts) = <<uuid(1), uuid(2)>>
  /\ \A ids \in Requested :
       LET metas == API!listNetworkInstanceMeta(hosts, ids) IN
       /\ {metas[i].InstId : i \in DOMAIN metas} = {uuid(n) : n \in namedIn(ids) \cap {1, 2}}
       /\ \A i \in DOMAIN metas :
            LET shown == API!getConfig(hosts, [Id |-> metas[i].InstId]) IN
            /\ metas[i].ConfigPermission = 0 <=> shown # Refused
            /\ shown # Refused => shown = "config"
  /\ \A u \in {Unset, uuid(1), uuid(3)} : API!getConfig(hosts, [Id |-> u]) = Refused

-----------------------------------------------------------------------------
(* A history of patches: the fields, whether the guest applied them, and   *)
(* whether the result could be read back.  lost are the fields that were   *)
(* patched since without being read back.                                  *)

Fields  == {"Acl", "PortForwards", "Hostname"}
Patches == [fields : SUBSET Fields \ {{}}, applied : BOOLEAN, readBack : BOOLEAN]

patchStep(h, p) ==
  LET sent == API!hostedConfigPatch(p.fields)
      guest == [f \in Fields |-> IF p.applied /\ f \in sent THEN h.n ELSE h.guest[f]]
  IN  [n     |-> h.n + 1,
       guest |-> guest,
       entry |-> IF p.readBack THEN API!storePatch(h.entry, guest, p.fields) ELSE h.entry,
       lost  |-> IF p.readBack THEN h.lost \ sent
                 ELSE IF p.applied THEN h.lost \cup sent ELSE h.lost,
       saved |-> p.readBack]

original == [f \in Fields |-> 0]
unpatched == [n |-> 1, guest |-> original, lost |-> {}, saved |-> TRUE,
              entry |-> [config |-> original, configTOML |-> original]]

\* A patch that was read back leaves the guest's configuration in the text that
\* a restoration starts from.  The document the server is shown agrees with it,
\* but for the fields of an earlier patch that was applied and could not be read
\* back: they stay stale until they are patched again.
ASSUME PatchesAreKept ==
  \A p, q, r \in Patches :
    LET h == FoldLeft(patchStep, unpatched, <<p, q, r>>) IN
    /\ h.saved => h.entry.configTOML = h.guest
    /\ \A f \in Fields \ h.lost : h.entry.config[f] = h.guest[f]
    /\ h.guest["Hostname"] = 0

=============================================================================
