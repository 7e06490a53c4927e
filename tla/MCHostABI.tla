------------------------------ MODULE MCHostABI ------------------------------
(***************************************************************************)
(* HostABI on a small instance, and the functions of HostWire, NetStd and  *)
(* CipherCache on all inputs that differ in what the code tells apart.     *)
(***************************************************************************)
EXTENDS HostABI, TLC

CONSTANTS Wrong, Absent

Symmetry == Permutations(Ops) \cup Permutations(Items)

Std == INSTANCE NetStd WITH Interfaces <- {7}

Cache == INSTANCE CipherCache WITH Capacity <- 2, MaxUint32 <- 63, None <- Absent

-----------------------------------------------------------------------------
(* Addresses.                                                              *)

IPs       == [shape : {"short", "mapped", "long"}, host : {0, 1}]
Peers     == [ip : IPs, port : {0, 65535, 65536}, zone : {Absent, 7, 8}]
PeerWires == [family : {0, 4, 5, 6}, ip : IPs, port : {0, 9}, flowinfo : {0, 1}, scope : {0, 7, 8}]

withSource(w, optional) ==
  [f \in DOMAIN w \cup {"optional"} |-> IF f = "optional" THEN optional ELSE w[f]]
noSource == [family |-> 0, ip |-> [shape |-> "short", host |-> 0], ifindex |-> 0]
Sources  == [family : {0, 4, 5, 6}, ip : IPs, ifindex : {0, 1}]

\* An IPv4 address has no zone.
canonical(peer) == IF Std!To4(peer.ip) THEN [peer EXCEPT !.zone = Absent] ELSE peer

\* An address survives the way to the guest and back; what the guest writes is
\* accepted only as the one encoding of its address, but for an IPv4 address
\* written as IPv6, which comes back as IPv4.
ASSUME AddressesSurvive ==
  /\ \A peer \in Peers :
       LET w == Std!encodeUDPMetadata(peer)
       IN  w # Wrong => /\ Std!decodePeer(w) = canonical(peer)
                        /\ Std!decodeSocketAddress(w, FALSE) = canonical(peer)
  /\ \A w \in PeerWires :
       LET peer == Std!decodeSocketAddress(w, FALSE)
       IN  (peer # Wrong /\ ~(w.family = 6 /\ w.ip.shape = "mapped"))
             => Std!encodeUDPMetadata(peer) = withSource(w, noSource)

\* The guest can answer every datagram it receives: the sender's address, as the
\* host wrote it, is accepted for sending.
ASSUME DatagramsCanBeAnswered ==
  \A peer \in Peers, length \in {0, 65535} :
    LET w == Std!encodeUDPMetadata(peer)
    IN  w # Wrong => Std!tryUDPSend(length, w, TRUE, "ok") = "ok"

\* A datagram is sent only to the address that was asked for and from where the
\* host sends: an option the host cannot honour is refused.
ASSUME SendsAreExact ==
  \A w \in PeerWires, source \in Sources :
    LET wire == withSource(w, source)
    IN  Std!tryUDPSend(1, wire, TRUE, "ok") = "ok"
          => /\ source = noSource
             /\ Std!decodeSocketAddress(w, FALSE) # Wrong

-----------------------------------------------------------------------------
(* Options.                                                                *)

Texts == {t \in [present : 0 .. 2, length : {0, 3, 4}, utf8 : BOOLEAN] : t.length = 0 => t.utf8}

ContextWires == [version : 0 .. 3, markPresent : 0 .. 2, mark : {0, 5}, netns : Texts]
BindWires    == [reuseAddr : 0 .. 3, reusePort : 0 .. 2, onlyV6 : 0 .. 2, device : Texts, rest : {0, 3}]

text(t) == [present |-> IF t = Absent THEN 0 ELSE 1, length |-> IF t = Absent THEN 0 ELSE t, utf8 |-> TRUE]
bit(b)  == IF b THEN 1 ELSE 0

\* The guest's encoding of a context and of a bind policy.
encodeContext(c) ==
  [version     |-> CASE c.version = "V4" -> 0 [] c.version = "V6" -> 1 [] c.version = "Both" -> 2,
   markPresent |-> bit(c.mark # Absent),
   mark        |-> IF c.mark = Absent THEN 0 ELSE c.mark,
   netns       |-> text(c.netns)]
encodeTCPBind(b) ==
  [reuseAddr |-> IF b.reuseAddr = Absent THEN 0 ELSE bit(b.reuseAddr) + 1,
   reusePort |-> bit(b.reusePort),
   onlyV6    |-> bit(b.onlyV6),
   device    |-> text(b.device),
   rest      |-> text(b.device).length]

\* Every option of the program has one encoding: what is decoded is what the
\* guest encoded, and nothing else is decoded.
ASSUME OptionsAreCanonical ==
  /\ \A w \in ContextWires :
       LET c == Std!decodeSocketContext(w, 3)
       IN  c # Wrong => encodeContext(c) = w
  /\ \A c \in [version : {"V4", "V6", "Both"}, mark : {Absent, 0, 5}, netns : {Absent, 0, 3}] :
       Std!decodeSocketContext(encodeContext(c), 3) = c
  /\ \A w \in BindWires :
       LET b == Std!decodeTCPBindPolicy(w)
       IN  (b # Wrong /\ w.device.utf8) => encodeTCPBind(b) = w
  /\ \A b \in [reuseAddr : {Absent, TRUE, FALSE}, reusePort : BOOLEAN, onlyV6 : BOOLEAN,
               device : {Absent, 0, 3}] :
       Std!decodeTCPBindPolicy(encodeTCPBind(b)) = b

\* A name query is decoded only when its lengths account for every byte.
ASSUME QueriesAreCanonical ==
  \A w \in [version : {1, 2}, ipVersion : {0, 4, 5, 6}, markPresent : 0 .. 1, mark : {0, 5},
            netns : Texts, host : [length : {0, 2, 3}, utf8 : BOOLEAN], room : {2, 6, 7, 9, 10}] :
    LET q == Std!decodeDNSQuery(w)
    IN  q # Wrong =>
          /\ w.room = text(q.netns).length + 4 + q.host
          /\ q.host > 0
          /\ (q.mark = Absent) <=> (w.markPresent = 0 /\ w.mark = 0)

\* A result is encoded up to the bridge's limit and not beyond it.
ASSUME ResultsAreBounded ==
  /\ Std!encodeDNSTXT([length |-> Std!maxDNSResultLen - 4, utf8 |-> TRUE]) = Std!maxDNSResultLen
  /\ Std!encodeDNSTXT([length |-> Std!maxDNSResultLen - 3, utf8 |-> TRUE]) = Wrong
  /\ Std!encodeDNSAddresses(<<"ip4", "ip6">>) = 26
  /\ Std!encodeDNSAddresses(<<"ip4", "none">>) = Wrong
  /\ Std!encodeDNSSRV(<<3, 4>>) = 31
  /\ Std!encodeDNSSRV(<<3, Absent>>) = Wrong

-----------------------------------------------------------------------------
(* The standard platform.                                                  *)

AddressWires == {[family |-> 0, ip |-> [shape |-> "short", host |-> 0], port |-> 0, flowinfo |-> 0, scope |-> 0],
                 [family |-> 4, ip |-> [shape |-> "short", host |-> 1], port |-> 9, flowinfo |-> 0, scope |-> 0],
                 [family |-> 6, ip |-> [shape |-> "long", host |-> 1], port |-> 9, flowinfo |-> 0, scope |-> 7]}

\* All requests the guest can make: every context, every policy, every purpose.
Requests ==
  [version : {2}, remote : AddressWires, local : AddressWires,
   context : {encodeContext(c) : c \in [version : {"V4", "V6", "Both"}, mark : {Absent, 5}, netns : {Absent, 3}]},
   room : {3},
   bind : {encodeTCPBind(b) : b \in [reuseAddr : {Absent, TRUE, FALSE}, reusePort : BOOLEAN,
                                     onlyV6 : BOOLEAN, device : {Absent, 3}]},
   purpose : {0, 1, 5, 7, 9}]

\* A stream socket is opened as asked, or not at all: mark, namespace and device
\* are never ignored, a port that should be shared can be, and one that should
\* not is not.
ASSUME StreamPolicyIsHonoured ==
  \A w \in Requests, platform \in Std!Platforms, network \in {"tcp4", "tcp6"} :
    LET o == Std!decodeTCPConnectOptions(w)
        s == Std!ConnectTCP(platform, network, o)
    IN  (o # Wrong /\ s # Wrong) =>
          /\ o.context.mark = Absent /\ o.context.netns = Absent /\ o.bind.device = Absent
          /\ o.purpose \in 0 .. 8 \ {Std!TCPConnectFake}
          /\ o.bind.reuseAddr # Absent => s.applied.reuseAddr = o.bind.reuseAddr
          /\ o.bind.reusePort => s.applied.reusePort \/ s.applied.reuseAddr = TRUE
          /\ (o.bind.onlyV6 /\ network = "tcp6") => s.applied.onlyV6
          /\ Std!ListenTCP(platform, network, o) # Wrong

\* A datagram socket that is to be IPv6 only is bound to one family, and no
\* socket is bound to the other family than its address.
ASSUME DatagramPolicyIsHonoured ==
  \A w \in Requests :
    LET o == Std!decodeUDPBindOptions([w EXCEPT !.bind.reuseAddr = IF @ = 2 THEN 1 ELSE 0])
        s == Std!BindUDP(o)
    IN  (o # Wrong /\ s # Wrong) =>
          /\ o.context.mark = Absent /\ o.context.netns = Absent /\ o.bind.device = Absent
          /\ o.bind.onlyV6 => s.network \in {"udp4", "udp6"}
          /\ o.local # Absent => (s.network = "udp4") = Std!To4(o.local.ip)

\* A name is resolved to addresses without an IPv4 address in IPv6 clothing, so
\* that the guest is told the family it can connect with.
ASSUME LookupsAreUnmapped ==
  \A version \in {0, 4, 6}, literal \in {Absent, "ip4", "ip6", "mapped"} :
    LET found == [network \in {"ip", "ip4", "ip6"} |->
                    IF network = "ip6" THEN <<"ip6", "mapped">> ELSE <<"ip4", "mapped">>]
        addresses == Std!LookupIP([ipVersion |-> version], literal, found)
    IN  /\ "mapped" \notin ToSet(addresses)
        /\ Std!encodeDNSAddresses(addresses) # Wrong

-----------------------------------------------------------------------------
(* Ciphers.                                                                *)

CipherRequests == [algorithm : {1, 2}, key : [bytes : {"a", "b"}, length : {16, 32}]]

reached(requests) ==
  FoldLeft(LAMBDA cache, r : Cache!get(cache, r.algorithm, r.key).cache, Cache!emptyCache, requests)

Histories == UNION {[1 .. n -> {r \in CipherRequests : Cache!validKey(r.algorithm, r.key)}] : n \in 0 .. 5}

\* Whatever was sealed and opened before, and whatever had to make room for it,
\* the cipher in use is the one for the algorithm and the whole key; the cache
\* never outgrows its capacity and keeps no cipher it has forgotten the age of.
ASSUME CiphersAreRight ==
  \A history \in Histories :
    LET cache == reached(history)
    IN  /\ \A r \in CipherRequests :
             LET got == Cache!get(cache, r.algorithm, r.key)
             IN  got.cipher = IF Cache!validKey(r.algorithm, r.key)
                              THEN Cache!newCipher(r.algorithm, r.key) ELSE Absent
        /\ Cardinality(DOMAIN cache.entries) = cache.size
        /\ cache.size <= 2
        /\ DOMAIN cache.entries = {cache.order[i] : i \in 0 .. cache.size - 1}

\* No length makes sealing or opening touch memory the guest did not offer, also
\* where the length of text and tag wraps around.
ASSUME CryptoStaysInMemory ==
  \A textLength \in 0 .. 63, owned \in 0 .. 63, nonce \in {0, 12}, mem \in BOOLEAN, authentic \in BOOLEAN :
    LET cipher == Cache!newCipher(1, [bytes |-> "a", length |-> 16])
    IN  /\ Cache!cryptoAEADSeal(cipher, nonce, mem, textLength, owned).touched <= owned
        /\ Cache!cryptoAEADOpen(cipher, nonce, mem, textLength, owned, authentic).touched <= owned
        /\ Cache!cryptoAEADSeal(Absent, nonce, mem, textLength, owned).status = "fallback"

=============================================================================
