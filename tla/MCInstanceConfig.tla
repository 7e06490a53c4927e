-------------------------- MODULE MCInstanceConfig --------------------------
(***************************************************************************)
(* The functions of InstanceConfig on all inputs that differ in what the   *)
(* code tells apart, a few parts of a configuration at a time.             *)
(***************************************************************************)
EXTENDS InstanceConfig, FiniteSets

Lists(S) == {<<>>} \cup {<<x>> : x \in S} \cup {<<x, y>> : x, y \in S}

Texts == [utf8 : BOOLEAN, runes : {0, 1, 32, 33}, controls : SUBSET {"c0", "del"}]
plain == [utf8 |-> TRUE, runes |-> 5, controls |-> {}]

Endpoints ==
  [utf8 : BOOLEAN, trimmed : BOOLEAN, absolute : BOOLEAN, scheme : {"tcp", "TCP", "udp", "ws"},
   extra : BOOLEAN, host : {"none", "name", "address"}, port : {Unset, 0, 1, 65535, 65536}]
Few ==
  {e \in Endpoints : /\ e.utf8 /\ e.trimmed /\ e.absolute /\ ~e.extra
                     /\ e.host # "none" /\ e.scheme # "ws" /\ e.port \in {0, 1}}

Servers ==
  [utf8 : {TRUE}, trimmed : BOOLEAN, form : {"txt", "literal", "socket", "authority", "garbled"},
   clean : BOOLEAN, family : {Unset, "4", "6", "mapped"}, port : {Unset, 0, 1, 65535, 65536},
   colon : BOOLEAN]

Sockets  == [family : {"4", "6", "none"}, port : {0, 1}]
Forwards == [Protocol : {"tcp", "udp", "sctp"}, Bind : Sockets, Destination : Sockets]
Rules    == {f \in Forwards : f.Bind.family = "4" /\ f.Destination.family = "4"}

Keys == [length : {0, 31, 32}, of : {"caller"}]
k1   == [length |-> 32, of |-> "first"]
k2   == [length |-> 32, of |-> "second"]

fresh == NewInstanceConfigBuilder(plain)
base  == NetworkSecret(fresh, plain)

Secured == {base, SecureMode(base)} \cup {SecureModeWithPrivateKey(base, key) : key \in Keys}

P2Ps  == [Disable : BOOLEAN, Need : BOOLEAN, Lazy : BOOLEAN]
Punch == [TCP : BOOLEAN, UDP : BOOLEAN, SymmetricUDP : BOOLEAN]

Builders ==
  {fresh}
  \cup {NetworkSecret(NewInstanceConfigBuilder(name), secret) : name, secret \in Texts}
  \cup {SecureMode(NetworkSecret(fresh, secret)) : secret \in Texts}
  \cup {Hostname(b, name) : b \in Secured, name \in Texts}
  \cup {IPv4(base, [family |-> f, bits |-> n]) : f \in {"4", "6", "none"}, n \in {-1, 0, 31, 32}}
  \cup UNION {{AddPeers(base, uris), AddListeners(base, uris)} : uris \in Lists(Few)}
  \cup {AddListeners(AddPeers(base, <<e>>), <<e>>) : e \in Endpoints}
  \cup {AddPeers(base, <<e>>) : e \in Endpoints}
  \cup {AddPortForwards(b, f) : b \in Secured, f \in Lists(Rules)}
  \cup {STUNServers(STUNServersV6(base, <<s>>), <<>>) : s \in Servers}
  \cup {STUNServers(base, <<s, s>>) : s \in Servers}
  \cup {Encryption(HolePunching(P2P(b, p), h), TRUE) : b \in Secured, p \in P2Ps, h \in Punch}
  \cup {HolePunching(STUNServers(base, <<>>), h) : h \in Punch}

built(builder) == Build(builder, k1).document

-----------------------------------------------------------------------------
(* The builder.                                                            *)

\* Building again gives the same configuration, whatever key would be generated
\* now, and a refused Build changes nothing.
ASSUME BuildIsRepeatable ==
  \A b \in Builders :
    LET first  == Build(b, k1)
        second == Build(first.builder, k2)
    IN  /\ second = first
        /\ first.document = Refused => first.builder = b
        /\ [first.builder EXCEPT !.document.securePrivateKey = NoKey]
             = [b EXCEPT !.document.securePrivateKey = NoKey]

\* The last secure-mode call decides: a new automatic key is not the one of an
\* earlier configuration of the builder, nor one the caller gave.
ASSUME LastSecureModeWins ==
  \A b \in Secured, key \in {k \in Keys : k.length = 32} :
    LET again == Build(b, k1).builder IN
    /\ Build(SecureMode(again), k2).document.securePrivateKey = k2
    /\ Build(SecureModeWithPrivateKey(again, key), k2).document.securePrivateKey = key

\* Secure mode never runs with an empty secret or without a whole key.
ASSUME SecureModeIsSecure ==
  \A b \in Builders :
    LET d == built(b) IN
    d # Refused /\ d.secureMode # "disabled"
      => d.networkSecret.runes > 0 /\ d.securePrivateKey.length = 32

\* Normalising is final: the endpoints of a configuration are normal and
\* distinct, a peer can be dialled and a listener is an address.
ASSUME EndpointsAreNormal ==
  \A b \in Builders :
    LET d == built(b) IN
    d # Refused =>
      /\ normalizeEndpoints(d.peers, FALSE) = d.peers
      /\ normalizeEndpoints(d.listeners, TRUE) = d.listeners
      /\ \A i \in DOMAIN d.peers : d.peers[i].scheme \in {"tcp", "udp"} /\ d.peers[i].port # 0
      /\ \A i \in DOMAIN d.listeners : d.listeners[i].host = "address"
      /\ Len(d.peers) = Len(b.document.peers)

\* A literal STUN server is of the family of its list, however it is written.
ASSUME ServersAreOfTheirFamily ==
  \A s \in Servers, ipv6 \in BOOLEAN :
    validSTUNServer(s, ipv6) =>
      /\ s.form # "garbled"
      /\ s.form \in {"literal", "socket"} => s.family = IF ipv6 THEN "6" ELSE "4"
      /\ s.form = "authority" => s.family \in {Unset, IF ipv6 THEN "6" ELSE "4"}
      /\ s.form \in {"socket", "authority"} => s.port # 0

-----------------------------------------------------------------------------
(* The text.                                                               *)

flag(lines, name) == valueIn(lines, "flags", name)

\* What the guest reads, in the terms of the builder.
read(lines) ==
  [networkName   |-> unquote(valueIn(lines, "network_identity", "network_name")),
   networkSecret |-> unquote(valueIn(lines, "network_identity", "network_secret")),
   hostname      |-> unquote(valueOf(lines, 0, "hostname")),
   ipv4          |-> valueOf(lines, 0, "ipv4"),
   peers         |-> valuesIn(lines, "peer", "uri"),
   listeners     |-> IF valueOf(lines, 0, "listeners") = Unset THEN <<>>
                     ELSE valueOf(lines, 0, "listeners"),
   portForwards  |-> [i \in DOMAIN headersOf(lines, "port_forward") |->
                        [Protocol    |-> valuesIn(lines, "port_forward", "proto")[i],
                         Bind        |-> valuesIn(lines, "port_forward", "bind_addr")[i],
                         Destination |-> valuesIn(lines, "port_forward", "dst_addr")[i]]],
   stunServers   |-> valueOf(lines, 0, "stun_servers"),
   stunServersV6 |-> valueOf(lines, 0, "stun_servers_v6"),
   p2p           |-> IF flag(lines, "need_p2p") = Unset THEN Unset
                     ELSE [Disable |-> flag(lines, "disable_p2p"), Need |-> flag(lines, "need_p2p"),
                           Lazy |-> flag(lines, "lazy_p2p")],
   holePunching  |-> IF flag(lines, "disable_tcp_hole_punching") = Unset THEN Unset
                     ELSE [TCP |-> ~flag(lines, "disable_tcp_hole_punching"),
                           UDP |-> ~flag(lines, "disable_udp_hole_punching"),
                           SymmetricUDP |-> ~flag(lines, "disable_sym_hole_punching")],
   encryption    |-> flag(lines, "enable_encryption"),
   secured       |-> valueIn(lines, "secure_mode", "enabled"),
   key           |-> valueIn(lines, "secure_mode", "local_private_key"),
   public        |-> valueIn(lines, "secure_mode", "local_public_key")]

holdsDelete(text) == "del" \in text.controls

\* A configuration that was built is a TOML document, identity included, from
\* which the guest reads what the application asked for: what it left out is
\* absent, what it emptied is an empty list, every table has its own keys, and
\* the public key is that of the private key.  The exception is a network name
\* or secret with U+007F, which Build accepts and TOML does not.
ASSUME ConfigSurvives ==
  \A b \in Builders :
    LET d     == built(b)
        lines == bindInstanceIdentity(encodeInstanceConfig(d), "id", d.networkName)
        seen  == read(lines)
    IN  d # Refused =>
          /\ wellFormed(lines)
          /\ valueOf(lines, 0, "instance_id") = "id"
          /\ holdsDelete(d.networkName) <=> seen.networkName = Refused
          /\ holdsDelete(d.networkSecret) <=> seen.networkSecret = Refused
          /\ unquote(valueOf(lines, 0, "instance_name")) = seen.networkName
          /\ seen.networkName \in {Refused, b.document.networkName}
          /\ seen.networkSecret \in {Refused, b.document.networkSecret}
          /\ \A f \in (DOMAIN d \cap DOMAIN seen) \ {"networkName", "networkSecret"} :
               seen[f] = d[f]
          /\ IF d.secureMode = "disabled" THEN {seen.secured, seen.key, seen.public} = {Unset}
             ELSE /\ seen.secured /\ seen.key = d.securePrivateKey
                  /\ seen.public = publicKey(d.securePrivateKey)

=============================================================================
