--------------------------- MODULE InstanceConfig ---------------------------
(***************************************************************************)
(* The configuration of an instance: the builder and its validation        *)
(* (internal/host instance_config.go), the TOML text made of it            *)
(* (instance_config_toml.go) and the identity put in front of that text    *)
(* (bindInstanceIdentity in management.go).                                *)
(*                                                                         *)
(* Data.  A value of the caller is the answers to the questions the        *)
(* validation asks about it:                                               *)
(*   text      utf8, the number of runes and the control characters: "c0"  *)
(*             those below a space, "del" is U+007F;                       *)
(*   endpoint  what url.ParseRequestURI finds; port Unset when there is    *)
(*             none; extra is credentials, path, query or fragment;        *)
(*   server    a STUN server: a "txt" name, a "literal" address, a         *)
(*             "socket" address, the "authority" of a URL, or "garbled";   *)
(*             clean when its host passes validSTUNHostname, colon when    *)
(*             one ends it;                                                *)
(*   key       a length and whose key it is.                               *)
(* Unset is Go's nil, or a list whose flag is not set; Refused is what a   *)
(* function that reports an error returns.  Values are copies, as the code *)
(* makes them (clone, append to nil).                                      *)
(***************************************************************************)
EXTENDS Integers, Sequences, SequencesExt

CONSTANTS Unset, Refused

NoKey == [length |-> 0, of |-> Unset]

-----------------------------------------------------------------------------
(* The builder.                                                            *)

NewInstanceConfigBuilder(networkName) ==
  [document |->
     [networkName |-> networkName, networkSecret |-> Unset, hostname |-> Unset,
      ipv4 |-> Unset, peers |-> <<>>, listeners |-> <<>>, portForwards |-> <<>>,
      stunServers |-> Unset, stunServersV6 |-> Unset, p2p |-> Unset,
      holePunching |-> Unset, encryption |-> Unset,
      secureMode |-> "disabled", securePrivateKey |-> NoKey],
   networkSecretSet |-> FALSE]

NetworkSecret(builder, secret) ==
  [builder EXCEPT !.document.networkSecret = secret, !.networkSecretSet = TRUE]

Hostname(builder, hostname)     == [builder EXCEPT !.document.hostname = hostname]
IPv4(builder, prefix)           == [builder EXCEPT !.document.ipv4 = prefix]
AddPeers(builder, uris)         == [builder EXCEPT !.document.peers = @ \o uris]
AddListeners(builder, uris)     == [builder EXCEPT !.document.listeners = @ \o uris]
AddPortForwards(builder, rules) == [builder EXCEPT !.document.portForwards = @ \o rules]
STUNServers(builder, servers)   == [builder EXCEPT !.document.stunServers = servers]
STUNServersV6(builder, servers) == [builder EXCEPT !.document.stunServersV6 = servers]
P2P(builder, policy)            == [builder EXCEPT !.document.p2p = policy]
HolePunching(builder, policy)   == [builder EXCEPT !.document.holePunching = policy]
Encryption(builder, enabled)    == [builder EXCEPT !.document.encryption = enabled]

SecureMode(builder) ==
  [builder EXCEPT !.document.secureMode = "automatic", !.document.securePrivateKey = NoKey]

SecureModeWithPrivateKey(builder, privateKey) ==
  [builder EXCEPT !.document.secureMode = "manual", !.document.securePrivateKey = privateKey]

-----------------------------------------------------------------------------
(* Validation.                                                             *)

empty(text) == text.runes = 0

validIdentity(builder) ==
  LET d == builder.document IN
  /\ d.networkName.utf8 /\ ~empty(d.networkName)
  /\ builder.networkSecretSet /\ d.networkSecret.utf8

validHostname(hostname) ==
  hostname # Unset => /\ hostname.utf8 /\ hostname.runes \in 1 .. 32
                      /\ hostname.controls = {}

validIPv4(prefix) == prefix # Unset => prefix.family = "4" /\ prefix.bits \in 0 .. 31

validPortForwards(forwards) ==
  /\ \A i \in DOMAIN forwards :
       /\ forwards[i].Protocol \in {"tcp", "udp"}
       /\ forwards[i].Bind.family = "4" /\ forwards[i].Destination.family = "4"
       /\ forwards[i].Destination.port # 0
  /\ IsInjective(forwards)

fitsUint16(port) == port < 2^16      \* strconv.ParseUint(port, 10, 16)

lower(scheme) == IF scheme \in {"tcp", "TCP"} THEN "tcp" ELSE scheme

normalizeEndpoint(value, listener) ==
  IF /\ value.utf8 /\ value.trimmed
     /\ value.absolute /\ lower(value.scheme) \in {"tcp", "udp"}
     /\ ~value.extra /\ value.host # "none"
     /\ value.port # Unset => fitsUint16(value.port) /\ (listener \/ value.port # 0)
     /\ listener => value.host = "address"
  THEN [value EXCEPT !.scheme = lower(@)]
  ELSE Refused

\* Duplicates are looked for among the normalised endpoints.
normalizeEndpoints(values, listener) ==
  LET normalized == [i \in DOMAIN values |-> normalizeEndpoint(values[i], listener)]
  IN  IF (\E i \in DOMAIN values : normalized[i] = Refused) \/ ~IsInjective(normalized)
      THEN Refused ELSE normalized

validSTUNAddressFamily(family, ipv6) == family = IF ipv6 THEN "6" ELSE "4"

validSTUNServer(value, ipv6) ==
  /\ value.utf8 /\ value.trimmed
  /\ \/ value.form = "txt" /\ value.clean
     \/ value.form = "literal" /\ validSTUNAddressFamily(value.family, ipv6)
     \/ /\ value.form = "socket" /\ value.port # 0
        /\ validSTUNAddressFamily(value.family, ipv6)
     \/ /\ value.form = "authority" /\ value.clean
        /\ ~value.colon
        /\ value.port # Unset => fitsUint16(value.port) /\ value.port # 0
        /\ value.family # Unset => validSTUNAddressFamily(value.family, ipv6)

validSTUNServers(values, ipv6) ==
  values # Unset => /\ \A i \in DOMAIN values : validSTUNServer(values[i], ipv6)
                    /\ IsInjective(values)

\* The key of the configuration.  A key generated for it stays in the builder.
secureModePrivateKey(d, generated) ==
  CASE d.secureMode = "automatic" ->
         IF d.securePrivateKey.length = 0 THEN generated ELSE d.securePrivateKey
    [] d.secureMode = "manual" ->
         IF d.securePrivateKey.length = 32 THEN d.securePrivateKey ELSE Refused

\* Build, with the key that rand.Reader would generate: the builder afterwards
\* and the document of the configuration.
Build(builder, generated) ==
  LET d         == builder.document
      secure    == d.secureMode # "disabled"
      peers     == normalizeEndpoints(d.peers, FALSE)
      listeners == normalizeEndpoints(d.listeners, TRUE)
      key       == IF secure THEN secureModePrivateKey(d, generated) ELSE d.securePrivateKey
      valid     == /\ validIdentity(builder)
                   /\ validHostname(d.hostname) /\ validIPv4(d.ipv4)
                   /\ peers # Refused /\ listeners # Refused
                   /\ validPortForwards(d.portForwards)
                   /\ validSTUNServers(d.stunServers, FALSE)
                   /\ validSTUNServers(d.stunServersV6, TRUE)
                   /\ d.holePunching # Unset /\ d.holePunching.SymmetricUDP
                        => d.holePunching.UDP
                   /\ secure => ~empty(d.networkSecret) /\ key # Refused
  IN  IF ~valid THEN [builder |-> builder, document |-> Refused]
      ELSE [builder  |-> [builder EXCEPT !.document.securePrivateKey = key],
            document |-> [d EXCEPT !.peers = peers, !.listeners = listeners,
                                   !.securePrivateKey = key]]

-----------------------------------------------------------------------------
(* The TOML text, line by line.                                            *)

\* quoteTOMLString writes JSON, which escapes the characters below a space,
\* leaves U+007F as it is and replaces what is not UTF-8.
quoteTOMLString(text) ==
  [text |-> [text EXCEPT !.utf8 = TRUE], bare |-> text.controls \ {"c0"}]

field(name, value)   == <<[kind |-> "field", name |-> name, value |-> value]>>
table(name)          == <<[kind |-> "table", name |-> name, value |-> Unset]>>
arrayTable(name)     == <<[kind |-> "array", name |-> name, value |-> Unset]>>
only(condition, lines) == IF condition THEN lines ELSE <<>>
forEach(values, lines(_)) == FlattenSeq([i \in DOMAIN values |-> lines(values[i])])

writeTOMLStringField(name, text) == field(name, quoteTOMLString(text))

publicKey(key) == [length |-> 32, of |-> key.of, public |-> TRUE]

encodeFlags(d) ==
  only(d.encryption # Unset \/ d.p2p # Unset \/ d.holePunching # Unset,
       table("flags")
       \o only(d.encryption # Unset, field("enable_encryption", d.encryption))
       \o only(d.p2p # Unset,
               field("disable_p2p", d.p2p.Disable) \o field("need_p2p", d.p2p.Need)
               \o field("lazy_p2p", d.p2p.Lazy))
       \o only(d.holePunching # Unset,
               field("disable_tcp_hole_punching", ~d.holePunching.TCP)
               \o field("disable_udp_hole_punching", ~d.holePunching.UDP)
               \o field("disable_sym_hole_punching", ~d.holePunching.SymmetricUDP)))

encodeSecureMode(d) ==
  only(d.secureMode # "disabled",
       table("secure_mode") \o field("enabled", TRUE)
       \o field("local_private_key", d.securePrivateKey)
       \o field("local_public_key", publicKey(d.securePrivateKey)))

encodePortForward(forward) ==
  arrayTable("port_forward") \o field("bind_addr", forward.Bind)
  \o field("dst_addr", forward.Destination) \o field("proto", forward.Protocol)

encodeInstanceConfig(d) ==
  only(d.hostname # Unset, writeTOMLStringField("hostname", d.hostname))
  \o only(d.ipv4 # Unset, field("ipv4", d.ipv4))
  \o only(d.listeners # <<>>, field("listeners", d.listeners))
  \o only(d.stunServers # Unset, field("stun_servers", d.stunServers))
  \o only(d.stunServersV6 # Unset, field("stun_servers_v6", d.stunServersV6))
  \o table("network_identity")
  \o writeTOMLStringField("network_name", d.networkName)
  \o writeTOMLStringField("network_secret", d.networkSecret)
  \o forEach(d.peers, LAMBDA peer : arrayTable("peer") \o field("uri", peer))
  \o forEach(d.portForwards, encodePortForward)
  \o encodeFlags(d) \o encodeSecureMode(d)

bindInstanceIdentity(lines, id, name) ==
  field("instance_id", id) \o writeTOMLStringField("instance_name", name) \o lines

-----------------------------------------------------------------------------
(* A TOML reader, as the guest has one.                                    *)

\* The header whose table line i belongs to; 0 is the root.
headerOf(lines, i) ==
  LET headers == {j \in 1 .. i : lines[j].kind # "field"}
  IN  IF headers = {} THEN 0 ELSE CHOOSE j \in headers : \A k \in headers : k <= j

fieldsOf(lines, t) ==
  {i \in DOMAIN lines : lines[i].kind = "field" /\ headerOf(lines, i) = t}

\* No key twice in a table, no table twice; an array of tables is not a table.
wellFormed(lines) ==
  \A i, j \in DOMAIN lines :
    i # j /\ lines[i].name = lines[j].name
      => CASE lines[i].kind = "field" /\ lines[j].kind = "field" ->
                headerOf(lines, i) # headerOf(lines, j)
           [] lines[i].kind = "array" /\ lines[j].kind = "array" -> TRUE
           [] OTHER -> FALSE

valueOf(lines, t, name) ==
  LET found == {i \in fieldsOf(lines, t) : lines[i].name = name}
  IN  IF found = {} THEN Unset ELSE lines[CHOOSE i \in found : TRUE].value

headersOf(lines, name) ==
  SelectSeq([i \in DOMAIN lines |-> i],
            LAMBDA i : lines[i].kind # "field" /\ lines[i].name = name)

valueIn(lines, name, key) ==
  LET headers == headersOf(lines, name)
  IN  IF headers = <<>> THEN Unset ELSE valueOf(lines, headers[1], key)

valuesIn(lines, name, key) ==
  LET headers == headersOf(lines, name)
  IN  [i \in DOMAIN headers |-> valueOf(lines, headers[i], key)]

\* A basic string must not hold a bare control character.
unquote(quoted) ==
  IF quoted = Unset THEN Unset ELSE IF quoted.bare # {} THEN Refused ELSE quoted.text

=============================================================================
