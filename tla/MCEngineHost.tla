---------------------------- MODULE MCEngineHost ----------------------------
(***************************************************************************)
(* EngineHost on small instances, and the functions of EngineConfig and    *)
(* EngineEvents on all inputs that differ in what the code tells apart.    *)
(***************************************************************************)
EXTENDS EngineHost, SequencesExt

CONSTANTS Wrong, Absent

Config == INSTANCE EngineConfig

-----------------------------------------------------------------------------
(* Envelopes.                                                              *)

Addresses == [family : {"4", "6", "mapped", "none"}, host : {1}]
Optional  == Addresses \cup {Absent}
Lists(S)  == {<<>>} \cup {<<x>> : x \in S} \cup {<<x, y>> : x, y \in S}
Urls      == [parses : BOOLEAN, scheme : BOOLEAN]
Sources   == [IP : Addresses, IfIndex : {0, 3}]

bare == [PublicIPv4 |-> Absent, PublicIPv6 |-> Absent, InterfaceIPv4s |-> <<>>,
         InterfaceIPv6s |-> <<>>, MappedListeners |-> <<>>, LocalIPs |-> <<>>,
         ProtectedTCPPorts |-> <<>>, PreferredIPv6Sources |-> <<>>]

Snapshots ==
  {[bare EXCEPT !.PublicIPv4 = a, !.PublicIPv6 = b] : a, b \in Optional}
  \cup {[bare EXCEPT !.InterfaceIPv4s = a, !.InterfaceIPv6s = b] : a, b \in Lists(Addresses)}
  \cup {[bare EXCEPT !.MappedListeners = a, !.LocalIPs = b] : a \in Lists(Urls), b \in Lists(Addresses)}
  \cup {[bare EXCEPT !.PreferredIPv6Sources = a, !.ProtectedTCPPorts = b] :
          a \in Lists(Sources), b \in Lists({22, 80})}

families(addresses) == {addresses[i].family : i \in DOMAIN addresses}

\* The guest is never told of an address in a place of the other family, nor of
\* an IPv4 address in its IPv6 form where an IPv6 address is meant, and nothing
\* of an accepted snapshot is left out.
ASSUME SnapshotsAreTyped ==
  \A snapshot \in Snapshots :
    LET e == Config!encodeEnvironmentSnapshot(snapshot) IN
    IF e = Wrong
    THEN \/ snapshot.PublicIPv4 # Absent /\ snapshot.PublicIPv4.family # "4"
         \/ snapshot.PublicIPv6 # Absent /\ snapshot.PublicIPv6.family # "6"
         \/ families(snapshot.InterfaceIPv4s) \ {"4"} # {}
         \/ families(snapshot.InterfaceIPv6s) \ {"6"} # {}
         \/ "none" \in families(snapshot.LocalIPs)
         \/ \E i \in DOMAIN snapshot.PreferredIPv6Sources :
              snapshot.PreferredIPv6Sources[i].IP.family # "6"
         \/ \E i \in DOMAIN snapshot.MappedListeners :
              snapshot.MappedListeners[i] # [parses |-> TRUE, scheme |-> TRUE]
    ELSE /\ families(e.interface_ipv4s) \subseteq {"4"}
         /\ families(e.interface_ipv6s) \subseteq {"6"}
         /\ \A i \in DOMAIN e.preferred_ipv6_sources : e.preferred_ipv6_sources[i].ip.family = "6"
         /\ e.public_ipv4 \in {Absent} \cup [family : {"4"}, host : {1}]
         /\ e.public_ipv6 \in {Absent} \cup [family : {"6"}, host : {1}]
         /\ e.interface_ipv4s = snapshot.InterfaceIPv4s
         /\ e.interface_ipv6s = snapshot.InterfaceIPv6s
         /\ e.mapped_listeners = snapshot.MappedListeners
         /\ e.local_ips = snapshot.LocalIPs
         /\ e.protected_tcp_ports = snapshot.ProtectedTCPPorts
         /\ Len(e.preferred_ipv6_sources) = Len(snapshot.PreferredIPv6Sources)

Given == {Absent, "given"}
WebOptions == [Endpoint : Given, MachineID : Given, Hostname : Given, SecureMode : BOOLEAN]

\* A web client is created with an endpoint, a machine and a host name, the
\* machine's own name only when the application gave none.
ASSUME WebClientsAreNamed ==
  \A o \in WebOptions, machine \in {Absent, "machine"} :
    LET e == Config!encodeWebClientEnvelope(Config!ConnectWebClient(o, machine, "linux"), bare) IN
    IF e = Wrong
    THEN Absent \in {o.Endpoint, o.MachineID} \/ (o.Hostname = Absent /\ machine = Absent)
    ELSE /\ Absent \notin {e.endpoint, e.machine_id, e.hostname}
         /\ o.Hostname = "given" <=> e.hostname = "given"
         /\ e.secure_mode = o.SecureMode

Services == [Sockets : Given, DNS : Given, Environment : Given]

ASSUME ServicesAreComplete ==
  \A s \in Services :
    \A service \in DOMAIN s :
      /\ Config!mergeServices(s)[service] # Absent
      /\ s[service] # Absent => Config!mergeServices(s)[service] = s[service]

Contexts == [done : BOOLEAN, deadline : {Absent, 1}, values : {"values"}]

\* A host that could not be created leaves nothing open, whichever step failed;
\* one that was created runs the guest its protocol was made for, with every
\* service, owns its reactor, its guest and its runtime, has a packet queue of at
\* least one packet, and lives on when the context it was created with ends.
ASSUME FailedHostLeavesNothing ==
  \A artifact, protocol \in {"commit 1", "commit 2"}, ctx \in Contexts, s \in Services,
     capacity \in {-1, 0, 1}, failed \in 1 .. 6 :
   \A then \in {ctx, [ctx EXCEPT !.done = TRUE]} :
    LET host == Config!New(artifact, protocol, ctx, then, s, capacity, failed) IN
    IF host.ok THEN /\ ~then.done
                    /\ host.open = {"lifetime", "runtime", "reactor", "module"}
                    /\ host.capacity > 0
                    /\ artifact = protocol
                    /\ ~host.ctx.done /\ host.ctx.deadline = Absent /\ host.ctx.values = ctx.values
                    /\ \A service \in DOMAIN host.services : host.services[service] # Absent
               ELSE host.open = {}

-----------------------------------------------------------------------------
(* Events.                                                                 *)

Events == INSTANCE EngineEvents WITH Capacity <- 2

E(n) == [kind |-> "kind", message |-> IF n = 2 THEN "" ELSE ToString(n)]

newSink == [journal |-> Events!newEventJournal, events |-> <<>>]

sinkOf(h) == h.reactor.eventSinks[h.handle]

\* A new instance: the old one's sink goes.  What was emitted to the new one,
\* what the guest was told was delivered, and what was received.
instance(h) ==
  LET reactor == Events!RegisterEventSink(Events!UnregisterEventSink(h.reactor, h.handle), newSink)
  IN  [reactor |-> reactor, handle |-> reactor.nextHandle, old |-> h.old \cup {h.handle},
       emitted |-> <<>>, delivered |-> <<>>, received |-> <<>>]

\* A history of at most six steps: events, 0 is the application's receive, 4 the
\* end of the instance and the creation of another one.
step(h, n) ==
  CASE n = 4 -> instance(h)
    [] n = 0 -> IF sinkOf(h).events = <<>> THEN h
                ELSE [h EXCEPT !.reactor.eventSinks[h.handle] = Events!receive(@),
                               !.received = Append(@, Head(sinkOf(h).events))]
    [] OTHER -> LET written == Events!TryEventWrite(h.reactor, h.handle, E(n))
                IN  [h EXCEPT !.reactor = written.reactor,
                              !.emitted = Append(@, E(n)),
                              !.delivered = IF written.status = "ok" THEN Append(@, E(n)) ELSE @]

start == instance([reactor |-> [closed |-> FALSE, nextHandle |-> 0, eventSinks |-> <<>>],
                   handle |-> 0, old |-> {}])

Histories == UNION {[1 .. n -> 0 .. 4] : n \in 0 .. 6}

messageOf(event) == IF event.message = "" THEN event.kind ELSE event.message

\* The application receives, in order, the events the guest was told were
\* delivered and no other; the journal has the last ones the guest emitted,
\* each with a text, delivered or not; and neither grows past its capacity.
\* What is written to the handle of an instance that is gone reaches nobody, nor
\* does anything once the reactor is closed.
ASSUME EventsAreBounded ==
  \A steps \in Histories :
    LET h    == FoldLeft(step, start, steps)
        last == [i \in DOMAIN h.emitted |-> messageOf(h.emitted[i])]
        shut == Events!Close(h.reactor)
    IN  /\ h.received \o sinkOf(h).events = h.delivered
        /\ Len(sinkOf(h).events) <= 2 /\ Len(sinkOf(h).journal) <= 2
        /\ sinkOf(h).journal = SubSeq(last, IF Len(last) < 2 THEN 1 ELSE Len(last) - 1, Len(last))
        /\ \A handle \in h.old :
             Events!TryEventWrite(h.reactor, handle, E(1))
               = [reactor |-> h.reactor, status |-> "invalid"]
        /\ Events!RegisterEventSink(shut, newSink) = shut
        /\ Events!TryEventWrite(shut, h.handle, E(1)) = [reactor |-> shut, status |-> "invalid"]

=============================================================================
