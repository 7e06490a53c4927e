---------------------------- MODULE EngineEvents ----------------------------
(***************************************************************************)
(* Where the events of an instance go: a journal for the configuration     *)
(* server, which forgets the oldest ones, and a channel for the            *)
(* application, which misses the newest ones while it is full              *)
(* (internal/engine host.go and instance.go).  The guest is told of the    *)
(* latter.  It reaches the two through a sink, which the reactor keeps     *)
(* under a handle (internal/reactor event.go).                             *)
(***************************************************************************)
EXTENDS Integers, Sequences, TLC

CONSTANT Capacity   \* instanceEventQueueCapacity

-----------------------------------------------------------------------------
(* The sink of an instance.                                                *)

newEventJournal == <<>>

add(journal, event) ==
  LET message == IF event.message = "" THEN event.kind ELSE event.message
  IN  Append(IF Len(journal) = Capacity THEN Tail(journal) ELSE journal, message)

\* The delivery function of CreateInstance, which fails when the channel is full.
full(sink) == Len(sink.events) = Capacity

deliver(sink, event) ==
  [journal |-> add(sink.journal, event),
   events  |-> IF full(sink) THEN sink.events ELSE Append(sink.events, event)]

\* The application receives from Events().
receive(sink) == [sink EXCEPT !.events = Tail(@)]

-----------------------------------------------------------------------------
(* The reactor: closed, nextHandle and eventSinks.                         *)

allocateHandleLocked(reactor) == reactor.nextHandle + 1

\* The handle that is returned is the new nextHandle.  A closed reactor refuses.
RegisterEventSink(reactor, sink) ==
  IF reactor.closed THEN reactor
  ELSE LET handle == allocateHandleLocked(reactor) IN
       [reactor EXCEPT !.nextHandle = handle, !.eventSinks = (handle :> sink) @@ @]

UnregisterEventSink(reactor, handle) ==
  [reactor EXCEPT !.eventSinks = [h \in DOMAIN @ \ {handle} |-> @[h]]]

TryEventWrite(reactor, handle, event) ==
  IF handle \notin DOMAIN reactor.eventSinks
  THEN [reactor |-> reactor, status |-> "invalid"]
  ELSE [reactor |-> [reactor EXCEPT !.eventSinks[handle] = deliver(@, event)],
        status  |-> IF full(reactor.eventSinks[handle]) THEN "would block" ELSE "ok"]

Close(reactor) == [reactor EXCEPT !.closed = TRUE, !.eventSinks = <<>>]

=============================================================================
