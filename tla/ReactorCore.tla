----------------------------- MODULE ReactorCore -----------------------------
(***************************************************************************)
(* The part of internal/reactor that every asynchronous host operation     *)
(* shares (reactor.go): the table of operation ids, the one-slot           *)
(* completion channel, and the closed / closeDone latch.                   *)
(*                                                                         *)
(* A host operation is started by the guest under an id of its choosing,   *)
(* makes progress in worker goroutines, and is finished by the guest with  *)
(* a Take call, which answers ErrPending until the result is there.  The   *)
(* guest learns that polling again is worthwhile only from a token in      *)
(* Reactor.completion.                                                     *)
(*                                                                         *)
(* Everything between reactor.mu.Lock and reactor.mu.Unlock is one step.   *)
(* signalCompletion is called after the unlock, so it is a step of its     *)
(* own: signalDue says that some goroutine has left the lock and still     *)
(* has to call it.  Several such goroutines are merged into one call, the  *)
(* order of events that leaves the fewest tokens.                          *)
(***************************************************************************)
EXTENDS Integers, FiniteSets, SequencesExt

CONSTANTS
  Ops,   \* operation ids the guest uses (an id is free again once released)
  Nil    \* Go's nil

VARIABLES
  closed,      \* Reactor.closed
  closeDone,   \* Reactor.closeDone is closed: the first Close has returned
  operations,  \* Reactor.operations: the kind registered for each id
  completion,  \* Reactor.completion holds its one token
  signalDue,   \* a goroutine is between its unlock and signalCompletion
  parked       \* operations the guest waits for without polling them

coreVars == <<closed, closeDone, operations, completion, signalDue, parked>>

\* operationKind, with "none" for an id that is not in the map.
OperationKind == {"read", "write", "udpRead", "udpWrite", "create", "accept",
                  "dns", "environment", "packetWrite", "management"}

CoreTypeOK ==
  /\ closed \in BOOLEAN
  /\ closeDone \in BOOLEAN
  /\ operations \in [Ops -> OperationKind \cup {"none"}]
  /\ completion \in BOOLEAN
  /\ signalDue \in BOOLEAN
  /\ parked \subseteq Ops

CoreInit ==
  /\ closed = FALSE
  /\ closeDone = FALSE
  /\ operations = [op \in Ops |-> "none"]
  /\ completion = FALSE
  /\ signalDue = FALSE
  /\ parked = {}

-----------------------------------------------------------------------------
(* Helpers called with reactor.mu held.                                    *)

\* claimOperationLocked: refused after Close and for an id in use, whatever
\* the kind it is in use for.
claimOperationLocked(id, kind) ==
  /\ ~closed
  /\ operations[id] = "none"
  /\ operations' = [operations EXCEPT ![id] = kind]

\* releaseOperationLocked: only the kind that claimed the id releases it.
releaseOperationLocked(id, kind) ==
  operations' = [operations EXCEPT ![id] = IF @ = kind THEN "none" ELSE @]

\* The caller computed `ready` under the lock and will call signalCompletion
\* once it has unlocked.
signalAfterUnlock(ready) == signalDue' = (signalDue \/ ready)

-----------------------------------------------------------------------------

\* signalCompletion: a send that does not block; a full channel stays full.
signalCompletion ==
  /\ signalDue
  /\ signalDue' = FALSE
  /\ completion' = TRUE
  /\ UNCHANGED <<closed, closeDone, operations, parked>>

\* The receiver of Reactor.Completions(): internal/engine drives the guest
\* after each token, and a driven guest polls everything it waits for.
NotifyGuest ==
  /\ completion
  /\ completion' = FALSE
  /\ parked' = {}
  /\ UNCHANGED <<closed, closeDone, operations, signalDue>>

=============================================================================
