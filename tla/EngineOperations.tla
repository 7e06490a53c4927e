-------------------------- MODULE EngineOperations --------------------------
(***************************************************************************)
(* Data plane operations and RPCs of one instance: internal/engine         *)
(* dataplane.go and rpc.go with the driver goroutine of instance.go.       *)
(*                                                                         *)
(* Every call (Dial, Accept, Read, .. through performOperation; RPC) runs  *)
(* in a goroutine of the embedding program.  It hands a command to the     *)
(* driver over an unbuffered channel, gets a ticket back, and waits for    *)
(* the result that the driver finds when it drives the guest.  A call      *)
(* whose context ends takes the operation back with a second command.  All *)
(* waits also end with the instance: `closeRequested` says that Close was  *)
(* called, `done` that the driver has finished.                            *)
(*                                                                         *)
(* The driver is the only goroutine that touches the guest's operations.   *)
(* One step of it is one command or wakeup, with the drive that follows    *)
(* and the response: nobody can observe it in between.                     *)
(*                                                                         *)
(* Data.  A call is made once, and its operation is named after it.        *)
(***************************************************************************)
EXTENDS Integers, FiniteSets

CONSTANTS
  OperationCalls,            \* calls of performOperation
  RPCCalls,                  \* calls of Instance.RPC
  dataPlaneCompletionBatch,
  Together,                  \* bound: the sets of calls that may be made in one run
  None                       \* no call

ASSUME BatchAssumption == dataPlaneCompletionBatch \in Nat \ {0}
ASSUME CallsAssumption == OperationCalls \cap RPCCalls = {}
ASSUME NoneAssumption  == None \notin OperationCalls \cup RPCCalls

Calls == OperationCalls \cup RPCCalls

VARIABLES
  caller,          \* where a call is
  outcome,         \* what a call returned
  ctxDone,         \* calls whose context has ended
  response,        \* content of a call's response channel
  result,          \* content of a call's ticket.result channel
  pending,         \* pendingOperations and pendingRPCs
  guest,           \* the operation in the guest
  driver,          \* where the driver goroutine is
  serving,         \* the call whose command the driver has received
  command,         \* that command: a submit, or a cancel (free for an RPC)
  more,            \* the last drive asked to be repeated at once
  closeRequested,  \* Instance.closeRequested is closed
  done,            \* Instance.done is closed
  refused          \* history: calls whose cancel the guest refused

callVars   == <<caller, outcome, ctxDone>>
driverVars == <<pending, guest, driver, serving, command, more, refused>>
vars       == <<callVars, response, result, driverVars, closeRequested, done>>

\* performOperation: before the call; handing over the submit; waiting for the
\* response; the same after the context ended; waiting for the result.  Then
\* cancelAndWait: handing over the cancel; waiting for its response; waiting for
\* the result.
CallerStates == {"idle", "sending", "submitted", "cancelSubmitted", "waiting",
                 "cancelling", "cancelSent", "cancelAcked", "returned"}

\* How an operation of the guest can end.
Endings == {"ok", "failed", "cancelled"}

Outcomes  == Endings \cup {"closed", "ctx", "err"}
Responses == Endings \cup {"err", "ticket", "ack"}
Results   == Endings \cup {"closed"}

\* Every variable holds a value of its Go type.
TypeOK ==
  /\ caller \in [Calls -> CallerStates]
  /\ outcome \in [Calls -> Outcomes \cup {"none"}]
  /\ ctxDone \subseteq Calls
  /\ response \in [Calls -> Responses \cup {"none"}]
  /\ result \in [Calls -> Results \cup {"none"}]
  /\ pending \subseteq Calls
  /\ guest \in [Calls -> Endings \cup {"none", "running"}]
  /\ driver \in {"selecting", "serving", "exiting", "failed", "stopped"}
  /\ serving \in Calls \cup {None}
  /\ command \in {"none", "submit", "cancel"}
  /\ more \in BOOLEAN
  /\ closeRequested \in BOOLEAN
  /\ done \in BOOLEAN
  /\ refused \subseteq Calls

Init ==
  /\ caller = [c \in Calls |-> "idle"]
  /\ outcome = [c \in Calls |-> "none"]
  /\ ctxDone = {}
  /\ response = [c \in Calls |-> "none"]
  /\ result = [c \in Calls |-> "none"]
  /\ pending = {}
  /\ guest = [c \in Calls |-> "none"]
  /\ driver = "selecting"
  /\ serving = None
  /\ command = "none"
  /\ more = FALSE
  /\ closeRequested = FALSE
  /\ done = FALSE
  /\ refused = {}

-----------------------------------------------------------------------------
(* The driver.                                                             *)

\* The driver's select received a command of call c.
Receive(c) ==
  /\ driver = "selecting"
  /\ caller[c] \in {"sending", "cancelling"}
  /\ driver' = "serving"
  /\ serving' = c
  /\ command' = IF caller[c] = "sending" THEN "submit" ELSE "cancel"
  /\ caller' = [caller EXCEPT ![c] = IF @ = "sending" THEN "submitted" ELSE "cancelSent"]
  /\ UNCHANGED <<outcome, ctxDone, response, result, pending, guest, more, refused,
                 closeRequested, done>>

\* The guest, which was g, ran: some of what it was working on has ended, an
\* operation in whichever way, an RPC with a response.
Driven(g) ==
  LET running == {c \in Calls : g[c] = "running"}
  IN  \E end \in [running -> Endings \cup {"running"}] :
        /\ \A c \in running \cap RPCCalls : end[c] \in {"running", "ok"}
        /\ guest' = [c \in Calls |-> IF c \in running THEN end[c] ELSE g[c]]

\* The operations whose completion can be drained, and the RPCs whose response
\* can be taken.
completed(p, after) == {c \in p \cap OperationCalls : after[c] \in Endings}
answered(p, after)  == {c \in p \cap RPCCalls : after[c] \in Endings}

\* drainDataPlaneCompletions takes a batch, takeRPCResponses everything.
Bug_drainsAll(p, after, d) ==
  \E batch \in SUBSET completed(p, after) :
    /\ Cardinality(batch) <= dataPlaneCompletionBatch
    /\ batch # completed(p, after) => Cardinality(batch) = dataPlaneCompletionBatch
    /\ d = batch \cup answered(p, after)
    /\ more' = FALSE
drains(p, after, d) ==
  \E batch \in SUBSET completed(p, after) :
    /\ Cardinality(batch) <= dataPlaneCompletionBatch
    /\ batch # completed(p, after) => Cardinality(batch) = dataPlaneCompletionBatch
    /\ d = batch \cup answered(p, after)
    /\ more' = (Cardinality(batch) = dataPlaneCompletionBatch)

\* What is taken from the guest goes into the result channels.
delivered(d, after) == [c \in Calls |-> IF c \in d THEN after[c] ELSE result[c]]

\* drive, with the pending operations p and the guest g: d was drained.
Bug_driveOK(p, g, d) ==
  /\ Driven(g)
  /\ drains(p, guest', d)
  /\ pending' = p
driveOK(p, g, d) ==
  /\ Driven(g)
  /\ drains(p, guest', d)
  /\ pending' = p \ d

\* drive fails: the guest trapped, or said something the driver does not accept.
\* Some completions may have been handed out before.
driveFails(p, g, d) ==
  /\ Driven(g)
  /\ d \subseteq completed(p, guest') \cup answered(p, guest')
  /\ pending' = p \ d
  /\ UNCHANGED more

\* Back to the select, or out of the loop.
backToSelect == driver' = "selecting" /\ serving' = None /\ command' = "none"
leaveLoop    == driver' = "exiting" /\ serving' = None /\ command' = "none"

\* A submit the guest accepts is pending from here on.  The drive that follows
\* may have completed it already: then the result is part of the response.
Submit(c) ==
  LET p == pending \cup {c}
      g == [guest EXCEPT ![c] = "running"]
  IN  /\ driver = "serving"
      /\ serving = c
      /\ command = "submit"
      /\ \/ /\ response' = [response EXCEPT ![c] = "err"]
            /\ backToSelect
            /\ UNCHANGED <<pending, guest, more, result>>
         \/ \E d \in SUBSET p :
              /\ driveOK(p, g, d)
              /\ response' = [response EXCEPT ![c] = IF c \in d THEN guest'[c] ELSE "ticket"]
              /\ result' = [delivered(d, guest') EXCEPT ![c] = "none"]
              /\ backToSelect
         \/ \E d \in SUBSET p :
              /\ driveFails(p, g, d)
              /\ response' = [response EXCEPT ![c] = "err"]
              /\ result' = delivered(d, guest')
              /\ leaveLoop
      /\ UNCHANGED <<callVars, refused, closeRequested, done>>

\* A cancel of an operation that is not pending any more is a no-op; otherwise
\* the guest ends it.  Freeing an RPC also forgets it.
withdraw(c) == IF c \in RPCCalls THEN pending \ {c} ELSE pending
endedByGuest(c) ==
  IF c \in pending /\ guest[c] = "running" THEN [guest EXCEPT ![c] = "cancelled"] ELSE guest

Cancel(c) ==
  LET p == IF c \in pending THEN withdraw(c) ELSE pending
      g == endedByGuest(c)
  IN  /\ driver = "serving"
      /\ serving = c
      /\ command = "cancel"
      /\ \/ /\ c \in pending
            /\ response' = [response EXCEPT ![c] = "err"]
            /\ refused' = refused \cup {c}
            /\ backToSelect
            /\ UNCHANGED <<pending, guest, more, result>>
         \/ \E d \in SUBSET p :
              /\ driveOK(p, g, d)
              /\ response' = [response EXCEPT ![c] = "ack"]
              /\ result' = delivered(d, guest')
              /\ backToSelect
              /\ UNCHANGED refused
         \/ \E d \in SUBSET p :
              /\ driveFails(p, g, d)
              /\ response' = [response EXCEPT ![c] = "err"]
              /\ result' = delivered(d, guest')
              /\ leaveLoop
              /\ UNCHANGED refused
      /\ UNCHANGED <<callVars, closeRequested, done>>

\* A completion token or the deadline: the driver drives the guest unasked.
Wakeup ==
  /\ driver = "selecting"
  /\ \E d \in SUBSET pending :
       \/ driveOK(pending, guest, d) /\ result' = delivered(d, guest') /\ backToSelect
       \/ driveFails(pending, guest, d) /\ result' = delivered(d, guest') /\ leaveLoop
  /\ UNCHANGED <<callVars, response, refused, closeRequested, done>>

\* The select found closeRequested, or the end of the instance's context.
SeesClose ==
  /\ driver = "selecting"
  /\ closeRequested
  /\ leaveLoop
  /\ UNCHANGED <<callVars, response, result, pending, guest, more, refused, closeRequested, done>>

\* run: failPendingOperations and failPendingRPCs ...
failed == [c \in Calls |-> IF c \in pending THEN "closed" ELSE result[c]]

FailPending ==
  /\ driver = "exiting"
  /\ driver' = "failed"
  /\ result' = failed
  /\ pending' = {}
  /\ UNCHANGED <<callVars, response, guest, serving, command, more, refused, closeRequested, done>>

\* ... shutdown, close(done).
Finish ==
  /\ driver = "failed"
  /\ driver' = "stopped"
  /\ done' = TRUE
  /\ UNCHANGED <<callVars, response, result, pending, guest, serving, command, more, refused,
                 closeRequested>>

-----------------------------------------------------------------------------
(* A call.                                                                 *)

moveTo(c, s) == caller' = [caller EXCEPT ![c] = s] /\ UNCHANGED <<outcome, ctxDone>>

return(c, o) ==
  /\ caller' = [caller EXCEPT ![c] = "returned"]
  /\ outcome' = [outcome EXCEPT ![c] = o]
  /\ ctxDone' = ctxDone \ {c}

Call(c) ==
  /\ caller[c] = "idle"
  /\ \E made \in Together : {c} \cup {b \in Calls : caller[b] # "idle"} \subseteq made
  /\ moveTo(c, "sending")
  /\ UNCHANGED <<response, result, driverVars, closeRequested, done>>

\* The caller's context ends.
EndContext(c) ==
  /\ caller[c] \notin {"idle", "returned"}
  /\ c \notin ctxDone
  /\ ctxDone' = ctxDone \cup {c}
  /\ UNCHANGED <<caller, outcome, response, result, driverVars, closeRequested, done>>

\* The waits that notice the end of a context, and where they go from there.  The
\* command may have been submitted already, so that nothing but a hand-over that
\* did not happen is given up at once.
Bug_SeesContext(c) ==
  /\ c \in ctxDone
  /\ \/ caller[c] \in {"sending", "submitted"} /\ return(c, "ctx")
     \/ caller[c] = "waiting" /\ moveTo(c, "cancelling")
  /\ UNCHANGED <<response, result, driverVars, closeRequested, done>>
SeesContext(c) ==
  /\ c \in ctxDone
  /\ \/ caller[c] = "sending" /\ return(c, "ctx")
     \/ caller[c] = "submitted" /\ moveTo(c, "cancelSubmitted")
     \/ caller[c] = "waiting" /\ moveTo(c, "cancelling")
  /\ UNCHANGED <<response, result, driverVars, closeRequested, done>>

\* Every wait ends with done; most of them end with closeRequested.  An RPC that
\* was handed over waits for its response all the same.
closeNoticed(c) ==
  \/ done
  \/ /\ closeRequested
     /\ ~(c \in RPCCalls /\ caller[c] \in {"submitted", "cancelSubmitted"})

SeesEnd(c) ==
  /\ caller[c] \notin {"idle", "returned"}
  /\ closeNoticed(c)
  /\ return(c, "closed")
  /\ UNCHANGED <<response, result, driverVars, closeRequested, done>>

\* The response to the submit: an error, the result itself, or a ticket.
TakeSubmitResponse(c) ==
  /\ caller[c] \in {"submitted", "cancelSubmitted"}
  /\ response[c] # "none"
  /\ response' = [response EXCEPT ![c] = "none"]
  /\ \/ response[c] # "ticket" /\ return(c, response[c])
     \/ /\ response[c] = "ticket"
        /\ moveTo(c, IF caller[c] = "submitted" THEN "waiting" ELSE "cancelling")
  /\ UNCHANGED <<result, driverVars, closeRequested, done>>

\* The response to the cancel.  After an operation's the result is waited for;
\* after an RPC's it is taken if it is there.
TakeCancelResponse(c) ==
  /\ caller[c] = "cancelSent"
  /\ response[c] # "none"
  /\ response' = [response EXCEPT ![c] = "none"]
  /\ \/ /\ response[c] = "err"
        /\ return(c, "err")
        /\ UNCHANGED result
     \/ /\ response[c] = "ack"
        /\ c \in OperationCalls
        /\ moveTo(c, "cancelAcked")
        /\ UNCHANGED result
     \/ /\ response[c] = "ack"
        /\ c \in RPCCalls
        /\ return(c, IF result[c] = "none" THEN "ctx" ELSE result[c])
        /\ result' = [result EXCEPT ![c] = "none"]
  /\ UNCHANGED <<driverVars, closeRequested, done>>

\* The result, before, during or after the cancel.  cancelledOutcome: a result
\* that says "cancelled" stands for the end of the context.
cancelledOutcome(c) ==
  IF c \in OperationCalls /\ caller[c] \in {"cancelSent", "cancelAcked"} /\ result[c] = "cancelled"
  THEN "ctx" ELSE result[c]

TakeResult(c) ==
  /\ caller[c] \in {"waiting", "cancelling", "cancelSent", "cancelAcked"}
  /\ result[c] # "none"
  /\ result' = [result EXCEPT ![c] = "none"]
  /\ return(c, cancelledOutcome(c))
  /\ UNCHANGED <<response, driverVars, closeRequested, done>>

\* Instance.Close, or the end of the host.
Close ==
  /\ ~closeRequested
  /\ closeRequested' = TRUE
  /\ UNCHANGED <<callVars, response, result, driverVars, done>>

\* Nothing is left to do.
Terminated == done /\ (\A c \in Calls : caller[c] \in {"idle", "returned"}) /\ UNCHANGED vars

Step(c) ==
  SeesContext(c) \/ SeesEnd(c) \/ TakeSubmitResponse(c) \/ TakeCancelResponse(c) \/ TakeResult(c)

Next ==
  \/ \E c \in Calls : Receive(c)
  \/ \E c \in Calls : Submit(c)
  \/ \E c \in Calls : Cancel(c)
  \/ Wakeup
  \/ SeesClose
  \/ FailPending
  \/ Finish
  \/ \E c \in Calls : Call(c)
  \/ \E c \in Calls : EndContext(c)
  \/ \E c \in Calls : SeesContext(c)
  \/ \E c \in Calls : SeesEnd(c)
  \/ \E c \in Calls : TakeSubmitResponse(c)
  \/ \E c \in Calls : TakeCancelResponse(c)
  \/ \E c \in Calls : TakeResult(c)
  \/ Close
  \/ Terminated

Spec == Init /\ [][Next]_vars

\* Goroutines run, a drive that asked to be repeated is repeated, and a select
\* with several ready cases takes each of them sooner or later.  The guest need
\* not finish anything by itself.
Fairness ==
  /\ WF_vars(more /\ Wakeup)
  /\ SF_vars(SeesClose)
  /\ WF_vars(FailPending)
  /\ WF_vars(Finish)
  /\ \A c \in Calls :
       /\ SF_vars(Receive(c))
       /\ WF_vars(Submit(c))
       /\ WF_vars(Cancel(c))
       /\ WF_vars(Step(c))

FairSpec == Spec /\ Fairness

-----------------------------------------------------------------------------
(* Properties.                                                             *)

\* The instance is on its way out.
ending == closeRequested \/ driver \notin {"selecting", "serving"}

\* The driver never waits for a caller: when it is about to send a result or a
\* response, the one slot of that channel is empty.
DriverNeverBlocks ==
  /\ \A c \in pending : result[c] = "none"
  /\ serving # None => response[serving] = "none"

\* A call that waits for a result it has a ticket for gets one: the operation is
\* pending, or its result is in the channel, or the instance is done.  (An RPC
\* that is being freed has no result to wait for.)
NoStuckCall ==
  \A c \in Calls :
    \/ caller[c] \notin {"waiting", "cancelling", "cancelAcked"}
    \/ c \in pending
    \/ result[c] # "none"
    \/ done

\* A call that came back has left nothing behind in the driver or in the guest,
\* unless the instance ends with it or the guest refused to cancel: a context
\* that ends while the submit is under way never orphans the operation.
NoOrphan ==
  \A c \in Calls :
    caller[c] = "returned" =>
      \/ ending
      \/ c \in refused
      \/ c \notin pending /\ guest[c] # "running" /\ ~(serving = c /\ command = "submit")

\* What the guest opened for a call is handed to its caller: an operation that
\* succeeded is not reported as failed because its context ended meanwhile.
NothingOpenedIsLost ==
  \A c \in OperationCalls :
    (caller[c] = "returned" /\ guest[c] = "ok" /\ outcome[c] # "ok") => ending \/ c \in refused

\* Nothing of a call that came back is left behind, running or opened.
NothingIsAbandoned == NoOrphan /\ NothingOpenedIsLost

\* A call succeeds only if its operation did, and it blames its context only if
\* that has ended.
OutcomeIsTrue ==
  \A c \in Calls :
    outcome[c] \in {"ok", "failed"} => guest[c] = outcome[c]

\* The driver has left its loop.
left == driver \notin {"selecting", "serving"}

beingSubmitted(c) == serving = c /\ command = "submit"
beingCancelled(c) == serving = c /\ command = "cancel"

DriverAgrees ==
  /\ driver = "serving" <=> serving # None
  /\ driver = "serving" <=> command # "none"
  /\ done => driver = "stopped"

\* Nothing was done for the call yet.
untouched(c) ==
  c \notin pending /\ guest[c] = "none" /\ response[c] = "none" /\ result[c] = "none"

\* The result is in the channel, or the driver still has to put one in.
due(c) == c \in pending \/ result[c] # "none"

\* Where a call is tells which command of it the driver has, and what is in its
\* channels.
callerAgrees(c) ==
  /\ caller[c] \in {"idle", "sending"} => untouched(c) /\ serving # c
  /\ beingSubmitted(c) =>
       /\ untouched(c)
       /\ caller[c] \in {"submitted", "cancelSubmitted"} \/ (caller[c] = "returned" /\ ending)
  /\ beingCancelled(c) => response[c] = "none" /\ caller[c] \in {"cancelSent", "returned"}
  /\ caller[c] \in {"submitted", "cancelSubmitted"} /\ serving # c =>
       \/ response[c] = "ticket" /\ due(c)
       \/ response[c] \in Endings /\ guest[c] = response[c] /\ c \notin pending
       \/ response[c] = "err" /\ (left \/ (guest[c] = "none" /\ c \notin pending))
  /\ caller[c] \in {"waiting", "cancelling", "cancelAcked"} =>
       serving # c /\ response[c] = "none" /\ due(c)
  /\ caller[c] = "cancelSent" =>
       \/ beingCancelled(c) /\ due(c)
       \/ serving # c /\ response[c] = "err" /\ (left \/ c \in refused)
       \/ serving # c /\ response[c] = "ack" /\ IF c \in RPCCalls THEN c \notin pending ELSE due(c)
  /\ outcome[c] = "none" <=> caller[c] # "returned"

\* What was taken from the guest is what the guest said, and what is running there
\* is pending.
guestAgrees(c) ==
  /\ c \in pending => guest[c] # "none"
  /\ guest[c] = "running" => c \in pending \/ left
  /\ result[c] \in Endings => guest[c] = result[c]
  /\ result[c] = "closed" => left

CallsAgree == \A c \in Calls : callerAgrees(c) /\ guestAgrees(c)

\* The callers, the channels and the driver agree: types, a driver that never
\* blocks, nobody waiting for a result that is not coming, true outcomes.
Consistent ==
  /\ TypeOK
  /\ DriverNeverBlocks
  /\ NoStuckCall
  /\ OutcomeIsTrue
  /\ DriverAgrees /\ CallsAgree

\* Every call comes back once the instance is being closed, and once its context
\* has ended, although the guest does not finish it: there is always a time at
\* which no call has to.  And a completion that did not fit into the batch is
\* drained without waiting for another event.  (A call is made once: no two can
\* take turns.)
mustReturn(c) == caller[c] \notin {"idle", "returned"} /\ (closeRequested \/ c \in ctxDone)

CallsReturn ==
  /\ []<>(\A c \in Calls : ~mustReturn(c))
  /\ []<>(completed(pending, guest) = {})

=============================================================================
