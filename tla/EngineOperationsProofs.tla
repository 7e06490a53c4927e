------------------------ MODULE EngineOperationsProofs ------------------------
(***************************************************************************)
(* Proofs about EngineOperations, for any number of calls, every batch and *)
(* every choice of calls made together; and, in the second half, about     *)
(* EngineConn, the connections whose Read, Write and Accept are such       *)
(* operations, for any number of goroutines, lengths and chunks.           *)
(***************************************************************************)
EXTENDS EngineOperations, Sequences, FiniteSetTheorems, FunctionTheorems, SequenceTheorems, TLAPS

\* What the invariants say of one call.
callOK(c) ==
  /\ callerAgrees(c) /\ guestAgrees(c)
  /\ c \in pending => result[c] = "none"
  /\ serving = c => response[c] = "none"
  /\ outcome[c] \in {"ok", "failed"} => guest[c] = outcome[c]
  /\ caller[c] = "returned" =>
       \/ ending \/ c \in refused
       \/ c \notin pending /\ guest[c] # "running" /\ ~beingSubmitted(c)
  /\ caller[c] = "returned" /\ c \in OperationCalls /\ guest[c] = "ok" /\ outcome[c] # "ok" =>
       ending \/ c \in refused

\* The inductive invariant.
Inv == TypeOK /\ DriverAgrees /\ \A c \in Calls : callOK(c)

LEMMA InvIsConsistent == Inv => Consistent /\ NothingIsAbandoned
<1> SUFFICES ASSUME Inv
             PROVE  Consistent /\ NothingIsAbandoned
  OBVIOUS
<1>0. TypeOK /\ DriverAgrees /\ \A c \in Calls : callOK(c)
  BY DEF Inv
<1>1. CallsAgree /\ OutcomeIsTrue
  BY <1>0 DEF callOK, CallsAgree, OutcomeIsTrue
<1>2. DriverNeverBlocks
  BY <1>0 DEF callOK, DriverNeverBlocks, TypeOK
<1>3. NoStuckCall
  BY <1>0 DEF callOK, callerAgrees, due, NoStuckCall
<1>4. NoOrphan
  BY <1>0 DEF callOK, NoOrphan, beingSubmitted
<1>5. NothingOpenedIsLost
  BY <1>0 DEF callOK, NothingOpenedIsLost, Calls
<1> QED
  BY <1>0, <1>1, <1>2, <1>3, <1>4, <1>5 DEF Consistent, NothingIsAbandoned

LEMMA InitInv == Init => Inv
<1> SUFFICES ASSUME Init
             PROVE  Inv
  OBVIOUS
<1> USE NoneAssumption DEF Init, Calls
<1>1. TypeOK
  BY DEF TypeOK, CallerStates, Endings
<1>2. DriverAgrees
  BY DEF DriverAgrees
<1>3. ASSUME NEW c \in Calls
      PROVE  callOK(c)
  BY DEF callOK, callerAgrees, guestAgrees, untouched, due, beingSubmitted, beingCancelled, Endings
<1> QED
  BY <1>1, <1>2, <1>3 DEF Inv

-----------------------------------------------------------------------------
(* Driving the guest.                                                      *)

Guests == [Calls -> Endings \cup {"none", "running"}]

\* What a drive with the pending operations p and the guest g does when it drains
\* d: it takes what has ended, and nothing that had ended before changes.
LEMMA DriveEffect ==
  ASSUME NEW p, NEW g \in Guests, NEW d \in SUBSET p, more \in BOOLEAN,
         driveOK(p, g, d) \/ driveFails(p, g, d)
  PROVE  /\ pending' = p \ d
         /\ guest' \in Guests
         /\ \A c \in Calls : g[c] # "running" => guest'[c] = g[c]
         /\ \A c \in Calls : g[c] = "running" => guest'[c] # "none"
         /\ \A c \in d : guest'[c] \in Endings
         /\ more' \in BOOLEAN
<1>1. Driven(g) /\ pending' = p \ d
  BY DEF driveOK, driveFails
<1>2. /\ guest' \in Guests
      /\ \A c \in Calls : g[c] # "running" => guest'[c] = g[c]
      /\ \A c \in Calls : g[c] = "running" => guest'[c] # "none"
  <2> DEFINE running == {c \in Calls : g[c] = "running"}
  <2>1. PICK end \in [running -> Endings \cup {"running"}] :
          guest' = [c \in Calls |-> IF c \in running THEN end[c] ELSE g[c]]
    BY <1>1 DEF Driven
  <2> QED
    BY <2>1 DEF Guests, Endings
<1>3. (\A c \in d : guest'[c] \in Endings) /\ more' \in BOOLEAN
  <2>1. CASE drains(p, guest', d)
    BY <2>1 DEF drains, completed, answered
  <2>2. CASE d \subseteq completed(p, guest') \cup answered(p, guest') /\ UNCHANGED more
    BY <2>2 DEF completed, answered
  <2> QED
    BY <2>1, <2>2 DEF driveOK, driveFails
<1> QED
  BY <1>1, <1>2, <1>3

\* How a drive leaves a call it was not made for: its result was put into its
\* channel, or its operation went on.
drained(c) ==
  /\ guest[c] # "running" => guest'[c] = guest[c]
  /\ guest[c] = "running" => guest'[c] # "none"
  /\ \/ /\ c \in pending /\ c \notin pending'
        /\ guest'[c] \in Endings /\ result'[c] = guest'[c]
     \/ /\ c \in pending' <=> c \in pending
        /\ result'[c] = result[c]

LEMMA DrivenCall ==
  ASSUME NEW c \in Calls, callOK(c), drained(c), ~left, serving # c, serving' # c,
         caller'[c] = caller[c], outcome'[c] = outcome[c], response'[c] = response[c],
         refused \subseteq refused', closeRequested' = closeRequested
  PROVE  callOK(c)'
<1> USE DEF callOK, drained
<1>1. ending => ending'
  BY DEF ending, left
<1>2. guestAgrees(c)'
  BY DEF guestAgrees, Endings
<1>3. callerAgrees(c)'
  BY DEF callerAgrees, guestAgrees, untouched, due, beingSubmitted, beingCancelled, Endings
<1>4. /\ c \in pending' => result'[c] = "none"
      /\ outcome'[c] \in {"ok", "failed"} => guest'[c] = outcome'[c]
  BY DEF guestAgrees, Endings
<1>5. caller'[c] = "returned" =>
        \/ ending' \/ c \in refused'
        \/ c \notin pending' /\ guest'[c] # "running" /\ ~beingSubmitted(c)'
  BY <1>1 DEF guestAgrees, beingSubmitted, Endings
<1>6. caller'[c] = "returned" /\ c \in OperationCalls /\ guest'[c] = "ok" /\ outcome'[c] # "ok" =>
        ending' \/ c \in refused'
  BY <1>1 DEF guestAgrees, beingSubmitted, Endings
<1> QED
  BY <1>2, <1>3, <1>4, <1>5, <1>6

\* A step that changes nothing of a call; the instance may come nearer to its end,
\* and the driver may turn to another call.
LEMMA QuietCall ==
  ASSUME NEW c \in Calls, callOK(c), left => left', ending => ending',
         caller'[c] = caller[c], outcome'[c] = outcome[c], response'[c] = response[c],
         result'[c] = result[c], guest'[c] = guest[c], refused' = refused,
         c \in pending' <=> c \in pending,
         \/ serving' = serving /\ command' = command
         \/ serving # c /\ serving' # c
  PROVE  callOK(c)'
BY DEF callOK, callerAgrees, guestAgrees, untouched, due, beingSubmitted, beingCancelled

-----------------------------------------------------------------------------
(* The types.                                                              *)

LEMMA TypeStep == Inv /\ [Next]_vars => TypeOK'
<1> SUFFICES ASSUME TypeOK, DriverAgrees, \A c \in Calls : callOK(c), [Next]_vars
             PROVE  TypeOK'
  BY DEF Inv
<1> USE DEF TypeOK, CallerStates, Endings, Outcomes, Responses, Results, driverVars, callVars
<1>1. ASSUME NEW c \in Calls, Receive(c)
      PROVE  TypeOK'
  BY <1>1 DEF Receive
\* What every drive leaves behind.
<1>2. ASSUME NEW p \in SUBSET Calls, NEW g \in Guests, NEW d \in SUBSET p,
             driveOK(p, g, d) \/ driveFails(p, g, d)
      PROVE  /\ pending' \subseteq Calls /\ more' \in BOOLEAN
             /\ guest' \in [Calls -> Endings \cup {"none", "running"}]
             /\ \A c \in d : guest'[c] \in Endings
             /\ delivered(d, guest') \in [Calls -> Results \cup {"none"}]
  <2>1. /\ pending' = p \ d /\ guest' \in Guests /\ more' \in BOOLEAN
        /\ \A c \in d : guest'[c] \in Endings
    BY <1>2, DriveEffect
  <2> QED
    BY <2>1 DEF Guests, delivered
<1>3. ASSUME NEW c \in Calls, Submit(c)
      PROVE  TypeOK'
  <2> DEFINE p == pending \cup {c}
             g == [guest EXCEPT ![c] = "running"]
  <2>0. p \in SUBSET Calls /\ g \in Guests
    BY DEF Guests
  <2>1. CASE /\ response' = [response EXCEPT ![c] = "err"]
             /\ backToSelect
             /\ UNCHANGED <<pending, guest, more, result>>
    BY <1>3, <2>1 DEF Submit, backToSelect
  <2>2. ASSUME NEW d \in SUBSET p,
               \/ /\ driveOK(p, g, d)
                  /\ response' = [response EXCEPT ![c] = IF c \in d THEN guest'[c] ELSE "ticket"]
                  /\ result' = [delivered(d, guest') EXCEPT ![c] = "none"]
                  /\ backToSelect
               \/ /\ driveFails(p, g, d)
                  /\ response' = [response EXCEPT ![c] = "err"]
                  /\ result' = delivered(d, guest')
                  /\ leaveLoop
        PROVE  TypeOK'
    <3>1. /\ pending' \subseteq Calls /\ more' \in BOOLEAN
          /\ guest' \in [Calls -> Endings \cup {"none", "running"}]
          /\ \A b \in d : guest'[b] \in Endings
          /\ delivered(d, guest') \in [Calls -> Results \cup {"none"}]
      BY <1>2, <2>0, <2>2
    <3>2. /\ response' \in [Calls -> Responses \cup {"none"}]
          /\ result' \in [Calls -> Results \cup {"none"}]
      BY <2>2, <3>1
    <3> QED
      BY <1>3, <2>2, <3>1, <3>2 DEF Submit, backToSelect, leaveLoop
  <2> QED
    BY <1>3, <2>1, <2>2, Zenon DEF Submit
<1>4. ASSUME NEW c \in Calls, Cancel(c)
      PROVE  TypeOK'
  <2> DEFINE p == IF c \in pending THEN withdraw(c) ELSE pending
             g == endedByGuest(c)
  <2>0. p \in SUBSET Calls /\ g \in Guests
    BY DEF Guests, withdraw, endedByGuest
  <2>1. CASE /\ response' = [response EXCEPT ![c] = "err"]
             /\ refused' = refused \cup {c}
             /\ backToSelect
             /\ UNCHANGED <<pending, guest, more, result>>
    BY <1>4, <2>1 DEF Cancel, backToSelect
  <2>2. ASSUME NEW d \in SUBSET p,
               driveOK(p, g, d) \/ driveFails(p, g, d),
               \E answer \in {"ack", "err"} : response' = [response EXCEPT ![c] = answer],
               result' = delivered(d, guest'), refused' = refused, backToSelect \/ leaveLoop
        PROVE  TypeOK'
    <3> HIDE DEF p, g
    <3>1. /\ pending' \subseteq Calls /\ more' \in BOOLEAN
          /\ guest' \in [Calls -> Endings \cup {"none", "running"}]
          /\ result' \in [Calls -> Results \cup {"none"}]
      BY <1>2, <2>0, <2>2
    <3>2. UNCHANGED <<caller, outcome, ctxDone, closeRequested, done>>
      BY <1>4, Zenon DEF Cancel
    <3>3. response' \in [Calls -> Responses \cup {"none"}]
      BY <2>2
    <3>4. /\ driver' \in {"selecting", "exiting"} /\ serving' \in Calls \cup {None}
          /\ command' = "none" /\ refused' \subseteq Calls
      BY <2>2 DEF backToSelect, leaveLoop
    <3> QED
      BY <3>1, <3>2, <3>3, <3>4
  <2>3. ASSUME NEW d \in SUBSET p,
               driveOK(p, g, d), response' = [response EXCEPT ![c] = "ack"],
               result' = delivered(d, guest'), backToSelect, UNCHANGED refused
        PROVE  TypeOK'
    BY <2>2, <2>3
  <2>4. ASSUME NEW d \in SUBSET p,
               driveFails(p, g, d), response' = [response EXCEPT ![c] = "err"],
               result' = delivered(d, guest'), leaveLoop, UNCHANGED refused
        PROVE  TypeOK'
    BY <2>2, <2>4
  <2> QED
    BY <1>4, <2>1, <2>3, <2>4, Zenon DEF Cancel
<1>5. CASE Wakeup
  <2>1. PICK d \in SUBSET pending :
          /\ driveOK(pending, guest, d) \/ driveFails(pending, guest, d)
          /\ result' = delivered(d, guest') /\ (backToSelect \/ leaveLoop)
    BY <1>5, Zenon DEF Wakeup
  <2>2. /\ pending' \subseteq Calls /\ more' \in BOOLEAN
        /\ guest' \in [Calls -> Endings \cup {"none", "running"}]
        /\ result' \in [Calls -> Results \cup {"none"}]
    BY <1>2, <2>1 DEF Guests
  <2> QED
    BY <1>5, <2>1, <2>2 DEF Wakeup, backToSelect, leaveLoop
<1>6. CASE SeesClose \/ FailPending \/ Finish \/ Close
  BY <1>6 DEF SeesClose, FailPending, Finish, Close, leaveLoop, failed
<1>7. ASSUME NEW c \in Calls, Call(c) \/ EndContext(c) \/ SeesContext(c) \/ SeesEnd(c)
      PROVE  TypeOK'
  BY <1>7 DEF Call, EndContext, SeesContext, SeesEnd, moveTo, return
<1>8. ASSUME NEW c \in Calls, TakeSubmitResponse(c)
      PROVE  TypeOK'
  <2>1. response[c] # "ticket" => response[c] \in Outcomes
    BY <1>8 DEF TakeSubmitResponse, callOK, callerAgrees
  <2> QED
    BY <1>8, <2>1 DEF TakeSubmitResponse, moveTo, return
<1>9. ASSUME NEW c \in Calls, TakeCancelResponse(c) \/ TakeResult(c)
      PROVE  TypeOK'
  BY <1>9 DEF TakeCancelResponse, TakeResult, cancelledOutcome, moveTo, return
<1>10. CASE Terminated \/ UNCHANGED vars
  BY <1>10 DEF Terminated, vars
<1> HIDE DEF TypeOK
<1> QED
  BY <1>1, <1>3, <1>4, <1>5, <1>6, <1>7, <1>8, <1>9, <1>10 DEF Next

-----------------------------------------------------------------------------
(* The driver.                                                             *)

LEMMA DriverStep == Inv /\ [Next]_vars => DriverAgrees'
<1> SUFFICES ASSUME TypeOK, DriverAgrees, [Next]_vars
             PROVE  DriverAgrees'
  BY DEF Inv
<1> USE NoneAssumption DEF DriverAgrees, TypeOK, driverVars, callVars, Calls
<1>1. ASSUME NEW c \in Calls, Receive(c)
      PROVE  DriverAgrees'
  BY <1>1 DEF Receive
<1>2. ASSUME NEW c \in Calls, Submit(c)
      PROVE  DriverAgrees'
  <2>1. done' = done /\ driver = "serving" /\ (backToSelect \/ leaveLoop)
    BY <1>2, Zenon DEF Submit
  <2> QED
    BY <2>1 DEF backToSelect, leaveLoop
<1>3. ASSUME NEW c \in Calls, Cancel(c)
      PROVE  DriverAgrees'
  <2>1. done' = done /\ driver = "serving" /\ (backToSelect \/ leaveLoop)
    BY <1>3, Zenon DEF Cancel
  <2> QED
    BY <2>1 DEF backToSelect, leaveLoop
<1>4. CASE Wakeup
  <2>1. done' = done /\ driver = "selecting" /\ (backToSelect \/ leaveLoop)
    BY <1>4, Zenon DEF Wakeup
  <2> QED
    BY <2>1 DEF backToSelect, leaveLoop
<1>5. CASE SeesClose \/ FailPending \/ Finish \/ Close
  BY <1>5 DEF SeesClose, FailPending, Finish, Close, leaveLoop
<1>6. ASSUME NEW c \in Calls, Call(c) \/ EndContext(c) \/ SeesContext(c) \/ SeesEnd(c)
      PROVE  DriverAgrees'
  BY <1>6 DEF Call, EndContext, SeesContext, SeesEnd
<1>7. ASSUME NEW c \in Calls, TakeSubmitResponse(c) \/ TakeCancelResponse(c) \/ TakeResult(c)
      PROVE  DriverAgrees'
  BY <1>7 DEF TakeSubmitResponse, TakeCancelResponse, TakeResult
<1>8. CASE Terminated \/ UNCHANGED vars
  BY <1>8 DEF Terminated, vars
<1> HIDE DEF DriverAgrees, Calls
<1> QED
  BY <1>1, <1>2, <1>3, <1>4, <1>5, <1>6, <1>7, <1>8 DEF Next

\* The loop is left for good.
LEMMA EndStep == Inv /\ [Next]_vars => (left => left') /\ (ending => ending')
<1> SUFFICES ASSUME DriverAgrees, [Next]_vars
             PROVE  (left => left') /\ (ending => ending')
  BY DEF Inv
<1> USE DEF left, ending, driverVars, callVars
<1>1. ASSUME NEW c \in Calls, Receive(c) \/ Submit(c) \/ Cancel(c)
      PROVE  (left => left') /\ (ending => ending')
  BY <1>1 DEF Receive, Submit, Cancel
<1>2. CASE Wakeup \/ SeesClose \/ FailPending \/ Finish \/ Close
  BY <1>2 DEF Wakeup, SeesClose, FailPending, Finish, Close
<1>3. ASSUME NEW c \in Calls, Call(c) \/ EndContext(c) \/ SeesContext(c) \/ SeesEnd(c)
      PROVE  (left => left') /\ (ending => ending')
  BY <1>3 DEF Call, EndContext, SeesContext, SeesEnd
<1>4. ASSUME NEW c \in Calls, TakeSubmitResponse(c) \/ TakeCancelResponse(c) \/ TakeResult(c)
      PROVE  (left => left') /\ (ending => ending')
  BY <1>4 DEF TakeSubmitResponse, TakeCancelResponse, TakeResult
<1>5. CASE Terminated \/ UNCHANGED vars
  BY <1>5 DEF Terminated, vars
<1> QED
  BY <1>1, <1>2, <1>3, <1>4, <1>5 DEF Next

\* A command the driver serves: b is the call it is for, or another one, which the
\* drive that follows may complete.
LEMMA ServeStep ==
  ASSUME Inv, NEW c \in Calls, Submit(c) \/ Cancel(c), NEW b \in Calls
  PROVE  callOK(b)'
<1>0. /\ TypeOK /\ callOK(b) /\ callOK(c) /\ driver = "serving" /\ serving = c /\ ~left
      /\ UNCHANGED <<caller, outcome, ctxDone, closeRequested, done>>
  BY DEF Inv, Submit, Cancel, left, callVars
<1>1. c # None
  BY NoneAssumption DEF Calls
\* Another call.
<1>2. ASSUME b # c, drained(b), serving' = None, response'[b] = response[b],
             refused \subseteq refused'
      PROVE  callOK(b)'
  <2>1. serving # b /\ serving' # b
    BY <1>0, <1>2, NoneAssumption DEF Calls
  <2> QED
    BY <1>0, <1>2, <2>1, DrivenCall
<1>effect. ASSUME NEW q \in SUBSET Calls, NEW h \in Guests, NEW d \in SUBSET q,
                  driveOK(q, h, d) \/ driveFails(q, h, d)
           PROVE  /\ pending' = q \ d /\ guest' \in Guests
                  /\ \A a \in Calls : h[a] # "running" => guest'[a] = h[a]
                  /\ \A a \in Calls : h[a] = "running" => guest'[a] # "none"
                  /\ \A a \in d : guest'[a] \in Endings
  BY <1>0, <1>effect, DriveEffect DEF TypeOK
<1>3. CASE Submit(c)
  <2> DEFINE p == pending \cup {c}
             g == [guest EXCEPT ![c] = "running"]
  <2>0. /\ p \in SUBSET Calls /\ g \in Guests /\ more \in BOOLEAN /\ refused' = refused
        /\ g[c] = "running" /\ (b # c => g[b] = guest[b])
        /\ beingSubmitted(c) /\ untouched(c)
        /\ caller[c] \in {"submitted", "cancelSubmitted"} \/ (caller[c] = "returned" /\ ending)
    <3>1. /\ p \in SUBSET Calls /\ g \in Guests /\ more \in BOOLEAN
          /\ g[c] = "running" /\ (b # c => g[b] = guest[b])
      BY <1>0 DEF Guests, TypeOK
    <3>2. refused' = refused /\ beingSubmitted(c)
      BY <1>3 DEF Submit, beingSubmitted
    <3> QED
      BY <1>0, <3>1, <3>2 DEF callOK, callerAgrees
  <2>1. CASE /\ response' = [response EXCEPT ![c] = "err"]
             /\ backToSelect
             /\ UNCHANGED <<pending, guest, more, result>>
    <3>1. CASE b = c
      BY <1>0, <1>1, <2>0, <2>1, <3>1 DEF backToSelect, callOK, callerAgrees, guestAgrees, untouched,
         beingSubmitted, beingCancelled, ending, left, TypeOK, Endings
    <3>2. CASE b # c
      BY <1>2, <2>0, <2>1, <3>2 DEF backToSelect, drained, TypeOK, callOK, guestAgrees
    <3> QED
      BY <3>1, <3>2
  <2>2. ASSUME NEW d \in SUBSET p,
               \/ /\ driveOK(p, g, d)
                  /\ response' = [response EXCEPT ![c] = IF c \in d THEN guest'[c] ELSE "ticket"]
                  /\ result' = [delivered(d, guest') EXCEPT ![c] = "none"]
                  /\ backToSelect
               \/ /\ driveFails(p, g, d)
                  /\ response' = [response EXCEPT ![c] = "err"]
                  /\ result' = delivered(d, guest')
                  /\ leaveLoop
        PROVE  callOK(b)'
    <3>1. /\ pending' = p \ d /\ guest' \in Guests
          /\ \A a \in Calls : g[a] # "running" => guest'[a] = g[a]
          /\ \A a \in Calls : g[a] = "running" => guest'[a] # "none"
          /\ \A a \in d : guest'[a] \in Endings
      <4>1. driveOK(p, g, d) \/ driveFails(p, g, d)
        BY <2>2
      <4> QED
        BY <1>effect, <2>0, <4>1
    <3> HIDE DEF g
    <3>2. serving' = None
      BY <2>2 DEF backToSelect, leaveLoop
    <3>3. CASE b # c
      <4>1. response'[b] = response[b] /\ result'[b] = IF b \in d THEN guest'[b] ELSE result[b]
        BY <2>2, <3>3, <1>0 DEF delivered, TypeOK
      <4>2. drained(b)
        BY <2>0, <3>1, <3>3, <4>1 DEF drained
      <4> QED
        BY <1>2, <2>0, <3>2, <3>3, <4>1, <4>2
    <3>4. CASE b = c /\ c \in d
      <4>1. /\ c \notin pending' /\ guest'[c] \in Endings
            /\ \/ response'[c] = guest'[c] /\ result'[c] = "none"
               \/ response'[c] = "err" /\ result'[c] = guest'[c] /\ left'
        BY <2>2, <3>1, <3>4, <1>0 DEF delivered, TypeOK, leaveLoop, left
      <4> QED
        BY <1>0, <1>1, <2>0, <3>2, <3>4, <4>1 DEF callOK, callerAgrees, guestAgrees, untouched, due,
           beingSubmitted, beingCancelled, ending, Endings
    <3>5. CASE b = c /\ c \notin d
      <4>1. /\ c \in pending' /\ guest'[c] # "none" /\ result'[c] = "none"
            /\ response'[c] = "ticket" \/ (response'[c] = "err" /\ left')
        BY <2>0, <2>2, <3>1, <3>5, <1>0 DEF delivered, TypeOK, leaveLoop, left, untouched
      <4> QED
        BY <1>0, <1>1, <2>0, <3>2, <3>5, <4>1 DEF callOK, callerAgrees, guestAgrees, untouched, due,
           beingSubmitted, beingCancelled, ending, Endings
    <3> QED
      BY <3>3, <3>4, <3>5
  <2> QED
    BY <1>3, <2>1, <2>2, Zenon DEF Submit
<1>4. CASE Cancel(c)
  <2> DEFINE p == IF c \in pending THEN withdraw(c) ELSE pending
             g == endedByGuest(c)
  <2>0. /\ p \in SUBSET pending /\ g \in Guests /\ more \in BOOLEAN
        /\ \A a \in Calls : a # c => (g[a] = guest[a]) /\ (a \in p <=> a \in pending)
        /\ guest[c] # "running" => g[c] = guest[c]
        /\ c \in p <=> c \in pending /\ c \notin RPCCalls
        /\ g[c] # "running"
        /\ guest[c] = "running" => g[c] = "cancelled"
    BY <1>0 DEF Guests, TypeOK, withdraw, endedByGuest, Endings, callOK, guestAgrees
  <2>1. /\ beingCancelled(c) /\ response[c] = "none" /\ caller[c] \in {"cancelSent", "returned"}
        /\ caller[c] = "cancelSent" => due(c)
        /\ c \in pending => result[c] = "none"
    BY <1>0, <1>4 DEF Cancel, callOK, callerAgrees, beingCancelled
  <2>2. CASE /\ response' = [response EXCEPT ![c] = "err"]
             /\ refused' = refused \cup {c}
             /\ backToSelect
             /\ UNCHANGED <<pending, guest, more, result>>
    <3>1. CASE b = c
      BY <1>0, <1>1, <2>1, <2>2, <3>1 DEF backToSelect, callOK, callerAgrees, guestAgrees, untouched,
         beingSubmitted, beingCancelled, due, ending, left, TypeOK, Endings
    <3>2. CASE b # c
      BY <1>2, <2>2, <3>2, <1>0 DEF backToSelect, drained, TypeOK, callOK, guestAgrees
    <3> QED
      BY <3>1, <3>2
  <2>3. ASSUME NEW d \in SUBSET p,
               driveOK(p, g, d) \/ driveFails(p, g, d),
               NEW answer \in {"ack", "err"}, response' = [response EXCEPT ![c] = answer],
               answer = "err" => left',
               result' = delivered(d, guest'), refused' = refused, backToSelect \/ leaveLoop
        PROVE  callOK(b)'
    <3>1. /\ pending' = p \ d /\ guest' \in Guests
          /\ \A a \in Calls : g[a] # "running" => guest'[a] = g[a]
          /\ \A a \in Calls : g[a] = "running" => guest'[a] # "none"
          /\ \A a \in d : guest'[a] \in Endings
      <4>1. driveOK(p, g, d) \/ driveFails(p, g, d)
        BY <2>3
      <4> QED
        BY <2>0, <4>1, DriveEffect
    <3>2. serving' = None /\ (ending => ending')
      BY <1>0, <2>3 DEF backToSelect, leaveLoop, ending, left
    <3>3. \A a \in Calls : result'[a] = IF a \in d THEN guest'[a] ELSE result[a]
      BY <2>3 DEF delivered
    <3> HIDE DEF g, p
    <3>4. CASE b # c
      <4>1. response'[b] = response[b]
        BY <1>0, <2>3, <3>4 DEF TypeOK
      <4>2. drained(b)
        BY <2>0, <2>3, <3>1, <3>3, <3>4 DEF drained
      <4> QED
        BY <1>2, <2>3, <3>2, <3>4, <4>1, <4>2
    <3>5. CASE b = c
      <4>1. /\ response'[c] = answer /\ guest'[c] = g[c] /\ guest'[c] # "running"
            /\ c \in pending' => c \in pending /\ c \notin RPCCalls /\ c \notin d
            /\ result'[c] = IF c \in d THEN guest'[c] ELSE result[c]
        BY <1>0, <2>0, <2>3, <3>1, <3>3 DEF TypeOK
      <4>2. c \notin RPCCalls /\ due(c) => due(c)'
        BY <1>0, <2>0, <2>3, <3>1, <4>1 DEF due, Endings
      <4>3. guestAgrees(c)'
        BY <1>0, <2>0, <3>1, <4>1 DEF callOK, guestAgrees, left, Endings
      <4>4. callerAgrees(c)'
        BY <1>0, <1>1, <2>1, <2>3, <3>2, <4>1, <4>2 DEF callOK, callerAgrees, beingSubmitted,
           beingCancelled, left
      <4>5. /\ c \in pending' => result'[c] = "none"
            /\ outcome'[c] \in {"ok", "failed"} => guest'[c] = outcome'[c]
        BY <1>0, <2>0, <2>1, <4>1 DEF callOK
      <4>6. caller'[c] = "returned" =>
              \/ ending' \/ c \in refused'
              \/ c \notin pending' /\ guest'[c] # "running" /\ ~beingSubmitted(c)'
        BY <1>0, <1>1, <2>3, <3>2, <4>1 DEF callOK, beingSubmitted
      <4>7. caller'[c] = "returned" /\ c \in OperationCalls /\ guest'[c] = "ok" /\ outcome'[c] # "ok" =>
              ending' \/ c \in refused'
        BY <1>0, <2>0, <2>3, <3>2, <4>1 DEF callOK
      <4> QED
        BY <1>1, <3>2, <3>5, <4>3, <4>4, <4>5, <4>6, <4>7 DEF callOK
    <3> QED
      BY <3>4, <3>5
  <2>4. ASSUME NEW d \in SUBSET p,
               driveOK(p, g, d), response' = [response EXCEPT ![c] = "ack"],
               result' = delivered(d, guest'), backToSelect, UNCHANGED refused
        PROVE  callOK(b)'
    BY <2>3, <2>4
  <2>5. ASSUME NEW d \in SUBSET p,
               driveFails(p, g, d), response' = [response EXCEPT ![c] = "err"],
               result' = delivered(d, guest'), leaveLoop, UNCHANGED refused
        PROVE  callOK(b)'
    <3>1. left'
      BY <2>5 DEF leaveLoop, left
    <3> QED
      BY <2>3, <2>5, <3>1
  <2> QED
    BY <1>4, <2>2, <2>4, <2>5, Zenon DEF Cancel
<1> QED
  BY <1>3, <1>4

\* The driver's other steps: a drive that nobody asked for, and the end.
LEMMA DriverCallStep ==
  ASSUME Inv, Wakeup \/ SeesClose \/ FailPending \/ Finish \/ Close, NEW b \in Calls
  PROVE  callOK(b)'
<1>0. /\ TypeOK /\ DriverAgrees /\ callOK(b)
  BY DEF Inv
<1>1. CASE Wakeup
  <2>1. PICK d \in SUBSET pending :
          /\ driveOK(pending, guest, d) \/ driveFails(pending, guest, d)
          /\ result' = delivered(d, guest') /\ (backToSelect \/ leaveLoop)
    BY <1>1, Zenon DEF Wakeup
  <2>2. /\ pending' = pending \ d
        /\ \A a \in Calls : guest[a] # "running" => guest'[a] = guest[a]
        /\ \A a \in Calls : guest[a] = "running" => guest'[a] # "none"
        /\ \A a \in d : guest'[a] \in Endings
    <3>1. guest \in Guests /\ more \in BOOLEAN
      BY <1>0 DEF TypeOK, Guests
    <3> QED
      BY <2>1, <3>1, DriveEffect
  <2>3. /\ ~left /\ serving = None /\ serving' = None
        /\ UNCHANGED <<caller, outcome, ctxDone, response, refused, closeRequested, done>>
    BY <1>0, <1>1, <2>1 DEF Wakeup, DriverAgrees, left, callVars, backToSelect, leaveLoop
  <2>4. drained(b)
    BY <2>1, <2>2 DEF drained, delivered
  <2>5. serving # b /\ serving' # b
    BY <2>3, NoneAssumption DEF Calls
  <2> QED
    BY <1>0, <2>3, <2>4, <2>5, DrivenCall
<1>2. CASE SeesClose \/ Finish \/ Close
  <2>1. UNCHANGED <<caller, outcome, response, result, pending, guest, refused>>
    BY <1>2 DEF SeesClose, Finish, Close, callVars, driverVars
  <2>2. (left => left') /\ (ending => ending')
    BY <1>2 DEF SeesClose, Finish, Close, leaveLoop, left, ending, callVars, driverVars
  <2>3. \/ serving' = serving /\ command' = command
        \/ serving # b /\ serving' # b
    BY <1>0, <1>2, NoneAssumption DEF SeesClose, Finish, Close, leaveLoop, DriverAgrees, callVars,
                                      driverVars, Calls
  <2> QED
    BY <1>0, <2>1, <2>2, <2>3, QuietCall
<1>3. CASE FailPending
  <2>1. /\ left /\ left' /\ ending' /\ serving = None /\ serving' = None /\ serving # b
        /\ UNCHANGED <<caller, outcome, response, guest, refused>>
        /\ pending' = {} /\ result'[b] = IF b \in pending THEN "closed" ELSE result[b]
    BY <1>0, <1>3, NoneAssumption DEF FailPending, left, ending, callVars, failed, DriverAgrees, Calls
  <2> QED
    BY <1>0, <2>1 DEF callOK, callerAgrees, guestAgrees, untouched, due, beingSubmitted,
                      beingCancelled, Endings
<1> QED
  BY <1>1, <1>2, <1>3

\* A step of a call itself.
LEMMA CallerStep ==
  ASSUME Inv, NEW c \in Calls, NEW b \in Calls,
         \/ Receive(c) \/ Call(c) \/ EndContext(c) \/ SeesContext(c) \/ SeesEnd(c)
         \/ TakeSubmitResponse(c) \/ TakeCancelResponse(c) \/ TakeResult(c)
  PROVE  callOK(b)'
<1>0. TypeOK /\ DriverAgrees /\ callOK(b) /\ callOK(c)
  BY DEF Inv
<1> USE DEF driverVars
\* Nobody else is affected.
<1>1. /\ UNCHANGED <<pending, guest, refused, closeRequested, done>>
      /\ (left' <=> left) /\ (ending' <=> ending)
      /\ \A a \in Calls \ {c} : /\ caller'[a] = caller[a] /\ outcome'[a] = outcome[a]
                               /\ response'[a] = response[a] /\ result'[a] = result[a]
                               /\ \/ serving' = serving /\ command' = command
                                  \/ serving # a /\ serving' # a
  <2>1. CASE Receive(c)
    BY <1>0, <2>1, NoneAssumption DEF Receive, TypeOK, left, ending, DriverAgrees, Calls
  <2>2. CASE Call(c) \/ EndContext(c) \/ SeesContext(c) \/ SeesEnd(c)
    BY <1>0, <2>2 DEF Call, EndContext, SeesContext, SeesEnd, moveTo, return, TypeOK, left, ending
  <2>3. CASE TakeSubmitResponse(c) \/ TakeCancelResponse(c) \/ TakeResult(c)
    BY <1>0, <2>3 DEF TakeSubmitResponse, TakeCancelResponse, TakeResult, moveTo, return, TypeOK,
                      left, ending
  <2> QED
    BY <2>1, <2>2, <2>3
<1>2. CASE b # c
  BY <1>0, <1>1, <1>2, QuietCall
<1> USE DEF callOK, guestAgrees, callerAgrees, untouched, due, beingSubmitted, beingCancelled
<1>3. CASE b = c /\ Receive(c)
  <2>1. /\ caller[c] \in {"sending", "cancelling"} /\ serving' = c
        /\ caller'[c] = IF caller[c] = "sending" THEN "submitted" ELSE "cancelSent"
        /\ command' = IF caller[c] = "sending" THEN "submit" ELSE "cancel"
        /\ UNCHANGED <<outcome, response, result>>
    BY <1>0, <1>3 DEF Receive, TypeOK
  <2> QED
    BY <1>0, <1>1, <1>3, <2>1 DEF left
<1>4. CASE b = c /\ (Call(c) \/ EndContext(c))
  <2>1. /\ caller'[c] \in {caller[c], IF caller[c] = "idle" THEN "sending" ELSE caller[c]}
        /\ UNCHANGED <<outcome, response, result, serving, command>>
    BY <1>0, <1>4 DEF Call, EndContext, moveTo, TypeOK
  <2> QED
    BY <1>0, <1>1, <1>4, <2>1 DEF left, ending
<1>5. CASE b = c /\ SeesContext(c)
  <2>1. UNCHANGED <<response, result, serving, command>>
    BY <1>5 DEF SeesContext
  <2>2. \/ caller[c] = "sending" /\ caller'[c] = "returned" /\ outcome'[c] = "ctx"
        \/ caller[c] = "submitted" /\ caller'[c] = "cancelSubmitted" /\ outcome'[c] = outcome[c]
        \/ caller[c] = "waiting" /\ caller'[c] = "cancelling" /\ outcome'[c] = outcome[c]
    BY <1>0, <1>5 DEF SeesContext, moveTo, return, TypeOK
  <2> QED
    BY <1>0, <1>1, <1>5, <2>1, <2>2
<1>6. CASE b = c /\ SeesEnd(c)
  <2>1. /\ caller'[c] = "returned" /\ outcome'[c] = "closed" /\ caller[c] \notin {"idle", "returned"}
        /\ UNCHANGED <<response, result, serving, command>>
    BY <1>0, <1>6 DEF SeesEnd, return, TypeOK
  <2>2. ending'
    BY <1>0, <1>1, <1>6 DEF SeesEnd, closeNoticed, DriverAgrees, ending
  <2> QED
    BY <1>0, <1>1, <1>6, <2>1, <2>2
<1>7. CASE b = c /\ TakeSubmitResponse(c)
  <2>1. /\ caller[c] \in {"submitted", "cancelSubmitted"} /\ response[c] # "none"
        /\ response'[c] = "none" /\ UNCHANGED <<result, serving, command>>
        /\ \/ /\ response[c] # "ticket" /\ caller'[c] = "returned" /\ outcome'[c] = response[c]
           \/ /\ response[c] = "ticket" /\ caller'[c] \in {"waiting", "cancelling"}
              /\ outcome'[c] = outcome[c]
    BY <1>0, <1>7 DEF TakeSubmitResponse, moveTo, return, TypeOK
  <2> QED
    BY <1>0, <1>1, <1>7, <2>1 DEF left, ending, Endings
<1>8. CASE b = c /\ TakeCancelResponse(c)
  <2>1. /\ caller[c] = "cancelSent" /\ response[c] # "none" /\ response'[c] = "none"
        /\ UNCHANGED <<serving, command>>
        /\ \/ /\ response[c] = "err" /\ caller'[c] = "returned" /\ outcome'[c] = "err"
              /\ result' = result
           \/ /\ response[c] = "ack" /\ c \notin RPCCalls /\ caller'[c] = "cancelAcked"
              /\ outcome' = outcome /\ result' = result
           \/ /\ response[c] = "ack" /\ c \in RPCCalls /\ caller'[c] = "returned"
              /\ outcome'[c] = (IF result[c] = "none" THEN "ctx" ELSE result[c])
              /\ result'[c] = "none"
    BY <1>0, <1>8, CallsAssumption DEF TakeCancelResponse, moveTo, return, TypeOK
  <2> QED
    BY <1>0, <1>1, <1>8, <2>1, CallsAssumption DEF left, ending, Endings, TypeOK, Results
<1>9. CASE b = c /\ TakeResult(c)
  <2>1. /\ caller[c] \in {"waiting", "cancelling", "cancelSent", "cancelAcked"}
        /\ result[c] # "none" /\ result'[c] = "none" /\ caller'[c] = "returned"
        /\ outcome'[c] = cancelledOutcome(c) /\ UNCHANGED <<response, serving, command>>
    BY <1>0, <1>9 DEF TakeResult, return, TypeOK
  <2>2. /\ result[c] \in Endings \cup {"closed"}
        /\ cancelledOutcome(c) \in {result[c], IF result[c] = "cancelled" THEN "ctx" ELSE result[c]}
    BY <1>0, <2>1 DEF cancelledOutcome, TypeOK, Results
  <2> QED
    BY <1>0, <1>1, <1>9, <2>1, <2>2 DEF left, ending, Endings
<1> QED
  BY <1>2, <1>3, <1>4, <1>5, <1>6, <1>7, <1>8, <1>9

LEMMA NextInv == Inv /\ [Next]_vars => Inv'
<1> SUFFICES ASSUME Inv, [Next]_vars, NEW b \in Calls
             PROVE  callOK(b)'
  BY TypeStep, DriverStep DEF Inv
<1>1. ASSUME NEW c \in Calls, Submit(c) \/ Cancel(c)
      PROVE  callOK(b)'
  BY <1>1, ServeStep
<1>2. CASE Wakeup \/ SeesClose \/ FailPending \/ Finish \/ Close
  BY <1>2, DriverCallStep
<1>3. ASSUME NEW c \in Calls,
             \/ Receive(c) \/ Call(c) \/ EndContext(c) \/ SeesContext(c) \/ SeesEnd(c)
             \/ TakeSubmitResponse(c) \/ TakeCancelResponse(c) \/ TakeResult(c)
      PROVE  callOK(b)'
  BY <1>3, CallerStep
<1>4. CASE Terminated \/ UNCHANGED vars
  <2>1. callOK(b)
    BY DEF Inv
  <2> QED
    BY <1>4, <2>1, QuietCall DEF Terminated, vars, callVars, driverVars, left, ending
<1> QED
  BY <1>1, <1>2, <1>3, <1>4 DEF Next

-----------------------------------------------------------------------------
(* The theorems.                                                           *)

\* The invariant holds in every reachable state of an instance.
THEOREM Invariance == Spec => []Inv
BY InitInv, NextInv, PTL DEF Spec

\* Callers, channels, driver and guest agree, whatever the guest completes, fails
\* or refuses, and whenever contexts and the instance end.
THEOREM Consistency == Spec => []Consistent
BY Invariance, InvIsConsistent, PTL

\* The driver never waits for a caller: the one slot of every channel it is going
\* to send to is empty, also when the caller has long gone.
THEOREM DriverIsNeverBlocked == Spec => []DriverNeverBlocks
<1>1. Consistent => DriverNeverBlocks
  BY DEF Consistent
<1> QED
  BY Consistency, <1>1, PTL

\* A call that came back, by its result, an error or the end of its context, has
\* left nothing running in the guest and has not thrown away what the guest
\* opened for it, unless the instance ends with it or the guest refused to cancel.
THEOREM NothingIsLeftBehind == Spec => []NothingIsAbandoned
BY Invariance, InvIsConsistent, PTL

-----------------------------------------------------------------------------
(* The connections that are built on these operations: EngineConn.         *)

CONSTANTS ConnCalls, Roles, Kinds, Lengths, maxDataPlaneTransfer, MaxItems, Nil

VARIABLES
  role, kind, readMu, writeMu, closed, closeOnce, pc, length, written, resource, operation,
  connResult, expired, arrived, handed, received, sent, closing, connDone

E == INSTANCE EngineConn WITH Calls <- ConnCalls, result <- connResult, done <- connDone

\* What is assumed of the constants of a connection.
ConnAssumptions ==
  /\ E!KindsAssumption /\ E!RolesAssumption /\ E!TransferAssumption
  /\ E!LengthsAssumption /\ E!BoundAssumption /\ E!NilAssumption

\* The instance counts the way this module does.
LEMMA SameCardinality ==
  ASSUME NEW S
  PROVE  E!Cardinality(S) = Cardinality(S)
BY DEF E!Cardinality, Cardinality

\* And finite sets are the same.
LEMMA SameFiniteness ==
  ASSUME NEW S
  PROVE  E!IsFiniteSet(S) <=> IsFiniteSet(S)
BY DEF E!IsFiniteSet, IsFiniteSet

\* The inductive invariant of a connection.
ConnInv == ConnAssumptions /\ E!Consistent /\ E!ReadsAreConsecutive /\ E!WritesAreExact

\* Chunks are no longer than the guest takes.
LEMMA Chunks ==
  ASSUME ConnAssumptions, E!TypeOK, NEW w \in ConnCalls
  PROVE  E!chunk(w) \in Int /\ E!chunk(w) <= maxDataPlaneTransfer
<1>1. length[w] - written[w] \in Int /\ maxDataPlaneTransfer \in Nat
  <2>1. length[w] \in Lengths \cup {0} /\ written[w] \in Nat
    BY DEF E!TypeOK
  <2>2. length[w] \in Nat
    <3>1. 0 \in Nat /\ \A x \in Nat \ {0} : x \in Nat
      OBVIOUS
    <3> QED
      BY <2>1, <3>1, Zenon DEF ConnAssumptions, E!LengthsAssumption
  <2> QED
    BY <2>1, <2>2 DEF ConnAssumptions, E!TransferAssumption
<1>2. ASSUME NEW a \in Int, NEW b \in Int
      PROVE  E!Min({a, b}) \in {a, b} /\ E!Min({a, b}) <= b
  <2>1. \E x \in {a, b} : \A y \in {a, b} : x <= y
    OBVIOUS
  <2>2. E!Min({a, b}) \in {a, b} /\ \A y \in {a, b} : E!Min({a, b}) <= y
    BY <2>1 DEF E!Min
  <2> QED
    BY <2>2
<1> QED
  BY <1>1, <1>2 DEF E!chunk

\* The results the driver delivers are results.
LEMMA ResultValues ==
  ASSUME ConnAssumptions
  PROVE  /\ E!NoResult \in E!Results
         /\ \A t \in {"other", "eof", "length", "error"} : E!Answer(t) \in E!Results
         /\ \A items \in Seq(1 .. MaxItems) : E!ItemsRead(items) \in E!Results
         /\ \A n \in 0 .. maxDataPlaneTransfer : E!BytesWritten(n) \in E!Results
<1>1. <<>> \in Seq(1 .. MaxItems) /\ 0 \in 0 .. maxDataPlaneTransfer
  BY DEF ConnAssumptions, E!TransferAssumption
<1>2. E!NoResult \in E!Results
  BY <1>1 DEF E!NoResult, E!Answer, E!Results
<1>3. \A t \in {"other", "eof", "length", "error"} : E!Answer(t) \in E!Results
  BY <1>1 DEF E!Answer, E!Results
<1>4. \A items \in Seq(1 .. MaxItems) : E!ItemsRead(items) \in E!Results
  BY <1>1 DEF E!ItemsRead, E!Results
<1>5. \A n \in 0 .. maxDataPlaneTransfer : E!BytesWritten(n) \in E!Results
  BY <1>1 DEF E!BytesWritten, E!Results
<1> QED
  BY <1>2, <1>3, <1>4, <1>5

\* Sequences of numbers stay such when they are joined.
LEMMA Joined ==
  ASSUME NEW S, NEW s \in Seq(S), NEW t \in Seq(S)
  PROVE  s \o t \in Seq(S)
BY ConcatProperties

\* The items of an answer are the next ones.
LEMMA NextItems ==
  ASSUME ConnAssumptions, E!TypeOK, NEW n \in Nat, arrived + n <= MaxItems
  PROVE  /\ [i \in 1 .. n |-> arrived + i] \in Seq(1 .. MaxItems)
         /\ Len([i \in 1 .. n |-> arrived + i]) = n
         /\ DOMAIN [i \in 1 .. n |-> arrived + i] = 1 .. n
BY DEF E!TypeOK, ConnAssumptions, E!BoundAssumption

\* Every step keeps the types.
LEMMA ConnTypeStep == ConnInv /\ [E!Next]_(E!vars) => E!TypeOK'
<1> SUFFICES ASSUME ConnAssumptions, E!TypeOK, [E!Next]_(E!vars)
             PROVE  E!TypeOK'
  BY DEF ConnInv, E!Consistent
<1> USE DEF E!TypeOK, E!connVars, E!callVars, E!guestVars, E!Readers, E!Writers, E!Closers
<1>1. ASSUME NEW k \in Kinds, E!newConn(k) PROVE E!TypeOK'
  BY <1>1 DEF E!newConn
<1>2. ASSUME NEW c \in ConnCalls, E!Read(c) \/ E!Close(c) \/ E!waitForClose(c) PROVE E!TypeOK'
  <2>1. pc' \in [ConnCalls -> E!Positions]
    BY <1>2 DEF E!Read, E!Close, E!waitForClose, E!Go, E!Positions
  <2> QED
    BY <1>2, <2>1 DEF E!Read, E!Close, E!waitForClose
<1>3. ASSUME NEW w \in ConnCalls, NEW n \in Lengths, E!Write(w, n) PROVE E!TypeOK'
  BY <1>3 DEF E!Write, E!Go, E!Positions
<1>4. ASSUME NEW r \in E!Readers, E!lockRead(r) PROVE E!TypeOK'
  BY <1>4 DEF E!lockRead, E!Go, E!Positions
<1>5. ASSUME NEW r \in E!Readers, E!Accept(r) PROVE E!TypeOK'
  BY <1>5 DEF E!Accept, E!Go, E!Positions
<1>6. ASSUME NEW w \in E!Writers, NEW b \in BOOLEAN, E!lockWrite(w, b) PROVE E!TypeOK'
  BY <1>6 DEF E!lockWrite, E!Go, E!Positions
<1>7. ASSUME NEW x \in E!Closers, E!closeOnceDo(x) PROVE E!TypeOK'
  BY <1>7 DEF E!closeOnceDo, E!Go, E!Positions
<1>8. ASSUME NEW directions \in SUBSET {"read", "write"}, NEW passed \in BOOLEAN,
             E!setDataPlaneResourceDeadline(directions, passed)
      PROVE  E!TypeOK'
  BY <1>8 DEF E!setDataPlaneResourceDeadline
<1>9. ASSUME NEW c \in ConnCalls, E!submit(c) PROVE E!TypeOK'
  <2>1. connResult' \in [ConnCalls -> E!Results]
    BY <1>9, ResultValues DEF E!submit
  <2>2. pc' \in [ConnCalls -> E!Positions] /\ resource' \in BOOLEAN /\ operation' \subseteq ConnCalls
    BY <1>9 DEF E!submit, E!Go, E!Positions
  <2> QED
    BY <1>9, <2>1, <2>2 DEF E!submit
<1>10. ASSUME NEW c \in ConnCalls, NEW v \in E!Results, E!outcome(c, v)
       PROVE  operation' \subseteq ConnCalls /\ connResult' \in [ConnCalls -> E!Results]
  BY <1>10 DEF E!outcome
<1>11. ASSUME NEW r \in ConnCalls, E!answerRead(r) PROVE E!TypeOK'
  <2>1. PICK n \in 1 .. (IF kind = "stream" THEN maxDataPlaneTransfer ELSE 1) :
          LET items == [i \in 1 .. n |-> arrived + i]
          IN  /\ arrived + n <= MaxItems
              /\ arrived' = arrived + n
              /\ \/ /\ handed' = handed \o items
                    /\ E!outcome(r, E!ItemsRead(items))
                 \/ /\ kind = "datagram"
                    /\ E!outcome(r, E!Answer("other"))
                    /\ UNCHANGED handed
    BY <1>11 DEF E!answerRead
  <2> DEFINE items == [i \in 1 .. n |-> arrived + i]
  <2>2. n \in Nat
    BY DEF ConnAssumptions, E!TransferAssumption
  <2>3. items \in Seq(1 .. MaxItems)
    BY <2>1, <2>2, NextItems
  <2>4. arrived' \in 0 .. MaxItems
    BY <2>1, <2>2 DEF ConnAssumptions, E!BoundAssumption
  <2> HIDE DEF items
  <2>5. E!ItemsRead(items) \in E!Results
    BY <2>3, ResultValues
  <2>6. operation' \subseteq ConnCalls /\ connResult' \in [ConnCalls -> E!Results]
    BY <2>1, <2>5, <1>10, ResultValues DEF items
  <2>7. handed' \in Seq(1 .. MaxItems)
    <3>1. handed' = handed \o items \/ handed' = handed
      BY <2>1 DEF items
    <3>2. handed \o items \in Seq(1 .. MaxItems)
      BY <2>3, Joined
    <3> QED
      BY <3>1, <3>2
  <2>8. UNCHANGED <<E!connVars, pc, length, written, resource, expired, sent, received, closing,
        connDone>>
    BY <1>11 DEF E!answerRead
  <2> QED
    BY <2>4, <2>6, <2>7, <2>8
<1>12. ASSUME NEW r \in ConnCalls, E!answerEOF(r) PROVE E!TypeOK'
  <2>1. operation' \subseteq ConnCalls /\ connResult' \in [ConnCalls -> E!Results]
    BY <1>12, <1>10, ResultValues DEF E!answerEOF
  <2> QED
    BY <1>12, <2>1 DEF E!answerEOF
<1>13. ASSUME NEW w \in E!Writers, E!answerWrite(w) PROVE E!TypeOK'
  <2>1. PICK n \in 0 .. E!chunk(w) :
          /\ E!outcome(w, E!BytesWritten(n))
          /\ sent' = sent \o [i \in 1 .. n |-> <<w, written[w] + i>>]
    BY <1>13 DEF E!answerWrite
  <2>2. n \in 0 .. maxDataPlaneTransfer /\ n \in Nat
    BY Chunks DEF ConnAssumptions, E!TransferAssumption
  <2>3. E!BytesWritten(n) \in E!Results
    BY <2>2, ResultValues
  <2>4. operation' \subseteq ConnCalls /\ connResult' \in [ConnCalls -> E!Results]
    BY <2>1, <2>3, <1>10
  <2>5. [i \in 1 .. n |-> <<w, written[w] + i>>] \in Seq(E!Writers \X Nat)
    <3>1. \A i \in 1 .. n : <<w, written[w] + i>> \in E!Writers \X Nat
      BY <2>2
    <3> QED
      BY <2>2, <3>1
  <2>6. sent' \in Seq(E!Writers \X Nat)
    BY <2>1, <2>5, Joined
  <2> QED
    BY <1>13, <2>4, <2>6 DEF E!answerWrite
<1>14. ASSUME NEW c \in ConnCalls, E!answerError(c) PROVE E!TypeOK'
  <2>1. operation' \subseteq ConnCalls /\ connResult' \in [ConnCalls -> E!Results]
    BY <1>14, <1>10, ResultValues DEF E!answerError
  <2> QED
    BY <1>14, <2>1 DEF E!answerError
<1>15. CASE E!CloseInstance
  BY <1>15 DEF E!CloseInstance
<1>16. CASE E!driverEnds
  BY <1>16 DEF E!driverEnds
<1>17. ASSUME NEW c \in ConnCalls, E!leaveCall(c), connResult' = [connResult EXCEPT ![c] = E!NoResult],
              received' \in Seq(1 .. MaxItems), written' \in [ConnCalls -> Nat]
       PROVE  E!TypeOK'
  <2>1. pc' \in [ConnCalls -> E!Positions]
    BY <1>17 DEF E!leaveCall, E!Go, E!Positions
  <2>2. connResult' \in [ConnCalls -> E!Results]
    BY <1>17, ResultValues
  <2> QED
    BY <1>17, <2>1, <2>2 DEF E!leaveCall
<1>18. ASSUME NEW r \in ConnCalls, E!receiveRead(r) \/ E!receiveFrom(r) PROVE E!TypeOK'
  <2>1. connResult[r].items \in Seq(1 .. MaxItems)
    BY DEF E!Results
  <2>2. received' \in Seq(1 .. MaxItems)
    <3>1. received \o connResult[r].items \in Seq(1 .. MaxItems)
      BY <2>1, Joined
    <3> QED
      BY <1>18, <3>1 DEF E!receiveRead, E!receiveFrom
  <2> QED
    BY <1>17, <1>18, <2>2 DEF E!receiveRead, E!receiveFrom
<1>19. ASSUME NEW r \in ConnCalls, E!skipOther(r) PROVE E!TypeOK'
  BY <1>19, ResultValues DEF E!skipOther, E!Go, E!Positions
<1>20. ASSUME NEW w \in ConnCalls, E!tookResult(w)
       PROVE  /\ connResult' = [connResult EXCEPT ![w] = E!NoResult] /\ connResult' \in [ConnCalls -> E!Results]
              /\ written' \in [ConnCalls -> Nat] /\ UNCHANGED received
  <2>1. E!advance(w) \in Nat
    BY DEF E!advance, E!Results, ConnAssumptions, E!TransferAssumption
  <2> QED
    BY <1>20, <2>1, ResultValues DEF E!tookResult
<1>21. ASSUME NEW w \in ConnCalls, E!receiveWrite(w) \/ E!receiveWriteTo(w) PROVE E!TypeOK'
  <2>1. E!tookResult(w)
    BY <1>21 DEF E!receiveWrite, E!receiveWriteTo
  <2>2. CASE E!leaveCall(w)
    BY <1>17, <1>20, <2>1, <2>2
  <2>3. CASE E!Go(w, "asking") /\ UNCHANGED <<E!connVars, length, E!guestVars, closing, connDone>>
    BY <1>20, <2>1, <2>3 DEF E!Go, E!Positions
  <2> QED
    BY <1>21, <2>2, <2>3 DEF E!receiveWrite, E!receiveWriteTo
<1>22. ASSUME NEW c \in ConnCalls, E!receiveClose(c) \/ E!leaveClosing(c) PROVE E!TypeOK'
  BY <1>17, <1>22 DEF E!receiveClose, E!leaveClosing
<1>23. CASE UNCHANGED E!vars
  BY <1>23 DEF E!vars
<1> HIDE DEF E!TypeOK, E!Readers, E!Writers, E!Closers
<1>24. E!Readers \subseteq ConnCalls /\ E!Writers \subseteq ConnCalls /\ E!Closers \subseteq ConnCalls
  BY DEF E!Readers, E!Writers, E!Closers
<1>25. ASSUME E!Dial \/ E!DialUDP \/ E!ListenPacket \/ E!Listen PROVE E!TypeOK'
  BY <1>1, <1>25 DEF E!Dial, E!DialUDP, E!ListenPacket, E!Listen, E!newConn
<1>26. ASSUME NEW w \in E!Writers, E!enterWrite(w) \/ E!WriteTo(w) PROVE E!TypeOK'
  <2>1. (~closed) \in BOOLEAN /\ (~closed /\ length[w] <= maxDataPlaneTransfer) \in BOOLEAN
    OBVIOUS
  <2> QED
    BY <1>6, <1>26, <2>1 DEF E!enterWrite, E!WriteTo
<1>27. ASSUME NEW r \in E!Readers, E!enterRead(r) \/ E!ReadFrom(r) PROVE E!TypeOK'
  BY <1>4, <1>27 DEF E!enterRead, E!ReadFrom
<1>28. ASSUME NEW x \in E!Closers, E!closeStream(x) \/ E!closePacket(x) \/ E!closeListener(x) PROVE E!TypeOK'
  BY <1>7, <1>28 DEF E!closeStream, E!closePacket, E!closeListener
<1>29. ASSUME NEW directions \in {{"read"}, {"write"}, {"read", "write"}}, NEW passed \in BOOLEAN,
              E!SetDeadline(directions, passed) \/ E!SetPacketDeadline(directions, passed)
       PROVE  E!TypeOK'
  BY <1>8, <1>29 DEF E!SetDeadline, E!SetPacketDeadline
<1> QED
  BY <1>2, <1>3, <1>5, <1>9, <1>11, <1>12, <1>13, <1>14, <1>15, <1>16, <1>18, <1>19,
     <1>21, <1>22, <1>23, <1>24, <1>25, <1>26, <1>27, <1>28, <1>29 DEF E!Next

\* The actions, without the names they have in the three source files.
ConnSteps ==
  \/ UNCHANGED E!vars
  \/ \E k \in Kinds : E!newConn(k)
  \/ \E r \in E!Readers : E!Read(r) \/ E!Accept(r)
  \/ \E w \in E!Writers, n \in Lengths : E!Write(w, n)
  \/ \E x \in E!Closers : E!Close(x) \/ E!waitForClose(x) \/ E!closeOnceDo(x)
  \/ kind \in {"stream", "packet", "datagram"} /\ \E r \in E!Readers : E!lockRead(r)
  \/ \E w \in E!Writers, mayGoOn \in BOOLEAN : E!lockWrite(w, mayGoOn)
  \/ \E directions \in SUBSET {"read", "write"}, passed \in BOOLEAN :
       E!setDataPlaneResourceDeadline(directions, passed)
  \/ \E c \in ConnCalls : E!submit(c)
  \/ \E r \in E!Readers : E!answerRead(r)
  \/ \E r \in E!Readers : E!answerEOF(r)
  \/ \E w \in E!Writers : E!answerWrite(w)
  \/ \E c \in ConnCalls : E!answerError(c)
  \/ E!CloseInstance
  \/ E!driverEnds
  \/ \E r \in E!Readers : E!receiveRead(r) \/ E!receiveFrom(r)
  \/ \E r \in E!Readers : E!skipOther(r)
  \/ \E w \in E!Writers : E!receiveWrite(w) \/ E!receiveWriteTo(w)
  \/ \E x \in E!Closers : E!receiveClose(x)
  \/ \E c \in ConnCalls : E!leaveClosing(c)

\* Every action is one of these.
LEMMA ConnCases == [E!Next]_(E!vars) => ConnSteps
<1> SUFFICES ASSUME [E!Next]_(E!vars) PROVE ConnSteps
  OBVIOUS
<1>1. CASE E!Dial \/ E!DialUDP \/ E!ListenPacket \/ E!Listen
  <2>1. \E k \in Kinds : E!newConn(k)
    BY <1>1 DEF E!Dial, E!DialUDP, E!ListenPacket, E!Listen, E!newConn
  <2> QED
    BY <2>1 DEF ConnSteps
<1>2. ASSUME NEW w \in E!Writers, E!enterWrite(w) \/ E!WriteTo(w) PROVE ConnSteps
  <2>1. (~closed) \in BOOLEAN /\ (~closed /\ length[w] <= maxDataPlaneTransfer) \in BOOLEAN
    OBVIOUS
  <2>2. \E mayGoOn \in BOOLEAN : E!lockWrite(w, mayGoOn)
    BY <1>2, <2>1 DEF E!enterWrite, E!WriteTo
  <2> QED
    BY <2>2 DEF ConnSteps
<1>3. ASSUME NEW r \in E!Readers, E!enterRead(r) \/ E!ReadFrom(r) PROVE ConnSteps
  <2>1. kind \in {"stream", "packet", "datagram"} /\ E!lockRead(r)
    BY <1>3 DEF E!enterRead, E!ReadFrom
  <2> QED
    BY <2>1 DEF ConnSteps
<1>4. ASSUME NEW x \in E!Closers, E!closeStream(x) \/ E!closePacket(x) \/ E!closeListener(x) PROVE ConnSteps
  <2>1. E!closeOnceDo(x)
    BY <1>4 DEF E!closeStream, E!closePacket, E!closeListener
  <2> QED
    BY <2>1 DEF ConnSteps
<1>5. ASSUME NEW directions \in {{"read"}, {"write"}, {"read", "write"}}, NEW passed \in BOOLEAN,
             E!SetDeadline(directions, passed) \/ E!SetPacketDeadline(directions, passed)
      PROVE  ConnSteps
  <2>1. E!setDataPlaneResourceDeadline(directions, passed)
    BY <1>5 DEF E!SetDeadline, E!SetPacketDeadline
  <2>2. directions \in SUBSET {"read", "write"}
    OBVIOUS
  <2> QED
    BY <2>1, <2>2 DEF ConnSteps
<1> QED
  BY <1>1, <1>2, <1>3, <1>4, <1>5 DEF E!Next, ConnSteps

\* Nobody has two roles.
LEMMA RoleCases ==
  ASSUME ConnAssumptions, E!TypeOK
  PROVE  /\ E!Readers \subseteq ConnCalls /\ E!Writers \subseteq ConnCalls /\ E!Closers \subseteq ConnCalls
         /\ E!Readers \cap E!Writers = {} /\ E!Readers \cap E!Closers = {} /\ E!Writers \cap E!Closers = {}
         /\ ConnCalls = E!Readers \cup E!Writers \cup E!Closers
         /\ UNCHANGED role => E!Readers' = E!Readers /\ E!Writers' = E!Writers /\ E!Closers' = E!Closers
BY DEF E!TypeOK, E!Readers, E!Writers, E!Closers, ConnAssumptions, E!RolesAssumption

\* The holder of a mutex is the call that is asking or has submitted.
LEMMA ConnMutexStep == ConnInv /\ [E!Next]_(E!vars) => E!MutexesHeld'
<1> SUFFICES ASSUME ConnAssumptions, E!TypeOK, E!MutexesHeld, E!CallsAgree, ConnSteps
             PROVE  E!MutexesHeld'
  BY ConnCases DEF ConnInv, E!Consistent
<1>0. /\ E!Readers \subseteq ConnCalls /\ E!Writers \subseteq ConnCalls /\ E!Closers \subseteq ConnCalls
      /\ E!Readers \cap E!Writers = {} /\ E!Readers \cap E!Closers = {} /\ E!Writers \cap E!Closers = {}
      /\ pc \in [ConnCalls -> E!Positions] /\ readMu \in E!Readers \cup {Nil} /\ writeMu \in E!Writers \cup {Nil}
      /\ Nil \notin ConnCalls
  BY RoleCases DEF E!TypeOK, ConnAssumptions, E!NilAssumption
<1>00. UNCHANGED role => E!Readers' = E!Readers /\ E!Writers' = E!Writers /\ E!Closers' = E!Closers
  BY RoleCases
<1> USE DEF E!connVars
<1>1. ASSUME UNCHANGED <<E!connVars, pc>> PROVE E!MutexesHeld'
  BY <1>00, <1>1 DEF E!MutexesHeld
<1>2. ASSUME NEW k \in Kinds, E!newConn(k) PROVE E!MutexesHeld'
  <2>1. \A c \in ConnCalls : pc[c] = "idle"
    BY <1>2 DEF E!CallsAgree, E!newConn
  <2> QED
    BY <1>0, <1>00, <1>2, <2>1 DEF E!MutexesHeld, E!newConn, E!callVars
<1>3. ASSUME NEW c \in ConnCalls, NEW p, p \notin {"asking", "submitted"},
             pc[c] \notin {"asking", "submitted"}, E!Go(c, p), UNCHANGED E!connVars
      PROVE  E!MutexesHeld'
  BY <1>0, <1>00, <1>3 DEF E!MutexesHeld, E!Go
<1>4. ASSUME NEW r \in E!Readers, E!Read(r) PROVE E!MutexesHeld'
  BY <1>0, <1>3, <1>4 DEF E!Read
<1>5. ASSUME NEW r \in E!Readers, E!Accept(r) PROVE E!MutexesHeld'
  BY <1>0, <1>00, <1>5 DEF E!MutexesHeld, E!Accept, E!Go
<1>6. ASSUME NEW w \in E!Writers, NEW n \in Lengths, E!Write(w, n) PROVE E!MutexesHeld'
  BY <1>0, <1>3, <1>6 DEF E!Write
<1>7. ASSUME NEW x \in E!Closers, E!Close(x) \/ E!waitForClose(x) PROVE E!MutexesHeld'
  BY <1>0, <1>3, <1>7 DEF E!Close, E!waitForClose
<1>8. ASSUME NEW x \in E!Closers, E!closeOnceDo(x) PROVE E!MutexesHeld'
  BY <1>0, <1>00, <1>8 DEF E!MutexesHeld, E!closeOnceDo, E!Go
<1>9. ASSUME NEW r \in E!Readers, E!lockRead(r) PROVE E!MutexesHeld'
  BY <1>0, <1>00, <1>9 DEF E!MutexesHeld, E!lockRead, E!Go
<1>10. ASSUME NEW w \in E!Writers, NEW b \in BOOLEAN, E!lockWrite(w, b) PROVE E!MutexesHeld'
  BY <1>0, <1>00, <1>10 DEF E!MutexesHeld, E!lockWrite, E!Go
<1>11. ASSUME NEW c \in ConnCalls, E!submit(c) PROVE E!MutexesHeld'
  <2>1. pc[c] = "asking" /\ pc' = [pc EXCEPT ![c] = "submitted"] /\ UNCHANGED E!connVars
    BY <1>11 DEF E!submit, E!Go
  <2> QED
    BY <1>0, <1>00, <2>1 DEF E!MutexesHeld
<1>12. ASSUME NEW c \in ConnCalls, pc[c] \in {"asking", "submitted"}, E!leaveCall(c) PROVE E!MutexesHeld'
  <2>1. c \in E!Closers => closeOnce # "idle"
    BY <1>12 DEF E!CallsAgree
  <2> QED
    BY <1>0, <1>00, <1>12, <2>1 DEF E!MutexesHeld, E!leaveCall, E!Go
<1>13. ASSUME NEW r \in E!Readers, E!skipOther(r) PROVE E!MutexesHeld'
  BY <1>0, <1>00, <1>13 DEF E!MutexesHeld, E!skipOther, E!Go
<1>14. ASSUME NEW w \in E!Writers, E!receiveWrite(w) \/ E!receiveWriteTo(w) PROVE E!MutexesHeld'
  <2>1. pc[w] = "submitted"
    BY <1>14 DEF E!receiveWrite, E!receiveWriteTo, E!tookResult
  <2>2. CASE E!leaveCall(w)
    BY <1>0, <1>12, <2>1, <2>2
  <2>3. CASE E!Go(w, "asking") /\ UNCHANGED E!connVars
    BY <1>0, <1>00, <2>1, <2>3 DEF E!MutexesHeld, E!Go
  <2> QED
    BY <1>14, <2>2, <2>3 DEF E!receiveWrite, E!receiveWriteTo
<1>15. ASSUME \/ \E c \in ConnCalls : E!answerError(c) \/ E!leaveClosing(c)
              \/ \E r \in E!Readers : E!answerRead(r) \/ E!answerEOF(r) \/ E!receiveRead(r) \/ E!receiveFrom(r)
              \/ \E w \in E!Writers : E!answerWrite(w)
              \/ \E x \in E!Closers : E!receiveClose(x)
              \/ \E directions \in SUBSET {"read", "write"}, passed \in BOOLEAN :
                   E!setDataPlaneResourceDeadline(directions, passed)
              \/ E!CloseInstance \/ E!driverEnds \/ UNCHANGED E!vars
       PROVE  E!MutexesHeld'
  <2>1. \/ UNCHANGED <<E!connVars, pc>>
        \/ \E c \in ConnCalls : pc[c] \in {"asking", "submitted"} /\ E!leaveCall(c)
    BY <1>0, <1>15 DEF E!answerError, E!leaveClosing, E!answerRead, E!answerEOF, E!receiveRead,
         E!receiveFrom,
       E!answerWrite, E!receiveClose, E!setDataPlaneResourceDeadline, E!CloseInstance, E!driverEnds,
             E!vars, E!callVars
  <2> QED
    BY <1>1, <1>12, <2>1
<1> QED
  BY <1>2, <1>4, <1>5, <1>6, <1>7, <1>8, <1>9, <1>10, <1>11, <1>13, <1>14, <1>15 DEF ConnSteps

\* The fields of what is put into a result channel.
LEMMA ResultFields ==
  /\ E!NoResult.type = "none" /\ E!NoResult.items = <<>> /\ E!NoResult.n = 0
  /\ \A t : E!Answer(t).type = t /\ E!Answer(t).items = <<>> /\ E!Answer(t).n = 0
  /\ \A s : E!ItemsRead(s).type = "items" /\ E!ItemsRead(s).items = s /\ E!ItemsRead(s).n = 0
  /\ \A n : E!BytesWritten(n).type = "length" /\ E!BytesWritten(n).items = <<>> /\ E!BytesWritten(n).n = n
BY DEF E!NoResult, E!Answer, E!ItemsRead, E!BytesWritten

\* What an answer of the guest to call c says, without what else it changes.
answers(c, v) ==
  /\ c \in operation
  /\ E!outcome(c, v)
  /\ UNCHANGED <<E!connVars, pc, length, written, resource, expired, received, closing, connDone>>

\* Calls, operations and result channels stay together.
LEMMA ConnAgreeStep == ConnInv /\ [E!Next]_(E!vars) => E!CallsAgree'
<1> SUFFICES ASSUME ConnAssumptions, E!TypeOK, E!MutexesHeld, E!CallsAgree, ConnSteps
             PROVE  E!CallsAgree'
  BY ConnCases DEF ConnInv, E!Consistent
<1>0. /\ E!Readers \subseteq ConnCalls /\ E!Writers \subseteq ConnCalls /\ E!Closers \subseteq ConnCalls
      /\ E!Readers \cap E!Writers = {} /\ E!Readers \cap E!Closers = {} /\ E!Writers \cap E!Closers = {}
      /\ ConnCalls = E!Readers \cup E!Writers \cup E!Closers
      /\ pc \in [ConnCalls -> E!Positions] /\ written \in [ConnCalls -> Nat]
      /\ connResult \in [ConnCalls -> E!Results]
      /\ Nil \notin ConnCalls /\ Nil \notin Kinds /\ kind \in Kinds \cup {Nil}
      /\ Nil \notin {"stream", "packet", "datagram", "listener"}
  BY RoleCases DEF E!TypeOK, ConnAssumptions, E!KindsAssumption, E!NilAssumption
<1>00. UNCHANGED role => E!Readers' = E!Readers /\ E!Writers' = E!Writers /\ E!Closers' = E!Closers
  BY RoleCases
<1> USE DEF E!connVars, E!callVars, E!guestVars
<1>1. ASSUME NEW c \in ConnCalls, NEW p \in {"idle", "entering", "waiting", "returned"},
             pc[c] \in {"idle", "entering", "waiting"}, E!Go(c, p), kind # Nil,
             p = "waiting" => c \in E!Closers,
             c \in E!Writers /\ p \in {"idle", "entering"} => pc[c] \in {"idle", "entering"},
             c \notin operation,
             UNCHANGED <<role, kind, written, connResult, operation, closing, connDone>>,
             closeOnce' = "idle" => closeOnce = "idle"
      PROVE  E!CallsAgree'
  BY <1>0, <1>00, <1>1 DEF E!CallsAgree, E!Go
<1>2. ASSUME NEW k \in Kinds, E!newConn(k) PROVE E!CallsAgree'
  <2>1. \A c \in ConnCalls : pc[c] = "idle" /\ connResult[c] = E!NoResult
    BY <1>2 DEF E!CallsAgree, E!newConn
  <2> QED
    BY <1>0, <1>00, <1>2, <2>1, ResultFields DEF E!CallsAgree, E!newConn
<1>3. ASSUME NEW r \in E!Readers, E!Read(r) PROVE E!CallsAgree'
  BY <1>0, <1>1, <1>3 DEF E!Read
<1>4. ASSUME NEW w \in E!Writers, NEW n \in Lengths, E!Write(w, n) PROVE E!CallsAgree'
  <2>1. w \notin operation /\ kind # Nil
    BY <1>0, <1>4 DEF E!CallsAgree, E!Write
  <2> QED
    BY <1>0, <1>1, <1>4, <2>1 DEF E!Write
<1>5. ASSUME NEW x \in E!Closers, E!Close(x) \/ E!waitForClose(x) PROVE E!CallsAgree'
  <2>1. kind # Nil /\ x \notin operation
    BY <1>0, <1>5 DEF E!CallsAgree, E!Close, E!waitForClose
  <2> QED
    BY <1>0, <1>1, <1>5, <2>1 DEF E!Close, E!waitForClose
<1>6. ASSUME NEW c \in ConnCalls, pc[c] = "entering", E!Go(c, "asking"),
             UNCHANGED <<role, kind, written, connResult, operation, closing, connDone>>,
             IF c \in E!Closers THEN closeOnce' = "running" ELSE UNCHANGED closeOnce
      PROVE  E!CallsAgree'
  <2>1. kind # Nil /\ connResult[c] = E!NoResult /\ c \notin operation
    BY <1>0, <1>6 DEF E!CallsAgree
  <2> QED
    BY <1>0, <1>00, <1>6, <2>1 DEF E!CallsAgree, E!Go
<1>7. ASSUME NEW r \in E!Readers, E!Accept(r) \/ E!lockRead(r) PROVE E!CallsAgree'
  <2>1. kind # Nil /\ r \notin operation
    BY <1>0, <1>7 DEF E!CallsAgree, E!Accept, E!lockRead
  <2>2. CASE closed
    BY <1>0, <1>1, <1>7, <2>1, <2>2 DEF E!Accept, E!lockRead
  <2>3. CASE ~closed
    BY <1>0, <1>6, <1>7, <2>3 DEF E!Accept, E!lockRead
  <2> QED
    BY <2>2, <2>3
<1>8. ASSUME NEW w \in E!Writers, NEW b \in BOOLEAN, E!lockWrite(w, b) PROVE E!CallsAgree'
  <2>1. kind # Nil /\ w \notin operation
    BY <1>0, <1>8 DEF E!CallsAgree, E!lockWrite
  <2>2. CASE ~b
    BY <1>0, <1>1, <1>8, <2>1, <2>2 DEF E!lockWrite
  <2>3. CASE b
    BY <1>0, <1>6, <1>8, <2>1, <2>3 DEF E!lockWrite
  <2> QED
    BY <2>2, <2>3
<1>9. ASSUME NEW x \in E!Closers, E!closeOnceDo(x) PROVE E!CallsAgree'
  <2>1. kind # Nil /\ x \notin operation
    BY <1>0, <1>9 DEF E!CallsAgree, E!closeOnceDo
  <2>2. CASE E!Go(x, "waiting") /\ UNCHANGED closeOnce
    BY <1>0, <1>1, <1>9, <2>1, <2>2 DEF E!closeOnceDo
  <2>3. CASE E!Go(x, "asking") /\ closeOnce' = "running"
    BY <1>0, <1>6, <1>9, <2>3 DEF E!closeOnceDo
  <2> QED
    BY <1>9, <2>2, <2>3 DEF E!closeOnceDo
<1>10. ASSUME NEW c \in ConnCalls, E!submit(c) PROVE E!CallsAgree'
  <2>1. /\ pc[c] = "asking" /\ pc' = [pc EXCEPT ![c] = "submitted"]
        /\ UNCHANGED <<E!connVars, length, written, closing, connDone>>
    BY <1>10 DEF E!submit, E!Go
  <2>2. connResult[c] = E!NoResult /\ kind # Nil /\ (c \in E!Writers => c \notin operation)
    BY <1>0, <2>1 DEF E!CallsAgree
  <2>3. CASE \E t \in {"length", "error"} : connResult' = [connResult EXCEPT ![c] = E!Answer(t)] /\ UNCHANGED operation
    <3>1. PICK t \in {"length", "error"} : connResult' = [connResult EXCEPT ![c] = E!Answer(t)] /\ UNCHANGED operation
      BY <2>3
    <3>2. connResult'[c] = E!Answer(t) /\ \A d \in ConnCalls \ {c} : connResult'[d] = connResult[d]
      BY <1>0, <3>1
    <3>3. c \notin operation
      BY <1>0, <2>1 DEF E!CallsAgree
    <3> QED
      BY <1>0, <1>00, <2>1, <2>2, <3>1, <3>2, <3>3, ResultFields DEF E!CallsAgree
  <2>4. CASE c \notin E!Closers /\ operation' = operation \cup {c} /\ UNCHANGED connResult
    BY <1>0, <1>00, <2>1, <2>2, <2>4, ResultFields DEF E!CallsAgree
  <2> QED
    BY <1>10, <2>3, <2>4 DEF E!submit
<1>11. ASSUME NEW c \in ConnCalls, NEW v \in E!Results, v.type # "none", answers(c, v),
              v.type # "items" => v.items = <<>>, v.type # "length" => v.n = 0,
              kind = "listener" /\ v.type = "items" => Len(v.items) = 1
       PROVE  E!CallsAgree'
  <2>1. /\ UNCHANGED <<E!connVars, pc, written, closing, connDone>>
        /\ operation' = operation \ {c}
        /\ \A d \in ConnCalls \ {c} : connResult'[d] = connResult[d]
        /\ connResult'[c] = connResult[c] \/ (pc[c] = "submitted" /\ connResult'[c] = v)
    BY <1>0, <1>11 DEF answers, E!outcome
  <2> QED
    BY <1>0, <1>00, <1>11, <2>1 DEF E!CallsAgree
<1>12. ASSUME NEW r \in E!Readers, E!answerRead(r) PROVE E!CallsAgree'
  <2>1. PICK n \in 1 .. (IF kind = "stream" THEN maxDataPlaneTransfer ELSE 1) :
          /\ arrived + n <= MaxItems
          /\ \/ E!outcome(r, E!ItemsRead([i \in 1 .. n |-> arrived + i]))
             \/ E!outcome(r, E!Answer("other"))
    BY <1>12 DEF E!answerRead
  <2> DEFINE items == [i \in 1 .. n |-> arrived + i]
  <2>2. n \in Nat
    BY DEF ConnAssumptions, E!TransferAssumption
  <2>3. items \in Seq(1 .. MaxItems) /\ Len(items) = n
    BY <2>1, <2>2, NextItems
  <2>4. answers(r, E!ItemsRead(items)) \/ answers(r, E!Answer("other"))
    BY <1>12, <2>1 DEF E!answerRead, answers
  <2> HIDE DEF items
  <2>5. kind = "listener" => Len(items) = 1
    BY <2>3
  <2>6. E!ItemsRead(items) \in E!Results /\ E!Answer("other") \in E!Results
    BY <2>3, ResultValues
  <2>7. CASE answers(r, E!ItemsRead(items))
    BY <1>0, <1>11, <2>5, <2>6, <2>7, ResultFields
  <2>8. CASE answers(r, E!Answer("other"))
    BY <1>0, <1>11, <2>6, <2>8, ResultFields
  <2> QED
    BY <2>4, <2>7, <2>8
<1>13. ASSUME NEW c \in ConnCalls, E!answerEOF(c) \/ E!answerError(c) PROVE E!CallsAgree'
  <2>1. PICK t \in {"eof", "error"} : answers(c, E!Answer(t))
    BY <1>13 DEF E!answerEOF, E!answerError, answers
  <2>2. E!Answer(t) \in E!Results
    BY ResultValues
  <2> QED
    BY <1>11, <2>1, <2>2, ResultFields
<1>14. ASSUME NEW w \in E!Writers, E!answerWrite(w) PROVE E!CallsAgree'
  <2>1. PICK n \in 0 .. E!chunk(w) : answers(w, E!BytesWritten(n))
    BY <1>14 DEF E!answerWrite, answers
  <2>2. n \in 0 .. maxDataPlaneTransfer
    BY <1>0, Chunks DEF ConnAssumptions, E!TransferAssumption
  <2>3. E!BytesWritten(n) \in E!Results
    BY <2>2, ResultValues
  <2> QED
    BY <1>0, <1>11, <2>1, <2>3, ResultFields
<1>15. CASE E!CloseInstance \/ E!driverEnds
  BY <1>0, <1>00, <1>15 DEF E!CallsAgree, E!CloseInstance, E!driverEnds
<1>16. ASSUME NEW c \in ConnCalls, E!leaveCall(c), connResult' = [connResult EXCEPT ![c] = E!NoResult],
              pc[c] \in {"asking", "submitted"}, c \in operation => closing,
              \A d \in ConnCalls : written'[d] = written[d] \/ d = c
       PROVE  E!CallsAgree'
  <2>1. /\ connResult'[c] = E!NoResult /\ \A d \in ConnCalls \ {c} : connResult'[d] = connResult[d]
        /\ pc'[c] = (IF c \in E!Readers THEN "idle" ELSE "returned")
        /\ \A d \in ConnCalls \ {c} : pc'[d] = pc[d]
        /\ UNCHANGED <<role, kind, operation, closing, connDone>>
        /\ closeOnce' = "idle" => closeOnce = "idle"
    BY <1>0, <1>16 DEF E!leaveCall, E!Go
  <2>2. kind # Nil
    BY <1>16 DEF E!CallsAgree
  <2> QED
    BY <1>0, <1>00, <1>16, <2>1, <2>2, ResultFields DEF E!CallsAgree
<1>17. ASSUME NEW c \in ConnCalls, E!receiveRead(c) \/ E!receiveFrom(c) \/ E!receiveClose(c) \/ E!leaveClosing(c)
       PROVE  E!CallsAgree'
  <2>1. /\ E!leaveCall(c) /\ connResult' = [connResult EXCEPT ![c] = E!NoResult]
        /\ pc[c] \in {"asking", "submitted"} /\ UNCHANGED written
        /\ connResult[c].type # "none" \/ closing \/ connDone
    BY <1>17 DEF E!receiveRead, E!receiveFrom, E!receiveClose, E!leaveClosing
  <2>2. c \in operation => closing
    BY <2>1, ResultFields DEF E!CallsAgree
  <2> QED
    BY <1>16, <2>1, <2>2
<1>18. ASSUME NEW r \in E!Readers, E!skipOther(r) PROVE E!CallsAgree'
  <2>1. /\ connResult'[r] = E!NoResult /\ \A d \in ConnCalls \ {r} : connResult'[d] = connResult[d]
        /\ pc'[r] = "entering" /\ \A d \in ConnCalls \ {r} : pc'[d] = pc[d]
        /\ UNCHANGED <<role, kind, operation, closing, connDone, written, closeOnce>>
        /\ pc[r] = "submitted" /\ connResult[r].type = "other"
    BY <1>0, <1>18 DEF E!skipOther, E!Go
  <2>2. kind # Nil /\ r \notin operation
    BY <1>0, <2>1, ResultFields DEF E!CallsAgree
  <2> QED
    BY <1>0, <1>00, <2>1, <2>2, ResultFields DEF E!CallsAgree
<1>19. ASSUME NEW w \in E!Writers, E!receiveWrite(w) \/ E!receiveWriteTo(w) PROVE E!CallsAgree'
  <2>1. /\ pc[w] = "submitted" /\ connResult[w].type # "none"
        /\ connResult' = [connResult EXCEPT ![w] = E!NoResult]
        /\ \A d \in ConnCalls \ {w} : written'[d] = written[d]
    BY <1>0, <1>19 DEF E!receiveWrite, E!receiveWriteTo, E!tookResult
  <2>2. w \notin operation /\ kind # Nil
    BY <1>0, <2>1, ResultFields DEF E!CallsAgree
  <2>3. CASE E!leaveCall(w)
    BY <1>0, <1>16, <2>1, <2>2, <2>3
  <2>4. CASE E!Go(w, "asking") /\ UNCHANGED <<E!connVars, length, E!guestVars, closing, connDone>>
    <3>1. /\ connResult'[w] = E!NoResult /\ \A d \in ConnCalls \ {w} : connResult'[d] = connResult[d]
          /\ pc'[w] = "asking" /\ \A d \in ConnCalls \ {w} : pc'[d] = pc[d]
          /\ UNCHANGED <<role, kind, operation, closing, connDone, closeOnce>>
      BY <1>0, <2>1, <2>4 DEF E!Go
    <3> QED
      BY <1>0, <1>00, <2>1, <2>2, <3>1, ResultFields DEF E!CallsAgree
  <2> QED
    BY <1>19, <2>3, <2>4 DEF E!receiveWrite, E!receiveWriteTo
<1>20. CASE UNCHANGED <<E!connVars, E!callVars, operation, closing, connDone>>
  BY <1>00, <1>20 DEF E!CallsAgree
<1>21. ASSUME NEW directions \in SUBSET {"read", "write"}, NEW passed \in BOOLEAN,
              E!setDataPlaneResourceDeadline(directions, passed)
       PROVE  E!CallsAgree'
  BY <1>20, <1>21 DEF E!setDataPlaneResourceDeadline
<1>22. CASE UNCHANGED E!vars
  BY <1>20, <1>22 DEF E!vars
<1> QED
  BY <1>0, <1>2, <1>3, <1>4, <1>5, <1>7, <1>8, <1>9, <1>10, <1>12, <1>13, <1>14, <1>15, <1>17,
       <1>18,
     <1>19, <1>21, <1>22 DEF ConnSteps

-----------------------------------------------------------------------------
(* Reading.                                                                *)

\* The elements of two sequences that are joined.
LEMMA JoinedItems ==
  ASSUME NEW S, NEW s \in Seq(S), NEW t \in Seq(S)
  PROVE  /\ E!ToSet(s \o t) = E!ToSet(s) \cup E!ToSet(t)
         /\ E!IsInjective(s) /\ E!IsInjective(t) /\ E!ToSet(s) \cap E!ToSet(t) = {} => E!IsInjective(s \o t)
<1>1. /\ s \o t \in Seq(S) /\ Len(s \o t) = Len(s) + Len(t)
      /\ \A i \in 1 .. Len(s) + Len(t) : (s \o t)[i] = IF i <= Len(s) THEN s[i] ELSE t[i - Len(s)]
  BY ConcatProperties
<1>2. /\ DOMAIN s = 1 .. Len(s) /\ DOMAIN t = 1 .. Len(t) /\ DOMAIN (s \o t) = 1 .. Len(s) + Len(t)
      /\ Len(s) \in Nat /\ Len(t) \in Nat
  BY <1>1, LenProperties
<1> DEFINE u == s \o t
<1>3. /\ \A i \in DOMAIN s : i \in DOMAIN u /\ u[i] = s[i]
      /\ \A i \in DOMAIN t : i + Len(s) \in DOMAIN u /\ u[i + Len(s)] = t[i]
      /\ \A i \in DOMAIN u : \/ i \in DOMAIN s /\ u[i] = s[i]
                             \/ i - Len(s) \in DOMAIN t /\ u[i] = t[i - Len(s)]
  BY <1>1, <1>2
<1>4. \A i, j \in DOMAIN u : i - Len(s) = j - Len(s) => i = j
  BY <1>2
<1> HIDE DEF u
<1>5. E!ToSet(u) = E!ToSet(s) \cup E!ToSet(t)
  BY <1>3 DEF E!ToSet
<1>6. ASSUME E!IsInjective(s), E!IsInjective(t), E!ToSet(s) \cap E!ToSet(t) = {}, NEW i \in DOMAIN u,
             NEW j \in DOMAIN u, u[i] = u[j]
      PROVE  i = j
  <2>1. CASE i \in DOMAIN s /\ u[i] = s[i] /\ j \in DOMAIN s /\ u[j] = s[j]
    BY <1>6, <2>1 DEF E!IsInjective
  <2>2. CASE /\ i - Len(s) \in DOMAIN t /\ u[i] = t[i - Len(s)]
             /\ j - Len(s) \in DOMAIN t /\ u[j] = t[j - Len(s)]
    <3>1. i - Len(s) = j - Len(s)
      BY <1>6, <2>2, Zenon DEF E!IsInjective
    <3> QED
      BY <1>4, <3>1
  <2>3. CASE i \in DOMAIN s /\ u[i] = s[i] /\ j - Len(s) \in DOMAIN t /\ u[j] = t[j - Len(s)]
    BY <1>6, <2>3, Zenon DEF E!ToSet
  <2>4. CASE j \in DOMAIN s /\ u[j] = s[j] /\ i - Len(s) \in DOMAIN t /\ u[i] = t[i - Len(s)]
    BY <1>6, <2>4, Zenon DEF E!ToSet
  <2> QED
    BY <1>3, <2>1, <2>2, <2>3, <2>4, Zenon
<1>7. E!IsInjective(s) /\ E!IsInjective(t) /\ E!ToSet(s) \cap E!ToSet(t) = {} => E!IsInjective(u)
  BY <1>6 DEF E!IsInjective
<1> QED
  BY <1>5, <1>7 DEF u

\* Nothing is in an empty sequence, which adds nothing.
LEMMA EmptyItems ==
  /\ E!ToSet(<<>>) = {} /\ E!IsInjective(<<>>) /\ Len(<<>>) = 0
  /\ \A S : \A s \in Seq(S) : s \o <<>> = s
<1>1. DOMAIN <<>> = {} /\ Len(<<>>) = 0
  OBVIOUS
<1>2. \A S : \A s \in Seq(S) : s \o <<>> = s
  OBVIOUS
<1> QED
  BY <1>1, <1>2 DEF E!ToSet, E!IsInjective

\* What a step does to the items.
opensReads ==
  kind = Nil /\ UNCHANGED <<handed, received, arrived, connResult, readMu, role, closing>>
keepsReads ==
  /\ UNCHANGED <<handed, received, arrived, role, kind>>
  /\ closing => closing'
  /\ \A c \in ConnCalls : connResult'[c].items = connResult[c].items \/ connResult'[c].items = <<>>
  /\ ~closing' => \A r \in E!Readers : /\ connResult'[r].items = connResult[r].items
                                       /\ connResult'[r].type = "items" <=> connResult[r].type = "items"
  /\ closing' \/ kind = "listener" \/ E!inHand' = E!inHand
returnsItems(r) ==
  /\ UNCHANGED <<handed, arrived, role, kind, closing>>
  /\ pc[r] = "submitted"
  /\ received' = received \o connResult[r].items
  /\ connResult' = [connResult EXCEPT ![r] = E!NoResult]
  /\ readMu' = IF readMu = r THEN Nil ELSE readMu

ReadSteps ==
  \/ opensReads
  \/ keepsReads
  \/ \E r \in E!Readers : returnsItems(r)
  \/ \E r \in E!Readers : E!answerRead(r)

\* Every action is one of these.
LEMMA ReadCases == ConnInv /\ [E!Next]_(E!vars) => ReadSteps
<1> SUFFICES ASSUME ConnAssumptions, E!TypeOK, E!MutexesHeld, E!CallsAgree, ConnSteps
             PROVE  ReadSteps
  BY ConnCases DEF ConnInv, E!Consistent
<1>0. /\ E!Readers \subseteq ConnCalls /\ E!Writers \subseteq ConnCalls /\ E!Closers \subseteq ConnCalls
      /\ E!Readers \cap E!Writers = {} /\ E!Readers \cap E!Closers = {} /\ E!Writers \cap E!Closers = {}
      /\ ConnCalls = E!Readers \cup E!Writers \cup E!Closers
      /\ connResult \in [ConnCalls -> E!Results]
      /\ Nil \notin ConnCalls /\ readMu \in E!Readers \cup {Nil}
  BY RoleCases DEF E!TypeOK, ConnAssumptions, E!NilAssumption
<1> USE DEF E!connVars, E!callVars, E!guestVars
<1>1. ASSUME UNCHANGED <<handed, received, arrived, role, kind, connResult, readMu>>, closing => closing'
      PROVE  ReadSteps
  BY <1>1 DEF ReadSteps, keepsReads, E!inHand
<1>2. ASSUME NEW k \in Kinds, E!newConn(k) PROVE ReadSteps
  BY <1>2 DEF ReadSteps, opensReads, E!newConn
<1>3. ASSUME NEW c \in ConnCalls, UNCHANGED <<handed, received, arrived, role, kind>>,
      closing => closing',
             UNCHANGED readMu \/ c \notin E!Readers,
             readMu # c => UNCHANGED readMu,
             \A d \in ConnCalls \ {c} : connResult'[d] = connResult[d],
             \/ /\ connResult'[c].items = connResult[c].items
                /\ connResult'[c].type = "items" <=> connResult[c].type = "items"
             \/ c \notin E!Readers /\ connResult'[c].items = <<>>
      PROVE  ReadSteps
  <2>1. readMu' = readMu
    BY <1>0, <1>3
  <2>2. E!inHand' = E!inHand
    BY <1>0, <1>3, <2>1 DEF E!inHand
  <2>3. keepsReads
    BY <1>0, <1>3, <2>2 DEF keepsReads
  <2> QED
    BY <2>3 DEF ReadSteps
<1>4. ASSUME NEW r \in E!Readers, kind \in {"stream", "packet", "datagram"}, E!lockRead(r) PROVE ReadSteps
  <2>1. /\ UNCHANGED <<handed, received, arrived, role, kind, connResult, closing>>
        /\ readMu = Nil /\ readMu' \in {Nil, r} /\ pc[r] = "entering"
    BY <1>4 DEF E!lockRead
  <2>2. connResult[r].items = <<>>
    BY <1>0, <2>1, ResultFields DEF E!CallsAgree
  <2>3. E!inHand' = E!inHand
    BY <1>0, <2>1, <2>2 DEF E!inHand
  <2>4. keepsReads
    BY <2>1, <2>3 DEF keepsReads
  <2> QED
    BY <2>4 DEF ReadSteps
<1>5. ASSUME NEW c \in ConnCalls, E!submit(c) PROVE ReadSteps
  <2>1. /\ UNCHANGED <<handed, received, arrived, role, kind, readMu, closing>> /\ pc[c] = "asking"
        /\ \A d \in ConnCalls \ {c} : connResult'[d] = connResult[d]
        /\ connResult'[c] = connResult[c] \/ \E t \in {"length", "error"} : connResult'[c] = E!Answer(t)
    BY <1>0, <1>5 DEF E!submit
  <2>2. connResult[c].items = <<>> /\ connResult[c].type # "items"
    BY <2>1, ResultFields DEF E!CallsAgree
  <2>3. connResult'[c].items = <<>> /\ connResult'[c].type # "items"
    BY <2>1, <2>2, ResultFields
  <2> QED
    BY <1>3, <2>1, <2>2, <2>3
<1>6. ASSUME NEW c \in ConnCalls, NEW v, v.items = <<>>, v.type # "items", c \in operation,
      E!outcome(c, v),
             UNCHANGED <<handed, received, arrived, role, kind, readMu, closing>>
      PROVE  ReadSteps
  <2>1. /\ \A d \in ConnCalls \ {c} : connResult'[d] = connResult[d]
        /\ connResult'[c] = connResult[c] \/ connResult'[c] = v
    BY <1>0, <1>6 DEF E!outcome
  <2>2. connResult[c].items = <<>> /\ connResult[c].type # "items"
    BY <1>6, ResultFields DEF E!CallsAgree
  <2> QED
    BY <1>3, <1>6, <2>1, <2>2
<1>7. ASSUME NEW c \in ConnCalls, E!answerEOF(c) \/ E!answerError(c) PROVE ReadSteps
  <2>1. PICK t \in {"eof", "error"} : E!outcome(c, E!Answer(t))
    BY <1>7 DEF E!answerEOF, E!answerError
  <2> QED
    BY <1>6, <1>7, <2>1, ResultFields DEF E!answerEOF, E!answerError
<1>8. ASSUME NEW w \in E!Writers, E!answerWrite(w) PROVE ReadSteps
  <2>1. PICK n \in 0 .. E!chunk(w) : E!outcome(w, E!BytesWritten(n))
    BY <1>8 DEF E!answerWrite
  <2> QED
    BY <1>0, <1>6, <1>8, <2>1, ResultFields DEF E!answerWrite
<1>9. ASSUME NEW r \in E!Readers, E!receiveRead(r) \/ E!receiveFrom(r) PROVE ReadSteps
  <2>1. returnsItems(r)
    BY <1>9 DEF E!receiveRead, E!receiveFrom, E!leaveCall, returnsItems
  <2> QED
    BY <2>1 DEF ReadSteps
<1>10. ASSUME NEW r \in E!Readers, E!skipOther(r) PROVE ReadSteps
  <2>1. /\ UNCHANGED <<handed, received, arrived, role, kind, closing>>
        /\ pc[r] = "submitted" /\ connResult[r].type = "other" /\ readMu' = Nil
        /\ connResult' = [connResult EXCEPT ![r] = E!NoResult]
    BY <1>10 DEF E!skipOther
  <2>2. connResult[r].items = <<>>
    BY <1>0, <2>1 DEF E!CallsAgree
  <2>3. /\ connResult'[r] = E!NoResult /\ \A d \in ConnCalls \ {r} : connResult'[d] = connResult[d]
    BY <1>0, <2>1
  <2>4. kind \in {"stream", "packet", "datagram"} => readMu = r
    BY <2>1 DEF E!MutexesHeld
  <2>5. kind = "listener" \/ kind \in {"stream", "packet", "datagram"}
    <3>1. kind # Nil
      BY <1>0, <2>1 DEF E!CallsAgree
    <3> QED
      BY <3>1 DEF E!TypeOK, ConnAssumptions, E!KindsAssumption
  <2>6. kind = "listener" \/ E!inHand' = E!inHand
    BY <1>0, <2>1, <2>2, <2>4, <2>5 DEF E!inHand
  <2>7. keepsReads
    BY <1>0, <2>1, <2>2, <2>3, <2>6, ResultFields DEF keepsReads
  <2> QED
    BY <2>7 DEF ReadSteps
<1>11. ASSUME NEW c \in E!Writers \cup E!Closers, connResult' = [connResult EXCEPT ![c] = E!NoResult],
              UNCHANGED <<handed, received, arrived, role, kind, closing>>,
              UNCHANGED readMu \/ readMu' = (IF readMu = c THEN Nil ELSE readMu)
       PROVE  ReadSteps
  <2>1. c \in ConnCalls /\ c \notin E!Readers /\ readMu' = readMu
    BY <1>0, <1>11
  <2>2. connResult'[c] = E!NoResult /\ \A d \in ConnCalls \ {c} : connResult'[d] = connResult[d]
    BY <1>0, <1>11, <2>1
  <2> QED
    BY <1>3, <1>11, <2>1, <2>2, ResultFields
<1>12. ASSUME NEW w \in E!Writers, E!receiveWrite(w) \/ E!receiveWriteTo(w) PROVE ReadSteps
  BY <1>11, <1>12 DEF E!receiveWrite, E!receiveWriteTo, E!tookResult, E!leaveCall
<1>13. ASSUME NEW x \in E!Closers, E!receiveClose(x) PROVE ReadSteps
  BY <1>11, <1>13 DEF E!receiveClose, E!leaveCall
<1>14. ASSUME NEW c \in ConnCalls, E!leaveClosing(c) PROVE ReadSteps
  <2>1. /\ UNCHANGED <<handed, received, arrived, role, kind, closing>> /\ (closing \/ connDone)
        /\ connResult' = [connResult EXCEPT ![c] = E!NoResult]
    BY <1>14 DEF E!leaveClosing, E!leaveCall
  <2>2. closing'
    BY <2>1 DEF E!CallsAgree
  <2>3. \A d \in ConnCalls : connResult'[d].items = connResult[d].items \/ connResult'[d].items = <<>>
    BY <1>0, <2>1, ResultFields
  <2>4. keepsReads
    BY <2>1, <2>2, <2>3 DEF keepsReads
  <2> QED
    BY <2>4 DEF ReadSteps
<1>15. ASSUME NEW r \in E!Readers, E!Read(r) \/ E!Accept(r) PROVE ReadSteps
  BY <1>1, <1>15 DEF E!Read, E!Accept
<1>16. ASSUME NEW w \in E!Writers, NEW n \in Lengths, E!Write(w, n) PROVE ReadSteps
  BY <1>1, <1>16 DEF E!Write
<1>17. ASSUME NEW x \in E!Closers, E!Close(x) \/ E!waitForClose(x) \/ E!closeOnceDo(x) PROVE ReadSteps
  BY <1>1, <1>17 DEF E!Close, E!waitForClose, E!closeOnceDo
<1>18. ASSUME NEW w \in E!Writers, NEW b \in BOOLEAN, E!lockWrite(w, b) PROVE ReadSteps
  BY <1>1, <1>18 DEF E!lockWrite
<1>19. ASSUME NEW directions \in SUBSET {"read", "write"}, NEW passed \in BOOLEAN,
              E!setDataPlaneResourceDeadline(directions, passed)
       PROVE  ReadSteps
  BY <1>1, <1>19 DEF E!setDataPlaneResourceDeadline
<1>20. CASE E!CloseInstance \/ E!driverEnds \/ UNCHANGED E!vars
  BY <1>1, <1>20 DEF E!CloseInstance, E!driverEnds, E!vars
<1>21. ASSUME NEW r \in E!Readers, E!answerRead(r) PROVE ReadSteps
  BY <1>21 DEF ReadSteps
<1> QED
  BY <1>0, <1>2, <1>4, <1>5, <1>7, <1>8, <1>9, <1>10, <1>12, <1>13, <1>14, <1>15, <1>16, <1>17,
       <1>18,
     <1>19, <1>20, <1>21 DEF ConnSteps

\* The items of an answer are different ones, and new.
LEMMA NewItems ==
  ASSUME ConnAssumptions, E!TypeOK, NEW n \in Nat, arrived + n <= MaxItems
  PROVE  /\ E!IsInjective([i \in 1 .. n |-> arrived + i])
         /\ E!ToSet([i \in 1 .. n |-> arrived + i]) \subseteq 1 .. (arrived + n)
         /\ E!ToSet([i \in 1 .. n |-> arrived + i]) \cap (1 .. arrived) = {}
<1> DEFINE items == [i \in 1 .. n |-> arrived + i]
<1>1. arrived \in Nat
  BY DEF E!TypeOK, ConnAssumptions, E!BoundAssumption
<1>2. DOMAIN items = 1 .. n /\ \A i \in 1 .. n : items[i] = arrived + i
  OBVIOUS
<1> HIDE DEF items
<1>3. E!IsInjective(items)
  BY <1>1, <1>2 DEF E!IsInjective
<1>4. \A x \in E!ToSet(items) : x \in 1 .. (arrived + n) /\ x \notin 1 .. arrived
  BY <1>1, <1>2 DEF E!ToSet
<1> QED
  BY <1>3, <1>4 DEF items

\* What answerRead does, with the items by name.
answersItems(r, items, n) ==
  /\ n \in Nat
  /\ items \in Seq(1 .. MaxItems)
  /\ Len(items) = n
  /\ kind = "listener" => n = 1
  /\ E!IsInjective(items)
  /\ E!ToSet(items) \subseteq 1 .. arrived'
  /\ E!ToSet(items) \cap (1 .. arrived) = {}
  /\ arrived' = arrived + n
  /\ r \in operation
  /\ UNCHANGED <<E!connVars, pc, received, closing>>
  /\ \/ handed' = handed \o items /\ E!outcome(r, E!ItemsRead(items))
     \/ kind = "datagram" /\ UNCHANGED handed /\ E!outcome(r, E!Answer("other"))

\* And that it is what answerRead does.
LEMMA AnswerItems ==
  ASSUME ConnAssumptions, E!TypeOK, NEW r \in E!Readers, E!answerRead(r)
  PROVE  \E items, n : answersItems(r, items, n)
<1>1. PICK n \in 1 .. (IF kind = "stream" THEN maxDataPlaneTransfer ELSE 1) :
        LET items == [i \in 1 .. n |-> arrived + i]
        IN  /\ arrived + n <= MaxItems
            /\ arrived' = arrived + n
            /\ \/ /\ handed' = handed \o items
                  /\ E!outcome(r, E!ItemsRead(items))
               \/ /\ kind = "datagram"
                  /\ E!outcome(r, E!Answer("other"))
                  /\ UNCHANGED handed
  BY DEF E!answerRead
<1> DEFINE items == [i \in 1 .. n |-> arrived + i]
<1>2. n \in Nat /\ (kind = "listener" => n = 1)
  BY DEF ConnAssumptions, E!TransferAssumption
<1>3. items \in Seq(1 .. MaxItems) /\ Len(items) = n
  BY <1>1, <1>2, NextItems
<1>4. E!IsInjective(items) /\ E!ToSet(items) \subseteq 1 .. (arrived + n) /\ E!ToSet(items) \cap (1 .. arrived) = {}
  BY <1>1, <1>2, NewItems
<1>5. /\ arrived' = arrived + n
      /\ \/ handed' = handed \o items /\ E!outcome(r, E!ItemsRead(items))
         \/ kind = "datagram" /\ UNCHANGED handed /\ E!outcome(r, E!Answer("other"))
  BY <1>1
<1>6. r \in operation /\ UNCHANGED <<E!connVars, pc, received, closing>>
  BY DEF E!answerRead
<1> HIDE DEF items
<1>7. answersItems(r, items, n)
  BY <1>2, <1>3, <1>4, <1>5, <1>6 DEF answersItems
<1> QED
  BY <1>7

\* Items do not get into two places.
LEMMA EachItemOnceStep == ConnInv /\ [E!Next]_(E!vars) => E!EachItemOnce'
<1> SUFFICES ASSUME ConnAssumptions, E!TypeOK, E!CallsAgree, E!EachItemOnce, ReadSteps
             PROVE  E!EachItemOnce'
  BY ReadCases DEF ConnInv, E!Consistent, E!ReadsAreConsecutive
<1>0. /\ connResult \in [ConnCalls -> E!Results] /\ E!Readers \subseteq ConnCalls
      /\ handed \in Seq(1 .. MaxItems) /\ received \in Seq(1 .. MaxItems)
      /\ \A c \in ConnCalls : connResult[c].items \in Seq(1 .. MaxItems)
      /\ arrived \in Nat
  BY RoleCases DEF E!TypeOK, E!Results, ConnAssumptions, E!BoundAssumption
<1>1. ASSUME UNCHANGED <<handed, received, arrived>>,
             \A c \in ConnCalls : connResult'[c].items = connResult[c].items \/ connResult'[c].items = <<>>
      PROVE  E!EachItemOnce'
  BY <1>1, EmptyItems, Zenon DEF E!EachItemOnce
<1>2. ASSUME NEW r \in E!Readers, returnsItems(r) PROVE E!EachItemOnce'
  <2> DEFINE items == connResult[r].items
  <2>1. /\ UNCHANGED <<handed, arrived>> /\ received' = received \o items
        /\ connResult'[r] = E!NoResult /\ \A d \in ConnCalls \ {r} : connResult'[d] = connResult[d]
    BY <1>0, <1>2 DEF returnsItems
  <2>2. connResult'[r].items = <<>> /\ r \in ConnCalls
    BY <1>0, <2>1, ResultFields
  <2>3. /\ E!IsInjective(items) /\ E!ToSet(items) \subseteq E!ToSet(handed) \ E!ToSet(received)
        /\ \A d \in ConnCalls \ {r} : E!ToSet(items) \cap E!ToSet(connResult[d].items) = {}
    BY <1>0 DEF E!EachItemOnce
  <2>4. E!ToSet(received') = E!ToSet(received) \cup E!ToSet(items) /\ E!IsInjective(received')
    <3>1. E!ToSet(received) \cap E!ToSet(items) = {} /\ E!IsInjective(received)
      BY <2>3 DEF E!EachItemOnce
    <3>2. items \in Seq(1 .. MaxItems)
      BY <1>0
    <3> QED
      BY <1>0, <2>1, <2>3, <3>1, <3>2, JoinedItems
  <2> HIDE DEF items
  <2>5. ASSUME NEW c \in ConnCalls
        PROVE  /\ E!IsInjective(connResult'[c].items)
               /\ E!ToSet(connResult'[c].items) \subseteq E!ToSet(handed) \ E!ToSet(received')
               /\ \A d \in ConnCalls \ {c} : E!ToSet(connResult'[c].items) \cap E!ToSet(connResult'[d].items) = {}
    <3>1. CASE c = r
      BY <2>2, <3>1, EmptyItems
    <3>2. CASE c # r
      <4>1. /\ connResult'[c] = connResult[c] /\ E!IsInjective(connResult[c].items)
            /\ E!ToSet(connResult[c].items) \subseteq E!ToSet(handed) \ E!ToSet(received)
            /\ E!ToSet(connResult[c].items) \cap E!ToSet(items) = {}
            /\ \A d \in ConnCalls \ {c} : E!ToSet(connResult[c].items) \cap E!ToSet(connResult[d].items) = {}
        BY <2>1, <2>3, <3>2 DEF E!EachItemOnce
      <4>2. \A d \in ConnCalls \ {c} : E!ToSet(connResult'[d].items) \in {E!ToSet(connResult[d].items), {}}
        BY <2>1, <2>2, EmptyItems
      <4> QED
        BY <2>4, <4>1, <4>2
    <3> QED
      BY <3>1, <3>2
  <2>6. /\ E!ToSet(handed) \subseteq 1 .. arrived /\ E!ToSet(received) \subseteq E!ToSet(handed)
    BY DEF E!EachItemOnce
  <2> QED
    BY <2>1, <2>3, <2>4, <2>5, <2>6 DEF E!EachItemOnce
<1>3. ASSUME NEW r \in E!Readers, E!answerRead(r) PROVE E!EachItemOnce'
  <2>1. PICK items, n : answersItems(r, items, n)
    BY <1>3, AnswerItems
  <2>2. /\ UNCHANGED received
        /\ r \in ConnCalls /\ \A d \in ConnCalls \ {r} : connResult'[d] = connResult[d]
        /\ \/ handed' = handed \o items /\ connResult'[r] \in {connResult[r], E!ItemsRead(items)}
           \/ handed' = handed /\ connResult'[r] \in {connResult[r], E!Answer("other")}
    BY <1>0, <2>1 DEF answersItems, E!outcome
  <2>3. \/ handed' = handed \o items /\ connResult'[r].items \in {<<>>, items}
        \/ handed' = handed /\ connResult'[r].items = <<>>
    <3>1. connResult[r].items = <<>>
      BY <1>0, <2>1, ResultFields DEF E!CallsAgree, answersItems
    <3> QED
      BY <2>2, <3>1, ResultFields
  <2>4. /\ arrived' \in Nat /\ arrived <= arrived'
        /\ E!IsInjective(items) /\ items \in Seq(1 .. MaxItems)
        /\ E!ToSet(items) \subseteq 1 .. arrived' /\ E!ToSet(items) \cap (1 .. arrived) = {}
    BY <1>0, <2>1 DEF answersItems
  <2>5. E!ToSet(handed \o items) = E!ToSet(handed) \cup E!ToSet(items)
    BY <1>0, <2>4, JoinedItems
  <2>6. /\ E!ToSet(handed) \subseteq 1 .. arrived /\ E!ToSet(received) \subseteq E!ToSet(handed)
        /\ E!IsInjective(received)
        /\ \A d \in ConnCalls : E!ToSet(connResult[d].items) \subseteq E!ToSet(handed) \ E!ToSet(received)
    BY DEF E!EachItemOnce
  <2>7. 1 .. arrived \subseteq 1 .. arrived'
    BY <1>0, <2>4
  <2>8. E!ToSet(handed') \subseteq 1 .. arrived' /\ E!ToSet(handed) \subseteq E!ToSet(handed')
    BY <2>3, <2>4, <2>5, <2>6, <2>7
  <2>9. /\ E!IsInjective(connResult'[r].items)
        /\ E!ToSet(connResult'[r].items) \subseteq E!ToSet(handed') \ E!ToSet(received)
        /\ \A d \in ConnCalls \ {r} : E!ToSet(connResult'[r].items) \cap E!ToSet(connResult[d].items) = {}
    <3>1. CASE connResult'[r].items = <<>>
      BY <3>1, EmptyItems
    <3>2. CASE handed' = handed \o items /\ connResult'[r].items = items
      BY <2>4, <2>5, <2>6, <3>2
    <3> QED
      BY <2>3, <3>1, <3>2
  <2>10. ASSUME NEW c \in ConnCalls
         PROVE  /\ E!IsInjective(connResult'[c].items)
                /\ E!ToSet(connResult'[c].items) \subseteq E!ToSet(handed') \ E!ToSet(received)
                /\ \A d \in ConnCalls \ {c} : E!ToSet(connResult'[c].items) \cap E!ToSet(connResult'[d].items) = {}
    <3>1. CASE c = r
      BY <2>2, <2>9, <3>1
    <3>2. CASE c # r
      <4>1. /\ connResult'[c] = connResult[c] /\ E!IsInjective(connResult[c].items)
            /\ E!ToSet(connResult[c].items) \subseteq E!ToSet(handed) \ E!ToSet(received)
            /\ \A d \in ConnCalls \ {c} : E!ToSet(connResult[c].items) \cap E!ToSet(connResult[d].items) = {}
        BY <2>2, <3>2 DEF E!EachItemOnce
      <4>2. E!ToSet(connResult[c].items) \cap E!ToSet(connResult'[r].items) = {}
        BY <2>9, <3>2
      <4>3. \A d \in ConnCalls \ {c} : d = r \/ connResult'[d] = connResult[d]
        BY <2>2
      <4> QED
        BY <2>8, <4>1, <4>2, <4>3
    <3> QED
      BY <3>1, <3>2
  <2> QED
    BY <2>2, <2>6, <2>8, <2>10 DEF E!EachItemOnce
<1>4. CASE opensReads
  BY <1>1, <1>4 DEF opensReads
<1>5. CASE keepsReads
  BY <1>1, <1>5 DEF keepsReads
<1> QED
  BY <1>2, <1>3, <1>4, <1>5 DEF ReadSteps

\* Who is about to return something: with a mutex, its holder alone.
LEMMA ReadsStep == ConnInv /\ [E!Next]_(E!vars) => E!ReadsAreConsecutive'
<1> SUFFICES ASSUME ConnAssumptions, E!TypeOK, E!MutexesHeld, E!CallsAgree, E!ReadsAreConsecutive,
      ReadSteps, E!EachItemOnce'
             PROVE  E!ReadsAreConsecutive'
  BY ReadCases, EachItemOnceStep DEF ConnInv, E!Consistent
<1>0. /\ connResult \in [ConnCalls -> E!Results] /\ E!Readers \subseteq ConnCalls
      /\ handed \in Seq(1 .. MaxItems) /\ received \in Seq(1 .. MaxItems)
      /\ \A c \in ConnCalls : connResult[c].items \in Seq(1 .. MaxItems)
      /\ readMu \in E!Readers \cup {Nil} /\ Nil \notin ConnCalls /\ kind \in Kinds \cup {Nil}
      /\ Nil \notin {"stream", "packet", "datagram", "listener"}
      /\ Kinds \subseteq {"stream", "packet", "datagram", "listener"}
      /\ Len(handed) \in Nat /\ Len(received) \in Nat
  BY RoleCases DEF E!TypeOK, E!Results, ConnAssumptions, E!KindsAssumption, E!NilAssumption
<1>00. UNCHANGED role => E!Readers' = E!Readers
  BY RoleCases
<1> DEFINE InOrder == (~closing /\ kind # "listener") => handed = received \o E!inHand
           Counted == (~closing /\ kind = "listener") =>
                        IsFiniteSet(E!inFlight) /\ Len(handed) - Len(received) = Cardinality(E!inFlight)
<1>1. InOrder /\ Counted
  BY SameCardinality, SameFiniteness DEF E!ReadsAreConsecutive
<1> SUFFICES InOrder' /\ Counted'
  BY SameCardinality, SameFiniteness DEF E!ReadsAreConsecutive
<1>2. CASE opensReads
  <2>1. /\ \A c \in ConnCalls : connResult[c] = E!NoResult /\ pc[c] = "idle"
    BY <1>2 DEF opensReads, E!CallsAgree
  <2>2. readMu = Nil
    BY <1>0, <2>1 DEF E!MutexesHeld
  <2>3. E!inHand = <<>> /\ E!inHand' = <<>>
    BY <1>2, <2>2 DEF E!inHand, opensReads
  <2>4. E!inFlight = {} /\ E!inFlight' = {}
    BY <1>0, <1>00, <1>2, <2>1, ResultFields DEF E!inFlight, opensReads
  <2>5. handed = received \/ closing
    BY <1>0, <1>1, <1>2, <2>3, EmptyItems DEF opensReads
  <2>6. IsFiniteSet({}) /\ Cardinality({}) = 0
    BY FS_EmptySet
  <2>7. handed' = handed /\ received' = received /\ closing' = closing
    BY <1>2 DEF opensReads
  <2>8. InOrder'
    BY <1>0, <2>3, <2>5, <2>7, EmptyItems
  <2>9. Counted'
    BY <1>0, <2>4, <2>5, <2>6, <2>7
  <2> QED
    BY <2>8, <2>9
<1>3. CASE keepsReads
  <2>1. UNCHANGED <<handed, received, kind>> /\ (closing => closing')
    BY <1>3 DEF keepsReads
  <2>2. closing' \/ E!inFlight' = E!inFlight
    <3>1. E!Readers' = E!Readers
      BY <1>00, <1>3 DEF keepsReads
    <3>2. closing' \/ \A r \in E!Readers : connResult'[r].type = "items" <=> connResult[r].type = "items"
      BY <1>3 DEF keepsReads
    <3> QED
      BY <3>1, <3>2, Zenon DEF E!inFlight
  <2>3. closing' \/ kind = "listener" \/ E!inHand' = E!inHand
    BY <1>3 DEF keepsReads
  <2> QED
    BY <1>1, <2>1, <2>2, <2>3
<1>4. ASSUME NEW r \in E!Readers, returnsItems(r) PROVE InOrder' /\ Counted'
  <2> DEFINE items == connResult[r].items
  <2>1. /\ UNCHANGED <<handed, role, kind, closing>> /\ received' = received \o items
        /\ pc[r] = "submitted"
        /\ readMu' = (IF readMu = r THEN Nil ELSE readMu)
        /\ connResult'[r] = E!NoResult /\ \A d \in ConnCalls \ {r} : connResult'[d] = connResult[d]
    BY <1>0, <1>4 DEF returnsItems
  <2>2. kind # Nil
    BY <1>0, <2>1 DEF E!CallsAgree
  <2>3. items \in Seq(1 .. MaxItems)
    BY <1>0
  <2>4. received' \in Seq(1 .. MaxItems) /\ Len(received') = Len(received) + Len(items) /\ Len(items) \in Nat
    BY <1>0, <2>1, <2>3, ConcatProperties, LenProperties
  <2>5. InOrder'
    <3>1. SUFFICES ASSUME ~closing, kind # "listener" PROVE handed = received' \o E!inHand'
      BY <2>1
    <3>2. readMu = r
      BY <1>0, <2>1, <2>2, <3>1 DEF E!MutexesHeld
    <3>3. E!inHand = items /\ E!inHand' = <<>>
      BY <1>0, <2>1, <3>2 DEF E!inHand
    <3> QED
      BY <1>1, <2>1, <2>4, <3>1, <3>3, EmptyItems
  <2>6. Counted'
    <3>1. SUFFICES ASSUME ~closing, kind = "listener"
                   PROVE  IsFiniteSet(E!inFlight') /\ Len(handed) - Len(received') = Cardinality(E!inFlight')
      BY <2>1
    <3>2. E!inFlight' = E!inFlight \ {r}
      BY <1>0, <1>00, <2>1, ResultFields DEF E!inFlight
    <3>3. IsFiniteSet(E!inFlight) /\ Len(handed) - Len(received) = Cardinality(E!inFlight)
      BY <1>1, <3>1
    <3>4. CASE r \in E!inFlight
      <4>1. Len(items) = 1
        BY <1>0, <3>1, <3>4 DEF E!CallsAgree, E!inFlight
      <4>2. IsFiniteSet(E!inFlight') /\ Cardinality(E!inFlight') = Cardinality(E!inFlight) - 1
        BY <3>2, <3>3, <3>4, FS_RemoveElement
      <4> QED
        BY <1>0, <2>4, <3>3, <4>1, <4>2
    <3>5. CASE r \notin E!inFlight
      <4>1. items = <<>>
        BY <1>0, <3>5 DEF E!CallsAgree, E!inFlight
      <4>2. E!inFlight' = E!inFlight
        BY <3>2, <3>5
      <4>3. Len(items) = 0
        BY <4>1, EmptyItems
      <4> QED
        BY <1>0, <2>4, <3>3, <4>2, <4>3
    <3> QED
      BY <3>4, <3>5
  <2> QED
    BY <2>5, <2>6
<1>5. ASSUME NEW r \in E!Readers, E!answerRead(r) PROVE InOrder' /\ Counted'
  <2>1. PICK items, n : answersItems(r, items, n)
    BY <1>5, AnswerItems
  <2>2. /\ UNCHANGED <<role, kind, readMu, pc, received, closing>> /\ r \in operation
        /\ items \in Seq(1 .. MaxItems) /\ Len(items) = n /\ n \in Nat /\ (kind = "listener" => n = 1)
    BY <2>1 DEF answersItems, E!connVars
  <2>3. \A d \in ConnCalls \ {r} : connResult'[d] = connResult[d]
    BY <1>0, <2>1 DEF answersItems, E!outcome
  <2>4. SUFFICES ASSUME ~closing PROVE InOrder' /\ Counted'
    BY <2>2
  <2>5. pc[r] = "submitted" /\ connResult[r] = E!NoResult /\ kind # Nil
    BY <1>0, <2>2, <2>4 DEF E!CallsAgree
  <2>6. \/ handed' = handed \o items /\ connResult'[r] = E!ItemsRead(items)
        \/ kind = "datagram" /\ handed' = handed /\ connResult'[r] = E!Answer("other")
    BY <1>0, <2>1, <2>5 DEF answersItems, E!outcome
  <2>7. InOrder'
    <3>1. SUFFICES ASSUME kind # "listener" PROVE handed' = received \o E!inHand'
      BY <2>2
    <3>2. readMu = r
      BY <1>0, <2>5, <3>1 DEF E!MutexesHeld
    <3>3. E!inHand = <<>> /\ E!inHand' = connResult'[r].items
      BY <1>0, <2>2, <2>5, <3>2, ResultFields DEF E!inHand
    <3>4. handed = received
      BY <1>0, <1>1, <2>4, <3>1, <3>3, EmptyItems
    <3>5. connResult'[r] = E!Answer("other") => connResult'[r].items = <<>>
      BY ResultFields
    <3>6. connResult'[r] = E!ItemsRead(items) => connResult'[r].items = items
      BY ResultFields
    <3> QED
      BY <1>0, <2>6, <3>3, <3>4, <3>5, <3>6, EmptyItems
  <2>8. Counted'
    <3>1. SUFFICES ASSUME kind = "listener"
                   PROVE  IsFiniteSet(E!inFlight') /\ Len(handed') - Len(received) = Cardinality(E!inFlight')
      BY <2>2
    <3>2. handed' = handed \o items /\ connResult'[r] = E!ItemsRead(items)
      BY <2>6, <3>1
    <3>3. Len(handed') = Len(handed) + 1
      <4>1. Len(handed \o items) = Len(handed) + Len(items)
        BY <1>0, <2>2, ConcatProperties
      <4> QED
        BY <2>2, <3>1, <3>2, <4>1
    <3>4. r \notin E!inFlight
      BY <2>5, ResultFields DEF E!inFlight
    <3>5. E!inFlight' = E!inFlight \cup {r}
      BY <1>0, <1>00, <2>2, <2>3, <3>2, ResultFields DEF E!inFlight
    <3>6. IsFiniteSet(E!inFlight) /\ Len(handed) - Len(received) = Cardinality(E!inFlight)
      BY <1>1, <2>4, <3>1
    <3>7. IsFiniteSet(E!inFlight') /\ Cardinality(E!inFlight') = Cardinality(E!inFlight) + 1
      BY <3>4, <3>5, <3>6, FS_AddElement
    <3> QED
      BY <1>0, <3>3, <3>6, <3>7
  <2> QED
    BY <2>7, <2>8
<1> QED
  BY <1>2, <1>3, <1>4, <1>5 DEF ReadSteps

-----------------------------------------------------------------------------
(* Writing.                                                                *)

\* The bytes k + 1 .. k + n of v are appended to what was sent.
sendsMore(v, k, n) ==
  /\ Len(sent) \in Nat /\ Len(sent') = Len(sent) + n
  /\ DOMAIN sent = 1 .. Len(sent) /\ DOMAIN sent' = 1 .. (Len(sent) + n)
  /\ \A i \in 1 .. Len(sent) : sent'[i] = sent[i]
  /\ \A i \in (Len(sent) + 1) .. (Len(sent) + n) : sent'[i] = <<v, k + (i - Len(sent))>>

\* What answerWrite appends.
LEMMA SentMore ==
  ASSUME ConnAssumptions, E!TypeOK, NEW v \in E!Writers, NEW n \in Nat,
         sent' = sent \o [i \in 1 .. n |-> <<v, written[v] + i>>]
  PROVE  sendsMore(v, written[v], n)
<1> DEFINE suffix == [i \in 1 .. n |-> <<v, written[v] + i>>]
<1>0. sent \in Seq(E!Writers \X Nat) /\ written[v] \in Nat
  BY RoleCases DEF E!TypeOK
<1>1. \A i \in 1 .. n : <<v, written[v] + i>> \in E!Writers \X Nat
  BY <1>0
<1>2. suffix \in Seq(E!Writers \X Nat) /\ Len(suffix) = n /\ \A i \in 1 .. n : suffix[i] = <<v,
                                                                written[v] + i>>
  BY <1>1
<1>3. Len(sent) \in Nat /\ DOMAIN sent = 1 .. Len(sent)
  BY <1>0, LenProperties
<1> HIDE DEF suffix
<1>4. /\ sent \o suffix \in Seq(E!Writers \X Nat) /\ Len(sent \o suffix) = Len(sent) + Len(suffix)
      /\ \A i \in 1 .. Len(sent) + Len(suffix) :
           (sent \o suffix)[i] = IF i <= Len(sent) THEN sent[i] ELSE suffix[i - Len(sent)]
  BY <1>0, <1>2, ConcatProperties
<1>5. sent' = sent \o suffix
  BY DEF suffix
<1>6. DOMAIN sent' = 1 .. Len(sent')
  BY <1>4, <1>5, LenProperties
<1>7. Len(sent') = Len(sent) + n
  BY <1>2, <1>4, <1>5
<1>8. \A i \in 1 .. Len(sent) : sent'[i] = sent[i]
  BY <1>2, <1>3, <1>4, <1>5
<1>9. ASSUME NEW i \in (Len(sent) + 1) .. (Len(sent) + n)
      PROVE  sent'[i] = suffix[i - Len(sent)] /\ i - Len(sent) \in 1 .. n
  <2>1. i \in 1 .. Len(sent) + Len(suffix) /\ ~(i <= Len(sent)) /\ i - Len(sent) \in 1 .. n
    BY <1>2, <1>3
  <2> QED
    BY <1>4, <1>5, <2>1
<1> QED
  BY <1>2, <1>3, <1>6, <1>7, <1>8, <1>9 DEF sendsMore

\* Its own bytes come after what was accepted of the call, those of others
\* change nothing.
LEMMA AcceptMore ==
  ASSUME ConnAssumptions, E!TypeOK, NEW v \in E!Writers, NEW n \in Nat, NEW k \in Nat, sendsMore(v, k, n)
  PROVE  /\ Len(sent) \in Nat /\ Len(sent') = Len(sent) + n /\ DOMAIN sent = 1 .. Len(sent)
         /\ E!accepted(v)' = E!accepted(v) \cup ((Len(sent) + 1) .. (Len(sent) + n))
         /\ E!acceptedUpTo(v, k) => E!acceptedUpTo(v, k + n)'
         /\ \A w \in E!Writers \ {v} : /\ E!accepted(w)' = E!accepted(w)
                                       /\ \A m : E!acceptedUpTo(w, m) => E!acceptedUpTo(w, m)'
<1> DEFINE len == Len(sent)
           fresh == (len + 1) .. (len + n)
<1>1. /\ len \in Nat /\ Len(sent') = len + n
      /\ DOMAIN sent = 1 .. len /\ DOMAIN sent' = 1 .. (len + n)
      /\ \A i \in 1 .. len : sent'[i] = sent[i]
      /\ \A i \in fresh : sent'[i] = <<v, k + (i - len)>>
  BY DEF sendsMore
<1> HIDE DEF len
<1>10. len \in Nat
  BY <1>1
<1>2. DOMAIN sent' = DOMAIN sent \cup fresh
  BY <1>1
<1>3. \A i \in fresh : /\ sent'[i][1] = v /\ sent'[i][2] = k + (i - len) /\ i \notin DOMAIN sent
                       /\ i \in Nat /\ i > len /\ i - len \in 1 .. n
                       /\ k + (i - len) \in 1 .. (k + n) /\ k + (i - len) > k
  <2> TAKE i \in fresh
  <2>1. sent'[i][1] = v /\ sent'[i][2] = k + (i - len)
    <3>1. sent'[i] = <<v, k + (i - len)>>
      BY <1>1, Zenon
    <3> QED
      BY <3>1
  <2>2. i \in Nat /\ i > len /\ i - len \in 1 .. n
    BY <1>1
  <2>3. i \notin DOMAIN sent
    BY <1>1
  <2>4. k + (i - len) \in 1 .. (k + n) /\ k + (i - len) > k
    BY <1>1
  <2> QED
    BY <2>1, <2>2, <2>3, <2>4
<1> HIDE DEF fresh
<1>4. E!accepted(v)' = E!accepted(v) \cup fresh
  BY <1>1, <1>2, <1>3 DEF E!accepted
<1>5. \A w \in E!Writers \ {v} : E!accepted(w)' = E!accepted(w)
  BY <1>1, <1>2, <1>3 DEF E!accepted
<1>6. ASSUME NEW w \in E!Writers \ {v}, NEW m, E!acceptedUpTo(w, m) PROVE E!acceptedUpTo(w, m)'
  <2>1. \A i \in E!accepted(w) : sent'[i] = sent[i]
    BY <1>1 DEF E!accepted
  <2>2. {sent'[i][2] : i \in E!accepted(w)} = {sent[i][2] : i \in E!accepted(w)}
    BY <2>1
  <2> QED
    BY <1>5, <1>6, <2>1, <2>2 DEF E!acceptedUpTo
<1>7. ASSUME E!acceptedUpTo(v, k) PROVE E!acceptedUpTo(v, k + n)'
  <2>1. /\ {sent[i][2] : i \in E!accepted(v)} = 1 .. k
        /\ \A i, j \in E!accepted(v) : i < j => sent[i][2] < sent[j][2]
    BY <1>7 DEF E!acceptedUpTo
  <2>2. \A i \in E!accepted(v) : /\ i \in Nat /\ i <= len /\ sent'[i][2] = sent[i][2]
                                 /\ sent[i][2] \in 1 .. k
    <3>1. \A i \in E!accepted(v) : i \in 1 .. len /\ sent[i][2] \in 1 .. k
      BY <1>1, <2>1 DEF E!accepted
    <3> QED
      BY <1>1, <3>1
  <2>3. \A x \in 1 .. k : \E i \in E!accepted(v) : sent[i][2] = x
    BY <2>1
  <2>4. \A i \in E!accepted(v)' : sent'[i][2] \in 1 .. (k + n)
    <3>1. \A i \in fresh : sent'[i][2] \in 1 .. (k + n)
      BY <1>3, Zenon
    <3>2. \A i \in E!accepted(v) : sent'[i][2] \in 1 .. (k + n)
      BY <2>2
    <3> QED
      BY <1>4, <3>1, <3>2
  <2>5. ASSUME NEW x \in 1 .. (k + n) PROVE \E i \in E!accepted(v)' : sent'[i][2] = x
    <3>1. CASE x <= k
      <4>1. x \in 1 .. k
        BY <3>1
      <4> QED
        BY <1>4, <2>2, <2>3, <4>1
    <3>2. CASE ~(x <= k)
      <4>1. len + (x - k) \in fresh /\ (len + (x - k)) - len = x - k /\ k + (x - k) = x
        BY <1>10, <3>2 DEF fresh
      <4>2. sent'[len + (x - k)][2] = x
        BY <1>3, <4>1
      <4> QED
        BY <1>4, <4>1, <4>2
    <3> QED
      BY <3>1, <3>2
  <2>6. {sent'[i][2] : i \in E!accepted(v)'} = 1 .. (k + n)
    BY <2>4, <2>5
  <2>7. ASSUME NEW i \in E!accepted(v)', NEW j \in E!accepted(v)', i < j PROVE sent'[i][2] < sent'[j][2]
    <3>1. CASE i \in E!accepted(v) /\ j \in E!accepted(v)
      BY <2>1, <2>2, <2>7, <3>1
    <3>2. CASE i \in E!accepted(v) /\ j \in fresh
      <4>1. sent'[i][2] \in 1 .. k
        BY <2>2, <3>2
      <4>2. sent'[j][2] \in Nat /\ sent'[j][2] > k
        <5>1. sent'[j][2] = k + (j - len) /\ k + (j - len) \in 1 .. (k + n) /\ k + (j - len) > k
          BY <1>3, <3>2, Zenon
        <5>2. \A y \in 1 .. (k + n) : y \in Nat
          OBVIOUS
        <5> QED
          BY <5>1, <5>2, Zenon
      <4> QED
        BY <4>1, <4>2
    <3>3. CASE i \in fresh /\ j \in E!accepted(v)
      <4>1. i \in Nat /\ j \in Nat /\ len \in Nat /\ i > len /\ j <= len
        BY <1>1, <1>3, <2>2, <3>3
      <4> QED
        BY <2>7, <4>1
    <3>4. CASE i \in fresh /\ j \in fresh
      <4>1. /\ sent'[i][2] = k + (i - len) /\ sent'[j][2] = k + (j - len)
            /\ i \in Nat /\ j \in Nat /\ len \in Nat
        BY <1>1, <1>3, <3>4
      <4> QED
        BY <2>7, <4>1
    <3> QED
      BY <1>4, <3>1, <3>2, <3>3, <3>4
  <2> QED
    BY <2>6, <2>7 DEF E!acceptedUpTo
<1> QED
  BY <1>1, <1>4, <1>5, <1>6, <1>7 DEF len, fresh

\* What a step does to a Write: the guest accepts nothing of it, or the call
\* takes a result.
keepsWrite(w) ==
  /\ UNCHANGED sent
  /\ written'[w] = written[w]
  /\ closing => closing'
  /\ w \in operation' => w \in operation \/ (pc[w] # "returned" /\ connResult[w].n = 0)
  /\ ~closing' \/ pc'[w] # "returned" => connResult'[w].n = connResult[w].n
  /\ pc[w] = "returned" => pc'[w] = "returned"
takesResult(w) ==
  /\ UNCHANGED <<sent, closing, operation>>
  /\ written'[w] = written[w] + connResult[w].n
  /\ connResult'[w].n = 0
  /\ pc[w] = "submitted"
  /\ w \notin operation

WriteSteps ==
  /\ UNCHANGED role
  /\ \/ \A w \in E!Writers : keepsWrite(w) \/ takesResult(w)
     \/ \E v \in E!Writers : E!answerWrite(v)

\* Every action is one of these.
LEMMA WriteCases == ConnInv /\ [E!Next]_(E!vars) => WriteSteps
<1> SUFFICES ASSUME ConnAssumptions, E!TypeOK, E!MutexesHeld, E!CallsAgree, ConnSteps
             PROVE  WriteSteps
  BY ConnCases DEF ConnInv, E!Consistent
<1>0. /\ E!Readers \subseteq ConnCalls /\ E!Writers \subseteq ConnCalls /\ E!Closers \subseteq ConnCalls
      /\ E!Readers \cap E!Writers = {} /\ E!Readers \cap E!Closers = {} /\ E!Writers \cap E!Closers = {}
      /\ connResult \in [ConnCalls -> E!Results] /\ pc \in [ConnCalls -> E!Positions] /\ written \in [ConnCalls -> Nat]
  BY RoleCases DEF E!TypeOK
<1> USE DEF E!connVars, E!callVars, E!guestVars
<1>1. ASSUME UNCHANGED <<sent, written, role>>, closing => closing', operation' \subseteq operation,
             \A w \in E!Writers : /\ connResult'[w].n = connResult[w].n
                                  /\ pc[w] = "returned" => pc'[w] = "returned"
      PROVE  WriteSteps
  <2>1. \A w \in E!Writers : keepsWrite(w)
    BY <1>1 DEF keepsWrite
  <2> QED
    BY <1>1, <2>1 DEF WriteSteps
<1>2. ASSUME NEW c \in ConnCalls, NEW p, pc[c] # "returned", E!Go(c, p),
             UNCHANGED <<sent, written, role, closing, operation, connResult>>
      PROVE  WriteSteps
  <2>1. \A w \in E!Writers : pc[w] = "returned" => pc'[w] = "returned"
    BY <1>0, <1>2 DEF E!Go
  <2> QED
    BY <1>1, <1>2, <2>1
<1>3. ASSUME UNCHANGED <<sent, written, role, connResult, pc>>, closing => closing',
      operation' \subseteq operation
      PROVE  WriteSteps
  BY <1>1, <1>3
<1>4. ASSUME \/ \E k \in Kinds : E!newConn(k)
             \/ \E directions \in SUBSET {"read", "write"}, passed \in BOOLEAN :
                  E!setDataPlaneResourceDeadline(directions, passed)
             \/ E!CloseInstance \/ E!driverEnds \/ UNCHANGED E!vars
      PROVE  WriteSteps
  <2>1. /\ UNCHANGED <<sent, written, role, connResult, pc>> /\ (closing => closing')
        /\ operation' \subseteq operation
    BY <1>4 DEF E!newConn, E!setDataPlaneResourceDeadline, E!CloseInstance, E!driverEnds, E!vars
  <2> QED
    BY <1>3, <2>1
<1>5. ASSUME NEW r \in E!Readers, E!Read(r) \/ E!Accept(r) \/ E!lockRead(r) PROVE WriteSteps
  <2>1. \E p : E!Go(r, p) /\ pc[r] # "returned"
    BY <1>5 DEF E!Read, E!Accept, E!lockRead
  <2>2. UNCHANGED <<sent, written, role, closing, operation, connResult>>
    BY <1>5 DEF E!Read, E!Accept, E!lockRead
  <2> QED
    BY <1>0, <1>2, <2>1, <2>2
<1>6. ASSUME NEW x \in E!Closers, E!Close(x) \/ E!waitForClose(x) \/ E!closeOnceDo(x) PROVE WriteSteps
  <2>1. \E p : E!Go(x, p) /\ pc[x] # "returned"
    BY <1>6 DEF E!Close, E!waitForClose, E!closeOnceDo
  <2>2. UNCHANGED <<sent, written, role, closing, operation, connResult>>
    BY <1>6 DEF E!Close, E!waitForClose, E!closeOnceDo
  <2> QED
    BY <1>0, <1>2, <2>1, <2>2
<1>7. ASSUME NEW w \in E!Writers, NEW n \in Lengths, E!Write(w, n) PROVE WriteSteps
  BY <1>0, <1>2, <1>7 DEF E!Write
<1>8. ASSUME NEW w \in E!Writers, NEW b \in BOOLEAN, E!lockWrite(w, b) PROVE WriteSteps
  BY <1>0, <1>2, <1>8 DEF E!lockWrite
<1>9. ASSUME NEW c \in ConnCalls, E!submit(c) PROVE WriteSteps
  <2>1. /\ UNCHANGED <<sent, written, role, closing>>
        /\ pc[c] = "asking" /\ pc' = [pc EXCEPT ![c] = "submitted"]
        /\ operation' \subseteq operation \cup {c}
        /\ \A d \in ConnCalls \ {c} : connResult'[d] = connResult[d]
        /\ connResult'[c] = connResult[c] \/ \E t \in {"length", "error"} : connResult'[c] = E!Answer(t)
    BY <1>0, <1>9 DEF E!submit, E!Go
  <2>2. connResult[c].n = 0
    BY <2>1, ResultFields DEF E!CallsAgree
  <2>3. connResult'[c].n = 0
    BY <2>1, <2>2, ResultFields
  <2>4. ASSUME NEW w \in E!Writers PROVE keepsWrite(w)
    <3>1. connResult'[w].n = connResult[w].n
      BY <1>0, <2>1, <2>2, <2>3
    <3>2. pc[w] = "returned" => pc'[w] = "returned"
      BY <1>0, <2>1
    <3>3. w \in operation' => w \in operation \/ (pc[w] # "returned" /\ connResult[w].n = 0)
      BY <2>1, <2>2
    <3> QED
      BY <2>1, <3>1, <3>2, <3>3 DEF keepsWrite
  <2> QED
    BY <2>1, <2>4 DEF WriteSteps
<1>10. ASSUME NEW c \in ConnCalls, NEW v, v.n = 0, c \in operation, E!outcome(c, v),
              UNCHANGED <<sent, written, role, closing, pc>>
       PROVE  WriteSteps
  <2>1. /\ \A d \in ConnCalls \ {c} : connResult'[d] = connResult[d]
        /\ connResult'[c] = connResult[c] \/ connResult'[c] = v
        /\ operation' \subseteq operation
    BY <1>0, <1>10 DEF E!outcome
  <2>2. connResult[c].n = 0
    BY <1>10, ResultFields DEF E!CallsAgree
  <2>3. \A w \in E!Writers : connResult'[w].n = connResult[w].n
    BY <1>0, <1>10, <2>1, <2>2
  <2> QED
    BY <1>1, <1>10, <2>1, <2>3
<1>11. ASSUME NEW c \in ConnCalls, E!answerEOF(c) \/ E!answerError(c) PROVE WriteSteps
  <2>1. PICK t \in {"eof", "error"} : E!outcome(c, E!Answer(t))
    BY <1>11 DEF E!answerEOF, E!answerError
  <2> QED
    BY <1>10, <1>11, <2>1, ResultFields DEF E!answerEOF, E!answerError
<1>12. ASSUME NEW r \in E!Readers, E!answerRead(r) PROVE WriteSteps
  <2>1. PICK items, n : answersItems(r, items, n)
    BY <1>12, AnswerItems
  <2>2. PICK v : E!outcome(r, v) /\ v.n = 0
    BY <2>1, ResultFields DEF answersItems
  <2> QED
    BY <1>0, <1>10, <1>12, <2>2 DEF E!answerRead
<1>13. ASSUME NEW c \in E!Readers \cup E!Closers, connResult' = [connResult EXCEPT ![c] = E!NoResult],
              pc[c] # "returned", NEW p, E!Go(c, p),
              UNCHANGED <<sent, written, role, closing, operation>>
       PROVE  WriteSteps
  <2>1. \A w \in E!Writers : w # c
    BY <1>0
  <2>2. \A w \in E!Writers : connResult'[w] = connResult[w] /\ pc'[w] = pc[w]
    BY <1>0, <1>13, <2>1 DEF E!Go
  <2> QED
    BY <1>1, <1>13, <2>2
<1>14. ASSUME NEW r \in E!Readers, E!receiveRead(r) \/ E!receiveFrom(r) \/ E!skipOther(r) PROVE WriteSteps
  <2>1. \E p : E!Go(r, p)
    BY <1>14 DEF E!receiveRead, E!receiveFrom, E!skipOther, E!leaveCall
  <2>2. /\ connResult' = [connResult EXCEPT ![r] = E!NoResult] /\ pc[r] # "returned"
        /\ UNCHANGED <<sent, written, role, closing, operation>>
    BY <1>14 DEF E!receiveRead, E!receiveFrom, E!skipOther, E!leaveCall
  <2> QED
    BY <1>13, <2>1, <2>2
<1>15. ASSUME NEW x \in E!Closers, E!receiveClose(x) PROVE WriteSteps
  <2>1. \E p : E!Go(x, p)
    BY <1>15 DEF E!receiveClose, E!leaveCall
  <2>2. /\ connResult' = [connResult EXCEPT ![x] = E!NoResult] /\ pc[x] # "returned"
        /\ UNCHANGED <<sent, written, role, closing, operation>>
    BY <1>15 DEF E!receiveClose, E!leaveCall
  <2> QED
    BY <1>13, <2>1, <2>2
<1>16. ASSUME NEW c \in ConnCalls, E!leaveClosing(c) PROVE WriteSteps
  <2>1. /\ UNCHANGED <<sent, written, role, closing, operation>> /\ (closing \/ connDone)
        /\ connResult' = [connResult EXCEPT ![c] = E!NoResult]
        /\ pc' = [pc EXCEPT ![c] = IF c \in E!Readers THEN "idle" ELSE "returned"]
    BY <1>16 DEF E!leaveClosing, E!leaveCall, E!Go
  <2>2. closing'
    BY <2>1 DEF E!CallsAgree
  <2>3. ASSUME NEW w \in E!Writers PROVE keepsWrite(w)
    <3>1. CASE w = c
      BY <1>0, <2>1, <2>2, <3>1 DEF keepsWrite
    <3>2. CASE w # c
      BY <1>0, <2>1, <2>2, <3>2 DEF keepsWrite
    <3> QED
      BY <3>1, <3>2
  <2> QED
    BY <2>1, <2>3 DEF WriteSteps
<1>17. ASSUME NEW v \in E!Writers, E!receiveWrite(v) \/ E!receiveWriteTo(v) PROVE WriteSteps
  <2>1. \E p : E!Go(v, p)
    BY <1>17 DEF E!receiveWrite, E!receiveWriteTo, E!leaveCall
  <2>2. /\ UNCHANGED <<sent, role, closing, operation>> /\ pc[v] = "submitted"
        /\ connResult' = [connResult EXCEPT ![v] = E!NoResult]
        /\ written' = [written EXCEPT ![v] = written[v] + connResult[v].n]
        /\ connResult[v].type # "none"
    BY <1>17 DEF E!receiveWrite, E!receiveWriteTo, E!leaveCall, E!tookResult, E!advance
  <2>3. v \notin operation
    BY <1>0, <2>2, ResultFields DEF E!CallsAgree
  <2>4. takesResult(v)
    BY <1>0, <2>2, <2>3, ResultFields DEF takesResult
  <2>5. \A w \in E!Writers \ {v} : keepsWrite(w)
    BY <1>0, <2>1, <2>2 DEF keepsWrite, E!Go
  <2> QED
    BY <2>2, <2>4, <2>5 DEF WriteSteps
<1>18. ASSUME NEW w \in E!Writers, E!answerWrite(w) PROVE WriteSteps
  BY <1>18 DEF WriteSteps, E!answerWrite
<1> QED
  BY <1>0, <1>4, <1>5, <1>6, <1>7, <1>8, <1>9, <1>11, <1>12, <1>14, <1>15, <1>16, <1>17, <1>18 DEF
       ConnSteps

\* What WritesAgree says of one Write.
writeAgrees(w) ==
  /\ \E k \in written[w] .. (written[w] + maxDataPlaneTransfer) :
       /\ E!acceptedUpTo(w, k)
       /\ ~closing \/ pc[w] # "returned" => k = written[w] + connResult[w].n
       /\ w \in operation => k = written[w]
  /\ ~closing /\ pc[w] # "returned" =>
       \A i \in E!accepted(w) : \A j \in i .. Len(sent) : j \in E!accepted(w)

\* Nothing of another Write is in between.
inOnePiece(w) == ~closing => \A i, j \in E!accepted(w) : \A m \in i .. j : m \in E!accepted(w)

\* Every step keeps each Write in step with what the guest has accepted of it.
LEMMA WritesStep == ConnInv /\ [E!Next]_(E!vars) => \A w \in E!Writers' : writeAgrees(w)' /\ inOnePiece(w)'
<1> SUFFICES ASSUME ConnAssumptions, E!TypeOK, E!MutexesHeld, E!CallsAgree, WriteSteps,
      E!WritesAreExact, NEW w \in E!Writers
             PROVE  writeAgrees(w)' /\ inOnePiece(w)'
  <2>1. ConnInv /\ [E!Next]_(E!vars) => E!Writers' = E!Writers
    BY WriteCases, RoleCases DEF ConnInv, E!Consistent, WriteSteps
  <2> QED
    BY <2>1, WriteCases DEF ConnInv, E!Consistent
<1>0. /\ E!Readers \subseteq ConnCalls /\ E!Writers \subseteq ConnCalls /\ E!Closers \subseteq ConnCalls
      /\ E!Readers \cap E!Writers = {} /\ E!Readers \cap E!Closers = {} /\ E!Writers \cap E!Closers = {}
      /\ w \in ConnCalls /\ pc[w] \in E!Positions
      /\ connResult \in [ConnCalls -> E!Results] /\ written \in [ConnCalls -> Nat]
      /\ sent \in Seq(E!Writers \X Nat) /\ maxDataPlaneTransfer \in Nat
  BY RoleCases DEF E!TypeOK, ConnAssumptions, E!TransferAssumption
<1>1. connResult[w].n \in 0 .. maxDataPlaneTransfer /\ written[w] \in Nat
  BY <1>0 DEF E!Results
<1>2. writeAgrees(w) /\ inOnePiece(w)
  BY DEF E!WritesAreExact, E!WritesAgree, writeAgrees, inOnePiece
<1>3. PICK k \in written[w] .. (written[w] + maxDataPlaneTransfer) :
        /\ E!acceptedUpTo(w, k)
        /\ ~closing \/ pc[w] # "returned" => k = written[w] + connResult[w].n
        /\ w \in operation => k = written[w]
  BY <1>2 DEF writeAgrees
<1>4. ~closing /\ pc[w] # "returned" =>
        \A i \in E!accepted(w) : \A j \in i .. Len(sent) : j \in E!accepted(w)
  BY <1>2 DEF writeAgrees
<1>5. ASSUME UNCHANGED sent PROVE E!accepted(w)' = E!accepted(w) /\ E!acceptedUpTo(w, k)'
  <2>1. E!accepted(w)' = E!accepted(w)
    BY <1>5 DEF E!accepted
  <2> QED
    BY <1>3, <1>5, <2>1 DEF E!acceptedUpTo
<1>6. ASSUME keepsWrite(w) PROVE writeAgrees(w)' /\ inOnePiece(w)'
  <2>1. /\ sent' = sent /\ written'[w] = written[w] /\ (~closing' => ~closing)
        /\ w \in operation' => w \in operation \/ (pc[w] # "returned" /\ connResult[w].n = 0)
        /\ ~closing' \/ pc'[w] # "returned" => connResult'[w].n = connResult[w].n
        /\ pc'[w] # "returned" => pc[w] # "returned"
    BY <1>6 DEF keepsWrite
  <2>2. E!accepted(w)' = E!accepted(w) /\ E!acceptedUpTo(w, k)'
    BY <1>5, <2>1
  <2>3. k \in written'[w] .. (written'[w] + maxDataPlaneTransfer)
    BY <2>1
  <2>4. ~closing' \/ pc'[w] # "returned" => k = written'[w] + connResult'[w].n
    BY <1>3, <2>1
  <2>5. w \in operation' => k = written'[w]
    BY <1>1, <1>3, <2>1
  <2>6. ~closing' /\ pc'[w] # "returned" =>
          \A i \in E!accepted(w)' : \A j \in i .. Len(sent') : j \in E!accepted(w)'
    BY <1>4, <2>1, <2>2
  <2>7. inOnePiece(w)'
    BY <1>2, <2>1, <2>2 DEF inOnePiece
  <2>8. writeAgrees(w)'
    BY <2>2, <2>3, <2>4, <2>5, <2>6 DEF writeAgrees
  <2> QED
    BY <2>7, <2>8
<1>7. ASSUME takesResult(w) PROVE writeAgrees(w)' /\ inOnePiece(w)'
  <2>1. /\ sent' = sent /\ written'[w] = written[w] + connResult[w].n /\ closing' = closing
        /\ connResult'[w].n = 0 /\ pc[w] = "submitted" /\ w \notin operation'
    BY <1>7 DEF takesResult
  <2>2. E!accepted(w)' = E!accepted(w) /\ E!acceptedUpTo(w, k)'
    BY <1>5, <2>1
  <2>3. k = written'[w] /\ written'[w] \in Nat
    BY <1>1, <1>3, <2>1
  <2>4. k \in written'[w] .. (written'[w] + maxDataPlaneTransfer) /\ k = written'[w] + connResult'[w].n
    BY <1>0, <2>1, <2>3
  <2>5. ~closing' /\ pc'[w] # "returned" =>
          \A i \in E!accepted(w)' : \A j \in i .. Len(sent') : j \in E!accepted(w)'
    BY <1>4, <2>1, <2>2
  <2>6. inOnePiece(w)'
    BY <1>2, <2>1, <2>2 DEF inOnePiece
  <2>7. writeAgrees(w)'
    BY <2>1, <2>2, <2>4, <2>5 DEF writeAgrees
  <2> QED
    BY <2>6, <2>7
<1>8. ASSUME NEW v \in E!Writers, E!answerWrite(v) PROVE writeAgrees(w)' /\ inOnePiece(w)'
  <2>1. PICK n \in 0 .. E!chunk(v) :
          /\ E!outcome(v, E!BytesWritten(n))
          /\ sent' = sent \o [i \in 1 .. n |-> <<v, written[v] + i>>]
    BY <1>8 DEF E!answerWrite
  <2>2. n \in Nat /\ n <= maxDataPlaneTransfer
    BY <1>0, Chunks
  <2>3. v \in operation /\ UNCHANGED <<written, pc, closing>>
    BY <1>8 DEF E!answerWrite
  <2>4. pc[v] \in {"submitted", "returned"} /\ (pc[v] = "submitted" \/ closing) /\ connResult[v] = E!NoResult
    BY <1>0, <2>3 DEF E!CallsAgree
  <2>5. /\ operation' = operation \ {v}
        /\ \A d \in ConnCalls \ {v} : connResult'[d] = connResult[d]
        /\ pc[v] = "submitted" => connResult'[v].n = n
    BY <1>0, <2>1, ResultFields DEF E!outcome
  <2>6. sendsMore(v, written[v], n)
    BY <2>1, <2>2, SentMore
  <2>7. CASE w = v
    <3>1. k = written[w]
      BY <1>3, <2>3, <2>7
    <3>2. /\ Len(sent) \in Nat /\ Len(sent') = Len(sent) + n /\ DOMAIN sent = 1 .. Len(sent)
          /\ E!accepted(w)' = E!accepted(w) \cup ((Len(sent) + 1) .. (Len(sent) + n))
          /\ E!acceptedUpTo(w, k) => E!acceptedUpTo(w, k + n)'
      BY <1>1, <2>2, <2>6, <2>7, <3>1, AcceptMore
    <3>3. E!acceptedUpTo(w, k + n)'
      BY <1>3, <3>2
    <3>4. k + n \in written'[w] .. (written'[w] + maxDataPlaneTransfer)
      BY <1>0, <1>1, <2>2, <2>3, <3>1
    <3>5. ~closing' \/ pc'[w] # "returned" => k + n = written'[w] + connResult'[w].n
      BY <2>3, <2>4, <2>5, <2>7, <3>1
    <3>6. w \notin operation'
      BY <2>5, <2>7
    <3>7. E!accepted(w) \subseteq 1 .. Len(sent)
      BY <3>2 DEF E!accepted
    <3>8. ASSUME ~closing, NEW i \in E!accepted(w)', NEW j \in i .. Len(sent') PROVE j \in E!accepted(w)'
      <4>1. pc[w] # "returned"
        BY <2>4, <2>7, <3>8
      <4>2. CASE j <= Len(sent)
        <5>1. i \in E!accepted(w) /\ j \in i .. Len(sent)
          BY <3>2, <3>7, <3>8, <4>2
        <5> QED
          BY <1>4, <3>2, <3>8, <4>1, <5>1
      <4>3. CASE ~(j <= Len(sent))
        <5>1. i \in Nat
          BY <3>2, <3>7, <3>8
        <5>2. j \in (Len(sent) + 1) .. (Len(sent) + n)
          BY <2>2, <3>2, <4>3, <5>1
        <5> QED
          BY <3>2, <5>2
      <4> QED
        BY <4>2, <4>3
    <3>9. E!accepted(w)' \subseteq 1 .. Len(sent')
      BY <2>2, <3>2, <3>7
    <3>10. ASSUME ~closing, NEW i \in E!accepted(w)', NEW j \in E!accepted(w)', NEW m \in i .. j
           PROVE  m \in E!accepted(w)'
      <4>1. m \in i .. Len(sent')
        BY <2>2, <3>2, <3>9
      <4> QED
        BY <3>8, <3>10, <4>1
    <3>11. inOnePiece(w)'
      BY <2>3, <3>10 DEF inOnePiece
    <3>12. writeAgrees(w)'
      BY <2>3, <3>3, <3>4, <3>5, <3>6, <3>8 DEF writeAgrees
    <3> QED
      BY <3>11, <3>12
  <2>8. CASE w # v
    <3>1. E!accepted(w)' = E!accepted(w) /\ E!acceptedUpTo(w, k)'
      <4>1. written[v] \in Nat
        BY <1>0
      <4> QED
        BY <1>3, <2>2, <2>6, <2>8, <4>1, AcceptMore
    <3>2. connResult'[w] = connResult[w] /\ written'[w] = written[w] /\ pc'[w] = pc[w] /\ closing' = closing
      BY <1>0, <2>3, <2>5, <2>8
    <3>3. w \in operation' => k = written'[w]
      BY <1>3, <2>5, <3>2
    <3>4. ASSUME ~closing, pc[w] # "returned" PROVE E!accepted(w) = {}
      <4>1. writeMu = v /\ pc[w] \notin {"asking", "submitted"} /\ pc[w] # "waiting"
        BY <1>0, <2>4, <2>8, <3>4 DEF E!MutexesHeld, E!CallsAgree
      <4>2. pc[w] \in {"idle", "entering"}
        BY <1>0, <3>4, <4>1 DEF E!Positions
      <4>3. written[w] = 0 /\ connResult[w] = E!NoResult
        BY <1>0, <4>2 DEF E!CallsAgree
      <4>4. k = 0
        BY <1>3, <3>4, <4>3, ResultFields
      <4>5. {sent[i][2] : i \in E!accepted(w)} = {}
        <5>1. 1 .. 0 = {}
          OBVIOUS
        <5> QED
          BY <1>3, <4>4, <5>1, Zenon DEF E!acceptedUpTo
      <4> QED
        BY <4>5
    <3>5. ~closing' /\ pc'[w] # "returned" =>
            \A i \in E!accepted(w)' : \A j \in i .. Len(sent') : j \in E!accepted(w)'
      BY <3>1, <3>2, <3>4
    <3>6. inOnePiece(w)'
      BY <1>2, <3>1, <3>2 DEF inOnePiece
    <3>7. writeAgrees(w)'
      BY <1>3, <3>1, <3>2, <3>3, <3>5 DEF writeAgrees
    <3> QED
      BY <3>6, <3>7
  <2> QED
    BY <2>7, <2>8
<1> QED
  BY <1>6, <1>7, <1>8 DEF WriteSteps

\* From which the rest follows: the count of the accepted bytes is that of the
\* bytes themselves.
LEMMA Counting ==
  ASSUME NEW S, NEW f, NEW k \in Nat, S \subseteq Nat,
         {f[i] : i \in S} = 1 .. k, \A i, j \in S : i < j => f[i] < f[j]
  PROVE  Cardinality(S) = k
<1>1. \A i \in S : i \in Nat /\ f[i] \in 1 .. k
  OBVIOUS
<1>2. \A i, j \in S : f[i] = f[j] => i = j
  BY <1>1
<1> DEFINE g == [i \in S |-> f[i]]
<1>3. g \in [S -> 1 .. k]
  BY <1>1
<1>4. \A i, j \in S : g[i] = g[j] => i = j
  BY <1>2
<1>5. \A x \in 1 .. k : \E i \in S : g[i] = x
  OBVIOUS
<1> HIDE DEF g
<1>6. g \in Bijection(S, 1 .. k)
  BY <1>3, <1>4, <1>5, Fun_IsBij
<1>7. ExistsBijection(S, 1 .. k)
  BY <1>6 DEF ExistsBijection
<1>8. ExistsBijection(1 .. k, S)
  BY <1>7, Fun_ExistsBijSymmetric
<1> QED
  BY <1>8, FS_CountingElements

\* The bytes a Write knows of are among them.
LEMMA WritesExact ==
  ConnAssumptions /\ E!TypeOK /\ E!CallsAgree /\ (\A w \in E!Writers : writeAgrees(w) /\ inOnePiece(w))
    => E!WritesAreExact
<1> SUFFICES ASSUME ConnAssumptions, E!TypeOK, E!CallsAgree,
      \A w \in E!Writers : writeAgrees(w) /\ inOnePiece(w)
             PROVE  E!WritesAreExact
  OBVIOUS
<1>1. ASSUME NEW w \in E!Writers
      PROVE  /\ \A i \in 1 .. written[w] : E!Contains(sent, <<w, i>>)
             /\ Cardinality(E!accepted(w)) <= written[w] + maxDataPlaneTransfer
             /\ (pc[w] = "returned" /\ ~closing) => Cardinality(E!accepted(w)) = written[w]
  <2>0. w \in ConnCalls /\ written[w] \in Nat /\ sent \in Seq(E!Writers \X Nat) /\ maxDataPlaneTransfer \in Nat
    BY RoleCases DEF E!TypeOK, ConnAssumptions, E!TransferAssumption
  <2>1. PICK k \in written[w] .. (written[w] + maxDataPlaneTransfer) :
          /\ E!acceptedUpTo(w, k)
          /\ ~closing \/ pc[w] # "returned" => k = written[w] + connResult[w].n
    BY DEF writeAgrees
  <2>2. k \in Nat
    BY <2>0
  <2>3. DOMAIN sent = 1 .. Len(sent) /\ Len(sent) \in Nat
    BY <2>0, LenProperties
  <2>4. E!accepted(w) \subseteq 1 .. Len(sent)
    BY <2>3 DEF E!accepted
  <2>5. Cardinality(E!accepted(w)) = k
    <3> DEFINE f == [i \in E!accepted(w) |-> sent[i][2]]
    <3>1. {f[i] : i \in E!accepted(w)} = 1 .. k
      BY <2>1 DEF E!acceptedUpTo
    <3>2. \A i, j \in E!accepted(w) : i < j => f[i] < f[j]
      BY <2>1 DEF E!acceptedUpTo
    <3>3. E!accepted(w) \subseteq Nat
      BY <2>3, <2>4
    <3> HIDE DEF f
    <3> QED
      BY <2>2, <3>1, <3>2, <3>3, Counting
  <2>6. ASSUME NEW i \in 1 .. written[w] PROVE E!Contains(sent, <<w, i>>)
    <3>1. i \in 1 .. k
      BY <2>0, <2>1
    <3>2. PICK j \in E!accepted(w) : sent[j][2] = i
      BY <2>1, <3>1 DEF E!acceptedUpTo
    <3>3. j \in 1 .. Len(sent) /\ sent[j][1] = w /\ sent[j] \in E!Writers \X Nat
      BY <2>0, <2>3, <2>4 DEF E!accepted
    <3>4. sent[j] = <<w, i>>
      BY <3>2, <3>3
    <3> QED
      BY <3>3, <3>4 DEF E!Contains
  <2>7. pc[w] = "returned" => connResult[w].n = 0
    BY <2>0, ResultFields DEF E!CallsAgree
  <2> QED
    BY <2>0, <2>1, <2>5, <2>6, <2>7
<1>2. E!WritesAgree
  BY DEF E!WritesAgree, writeAgrees
<1> QED
  BY <1>1, <1>2, SameCardinality DEF E!WritesAreExact, inOnePiece

\* A connection that is not open yet satisfies the invariant.
LEMMA ConnInitInv == ConnAssumptions /\ E!Init => ConnInv
<1> SUFFICES ASSUME ConnAssumptions, E!Init PROVE ConnInv
  OBVIOUS
<1>0. E!NoResult \in E!Results /\ E!NoResult.n = 0 /\ E!NoResult.items = <<>> /\ E!NoResult.type = "none"
  BY ResultValues, ResultFields
<1>1. E!TypeOK
  <2>1. <<>> \in Seq(1 .. MaxItems) /\ <<>> \in Seq(E!Writers \X Nat) /\ 0 \in 0 .. MaxItems
    BY DEF ConnAssumptions, E!BoundAssumption
  <2> QED
    BY <1>0, <2>1 DEF E!Init, E!TypeOK, E!Positions
<1>2. E!MutexesHeld
  BY RoleCases, <1>1 DEF E!Init, E!MutexesHeld
<1>3. E!CallsAgree
  BY RoleCases, <1>0, <1>1 DEF E!Init, E!CallsAgree
<1>4. E!ReadsAreConsecutive
  <2>1. \A c \in ConnCalls : connResult[c].items = <<>>
    BY <1>0 DEF E!Init
  <2>2. E!EachItemOnce
    <3>1. E!ToSet(handed) = {} /\ E!ToSet(received) = {} /\ E!IsInjective(received)
      BY EmptyItems DEF E!Init
    <3>2. \A c \in ConnCalls : E!ToSet(connResult[c].items) = {} /\ E!IsInjective(connResult[c].items)
      BY <2>1, EmptyItems
    <3> QED
      BY <3>1, <3>2 DEF E!EachItemOnce
  <2>3. kind # "listener"
    BY DEF E!Init, ConnAssumptions, E!NilAssumption
  <2>4. handed = received \o E!inHand
    BY EmptyItems DEF E!Init, E!inHand
  <2> QED
    BY <2>2, <2>3, <2>4 DEF E!ReadsAreConsecutive
<1>5. ASSUME NEW w \in E!Writers PROVE writeAgrees(w) /\ inOnePiece(w)
  <2>1. E!accepted(w) = {}
    BY DEF E!Init, E!accepted
  <2>2. E!acceptedUpTo(w, 0)
    BY <2>1 DEF E!acceptedUpTo
  <2>3. w \in ConnCalls /\ written[w] = 0 /\ connResult[w].n = 0
    BY <1>0, <1>1, RoleCases DEF E!Init
  <2>4. 0 \in written[w] .. (written[w] + maxDataPlaneTransfer) /\ 0 = written[w] + connResult[w].n
    BY <2>3 DEF ConnAssumptions, E!TransferAssumption
  <2> QED
    BY <2>1, <2>2, <2>3, <2>4 DEF writeAgrees, inOnePiece
<1>6. E!WritesAreExact
  BY <1>1, <1>3, <1>5, WritesExact
<1> QED
  BY <1>1, <1>2, <1>3, <1>4, <1>6 DEF ConnInv, E!Consistent

\* Every step keeps the invariant.
LEMMA ConnNextInv == ConnInv /\ [E!Next]_(E!vars) => ConnInv'
<1> SUFFICES ASSUME ConnInv, [E!Next]_(E!vars) PROVE ConnInv'
  OBVIOUS
<1>1. E!TypeOK' /\ E!MutexesHeld' /\ E!CallsAgree'
  BY ConnTypeStep, ConnMutexStep, ConnAgreeStep
<1>2. E!ReadsAreConsecutive'
  BY ReadsStep
<1>3. \A w \in E!Writers' : writeAgrees(w)' /\ inOnePiece(w)'
  BY WritesStep
<1>0. ConnAssumptions /\ ConnAssumptions'
  BY DEF ConnInv, ConnAssumptions, E!KindsAssumption, E!RolesAssumption, E!TransferAssumption,
       E!LengthsAssumption, E!BoundAssumption, E!NilAssumption
<1>4. (ConnAssumptions /\ E!TypeOK /\ E!CallsAgree /\ (\A w \in E!Writers : writeAgrees(w) /\ inOnePiece(w))
        => E!WritesAreExact)'
  BY WritesExact, PTL
<1>5. E!WritesAreExact'
  BY <1>0, <1>1, <1>3, <1>4
<1> QED
  BY <1>0, <1>1, <1>2, <1>5 DEF ConnInv, E!Consistent


\* The invariant of conn.go, packet_conn.go and listener.go: every interleaving of
\* calls of Read, Write, Close and SetDeadline with the driver keeps it, for any
\* number of goroutines, any lengths and any size of a chunk.
THEOREM ConnInvariance == ConnAssumptions => (E!Spec => []ConnInv)
<1> SUFFICES ASSUME ConnAssumptions PROVE E!Spec => []ConnInv
  OBVIOUS
<1>1. E!Init => ConnInv
  BY ConnInitInv
<1>2. ConnInv /\ [E!Next]_(E!vars) => ConnInv'
  BY ConnNextInv
<1> QED
  BY <1>1, <1>2, PTL DEF E!Spec

\* readMu and writeMu are held exactly by the calls that have an operation, result
\* channels are used once and by a call that waits, and an operation outlives its
\* call only when the instance closes.
THEOREM ConnConsistency == ConnAssumptions => (E!Spec => []E!Consistent)
<1>1. ConnInv => E!Consistent
  BY DEF ConnInv
<1> QED
  BY <1>1, ConnInvariance, PTL

\* What Read, ReadFrom and Accept return is what the guest handed out, once and in
\* order; what Write says it has written is what the guest has accepted, in order
\* and in one piece.  Only an instance that closes leaves a chunk in doubt.
THEOREM ConnBytesAreExact == ConnAssumptions => (E!Spec => []E!BytesAreExact)
<1>1. ConnInv => E!BytesAreExact
  BY DEF ConnInv, E!BytesAreExact
<1> QED
  BY <1>1, ConnInvariance, PTL

=============================================================================
