--------------------------- MODULE EngineCommands ---------------------------
(***************************************************************************)
(* The commands of one instance: Start, Stop, SendPacket and execute of    *)
(* internal/engine instance.go, and Wait, against the part of the driver   *)
(* that serves them, driveLoop with handlePacketBatch.                     *)
(*                                                                         *)
(* A caller puts its command into a bounded channel and waits for the      *)
(* response.  The driver takes packets in batches: it hands each of them   *)
(* to the guest, drives once, and answers all.  A command that it met      *)
(* behind the packets of a batch follows.  Start and Stop then wait for    *)
(* the guest to reach the state they ask for.                              *)
(*                                                                         *)
(* A packet is lent: the guest may use the caller's buffer until it        *)
(* responds, so that SendPacket must not return before, whatever happens   *)
(* to its context or to the instance.                                      *)
(*                                                                         *)
(* Data.  A call is made once, and its command is named after it.          *)
(***************************************************************************)
EXTENDS Integers, Sequences, SequencesExt

CONSTANTS
  PacketCalls,                \* calls of SendPacket
  StartCalls,                 \* calls of Start
  StopCalls,                  \* calls of Stop, or of Wait, which sends no command
  queueCapacity,              \* of the channel of commands
  maximumPacketIngressBatch,
  Nil                         \* no command

ASSUME CapacityAssumption == queueCapacity \in Nat \ {0}
ASSUME BatchAssumption    == maximumPacketIngressBatch \in Nat \ {0}
ASSUME CallsAssumption ==
  /\ PacketCalls \cap StartCalls = {}
  /\ StopCalls \cap (PacketCalls \cup StartCalls) = {}

Calls == PacketCalls \cup StartCalls \cup StopCalls

ASSUME NilAssumption == Nil \notin Calls

VARIABLES
  caller,          \* where a call is
  outcome,         \* what a call returned
  commands,        \* the channel of commands
  response,        \* content of a call's response channel
  driver,          \* where the driver goroutine is
  batch,           \* packets it has taken and not answered
  sent,            \* how many of them the guest has been given
  accepted,        \* those the guest took (sendErrors is nil)
  following,       \* the command behind the batch, or the one being served
  guest,           \* state of the core
  running,         \* Instance.running is closed
  stopped,         \* Instance.stopped is closed
  closeRequested,  \* Instance.closeRequested is closed
  done             \* Instance.done is closed

callVars   == <<caller, outcome>>
guestVars  == <<guest, running, stopped>>
driverVars == <<driver, batch, sent, accepted, following>>
vars == <<callVars, commands, response, driverVars, guestVars, closeRequested, done>>

\* execute: handing the command over, waiting for the response; Start and Stop:
\* waiting for the state.
CallerStates == {"idle", "sending", "waiting", "awaiting", "returned"}

\* "left": the context ended, or the instance is closing or gone.
Outcomes == {"none", "ok", "error", "left"}

\* driveLoop: in the select; handing a batch to the guest; about to drive; about
\* to serve the following command; out of the loop.
DriverStates == {"selecting", "sending", "driving", "following", "exiting", "returned"}

GuestStates == {"created", "starting", "running", "stopping", "stopped"}

TypeOK ==
  /\ caller \in [Calls -> CallerStates]
  /\ outcome \in [Calls -> Outcomes]
  /\ commands \in Seq(Calls) /\ Len(commands) <= queueCapacity
  /\ response \in [Calls -> {"none", "ok", "error"}]
  /\ driver \in DriverStates
  /\ batch \in Seq(PacketCalls) /\ Len(batch) <= maximumPacketIngressBatch
  /\ sent \in 0..Len(batch)
  /\ accepted \subseteq ToSet(batch)
  /\ following \in StartCalls \cup StopCalls \cup {Nil}
  /\ guest \in GuestStates
  /\ running \in BOOLEAN /\ stopped \in BOOLEAN
  /\ closeRequested \in BOOLEAN /\ done \in BOOLEAN

Init ==
  /\ caller = [c \in Calls |-> "idle"]
  /\ outcome = [c \in Calls |-> "none"]
  /\ commands = <<>>
  /\ response = [c \in Calls |-> "none"]
  /\ driver = "selecting"
  /\ batch = <<>> /\ sent = 0 /\ accepted = {} /\ following = Nil
  /\ guest = "created"
  /\ running = FALSE /\ stopped = FALSE
  /\ closeRequested = FALSE /\ done = FALSE

-----------------------------------------------------------------------------
(* The callers.                                                            *)

return(c, how) ==
  /\ caller' = [caller EXCEPT ![c] = "returned"]
  /\ outcome' = [outcome EXCEPT ![c] = how]

\* Start, Stop or SendPacket up to the first select of execute.
Call(c) ==
  /\ caller[c] = "idle"
  /\ IF closeRequested
     THEN return(c, "left")
     ELSE caller' = [caller EXCEPT ![c] = "sending"] /\ UNCHANGED outcome
  /\ UNCHANGED <<commands, response, driverVars, guestVars, closeRequested, done>>

\* Wait goes to its select at once.
Wait(c) ==
  /\ caller[c] = "idle" /\ c \in StopCalls
  /\ caller' = [caller EXCEPT ![c] = "awaiting"]
  /\ UNCHANGED <<outcome, commands, response, driverVars, guestVars, closeRequested, done>>

\* The first select: the command enters the channel.
Enqueue(c) ==
  /\ caller[c] = "sending"
  /\ Len(commands) < queueCapacity
  /\ commands' = Append(commands, c)
  /\ caller' = [caller EXCEPT ![c] = "waiting"]
  /\ UNCHANGED <<outcome, response, driverVars, guestVars, closeRequested, done>>

\* Which selects notice the context, and which notice Close: all of the first
\* one's; not the wait for the response to a packet.
Bug_heedsContext(c) == caller[c] \in {"sending", "waiting", "awaiting"}
heedsContext(c) ==
  \/ caller[c] \in {"sending", "awaiting"}
  \/ caller[c] = "waiting" /\ c \notin PacketCalls

heedsClose(c) ==
  \/ caller[c] = "sending"
  \/ caller[c] = "waiting" /\ c \notin PacketCalls

\* The caller's context ends, which it may do at any time ...
EndContext(c) ==
  /\ heedsContext(c)
  /\ return(c, "left")
  /\ UNCHANGED <<commands, response, driverVars, guestVars, closeRequested, done>>

\* ... or the select returns because of Close or the end of the driver.
GiveUp(c) ==
  /\ caller[c] \in {"sending", "waiting", "awaiting"}
  /\ done \/ (closeRequested /\ heedsClose(c))
  /\ return(c, "left")
  /\ UNCHANGED <<commands, response, driverVars, guestVars, closeRequested, done>>

\* execute returns the response; Start and Stop go on unless it is an error.
TakeResponse(c) ==
  /\ caller[c] = "waiting"
  /\ response[c] # "none"
  /\ IF response[c] = "error" \/ c \in PacketCalls
     THEN return(c, response[c])
     ELSE caller' = [caller EXCEPT ![c] = "awaiting"] /\ UNCHANGED outcome
  /\ response' = [response EXCEPT ![c] = "none"]
  /\ UNCHANGED <<commands, driverVars, guestVars, closeRequested, done>>

\* Start saw `running`, Stop and Wait saw `stopped`.
reached(c) == (c \in StartCalls /\ running) \/ (c \in StopCalls /\ stopped)

Reach(c) ==
  /\ caller[c] = "awaiting"
  /\ reached(c)
  /\ return(c, "ok")
  /\ UNCHANGED <<commands, response, driverVars, guestVars, closeRequested, done>>

Close ==
  /\ ~closeRequested
  /\ closeRequested' = TRUE
  /\ UNCHANGED <<callVars, commands, response, driverVars, guestVars, done>>

-----------------------------------------------------------------------------
(* The driver.                                                             *)

\* Where the guest can be after a drive.
Progress(g) ==
  CASE g = "starting" -> {"starting", "running", "stopped"}
    [] g = "running"  -> {"running", "stopped"}
    [] g = "stopping" -> {"stopping", "stopped"}
    [] OTHER          -> {g}

\* drive succeeds in a guest at g: the state is published, and its first arrival.
drive(g) ==
  \E state \in Progress(g) :
    /\ guest' = state
    /\ running' = (running \/ state = "running")
    /\ stopped' = (stopped \/ state = "stopped")

\* A drive that fails may have published the state before it failed.
driven(g, driveErr) ==
  \/ drive(g)
  \/ driveErr /\ guest' = g /\ UNCHANGED <<running, stopped>>

\* handlePacketBatch drains the packets at the head of the channel, n of them: all
\* there are, up to its limit, and one command behind them.
takesFollowing(n) == n < maximumPacketIngressBatch /\ n < Len(commands)

endsBatch(n) ==
  /\ n <= maximumPacketIngressBatch
  /\ \A i \in 1..n : commands[i] \in PacketCalls
  /\ takesFollowing(n) => commands[n + 1] \notin PacketCalls

\* driveLoop receives from the channel: a batch, or a command by itself.
Receive ==
  /\ driver = "selecting"
  /\ commands # <<>>
  /\ \E n \in 0..Len(commands) :
       /\ endsBatch(n)
       /\ batch' = SubSeq(commands, 1, n)
       /\ following' = IF takesFollowing(n) THEN commands[n + 1] ELSE Nil
       /\ commands' = SubSeq(commands, n + (IF takesFollowing(n) THEN 2 ELSE 1), Len(commands))
       /\ driver' = IF n = 0 THEN "following" ELSE "sending"
  /\ UNCHANGED <<callVars, response, sent, accepted, guestVars, closeRequested, done>>

\* handleCommand of the next packet: the guest takes it or refuses.
sendPacket ==
  /\ driver = "sending"
  /\ sent < Len(batch)
  /\ sent' = sent + 1
  /\ accepted' \in {accepted, accepted \cup {batch[sent + 1]}}
  /\ driver' = IF sent' = Len(batch) THEN "driving" ELSE "sending"
  /\ UNCHANGED <<callVars, commands, response, batch, following, guestVars, closeRequested, done>>

\* Everyone in the batch is answered: a refusal, or how the drive went.
Bug_answersAccepted(driveErr) ==
  [c \in Calls |-> IF c \in accepted THEN (IF driveErr THEN "error" ELSE "ok") ELSE response[c]]
answers(driveErr) ==
  [c \in Calls |-> IF c \notin ToSet(batch) THEN response[c]
                   ELSE IF c \in accepted /\ ~driveErr THEN "ok" ELSE "error"]

\* The drive of a batch, unless all of it was refused, and the answers.  If it
\* fails the loop ends, and the following command is not answered.
finishBatch(driveErr) ==
  /\ driver = "driving"
  /\ driveErr => accepted # {}
  /\ IF accepted = {} THEN UNCHANGED guestVars ELSE driven(guest, driveErr)
  /\ response' = answers(driveErr)
  /\ batch' = <<>> /\ sent' = 0 /\ accepted' = {}
  /\ driver' = IF driveErr THEN "exiting" ELSE IF following = Nil THEN "selecting" ELSE "following"
  /\ UNCHANGED <<callVars, commands, following, closeRequested, done>>

\* core.Start works on a new core, core.Stop on one that was started.
started(c) ==
  IF c \in StartCalls
  THEN IF guest = "created" THEN {"starting"} ELSE {}
  ELSE IF guest \in {"starting", "running"} THEN {"stopping"} ELSE {}

\* handleCommand fails: the caller hears of it, and the loop goes on ...
refuse ==
  /\ driver = "following"
  /\ response' = [response EXCEPT ![following] = "error"]
  /\ following' = Nil
  /\ driver' = "selecting"
  /\ UNCHANGED <<callVars, commands, batch, sent, accepted, guestVars, closeRequested, done>>

\* ... or succeeds, and so does the drive, or the loop ends with it.
serve(driveErr) ==
  /\ driver = "following"
  /\ \E g \in started(following) : driven(g, driveErr)
  /\ response' = [response EXCEPT ![following] = IF driveErr THEN "error" ELSE "ok"]
  /\ following' = Nil
  /\ driver' = IF driveErr THEN "exiting" ELSE "selecting"
  /\ UNCHANGED <<callVars, commands, batch, sent, accepted, closeRequested, done>>

\* Tokens, the timer, and the commands of the other channels drive the guest.
Wakeup(driveErr) ==
  /\ driver = "selecting"
  /\ driven(guest, driveErr)
  /\ driver' = IF driveErr THEN "exiting" ELSE "selecting"
  /\ UNCHANGED <<callVars, commands, response, batch, sent, accepted, following, closeRequested,
                 done>>

SeesClose ==
  /\ driver = "selecting"
  /\ closeRequested
  /\ driver' = "exiting"
  /\ UNCHANGED <<callVars, commands, response, batch, sent, accepted, following, guestVars,
                 closeRequested, done>>

\* run: shutdown, which drops the core, and close(done).
Bug_finishSilently ==
  /\ driver = "exiting"
  /\ driver' = "returned"
  /\ done' = closeRequested
  /\ UNCHANGED <<callVars, commands, response, batch, sent, accepted, following, guestVars,
                 closeRequested>>
finish ==
  /\ driver = "exiting"
  /\ driver' = "returned"
  /\ done' = TRUE
  /\ UNCHANGED <<callVars, commands, response, batch, sent, accepted, following, guestVars,
                 closeRequested>>

Terminated == done /\ (\A c \in Calls : caller[c] \in {"idle", "returned"}) /\ UNCHANGED vars

-----------------------------------------------------------------------------

Step(c) == GiveUp(c) \/ TakeResponse(c) \/ Reach(c)

Serves ==
  \/ sendPacket \/ refuse
  \/ \E driveErr \in BOOLEAN : finishBatch(driveErr) \/ serve(driveErr)

Next ==
  \/ \E c \in Calls : Call(c) \/ Wait(c) \/ EndContext(c) \/ Enqueue(c) \/ Step(c)
  \/ Close
  \/ Receive
  \/ Serves
  \/ \E driveErr \in BOOLEAN : Wakeup(driveErr)
  \/ SeesClose
  \/ finish
  \/ Terminated

Spec == Init /\ [][Next]_vars

\* Goroutines that can run do, and guest calls return; the driver's select takes
\* each ready case sooner or later (strong fairness of Receive).
Fairness ==
  /\ SF_vars(Receive)
  /\ WF_vars(Serves \/ finish)
  /\ \A c \in Calls : WF_vars(Step(c))

FairSpec == Spec /\ Fairness

-----------------------------------------------------------------------------
(* Properties.                                                             *)

\* Commands that will or may still be given to the guest.
inHand == ToSet(batch) \cup ({following} \ {Nil})

\* The buffer of a packet stays lent while the guest may look at it: SendPacket
\* does not return while its packet is in the channel of a live driver or in a
\* batch that is not answered.  (execute's comment: "Do not let caller
\* cancellation end the borrow after the request enters the queue".)
BorrowHolds ==
  \A c \in PacketCalls :
    caller[c] = "returned" => c \notin ToSet(batch) /\ (c \in ToSet(commands) => done)

\* Nobody waits for a response that will not come: the command is queued, in the
\* driver's hands, or answered, or the driver is on its way out.  And there is
\* room for the answer, so that the driver never blocks.
NoStuckCommand ==
  \A c \in Calls :
    /\ caller[c] = "waiting" =>
         \/ c \in ToSet(commands) \cup inHand
         \/ response[c] # "none"
         \/ driver \in {"exiting", "returned"}
    /\ c \in ToSet(commands) \cup inHand => response[c] = "none"

queued == ToSet(commands)

\* A command is in one place: once in the channel, or in the driver's hands.
InOnePlace ==
  /\ \A i, j \in DOMAIN commands : commands[i] = commands[j] => i = j
  /\ queued \cap inHand = {}

\* Only a call that waits for its response, or has given it up, has a command
\* somewhere.
CallsAgree ==
  \A c \in Calls :
    /\ caller[c] \in {"idle", "sending", "awaiting"} => c \notin queued \cup inHand
    /\ caller[c] \in {"idle", "sending"} => response[c] = "none"

\* What the driver has in hand where.
DriverAgrees ==
  /\ driver \notin {"sending", "driving"} => batch = <<>>
  /\ driver = "selecting" => following = Nil
  /\ driver = "following" => following # Nil
  /\ done <=> driver = "returned"

\* Callers, the channel and the driver agree.
Consistent ==
  /\ TypeOK
  /\ NoStuckCommand
  /\ InOnePlace /\ CallsAgree /\ DriverAgrees

\* A command that was handed over is answered or the instance ends, even when it
\* stood behind a batch whose drive failed, and although SendPacket does not
\* heed its context.  And a call that waits for a state, Wait included, is freed
\* by the end of the driver when the state will never come.
CommandsReturn ==
  \A c \in Calls :
    (caller[c] = "waiting" \/ (caller[c] = "awaiting" /\ done))
      ~> (caller[c] = "returned" \/ (caller[c] = "awaiting" /\ ~done))

=============================================================================
