----------------------------- MODULE EngineHost -----------------------------
(***************************************************************************)
(* The life of instances and web clients: internal/engine host.go and      *)
(* web_client.go, with run, driveLoop, drive and shutdown of instance.go.  *)
(*                                                                         *)
(* All of them share one guest.  `guestMu` is held during every call into  *)
(* it, `mu` guards the table of instances and the web client.  A creation  *)
(* holds mu while it waits for guestMu and calls the guest; everybody else *)
(* holds one lock at a time.  The reactor puts its completion token into a *)
(* channel of one; a goroutine takes it and passes it on to whoever is in  *)
(* the table by then.                                                      *)
(*                                                                         *)
(* A critical section of mu is one step, except a creation, which is as    *)
(* many steps as it has calls.  A guest call is two steps, enter and leave;*)
(* reactor operations start and complete in between.                       *)
(*                                                                         *)
(* Data.  What drives the guest without a token (commands and the timer)   *)
(* is one action.  The operations of an instance are two flags: one is     *)
(* under way, and one has completed without the guest having been told.    *)
(***************************************************************************)
EXTENDS Integers

CONSTANTS
  Instances,
  Clients,     \* web clients
  Nil          \* nobody

ASSUME UsersAssumption == Instances \cap Clients = {}
ASSUME NilAssumption   == Nil \notin Instances \cup Clients

Users == Instances \cup Clients

VARIABLES
  user,            \* where the creation or the driver goroutine of a user is
  mu,              \* Host.mu: the user whose creation holds it
  guestMu,         \* Host.guestMu: the user who calls the guest
  table,           \* Host.instances and Host.webClient
  alive,           \* users that exist in the guest
  sinks,           \* instances whose packet and event sinks are registered
  events,          \* instances whose channel of events is open
  work,            \* users with an operation under way in the reactor
  owed,            \* users with a completed operation they were not told about
  token,           \* the reactor's completion channel holds a token
  broadcaster,     \* where broadcastCompletions is
  completions,     \* users whose own channel holds a token
  closeRequested,  \* users whose Close was called
  done,            \* users whose done channel is closed
  closed,          \* Host.closed
  toClose,         \* whom shutdown still has to close
  waitingFor,      \* whose done channel shutdown waits for
  ended            \* how far shutdown has got after that

lockVars     == <<mu, guestMu>>
sinkVars     == <<sinks, events>>
tokenVars    == <<work, owed, token, broadcaster, completions>>
shutdownVars == <<closed, toClose, waitingFor, ended>>
vars == <<user, lockVars, table, alive, sinkVars, tokenVars, closeRequested, done, shutdownVars>>

\* CreateInstance and CreateWebClient: waiting for guestMu, in the guest.
\* driveLoop: in the select; about to drive, with and without a notification; in
\* the guest.  shutdown: waiting for guestMu, in Drop, and after each step.
UserStates == {"absent", "registered", "creating",
               "selecting", "notified", "woken", "driving",
               "ending", "dropping", "dropped", "unregistered", "silent", "removed"}

Ends == {"open", "cancelled", "reactorClosed", "closed"}

TypeOK ==
  /\ user \in [Users -> UserStates]
  /\ mu \in Users \cup {Nil}
  /\ guestMu \in Users \cup {Nil}
  /\ table \subseteq Users
  /\ alive \subseteq Users
  /\ sinks \subseteq Instances /\ events \subseteq Instances
  /\ work \subseteq Users /\ owed \subseteq Users /\ completions \subseteq Users
  /\ token \in BOOLEAN
  /\ broadcaster \in {"selecting", "holding", "returned"}
  /\ closeRequested \subseteq Users /\ done \subseteq Users
  /\ closed \in BOOLEAN
  /\ toClose \subseteq Users
  /\ waitingFor \in Users \cup {Nil}
  /\ ended \in Ends

Init ==
  /\ user = [u \in Users |-> "absent"]
  /\ mu = Nil /\ guestMu = Nil
  /\ table = {} /\ alive = {} /\ sinks = {} /\ events = {}
  /\ work = {} /\ owed = {} /\ completions = {}
  /\ token = FALSE
  /\ broadcaster = "selecting"
  /\ closeRequested = {} /\ done = {}
  /\ closed = FALSE
  /\ toClose = {} /\ waitingFor = Nil
  /\ ended = "open"

goes(u, state) == user' = [user EXCEPT ![u] = state]

-----------------------------------------------------------------------------
(* Creation.                                                               *)

\* CreateInstance: mu is locked, the host open; the sinks come first.
CreateInstance(i) ==
  /\ user[i] = "absent"
  /\ mu = Nil
  /\ ~closed
  /\ mu' = i
  /\ sinks' = sinks \cup {i}
  /\ events' = events \cup {i}
  /\ goes(i, "registered")
  /\ UNCHANGED <<guestMu, table, alive, tokenVars, closeRequested, done, shutdownVars>>

\* CreateWebClient: there is at most one.
CreateWebClient(w) ==
  /\ user[w] = "absent"
  /\ mu = Nil
  /\ ~closed
  /\ table \cap Clients = {}
  /\ mu' = w
  /\ goes(w, "registered")
  /\ UNCHANGED <<guestMu, table, alive, sinkVars, tokenVars, closeRequested, done, shutdownVars>>

\* core.Create is called ...
enterCreate(u) ==
  /\ user[u] = "registered"
  /\ guestMu = Nil
  /\ guestMu' = u
  /\ alive' = alive \cup {u}
  /\ goes(u, "creating")
  /\ UNCHANGED <<mu, table, sinkVars, tokenVars, closeRequested, done, shutdownVars>>

\* ... and succeeds: the user is in the table before mu is released.
created(u) ==
  /\ user[u] = "creating"
  /\ guestMu' = Nil
  /\ mu' = Nil
  /\ table' = table \cup {u}
  /\ goes(u, "selecting")
  /\ UNCHANGED <<alive, sinkVars, tokenVars, closeRequested, done, shutdownVars>>

\* ... or fails: an instance still has to give up its sinks.  The guest has
\* withdrawn what it started for it.
createFails(u) ==
  /\ user[u] = "creating"
  /\ guestMu' = Nil
  /\ alive' = alive \ {u}
  /\ work' = work \ {u}
  /\ owed' = owed \ {u}
  /\ mu' = IF u \in Instances THEN mu ELSE Nil
  /\ goes(u, IF u \in Instances THEN "dropped" ELSE "absent")
  /\ UNCHANGED <<table, sinkVars, token, broadcaster, completions, closeRequested, done,
                 shutdownVars>>

-----------------------------------------------------------------------------
(* Driving.                                                                *)

\* driveLoop: the user's token was there ...
takeToken(u) ==
  /\ user[u] = "selecting"
  /\ u \in completions
  /\ completions' = completions \ {u}
  /\ goes(u, "notified")
  /\ UNCHANGED <<lockVars, table, alive, sinkVars, work, owed, token, broadcaster,
                 closeRequested, done, shutdownVars>>

\* ... or a command, or the timer.
wake(u) ==
  /\ user[u] = "selecting"
  /\ goes(u, "woken")
  /\ UNCHANGED <<lockVars, table, alive, sinkVars, tokenVars, closeRequested, done, shutdownVars>>

\* drive: with a token, the guest is told to look at its operations first.
drive(u) ==
  /\ user[u] \in {"notified", "woken"}
  /\ guestMu = Nil
  /\ guestMu' = u
  /\ owed' = IF user[u] = "notified" THEN owed \ {u} ELSE owed
  /\ goes(u, "driving")
  /\ UNCHANGED <<mu, table, alive, sinkVars, work, token, broadcaster, completions,
                 closeRequested, done, shutdownVars>>

\* drive returns; an error ends the loop.
driveReturns(u) ==
  /\ user[u] = "driving"
  /\ guestMu' = Nil
  /\ goes(u, "selecting") \/ goes(u, "ending")
  /\ UNCHANGED <<mu, table, alive, sinkVars, tokenVars, closeRequested, done, shutdownVars>>

\* closeRequested, or the host's context.
SeesClose(u) ==
  /\ user[u] = "selecting"
  /\ u \in closeRequested \/ ended # "open"
  /\ goes(u, "ending")
  /\ UNCHANGED <<lockVars, table, alive, sinkVars, tokenVars, closeRequested, done, shutdownVars>>

-----------------------------------------------------------------------------
(* The end of an instance or a web client: shutdown.                       *)

enterDrop(u) ==
  /\ user[u] = "ending"
  /\ guestMu = Nil
  /\ guestMu' = u
  /\ goes(u, "dropping")
  /\ UNCHANGED <<mu, table, alive, sinkVars, tokenVars, closeRequested, done, shutdownVars>>

\* Drop withdraws the operations too.  The guest lock is released before anything
\* else is locked.
Bug_dropReturnsLocked(u) ==
  /\ user[u] = "dropping"
  /\ alive' = alive \ {u}
  /\ work' = work \ {u}
  /\ owed' = owed \ {u}
  /\ goes(u, IF u \in Instances THEN "dropped" ELSE "silent")
  /\ UNCHANGED <<lockVars, table, sinkVars, token, broadcaster, completions, closeRequested, done,
                 shutdownVars>>
dropReturns(u) ==
  /\ user[u] = "dropping"
  /\ guestMu' = Nil
  /\ alive' = alive \ {u}
  /\ work' = work \ {u}
  /\ owed' = owed \ {u}
  /\ goes(u, IF u \in Instances THEN "dropped" ELSE "silent")
  /\ UNCHANGED <<mu, table, sinkVars, token, broadcaster, completions, closeRequested, done,
                 shutdownVars>>

\* UnregisterPacketSink and UnregisterEventSink, also of a failed creation.
unregisterSinks(i) ==
  /\ user[i] = "dropped"
  /\ sinks' = sinks \ {i}
  /\ goes(i, "unregistered")
  /\ UNCHANGED <<lockVars, table, alive, events, tokenVars, closeRequested, done, shutdownVars>>

\* close(events).  A failed creation returns, and mu is released.
closeEvents(i) ==
  /\ user[i] = "unregistered"
  /\ events' = events \ {i}
  /\ goes(i, IF mu = i THEN "absent" ELSE "silent")
  /\ mu' = IF mu = i THEN Nil ELSE mu
  /\ UNCHANGED <<guestMu, table, alive, sinks, tokenVars, closeRequested, done, shutdownVars>>

\* removeInstance and removeWebClient.
remove(u) ==
  /\ user[u] = "silent"
  /\ mu = Nil
  /\ table' = table \ {u}
  /\ goes(u, "removed")
  /\ UNCHANGED <<lockVars, alive, sinkVars, tokenVars, closeRequested, done, shutdownVars>>

\* run closes done.  Nobody looks at the user's channel of tokens any more.
finish(u) ==
  /\ user[u] = "removed"
  /\ u \notin done
  /\ done' = done \cup {u}
  /\ completions' = completions \ {u}
  /\ UNCHANGED <<user, lockVars, table, alive, sinkVars, work, owed, token, broadcaster,
                 closeRequested, shutdownVars>>

\* Instance.Close and WebClient.Close of a user that was handed out.
CloseUser(u) ==
  /\ user[u] \notin {"absent", "registered", "creating"}
  /\ mu # u
  /\ u \notin closeRequested
  /\ closeRequested' = closeRequested \cup {u}
  /\ UNCHANGED <<user, lockVars, table, alive, sinkVars, tokenVars, done, shutdownVars>>

-----------------------------------------------------------------------------
(* Operations and tokens.                                                  *)

\* The guest starts an operation in the reactor.
startOperation(u) ==
  /\ guestMu = u
  /\ user[u] \in {"creating", "driving"}
  /\ u \notin work
  /\ work' = work \cup {u}
  /\ UNCHANGED <<user, lockVars, table, alive, sinkVars, owed, token, broadcaster,
                 completions, closeRequested, done, shutdownVars>>

\* A goroutine of the reactor has a result and signals it.  (That it does so only
\* after its unlock is in ReactorCore; the guest looks at results when told.)
complete(u) ==
  /\ u \in work
  /\ work' = work \ {u}
  /\ owed' = owed \cup {u}
  /\ token' = TRUE
  /\ UNCHANGED <<user, lockVars, table, alive, sinkVars, broadcaster, completions, closeRequested,
                 done, shutdownVars>>

\* broadcastCompletions takes the token ...
receiveToken ==
  /\ broadcaster = "selecting"
  /\ token
  /\ token' = FALSE
  /\ broadcaster' = "holding"
  /\ UNCHANGED <<user, lockVars, table, alive, sinkVars, work, owed, completions,
                 closeRequested, done, shutdownVars>>

\* ... locks mu and puts a token into every channel that has none.
Bug_distributeUnlocked ==
  /\ broadcaster = "holding"
  /\ broadcaster' = "selecting"
  /\ completions' = completions \cup table
  /\ UNCHANGED <<user, lockVars, table, alive, sinkVars, work, owed, token,
                 closeRequested, done, shutdownVars>>
distribute ==
  /\ broadcaster = "holding"
  /\ mu = Nil
  /\ broadcaster' = "selecting"
  /\ completions' = completions \cup table
  /\ UNCHANGED <<user, lockVars, table, alive, sinkVars, work, owed, token,
                 closeRequested, done, shutdownVars>>

\* The host's context ends the goroutine.
endBroadcast ==
  /\ broadcaster = "selecting"
  /\ ended # "open"
  /\ broadcaster' = "returned"
  /\ UNCHANGED <<user, lockVars, table, alive, sinkVars, work, owed, token, completions,
                 closeRequested, done, shutdownVars>>

-----------------------------------------------------------------------------
(* The end of the host.                                                    *)

\* Close: closed is set and the table copied in one critical section.
Bug_CloseUnlocked ==
  /\ ~closed
  /\ closed' = TRUE
  /\ toClose' = table
  /\ UNCHANGED <<user, lockVars, table, alive, sinkVars, tokenVars, closeRequested, done, waitingFor,
                 ended>>
Close ==
  /\ ~closed
  /\ mu = Nil
  /\ closed' = TRUE
  /\ toClose' = table
  /\ UNCHANGED <<user, lockVars, table, alive, sinkVars, tokenVars, closeRequested, done, waitingFor,
                 ended>>

\* shutdown closes the web client, then one instance after the other ...
shutdownCloses(u) ==
  /\ waitingFor = Nil
  /\ u \in toClose
  /\ u \in Clients \/ toClose \cap Clients = {}
  /\ closeRequested' = closeRequested \cup {u}
  /\ waitingFor' = u
  /\ UNCHANGED <<user, lockVars, table, alive, sinkVars, tokenVars, done, closed, toClose, ended>>

\* ... each of them until it is done, since the host's context is not cancelled.
shutdownWaited ==
  /\ waitingFor \in done
  /\ toClose' = toClose \ {waitingFor}
  /\ waitingFor' = Nil
  /\ UNCHANGED <<user, lockVars, table, alive, sinkVars, tokenVars, closeRequested, done, closed,
                 ended>>

\* host.cancel()
cancel ==
  /\ closed
  /\ toClose = {}
  /\ ended = "open"
  /\ ended' = "cancelled"
  /\ UNCHANGED <<user, lockVars, table, alive, sinkVars, tokenVars, closeRequested, done, closed,
                 toClose, waitingFor>>

\* reactor.Close returns when its goroutines have ended.
closeReactor ==
  /\ ended = "cancelled"
  /\ ended' = "reactorClosed"
  /\ work' = {}
  /\ UNCHANGED <<user, lockVars, table, alive, sinkVars, owed, token, broadcaster,
                 completions, closeRequested, done, closed, toClose, waitingFor>>

\* module.Close, runtime.Close, close(closeDone)
closeModule ==
  /\ ended = "reactorClosed"
  /\ ended' = "closed"
  /\ UNCHANGED <<user, lockVars, table, alive, sinkVars, tokenVars, closeRequested, done, closed,
                 toClose, waitingFor>>

Terminated == ended = "closed" /\ UNCHANGED vars

-----------------------------------------------------------------------------

Lives(u) ==
  \/ enterCreate(u) \/ created(u) \/ createFails(u)
  \/ takeToken(u) \/ wake(u) \/ drive(u) \/ driveReturns(u) \/ SeesClose(u)
  \/ enterDrop(u) \/ dropReturns(u) \/ remove(u) \/ finish(u) \/ CloseUser(u)
  \/ startOperation(u) \/ complete(u)

Next ==
  \/ \E i \in Instances : CreateInstance(i) \/ unregisterSinks(i) \/ closeEvents(i)
  \/ \E w \in Clients : CreateWebClient(w)
  \/ \E u \in Users : Lives(u)
  \/ receiveToken \/ distribute \/ endBroadcast
  \/ Close
  \/ \E u \in Users : shutdownCloses(u)
  \/ shutdownWaited \/ cancel \/ closeReactor \/ closeModule
  \/ Terminated

Spec == Init /\ [][Next]_vars

\* Runnable goroutines run and guest calls return.  A select takes each ready case
\* sooner or later, and a mutex is not denied for ever to one who waits for it
\* (sync.Mutex hands it over after a millisecond): strong fairness of these two.
Fairness ==
  /\ WF_vars(shutdownWaited \/ cancel \/ closeReactor \/ closeModule)
  /\ WF_vars(\E u \in Users : shutdownCloses(u))
  /\ \A u \in Users :
       /\ SF_vars(enterCreate(u) \/ drive(u) \/ enterDrop(u))
       /\ SF_vars(SeesClose(u))
       /\ WF_vars(created(u) \/ createFails(u) \/ driveReturns(u) \/ dropReturns(u))
       /\ WF_vars(remove(u) \/ finish(u))
  /\ \A i \in Instances : WF_vars(unregisterSinks(i) \/ closeEvents(i))

FairSpec == Spec /\ Fairness

-----------------------------------------------------------------------------
(* Properties.                                                             *)

\* Whoever can still call the guest or is in a call.
usesGuest(u) ==
  user[u] \in {"registered", "creating", "selecting", "notified", "woken", "driving", "ending",
               "dropping"}

\* Close finds everybody: when shutdown closes the reactor and the module, nobody
\* is left in the guest, or on the way to it, whatever was being created or
\* was ending by itself when Close copied the table.
GuestOutlivesUsers ==
  ended # "open" => guestMu = Nil /\ alive = {} /\ \A u \in Users : ~usesGuest(u)

\* An instance in the guest has its sinks, a registered sink has an open channel
\* (delivering an event to a closed one would panic), and what has ended, or
\* was never created, has left no sink behind.
SinksOutliveInstances ==
  /\ alive \cap Instances \subseteq sinks
  /\ sinks \subseteq events
  /\ \A i \in Instances : user[i] \in {"absent", "silent", "removed"} => i \notin events

InGuest == {"creating", "driving", "dropping"}

\* Where a user is tells what is held, kept and registered for it: the guest's lock
\* during a call, mu during its creation (its failure included), its entry in the
\* table from there to its removal.
PlacesAgree ==
  \A u \in Users :
    /\ guestMu = u <=> user[u] \in InGuest
    /\ user[u] \in {"registered", "creating"} => mu = u
    /\ mu = u => user[u] \in {"registered", "creating", "dropped", "unregistered"}
    /\ u \in table <=> mu # u /\ user[u] \notin {"absent", "removed"}
    /\ u \in alive <=> usesGuest(u) /\ user[u] # "registered"
    /\ u \in work \cup owed => u \in alive
    /\ u \in done => user[u] = "removed"

SinksAgree ==
  \A u \in Users :
    /\ u \in sinks <=> u \in Instances /\ (usesGuest(u) \/ user[u] = "dropped")
    /\ u \in events <=> u \in Instances /\ (u \in sinks \/ user[u] = "unregistered")
    /\ user[u] \in {"dropped", "unregistered"} => u \in Instances

\* There is one web client at most, also while another one is being created.
OneWebClient ==
  /\ \A v, w \in table \cap Clients : v = w
  /\ mu \in Clients => table \cap Clients = {}

\* After Close has copied the table nobody enters it who is not in the copy.
ShutdownKnowsUsers ==
  /\ closed => mu = Nil /\ table \subseteq toClose
  /\ ended # "open" => closed /\ toClose = {}

\* The books of the host: types, a guest that is there as long as somebody may be
\* in it, and sinks that are there as long as they are used.
Consistent ==
  /\ TypeOK
  /\ PlacesAgree /\ SinksAgree /\ OneWebClient /\ ShutdownKnowsUsers
  /\ GuestOutlivesUsers /\ SinksOutliveInstances

\* A completed operation whose instance was not told is on the way to it: also
\* when it completed while the instance was being created and in no table.
\* (Not once the driver has left its loop.)
TokensReachUsers ==
  \A u \in owed :
    user[u] \in {"creating", "selecting", "woken", "driving"} =>
      token \/ broadcaster = "holding" \/ u \in completions

\* Close terminates: no order of creating, driving, ending and closing leaves
\* the two locks, the drivers and shutdown waiting for each other.
CloseTerminates == closed ~> (ended = "closed")

=============================================================================
