---------------------------- MODULE HostOperations ----------------------------
(***************************************************************************)
(* What internal/reactor promises about a question the guest asks under an *)
(* id of its choosing, whatever happens inside: the id belongs to one      *)
(* question from its start until it is released; the question gets at most *)
(* one answer, which is an answer to this very question and does not       *)
(* change; nothing can be asked once the reactor is closed.                *)
(*                                                                         *)
(* ReactorQuery and ReactorSockets implement this specification; HostABI   *)
(* is written against it.                                                  *)
(***************************************************************************)
CONSTANTS
  Ops,           \* operation ids
  Questions,     \* what can be asked
  AnswersTo(_),  \* the answers a question may get
  Nil

VARIABLES
  closed,  \* the reactor is closed
  asked,   \* the question of each id, Nil when the id is free
  reply    \* its answer, Nil while there is none

vars == <<closed, asked, reply>>

Init ==
  /\ closed = FALSE
  /\ asked = [op \in Ops |-> Nil]
  /\ reply = [op \in Ops |-> Nil]

Start(op, q) ==
  /\ ~closed
  /\ asked[op] = Nil
  /\ asked' = [asked EXCEPT ![op] = q]
  /\ UNCHANGED <<closed, reply>>

Answer(op, a) ==
  /\ asked[op] # Nil
  /\ reply[op] = Nil
  /\ a \in AnswersTo(asked[op])
  /\ reply' = [reply EXCEPT ![op] = a]
  /\ UNCHANGED <<closed, asked>>

\* The guest took the answer, or cancelled the question.
Release(op) ==
  /\ asked[op] # Nil
  /\ asked' = [asked EXCEPT ![op] = Nil]
  /\ reply' = [reply EXCEPT ![op] = Nil]
  /\ UNCHANGED closed

Close ==
  /\ ~closed
  /\ closed' = TRUE
  /\ asked' = [op \in Ops |-> Nil]
  /\ reply' = [op \in Ops |-> Nil]

Next ==
  \/ \E op \in Ops, q \in Questions : Start(op, q)
  \/ \E op \in Ops : asked[op] # Nil /\ \E a \in AnswersTo(asked[op]) : Answer(op, a)
  \/ \E op \in Ops : Release(op)
  \/ Close

Spec == Init /\ [][Next]_vars

=============================================================================
