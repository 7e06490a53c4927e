------------------------- MODULE EngineCommandsProofs -------------------------
(***************************************************************************)
(* Proofs about EngineCommands, for any number of calls, every capacity of *)
(* the channel and every limit of a batch.                                 *)
(***************************************************************************)
EXTENDS EngineCommands, SequenceTheorems, TLAPS

\* The inductive invariant.
Inv == Consistent /\ BorrowHolds

-----------------------------------------------------------------------------
(* Sequences.                                                              *)

LEMMA MembersOf == ASSUME NEW S, NEW s \in Seq(S)
                   PROVE  ToSet(s) = {s[i] : i \in 1..Len(s)} /\ ToSet(s) \subseteq S
BY DEF ToSet

LEMMA NoMembers == ToSet(<<>>) = {}
BY DEF ToSet

\* The channel after a command has entered it.
LEMMA Appended ==
  ASSUME NEW S, NEW s \in Seq(S), NEW x \in S,
         \A i, j \in DOMAIN s : s[i] = s[j] => i = j, x \notin ToSet(s)
  PROVE  /\ Append(s, x) \in Seq(S) /\ Len(Append(s, x)) = Len(s) + 1
         /\ ToSet(Append(s, x)) = ToSet(s) \cup {x}
         /\ \A i, j \in DOMAIN Append(s, x) : Append(s, x)[i] = Append(s, x)[j] => i = j
<1> DEFINE a == Append(s, x)
<1>1. /\ a \in Seq(S) /\ Len(a) = Len(s) + 1 /\ DOMAIN a = 1..(Len(s) + 1)
      /\ \A i \in 1..Len(s) : a[i] = s[i]
      /\ a[Len(s) + 1] = x
      /\ Len(s) \in Nat /\ DOMAIN s = 1..Len(s)
  OBVIOUS
<1> HIDE DEF a
<1>2. \A i \in 1..(Len(s) + 1) : i \in 1..Len(s) \/ i = Len(s) + 1
  BY <1>1
<1>3. ToSet(a) = ToSet(s) \cup {x}
  BY <1>1, <1>2 DEF ToSet
<1>4. \A i \in 1..Len(s) : s[i] # x
  BY <1>1 DEF ToSet
<1>5. \A i, j \in 1..(Len(s) + 1) : a[i] = a[j] => i = j
  BY <1>1, <1>2, <1>4
<1> QED
  BY <1>1, <1>3, <1>5 DEF a

\* A sequence without repetition, cut behind its first n elements, or with one
\* element between the two parts.
isCut(S, s, n, k, front, back) ==
  /\ front \in Seq(S) /\ Len(front) = n
  /\ back \in Seq(S) /\ Len(back) = Len(s) - k
  /\ ToSet(front) = {s[i] : i \in 1..n}
  /\ ToSet(s) = ToSet(front) \cup ToSet(back) \cup {s[i] : i \in (n + 1)..k}
  /\ ToSet(front) \cap ToSet(back) = {}
  /\ \A i \in (n + 1)..k : s[i] \notin ToSet(front) /\ s[i] \notin ToSet(back)
  /\ \A i, j \in DOMAIN back : back[i] = back[j] => i = j

LEMMA Cut ==
  ASSUME NEW S, NEW s \in Seq(S), NEW n \in 0..Len(s),
         \A i, j \in DOMAIN s : s[i] = s[j] => i = j,
         NEW k \in {n, n + 1}, k <= Len(s),
         NEW front, front = SubSeq(s, 1, n),
         NEW back, back = SubSeq(s, k + 1, Len(s))
  PROVE  isCut(S, s, n, k, front, back)
<1>0. Len(s) \in Nat /\ n \in Nat /\ k \in Nat /\ DOMAIN s = 1..Len(s)
  OBVIOUS
<1>1. /\ front \in Seq(S) /\ Len(front) = n /\ DOMAIN front = 1..n
      /\ \A i \in 1..n : front[i] = s[i]
  BY <1>0
<1>2. /\ back \in Seq(S) /\ Len(back) = Len(s) - k /\ DOMAIN back = 1..(Len(s) - k)
      /\ \A i \in 1..(Len(s) - k) : back[i] = s[k + i]
  <2>1. \A i \in (k + 1)..Len(s) : i \in 1..Len(s) /\ s[i] \in S
    BY <1>0
  <2>2. /\ back \in Seq(S)
        /\ Len(back) = IF k + 1 <= Len(s) THEN Len(s) - (k + 1) + 1 ELSE 0
        /\ \A i \in 1..(Len(s) - (k + 1) + 1) : back[i] = s[(k + 1) + i - 1]
    <3>1. k + 1 \in Int /\ Len(s) \in Int
      BY <1>0
    <3> QED
      BY <2>1, <3>1, SubSeqProperties
  <2>3. Len(back) = Len(s) - k
    <3>1. \A l, m \in Nat : m <= l => (IF m + 1 <= l THEN l - (m + 1) + 1 ELSE 0) = l - m
      OBVIOUS
    <3>2. (IF k + 1 <= Len(s) THEN Len(s) - (k + 1) + 1 ELSE 0) = Len(s) - k
      BY <1>0, <3>1, Zenon
    <3> QED
      BY <2>2, <3>2, Zenon
  <2>4. DOMAIN back = 1..(Len(s) - k)
    BY <2>2, <2>3, LenProperties
  <2>5. \A i \in 1..(Len(s) - k) : i \in 1..(Len(s) - (k + 1) + 1) /\ (k + 1) + i - 1 = k + i
    BY <1>0
  <2> QED
    BY <2>2, <2>3, <2>4, <2>5
<1>3. ToSet(front) = {s[i] : i \in 1..n}
  BY <1>1 DEF ToSet
<1>4. ToSet(back) = {s[i] : i \in (k + 1)..Len(s)}
  <2>1. ASSUME NEW i \in (k + 1)..Len(s)
        PROVE  i - k \in 1..(Len(s) - k) /\ s[i] = back[i - k]
    <3>1. i - k \in 1..(Len(s) - k) /\ k + (i - k) = i
      BY <1>0
    <3>2. back[i - k] = s[k + (i - k)]
      BY <1>2, <3>1
    <3> QED
      BY <3>1, <3>2
  <2>2. \A i \in 1..(Len(s) - k) : k + i \in (k + 1)..Len(s)
    BY <1>0
  <2>3. ToSet(back) = {back[i] : i \in 1..(Len(s) - k)}
    BY <1>2 DEF ToSet
  <2>4. \A i \in 1..(Len(s) - k) : back[i] = s[k + i]
    BY <1>2
  <2>5. ToSet(back) \subseteq {s[i] : i \in (k + 1)..Len(s)}
    <3>1. ASSUME NEW x \in ToSet(back)
          PROVE  \E j \in (k + 1)..Len(s) : x = s[j]
      <4>1. PICK i \in 1..(Len(s) - k) : x = back[i]
        BY <2>3, Zenon
      <4>2. x = s[k + i] /\ k + i \in (k + 1)..Len(s)
        BY <2>2, <2>4, <4>1, Zenon
      <4> QED
        BY <4>2, Zenon
    <3> QED
      BY <3>1, Zenon
  <2>6. ASSUME NEW i \in (k + 1)..Len(s)
        PROVE  s[i] \in ToSet(back)
    <3>1. back[i - k] \in ToSet(back)
      BY <2>1, <2>3
    <3> QED
      BY <2>1, <3>1
  <2> QED
    BY <2>5, <2>6
<1>5. ToSet(s) = {s[i] : i \in 1..Len(s)}
  BY <1>0 DEF ToSet
<1>6. \A i \in 1..Len(s) : i \in 1..n \/ i \in (n + 1)..k \/ i \in (k + 1)..Len(s)
  BY <1>0
<1>7. 1..n \subseteq 1..Len(s) /\ (n + 1)..k \subseteq 1..Len(s) /\ (k + 1)..Len(s) \subseteq 1..Len(s)
  BY <1>0
<1>8. ToSet(s) = ToSet(front) \cup ToSet(back) \cup {s[i] : i \in (n + 1)..k}
  BY <1>3, <1>4, <1>5, <1>6, <1>7
<1>9. ToSet(front) \cap ToSet(back) = {}
  <2>1. \A i \in 1..n, j \in (k + 1)..Len(s) : i # j
    BY <1>0
  <2> QED
    BY <1>0, <1>3, <1>4, <1>7, <2>1
<1>10. ASSUME NEW i \in (n + 1)..k
       PROVE  s[i] \notin ToSet(front) /\ s[i] \notin ToSet(back)
  <2>1. /\ i \in 1..Len(s)
        /\ \A j \in 1..n : i # j
        /\ \A j \in (k + 1)..Len(s) : i # j
    BY <1>0
  <2> QED
    BY <1>0, <1>3, <1>4, <1>7, <2>1
<1>11. \A i, j \in DOMAIN back : back[i] = back[j] => i = j
  <2> SUFFICES ASSUME NEW i \in 1..(Len(s) - k), NEW j \in 1..(Len(s) - k), back[i] = back[j]
               PROVE  i = j
    BY <1>2
  <2>1. k + i \in DOMAIN s /\ k + j \in DOMAIN s
    BY <1>0
  <2>2. k + i = k + j
    BY <1>2, <2>1
  <2> QED
    BY <1>0, <2>2
<1> QED
  BY <1>1, <1>2, <1>3, <1>8, <1>9, <1>10, <1>11 DEF isCut

-----------------------------------------------------------------------------
(* Steps that concern one place only.                                      *)

LEMMA InitInv == Init => Inv
<1> SUFFICES ASSUME Init
             PROVE  Inv
  OBVIOUS
<1> USE DEF Init
<1>1. inHand = {} /\ queued = {}
  BY NoMembers DEF inHand, queued
<1>2. TypeOK
  <2>1. commands \in Seq(Calls) /\ batch \in Seq(PacketCalls)
    BY EmptySeq
  <2>2. Len(commands) <= queueCapacity /\ Len(batch) <= maximumPacketIngressBatch /\ sent \in 0..Len(batch)
    BY CapacityAssumption, BatchAssumption
  <2>3. accepted \subseteq ToSet(batch)
    OBVIOUS
  <2> QED
    BY <2>1, <2>2, <2>3 DEF TypeOK, CallerStates, Outcomes, DriverStates, GuestStates
<1>3. NoStuckCommand /\ InOnePlace /\ CallsAgree /\ DriverAgrees
  BY <1>1, NilAssumption DEF NoStuckCommand, InOnePlace, CallsAgree, DriverAgrees, queued
<1>4. BorrowHolds
  BY DEF BorrowHolds, Calls
<1> QED
  BY <1>2, <1>3, <1>4 DEF Inv, Consistent

\* The invariant, call by call.
callOK(c) ==
  /\ caller[c] = "waiting" =>
       c \in queued \cup inHand \/ response[c] # "none" \/ driver \in {"exiting", "returned"}
  /\ c \in queued \cup inHand => response[c] = "none"
  /\ caller[c] \in {"idle", "sending", "awaiting"} => c \notin queued \cup inHand
  /\ caller[c] \in {"idle", "sending"} => response[c] = "none"
  /\ c \in PacketCalls /\ caller[c] = "returned" => c \notin ToSet(batch) /\ (c \in queued => done)

LEMMA CallByCall ==
  Inv <=> TypeOK /\ InOnePlace /\ DriverAgrees /\ \A c \in Calls : callOK(c)
BY DEF Inv, Consistent, callOK, NoStuckCommand, CallsAgree, BorrowHolds, queued, Calls

LEMMA CallByCallNext ==
  ASSUME TypeOK', InOnePlace', DriverAgrees', \A c \in Calls : callOK(c)'
  PROVE  Inv'
BY DEF Inv, Consistent, callOK, NoStuckCommand, CallsAgree, BorrowHolds, queued, Calls

\* Who is in the driver's hands.
LEMMA InHand ==
  ASSUME TypeOK
  PROVE  /\ ToSet(batch) \subseteq PacketCalls /\ queued \subseteq Calls /\ inHand \subseteq Calls
         /\ inHand = ToSet(batch) \cup ({following} \ {Nil})
         /\ following \notin PacketCalls
BY MembersOf, NilAssumption, CallsAssumption DEF TypeOK, inHand, queued, Calls

\* A step of the callers that leaves the channel and the driver alone.
LEMMA CallerStep ==
  ASSUME Inv, NEW c \in Calls,
         Call(c) \/ Wait(c) \/ EndContext(c) \/ GiveUp(c) \/ TakeResponse(c) \/ Reach(c)
  PROVE  Inv'
<1>0. TypeOK /\ InOnePlace /\ DriverAgrees /\ callOK(c)
  BY CallByCall
<1> USE DEF driverVars, guestVars
<1>1. /\ UNCHANGED <<commands, driver, batch, sent, accepted, following, guest, running, stopped,
                     closeRequested, done>>
      /\ \A b \in Calls \ {c} : /\ caller'[b] = caller[b] /\ outcome'[b] = outcome[b]
                               /\ response'[b] = response[b]
  BY <1>0 DEF Call, Wait, EndContext, GiveUp, TakeResponse, Reach, return, TypeOK
<1>2. queued' = queued /\ inHand' = inHand
  BY <1>1 DEF queued, inHand
<1>3. TypeOK'
  <2>1. /\ caller' \in [Calls -> CallerStates] /\ outcome' \in [Calls -> Outcomes]
        /\ response' \in [Calls -> {"none", "ok", "error"}]
    BY <1>0 DEF Call, Wait, EndContext, GiveUp, TakeResponse, Reach, return, TypeOK, CallerStates,
                Outcomes
  <2> QED
    BY <1>0, <1>1, <2>1 DEF TypeOK
<1>4. InOnePlace' /\ DriverAgrees'
  BY <1>0, <1>1, <1>2 DEF InOnePlace, DriverAgrees
<1>5. callOK(c)'
  <2>1. CASE Call(c) \/ Wait(c)
    <3>1. caller[c] = "idle" /\ caller'[c] \in {"sending", "awaiting", "returned"} /\ response' = response
      BY <1>0, <2>1 DEF Call, Wait, return, TypeOK
    <3> QED
      BY <1>0, <1>1, <1>2, <3>1 DEF callOK, inHand
  <2>2. CASE EndContext(c) \/ Reach(c)
    <3>1. /\ caller[c] \in {"sending", "awaiting", "waiting"} /\ caller'[c] = "returned"
          /\ response' = response /\ (caller[c] = "waiting" => c \notin PacketCalls)
      BY <1>0, <2>2 DEF EndContext, heedsContext, Reach, return, TypeOK
    <3> QED
      BY <1>0, <1>1, <1>2, <3>1 DEF callOK, inHand
  <2>3. CASE GiveUp(c)
    <3>1. /\ caller[c] \in {"sending", "awaiting", "waiting"} /\ caller'[c] = "returned"
          /\ response' = response /\ (caller[c] = "waiting" => c \notin PacketCalls \/ done)
      BY <1>0, <2>3 DEF GiveUp, heedsClose, return, TypeOK
    <3>2. done => batch = <<>>
      BY <1>0 DEF DriverAgrees
    <3> QED
      BY <1>0, <1>1, <1>2, <3>1, <3>2, NoMembers DEF callOK, inHand
  <2>4. CASE TakeResponse(c)
    <3>1. /\ caller[c] = "waiting" /\ response[c] # "none" /\ response'[c] = "none"
          /\ caller'[c] \in {"returned", "awaiting"}
      BY <1>0, <2>4 DEF TakeResponse, return, TypeOK
    <3> QED
      BY <1>0, <1>1, <1>2, <3>1 DEF callOK, inHand
  <2> QED
    BY <2>1, <2>2, <2>3, <2>4
<1>6. ASSUME NEW b \in Calls, b # c
      PROVE  callOK(b)'
  <2>1. callOK(b)
    BY CallByCall
  <2> QED
    BY <1>1, <1>2, <1>6, <2>1 DEF callOK
<1> QED
  BY <1>3, <1>4, <1>5, <1>6, CallByCallNext

\* A command enters the channel: it was nowhere before.
LEMMA EnqueueStep ==
  ASSUME Inv, NEW c \in Calls, Enqueue(c)
  PROVE  Inv'
<1>0. TypeOK /\ InOnePlace /\ DriverAgrees /\ callOK(c)
  BY CallByCall
<1>1. /\ caller[c] = "sending" /\ commands' = Append(commands, c) /\ Len(commands) < queueCapacity
      /\ caller' = [caller EXCEPT ![c] = "waiting"]
      /\ UNCHANGED <<outcome, response, driver, batch, sent, accepted, following, guest, running,
                     stopped, closeRequested, done>>
  BY DEF Enqueue, driverVars, guestVars
<1>2. c \notin queued \cup inHand /\ response[c] = "none"
  BY <1>0, <1>1 DEF callOK
<1>3. /\ commands' \in Seq(Calls) /\ Len(commands') = Len(commands) + 1
      /\ queued' = queued \cup {c}
      /\ \A i, j \in DOMAIN commands' : commands'[i] = commands'[j] => i = j
  <2>1. commands \in Seq(Calls) /\ c \notin ToSet(commands)
    BY <1>0, <1>2 DEF TypeOK, queued
  <2>2. \A i, j \in DOMAIN commands : commands[i] = commands[j] => i = j
    BY <1>0 DEF InOnePlace
  <2> QED
    BY <1>1, <2>1, <2>2, Appended DEF queued
<1>4. inHand' = inHand
  BY <1>1 DEF inHand
<1>5. TypeOK'
  <2>1. Len(commands') <= queueCapacity
    <3>1. Len(commands) \in Nat
      BY <1>0, LenProperties DEF TypeOK
    <3> QED
      BY <1>1, <1>3, <3>1, CapacityAssumption
  <2>2. caller' \in [Calls -> CallerStates]
    BY <1>0, <1>1 DEF TypeOK, CallerStates
  <2> QED
    BY <1>0, <1>1, <1>3, <2>1, <2>2 DEF TypeOK
<1>6. InOnePlace' /\ DriverAgrees'
  BY <1>0, <1>1, <1>2, <1>3, <1>4 DEF InOnePlace, DriverAgrees
<1>7. ASSUME NEW b \in Calls
      PROVE  callOK(b)'
  <2>1. callOK(b) /\ caller'[b] = IF b = c THEN "waiting" ELSE caller[b]
    BY <1>0, <1>1, CallByCall DEF TypeOK
  <2> QED
    BY <1>1, <1>2, <1>3, <1>4, <2>1 DEF callOK
<1> QED
  BY <1>5, <1>6, <1>7, CallByCallNext

\* The driver takes commands out of the channel into its hands: nothing is lost or
\* in two places, and only packets are in the batch.
LEMMA ReceiveStep ==
  ASSUME Inv, Receive
  PROVE  Inv'
<1>0. TypeOK /\ InOnePlace /\ DriverAgrees
  BY CallByCall
<1>1. /\ driver = "selecting" /\ commands # <<>>
      /\ UNCHANGED <<caller, outcome, response, sent, accepted, guest, running, stopped,
                     closeRequested, done>>
  BY DEF Receive, callVars, guestVars
<1>2. PICK n \in 0..Len(commands) :
        /\ endsBatch(n)
        /\ batch' = SubSeq(commands, 1, n)
        /\ following' = IF takesFollowing(n) THEN commands[n + 1] ELSE Nil
        /\ commands' = SubSeq(commands, n + (IF takesFollowing(n) THEN 2 ELSE 1), Len(commands))
        /\ driver' = IF n = 0 THEN "following" ELSE "sending"
  BY Zenon DEF Receive
<1> PICK k : k = IF takesFollowing(n) THEN n + 1 ELSE n
  OBVIOUS
<1>3. commands \in Seq(Calls) /\ Len(commands) \in Nat /\ n \in Nat
      /\ k \in {n, n + 1} /\ k <= Len(commands)
  <2>1. commands \in Seq(Calls)
    BY <1>0 DEF TypeOK
  <2>2. Len(commands) \in Nat
    BY <2>1, LenProperties
  <2> QED
    BY <2>1, <2>2 DEF takesFollowing
<1>4. batch = <<>> /\ following = Nil /\ inHand = {} /\ sent = 0 /\ accepted = {}
  BY <1>0, <1>1, NoMembers DEF DriverAgrees, inHand, TypeOK
<1>5. commands' = SubSeq(commands, k + 1, Len(commands))
  <2>1. n + 2 = (n + 1) + 1
    BY <1>3
  <2> QED
    BY <1>2, <2>1
<1>6. /\ batch' \in Seq(Calls) /\ Len(batch') = n
      /\ commands' \in Seq(Calls) /\ Len(commands') = Len(commands) - k
      /\ ToSet(batch') = {commands[i] : i \in 1..n}
      /\ queued = ToSet(batch') \cup queued' \cup {commands[i] : i \in (n + 1)..k}
      /\ ToSet(batch') \cap queued' = {}
      /\ \A i \in (n + 1)..k : commands[i] \notin ToSet(batch') /\ commands[i] \notin queued'
      /\ \A i, j \in DOMAIN commands' : commands'[i] = commands'[j] => i = j
  <2>1. \A i, j \in DOMAIN commands : commands[i] = commands[j] => i = j
    BY <1>0 DEF InOnePlace
  <2>2. batch' = SubSeq(commands, 1, n) /\ commands' = SubSeq(commands, k + 1, Len(commands))
    BY <1>2, <1>5
  <2>3. isCut(Calls, commands, n, k, batch', commands')
    BY <1>3, <2>1, <2>2, Cut
  <2> QED
    BY <2>3 DEF isCut, queued
<1>7. /\ following' = IF k = n + 1 THEN commands[n + 1] ELSE Nil
      /\ (n + 1)..k = IF k = n + 1 THEN {n + 1} ELSE {}
      /\ k = n + 1 => n + 1 \in 1..Len(commands)
  <2>1. CASE takesFollowing(n)
    <3>1. k = n + 1 /\ n + 1 \in 1..Len(commands) /\ (n + 1)..(n + 1) = {n + 1}
      BY <1>3, <2>1 DEF takesFollowing
    <3> QED
      BY <1>2, <2>1, <3>1
  <2>2. CASE ~takesFollowing(n)
    <3>1. k = n /\ n # n + 1 /\ (n + 1)..n = {}
      BY <1>3, <2>2
    <3> QED
      BY <1>2, <2>2, <3>1
  <2> QED
    BY <2>1, <2>2
<1>8. batch' \in Seq(PacketCalls) /\ following' \in StartCalls \cup StopCalls \cup {Nil}
  <2>1. \A i \in 1..n : commands[i] \in PacketCalls
    BY <1>2 DEF endsBatch
  <2>2. \A i \in 1..Len(batch') : batch'[i] \in PacketCalls
    <3>1. \A i \in 1..Len(batch') : batch'[i] \in ToSet(batch')
      BY <1>6, LenProperties DEF ToSet
    <3>2. ToSet(batch') \subseteq PacketCalls
      BY <1>6, <2>1, Zenon
    <3> QED
      BY <3>1, <3>2, Zenon
  <2>3. batch' \in Seq(PacketCalls)
    BY <1>6, <2>2
  <2>4. takesFollowing(n) => commands[n + 1] \in StartCalls \cup StopCalls
    BY <1>2, <1>3, <1>7 DEF endsBatch, Calls
  <2> QED
    BY <1>2, <2>3, <2>4
<1>9. k = n + 1 => following' # Nil
  BY <1>3, <1>7, NilAssumption
<1>10. queued = queued' \cup inHand' /\ queued' \cap inHand' = {}
  <2>1. inHand' = ToSet(batch') \cup ({following'} \ {Nil})
    BY DEF inHand
  <2>2. CASE k = n + 1
    BY <1>6, <1>7, <1>9, <2>1, <2>2
  <2>3. CASE k = n
    <3>1. k # n + 1
      BY <1>3, <2>3
    <3> QED
      BY <1>6, <1>7, <2>1, <3>1
  <2> QED
    BY <1>3, <2>2, <2>3
<1>11. TypeOK'
  <2>1. Len(commands') <= queueCapacity
    <3>1. Len(commands) <= queueCapacity /\ k \in Nat
      BY <1>0, <1>3 DEF TypeOK
    <3> QED
      BY <1>3, <1>6, <3>1, CapacityAssumption
  <2>2. Len(batch') <= maximumPacketIngressBatch /\ sent' \in 0..Len(batch')
    BY <1>1, <1>2, <1>3, <1>4, <1>6 DEF endsBatch
  <2>3. accepted' \subseteq ToSet(batch') /\ driver' \in DriverStates
    BY <1>1, <1>2, <1>4 DEF DriverStates
  <2> QED
    BY <1>0, <1>1, <1>6, <1>8, <2>1, <2>2, <2>3 DEF TypeOK
<1>12. InOnePlace'
  BY <1>6, <1>10 DEF InOnePlace
<1>13. DriverAgrees'
  <2>1. CASE n = 0
    <3>1. batch' = <<>>
      BY <1>6, <2>1, EmptySeq
    <3>2. k = n + 1
      <4>1. Len(commands) # 0
        BY <1>1, <1>3, EmptySeq
      <4> QED
        BY <1>3, <2>1, <4>1, BatchAssumption DEF takesFollowing
    <3> QED
      BY <1>0, <1>1, <1>2, <1>9, <2>1, <3>1, <3>2 DEF DriverAgrees
  <2>2. CASE n # 0
    BY <1>0, <1>1, <1>2, <2>2 DEF DriverAgrees
  <2> QED
    BY <2>1, <2>2
<1>14. ASSUME NEW b \in Calls
       PROVE  callOK(b)'
  <2>1. callOK(b) /\ (b \in queued' \cup inHand' <=> b \in queued \cup inHand)
    BY <1>4, <1>10, CallByCall
  <2>2. b \in ToSet(batch') => b \in queued /\ ~done
    BY <1>0, <1>1, <1>6 DEF DriverAgrees
  <2>3. b \in queued' => b \in queued
    BY <1>10
  <2>4. ~(driver \in {"exiting", "returned"}) /\ ~(driver' \in {"exiting", "returned"})
    BY <1>1, <1>2
  <2> QED
    BY <1>0, <1>1, <2>1, <2>2, <2>3, <2>4 DEF callOK, DriverAgrees
<1> QED
  BY <1>11, <1>12, <1>13, <1>14, CallByCallNext

\* A drive leaves the guest in one of its states.
LEMMA DrivenIsTyped ==
  ASSUME NEW g \in GuestStates, NEW driveErr, driven(g, driveErr),
         running \in BOOLEAN, stopped \in BOOLEAN
  PROVE  guest' \in GuestStates /\ running' \in BOOLEAN /\ stopped' \in BOOLEAN
<1>1. CASE drive(g)
  <2>1. Progress(g) \subseteq GuestStates
    BY DEF Progress, GuestStates
  <2> QED
    BY <1>1, <2>1 DEF drive
<1>2. CASE ~drive(g)
  BY <1>2 DEF driven
<1> QED
  BY <1>1, <1>2

\* A step of the driver that answers nobody and takes no command.
LEMMA DriverStep ==
  ASSUME Inv, sendPacket \/ (\E driveErr \in BOOLEAN : Wakeup(driveErr)) \/ SeesClose \/ finish
  PROVE  Inv'
<1>0. TypeOK /\ InOnePlace /\ DriverAgrees
  BY CallByCall
<1>1. UNCHANGED <<caller, outcome, commands, response, batch, following, closeRequested>>
  BY DEF sendPacket, Wakeup, SeesClose, finish, callVars, guestVars
<1>2. queued' = queued /\ inHand' = inHand
  BY <1>1 DEF queued, inHand
<1>3. /\ driver' \in DriverStates
      /\ driver' \notin {"sending", "driving"} => batch = <<>>
      /\ driver' = "selecting" => following = Nil
      /\ driver' # "following"
      /\ done' <=> driver' = "returned"
      /\ done => done'
      /\ driver \in {"exiting", "returned"} => driver' \in {"exiting", "returned"}
  <2>1. CASE sendPacket
    BY <1>0, <2>1 DEF sendPacket, DriverAgrees, DriverStates
  <2>2. CASE \E driveErr \in BOOLEAN : Wakeup(driveErr)
    BY <1>0, <2>2 DEF Wakeup, DriverAgrees, DriverStates
  <2>3. CASE SeesClose
    BY <1>0, <2>3 DEF SeesClose, DriverAgrees, DriverStates
  <2>4. CASE finish
    BY <1>0, <2>4 DEF finish, DriverAgrees, DriverStates
  <2> QED
    BY <2>1, <2>2, <2>3, <2>4
<1>4. guest' \in GuestStates /\ running' \in BOOLEAN /\ stopped' \in BOOLEAN /\ done' \in BOOLEAN
  <2>1. CASE \E driveErr \in BOOLEAN : Wakeup(driveErr)
    <3>1. PICK driveErr \in BOOLEAN : driven(guest, driveErr) /\ done' = done
      BY <2>1 DEF Wakeup
    <3> QED
      BY <1>0, <3>1, DrivenIsTyped DEF TypeOK
  <2>2. CASE ~\E driveErr \in BOOLEAN : Wakeup(driveErr)
    BY <1>0, <2>2 DEF sendPacket, SeesClose, finish, guestVars, TypeOK
  <2> QED
    BY <2>1, <2>2
<1>5. sent' \in 0..Len(batch) /\ accepted' \subseteq ToSet(batch)
  <2>1. CASE sendPacket
    <3>1. sent \in Nat /\ Len(batch) \in Nat /\ sent < Len(batch)
      BY <1>0, <2>1, LenProperties DEF TypeOK, sendPacket
    <3>2. sent + 1 \in 1..Len(batch) /\ sent + 1 \in 0..Len(batch)
      BY <3>1
    <3>3. batch[sent + 1] \in ToSet(batch)
      BY <1>0, <3>2, MembersOf DEF TypeOK
    <3> QED
      BY <1>0, <2>1, <3>2, <3>3 DEF TypeOK, sendPacket
  <2>2. CASE ~sendPacket
    <3>1. sent' = sent /\ accepted' = accepted
      BY <2>2 DEF Wakeup, SeesClose, finish
    <3> QED
      BY <1>0, <3>1 DEF TypeOK
  <2> QED
    BY <2>1, <2>2
<1>6. TypeOK'
  BY <1>0, <1>1, <1>3, <1>4, <1>5 DEF TypeOK
<1>7. InOnePlace' /\ DriverAgrees'
  BY <1>0, <1>1, <1>2, <1>3 DEF InOnePlace, DriverAgrees
<1>8. ASSUME NEW b \in Calls
      PROVE  callOK(b)'
  <2>1. callOK(b)
    BY CallByCall
  <2> QED
    BY <1>1, <1>2, <1>3, <2>1 DEF callOK
<1> QED
  BY <1>6, <1>7, <1>8, CallByCallNext

\* The batch is answered, every packet of it.
LEMMA FinishBatchStep ==
  ASSUME Inv, NEW driveErr \in BOOLEAN, finishBatch(driveErr)
  PROVE  Inv'
<1>0. TypeOK /\ InOnePlace /\ DriverAgrees
  BY CallByCall
<1>1. /\ driver = "driving" /\ response' = answers(driveErr)
      /\ batch' = <<>> /\ sent' = 0 /\ accepted' = {}
      /\ driver' = IF driveErr THEN "exiting" ELSE IF following = Nil THEN "selecting" ELSE "following"
      /\ UNCHANGED <<caller, outcome, commands, following, closeRequested, done>>
  BY DEF finishBatch, callVars
<1>2. queued' = queued
  BY <1>1 DEF queued
<1>3. inHand' = inHand \ ToSet(batch) /\ inHand = ToSet(batch) \cup inHand'
  BY <1>0, <1>1, InHand, NoMembers DEF inHand
<1>4. guest' \in GuestStates /\ running' \in BOOLEAN /\ stopped' \in BOOLEAN
  <2>1. CASE accepted = {}
    BY <1>0, <2>1 DEF finishBatch, guestVars, TypeOK
  <2>2. CASE accepted # {}
    <3>1. driven(guest, driveErr)
      BY <2>2 DEF finishBatch
    <3> QED
      BY <1>0, <3>1, DrivenIsTyped DEF TypeOK
  <2> QED
    BY <2>1, <2>2
<1>5. \A b \in Calls : response'[b] = IF b \notin ToSet(batch) THEN response[b]
                                      ELSE IF b \in accepted /\ ~driveErr THEN "ok" ELSE "error"
  BY <1>1 DEF answers
<1>6. TypeOK'
  <2>1. response' \in [Calls -> {"none", "ok", "error"}]
    BY <1>0, <1>1 DEF answers, TypeOK
  <2>2. batch' \in Seq(PacketCalls) /\ Len(batch') <= maximumPacketIngressBatch /\ sent' \in 0..Len(batch')
    BY <1>1, EmptySeq, BatchAssumption
  <2>3. driver' \in DriverStates /\ accepted' \subseteq ToSet(batch')
    BY <1>1 DEF DriverStates
  <2> QED
    BY <1>0, <1>1, <1>4, <2>1, <2>2, <2>3 DEF TypeOK
<1>7. InOnePlace' /\ DriverAgrees'
  BY <1>0, <1>1, <1>2, <1>3 DEF InOnePlace, DriverAgrees
<1>8. ASSUME NEW b \in Calls
      PROVE  callOK(b)'
  <2>1. callOK(b)
    BY CallByCall
  <2>2. b \in ToSet(batch) => b \in inHand /\ b \notin queued /\ b \notin inHand' /\ response'[b] # "none"
    BY <1>0, <1>3, <1>5 DEF InOnePlace
  <2>3. b \notin ToSet(batch) => response'[b] = response[b] /\ (b \in inHand' <=> b \in inHand)
    BY <1>3, <1>5
  <2>4. b \notin ToSet(batch')
    BY <1>1, NoMembers
  <2>5. ~(driver \in {"exiting", "returned"}) /\ (done <=> done')
    BY <1>1
  <2>6. CASE b \in ToSet(batch)
    BY <1>1, <1>2, <2>1, <2>2, <2>4, <2>5, <2>6 DEF callOK
  <2>7. CASE b \notin ToSet(batch)
    BY <1>1, <1>2, <2>1, <2>3, <2>4, <2>5, <2>7 DEF callOK
  <2> QED
    BY <2>6, <2>7
<1> QED
  BY <1>6, <1>7, <1>8, CallByCallNext

\* The command by itself is answered, refused or served.
LEMMA ServeStep ==
  ASSUME Inv, refuse \/ (\E driveErr \in BOOLEAN : serve(driveErr))
  PROVE  Inv'
<1>0. TypeOK /\ InOnePlace /\ DriverAgrees
  BY CallByCall
<1>1. /\ driver = "following" /\ following' = Nil
      /\ driver' \in {"exiting", "selecting"}
      /\ UNCHANGED <<caller, outcome, commands, batch, sent, accepted, closeRequested, done>>
  BY DEF refuse, serve, callVars
<1>2. PICK answer \in {"ok", "error"} : response' = [response EXCEPT ![following] = answer]
  BY DEF refuse, serve
<1>3. batch = <<>> /\ following \in Calls /\ inHand = {following} /\ inHand' = {}
  BY <1>0, <1>1, NoMembers DEF DriverAgrees, TypeOK, inHand, Calls
<1>4. queued' = queued /\ following \notin queued
  BY <1>0, <1>1, <1>3 DEF queued, InOnePlace
<1>5. guest' \in GuestStates /\ running' \in BOOLEAN /\ stopped' \in BOOLEAN
  <2>1. CASE refuse
    BY <1>0, <2>1 DEF refuse, guestVars, TypeOK
  <2>2. CASE \E driveErr \in BOOLEAN : serve(driveErr)
    <3>1. PICK driveErr \in BOOLEAN : serve(driveErr)
      BY <2>2
    <3>2. PICK g \in started(following) : driven(g, driveErr)
      BY <3>1 DEF serve
    <3>3. g \in GuestStates
      BY <3>2 DEF started, GuestStates
    <3> QED
      BY <1>0, <3>2, <3>3, DrivenIsTyped DEF TypeOK
  <2> QED
    BY <2>1, <2>2
<1>6. TypeOK'
  BY <1>0, <1>1, <1>2, <1>5 DEF TypeOK, DriverStates
<1>7. InOnePlace' /\ DriverAgrees'
  BY <1>0, <1>1, <1>3, <1>4 DEF InOnePlace, DriverAgrees
<1>8. ASSUME NEW b \in Calls
      PROVE  callOK(b)'
  <2>1. callOK(b) /\ response'[b] = IF b = following THEN answer ELSE response[b]
    BY <1>0, <1>2, <1>3, CallByCall DEF TypeOK
  <2> QED
    BY <1>1, <1>2, <1>3, <1>4, <2>1 DEF callOK
<1> QED
  BY <1>6, <1>7, <1>8, CallByCallNext

LEMMA NextInv == ASSUME Inv, [Next]_vars
                 PROVE  Inv'
<1>1. CASE \E c \in Calls : Call(c) \/ Wait(c) \/ EndContext(c) \/ Enqueue(c) \/ Step(c)
  BY <1>1, CallerStep, EnqueueStep DEF Step
<1>2. CASE Close
  <2>1. /\ UNCHANGED <<caller, outcome, commands, response, driver, batch, sent, accepted, following,
                       guest, running, stopped, done>>
        /\ closeRequested' \in BOOLEAN
    BY <1>2 DEF Close, callVars, driverVars, guestVars
  <2>2. queued' = queued /\ inHand' = inHand
    BY <2>1 DEF queued, inHand
  <2>3. TypeOK' /\ InOnePlace' /\ DriverAgrees'
    BY <2>1, <2>2, CallByCall DEF TypeOK, InOnePlace, DriverAgrees
  <2>4. ASSUME NEW b \in Calls
        PROVE  callOK(b)'
    BY <2>1, <2>2, CallByCall DEF callOK
  <2> QED
    BY <2>3, <2>4, CallByCallNext
<1>3. CASE Receive
  BY <1>3, ReceiveStep
<1>4. CASE Serves
  BY <1>4, DriverStep, FinishBatchStep, ServeStep DEF Serves
<1>5. CASE (\E driveErr \in BOOLEAN : Wakeup(driveErr)) \/ SeesClose \/ finish
  BY <1>5, DriverStep
<1>6. CASE Terminated \/ UNCHANGED vars
  <2>1. UNCHANGED <<caller, outcome, commands, response, driver, batch, sent, accepted, following,
                    guest, running, stopped, closeRequested, done>>
    BY <1>6 DEF Terminated, vars, callVars, driverVars, guestVars
  <2>2. queued' = queued /\ inHand' = inHand
    BY <2>1 DEF queued, inHand
  <2>3. TypeOK' /\ InOnePlace' /\ DriverAgrees'
    BY <2>1, <2>2, CallByCall DEF TypeOK, InOnePlace, DriverAgrees
  <2>4. ASSUME NEW b \in Calls
        PROVE  callOK(b)'
    BY <2>1, <2>2, CallByCall DEF callOK
  <2> QED
    BY <2>3, <2>4, CallByCallNext
<1> QED
  BY <1>1, <1>2, <1>3, <1>4, <1>5, <1>6 DEF Next

-----------------------------------------------------------------------------

\* The callers, the channel and the driver agree, and packets stay lent: for any
\* calls of Start, Stop, Wait and SendPacket, whatever the bounds of the channel
\* and of a batch.
THEOREM Invariance == Spec => []Inv
<1>1. Init => Inv
  BY InitInv
<1>2. Inv /\ [Next]_vars => Inv'
  BY NextInv
<1> QED
  BY <1>1, <1>2, PTL DEF Spec

\* A command that waits is queued, in hand, answered, or will hear of the end, and
\* there is always room for its answer.
THEOREM Consistency == Spec => []Consistent
BY Invariance, PTL DEF Inv

\* SendPacket does not return while the guest may still use the caller's buffer.
THEOREM PacketsAreLent == Spec => []BorrowHolds
BY Invariance, PTL DEF Inv

\* The driver finds the response channel, which holds one answer, empty when it
\* answers: its send never blocks, and an answer is taken by its own call or stays.
AnswersWait ==
  \A c \in Calls :
    response[c] # "none" =>
      \/ response'[c] = response[c]
      \/ caller[c] = "waiting" /\ caller'[c] # "waiting" /\ response'[c] = "none"

LEMMA StepKeepsAnswers == Inv /\ [Next]_vars => AnswersWait
<1> SUFFICES ASSUME Inv, [Next]_vars, NEW c \in Calls, response[c] # "none"
             PROVE  \/ response'[c] = response[c]
                    \/ caller[c] = "waiting" /\ caller'[c] # "waiting" /\ response'[c] = "none"
  BY Zenon DEF AnswersWait
<1>1. TypeOK /\ DriverAgrees /\ c \notin inHand
  BY CallByCall DEF callOK
<1>2. CASE UNCHANGED response
  BY <1>2
<1>3. CASE \E b \in Calls : TakeResponse(b)
  <2>1. PICK b \in Calls : TakeResponse(b)
    BY <1>3
  <2>2. CASE b = c
    BY <1>1, <2>1, <2>2 DEF TakeResponse, return, TypeOK
  <2>3. CASE b # c
    BY <1>1, <2>1, <2>3 DEF TakeResponse, TypeOK
  <2> QED
    BY <2>2, <2>3
<1>4. CASE \E driveErr \in BOOLEAN : finishBatch(driveErr)
  BY <1>1, <1>4 DEF finishBatch, answers, inHand
<1>5. CASE refuse \/ \E driveErr \in BOOLEAN : serve(driveErr)
  <2>1. driver = "following"
        /\ \E answer \in {"ok", "error"} : response' = [response EXCEPT ![following] = answer]
    BY <1>5 DEF refuse, serve
  <2>2. following # c
    BY <1>1, <2>1 DEF DriverAgrees, inHand
  <2> QED
    BY <1>1, <2>1, <2>2 DEF TypeOK
<1>6. \/ UNCHANGED response
      \/ \E b \in Calls : TakeResponse(b)
      \/ \E driveErr \in BOOLEAN : finishBatch(driveErr)
      \/ refuse \/ \E driveErr \in BOOLEAN : serve(driveErr)
  BY Zenon DEF Next, Step, Serves, Call, Wait, EndContext, Enqueue, GiveUp, Reach, Close, Receive,
               sendPacket, Wakeup, SeesClose, finish, Terminated, vars
<1> QED
  BY <1>2, <1>3, <1>4, <1>5, <1>6

\* No answer overwrites another, and none is lost before its call has seen it.
THEOREM DriverNeverBlocks == Spec => [][AnswersWait]_vars
<1>1. Inv /\ [Next]_vars => [AnswersWait]_vars
  BY StepKeepsAnswers
<1> QED
  BY <1>1, Invariance, PTL DEF Spec

=============================================================================
