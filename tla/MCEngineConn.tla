---------------------------- MODULE MCEngineConn ----------------------------
(* EngineConn with three goroutines: two readers or writers and a closer,  *)
(* or three closers.                                                       *)
EXTENDS EngineConn, EngineErrors

CONSTANTS c1, c2, c3

Role(a, b, c) == [x \in {c1, c2, c3} |-> IF x = c1 THEN a ELSE IF x = c2 THEN b ELSE c]

MCRoles == {Role("read", "read", "close"), Role("write", "write", "close"),
            Role("close", "close", "close")}

\* A timeout is over no earlier than its deadline and less than a millisecond
\* later, and an expired deadline is the only one without time.
ASSUME TimeoutsRoundUp ==
  \A remaining \in -2 .. 10 :
    LET millis == resourceDeadlineTimeoutMillis(remaining)
    IN  /\ (millis = 0) <=> (remaining <= 0)
        /\ remaining > 0 => /\ millis * Millisecond >= remaining
                            /\ (millis - 1) * Millisecond < remaining
        /\ timeoutFromDeadline(remaining).millis = millis
        /\ (timeoutFromDeadline(remaining).err = "nil") <=> (remaining > 0)

\* A guest that has a deadline is driven when it has passed, never before, unless
\* that is further away than a timer can be set to.
ASSUME TimersAreNotEarly ==
  \A MaxInt64 \in 15 .. 24 : \A deadline \in 0 .. MaxInt64 :
    LET timer == deadlineTimer(deadline, MaxInt64)
    IN  IF deadline = MaxInt64 THEN timer = NoDeadline
        ELSE timer = deadline * Millisecond
             \/ (timer = MaxInt64 /\ deadline * Millisecond > MaxInt64)

\* However a deadline passes (on the way to the guest, in it, or in the caller's
\* context), the caller gets the same error.
ASSUME OneDeadlineError ==
  /\ \A remaining \in -2 .. 0 :
       normalizeDeadlineError(contextTimeoutMillis("nil", remaining).err) = mapDataPlaneError(2)
  /\ normalizeDeadlineError(contextTimeoutMillis("context.DeadlineExceeded", 5).err) = mapDataPlaneError(2)
  /\ contextTimeoutMillis("nil", NoDeadline) = Result(MaxUint64, "nil")

\* Only an I/O error, or a kind that does not exist, is passed on as it is.
ASSUME ErrorsAreMapped ==
  {k \in 1 .. 14 : mapDataPlaneError(k) = "DataPlaneError"} = {12, 14}

\* A datagram is sent to IPv4 addresses only, in whichever form.
ASSUME OnlyIPv4 ==
  \A address \in [type : {"nil", "UDPAddr", "TCPAddr"}, is4 : BOOLEAN, mapped : BOOLEAN] :
    LET peer == udpAddrPort(address)
    IN  /\ peer.err <=> ~peer.is4
        /\ (address.type = "UDPAddr" /\ address.is4) => ~peer.err

=============================================================================
