----------------------------- MODULE EngineErrors -----------------------------
(***************************************************************************)
(* What a connection of internal/engine tells the program about errors and *)
(* asks of the guest as timeouts: dataplane.go, conn.go, packet_conn.go.   *)
(*                                                                         *)
(* Data.  Time is counted in ticks, Millisecond of them in a millisecond.  *)
(* A deadline is the time that remains until it, or NoDeadline for the     *)
(* zero time.                                                              *)
(***************************************************************************)
EXTENDS Integers

CONSTANTS
  Millisecond,   \* ticks
  MaxUint64,     \* no timeout
  NoDeadline     \* the zero time

ASSUME MillisecondAssumption == Millisecond \in Nat \ {0}

\* Rounded up: a timeout that is not over is not 0, and never ends early.
roundUp(remaining) ==
  (remaining \div Millisecond) + IF remaining % Millisecond # 0 THEN 1 ELSE 0

resourceDeadlineTimeoutMillis(remaining) ==
  IF remaining = NoDeadline THEN MaxUint64
  ELSE IF remaining <= 0 THEN 0
  ELSE roundUp(remaining)

Result(millis, err) == [millis |-> millis, err |-> err]

timeoutFromDeadline(remaining) ==
  IF remaining = NoDeadline THEN Result(MaxUint64, "nil")
  ELSE IF remaining <= 0 THEN Result(0, "os.ErrDeadlineExceeded")
  ELSE Result(roundUp(remaining), "nil")

\* A context has an error, a deadline or neither.
contextTimeoutMillis(ctxErr, remaining) ==
  IF ctxErr # "nil" THEN Result(0, ctxErr) ELSE timeoutFromDeadline(remaining)

\* The timer of the driver for the guest's next deadline, in int64 arithmetic: the
\* largest value stands for none, and the product must not wrap around.
deadlineTimer(deadline, MaxInt64) ==
  LET width    == 2 * (MaxInt64 + 1)
      product  == ((deadline * Millisecond + MaxInt64 + 1) % width) - (MaxInt64 + 1)
  IN  IF deadline = MaxInt64 THEN NoDeadline
      ELSE IF deadline > MaxInt64 \div Millisecond THEN MaxInt64
      ELSE product

\* The errors of package context and os are told apart by the standard library.
normalizeDeadlineError(err) ==
  IF err = "context.DeadlineExceeded" THEN "os.ErrDeadlineExceeded" ELSE err

\* Error kinds of the guest (ErrorKind of coreabi) as errors of the standard
\* library; ErrorIO and unknown kinds stay what they are.
mapped ==
  [k \in 1 .. 11 |->
     CASE k = 1        -> "context.Canceled"
       [] k = 2        -> "os.ErrDeadlineExceeded"
       [] k \in {3, 4} -> "net.ErrClosed"
       [] k \in {5, 6} -> "ENETUNREACH"
       [] k = 7        -> "EAFNOSUPPORT"
       [] k = 8        -> "EADDRINUSE"
       [] k = 9        -> "ECONNREFUSED"
       [] k = 10       -> "ENETRESET"
       [] k = 11       -> "ENOBUFS"]

mapDataPlaneError(k) ==
  IF k \in DOMAIN mapped THEN mapped[k]
  ELSE IF k = 13 THEN "EMSGSIZE"
  ELSE "DataPlaneError"

\* An address a datagram is sent to or comes from: [type, is4, mapped], an IPv4
\* address in IPv6 form being mapped.
udpAddrPort(address) ==
  IF address.type # "UDPAddr" THEN [err |-> TRUE, is4 |-> FALSE]
  ELSE LET unmapped == address.is4 \/ address.mapped
       IN [err |-> ~unmapped, is4 |-> unmapped]

=============================================================================
