------------------------------- MODULE CoreWire -------------------------------
(***************************************************************************)
(* The records the guest writes for the data plane, as the functions of    *)
(* internal/coreabi/dataplane_wire.go read and write them, and the error   *)
(* kinds and operation kinds of dataplane.go.                              *)
(*                                                                         *)
(* Data.  A record is not a string of bytes but the fields the code tells  *)
(* apart; a run of bytes that only has to be zero is one field, 0 when it  *)
(* is.  A host address stands for itself.  Wrong is what a function that   *)
(* returns an error returns.                                               *)
(***************************************************************************)
EXTENDS Integers, Sequences

CONSTANT Wrong

socketAddressLength       == 27
operationIDLength         == 8
completionLength          == 12
streamResultLength        == 8 + 2 * socketAddressLength
bindResultLength          == 8 + socketAddressLength
tcpReadMetadataLength     == 1
udpReceiveMetadataLength  == socketAddressLength + 1
maxDataPlaneTransferBytes == 1024 * 1024

\* OperationKind and ErrorKind, numbered as in the code.
OperationTCPConnect == 1
OperationTCPBind    == 2
OperationTCPAccept  == 3
OperationTCPRead    == 4
OperationTCPWrite   == 5
OperationUDPBind    == 6
OperationUDPReceive == 7
OperationUDPSend    == 8
ErrorNone           == 0
ErrorBufferTooSmall == 13

valid(kind) == kind \in OperationTCPConnect .. OperationUDPSend

validCompletionStatus(status) == status <= ErrorBufferTooSmall

-----------------------------------------------------------------------------

\* An address of the program is [ip, port, is4]; is4 is also false for the
\* zero AddrPort, which is not valid.
encodeSocketAddress(address) ==
  IF ~address.is4 THEN Wrong
  ELSE [family |-> 4, ip |-> address.ip, padding |-> 0, port |-> address.port, metadata |-> 0]

decodeSocketAddress(wire) ==
  IF wire.family # 4 \/ wire.padding # 0 \/ wire.metadata # 0 THEN Wrong
  ELSE [ip |-> wire.ip, port |-> wire.port, is4 |-> TRUE]

\* One bad entry makes the whole batch an error.
decodeCompletions(wire) ==
  IF \E i \in DOMAIN wire :
       \/ wire[i].operation = 0
       \/ ~valid(wire[i].kind)
       \/ ~validCompletionStatus(wire[i].status)
  THEN Wrong
  ELSE wire

decodeStreamResult(wire) ==
  LET local == decodeSocketAddress(wire.local)
      peer  == decodeSocketAddress(wire.peer)
  IN IF wire.resource = 0 \/ local = Wrong \/ peer = Wrong THEN Wrong
     ELSE [resource |-> wire.resource, local |-> local, peer |-> peer]

decodeBindResult(wire) ==
  LET local == decodeSocketAddress(wire.local)
  IN IF wire.resource = 0 \/ local = Wrong THEN Wrong
     ELSE [resource |-> wire.resource, local |-> local]

=============================================================================
