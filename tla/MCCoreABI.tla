----------------------------- MODULE MCCoreABI -----------------------------
(* CoreABI on a small instance, and the records of CoreWire.               *)
EXTENDS CoreABI, TLC

Symmetry == Permutations(Cores)

MCGuestABI == [version |-> 3, capabilities |-> {"data plane", "tcp", "udp", "more"}, rpc |-> 2]

Fields    == {0, 1}
AddressWires == [family : {4, 6}, ip : Fields, padding : Fields, port : Fields, metadata : Fields]
Addresses == [ip : Fields, port : Fields, is4 : BOOLEAN]

good == [family |-> 4, ip |-> 1, padding |-> 0, port |-> 1, metadata |-> 0]
bad  == [good EXCEPT !.padding = 1]

MCStreamWires == {[resource |-> 1, local |-> good, peer |-> good],
                  [resource |-> 1, local |-> good, peer |-> bad]}
MCBindWires   == {[resource |-> 1, local |-> good], [resource |-> 0, local |-> good]}

\* An address survives the way to the guest and back, and a record is accepted
\* only when it is the one encoding of its address.
ASSUME AddressesAreCanonical ==
  /\ \A a \in Addresses :
       LET w == encodeSocketAddress(a)
       IN  IF a.is4 THEN decodeSocketAddress(w) = a ELSE w = Wrong
  /\ \A w \in AddressWires :
       decodeSocketAddress(w) # Wrong => encodeSocketAddress(decodeSocketAddress(w)) = w

\* A batch is decoded only when every entry of it can be acted on.
ASSUME CompletionsAreChecked ==
  \A n \in 0 .. 2 :
    \A wire \in [1 .. n -> [operation : {0, 1}, kind : {0, 1, 8, 9}, status : {0, 13, 14}]] :
      (decodeCompletions(wire) # Wrong) <=>
        \A i \in 1 .. n : wire[i].operation = 1 /\ wire[i].kind \in {1, 8} /\ wire[i].status # 14

=============================================================================
