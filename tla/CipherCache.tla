----------------------------- MODULE CipherCache -----------------------------
(***************************************************************************)
(* The AES-GCM functions the guest imports (internal/hostabi/crypto.go):   *)
(* a cache of ciphers by algorithm and key, and the checks before sealing  *)
(* and opening in the guest's memory.                                      *)
(*                                                                         *)
(* Data.  A key is a record of its bytes and its length; the cipher for a  *)
(* key is the pair of algorithm and key it was made for.  The cache is a   *)
(* record, as the Go struct is.                                            *)
(***************************************************************************)
EXTENDS Integers, Sequences, FiniteSets, SequencesExt

CONSTANTS
  Capacity,  \* aeadCacheCapacity
  MaxUint32, \* 2^32 - 1
  None       \* Go's nil

emptyCache == [entries |-> <<>>, order |-> [i \in 0 .. Capacity - 1 |-> None], size |-> 0, next |-> 0]

validKey(algorithm, key) ==
  (algorithm = 1 /\ key.length = 16) \/ (algorithm = 2 /\ key.length = 32)

\* aes.NewCipher and cipher.NewGCM: the cipher of this algorithm and key.
newCipher(algorithm, key) == [algorithm |-> algorithm, key |-> key]

\* The key under which a cipher is kept: the bytes, padded to 32, and the
\* algorithm, which tells their length.
cacheKey(algorithm, key) == <<algorithm, key.bytes>>

drop(entries, k) == [x \in DOMAIN entries \ {k} |-> entries[x]]
put(entries, k, v) == [x \in DOMAIN entries \cup {k} |-> IF x = k THEN v ELSE entries[x]]

\* get: the cipher, and the cache after the call.  The oldest entry makes room.
get(cache, algorithm, key) ==
  LET k == cacheKey(algorithm, key)
  IN IF ~validKey(algorithm, key) THEN [cipher |-> None, cache |-> cache]
     ELSE IF k \in DOMAIN cache.entries THEN [cipher |-> cache.entries[k], cache |-> cache]
     ELSE LET made == newCipher(algorithm, key)
          IN [cipher |-> made,
              cache  |->
                IF cache.size < Capacity
                THEN [cache EXCEPT !.order[cache.size] = k,
                                   !.size = @ + 1,
                                   !.entries = put(@, k, made)]
                ELSE [cache EXCEPT !.order[cache.next] = k,
                                   !.next = (@ + 1) % Capacity,
                                   !.entries = put(drop(@, cache.order[cache.next]), k, made)]]

-----------------------------------------------------------------------------

overhead  == 16
nonceSize == 12

\* cryptoAEADInputs: what seal and open need, or nothing.
inputsOK(cipher, nonceLength, mem) == cipher # None /\ nonceLength = nonceSize /\ mem

\* The buffer both work in: textLength + overhead, without wrapping around.
bufferLength(textLength) == (textLength + overhead) % (MaxUint32 + 1)

\* cryptoAEADSeal; readable says which lengths of memory the guest owns.
cryptoAEADSeal(cipher, nonceLength, mem, textLength, owned) ==
  IF \/ ~inputsOK(cipher, nonceLength, mem)
     \/ textLength > MaxUint32 - overhead
     \/ bufferLength(textLength) > owned
  THEN [status |-> "fallback", touched |-> 0]
  ELSE [status |-> "ok", touched |-> textLength + overhead]

\* cryptoAEADOpen: the same, and what was sealed with another key, nonce or text
\* is refused.
cryptoAEADOpen(cipher, nonceLength, mem, textLength, owned, authentic) ==
  LET r == cryptoAEADSeal(cipher, nonceLength, mem, textLength, owned)
  IN IF r.status = "ok" /\ ~authentic THEN [r EXCEPT !.status = "authFailed"] ELSE r

=============================================================================
