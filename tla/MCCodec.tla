------------------------------ MODULE MCCodec ------------------------------
(***************************************************************************)
(* The two byte-level helpers of _createBmp called once each on bounded    *)
(* inputs and compared with reference definitions: _multiByteEncode with   *)
(* the little-endian encoding of its argument, the fallback _encode64 with *)
(* window.btoa.  The byte values cover each bit position and the numbers   *)
(* sit on both sides of every power of 256 the byte counts reach.          *)
(***************************************************************************)
EXTENDS Integers, Sequences, Bmp

VARIABLES
    call,       \* the helper called and its arguments
    result      \* what it returned or threw

vars == <<call, result>>

ByteValues == {0, 1, 36, 85, 170, 255}
ByteStrings == UNION {[1..n -> ByteValues] : n \in 0..4}
Numbers == {0, 1, 255, 256, 65535, 65536, 70000, 16777215, 16777216}

\* TLC's integers are 32-bit: a four-byte call on a number of 2^24 or more
\* would make the loop's 'base' 2^32, so those calls are left out.
Calls ==
    {c \in [fn : {"multiByteEncode"}, number : Numbers, bytes : 0..4] :
        c.bytes < 4 \/ c.number < 16777216}
        \cup [fn : {"encode64"}, input : ByteStrings]

Init ==
    /\ call \in Calls
    /\ result = [done |-> FALSE, thrown |-> FALSE, value |-> <<>>]

\* The call runs to completion and returns or throws.
Return ==
    /\ ~result.done
    /\ result' =
         IF call.fn = "multiByteEncode"
         THEN [done |-> TRUE, thrown |-> MultiByteThrows(call.number, call.bytes),
               value |-> IF MultiByteThrows(call.number, call.bytes) THEN <<>>
                         ELSE MultiByteEncode(call.number, call.bytes)]
         ELSE [done |-> TRUE, thrown |-> FALSE, value |-> Encode64(call.input)]
    /\ UNCHANGED call

Spec == Init /\ [][Return]_vars

FitsIn(n, k) == IF k = 0 THEN n = 0 ELSE n \div 256 ^ (k - 1) < 256

\* _multiByteEncode(number, bytes) throws exactly when number does not fit
\* in 'bytes' bytes, and otherwise returns its little-endian bytes.
MultiByteIsLittleEndian ==
    (result.done /\ call.fn = "multiByteEncode") =>
        /\ result.thrown <=> ~FitsIn(call.number, call.bytes)
        /\ ~result.thrown =>
              result.value = [i \in 1..call.bytes |-> (call.number \div 256 ^ (i - 1)) % 256]

\* The fallback _encode64 returns what window.btoa returns, '=' padding of
\* one- and two-byte remainders included, on every non-empty string (the
\* bitmap it is given is never empty).
Encode64IsBase64 ==
    (result.done /\ call.fn = "encode64" /\ call.input # <<>>) =>
        result.value = Btoa(call.input)
=============================================================================
