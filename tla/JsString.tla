------------------------------ MODULE JsString ------------------------------
(***************************************************************************)
(* The JavaScript string built-ins the barcode plugin relies on, over      *)
(* strings represented as sequences of character codes.  These are the     *)
(* platform's semantics (ECMAScript), not code of the repository.          *)
(***************************************************************************)
EXTENDS Integers, Sequences

\* Concatenation of a sequence of strings ('+=' in a loop).  Split in
\* halves so that the recursion is only logarithmically deep.
RECURSIVE Concat(_)
Concat(seqs) ==
    IF Len(seqs) = 0 THEN <<>>
    ELSE IF Len(seqs) = 1 THEN seqs[1]
    ELSE LET h == Len(seqs) \div 2
         IN Concat(SubSeq(seqs, 1, h)) \o Concat(SubSeq(seqs, h + 1, Len(seqs)))

\* Character codes String.replace gives a meaning after '$'.
Dollar == 36
Ampersand == 38
Backtick == 96
Quote == 39

(* GetSubstitution: the replacement string of String.prototype.replace     *)
(* with '$$', '$&', '$`' and "$'" expanded.  The plugin's patterns have no *)
(* capture groups, so '$n' stays literal.                                  *)
RECURSIVE Expand(_, _, _, _)
Expand(repl, matched, before, after) ==
    IF repl = <<>> THEN <<>>
    ELSE IF Head(repl) = Dollar /\ Len(repl) >= 2
         THEN LET rest == Expand(Tail(Tail(repl)), matched, before, after)
              IN CASE repl[2] = Dollar    -> <<Dollar>> \o rest
                   [] repl[2] = Ampersand -> matched \o rest
                   [] repl[2] = Backtick  -> before \o rest
                   [] repl[2] = Quote     -> after \o rest
                   [] OTHER -> <<Dollar>> \o Expand(Tail(repl), matched, before, after)
         ELSE <<Head(repl)>> \o Expand(Tail(repl), matched, before, after)

\* Index of the first occurrence of pat in s, 0 if none.
FirstMatch(s, pat) ==
    LET RECURSIVE Scan(_)
        Scan(i) == IF i + Len(pat) - 1 > Len(s) THEN 0
                   ELSE IF SubSeq(s, i, i + Len(pat) - 1) = pat THEN i
                   ELSE Scan(i + 1)
    IN Scan(1)

\* s.replace(/pat/, repl): the first match only.
ReplaceFirst(s, pat, repl) ==
    LET i == FirstMatch(s, pat)
        before == SubSeq(s, 1, i - 1)
        after == SubSeq(s, i + Len(pat), Len(s))
    IN IF i = 0 THEN s ELSE before \o Expand(repl, pat, before, after) \o after

\* s.replace(/sym/g, bytes) for a one-character pattern.
ReplaceEvery(s, sym, bytes) ==
    Concat([i \in 1..Len(s) |-> IF s[i] = sym THEN bytes ELSE <<s[i]>>])

\* window.btoa: base64 (RFC 4648, '=' padding) as indices into the
\* alphabet 'A'..'Z', 'a'..'z', '0'..'9', '+', '/', with 64 for '='.
Btoa(input) ==
    LET n == Len(input)
        Byte(i) == IF i <= n THEN input[i] ELSE 0
        Value(k) == Byte(3 * k + 1) * 65536 + Byte(3 * k + 2) * 256 + Byte(3 * k + 3)
        Sextet(k, j) ==
            CASE j = 0 -> Value(k) \div 262144
              [] j = 1 -> (Value(k) \div 4096) % 64
              [] j = 2 -> IF n - 3 * k < 2 THEN 64 ELSE (Value(k) \div 64) % 64
              [] j = 3 -> IF n - 3 * k < 3 THEN 64 ELSE Value(k) % 64
    IN [i \in 1..(4 * ((n + 2) \div 3)) |-> Sextet((i - 1) \div 4, (i - 1) % 4)]
=============================================================================
