---------------------------- MODULE BarcodeCodes ----------------------------
(***************************************************************************)
(* The symbology tables of jquery.barcode.0.3.js and the two encoders of   *)
(* $.barcode._barcodeBMP that turn an element's text into a pixel row.     *)
(*                                                                         *)
(* A JavaScript string is modelled as the sequence of its character codes  *)
(* wherever the code treats it as a string of bytes or symbols (the bar    *)
(* patterns and the pixel row), so that String.replace and the '+='        *)
(* concatenations are modelled by what they do.  The element's text is a   *)
(* sequence of one-character TLA+ strings: it is only ever used to index   *)
(* the tables.                                                             *)
(***************************************************************************)
EXTENDS Integers, Sequences, SequencesExt, JsString

\* The four bar symbols of the 'plain' tables, as their character codes:
\* narrow black 'b', wide black 'B', narrow white 'w', wide white 'W'.
b == 98
B == 66
w == 119
W == 87
Symbols == {b, B, w, W}

\* The two pixel bytes '\x00' and '\x01': palette indices of black and white.
Black == 0
White == 1

\* A run of k equal bytes, e.g. '\x00\x00\x00'.
Run(byte, k) == [i \in 1..k |-> byte]

\* $.barcode.codes.code39.plain: nine symbols per character.
Code39Plain ==
    "0" :> <<b,w,b,W,B,w,B,w,b>> @@ "1" :> <<B,w,b,W,b,w,b,w,B>> @@
    "2" :> <<b,w,B,W,b,w,b,w,B>> @@ "3" :> <<B,w,B,W,b,w,b,w,b>> @@
    "4" :> <<b,w,b,W,B,w,b,w,B>> @@ "5" :> <<B,w,b,W,B,w,b,w,b>> @@
    "6" :> <<b,w,B,W,B,w,b,w,b>> @@ "7" :> <<b,w,b,W,b,w,B,w,B>> @@
    "8" :> <<B,w,b,W,b,w,B,w,b>> @@ "9" :> <<b,w,B,W,b,w,B,w,b>> @@
    "A" :> <<B,w,b,w,b,W,b,w,B>> @@ "B" :> <<b,w,B,w,b,W,b,w,B>> @@
    "C" :> <<B,w,B,w,b,W,b,w,b>> @@ "D" :> <<b,w,b,w,B,W,b,w,B>> @@
    "E" :> <<B,w,b,w,B,W,b,w,b>> @@ "F" :> <<b,w,B,w,B,W,b,w,b>> @@
    "G" :> <<b,w,b,w,b,W,B,w,B>> @@ "H" :> <<B,w,b,w,b,W,B,w,b>> @@
    "I" :> <<b,w,B,w,b,W,B,w,b>> @@ "J" :> <<b,w,b,w,B,W,B,w,b>> @@
    "K" :> <<B,w,b,w,b,w,b,W,B>> @@ "L" :> <<b,w,B,w,b,w,b,W,B>> @@
    "M" :> <<B,w,B,w,b,w,b,W,b>> @@ "N" :> <<b,w,b,w,B,w,b,W,B>> @@
    "O" :> <<B,w,b,w,B,w,b,W,b>> @@ "P" :> <<b,w,B,w,B,w,b,W,b>> @@
    "Q" :> <<b,w,b,w,b,w,B,W,B>> @@ "R" :> <<B,w,b,w,b,w,B,W,b>> @@
    "S" :> <<b,w,B,w,b,w,B,W,b>> @@ "T" :> <<b,w,b,w,B,w,B,W,b>> @@
    "U" :> <<B,W,b,w,b,w,b,w,B>> @@ "V" :> <<b,W,B,w,b,w,b,w,B>> @@
    "W" :> <<B,W,B,w,b,w,b,w,b>> @@ "X" :> <<b,W,b,w,B,w,b,w,B>> @@
    "Y" :> <<B,W,b,w,B,w,b,w,b>> @@ "Z" :> <<b,W,B,w,B,w,b,w,b>> @@
    "-" :> <<b,W,b,w,b,w,B,w,B>> @@ "." :> <<B,W,b,w,b,w,B,w,b>> @@
    " " :> <<b,W,B,w,b,w,B,w,b>> @@ "*" :> <<b,W,b,w,B,w,B,w,b>> @@
    "$" :> <<b,W,b,W,b,W,b,w,b>> @@ "/" :> <<b,W,b,W,b,w,b,W,b>> @@
    "+" :> <<b,W,b,w,b,W,b,W,b>> @@ "%" :> <<b,w,b,W,b,W,b,W,b>>

Code39Chars == DOMAIN Code39Plain

\* $.barcode.codes.I25.plain: the START and END guards and five symbols
\* per digit.
I25Start == <<w,w,w,w,w,w,w,w,w,w,b,w,b,w>>
I25End == <<B,w,b,w,w,w,w,w,w,w,w,w,w>>
I25Plain ==
    "0" :> <<b,b,B,B,b>> @@ "1" :> <<B,b,b,b,B>> @@ "2" :> <<b,B,b,b,B>> @@
    "3" :> <<B,B,b,b,b>> @@ "4" :> <<b,b,B,b,B>> @@ "5" :> <<B,b,B,b,b>> @@
    "6" :> <<b,B,B,b,b>> @@ "7" :> <<b,b,b,B,B>> @@ "8" :> <<B,b,b,B,b>> @@
    "9" :> <<b,B,b,B,b>>

Digits == DOMAIN I25Plain

-----------------------------------------------------------------------------
(* The cache loop run when the plugin loads: every Code 39 pattern is      *)
(* expanded symbol by symbol (a missing switch case would add nothing) and *)
(* followed by the three-pixel white gap.                                  *)
SymbolBMP(s) ==
    CASE s = B -> Run(Black, 9)
      [] s = b -> Run(Black, 3)
      [] s = W -> Run(White, 9)
      [] s = w -> Run(White, 3)

Code39BMP ==
    [c \in Code39Chars |->
        Concat([xi \in 1..9 |-> SymbolBMP(Code39Plain[c][xi])])
            \o Run(White, 3)]

\* $.trim over the text the element holds (the alphabet of the model has
\* no whitespace other than the space).
Trim(text) ==
    LET kept == {i \in DOMAIN text : text[i] # " "}
    IN IF kept = {} THEN <<>> ELSE SubSeq(text, Min(kept), Max(kept))

\* What 'encoded += undefined' appends for a character with no table entry:
\* the string "undefined".
Undefined == <<117, 110, 100, 101, 102, 105, 110, 101, 100>>

\* case 'code39': the text bracketed by '*', each character's cached pixels
\* appended in turn.
EncodeCode39(text) ==
    LET code == <<"*">> \o Trim(text) \o <<"*">>
    IN Concat([i \in 1..Len(code) |->
                     IF code[i] \in Code39Chars THEN Code39BMP[code[i]]
                                                ELSE Undefined])

\* case 'I25': the trimmed text, left-padded with '0' to an even length.
I25Code(text) ==
    LET code == Trim(text)
    IN IF Len(code) % 2 = 1 THEN <<"0">> \o code ELSE code

\* A character outside the table makes 'plain[c]' undefined, and the
\* following '.replace' or '.charAt' on it throws a TypeError.
I25Throws(text) == \E i \in DOMAIN I25Code(text) : I25Code(text)[i] \notin Digits

\* code2 = plain[c].replace(/b/g,"w").replace(/B/g,"W")
AsWhite(p) == ReplaceAll(ReplaceAll(p, b, w), B, W)

\* The loop over i2: code1.charAt(i2) + code2.charAt(i2), five times.
I25Pair(c1, c2) ==
    LET code1 == I25Plain[c1]
        code2 == AsWhite(I25Plain[c2])
    IN [k \in 1..10 |-> IF k % 2 = 1 THEN code1[(k + 1) \div 2] ELSE code2[k \div 2]]

\* START, the digit pairs, END, and the four replace passes in code order.
EncodeI25(text) ==
    LET code == I25Code(text)
        pairs == [p \in 1..(Len(code) \div 2) |-> I25Pair(code[2 * p - 1], code[2 * p])]
        symbols == I25Start \o Concat(pairs) \o I25End
    IN ReplaceEvery(ReplaceEvery(ReplaceEvery(ReplaceEvery(
           symbols, w, Run(White, 3)), W, Run(White, 9)), b, Run(Black, 3)), B, Run(Black, 9))
=============================================================================
