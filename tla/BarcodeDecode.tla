---------------------------- MODULE BarcodeDecode ----------------------------
(***************************************************************************)
(* Reference decoders, written from the formats and not from the plugin:  *)
(* base64 (RFC 4648), the BMP file layout (BITMAPFILEHEADER followed by    *)
(* BITMAPINFOHEADER, palette, bottom-up rows padded to 4 bytes) and a bar  *)
(* scanner that reads a pixel row back as Code 39 or Interleaved 2 of 5.   *)
(* They give the round-trip properties of the plugin their meaning: what a *)
(* standard image decoder and a barcode reader would see.                  *)
(***************************************************************************)
EXTENDS Integers, Sequences, FiniteSets, BarcodeCodes

\* base64 text (alphabet indices, 64 for '=') to bytes; ok is FALSE if the
\* text is malformed.
Base64Decode(s) ==
    LET groups == Len(s) \div 4
        pads == Cardinality({i \in DOMAIN s : s[i] = 64})
        Val(i) == IF s[i] = 64 THEN 0 ELSE s[i]
        Word(g) == Val(4 * g + 1) * 262144 + Val(4 * g + 2) * 4096
                     + Val(4 * g + 3) * 64 + Val(4 * g + 4)
        Byte(i) == LET g == (i - 1) \div 3
                       k == (i - 1) % 3
                   IN (Word(g) \div (IF k = 0 THEN 65536 ELSE IF k = 1 THEN 256 ELSE 1)) % 256
        wellFormed ==
            /\ Len(s) % 4 = 0
            /\ pads <= 2
            /\ \A i \in DOMAIN s : s[i] = 64 => i > Len(s) - pads
    IN [ok |-> wellFormed, bytes |-> IF wellFormed THEN [i \in 1..(3 * groups - pads) |-> Byte(i)] ELSE <<>>]

\* Little-endian unsigned integers of 2 and 4 bytes at 0-based offset off.
LE2(s, off) == s[off + 1] + 256 * s[off + 2]
LE4(s, off) == LE2(s, off) + 65536 * LE2(s, off + 2)

\* The single pixel row of an 8-bit, one-row BMP as RGB triples; ok is
\* FALSE when the file is not one a decoder would accept as such.
BmpRow(f) ==
    LET width == LE4(f, 18)
        offBits == LE4(f, 10)
        stride == 4 * ((width + 3) \div 4)
        paletteAt == 14 + LE4(f, 14)
        Colour(k) == << f[paletteAt + 4 * k + 3], f[paletteAt + 4 * k + 2], f[paletteAt + 4 * k + 1] >>
        accepted ==
          /\ Len(f) >= 54
          /\ f[1] = 66 /\ f[2] = 77
          /\ LE4(f, 2) = Len(f)
          /\ LE4(f, 14) = 40
          /\ LE4(f, 22) = 1
          /\ LE2(f, 26) = 1 /\ LE2(f, 28) = 8
          /\ paletteAt + 1024 <= offBits
          /\ offBits + stride = Len(f)
    IN [ok |-> accepted,
        row |-> IF accepted THEN [i \in 1..width |-> Colour(f[offBits + i])] ELSE <<>>]

\* The image a data URI shows.
ImageRow(uri) ==
    LET f == Base64Decode(uri.base64)
    IN IF f.ok THEN BmpRow(f.bytes) ELSE [ok |-> FALSE, row |-> <<>>]

RGBBlack == <<0, 0, 0>>
RGBWhite == <<255, 255, 255>>

\* Maximal runs of equal colour: <<colour, length>>.
Runs(row) ==
    LET starts == {1} \cup {i \in 2..Len(row) : row[i] # row[i - 1]}
        n == Cardinality(starts)
        Start(k) == IF k > n THEN Len(row) + 1
                    ELSE CHOOSE i \in starts : Cardinality({j \in starts : j < i}) = k - 1
    IN IF row = <<>> THEN <<>>
       ELSE [k \in 1..n |-> << row[Start(k)], Start(k + 1) - Start(k) >>]

\* A run read as a bar symbol: 3 pixels narrow, 9 pixels wide.
Symbol(run) ==
    CASE run = <<RGBBlack, 3>> -> b
      [] run = <<RGBBlack, 9>> -> B
      [] run = <<RGBWhite, 3>> -> w
      [] run = <<RGBWhite, 9>> -> W
      [] OTHER -> 0

\* The unique character of a table with this pattern, or "?".
Lookup(table, pattern) ==
    LET cs == {c \in DOMAIN table : table[c] = pattern}
    IN IF Cardinality(cs) = 1 THEN CHOOSE c \in cs : TRUE ELSE "?"

\* Code 39: nine bars per character, each followed by a narrow white gap.
ReadCode39(row) ==
    LET r == Runs(row)
        Char(k) == IF r[10 * k] = <<RGBWhite, 3>>
                   THEN Lookup(Code39Plain, [j \in 1..9 |-> Symbol(r[10 * (k - 1) + j])])
                   ELSE "?"
    IN IF Len(r) % 10 # 0 THEN <<"?">> ELSE [k \in 1..(Len(r) \div 10) |-> Char(k)]

\* Interleaved 2 of 5: a 30-pixel quiet zone and the start guard, pairs of
\* digits as five bars (first digit) interleaved with five spaces (second
\* digit), the stop guard and a 30-pixel quiet zone.
ReadI25(row) ==
    LET r == Runs(row)
        pairs == (Len(r) - 9) \div 10
        Bars(p, parity) == [j \in 1..5 |-> Symbol(r[5 + 10 * (p - 1) + 2 * j - 1 + parity])]
        AsBlack(s) == [j \in 1..5 |-> IF s[j] = w THEN b ELSE IF s[j] = W THEN B ELSE 0]
        guards ==
            /\ Len(r) >= 9 /\ (Len(r) - 9) % 10 = 0
            /\ SubSeq(r, 1, 5) = << <<RGBWhite, 30>>, <<RGBBlack, 3>>, <<RGBWhite, 3>>,
                                     <<RGBBlack, 3>>, <<RGBWhite, 3>> >>
            /\ SubSeq(r, Len(r) - 3, Len(r)) = << <<RGBBlack, 9>>, <<RGBWhite, 3>>,
                                                 <<RGBBlack, 3>>, <<RGBWhite, 30>> >>
    IN IF ~guards THEN <<"?">>
       ELSE Concat([p \in 1..pairs |-> << Lookup(I25Plain, Bars(p, 0)),
                                           Lookup(I25Plain, AsBlack(Bars(p, 1))) >>])
=============================================================================
