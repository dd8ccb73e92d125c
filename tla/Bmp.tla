-------------------------------- MODULE Bmp --------------------------------
(***************************************************************************)
(* $.barcode._createBmp and the helpers it calls: _multiByteEncode,        *)
(* _encode64 (or window.btoa where the browser has it) and the two         *)
(* String.replace calls that patch the size placeholders.  A string is the *)
(* sequence of its character codes; every character the bitmap holds is a  *)
(* byte (header, palette and pixel bytes), as btoa requires.  The base64   *)
(* text is the sequence of indices of its characters in _encode64.keyStr   *)
(* (index 64 is the padding '=').                                          *)
(***************************************************************************)
EXTENDS Integers, Sequences, JsString

\* Character codes the header template and String.replace use.
ChB == 66
ChM == 77
ChX == 120
ChY == 121

\* $.barcode.palette
Palette == <<<<0, 0, 0>>, <<255, 255, 255>>>>

-----------------------------------------------------------------------------
(* _multiByteEncode(number, bytes): the loop, returning the string built   *)
(* and what is left of 'number' when it ends; a non-zero rest is the       *)
(* 'Overflow' throw.                                                       *)
\* Variant with a plausible slip: 'number = number - charCode' left out.
MultiByteLoopNoSubtract(number, bytes) ==
    LET RECURSIVE Loop(_, _, _)
        Loop(n, oldbase, x) ==
            IF x = bytes THEN [str |-> <<>>, rest |-> n]
            ELSE IF n = 0
                 THEN LET r == Loop(n, oldbase, x + 1)
                      IN [r EXCEPT !.str = <<0>> \o @]
                 ELSE LET base == oldbase * 256
                          charCode == n % base
                          r == Loop(n, base, x + 1)
                      IN [r EXCEPT !.str = <<charCode \div oldbase>> \o @]
    IN Loop(number, 1, 0)

MultiByteLoop(number, bytes) ==
    LET RECURSIVE Loop(_, _, _)
        Loop(n, oldbase, x) ==
            IF x = bytes THEN [str |-> <<>>, rest |-> n]
            ELSE IF n = 0
                 THEN LET r == Loop(n, oldbase, x + 1)
                      IN [r EXCEPT !.str = <<0>> \o @]
                 ELSE LET base == oldbase * 256
                          charCode == n % base
                          r == Loop(n - charCode, base, x + 1)
                      IN [r EXCEPT !.str = <<charCode \div oldbase>> \o @]
    IN Loop(number, 1, 0)

MultiByteThrows(number, bytes) ==
    number < 0 \/ bytes < 0 \/ MultiByteLoop(number, bytes).rest # 0

MultiByteEncode(number, bytes) == MultiByteLoop(number, bytes).str

-----------------------------------------------------------------------------
(* The fallback _encode64: a do-while whose body runs for i = 0, 3, 6, ... *)
(* and repeats while i < input.length, so at least once.  charCodeAt past  *)
(* the end is NaN, which the shifts and masks turn into 0, and isNaN(chr2) *)
(* / isNaN(chr3) select the padding index 64.  On bytes the shifts and ORs *)
(* of disjoint bits are \div, % and +.                                     *)
\* Variants with plausible slips: the isNaN(chr2) and isNaN(chr3) tests
\* swapped, and enc1 = chr1 without the '>> 2'.
Encode64PadSwapped(input) ==
    LET Has(i) == i < Len(input)
        Chr(i) == IF Has(i) THEN input[i + 1] ELSE 0
        iterations == IF Len(input) = 0 THEN 1 ELSE (Len(input) + 2) \div 3
        Enc(i, j) ==
            CASE j = 1 -> Chr(i) \div 4
              [] j = 2 -> (Chr(i) % 4) * 16 + Chr(i + 1) \div 16
              [] j = 3 -> IF ~Has(i + 2) THEN 64 ELSE (Chr(i + 1) % 16) * 4 + Chr(i + 2) \div 64
              [] j = 4 -> IF ~Has(i + 1) THEN 64 ELSE Chr(i + 2) % 64
    IN [k \in 1..(4 * iterations) |-> Enc(3 * ((k - 1) \div 4), ((k - 1) % 4) + 1)]

Encode64Unshifted(input) ==
    LET Has(i) == i < Len(input)
        Chr(i) == IF Has(i) THEN input[i + 1] ELSE 0
        iterations == IF Len(input) = 0 THEN 1 ELSE (Len(input) + 2) \div 3
        Enc(i, j) ==
            CASE j = 1 -> Chr(i)
              [] j = 2 -> (Chr(i) % 4) * 16 + Chr(i + 1) \div 16
              [] j = 3 -> IF ~Has(i + 1) THEN 64 ELSE (Chr(i + 1) % 16) * 4 + Chr(i + 2) \div 64
              [] j = 4 -> IF ~Has(i + 1) \/ ~Has(i + 2) THEN 64 ELSE Chr(i + 2) % 64
    IN [k \in 1..(4 * iterations) |-> Enc(3 * ((k - 1) \div 4), ((k - 1) % 4) + 1)]

Encode64(input) ==
    LET Has(i) == i < Len(input)
        Chr(i) == IF Has(i) THEN input[i + 1] ELSE 0
        iterations == IF Len(input) = 0 THEN 1 ELSE (Len(input) + 2) \div 3
        Enc(i, j) ==
            CASE j = 1 -> Chr(i) \div 4
              [] j = 2 -> (Chr(i) % 4) * 16 + Chr(i + 1) \div 16
              [] j = 3 -> IF ~Has(i + 1) THEN 64 ELSE (Chr(i + 1) % 16) * 4 + Chr(i + 2) \div 64
              [] j = 4 -> IF ~Has(i + 1) \/ ~Has(i + 2) THEN 64 ELSE Chr(i + 2) % 64
    IN [k \in 1..(4 * iterations) |-> Enc(3 * ((k - 1) \div 4), ((k - 1) % 4) + 1)]

-----------------------------------------------------------------------------
(* _createBmp(grid, palette)                                               *)
FileHeaderTemplate == <<ChB, ChM, ChX, ChX, ChX, ChX, 0, 0, 0, 0, ChY, ChY, ChY, ChY>>

BmpWidth(grid) == IF Len(grid) = 0 THEN 0 ELSE Len(grid[1])

InfoHeader(grid) ==
    MultiByteEncode(40, 4) \o MultiByteEncode(BmpWidth(grid), 4)
        \o MultiByteEncode(Len(grid), 4) \o <<1, 0>> \o MultiByteEncode(8, 2)
        \o [i \in 1..24 |-> 0]

\* The 256 palette entries as blue, green, red, 0.  r, g and b are assigned
\* only for x < palette.length, so every later entry repeats the last
\* colour of the palette.
RgbQuad(palette) ==
    LET Entry(x) == IF x < Len(palette) THEN palette[x + 1]
                    ELSE IF Len(palette) = 0 THEN <<0, 0, 0>>
                    ELSE palette[Len(palette)]
    IN Concat([x \in 1..256 |-> <<Entry(x - 1)[3], Entry(x - 1)[2], Entry(x - 1)[1], 0>>])

\* Variant with a plausible slip: width % 4 zero bytes instead of
\* 4 - width % 4.
RowPaddingInverted(width) ==
    CASE width % 4 = 1 -> <<0>>
      [] width % 4 = 2 -> <<0, 0>>
      [] width % 4 = 3 -> <<0, 0, 0>>
      [] OTHER -> <<>>

RowPadding(width) ==
    CASE width % 4 = 1 -> <<0, 0, 0>>
      [] width % 4 = 2 -> <<0, 0>>
      [] width % 4 = 3 -> <<0>>
      [] OTHER -> <<>>

\* Rows bottom-up, each followed by the padding.
BmpData(grid) ==
    Concat([y \in 1..Len(grid) |-> grid[Len(grid) - y + 1] \o RowPadding(BmpWidth(grid))])

\* The bitmap string after both placeholders are patched, 'yyyy' first.
BmpBytes(grid, palette) ==
    LET headers == FileHeaderTemplate \o InfoHeader(grid) \o RgbQuad(palette)
        bitmap == headers \o BmpData(grid)
        withOffset == ReplaceFirst(bitmap, <<ChY, ChY, ChY, ChY>>, MultiByteEncode(Len(headers), 4))
    IN ReplaceFirst(withOffset, <<ChX, ChX, ChX, ChX>>, MultiByteEncode(Len(withOffset), 4))

\* The data URI 'data:image/bmp;base64,' + _encode64(bitmap); _encode64 is
\* window.btoa when the browser passes the btoa('hello') probe.
CreateBmp(grid, palette, hasBtoa) ==
    [mime |-> "image/bmp",
     base64 |-> IF hasBtoa THEN Btoa(BmpBytes(grid, palette))
                           ELSE Encode64(BmpBytes(grid, palette))]
=============================================================================
