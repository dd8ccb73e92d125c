----------------------------- MODULE MCBmpSize -----------------------------
(***************************************************************************)
(* The size field of the bitmaps _createBmp makes for Code 39 barcodes of  *)
(* up to MaxChars valid characters.  Every Code 39 character's cached      *)
(* pixels are 48 bytes long, so a text of k valid characters gives a row   *)
(* of 48 * (k + 2) pixels ('*' on each side) and the file size is the      *)
(* header length plus the row and its padding.  The rows themselves are   *)
(* far too long to build, so the state is the row width only.              *)
(***************************************************************************)
EXTENDS Integers, Sequences, BarcodeCodes, Bmp

CONSTANT MaxChars

ASSUME MaxChars \in Nat
ASSUME \A c \in Code39Chars : Len(Code39BMP[c]) = 48

VARIABLE width      \* the pixel row of the barcode being rendered

\* Headers and palette: the part of the bitmap before the pixel data.
HeaderLength == Len(FileHeaderTemplate) + Len(InfoHeader(<<<<>>>>)) + Len(RgbQuad(Palette))

\* bitmap.length when 'xxxx' is replaced (the 'yyyy' bytes are already
\* replaced by the four offset bytes, which keeps the length).
FileSize(px) == HeaderLength + px + Len(RowPadding(px))

Init == width \in {(k + 2) * 48 : k \in 0..MaxChars}

Next == UNCHANGED width

Spec == Init /\ [][Next]_width

\* _createBmp writes the file size over 'xxxx' with
\* bitmap.replace(/xxxx/, _multiByteEncode(bitmap.length, 4)).  A string
\* replacement is not inserted verbatim: '$$', '$&', '$`' and "$'" in it are
\* substitution patterns.  The header must still get the four size bytes
\* unchanged.  (The text after the match only matters for "$'", which
\* changes the length whatever that text is, so the empty text is used.)
SizeFieldVerbatim ==
    LET repl == MultiByteEncode(FileSize(width), 4)
    IN Expand(repl, <<ChX, ChX, ChX, ChX>>, <<ChB, ChM>>, <<>>) = repl
=============================================================================
