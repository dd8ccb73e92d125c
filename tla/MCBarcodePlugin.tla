--------------------------- MODULE MCBarcodePlugin ---------------------------
(***************************************************************************)
(* Two elements, the two symbologies and one unknown code, up to two       *)
(* calls (the second reads back the <img> markup the first one wrote).     *)
(* The texts cover: empty input, odd length (I25 pads with '0'), a letter  *)
(* (I25 throws), surrounding spaces ($.trim) and an inner space (a Code 39 *)
(* character).                                                             *)
(***************************************************************************)
EXTENDS BarcodePlugin

MCTexts == { <<>>, <<"7">>, <<"A", "1">>, <<" ", "4", "2", " ">>, <<"-", " ", "9">> }

\* Texts with a lower-case letter, which the Code 39 table does not have.
MCTextsUnsupported == { <<"7">>, <<"A", "b">> }

MCCodes == {"code39", "I25", "ean13"}
=============================================================================
