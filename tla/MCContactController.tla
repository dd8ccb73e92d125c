------------------------ MODULE MCContactController ------------------------
(***************************************************************************)
(* Two contacts saved, one removal, the initial query plus one more        *)
(* refresh or search, one kind of validation error.                       *)
(***************************************************************************)
EXTENDS ContactController

CONSTANT e1

MCErrorReports == {e1}
=============================================================================
