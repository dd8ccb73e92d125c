---------------------------- MODULE MCItemStore ----------------------------
(***************************************************************************)
(* Two names, two addItem calls (so two GETs can race), one SSE           *)
(* connection error.  Names are interchangeable: nothing in engine.js      *)
(* looks at what a name is.                                                *)
(***************************************************************************)
EXTENDS ItemStore, TLC

CONSTANTS n1, n2

MCNames == {n1, n2}

MCSymmetry == Permutations(MCNames)
=============================================================================
