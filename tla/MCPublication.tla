--------------------------- MODULE MCPublication ---------------------------
(***************************************************************************)
(* Model checking of Publication on a small instance.                      *)
(***************************************************************************)
EXTENDS Publication
=============================================================================
