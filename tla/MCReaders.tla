----------------------------- MODULE MCReaders -----------------------------
(***************************************************************************)
(* Model checking of Readers on a small instance.                          *)
(***************************************************************************)
EXTENDS Readers, TLC

\* Operation ids are random and only compared for equality.
OpSymmetry == Permutations(OpId)
=============================================================================
