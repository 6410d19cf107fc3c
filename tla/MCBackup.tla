------------------------------ MODULE MCBackup ------------------------------
(***************************************************************************)
(* Model checking of Backup on small instances.                            *)
(***************************************************************************)
EXTENDS BackupInvariant, TLC

\* Operation ids are random and only compared for equality; processes and line
\* contents are interchangeable.  Not used in runs with liveness properties.
IdSymmetry == Permutations(OpId) \cup Permutations(Proc) \cup Permutations(Text)
=============================================================================
