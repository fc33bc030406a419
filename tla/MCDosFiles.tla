----------------------------- MODULE MCDosFiles -----------------------------
(* DosFiles for TLC.  Streams are only compared, so any two of them may be  *)
(* exchanged.                                                              *)
EXTENDS DosFiles, TLC

Symmetry == Permutations(File)
=============================================================================
