----------------------------- MODULE MCPyHasher -----------------------------
(***************************************************************************)
(* Values for TLC.                                                         *)
(***************************************************************************)
EXTENDS PyHasher, TLC

(* One byte of two values.                                                 *)
FewContents == { << 0 >>, << 1 >> }

MCSymmetry == Permutations(Callers) \cup Permutations(Objects)
=============================================================================
