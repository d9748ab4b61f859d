--------------------------- MODULE MCHaskellHasher ---------------------------
(***************************************************************************)
(* Instances of HaskellHasher for TLC, every byte count divided by 8.      *)
(***************************************************************************)
EXTENDS HaskellHasher

EveryLength == 0 .. MaxTotal
=============================================================================
