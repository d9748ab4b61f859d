-------------------------- MODULE MCRustHayaHasher --------------------------
(***************************************************************************)
(* RustHayaHasher with the sizes of the source.                            *)
(***************************************************************************)
EXTENDS RustHayaHasher

(* Lengths of a write whose sums fall on, below and above the capacity and *)
(* the thresholds of the walk.                                             *)
EdgeLengths == {0, 16, 47, 48, 49, 65, 255, 303}
=============================================================================
