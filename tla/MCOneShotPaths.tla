--------------------------- MODULE MCOneShotPaths ---------------------------
(***************************************************************************)
(* The builds of hayahash.h and the ports for TLC.                         *)
(***************************************************************************)
EXTENDS OneShotPaths

Build(wasm, clang, wide) ==
  [lang |-> "C", wasm |-> wasm, clang |-> clang, wide |-> wide]

Port(lang) == [lang |-> lang, wasm |-> FALSE, clang |-> FALSE, wide |-> FALSE]

(* GCC or MSVC and clang on x86-64 or AArch64, both elsewhere, wasm, and  *)
(* the ports.                                                              *)
AllBuilds ==
  { Build(FALSE, FALSE, TRUE),  Build(FALSE, TRUE, TRUE),
    Build(FALSE, FALSE, FALSE), Build(FALSE, TRUE, FALSE),
    Build(TRUE, TRUE, FALSE) } \cup {Port(lang) : lang \in Ports}

(* Every length of the short path, of each tier and of the mid loop, and   *)
(* bulk lengths with both parities of blocks and every remainder.          *)
AllLengths == 0 .. 511
=============================================================================
