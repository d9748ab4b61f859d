----------------------------- MODULE MCJsHasher -----------------------------
(***************************************************************************)
(* JsHasher for TLC.  With pages of 4 cells, a heap base of 1, states of 2 *)
(* cells, digests of 2 and chunks of at most 4 bytes, a state fits the     *)
(* first page, a digest needs the second, a full chunk the third; 5 bytes  *)
(* are two chunks, and too long for the engine as the input of a one-shot. *)
(***************************************************************************)
EXTENDS JsHasher, TLC

CONSTANTS a, b, s1, s2

Symmetric == Permutations(Hashers) \cup Permutations(Seeds)
=============================================================================
