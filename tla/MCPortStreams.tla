---------------------------- MODULE MCPortStreams ----------------------------
(***************************************************************************)
(* Instance of PortStreams for TLC: Block = 8 and int8 for int.            *)
(***************************************************************************)
EXTENDS PortStreams

(* Lengths around the thresholds, and the longest a signed and an unsigned *)
(* length can be (IndexMax = 127, Width - 1 - BufCap = 199).               *)
PortChunks == { 7, 8, 55, 63, 127, 199 }

(* Array offsets and sizes at the edges of int8.                           *)
EdgeOffsets == { -128, 0, 1, 127 }
EdgeSizes   == { 0, 8, 127 }
=============================================================================
