---------------------------- MODULE MCHayaStream ----------------------------
(***************************************************************************)
(* Instances of HayaStream for TLC.                                        *)
(***************************************************************************)
EXTENDS HayaStream

(* All lengths of one call, for an instance scaled down by 8 (Block = 8).  *)
EveryLength == 0 .. MaxTotal

(* With the sizes of hayahash.h: the lengths around every threshold of     *)
(* update and of the one-shot dispatch.                                    *)
EdgeLengths ==
  { 1, 16, 63, 64, 127, 191, 319, 320, 447, 448, 449, 577 }
=============================================================================
