----------------------------- MODULE MCPyReset ------------------------------
(***************************************************************************)
(* PyHasher with the seed each hasher was made with as a history variable. *)
(***************************************************************************)
EXTENDS MCPyHasher

VARIABLE built

BuiltInit == Init /\ built = [o \in Objects |-> 0]

BuiltNext ==
  /\ Next
  /\ built' = [o \in Objects |-> IF o \in live' \ live THEN mem'[o].seed ELSE built[o]]

BuiltSpec == BuiltInit /\ [][BuiltNext]_<< vars, built >>

(* _hayahash.c:214, on reset() without a seed: "restart with the one this  *)
(* hasher was built with".                                                 *)
ResetRestoresBuilt ==
  [][ \A c \in Callers, o \in Objects :
        Reset(c, o, NoSeed) /\ did'[c] => mem'[o].seed = built[o] ]_<< vars, built >>
=============================================================================
