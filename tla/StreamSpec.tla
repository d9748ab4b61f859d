----------------------------- MODULE StreamSpec -----------------------------
(***************************************************************************)
(* What every streaming hasher of the repository promises: however the     *)
(* input is split across update calls, a digest is the one-shot hash of    *)
(* the bytes given so far, taking it changes nothing, and the hasher can   *)
(* go on from there or start again with a seed.                            *)
(*                                                                         *)
(* A byte is its offset in the message (see Walk).                         *)
(***************************************************************************)
EXTENDS Walk

CONSTANT Seeds

VARIABLES
  seed,     \* the seed of the current message
  message,  \* the bytes of every update call that has returned
  out       \* the digest taken since the message last changed, if any: a set

vars == << seed, message, out >>

Init ==
  /\ seed \in Seeds
  /\ message = << >>
  /\ out = {}

Restart(s) ==
  /\ seed' = s
  /\ message' = << >>
  /\ out' = {}

Update ==
  /\ Len(message') > Len(message)
  /\ message' = message \o NextBytes(Len(message), Len(message') - Len(message))
  /\ out' = {}
  /\ UNCHANGED seed

Digest(w) ==
  /\ out' = {OneShot(w, seed, message)}
  /\ UNCHANGED << seed, message >>

Next ==
  \/ \E s \in Seeds : Restart(s)
  \/ Update
  \/ \E w \in Widths : Digest(w)

Spec == Init /\ [][Next]_vars
=============================================================================
