--------------------------- MODULE RustHayaHasher ---------------------------
(***************************************************************************)
(* HayaHasher of the Rust crate (rust/src/hasher.rs): the Hasher and       *)
(* BuildHasher behind HayaHashMap.  It keeps the whole message, in line up *)
(* to InlineCap bytes and on the heap beyond, and hashes it in one piece.  *)
(*                                                                         *)
(* A value of the type is cloned field by field, so a clone is the same    *)
(* value: the state here is one value and what is made of it.              *)
(***************************************************************************)
EXTENDS Walk

CONSTANTS
  InlineCap,  \* INLINE_CAP
  Seeds,
  Chunks,     \* lengths of one write
  MaxTotal    \* bound: bytes written to one hasher

ASSUME RustAssumption ==
  InlineCap \in Nat /\ Chunks \subseteq Nat /\ MaxTotal \in Nat

VARIABLES
  seed, len, inline, heap,  \* the fields; heap is empty until a spill
  total,                    \* history: bytes written
  out                       \* the digest taken since the last write, as a set

fields == << seed, len, inline, heap >>
vars   == << fields, total, out >>

(* The in-line array is zeroed.                                            *)
Zero == -1

(* HayaHasher::new, const.                                                 *)
Empty(s) ==
  /\ seed' = s
  /\ len' = 0
  /\ inline' = [i \in 1 .. InlineCap |-> Zero]
  /\ heap' = << >>
  /\ total' = 0
  /\ out' = {}

Init ==
  /\ seed \in Seeds
  /\ len = 0
  /\ inline = [i \in 1 .. InlineCap |-> Zero]
  /\ heap = << >>
  /\ total = 0
  /\ out = {}

(* Mutant of Spilled: told by the length, which a spill does not change.   *)
SpilledByLength == len = InlineCap

(* An empty heap is what marks the state as in line.                       *)
Spilled == heap # << >>

buffer == IF Spilled THEN heap ELSE SubSeq(inline, 1, len)

-----------------------------------------------------------------------------
(* write(bytes), n bytes of them; a write of no bytes returns at once.     *)
Written(n) ==
  /\ n \in Chunks \ {0} /\ total + n <= MaxTotal
  /\ total' = total + n
  /\ out' = {}

(* Mutant of Fits: the array is never filled.                              *)
FitsBelow(n) == len + n < InlineCap

Fits(n) == len + n <= InlineCap

WriteHeap(n) ==
  /\ Written(n) /\ Spilled
  /\ heap' = heap \o NextBytes(total, n)
  /\ UNCHANGED << seed, len, inline >>

WriteInline(n) ==
  /\ Written(n) /\ ~Spilled /\ Fits(n)
  /\ inline' = [i \in 1 .. InlineCap |->
                  IF i \in len + 1 .. len + n THEN total + (i - len) - 1 ELSE inline[i]]
  /\ len' = len + n
  /\ UNCHANGED << seed, heap >>

(* The first write that does not fit moves all there is to the heap.  The  *)
(* array and its length stay as they are, and are not looked at again.     *)
Spill(n) ==
  /\ Written(n) /\ ~Spilled /\ ~Fits(n)
  /\ heap' = SubSeq(inline, 1, len) \o NextBytes(total, n)
  /\ UNCHANGED << seed, len, inline >>

(* Mutant of Build: the builder's own bytes are kept.                      *)
BuildOfUsed ==
  /\ len' = 0 /\ total' = 0 /\ out' = {}
  /\ UNCHANGED << seed, inline, heap >>

(* build_hasher: an empty hasher with the builder's seed, whatever has     *)
(* been written to the builder.                                            *)
Build == Empty(seed)

(* finish and finish128.                                                   *)
Digest(w) ==
  /\ out' = {OneShot(w, seed, buffer)}
  /\ UNCHANGED << fields, total >>

Next ==
  \/ \E s \in Seeds : Empty(s)
  \/ \E n \in Chunks : WriteHeap(n) \/ WriteInline(n) \/ Spill(n)
  \/ Build
  \/ \E w \in Widths : Digest(w)

Spec == Init /\ [][Next]_vars

(***************************************************************************)
(* Properties.                                                             *)
(***************************************************************************)

(* The inductive invariant: in which of the two places the message is, and *)
(* that it is all there.                                                   *)
IInv ==
  /\ seed \in Seeds /\ total \in Nat /\ len \in 0 .. InlineCap
  /\ inline \in [1 .. InlineCap -> Nat \cup {Zero}]
  /\ IF Spilled
     THEN heap = NextBytes(0, total) /\ total > InlineCap
     ELSE len = total /\ \A i \in 1 .. len : inline[i] = i - 1

(* hasher.rs: "the digest always equals hayahash64 of the concatenated     *)
(* writes"; of finish128: "The low word is identical to Hasher::finish".   *)
DigestIsOneShot ==
  \A w \in Widths : OneShot(w, seed, buffer) = OneShot(w, seed, NextBytes(0, total))

(* hasher.rs: "Writes are buffered inline up to 64 bytes, so ordinary hash-*)
(* map keys do not allocate.  Only larger concatenated inputs spill to the *)
(* heap."                                                                  *)
AllocatesOnlyWhenLarger == heap # << >> => total > InlineCap

(* The hasher keeps the promise of the streaming hashers.                  *)
Promise == INSTANCE StreamSpec WITH message <- buffer

ImplementsStreamSpec == Promise!Spec
=============================================================================
