---------------------------- MODULE ShortInputs -----------------------------
(***************************************************************************)
(* The words of a short digest (hayahash.h, inputs of 0..16 bytes): where  *)
(* the other modules leave the arithmetic uninterpreted, this one has it,  *)
(* over words of which only the laws below are known.                      *)
(*                                                                         *)
(* hayahash.h says that on this path the pair of digest words is a         *)
(* bijection of the words loaded, and that lengths and seeds cannot be     *)
(* erased.  To say so, two computations run in step, on inputs that differ *)
(* in one respect.                                                         *)
(***************************************************************************)
EXTENDS Integers, Sequences

CONSTANTS
  Byte, Word,
  ZeroByte,
  Pack(_),      \* the word of eight bytes, the lowest first
  Num(_),       \* a length as a word
  Xor(_, _), Plus(_, _), Times(_, _), Rotl(_, _), Shr(_, _),
  K, M1, M2, N1, N2,   \* HAYAHASH64_INTERNAL_K, M1, M2 and HAYAHASH128_INTERNAL_N1, N2
  Inputs, Seeds

MaxShort == 16

(* Little-endian loads put every byte at a place of its own.               *)
ASSUME PackLaw ==
  /\ ZeroByte \in Byte
  /\ \A f \in [0 .. 7 -> Byte] :
       /\ Pack(f) \in Word
       /\ \A g \in [0 .. 7 -> Byte] : Pack(f) = Pack(g) => f = g

ASSUME NumLaw ==
  \A m \in 0 .. MaxShort :
    /\ Num(m) \in Word
    /\ \A n \in 0 .. MaxShort : Num(m) = Num(n) => m = n

ASSUME ClosedLaw ==
  \A v, w \in Word :
    Xor(v, w) \in Word /\ Plus(v, w) \in Word /\ Times(v, w) \in Word

ASSUME XorLaw ==
  \A v, w \in Word : Xor(v, w) = Xor(w, v) /\ Xor(Xor(v, w), w) = v

ASSUME PlusLaw ==
  \A w \in Word : \E n \in Word : \A v \in Word : Plus(Plus(v, w), n) = v

(* The multipliers are odd.                                                *)
ASSUME TimesLaw ==
  /\ {K, M1, M2, N1, N2} \subseteq Word
  /\ \A k \in {K, M1, M2, N1, N2} :
       \A v, w \in Word : Times(v, k) = Times(w, k) => v = w

ASSUME ShiftLaw ==
  /\ \A n \in {11, 21, 23, 27, 32, 41, 50} :
       \A v \in Word :
         /\ Rotl(v, n) \in Word
         /\ \A w \in Word : Rotl(v, n) = Rotl(w, n) => v = w
  /\ \A n \in {19, 27, 30, 31, 33} : \A v \in Word : Shr(v, n) \in Word
  /\ \A n \in {27, 30, 31, 33} :
       \A v, w \in Word : Xor(v, Shr(v, n)) = Xor(w, Shr(w, n)) => v = w

(* "any odd number of rotation terms is invertible over GF(2)"             *)
ASSUME RotationsLaw ==
  \A r \in {<< 21, 41 >>, << 11, 50 >>} :
    \A v, w \in Word :
      Xor(Xor(v, Rotl(v, r[1])), Rotl(v, r[2]))
        = Xor(Xor(w, Rotl(w, r[1])), Rotl(w, r[2])) => v = w

ASSUME InputsAssumption ==
  /\ Seeds \subseteq Word
  /\ Inputs \subseteq {p \in Seq(Byte) : Len(p) <= MaxShort}

VARIABLES
  inputs, seeds,  \* of the two computations
  stage,
  held            \* of each, the two words the rest is computed from

pairVars == << inputs, seeds, stage, held >>

(***************************************************************************)
(* Loads.  A pointer is an offset.                                         *)
(***************************************************************************)
LoadLe(p, at, n) ==
  Pack([i \in 0 .. 7 |-> IF i < n THEN p[at + i + 1] ELSE ZeroByte])

load64le(p, at) == LoadLe(p, at, 8)
load32le(p, at) == LoadLe(p, at, 4)

LongWords(p) == << load64le(p, 0), load64le(p, Len(p) - 8) >>
MidWords(p)  == << load32le(p, 0), load32le(p, Len(p) - 4) >>

(* Mutant of Middle: a shift too far.                                      *)
MiddleByQuarter(l) == l \div 4

Middle(l) == l \div 2

(* Head, middle and tail, the last two shifted by 8 and 16.                *)
FewWords(p) ==
  << LoadLe(p, 0, 1),
     Pack([i \in 0 .. 7 |-> CASE i = 1 -> p[Middle(Len(p)) + 1]
                              [] i = 2 -> p[Len(p)]
                              [] OTHER -> ZeroByte]) >>

NoWords == << Pack([i \in 0 .. 7 |-> ZeroByte]), Pack([i \in 0 .. 7 |-> ZeroByte]) >>

Loaded(p) ==
  CASE Len(p) >= 8            -> LongWords(p)
    [] Len(p) \in 4 .. 7      -> MidWords(p)
    [] Len(p) \in 1 .. 3      -> FewWords(p)
    [] Len(p) = 0             -> NoWords

(***************************************************************************)
(* Mixing.                                                                 *)
(***************************************************************************)
inj(w)  == Xor(Xor(w, Rotl(w, 21)), Rotl(w, 41))
inj2(w) == Xor(Xor(w, Rotl(w, 11)), Rotl(w, 50))

XorShift(w, n) == Xor(w, Shr(w, n))

fmix(w)    == XorShift(Times(XorShift(Times(XorShift(w, 27), M1), 33), M2), 27)
fmix128(w) == XorShift(Times(XorShift(Times(XorShift(w, 30), N1), 31), N2), 33)

lenmix(l) == Times(Num(l), K)

Multiplied(a, b, seed) ==
  LET s == Xor(seed, K)
  IN  << Times(Xor(Xor(inj(a), s), K), K),
         Times(Xor(Xor(inj2(b), Rotl(s, 23)), Shr(K, 19)), M1) >>

FoldedWords(x, y, l) == << Xor(Xor(Rotl(x, 27), y), lenmix(l)), x >>

(* The low word is hayahash64, the pair hayahash128.                       *)
Finalized(u, x) == << fmix(u), fmix128(Plus(x, Rotl(u, 32))) >>

-----------------------------------------------------------------------------
(* Same length and seed, but other bytes; the same input under another     *)
(* seed; or another length whose loads read the same words.                *)
Related ==
  LET p == inputs[1]  q == inputs[2]
  IN  \/ Len(p) = Len(q) /\ p # q /\ seeds[1] = seeds[2]
      \/ p = q /\ seeds[1] # seeds[2]
      \/ Len(p) # Len(q) /\ Loaded(p) = Loaded(q) /\ seeds[1] = seeds[2]

PairInit ==
  /\ inputs \in [1 .. 2 -> Inputs]
  /\ seeds \in [1 .. 2 -> Seeds]
  /\ Related
  /\ stage = "called"
  /\ held = [k \in 1 .. 2 |-> << >>]

Step(from, to, words) ==
  /\ stage = from /\ stage' = to
  /\ held' = words
  /\ UNCHANGED << inputs, seeds >>

Load ==
  Step("called", "loaded", [k \in 1 .. 2 |-> Loaded(inputs[k])])

Multiply ==
  Step("loaded", "multiplied",
       [k \in 1 .. 2 |-> Multiplied(held[k][1], held[k][2], seeds[k])])

FoldWords ==
  Step("multiplied", "folded",
       [k \in 1 .. 2 |-> FoldedWords(held[k][1], held[k][2], Len(inputs[k]))])

Finalize ==
  Step("folded", "done", [k \in 1 .. 2 |-> Finalized(held[k][1], held[k][2])])

PairNext == Load \/ Multiply \/ FoldWords \/ Finalize

PairSpec == PairInit /\ [][PairNext]_pairVars

(***************************************************************************)
(* Properties.                                                             *)
(***************************************************************************)

(* hayahash.h:1010: "The pair (u, x) is a bijection of the two 64-bit      *)
(* pre-image words"; "The output pair remains bijective"; at :557, "equal- *)
(* state inputs of different lengths (overlapping tail reads included)     *)
(* still finalize differently".  So no two short inputs of one length, no  *)
(* two seeds, and no two lengths that load the same words share a pair,    *)
(* before the finalizers or after.                                         *)
NeverMerge == stage \in {"folded", "done"} => held[1] # held[2]

(***************************************************************************)
(* The inductive invariant: where the difference is at each stage.         *)
(***************************************************************************)
SameLength == Len(inputs[1]) = Len(inputs[2])

PairInv ==
  /\ inputs \in [1 .. 2 -> Inputs] /\ seeds \in [1 .. 2 -> Seeds] /\ Related
  /\ stage \in {"called", "loaded", "multiplied", "folded", "done"}
  /\ stage # "called" => held \in [1 .. 2 -> Word \X Word]
  /\ stage = "loaded" => \A k \in 1 .. 2 : held[k] = Loaded(inputs[k])
  /\ stage = "multiplied" => (SameLength <=> held[1] # held[2])
  /\ NeverMerge
=============================================================================
