-------------------------------- MODULE Walk --------------------------------
(***************************************************************************)
(* What a hayahash digest is a function of.                                *)
(*                                                                         *)
(* The arithmetic (xor, add, rotate, multiply by K) is left uninterpreted: *)
(* a digest is represented by the record of everything that is mixed into  *)
(* it, in order.  Two computations with the same record compute the same   *)
(* 64 or 128 bits; a byte that is lost, repeated, reordered or read from   *)
(* outside the input shows up as a different record.                       *)
(*                                                                         *)
(* A message is a sequence of bytes.  In hayahash.h Block is 64 bytes (8   *)
(* lanes of 8 bytes), Round is 32 (4 lanes), Pair is 16 (two words) and    *)
(* BulkMin is hayahash64_internal_bulk_min = 320.                          *)
(***************************************************************************)
EXTENDS Integers, Sequences

CONSTANTS
  Block,    \* bytes of one bulk block
  Round,    \* bytes of one mid round
  Pair,     \* bytes of one pair of words, the unit of the tail
  BulkMin   \* shortest length that takes the bulk path

ASSUME WalkAssumption ==
  /\ Pair \in Nat \ {0}
  /\ Round = 2 * Pair
  /\ Block = 2 * Round
  /\ BulkMin \in Nat
  /\ BulkMin > Pair

(* The two digest widths share every byte they read; they differ only in   *)
(* the finalizer.                                                          *)
Widths == {64, 128}

(* A byte read from outside the memory the caller or the state owns.       *)
Outside == -2

(* The streaming modules give a message offsets for bytes, so that no two  *)
(* of its bytes are interchangeable: the len bytes after the first k.      *)
NextBytes(k, len) == [i \in 1 .. len |-> k + i - 1]

(* n & ~(size_t)63                                                         *)
WholeBlocks(n) == n - (n % Block)

(* Bytes first..last of mem, as the word loads see them.                   *)
Load(mem, first, last) ==
  [i \in 1 .. (last - first + 1) |->
     IF first + i - 1 \in DOMAIN mem THEN mem[first + i - 1] ELSE Outside]

(* The last 0..Round-1 bytes, l bytes of mem being input and at of them    *)
(* already absorbed: two words at the pointer if more than Pair bytes are  *)
(* left, and the two words that end at the end of the input (which reach   *)
(* back before the pointer) if any byte is left.                           *)
HeadWords(mem, l, at) ==
  IF l - at > Pair THEN Load(mem, at + 1, at + Pair) ELSE << >>

LastWords(mem, l, at) ==
  IF l - at > 0 THEN Load(mem, l - Pair + 1, l) ELSE << >>

(* From lanes initialised with seed iv that have absorbed the bytes fed,   *)
(* over l further bytes at mem: whole blocks, the fold of the upper lanes, *)
(* at most one mid round, the tail, and the finalizer, which is where the  *)
(* total length enters.                                                    *)
Finish(w, iv, fed, mem, l, len) ==
  LET whole == WholeBlocks(l)
      at    == IF l - whole >= Round THEN whole + Round ELSE whole
  IN  [ path   |-> "bulk", width |-> w, iv |-> iv, len |-> len,
        blocks |-> fed \o Load(mem, 1, whole),
        rounds |-> Load(mem, whole + 1, at),
        head   |-> HeadWords(mem, l, at),
        last   |-> LastWords(mem, l, at) ]

(* len >= BulkMin: the block loop starts from fresh lanes.                 *)
LongHash(w, seed, msg) == Finish(w, seed, << >>, msg, Len(msg), Len(msg))

(* Pair < len < BulkMin: 32-byte rounds and the tail, four lanes only.     *)
MidHash(w, seed, msg) ==
  LET l  == Len(msg)
      at == l - (l % Round)
  IN  [ path   |-> "mid", width |-> w, iv |-> seed, len |-> l,
        blocks |-> << >>,
        rounds |-> Load(msg, 1, at),
        head   |-> HeadWords(msg, l, at),
        last   |-> LastWords(msg, l, at) ]

(* len <= Pair: every byte is in one of two (overlapping) words.           *)
ShortHash(w, seed, msg) ==
  [ path   |-> "short", width |-> w, iv |-> seed, len |-> Len(msg),
    blocks |-> << >>, rounds |-> msg, head |-> << >>, last |-> << >> ]

(* hayahash64(key, len, seed) and hayahash128(key, len, seed).             *)
OneShot(w, seed, msg) ==
  CASE Len(msg) <= Pair    -> ShortHash(w, seed, msg)
    [] Len(msg) >= BulkMin -> LongHash(w, seed, msg)
    [] OTHER               -> MidHash(w, seed, msg)
=============================================================================
