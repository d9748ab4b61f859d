---------------------------- MODULE OneShotPaths ----------------------------
(***************************************************************************)
(* hayahash64() and hayahash128() of hayahash.h, as each build compiles    *)
(* them: straight-line tiers or a compact loop for 17..319 bytes, the bulk *)
(* loop outlined or inline, one or two blocks per iteration; and of the    *)
(* ports, whose loads are by index.  All of them must be the same function.*)
(*                                                                         *)
(* Arithmetic is left uninterpreted.  A lane is the sequence of what has   *)
(* been combined into it, in order; a word is the offset it was loaded     *)
(* from.  rotl_product is another spelling of rotl and the two spellings   *)
(* of HAYAHASH64_INTERNAL_BULK_BLOCK (with and without VECGCC) are one     *)
(* dataflow, which Blocks states.                                          *)
(***************************************************************************)
EXTENDS Integers, Sequences

CONSTANTS
  Builds,   \* records [lang, wasm, clang, wide], see BuildTypes
  Lengths,  \* lengths a caller may pass
  Starts    \* offsets of the first byte in an array

Ports == {"Go", "Rust", "Zig", "Java", "C#", "Swift", "JS"}

(* Macros the dispatch depends on: defined(__wasm__), defined(__clang__),  *)
(* and an x86-64 or AArch64 target.  A port is written as C without them.  *)
BuildTypes ==
  [lang : {"C"}, wasm : BOOLEAN, clang : BOOLEAN, wide : BOOLEAN]
    \cup [lang : Ports, wasm : {FALSE}, clang : {FALSE}, wide : {FALSE}]

ASSUME PathsAssumption ==
  /\ Builds \subseteq {b \in BuildTypes : b.wasm => ~b.wide}
  /\ Lengths \subseteq Nat /\ Starts \subseteq Nat

VARIABLES
  build, width,       \* the call: fixed
  start, len,
  pc, p, l, pe,       \* the locals of these names
  h, wp,              \* lanes 0..7 and the last word absorbed
  short               \* the loads of the words a and b of the short path

call == << build, width, start, len >>
vars == << call, pc, p, l, pe, h, wp, short >>

Lanes == 0 .. 7

(* wp = 0 before the first word: rotl(0, 27) adds nothing.                 *)
None == -8

(* (h ^ (w + rotl(prev, 27))) * K, h + w, h + rotl(w, 27), (h + inj(w)) * K*)
(* and (h ^ rotl(other lane)) * K.                                         *)
Mix(w, prev) == [op |-> "mix", w |-> w, prev |-> prev]
Added(w)     == [op |-> "plus", w |-> w]
Rot(w)       == [op |-> "rot", w |-> w]
Inj(w)       == [op |-> "inj", w |-> w]
Merge(lane)  == [op |-> "merge", lane |-> lane]

(* k mid rounds from offset at: 4 lanes, one word each per round, every    *)
(* word joined by the one before it.                                       *)
MidTerms(j, at, k, prev) ==
  [r \in 1 .. k |->
     LET w == at + 32 * (r - 1) + 8 * j
     IN  Mix(w, IF w = at THEN prev ELSE w - 8)]

Rounds(lanes, at, k, prev) ==
  [j \in Lanes |-> IF j > 3 THEN lanes[j] ELSE lanes[j] \o MidTerms(j, at, k, prev)]

(* k bulk blocks from offset at: 8 lanes, and the last word of each block  *)
(* added to lane 0.                                                        *)
BulkTerms(j, at, k, prev) ==
  IF j = 0
  THEN [i \in 1 .. 2 * k |->
          LET w == at + 64 * ((i - 1) \div 2)
          IN  IF i % 2 = 0 THEN Added(w + 56)
              ELSE Mix(w, IF w = at THEN prev ELSE w - 8)]
  ELSE [b \in 1 .. k |->
          LET w == at + 64 * (b - 1) + 8 * j IN Mix(w, w - 8)]

Blocks(lanes, at, k, prev) ==
  [j \in Lanes |-> lanes[j] \o BulkTerms(j, at, k, prev)]

Fresh == [j \in Lanes |-> << >>]

(* Upper lanes into lower ones.                                            *)
Folded(lanes) ==
  [j \in Lanes |-> IF j > 3 THEN << >> ELSE Append(lanes[j], Merge(lanes[j + 4]))]

Absorb(lanes, j, term) == [lanes EXCEPT ![j] = Append(@, term)]

(* The tail: 16 whole bytes at offset at for lanes 0 and 1, and the last   *)
(* 16 bytes before its end for lanes 2 and 3.                              *)
TailHead(lanes, at)  == Absorb(Absorb(lanes, 0, Inj(at)), 1, Inj(at + 8))
TailLast(lanes, end) == Absorb(Absorb(lanes, 2, Inj(end - 16)), 3, Inj(end - 8))

(***************************************************************************)
(* Preprocessor.                                                           *)
(***************************************************************************)
Tiers == build.wide /\ ~build.clang

TwoBlocks == build.wide

-----------------------------------------------------------------------------
(* Only Java indexes the caller's array: the others are given a slice of   *)
(* it, or a pointer.                                                       *)
Init ==
  /\ build \in Builds /\ width \in {64, 128} /\ len \in Lengths
  /\ start \in IF build.lang = "Java" THEN Starts ELSE {0}
  /\ pc = "dispatch" /\ p = start /\ l = len /\ pe = 0
  /\ h = Fresh /\ wp = None
  /\ short = << >>

(* At most 16 bytes: the words a and b, as << offset, size >> of each load.*)
ShortPath ==
  /\ pc = "dispatch" /\ l <= 16
  /\ \/ /\ l >= 8
        /\ short' = << << << p, 8 >> >>, << << p + l - 8, 8 >> >> >>
     \/ /\ l >= 4 /\ l < 8
        /\ short' = << << << p, 4 >> >>, << << p + l - 4, 4 >> >> >>
     \/ /\ l > 0 /\ l < 4
        /\ short' = << << << p, 1 >> >>,
                       << << p + l \div 2, 1 >>, << p + l - 1, 1 >> >> >>
     \/ /\ l = 0
        /\ short' = << << >>, << >> >>
  /\ pc' = "done"
  /\ UNCHANGED << call, p, l, pe, h, wp >>

(* 17..31 bytes, straight-line: no round, so no wall.                      *)
TailTier ==
  /\ pc = "dispatch" /\ Tiers /\ l > 16 /\ l < 32
  /\ h' = TailLast(TailHead(h, 0), l)
  /\ pc' = "done"
  /\ UNCHANGED << call, p, l, pe, wp, short >>

(* 32..63, 64..127, 128..191, 192..255 bytes, straight-line: the rounds    *)
(* the band shares, from 64 bytes on one more for its upper half, the wall,*)
(* and the tail, whose tests are on the original length.                   *)
TierRounds ==
  LET shared == CASE l < 64              -> 1
                  [] l \in 64 .. 127     -> 2
                  [] l \in 128 .. 191    -> 4
                  [] OTHER               -> 6
  IN  IF l >= 64 /\ l >= 32 * shared + 32 THEN shared + 1 ELSE shared

(* Mutant of RoundTier: the test for the head is l > 32 * k + 24.          *)
RoundTierShortHead ==
  /\ pc = "dispatch" /\ Tiers /\ l >= 32 /\ l < 256
  /\ LET k      == TierRounds
         walled == Absorb(Rounds(h, 0, k, None), 0, Rot(32 * k - 8))
         headed == IF l > 32 * k + 24 THEN TailHead(walled, 32 * k) ELSE walled
     IN  h' = IF l > 32 * k THEN TailLast(headed, l) ELSE headed
  /\ pc' = "done"
  /\ UNCHANGED << call, p, l, pe, wp, short >>

RoundTier ==
  /\ pc = "dispatch" /\ Tiers /\ l >= 32 /\ l < 256
  /\ LET k      == TierRounds
         walled == Absorb(Rounds(h, 0, k, None), 0, Rot(32 * k - 8))
         headed == IF l > 32 * k + 16 THEN TailHead(walled, 32 * k) ELSE walled
     IN  h' = IF l > 32 * k THEN TailLast(headed, l) ELSE headed
  /\ pc' = "done"
  /\ UNCHANGED << call, p, l, pe, wp, short >>

(* Everything else below 320 bytes takes the loop of mid rounds.           *)
EnterMid ==
  /\ pc = "dispatch" /\ l > 16 /\ l < 320
  /\ Tiers => l >= 256
  /\ pc' = IF Tiers THEN "midpair" ELSE "mid"
  /\ UNCHANGED << call, p, l, pe, h, wp, short >>

(* Two rounds per iteration, only after the tiers.                         *)
MidPair ==
  /\ pc = "midpair"
  /\ IF l >= 64
     THEN /\ h' = Rounds(h, p, 2, wp) /\ wp' = p + 56
          /\ p' = p + 64 /\ l' = l - 64
          /\ UNCHANGED pc
     ELSE pc' = "lastmid" /\ UNCHANGED << h, wp, p, l >>
  /\ UNCHANGED << call, pe, short >>

(* Mutant of MidRound: the test is the one of the tail.                    *)
MidRoundEarly ==
  /\ pc \in {"mid", "lastmid"}
  /\ IF l > 16
     THEN /\ h' = Rounds(h, p, 1, wp) /\ wp' = p + 24
          /\ p' = p + 32 /\ l' = l - 32
          /\ pc' = IF pc = "mid" THEN "mid" ELSE "wall"
     ELSE pc' = "wall" /\ UNCHANGED << h, wp, p, l >>
  /\ UNCHANGED << call, pe, short >>

(* One round: an if after the bulk loop (where l < 64) and after MidPair,  *)
(* a loop otherwise.                                                       *)
MidRound ==
  /\ pc \in {"mid", "lastmid"}
  /\ IF l >= 32
     THEN /\ h' = Rounds(h, p, 1, wp) /\ wp' = p + 24
          /\ p' = p + 32 /\ l' = l - 32
          /\ pc' = IF pc = "mid" THEN "mid" ELSE "wall"
     ELSE pc' = "wall" /\ UNCHANGED << h, wp, p, l >>
  /\ UNCHANGED << call, pe, short >>

(***************************************************************************)
(* 320 bytes and more.                                                     *)
(***************************************************************************)

(* Mutant of EndOfPairs: the mask of one block.                            *)
EndOfOneBlocks == len - (len % 64)

(* pe, relative to the start of the input.                                 *)
EndOfPairs == len - (len % 128)

EnterBulk ==
  /\ pc = "dispatch" /\ l >= 320
  /\ IF TwoBlocks
     THEN pe' = EndOfPairs /\ l' = l % 128 /\ pc' = "pairs"
     ELSE pc' = "blocks" /\ UNCHANGED << pe, l >>
  /\ UNCHANGED << call, p, h, wp, short >>

(* do { two blocks } while (p != pe), then one more block if 64 bytes are  *)
(* left.                                                                   *)
BlockPair ==
  /\ pc = "pairs"
  /\ h' = Blocks(h, p, 2, wp) /\ wp' = p + 120
  /\ p' = p + 128
  /\ pc' = IF p' # pe THEN "pairs" ELSE "oddblock"
  /\ UNCHANGED << call, l, pe, short >>

OddBlock ==
  /\ pc = "oddblock"
  /\ IF l >= 64
     THEN /\ h' = Blocks(h, p, 1, wp) /\ wp' = p + 56
          /\ p' = p + 64 /\ l' = l - 64
     ELSE UNCHANGED << h, wp, p, l >>
  /\ pc' = "fold"
  /\ UNCHANGED << call, pe, short >>

(* do { one block } while (l >= 64)                                        *)
OneBlock ==
  /\ pc = "blocks"
  /\ h' = Blocks(h, p, 1, wp) /\ wp' = p + 56
  /\ p' = p + 64 /\ l' = l - 64
  /\ pc' = IF l' >= 64 THEN "blocks" ELSE "fold"
  /\ UNCHANGED << call, pe, short >>

(* hayahash64 under wasm runs the bulk loop in line and falls through to   *)
(* the loop of mid rounds; the other spellings of the header, in line or   *)
(* outlined, have an if of their own.  The ports fall through for both     *)
(* widths.                                                                 *)
Fold ==
  /\ pc = "fold"
  /\ h' = Folded(h)
  /\ pc' = IF build.lang \in Ports \/ (build.wasm /\ width = 64) THEN "mid" ELSE "lastmid"
  /\ UNCHANGED << call, p, l, pe, wp, short >>

(***************************************************************************)
(* The end of every path that has a loop.                                  *)
(***************************************************************************)

Wall ==
  /\ pc = "wall"
  /\ h' = IF wp = None THEN h ELSE Absorb(h, 0, Rot(wp))
  /\ pc' = "tail"
  /\ UNCHANGED << call, p, l, pe, wp, short >>

(* The header tests l untouched, and p + l is the end of the input.        *)
TailBytes ==
  /\ pc = "tail" /\ build.lang = "C"
  /\ LET headed == IF l > 16 THEN TailHead(h, p) ELSE h
     IN  h' = IF l > 0 THEN TailLast(headed, p + l) ELSE headed
  /\ pc' = "done"
  /\ UNCHANGED << call, p, l, pe, wp, short >>

(* The ports take the head off what is left before the second test, where  *)
(* something still is.  In these it moves p and l.                         *)
MovedTail ==
  /\ pc = "tail" /\ build.lang \in {"Java", "C#", "Swift", "JS"}
  /\ IF l > 16 THEN p' = p + 16 /\ l' = l - 16 ELSE UNCHANGED << p, l >>
  /\ LET headed == IF l > 16 THEN TailHead(h, p) ELSE h
     IN  h' = IF l' > 0 THEN TailLast(headed, p' + l') ELSE headed
  /\ pc' = "done"
  /\ UNCHANGED << call, pe, wp, short >>

(* In these it moves only l, and the end of the input is its length.       *)
CountedTail ==
  /\ pc = "tail" /\ build.lang \in {"Go", "Rust", "Zig"}
  /\ l' = IF l > 16 THEN l - 16 ELSE l
  /\ LET headed == IF l > 16 THEN TailHead(h, p) ELSE h
     IN  h' = IF l' > 0 THEN TailLast(headed, len) ELSE headed
  /\ pc' = "done"
  /\ UNCHANGED << call, p, pe, wp, short >>

(* The caller has its digest.                                              *)
Return == pc = "done" /\ UNCHANGED vars

Next ==
  \/ ShortPath
  \/ TailTier
  \/ RoundTier
  \/ EnterMid
  \/ MidPair
  \/ MidRound
  \/ EnterBulk
  \/ BlockPair
  \/ OddBlock
  \/ OneBlock
  \/ Fold
  \/ Wall
  \/ TailBytes
  \/ MovedTail
  \/ CountedTail
  \/ Return

Spec == Init /\ [][Next]_vars

(***************************************************************************)
(* Properties.                                                             *)
(***************************************************************************)

(* The lanes that the walk of Walk.tla ends with, from its digest record:  *)
(* the words of each part, each joined by the one before it.               *)
W == INSTANCE Walk WITH Block <- 64, Round <- 32, Pair <- 16, BulkMin <- 320

Words(bytes) == [i \in 1 .. Len(bytes) \div 8 |-> bytes[8 * i - 7]]

Join(words, i) == Mix(words[i], IF i = 1 THEN None ELSE words[i - 1])

WideLane(bulk, j) ==
  IF j = 0
  THEN [i \in 1 .. 2 * (Len(bulk) \div 8) |->
          IF i % 2 = 1 THEN Join(bulk, 4 * i - 3) ELSE Added(bulk[4 * i])]
  ELSE [b \in 1 .. Len(bulk) \div 8 |-> Join(bulk, 8 * b - 7 + j)]

WalkLanes(d) ==
  LET bulk     == Words(d.blocks)
      all      == bulk \o Words(d.rounds)
      merge(j) == IF bulk = << >> THEN << >> ELSE << Merge(WideLane(bulk, j + 4)) >>
      mid(j)   == [r \in 1 .. (Len(all) - Len(bulk)) \div 4 |->
                     Join(all, Len(bulk) + 4 * r - 3 + j)]
      wall(j)  == IF j = 0 /\ all # << >> THEN << Rot(all[Len(all)]) >> ELSE << >>
      tail(j)  == LET words == IF j < 2 THEN Words(d.head) ELSE Words(d.last)
                  IN  IF words = << >> THEN << >> ELSE << Inj(words[1 + (j % 2)]) >>
  IN  [j \in Lanes |->
         IF j > 3 THEN << >>
         ELSE WideLane(bulk, j) \o merge(j) \o mid(j) \o wall(j) \o tail(j)]

(* The words of a lane, and those of the upper lanes merged into it.       *)
WordsOf(lane) == {lane[i].w : i \in {k \in DOMAIN lane : lane[k].op # "merge"}}

Merged(lane) ==
  UNION {WordsOf(lane[i].lane) : i \in {k \in DOMAIN lane : lane[k].op = "merge"}}

LaneWords(lanes) == UNION {WordsOf(lanes[j]) \cup Merged(lanes[j]) : j \in Lanes}

(* Loads made so far that reach the digest, as << offset, size >>.         *)
ShortLoads == UNION {{short[k][i] : i \in DOMAIN short[k]} : k \in DOMAIN short}

Loads == {<< w, 8 >> : w \in LaneWords(h)} \cup ShortLoads

(* hayahash.h: the straight-line, unrolled and inline spellings are "bit-  *)
(* identical", and the low word of hayahash128 "is exactly hayahash64() for*)
(* every input and seed".  Every build and both widths end with the lanes  *)
(* of the one walk.                                                        *)
SameWalk ==
  pc = "done" /\ len > 16 =>
    h = WalkLanes(W!OneShot(width, 0, W!NextBytes(start, len)))

(* hayahash.h: "keyIn must point to at least len readable bytes" is all    *)
(* that is asked of the caller.  No load reaches outside them, at any step.*)
ReadsInside == \A r \in Loads : r[1] >= start /\ r[1] + r[2] <= start + len

(* Every byte of the input reaches the digest, in the overlapping words of *)
(* the short path and of the tail too.                                     *)
EveryByteRead ==
  pc = "done" =>
    \A b \in start .. start + len - 1 : \E r \in Loads : b \in r[1] .. r[1] + r[2] - 1

(* The loops advance and stop: no iteration passes the end it tests for,   *)
(* which for the unrolled loop is an equality with pe.                     *)
LoopsAdvance ==
  [][p' # p => /\ p' > p
               /\ pc = "pairs" => p' <= pe
               /\ pc # "pairs" => p' + l' = start + len /\ l' >= 0 ]_vars

(***************************************************************************)
(* The inductive invariant (see OneShotProofs): the lanes are those of so  *)
(* many whole blocks and mid rounds, and p and l are where these end.      *)
(***************************************************************************)
CallOK ==
  /\ build \in Builds /\ width \in {64, 128} /\ len \in Lengths /\ start \in Nat
  /\ build.lang # "Java" => start = 0

(* The word the next one is joined with.                                   *)
WordBefore(at) == IF at = start THEN None ELSE at - 8

AfterBlocks(b) == Blocks(Fresh, start, b, None)

AllBlocks == IF len >= 320 THEN len \div 64 ELSE 0
AllRounds == (len - 64 * AllBlocks) \div 32

AfterRounds(r) ==
  LET at == start + 64 * AllBlocks
  IN  Rounds(IF AllBlocks = 0 THEN Fresh ELSE Folded(AfterBlocks(AllBlocks)),
             at, r, WordBefore(at))

Done    == 64 * AllBlocks + 32 * AllRounds
Walled  == IF Done = 0 THEN AfterRounds(AllRounds)
           ELSE Absorb(AfterRounds(AllRounds), 0, Rot(start + Done - 8))
Ended ==
  LET headed == IF len > Done + 16 THEN TailHead(Walled, start + Done) ELSE Walled
  IN  IF len > Done THEN TailLast(headed, start + len) ELSE headed

InBlocks(b) ==
  /\ p = start + 64 * b /\ h = AfterBlocks(b) /\ wp = WordBefore(p)
  /\ len >= 320

InRounds(r) ==
  /\ p = start + 64 * AllBlocks + 32 * r /\ p + l = start + len
  /\ h = AfterRounds(r) /\ wp = WordBefore(p)

IInv ==
  /\ CallOK /\ l \in Nat
  /\ pc \in {"dispatch", "blocks", "pairs", "oddblock", "fold", "midpair", "mid",
             "lastmid", "wall", "tail", "done"}
  /\ pc = "dispatch" => p = start /\ l = len /\ h = Fresh /\ wp = None
  /\ pc = "blocks" => \E b \in Nat : InBlocks(b) /\ p + l = start + len /\ l >= 64
  /\ pc \in {"pairs", "oddblock"} =>
       /\ start = 0 /\ l = len % 128
       /\ \E b \in Nat : InBlocks(2 * b)
  /\ pc = "pairs" => pe = EndOfPairs /\ p < pe
  /\ pc = "oddblock" => p + l = len
  /\ pc = "fold" => InBlocks(AllBlocks) /\ p + l = start + len
  /\ pc \in {"midpair", "mid", "lastmid", "wall"} => \E r \in Nat : InRounds(r)
  /\ pc \in {"midpair", "mid", "lastmid", "wall", "tail"} => len > 16
  /\ pc = "lastmid" => l < 64
  /\ pc = "wall" => l < 32
  /\ pc = "tail" => p = start + Done /\ l = len - Done /\ h = Walled
  /\ pc = "done" /\ len > 16 => h = Ended
  /\ pc = "done" /\ len <= 16 => ReadsInside /\ EveryByteRead
  /\ pc # "done" \/ len > 16 => short = << >>
=============================================================================
