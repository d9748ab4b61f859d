------------------------ MODULE HaskellHasherProofs ------------------------
(***************************************************************************)
(* Proofs about HaskellHasher, for every block, floor and capacity that    *)
(* meets its assumptions, every set of call lengths and every message      *)
(* length.                                                                 *)
(***************************************************************************)
EXTENDS HaskellHasher, WalkProofs

(* What the assumptions on the sizes say.                                  *)
LEMMA SizeFacts ==
  /\ Keep \in Nat \ {0} /\ BufCap \in Nat /\ BulkMin \in Nat
  /\ Keep % Block = 0 /\ (BufCap - Keep) % Block = 0
  /\ Keep + Block <= BufCap /\ BulkMin <= BufCap /\ BulkMin > Pair
  /\ Block = 2 * Round /\ Round = 2 * Pair
BY HaskellAssumption, WalkAssumption

(* A floor that is a positive multiple of Block is at least Block.         *)
LEMMA FloorIsABlock == Keep >= Block
<1>1. CASE Keep < Block
  <2>1. ((Block * 0) + Keep) % Block = Keep
    <3>1. Keep \in 0 .. (Block - 1)
      BY <1>1, SizeFacts, SizesPositive, SMT
    <3>2. QED
      BY <3>1, ModUnique, SizesPositive
  <2>2. (Block * 0) + Keep = Keep
    BY SizeFacts, SizesPositive, SMT
  <2>3. QED
    BY <2>1, <2>2, SizeFacts
<1>2. QED
  BY <1>1, SizeFacts, SizesPositive, SMT

(***************************************************************************)
(* Taking, dropping and absorbing parts of a run of message bytes.         *)
(***************************************************************************)

(* The first x bytes of a run, and what follows them.                      *)
LEMMA CutRun ==
  ASSUME NEW k \in Nat, NEW l \in Nat, NEW x \in 0 .. l
  PROVE  /\ BSTake(x, NextBytes(k, l)) = NextBytes(k, x)
         /\ BSDrop(x, NextBytes(k, l)) = NextBytes(k + x, l - x)
<1>1. BSTake(x, NextBytes(k, l)) = NextBytes(k, x)
  BY SMT DEF NextBytes, BSTake
<1>2. BSDrop(x, NextBytes(k, l)) = NextBytes(k + x, l - x)
  BY SMT DEF NextBytes, BSDrop
<1>3. QED
  BY <1>1, <1>2

(* Lanes that absorb whole blocks off the front of the run that comes next *)
(* hold a longer prefix of the message.                                    *)
LEMMA AbsorbRun ==
  ASSUME NEW k \in Nat, NEW l \in Nat, NEW x \in 0 .. l, (x % Block) = 0
  PROVE  AbsorbBlocks(NextBytes(k, l), x, NextBytes(0, k)) = NextBytes(0, k + x)
<1>1. Load(NextBytes(k, l), 1, x) = NextBytes(k, x)
  <2>1. /\ DOMAIN NextBytes(k, l) = 1 .. l
        /\ \A i \in 1 .. l : NextBytes(k, l)[i] = k + i - 1
    BY NextBytesType
  <2>2. \A i \in 1 .. x : i \in 1 .. l
    BY SMT
  <2>3. HoldsFrom(NextBytes(k, l), l, k, x)
    BY <2>1, <2>2 DEF HoldsFrom
  <2>4. QED
    BY <2>3, LoadFront
<1>2. NextBytes(0, k) \o NextBytes(0 + k, x) = NextBytes(0, k + x)
  <2>1. 0 \in Nat /\ x \in Nat
    BY SMT
  <2>2. QED
    BY <2>1, NextBytesConcat
<1>3. 0 + k = k
  BY SMT
<1>4. QED
  BY <1>1, <1>2, <1>3 DEF AbsorbBlocks

(***************************************************************************)
(* feedBulk                                                                *)
(***************************************************************************)

(* The lanes hold the first k bytes, whole blocks, and the buffer the rest *)
(* up to offset e, no less than a floor and less than a block more.        *)
CutAt(f, k, e) ==
  /\ k \in Nat /\ (k % Block) = 0
  /\ f.lanes = NextBytes(0, k)
  /\ f.buffer = NextBytes(k, e - k)
  /\ e - k \in Keep .. (Keep + Block - 1)

Cut(f, e) == \E k \in Nat : CutAt(f, k, e)

(* From the floor, whatever the length of the input.                       *)
LEMMA FeedAtFloorCuts ==
  ASSUME NEW k \in Nat, (k % Block) = 0, NEW x \in Nat
  PROVE  Cut(FeedAtFloor(NextBytes(0, k), NextBytes(k, Keep),
                         NextBytes(k + Keep, x)),
             (k + Keep) + x)
<1> DEFINE held   == NextBytes(k, Keep)
           input  == NextBytes(k + Keep, x)
           joined == held \o input
           f      == FeedAtFloor(NextBytes(0, k), held, input)
           e      == (k + Keep) + x
<1>1. /\ Keep \in Nat /\ k + Keep \in Nat /\ e \in Nat /\ Keep + x \in Nat
      /\ BufCap \in Nat /\ Block \in Nat /\ Block > 0
  BY SizeFacts, SizesPositive, SMT
<1>2. Len(input) = x /\ (input = << >> <=> x = 0)
  <2>1. Len(input) = x
    BY <1>1, NextBytesType
  <2>2. x = 0 => input = << >>
    BY SMT DEF NextBytes
  <2>3. QED
    BY <2>1, <2>2
<1>3. joined = NextBytes(k, Keep + x) /\ Len(joined) = Keep + x
  <2>1. joined = NextBytes(k, Keep + x)
    BY <1>1, NextBytesConcat
  <2>2. Len(NextBytes(k, Keep + x)) = Keep + x
    BY <1>1, NextBytesType
  <2>3. QED
    BY <2>1, <2>2
<1>4. (k + Keep) % Block = 0
  BY <1>1, SizeFacts, MultiplesAdd
<1>5. CASE x = 0
  <2>1. f = Fed(NextBytes(0, k), held)
    <3>1. input = << >> /\ ~(Len(input) > BufCap)
      BY <1>5, <1>2, <1>1, SMT
    <3>2. QED
      BY <3>1 DEF FeedAtFloor
  <2>2. e - k = Keep /\ Keep \in Keep .. (Keep + Block - 1)
    BY <1>5, <1>1, SMT
  <2>3. f.lanes = NextBytes(0, k) /\ f.buffer = NextBytes(k, e - k)
    BY <2>1, <2>2 DEF Fed
  <2>4. CutAt(f, k, e)
    BY <2>2, <2>3 DEF CutAt
  <2>5. QED
    BY <2>4 DEF Cut
<1>6. CASE x # 0 /\ x > BufCap
  <2> DEFINE d == WholeBlocks(x - Keep)
             c == (k + Keep) + d
  <2>1. x - Keep \in Nat
    BY <1>6, SizeFacts, SizesPositive, SMT
  <2>2. /\ d \in 0 .. (x - Keep) /\ (x - Keep) - d \in 0 .. (Block - 1)
        /\ (d % Block) = 0
    BY <2>1, WholeBlocksBounds
  <2>3. d \in 0 .. x /\ d \in Nat /\ c \in Nat
    <3> HIDE DEF d
    <3>1. QED
      BY <2>2, <2>1, <1>1, SMT
  <2>4. f = Fed(AbsorbBlocks(input, d, AbsorbBlocks(held, Keep, NextBytes(0, k))),
                BSDrop(d, input))
    BY <1>6, <1>2 DEF FeedAtFloor, Direct
  <2>5. AbsorbBlocks(held, Keep, NextBytes(0, k)) = NextBytes(0, k + Keep)
    <3>1. Keep \in 0 .. Keep /\ (Keep % Block) = 0
      BY SizeFacts, SMT
    <3>2. QED
      BY <3>1, <1>1, AbsorbRun
  <2>6. AbsorbBlocks(input, d, NextBytes(0, k + Keep)) = NextBytes(0, c)
    BY <2>2, <2>3, <1>1, AbsorbRun
  <2>7. BSDrop(d, input) = NextBytes(c, x - d)
    BY <2>3, <1>1, CutRun
  <2>8. e - c = x - d /\ x - d \in Keep .. (Keep + Block - 1)
    <3> HIDE DEF d
    <3>1. QED
      BY <2>2, <2>3, <2>1, <1>1, SMT
  <2>9. (c % Block) = 0
    <3> HIDE DEF d
    <3>1. QED
      BY <2>2, <2>3, <1>4, <1>1, MultiplesAdd
  <2>10. f.lanes = NextBytes(0, c) /\ f.buffer = NextBytes(c, e - c)
    BY <2>4, <2>5, <2>6, <2>7, <2>8 DEF Fed
  <2>11. CutAt(f, c, e)
    BY <2>3, <2>8, <2>9, <2>10 DEF CutAt
  <2>12. QED
    BY <2>3, <2>11 DEF Cut
<1>7. CASE x # 0 /\ ~(x > BufCap)
  <2> DEFINE d == Consume(Keep + x)
             c == k + d
  <2>1. f = Fed(AbsorbBlocks(joined, d, NextBytes(0, k)), BSDrop(d, joined))
    BY <1>7, <1>2, <1>3 DEF FeedAtFloor
  <2>2. /\ d \in 0 .. x /\ x - d \in 0 .. (Block - 1) /\ (d % Block) = 0
    <3>1. CASE Keep + x >= Keep + Block
      <4>1. (Keep + x) - Keep = x
        BY <1>1, SMT
      <4>2. d = WholeBlocks(x)
        BY <3>1, <4>1 DEF Consume
      <4>3. QED
        BY <4>2, WholeBlocksBounds
    <3>2. CASE ~(Keep + x >= Keep + Block)
      <4>1. d = 0
        BY <3>2 DEF Consume
      <4>2. 0 \in 0 .. x /\ x - 0 \in 0 .. (Block - 1)
        BY <3>2, <1>1, SMT
      <4>3. (0 % Block) = 0
        <5>1. ((Block * 0) + 0) % Block = 0
          BY <4>2, <1>1, ModUnique, SMT
        <5>2. QED
          BY <5>1, <1>1, SMT
      <4>4. QED
        BY <4>1, <4>2, <4>3
    <3>3. QED
      BY <3>1, <3>2
  <2> HIDE DEF d
  <2>3. d \in 0 .. (Keep + x) /\ d \in Nat /\ c \in Nat
    BY <2>2, <1>1, SMT
  <2>4. AbsorbBlocks(joined, d, NextBytes(0, k)) = NextBytes(0, c)
    <3>1. AbsorbBlocks(NextBytes(k, Keep + x), d, NextBytes(0, k))
            = NextBytes(0, k + d)
      BY <2>2, <2>3, <1>1, AbsorbRun
    <3>2. QED
      BY <3>1, <1>3
  <2>5. BSDrop(d, joined) = NextBytes(c, (Keep + x) - d)
    <3>1. BSDrop(d, NextBytes(k, Keep + x)) = NextBytes(k + d, (Keep + x) - d)
      BY <2>3, <1>1, CutRun
    <3>2. QED
      BY <3>1, <1>3
  <2>6. e - c = (Keep + x) - d /\ (Keep + x) - d \in Keep .. (Keep + Block - 1)
    BY <2>2, <2>3, <1>1, SMT
  <2>7. (c % Block) = 0
    BY <2>2, <2>3, <1>1, MultiplesAdd
  <2>8. f.lanes = NextBytes(0, c) /\ f.buffer = NextBytes(c, e - c)
    BY <2>1, <2>4, <2>5, <2>6 DEF Fed
  <2>9. CutAt(f, c, e)
    BY <2>3, <2>6, <2>7, <2>8 DEF CutAt
  <2>10. QED
    BY <2>3, <2>9 DEF Cut
<1>8. QED
  BY <1>5, <1>6, <1>7

(* Up to one block above the floor.                                        *)
LEMMA NeededIs ==
  ASSUME NEW bytes
  PROVE  Needed(bytes) = (Keep + Block) - Len(bytes)
BY DEF Needed

(* From any fill level the bulk path leaves between calls.                 *)
LEMMA FeedBulkCuts ==
  ASSUME NEW k \in Nat, (k % Block) = 0,
         NEW l \in Keep .. (Keep + Block - 1), NEW x \in Nat
  PROVE  Cut(FeedBulk(NextBytes(0, k), NextBytes(k, l), NextBytes(k + l, x)),
             (k + l) + x)
<1> DEFINE held   == NextBytes(k, l)
           input  == NextBytes(k + l, x)
           needed == (Keep + Block) - l
           f      == FeedBulk(NextBytes(0, k), held, input)
           e      == (k + l) + x
<1>1. /\ Keep \in Nat /\ Block \in Nat /\ l \in Nat /\ k + l \in Nat /\ e \in Nat
      /\ needed \in 1 .. Block
  BY SizeFacts, SizesPositive, SMT
<1>2. Len(held) = l /\ Len(input) = x /\ (input = << >> <=> x = 0)
  <2>1. Len(held) = l /\ Len(input) = x
    BY <1>1, NextBytesType
  <2>2. x = 0 => input = << >>
    BY SMT DEF NextBytes
  <2>3. QED
    BY <2>1, <2>2
<1>3. CASE l = Keep
  <2>1. f = FeedAtFloor(NextBytes(0, k), NextBytes(k, Keep), NextBytes(k + Keep, x))
    <3>1. Len(held) <= Keep
      BY <1>3, <1>1, <1>2, SMT
    <3>2. QED
      BY <3>1, <1>3 DEF FeedBulk
  <2>2. QED
    BY <2>1, <1>3, FeedAtFloorCuts
<1>4. CASE x = 0
  <2>1. input = << >> /\ ~(Len(input) > BufCap) /\ BufCap \in Nat
    BY <1>4, <1>2, SizeFacts, SMT
  <2>2. f = Fed(NextBytes(0, k), held)
    BY <2>1 DEF FeedBulk, FeedAtFloor
  <2>3. e - k = l
    BY <1>4, <1>1, SMT
  <2>4. f.lanes = NextBytes(0, k) /\ f.buffer = NextBytes(k, e - k)
    BY <2>2, <2>3 DEF Fed
  <2>5. CutAt(f, k, e)
    BY <2>3, <2>4 DEF CutAt
  <2>6. QED
    BY <2>5 DEF Cut
<1>5. CASE l # Keep /\ x # 0 /\ x < needed
  <2>1. f = Fed(NextBytes(0, k), held \o input)
    <3>1. ~(Len(held) <= Keep) /\ input # << >>
      BY <1>5, <1>1, <1>2, SMT
    <3>2. Needed(held) = needed
      <4>1. Needed(held) = (Keep + Block) - Len(held)
        BY NeededIs
      <4>2. Len(held) = l
        BY <1>2
      <4> HIDE DEF held
      <4>3. QED
        BY <4>1, <4>2
    <3>3. Len(input) < Needed(held)
      BY <1>5, <1>2, <3>2
    <3>4. QED
      BY <3>1, <3>3 DEF FeedBulk
  <2>2. held \o input = NextBytes(k, l + x)
    BY <1>1, NextBytesConcat
  <2>3. e - k = l + x /\ l + x \in Keep .. (Keep + Block - 1)
    BY <1>5, <1>1, SMT
  <2>4. f.lanes = NextBytes(0, k) /\ f.buffer = NextBytes(k, e - k)
    BY <2>1, <2>2, <2>3 DEF Fed
  <2>5. CutAt(f, k, e)
    BY <2>3, <2>4 DEF CutAt
  <2>6. QED
    BY <2>5 DEF Cut
<1>6. CASE l # Keep /\ x # 0 /\ ~(x < needed)
  <2> DEFINE joined == held \o BSTake(needed, input)
             rest   == x - needed
             c      == k + Block
  <2>1. /\ needed \in Nat /\ needed \in 0 .. x /\ rest \in Nat
        /\ l + needed = Keep + Block /\ Keep + Block \in Nat
        /\ c \in Nat /\ Block \in 0 .. (Keep + Block)
        /\ (Keep + Block) - Block = Keep
        /\ (k + l) + needed = c + Keep
    BY <1>6, <1>1, SMT
  <2>2. (Block % Block) = 0
    <3>1. ((Block * 1) + 0) % Block = 0 /\ Block * 1 = Block
      <4>1. 0 \in 0 .. (Block - 1) /\ 1 \in Nat /\ Block * 1 = Block
        BY SizesPositive, SMT
      <4>2. QED
        BY <4>1, SizesPositive, ModUnique
    <3>2. QED
      BY <3>1, <1>1, SMT
  <2>3. (c % Block) = 0
    BY <2>2, <1>1, MultiplesAdd
  <2>4. BSTake(needed, input) = NextBytes(k + l, needed)
    BY <2>1, <1>1, CutRun
  <2>5. BSDrop(needed, input) = NextBytes(c + Keep, rest)
    <3>1. BSDrop(needed, input) = NextBytes((k + l) + needed, x - needed)
      BY <2>1, <1>1, CutRun
    <3>2. QED
      BY <3>1, <2>1
  <2>6. joined = NextBytes(k, Keep + Block)
    <3>1. NextBytes(k, l) \o NextBytes(k + l, needed) = NextBytes(k, l + needed)
      <4> HIDE DEF needed
      <4>1. QED
        BY <2>1, <1>1, NextBytesConcat
    <3>2. QED
      BY <3>1, <2>1, <2>4
  <2>7. AbsorbBlocks(joined, Block, NextBytes(0, k)) = NextBytes(0, c)
    <3>1. AbsorbBlocks(NextBytes(k, Keep + Block), Block, NextBytes(0, k))
            = NextBytes(0, k + Block)
      BY <2>1, <2>2, <1>1, AbsorbRun
    <3>2. QED
      BY <3>1, <2>6
  <2>8. BSDrop(Block, joined) = NextBytes(c, Keep)
    <3>1. BSDrop(Block, NextBytes(k, Keep + Block))
            = NextBytes(k + Block, (Keep + Block) - Block)
      BY <2>1, <1>1, CutRun
    <3>2. QED
      BY <3>1, <2>1, <2>6
  <2>9. f = FeedAtFloor(AbsorbBlocks(joined, Block, NextBytes(0, k)),
                        BSDrop(Block, joined), BSDrop(needed, input))
    <3>1. ~(Len(held) <= Keep) /\ input # << >>
      BY <1>6, <1>1, <1>2, SMT
    <3>2. Needed(held) = needed
      <4>1. Needed(held) = (Keep + Block) - Len(held)
        BY NeededIs
      <4>2. Len(held) = l
        BY <1>2
      <4> HIDE DEF held
      <4>3. QED
        BY <4>1, <4>2
    <3>3. ~(Len(input) < Needed(held))
      BY <1>6, <1>2, <3>2
    <3>4. QED
      BY <3>1, <3>2, <3>3 DEF FeedBulk
  <2>10. f = FeedAtFloor(NextBytes(0, c), NextBytes(c, Keep), NextBytes(c + Keep, rest))
    BY <2>5, <2>7, <2>8, <2>9
  <2>11. Cut(FeedAtFloor(NextBytes(0, c), NextBytes(c, Keep),
                         NextBytes(c + Keep, rest)), (c + Keep) + rest)
    BY <2>1, <2>3, FeedAtFloorCuts
  <2>12. (c + Keep) + rest = e
    BY <2>1, <1>1, SMT
  <2>13. QED
    BY <2>10, <2>11, <2>12
<1>7. QED
  BY <1>3, <1>4, <1>5, <1>6

(***************************************************************************)
(* The invariant.                                                          *)
(***************************************************************************)

(* The empty run.                                                          *)
LEMMA FreshIsEmpty == NextBytes(0, 0) = << >> /\ Len(<< >>) = 0 /\ (0 % Block) = 0
<1>1. NextBytes(0, 0) = << >> /\ Len(<< >>) = 0
  BY SMT DEF NextBytes
<1>2. ((Block * 0) + 0) % Block = 0 /\ Block * 0 = 0
  <2>1. 0 \in 0 .. (Block - 1) /\ 0 \in Nat /\ Block * 0 = 0
    BY SizesPositive, SMT
  <2>2. QED
    BY <2>1, SizesPositive, ModUnique
<1>3. QED
  BY <1>1, <1>2, SMT

(* What the invariant says of a value, in the terms of a cut.              *)
LEMMA InvCuts ==
  ASSUME IInv
  PROVE  /\ Len(lanes) \in Nat /\ Len(buffer) \in Nat /\ total \in Nat
         /\ (Len(lanes) % Block) = 0
         /\ lanes = NextBytes(0, Len(lanes))
         /\ buffer = NextBytes(Len(lanes), Len(buffer))
         /\ Len(lanes) + Len(buffer) = total
         /\ seed \in Seeds /\ bulk \in BOOLEAN
BY DEF IInv, TypeOK, HoldsMessage

(* And the other way round, of a value that is committed to bulk.          *)
LEMMA CutEstablishes ==
  ASSUME NEW f, NEW e \in Nat, Cut(f, e), e >= BufCap,
         lanes' = f.lanes, buffer' = f.buffer, total' = e,
         bulk' = TRUE, seed' \in Seeds
  PROVE  IInv'
<1>1. PICK k \in Nat : CutAt(f, k, e)
  BY DEF Cut
<1>2. /\ (k % Block) = 0 /\ e - k \in Keep .. (Keep + Block - 1)
      /\ lanes' = NextBytes(0, k) /\ buffer' = NextBytes(k, e - k)
  BY <1>1 DEF CutAt
<1>3. e - k \in Nat /\ k + (e - k) = e /\ 0 \in Nat
  BY <1>2, SizeFacts, SizesPositive, SMT
<1>4. /\ lanes' \in Seq(Nat) /\ buffer' \in Seq(Nat)
      /\ Len(lanes') = k /\ Len(buffer') = e - k
  <2>1. NextBytes(0, k) \in Seq(Nat) /\ Len(NextBytes(0, k)) = k
    BY <1>3, NextBytesType
  <2>2. NextBytes(k, e - k) \in Seq(Nat) /\ Len(NextBytes(k, e - k)) = e - k
    BY <1>3, NextBytesType
  <2>3. QED
    BY <2>1, <2>2, <1>2
<1>5. TypeOK'
  BY <1>4 DEF TypeOK
<1>6. MemoryBounded'
  BY <1>2, <1>4 DEF MemoryBounded
<1>7. HoldsMessage'
  BY <1>2, <1>3, <1>4 DEF HoldsMessage
<1>8. QED
  BY <1>5, <1>6, <1>7 DEF IInv

(* newHasher establishes it.                                               *)
LEMMA InitEstablishes == Init => IInv
<1> SUFFICES ASSUME Init PROVE IInv
  OBVIOUS
<1>1. /\ lanes = << >> /\ buffer = << >> /\ seed \in Seeds
      /\ total = 0 /\ bulk = FALSE
  BY DEF Init
<1>2. TypeOK
  <2>1. << >> \in Seq(Nat) /\ 0 \in Nat
    BY SMT
  <2>2. QED
    BY <1>1, <2>1 DEF TypeOK
<1>3. MemoryBounded
  BY <1>1, FreshIsEmpty, SizeFacts, SizesPositive, SMT DEF MemoryBounded
<1>4. HoldsMessage
  BY <1>1, FreshIsEmpty, SMT DEF HoldsMessage
<1>5. QED
  BY <1>2, <1>3, <1>4 DEF IInv

(* newHasher, in place of another value.                                    *)
LEMMA NewHasherPreserves ==
  ASSUME NEW s \in Seeds, NewHasher(s)
  PROVE  IInv'
<1>1. /\ lanes' = << >> /\ buffer' = << >> /\ seed' \in Seeds
      /\ total' = 0 /\ bulk' = FALSE
  BY DEF NewHasher
<1>2. TypeOK'
  <2>1. << >> \in Seq(Nat) /\ 0 \in Nat
    BY SMT
  <2>2. QED
    BY <1>1, <2>1 DEF TypeOK
<1>3. MemoryBounded'
  BY <1>1, FreshIsEmpty, SizeFacts, SizesPositive, SMT DEF MemoryBounded
<1>4. HoldsMessage'
  BY <1>1, FreshIsEmpty, SMT DEF HoldsMessage
<1>5. QED
  BY <1>2, <1>3, <1>4 DEF IInv

(* An update that stays below the commit.                                  *)
LEMMA UpdateBufferedPreserves ==
  ASSUME IInv, NEW n \in Chunks, UpdateBuffered(n)
  PROVE  IInv'
<1>1. /\ n \in Nat /\ Len(buffer) + n < BufCap /\ ~bulk
      /\ buffer' = buffer \o NextBytes(total, n) /\ total' = total + n
      /\ lanes' = lanes /\ seed' = seed /\ bulk' = bulk
  BY HaskellAssumption DEF UpdateBuffered, Given, StaysBuffered, Input
<1>2. lanes = << >> /\ Len(lanes) = 0
  BY <1>1, FreshIsEmpty DEF IInv, HoldsMessage
<1>3. total \in Nat /\ Len(buffer) = total /\ buffer = NextBytes(0, total)
  BY <1>2, InvCuts
<1>4. buffer' = NextBytes(0, total + n)
  <2>1. NextBytes(0, total) \o NextBytes(0 + total, n) = NextBytes(0, total + n)
    BY <1>1, <1>3, NextBytesConcat
  <2>2. 0 + total = total
    BY <1>3, SMT
  <2>3. QED
    BY <2>1, <2>2, <1>1, <1>3
<1>5. total + n \in Nat /\ 0 + (total + n) = total + n /\ 0 \in Nat
  BY <1>1, <1>3, SMT
<1>6. buffer' \in Seq(Nat) /\ Len(buffer') = total + n
  BY <1>4, <1>5, NextBytesType
<1>7. TypeOK'
  BY <1>1, <1>5, <1>6, InvCuts DEF TypeOK, IInv
<1>8. MemoryBounded'
  BY <1>1, <1>3, <1>6 DEF MemoryBounded
<1>9. HoldsMessage'
  BY <1>1, <1>2, <1>4, <1>5, <1>6, FreshIsEmpty DEF HoldsMessage
<1>10. QED
  BY <1>7, <1>8, <1>9 DEF IInv

(* The commit: the first BufCap bytes fill the buffer, all of them above   *)
(* the floor are absorbed, and feedBulk takes the rest of the input.       *)
LEMMA UpdateCommitPreserves ==
  ASSUME IInv, NEW n \in Chunks, UpdateCommit(n)
  PROVE  IInv'
<1> DEFINE needed == BufCap - Len(buffer)
           prefix == buffer \o BSTake(needed, Input(n))
           f      == FeedBulk(AbsorbBlocks(prefix, BufCap - Keep, lanes),
                              BSDrop(BufCap - Keep, prefix),
                              BSDrop(needed, Input(n)))
           c      == BufCap - Keep
           rest   == n - needed
<1>1. /\ n \in Nat /\ ~bulk /\ ~(Len(buffer) + n < BufCap)
      /\ lanes' = f.lanes /\ buffer' = f.buffer
      /\ total' = total + n /\ bulk' = TRUE /\ seed' = seed
  BY HaskellAssumption DEF UpdateCommit, Given, StaysBuffered
<1> HIDE DEF f
<1>2. /\ lanes = << >> /\ lanes = NextBytes(0, 0)
      /\ total \in Nat /\ Len(buffer) = total /\ buffer = NextBytes(0, total)
      /\ Len(buffer) < BufCap
  <2>1. lanes = << >> /\ Len(buffer) < BufCap
    BY <1>1 DEF IInv, HoldsMessage, MemoryBounded
  <2>2. Len(lanes) = 0
    BY <2>1, FreshIsEmpty
  <2>3. QED
    BY <2>1, <2>2, InvCuts, FreshIsEmpty
<1>3. /\ needed \in Nat /\ needed \in 0 .. n /\ rest \in Nat
      /\ total + needed = BufCap /\ BufCap \in Nat /\ Keep \in Nat
      /\ c \in Nat /\ c \in 0 .. BufCap /\ (c % Block) = 0
      /\ BufCap - c = Keep /\ c + Keep = BufCap /\ 0 + c = c
      /\ BufCap + rest = total + n
  BY <1>1, <1>2, SizeFacts, SizesPositive, SMT
<1> HIDE DEF needed, c, rest
<1>4. /\ BSTake(needed, NextBytes(total, n)) = NextBytes(total, needed)
      /\ BSDrop(needed, NextBytes(total, n)) = NextBytes(total + needed, n - needed)
  <2>1. total \in Nat /\ n \in Nat /\ needed \in 0 .. n
    BY <1>1, <1>2, <1>3
  <2>2. QED
    BY <2>1, CutRun
<1>5. prefix = NextBytes(0, BufCap)
  <2>1. NextBytes(0, total) \o NextBytes(0 + total, needed)
          = NextBytes(0, total + needed)
    <3>1. 0 \in Nat /\ total \in Nat /\ needed \in Nat
      BY <1>2, <1>3
    <3>2. QED
      BY <3>1, NextBytesConcat
  <2>2. 0 + total = total
    BY <1>2, SMT
  <2>3. QED
    BY <2>1, <2>2, <1>2, <1>3, <1>4 DEF Input
<1>6. AbsorbBlocks(prefix, c, lanes) = NextBytes(0, c)
  <2>1. AbsorbBlocks(NextBytes(0, BufCap), c, NextBytes(0, 0)) = NextBytes(0, 0 + c)
    BY <1>3, AbsorbRun
  <2>2. QED
    BY <2>1, <1>2, <1>3, <1>5
<1>7. BSDrop(c, prefix) = NextBytes(c, Keep)
  <2>1. BSDrop(c, NextBytes(0, BufCap)) = NextBytes(0 + c, BufCap - c)
    BY <1>3, CutRun
  <2>2. QED
    BY <2>1, <1>3, <1>5
<1>8. f = FeedBulk(NextBytes(0, c), NextBytes(c, Keep), NextBytes(c + Keep, rest))
  BY <1>3, <1>4, <1>6, <1>7 DEF f, c, rest, Input
<1>9. Cut(FeedBulk(NextBytes(0, c), NextBytes(c, Keep), NextBytes(c + Keep, rest)),
          (c + Keep) + rest)
  <2>1. Keep \in Keep .. (Keep + Block - 1)
    BY SizeFacts, SizesPositive, SMT
  <2>2. QED
    BY <2>1, <1>3, FeedBulkCuts
<1>10. Cut(f, total + n) /\ total + n \in Nat /\ total + n >= BufCap
  <2>1. (c + Keep) + rest = total + n
    BY <1>3
  <2>2. total + n \in Nat /\ total + n >= BufCap
    BY <1>1, <1>2, SizeFacts, SMT
  <2>3. QED
    BY <2>1, <2>2, <1>8, <1>9
<1>11. seed' \in Seeds
  BY <1>1, InvCuts
<1>12. QED
  BY <1>1, <1>10, <1>11, CutEstablishes

(* An update of a value that is committed.                                 *)
LEMMA UpdateBulkPreserves ==
  ASSUME IInv, NEW n \in Chunks, UpdateBulk(n)
  PROVE  IInv'
<1> DEFINE k == Len(lanes)
           l == Len(buffer)
           f == FeedBulk(lanes, buffer, Input(n))
<1>1. /\ n \in Nat /\ bulk
      /\ lanes' = f.lanes /\ buffer' = f.buffer
      /\ total' = total + n /\ bulk' = bulk /\ seed' = seed
  BY HaskellAssumption DEF UpdateBulk, Given
<1>2. /\ k \in Nat /\ (k % Block) = 0 /\ k + l = total /\ total \in Nat
      /\ lanes = NextBytes(0, k) /\ buffer = NextBytes(k, l)
      /\ l \in Keep .. (Keep + Block - 1) /\ total >= BufCap
  BY <1>1, InvCuts DEF IInv, MemoryBounded, HoldsMessage
<1>3. f = FeedBulk(NextBytes(0, k), NextBytes(k, l), NextBytes(k + l, n))
  BY <1>2 DEF Input
<1> HIDE DEF f, k, l
<1>4. Cut(f, (k + l) + n)
  BY <1>1, <1>2, <1>3, FeedBulkCuts
<1>5. total + n \in Nat /\ total + n >= BufCap
  BY <1>1, <1>2, SizeFacts, SMT
<1>6. Cut(f, total + n) /\ seed' \in Seeds /\ bulk' = TRUE
  BY <1>1, <1>2, <1>4, InvCuts
<1>7. QED
  BY <1>1, <1>5, <1>6, CutEstablishes

(* The step case, one fact for each operation.                             *)
LEMMA NextPreserves == IInv /\ [Next]_vars => IInv'
<1> SUFFICES ASSUME IInv, [Next]_vars PROVE IInv'
  OBVIOUS
<1>1. ASSUME UNCHANGED hasher PROVE IInv'
  BY <1>1 DEF hasher, IInv, TypeOK, MemoryBounded, HoldsMessage
<1>2. ASSUME NEW w \in Widths, Digest(w) PROVE IInv'
  BY <1>1, <1>2 DEF Digest
<1>3. CASE UNCHANGED vars
  BY <1>1, <1>3 DEF vars
<1>4. QED
  BY <1>2, <1>3, NewHasherPreserves, UpdateBufferedPreserves,
     UpdateCommitPreserves, UpdateBulkPreserves DEF Next

(* Every value a program can make of a Hasher keeps its bounds on memory   *)
(* and holds its message, whole blocks of it in the lanes.                 *)
THEOREM Inductive == Spec => []IInv
BY InitEstablishes, NextPreserves, PTL DEF Spec

(* At most BufCap - 1 bytes are retained before the commit, Keep to        *)
(* Keep + Block - 1 after it.                                              *)
THEOREM MemoryIsBounded == Spec => []MemoryBounded
<1>1. IInv => MemoryBounded
  BY DEF IInv
<1>2. QED
  BY <1>1, Inductive, PTL

-----------------------------------------------------------------------------
(***************************************************************************)
(* Digests.                                                                *)
(***************************************************************************)

(* Fewer than a block of bytes are at most one round.                      *)
LEMMA OneRoundAtMost ==
  ASSUME NEW l \in Nat, NEW at \in 0 .. l, l - at \in 0 .. (Block - 1)
  PROVE  MidEnd(l, at) = IF l - at >= Round THEN at + Round ELSE at
<1> DEFINE x == l - at
<1>1. /\ x \in 0 .. (Block - 1) /\ Block = 2 * Round
      /\ Round \in Nat \ {0} /\ at \in Nat /\ x \in Nat
  BY SizeFacts, SizesPositive, SMT
<1>2. MidEnd(l, at) = at + (x - (x % Round))
  BY DEF MidEnd
<1> HIDE DEF x
<1>3. CASE x >= Round
  <2>1. /\ x - Round \in 0 .. (Round - 1) /\ 1 \in Nat
        /\ (Round * 1) + (x - Round) = x
    BY <1>1, <1>3, SMT
  <2>2. ((Round * 1) + (x - Round)) % Round = x - Round
    BY <2>1, <1>1, ModUnique
  <2>3. at + (x - (x - Round)) = at + Round
    BY <1>1, SMT
  <2>4. MidEnd(l, at) = at + Round
    BY <1>2, <2>1, <2>2, <2>3
  <2>5. QED
    BY <2>4, <1>3 DEF x
<1>4. CASE ~(x >= Round)
  <2>1. x \in 0 .. (Round - 1) /\ 0 \in Nat /\ (Round * 0) + x = x
    BY <1>1, <1>4, SMT
  <2>2. ((Round * 0) + x) % Round = x
    BY <2>1, <1>1, ModUnique
  <2>3. at + (x - x) = at
    BY <1>1, SMT
  <2>4. MidEnd(l, at) = at
    BY <1>2, <2>1, <2>2, <2>3
  <2>5. QED
    BY <2>4, <1>4 DEF x
<1>5. QED
  BY <1>3, <1>4

(* The bulk terms are what the walk finishes with.                         *)
LEMMA BulkTermsFinish ==
  ASSUME NEW w, NEW absorbed, NEW bytes, NEW len, Len(bytes) \in Nat
  PROVE  Terms("bulk", w, AbsorbBlocks(bytes, WholeBlocks(Len(bytes)), absorbed),
               bytes, WholeBlocks(Len(bytes)), len)
           = Finish(w, seed, absorbed, bytes, Len(bytes), len)
<1> DEFINE l     == Len(bytes)
           whole == WholeBlocks(l)
           at    == IF l - whole >= Round THEN whole + Round ELSE whole
<1>1. /\ whole \in 0 .. l /\ l - whole \in 0 .. (Block - 1)
      /\ (whole % Block) = 0
  BY WholeBlocksBounds
<1>2. MidEnd(l, whole) = at
  <2> HIDE DEF whole
  <2>1. QED
    BY <1>1, OneRoundAtMost
<1>3. AbsorbBlocks(bytes, whole, absorbed) = absorbed \o Load(bytes, 1, whole)
  BY <1>1 DEF AbsorbBlocks
<1>4. Finish(w, seed, absorbed, bytes, l, len) =
        [ path   |-> "bulk", width |-> w, iv |-> seed, len |-> len,
          blocks |-> absorbed \o Load(bytes, 1, whole),
          rounds |-> Load(bytes, whole + 1, at),
          head   |-> HeadWords(bytes, l, at),
          last   |-> LastWords(bytes, l, at) ]
  BY Zenon DEF Finish
<1>5. Terms("bulk", w, AbsorbBlocks(bytes, whole, absorbed), bytes, whole, len) =
        [ path   |-> "bulk", width |-> w, iv |-> seed, len |-> len,
          blocks |-> AbsorbBlocks(bytes, whole, absorbed),
          rounds |-> Load(bytes, whole + 1, MidEnd(l, whole)),
          head   |-> HeadWords(bytes, l, MidEnd(l, whole)),
          last   |-> LastWords(bytes, l, MidEnd(l, whole)) ]
  BY Zenon DEF Terms
<1>6. QED
  <2> HIDE DEF whole, at
  <2>1. Terms("bulk", w, AbsorbBlocks(bytes, whole, absorbed), bytes, whole, len)
          = Finish(w, seed, absorbed, bytes, l, len)
    BY <1>2, <1>3, <1>4, <1>5, Zenon
  <2>2. QED
    BY <2>1 DEF whole

(* The one-shot functions of the port are those of the C walk, for every   *)
(* length.                                                                 *)
LEMMA HashIsOneShot ==
  ASSUME NEW w, NEW bytes, Len(bytes) \in Nat
  PROVE  Hash(w, bytes) = OneShot(w, seed, bytes)
<1> DEFINE l == Len(bytes)
<1>1. CASE l <= Pair
  <2>1. ~(l >= BulkMin)
    BY <1>1, SizeFacts, SizesPositive, SMT
  <2>2. QED
    BY <1>1, <2>1 DEF Hash, OneShot
<1>2. CASE ~(l <= Pair) /\ l >= BulkMin
  <2>1. Hash(w, bytes) = Finish(w, seed, << >>, bytes, l, l)
    BY <1>2, BulkTermsFinish DEF Hash, LongTerms
  <2>2. OneShot(w, seed, bytes) = LongHash(w, seed, bytes)
    BY <1>2 DEF OneShot
  <2>3. QED
    BY <2>1, <2>2 DEF LongHash
<1>3. CASE ~(l <= Pair) /\ ~(l >= BulkMin)
  <2> DEFINE at == l - (l % Round)
  <2>1. MidEnd(l, 0) = at /\ 0 + 1 = 1
    <3>1. l - 0 = l /\ l % Round \in Nat /\ 0 + 1 = 1
      BY DivMod, SizesPositive, SMT
    <3>2. 0 + (l - (l % Round)) = l - (l % Round)
      BY <3>1, SMT
    <3>3. QED
      BY <3>1, <3>2 DEF MidEnd
  <2>2. Hash(w, bytes) = Terms("mid", w, << >>, bytes, 0, l)
    BY <1>3 DEF Hash, LongTerms
  <2>3. Terms("mid", w, << >>, bytes, 0, l) =
          [ path   |-> "mid", width |-> w, iv |-> seed, len |-> l,
            blocks |-> << >>,
            rounds |-> Load(bytes, 0 + 1, MidEnd(l, 0)),
            head   |-> HeadWords(bytes, l, MidEnd(l, 0)),
            last   |-> LastWords(bytes, l, MidEnd(l, 0)) ]
    BY Zenon DEF Terms
  <2>4. MidHash(w, seed, bytes) =
          [ path   |-> "mid", width |-> w, iv |-> seed, len |-> l,
            blocks |-> << >>,
            rounds |-> Load(bytes, 1, at),
            head   |-> HeadWords(bytes, l, at),
            last   |-> LastWords(bytes, l, at) ]
    BY Zenon DEF MidHash
  <2>5. OneShot(w, seed, bytes) = MidHash(w, seed, bytes)
    BY <1>3 DEF OneShot
  <2> HIDE DEF at
  <2>6. QED
    BY <2>1, <2>2, <2>3, <2>4, <2>5, Zenon
<1>4. QED
  BY <1>1, <1>2, <1>3

(* Either way a digest is the one-shot hash of the message.                *)
LEMMA DigestEquals ==
  ASSUME IInv, NEW w \in Widths
  PROVE  DigestOf(w) = OneShot(w, seed, NextBytes(0, total))
<1> DEFINE k == Len(lanes)
           l == Len(buffer)
<1>1. /\ k \in Nat /\ (k % Block) = 0 /\ k + l = total /\ total \in Nat
      /\ lanes = NextBytes(0, k) /\ buffer = NextBytes(k, l) /\ l \in Nat
  BY InvCuts
<1>2. CASE ~bulk
  <2>1. k = 0
    BY <1>2, FreshIsEmpty DEF IInv, HoldsMessage
  <2>2. l = total
    BY <2>1, <1>1, SMT
  <2>3. buffer = NextBytes(0, total) /\ Len(buffer) \in Nat
    BY <2>1, <2>2, <1>1
  <2>4. DigestOf(w) = Hash(w, buffer)
    BY <1>2 DEF DigestOf
  <2>5. QED
    BY <2>3, <2>4, HashIsOneShot
<1>3. CASE bulk
  <2>1. l \in Keep .. (Keep + Block - 1) /\ total >= BufCap
    BY <1>3 DEF IInv, MemoryBounded, HoldsMessage
  <2>2. l \in Pair .. l
    BY <2>1, <1>1, FloorIsABlock, SizeFacts, SizesPositive, SMT
  <2>3. DigestOf(w) = Finish(w, seed, lanes, buffer, l, total)
    BY <1>1, <1>3, BulkTermsFinish DEF DigestOf, FinishBulk
  <2>4. Finish(w, seed, NextBytes(0, k), buffer, l, k + l)
          = LongHash(w, seed, NextBytes(0, k + l))
    <3>1. DOMAIN NextBytes(k, l) = 1 .. l
          /\ \A i \in 1 .. l : NextBytes(k, l)[i] = k + i - 1
      BY <1>1, NextBytesType
    <3>2. HoldsFrom(buffer, l, k, l)
      BY <3>1, <1>1 DEF HoldsFrom
    <3>3. CanFinish(buffer, l, k, l)
      BY <3>2, <2>2, <1>1 DEF CanFinish
    <3> HIDE DEF k, l
    <3>4. QED
      BY <3>3, FinishContinues
  <2>5. /\ Len(NextBytes(0, total)) = total
        /\ total >= BulkMin /\ ~(total <= Pair)
    <3>1. Len(NextBytes(0, total)) = total
      BY <1>1, NextBytesType
    <3>2. total >= BulkMin /\ ~(total <= Pair)
      BY <2>1, <1>1, SizeFacts, SizesPositive, SMT
    <3>3. QED
      BY <3>1, <3>2
  <2>6. OneShot(w, seed, NextBytes(0, total))
          = LongHash(w, seed, NextBytes(0, total))
    BY <2>5 DEF OneShot
  <2> HIDE DEF k, l
  <2>7. QED
    BY <1>1, <2>3, <2>4, <2>6
<1>4. QED
  BY <1>2, <1>3

(* The digest of either width is the one-shot hash of the bytes given so   *)
(* far, however they were split.                                           *)
THEOREM SplitIndependence == Spec => []DigestIsOneShot
<1>1. IInv => DigestIsOneShot
  BY DigestEquals DEF DigestIsOneShot
<1>2. QED
  BY <1>1, Inductive, PTL

-----------------------------------------------------------------------------
(***************************************************************************)
(* Refinement of StreamSpec.                                               *)
(***************************************************************************)

(* Lanes and buffer together are the message.                              *)
Message == lanes \o buffer

(* The message of the promise is the run of the bytes given.               *)
LEMMA MessageIs ==
  IInv => /\ total \in Nat
          /\ Message = NextBytes(0, total)
          /\ Len(Message) = total
<1> SUFFICES ASSUME IInv
             PROVE  /\ total \in Nat
                    /\ Message = NextBytes(0, total)
                    /\ Len(Message) = total
  OBVIOUS
<1> DEFINE k == Len(lanes)
           l == Len(buffer)
<1>1. /\ k \in Nat /\ l \in Nat /\ total \in Nat /\ k + l = total
      /\ lanes = NextBytes(0, k) /\ buffer = NextBytes(k, l)
  BY InvCuts
<1> HIDE DEF k, l
<1>2. NextBytes(0, k) \o NextBytes(k, l) = NextBytes(0, k + l)
  <2>1. 0 \in Nat /\ k \in Nat /\ l \in Nat /\ 0 + k = k
    BY <1>1, SMT
  <2>2. NextBytes(0, k) \o NextBytes(0 + k, l) = NextBytes(0, k + l)
    BY <2>1, NextBytesConcat
  <2>3. QED
    BY <2>1, <2>2
<1>3. Message = NextBytes(0, total)
  BY <1>1, <1>2 DEF Message
<1>4. Len(NextBytes(0, total)) = total
  <2>1. 0 \in Nat /\ total \in Nat
    BY <1>1
  <2>2. QED
    BY <2>1, NextBytesType
<1>5. QED
  BY <1>1, <1>3, <1>4

(* The same after a step.                                                  *)
LEMMA MessageIsNext ==
  IInv' => (/\ total \in Nat
            /\ Message = NextBytes(0, total)
            /\ Len(Message) = total)'
BY MessageIs, PTL

(* The one-shot function StreamSpec refers to is the one of Walk.          *)
LEMMA SameOneShot ==
  ASSUME NEW w, NEW s, NEW msg
  PROVE  Promise!OneShot(w, s, msg) = OneShot(w, s, msg)
BY DEF Promise!OneShot, OneShot, Promise!ShortHash, ShortHash,
       Promise!MidHash, MidHash, Promise!LongHash, LongHash,
       Promise!Finish, Finish, Promise!WholeBlocks, WholeBlocks,
       Promise!HeadWords, HeadWords, Promise!LastWords, LastWords,
       Promise!Load, Load, Promise!Outside, Outside

(* So are the runs of bytes.                                               *)
LEMMA SameNextBytes ==
  ASSUME NEW k, NEW len
  PROVE  Promise!NextBytes(k, len) = NextBytes(k, len)
BY DEF Promise!NextBytes, NextBytes

(* Every update, buffered or not, lengthens the message.                   *)
LEMMA UpdateSimulates ==
  ASSUME IInv, IInv', NEW n \in Nat, n > 0,
         total' = total + n, seed' = seed, out' = {}
  PROVE  Promise!Update
<1>1. Message = NextBytes(0, total) /\ total \in Nat /\ Len(Message) = total
  BY MessageIs
<1>2. Message' = NextBytes(0, total + n) /\ Len(Message') = total + n
  BY MessageIsNext
<1>3. (total + n) - total = n /\ total + n > total /\ 0 + total = total
  BY <1>1, SMT
<1>4. NextBytes(0, total) \o NextBytes(0 + total, n) = NextBytes(0, total + n)
  <2>1. 0 \in Nat /\ total \in Nat /\ n \in Nat
    BY <1>1
  <2>2. QED
    BY <2>1, NextBytesConcat
<1>5. Message' = Message \o Promise!NextBytes(Len(Message), Len(Message') - Len(Message))
  BY <1>1, <1>2, <1>3, <1>4, SameNextBytes
<1>6. Len(Message') > Len(Message)
  BY <1>1, <1>2, <1>3
<1>7. QED
  BY <1>5, <1>6 DEF Promise!Update, Message

(* Every step is a step of the promise.                                    *)
LEMMA StepSimulates ==
  ASSUME IInv, IInv', Next
  PROVE  Promise!Next
<1>1. ASSUME NEW s \in Seeds, NewHasher(s) PROVE Promise!Restart(s)
  <2>1. /\ lanes' = << >> /\ buffer' = << >> /\ seed' = s /\ out' = {}
    BY <1>1 DEF NewHasher
  <2>2. << >> \o << >> = << >>
    BY SMT
  <2>3. QED
    BY <2>1, <2>2 DEF Promise!Restart
<1>2. ASSUME NEW n \in Chunks, UpdateBuffered(n) \/ UpdateCommit(n) \/ UpdateBulk(n)
      PROVE  Promise!Update
  <2>1. n \in Nat /\ n > 0 /\ total' = total + n /\ seed' = seed /\ out' = {}
    BY <1>2, HaskellAssumption DEF UpdateBuffered, UpdateCommit, UpdateBulk, Given
  <2>2. QED
    BY <2>1, UpdateSimulates
<1>3. ASSUME NEW w \in Widths, Digest(w) PROVE Promise!Digest(w)
  <2>1. /\ out' = {DigestOf(w)} /\ seed' = seed
        /\ lanes' = lanes /\ buffer' = buffer
    BY <1>3 DEF Digest, hasher
  <2>2. DigestOf(w) = OneShot(w, seed, lanes \o buffer)
    BY DigestEquals, MessageIs DEF Message
  <2>3. out' = {Promise!OneShot(w, seed, lanes \o buffer)}
    BY <2>1, <2>2, SameOneShot
  <2>4. QED
    BY <2>1, <2>3 DEF Promise!Digest
<1>4. Widths = Promise!Widths
  BY DEF Widths, Promise!Widths
<1>5. QED
  BY <1>1, <1>2, <1>3, <1>4 DEF Next, Promise!Next

(* The Haskell hasher implements the promise of StreamSpec.                *)
THEOREM Refinement == Spec => ImplementsStreamSpec
<1>1. Init => Promise!Init
  <2>1. << >> \o << >> = << >>
    BY SMT
  <2>2. QED
    BY <2>1 DEF Init, Promise!Init
<1>2. IInv /\ IInv' /\ [Next]_vars => [Promise!Next]_(Promise!vars)
  <2>1. UNCHANGED vars => UNCHANGED Promise!vars
    BY DEF vars, hasher, Promise!vars
  <2>2. QED
    BY <2>1, StepSimulates
<1>3. QED
  BY <1>1, <1>2, Inductive, PTL DEF Spec, ImplementsStreamSpec, Promise!Spec
=============================================================================
