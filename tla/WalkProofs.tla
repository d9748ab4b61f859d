----------------------------- MODULE WalkProofs -----------------------------
(***************************************************************************)
(* Facts about the operators of Walk: rounding to whole blocks, and        *)
(* continuing a walk over the bytes that were held back.                   *)
(***************************************************************************)
EXTENDS Walk, TLAPS

(* The sizes are positive and in the proportions of hayahash.h.            *)
LEMMA SizesPositive ==
  Block \in Nat \ {0} /\ Round \in Nat \ {0} /\ Pair \in Nat \ {0}
BY WalkAssumption

(***************************************************************************)
(* Remainders by a divisor that is not a literal.                          *)
(***************************************************************************)

(* Quotient and remainder.                                                 *)
LEMMA DivMod ==
  ASSUME NEW b \in Nat \ {0}, NEW a \in Nat
  PROVE  /\ a = (b * (a \div b)) + (a % b)
         /\ a % b \in 0 .. (b - 1)
         /\ a \div b \in Nat
BY SMT

(* They are unique.                                                        *)
LEMMA ModUnique ==
  ASSUME NEW b \in Nat \ {0}, NEW q \in Nat, NEW r \in 0 .. (b - 1)
  PROVE  ((b * q) + r) % b = r
BY SMT

(* A multiple of b does not change a remainder.                            *)
LEMMA AddMultiple ==
  ASSUME NEW b \in Nat \ {0}, NEW a \in Nat, NEW x \in Nat, a % b = 0
  PROVE  (a + x) % b = x % b
<1> DEFINE i == a \div b
           j == x \div b
           r == x % b
<1>1. /\ i \in Nat /\ j \in Nat /\ r \in 0 .. (b - 1)
      /\ a = b * i /\ x = (b * j) + r
  BY DivMod
<1>2. (b * i) + (b * j) = b * (i + j) /\ i + j \in Nat
  BY <1>1, SMT
<1>3. a + x = (b * (i + j)) + r
  BY <1>1, <1>2, SMT
<1>4. QED
  BY <1>1, <1>2, <1>3, ModUnique

(***************************************************************************)
(* n & ~63                                                                 *)
(***************************************************************************)

(* WholeBlocks(x) is a multiple of Block, at most x and within a block of  *)
(* it.                                                                     *)
LEMMA WholeBlocksBounds ==
  ASSUME NEW x \in Nat
  PROVE  /\ WholeBlocks(x) \in 0 .. x
         /\ x - WholeBlocks(x) \in 0 .. (Block - 1)
         /\ WholeBlocks(x) % Block = 0
<1> DEFINE q == x \div Block
           r == x % Block
<1>1. /\ q \in Nat /\ r \in 0 .. (Block - 1)
      /\ x = (Block * q) + r
  BY DivMod, SizesPositive
<1>2. Block * q \in Nat
  BY <1>1, SizesPositive, SMT
<1>3. WholeBlocks(x) = Block * q
  BY <1>1, <1>2, SizesPositive, SMT DEF WholeBlocks
<1>4. (Block * q) % Block = 0
  <2>1. 0 \in 0 .. (Block - 1)
    BY SizesPositive, SMT
  <2>2. ((Block * q) + 0) % Block = 0
    BY <1>1, <2>1, SizesPositive, ModUnique
  <2>3. QED
    BY <2>2, <1>2, SMT
<1>5. QED
  BY <1>1, <1>2, <1>3, <1>4, SizesPositive, SMT

(* Whole blocks in front stay in front.                                    *)
LEMMA WholeBlocksAfter ==
  ASSUME NEW k \in Nat, NEW x \in Nat, k % Block = 0
  PROVE  WholeBlocks(k + x) = k + WholeBlocks(x)
<1>1. (k + x) % Block = x % Block
  BY AddMultiple, SizesPositive
<1>2. x % Block \in Nat
  BY DivMod, SizesPositive
<1>3. QED
  BY <1>1, <1>2, SMT DEF WholeBlocks

(* Sums of multiples of Block are multiples of Block.                      *)
LEMMA MultiplesAdd ==
  ASSUME NEW k \in Nat, NEW x \in Nat, k % Block = 0, x % Block = 0
  PROVE  (k + x) % Block = 0
BY AddMultiple, SizesPositive

(***************************************************************************)
(* Runs of consecutive bytes.                                              *)
(***************************************************************************)

(* A run of message bytes is a sequence of the length asked for.           *)
LEMMA NextBytesType ==
  ASSUME NEW k \in Nat, NEW a \in Nat
  PROVE  /\ NextBytes(k, a) \in Seq(Nat)
         /\ Len(NextBytes(k, a)) = a
         /\ DOMAIN NextBytes(k, a) = 1 .. a
         /\ \A i \in 1 .. a : NextBytes(k, a)[i] = k + i - 1
BY SMT DEF NextBytes

(* Two runs of which one follows the other make one run.                   *)
LEMMA NextBytesConcat ==
  ASSUME NEW k \in Nat, NEW a \in Nat, NEW b \in Nat
  PROVE  NextBytes(k, a) \o NextBytes(k + a, b) = NextBytes(k, a + b)
BY SMT DEF NextBytes

(* Memory of c bytes, the first l of which are the stream from offset k.   *)
HoldsFrom(mem, c, k, l) ==
  DOMAIN mem = 1 .. c /\ \A i \in 1 .. l : mem[i] = k + i - 1

(* Loading them.                                                           *)
LEMMA LoadFront ==
  ASSUME NEW c \in Nat, NEW mem, NEW k \in Nat, NEW l \in 0 .. c,
         HoldsFrom(mem, c, k, l)
  PROVE  Load(mem, 1, l) = NextBytes(k, l)
<1>1. l - 1 + 1 = l /\ \A i \in 1 .. l : 1 + i - 1 = i /\ i \in 1 .. c
  BY SMT
<1>2. Load(mem, 1, l) = [i \in 1 .. l |-> mem[i]]
  BY <1>1 DEF Load, HoldsFrom
<1>3. QED
  BY <1>2 DEF NextBytes, HoldsFrom

(***************************************************************************)
(* Continuing a walk.                                                      *)
(***************************************************************************)

(* Lanes that have absorbed the first k bytes of a message can be finished *)
(* over memory that holds the l bytes after them.                          *)
CanFinish(mem, c, k, l) ==
  /\ c \in Nat /\ k \in Nat /\ k % Block = 0
  /\ l \in Pair .. c
  /\ HoldsFrom(mem, c, k, l)

(* Lanes that absorbed the first k bytes, a multiple of Block, and memory  *)
(* that holds the l bytes after them, at least Pair of them: finishing     *)
(* from there gives what the one-shot walk over all k + l bytes gives.     *)
LEMMA FinishContinues ==
  ASSUME NEW w, NEW s, NEW c, NEW mem, NEW k, NEW l, CanFinish(mem, c, k, l)
  PROVE  Finish(w, s, NextBytes(0, k), mem, l, k + l)
           = LongHash(w, s, NextBytes(0, k + l))
<1> DEFINE msg   == NextBytes(0, k + l)
           whole == WholeBlocks(l)
           at    == IF l - whole >= Round THEN whole + Round ELSE whole
<1>a. c \in Nat /\ k \in Nat /\ l \in Pair .. c /\ k % Block = 0
  BY DEF CanFinish
<1> USE <1>a
<1>b. k + l \in Nat /\ 0 \in Nat /\ l \in 0 .. c /\ l \in Nat
  BY <1>a, SizesPositive, SMT
<1>1. /\ Len(msg) = k + l /\ DOMAIN msg = 1 .. (k + l)
      /\ \A i \in 1 .. (k + l) : msg[i] = 0 + i - 1
  BY <1>b, NextBytesType
<1>c. DOMAIN mem = 1 .. c /\ \A i \in 1 .. l : mem[i] = k + i - 1
  BY DEF CanFinish, HoldsFrom
<1>2. /\ whole \in 0 .. l /\ l - whole \in 0 .. (Block - 1)
      /\ WholeBlocks(k + l) = k + whole
  BY <1>b, WholeBlocksBounds, WholeBlocksAfter
<1>3. /\ at \in whole .. l
      /\ (IF (k + l) - (k + whole) >= Round
          THEN (k + whole) + Round ELSE k + whole) = k + at
  <2>1. (k + l) - (k + whole) = l - whole
    BY <1>b, <1>2, SMT
  <2>2. CASE l - whole >= Round
    BY <2>1, <2>2, <1>b, <1>2, SizesPositive, SMT
  <2>3. CASE ~(l - whole >= Round)
    BY <2>1, <2>3, <1>b, <1>2, SizesPositive, SMT
  <2>4. QED
    BY <2>2, <2>3
<1>4. NextBytes(0, k) \o Load(mem, 1, whole)
        = << >> \o Load(msg, 1, k + whole)
  <2>1. Load(mem, 1, whole) = NextBytes(k, whole)
    <3> HIDE DEF whole
    <3>1. whole \in 0 .. c /\ HoldsFrom(mem, c, k, whole)
      BY <1>b, <1>2, <1>c, SMT DEF HoldsFrom
    <3>2. QED
      BY <3>1, LoadFront
  <2>2. Load(msg, 1, k + whole) = NextBytes(0, k + whole)
    <3> HIDE DEF msg, whole
    <3>1. k + whole \in 0 .. (k + l) /\ HoldsFrom(msg, k + l, 0, k + whole)
      BY <1>b, <1>1, <1>2, SMT DEF HoldsFrom
    <3>2. QED
      BY <3>1, <1>b, LoadFront
  <2>3. NextBytes(0, k) \o NextBytes(k, whole) = NextBytes(0, k + whole)
    <3>1. 0 \in Nat /\ whole \in Nat /\ 0 + k = k
      BY <1>2, SMT
    <3>2. NextBytes(0, k) \o NextBytes(0 + k, whole) = NextBytes(0, k + whole)
      BY <3>1, NextBytesConcat
    <3>3. QED
      BY <3>1, <3>2
  <2>4. << >> \o NextBytes(0, k + whole) = NextBytes(0, k + whole)
    BY <1>2, NextBytesType, SMT
  <2>5. QED
    BY <2>1, <2>2, <2>3, <2>4
<1>5. \A a, b \in Nat :
         a >= 1 /\ b <= l /\ b >= a - 1 =>
           Load(mem, a, b) = Load(msg, k + a, k + b)
  <2> HIDE DEF msg, whole, at
  <2>0. SUFFICES ASSUME NEW a \in Nat, NEW b \in Nat,
                        a >= 1, b <= l, b >= a - 1
                 PROVE  Load(mem, a, b) = Load(msg, k + a, k + b)
    BY Zenon
  <2>1. (k + b) - (k + a) + 1 = b - a + 1
    BY <2>0, SMT
  <2>2. \A i \in 1 .. (b - a + 1) :
           /\ a + i - 1 \in 1 .. c /\ a + i - 1 \in 1 .. l
           /\ (k + a) + i - 1 \in 1 .. (k + l)
    BY <2>0, SMT
  <2>3. \A i \in 1 .. (b - a + 1) : mem[a + i - 1] = msg[(k + a) + i - 1]
    <3>1. SUFFICES ASSUME NEW i \in 1 .. (b - a + 1)
                   PROVE  mem[a + i - 1] = msg[(k + a) + i - 1]
      OBVIOUS
    <3>2. mem[a + i - 1] = k + (a + i - 1) - 1
      BY <2>2, <1>c
    <3>3. msg[(k + a) + i - 1] = 0 + ((k + a) + i - 1) - 1
      BY <2>2, <1>1
    <3>4. QED
      BY <3>2, <3>3, <2>0, SMT
  <2>4. Load(mem, a, b) = [i \in 1 .. (b - a + 1) |-> mem[a + i - 1]]
    BY <2>2, <1>c DEF Load
  <2>5. Load(msg, k + a, k + b)
          = [i \in 1 .. (b - a + 1) |-> msg[(k + a) + i - 1]]
    BY <2>1, <2>2, <1>1 DEF Load
  <2>6. QED
    BY <2>3, <2>4, <2>5
<1>6. Load(mem, whole + 1, at) = Load(msg, (k + whole) + 1, k + at)
  <2>1. Load(mem, whole + 1, at) = Load(msg, k + (whole + 1), k + at)
    BY <1>2, <1>3, <1>5, SMT
  <2>2. QED
    BY <2>1, <1>2, SMT
<1>7. HeadWords(mem, l, at) = HeadWords(msg, k + l, k + at)
  <2>1. (k + l) - (k + at) = l - at
    BY <1>2, <1>3, SMT
  <2>2. CASE l - at > Pair
    <3>1. Load(mem, at + 1, at + Pair) = Load(msg, k + (at + 1), k + (at + Pair))
      <4> DEFINE a == at + 1
                 b == at + Pair
      <4>1. /\ a \in Nat /\ a >= 1
            /\ b \in Nat /\ b <= l /\ b >= a - 1
        <5> HIDE DEF at
        <5>1. QED
          BY <2>2, <1>b, <1>2, <1>3, SizesPositive, SMT
      <4> HIDE DEF a, b
      <4>2. Load(mem, a, b) = Load(msg, k + a, k + b)
        BY <4>1, <1>5
      <4>3. QED
        BY <4>2 DEF a, b
    <3>2. /\ k + (at + 1) = (k + at) + 1
          /\ k + (at + Pair) = (k + at) + Pair
      BY <1>2, <1>3, SizesPositive, SMT
    <3>3. QED
      BY <3>1, <3>2, <2>1, <2>2 DEF HeadWords
  <2>3. CASE ~(l - at > Pair)
    BY <2>1, <2>3 DEF HeadWords
  <2>4. QED
    BY <2>2, <2>3
<1>8. LastWords(mem, l, at) = LastWords(msg, k + l, k + at)
  <2>1. (k + l) - (k + at) = l - at
    BY <1>2, <1>3, SMT
  <2>2. Load(mem, l - Pair + 1, l) = Load(msg, k + (l - Pair + 1), k + l)
    BY <1>5, SizesPositive, SMT
  <2>3. k + (l - Pair + 1) = (k + l) - Pair + 1
    BY SizesPositive, SMT
  <2>4. QED
    BY <2>1, <2>2, <2>3 DEF LastWords
<1>9. QED
  <2> DEFINE wholeMsg == WholeBlocks(k + l)
             atMsg == IF (k + l) - wholeMsg >= Round
                      THEN wholeMsg + Round ELSE wholeMsg
  <2>1. wholeMsg = k + whole /\ atMsg = k + at
    BY <1>2, <1>3
  <2>2. Finish(w, s, << >>, msg, k + l, k + l) =
          [ path   |-> "bulk", width |-> w, iv |-> s, len |-> k + l,
            blocks |-> << >> \o Load(msg, 1, wholeMsg),
            rounds |-> Load(msg, wholeMsg + 1, atMsg),
            head   |-> HeadWords(msg, k + l, atMsg),
            last   |-> LastWords(msg, k + l, atMsg) ]
    BY Zenon DEF Finish
  <2>3. Finish(w, s, NextBytes(0, k), mem, l, k + l) =
          [ path   |-> "bulk", width |-> w, iv |-> s, len |-> k + l,
            blocks |-> NextBytes(0, k) \o Load(mem, 1, whole),
            rounds |-> Load(mem, whole + 1, at),
            head   |-> HeadWords(mem, l, at),
            last   |-> LastWords(mem, l, at) ]
    BY Zenon DEF Finish
  <2>4. LongHash(w, s, msg) = Finish(w, s, << >>, msg, k + l, k + l)
    BY <1>1 DEF LongHash
  <2> HIDE DEF msg, whole, at, wholeMsg, atMsg
  <2>5. QED
    BY <2>1, <2>2, <2>3, <2>4, <1>4, <1>6, <1>7, <1>8, Zenon DEF msg
=============================================================================
