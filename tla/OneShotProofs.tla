---------------------------- MODULE OneShotProofs ----------------------------
(***************************************************************************)
(* Proofs about OneShotPaths, for every length, build, port and offset in  *)
(* an array; and about ShortInputs, the mixing of at most 16 bytes.        *)
(***************************************************************************)
EXTENDS OneShotPaths, ShortInputs, SequenceTheorems, TLAPS

(***************************************************************************)
(* Sequences given by functions.                                           *)
(***************************************************************************)
LEMMA SeqOf ==
  ASSUME NEW n \in Nat, NEW S, NEW f \in [1 .. n -> S]
  PROVE  f \in Seq(S) /\ Len(f) = n /\ DOMAIN f = 1 .. n
BY SMT

Joins(s, t, u) == s \o t = u

Cut(f, n) == [i \in 1 .. n |-> f[i]]

LEMMA Pieces ==
  ASSUME NEW a \in Nat, NEW b \in Nat, NEW f, NEW g, NEW S,
         f \in [1 .. a + b -> S], g \in [1 .. b -> S],
         \A i \in 1 .. b : g[i] = f[a + i]
  PROVE  Joins(Cut(f, a), g, f)
<1> DEFINE e == Cut(f, a)
<1>1. e \in [1 .. a -> S] /\ \A i \in 1 .. a : e[i] = f[i]
  BY SMT DEF Cut
<1>2. /\ e \in Seq(S) /\ Len(e) = a /\ g \in Seq(S) /\ Len(g) = b
      /\ f \in Seq(S) /\ Len(f) = a + b
  <2> HIDE DEF e
  <2>1. a + b \in Nat
    BY SMT
  <2>2. QED
    BY <1>1, <2>1, SeqOf
<1> HIDE DEF e
<1>3. /\ e \o g \in Seq(S) /\ Len(e \o g) = a + b
      /\ \A i \in 1 .. a + b : (e \o g)[i] = IF i <= a THEN e[i] ELSE g[i - a]
  BY <1>2, ConcatProperties
<1>4. \A i \in 1 .. a + b : (e \o g)[i] = f[i]
  <2>1. ASSUME NEW i \in 1 .. a + b PROVE (e \o g)[i] = f[i]
    <3>1. CASE i <= a
      <4>1. i \in 1 .. a
        BY <3>1, SMT
      <4>2. QED
        BY <1>1, <1>3, <3>1, <4>1
    <3>2. CASE ~(i <= a)
      <4>1. i - a \in 1 .. b /\ a + (i - a) = i
        BY <3>2, SMT
      <4>2. (e \o g)[i] = g[i - a]
        BY <1>3, <3>2
      <4>3. QED
        BY <4>1, <4>2
    <3>3. QED
      BY <3>1, <3>2
  <2>2. QED
    BY <2>1
<1>5. QED
  BY <1>2, <1>3, <1>4, SeqEqual DEF e, Joins

(* In two steps or in one.                                                 *)
LEMMA JoinsTwice ==
  ASSUME NEW S, NEW a \in Seq(S), NEW b \in Seq(S), NEW c \in Seq(S),
         NEW ab, NEW ca, NEW x, NEW y,
         Joins(a, b, ab), Joins(c, a, ca), Joins(ca, b, x), Joins(c, ab, y)
  PROVE  x = y
<1>1. (c \o a) \o b = c \o (a \o b)
  BY ConcatAssociative, SMT
<1>2. QED
  BY <1>1 DEF Joins

LEMMA NothingAdded ==
  ASSUME NEW S, NEW a \in Seq(S)
  PROVE  a \o << >> = a /\ << >> \o a = a
BY ConcatEmptySeq, SMT

(***************************************************************************)
(* Lanes of words loaded from offsets in A.                                *)
(***************************************************************************)
LoadedFrom(A) == [op : {"mix"}, w : A, prev : Int] \cup [op : {"plus", "rot", "inj"}, w : A]
Terms(A)  == LoadedFrom(A) \cup [op : {"merge"}, lane : Seq(LoadedFrom(A))]

(* Every word of k rounds, or blocks, from offset at is in A.              *)
RoundsIn(A, at, k) == \A r \in 1 .. k : \A j \in 0 .. 3 : at + 32 * (r - 1) + 8 * j \in A
BlocksIn(A, at, k) == \A b \in 1 .. k : \A j \in Lanes : at + 64 * (b - 1) + 8 * j \in A

Offsets == Int

LanesOver(A, lanes) ==
  /\ lanes = [j \in Lanes |-> lanes[j]]
  /\ \A j \in 0 .. 3 : lanes[j] \in Seq(Terms(A))
  /\ \A j \in 4 .. 7 : lanes[j] \in Seq(LoadedFrom(A))

LEMMA TermTypes ==
  ASSUME NEW A, NEW w \in A
  PROVE  /\ \A prev \in Int : Mix(w, prev) \in LoadedFrom(A)
         /\ Added(w) \in LoadedFrom(A) /\ Rot(w) \in LoadedFrom(A) /\ Inj(w) \in LoadedFrom(A)
BY DEF Mix, Added, Rot, Inj, LoadedFrom

LEMMA LaneNumbers ==
  /\ \A j \in Lanes : j \in Int /\ (j \in 0 .. 3 \/ (j \in 4 .. 7 /\ j > 3))
  /\ \A j \in 0 .. 3 : j \in Lanes /\ ~(j > 3) /\ j + 4 \in 4 .. 7 /\ j + 4 \in Lanes
  /\ \A j \in 4 .. 7 : j \in Lanes
BY SMT DEF Lanes

LEMMA OffsetsFacts ==
  /\ Offsets \subseteq Int
  /\ \A at \in Int : \A k \in Nat : RoundsIn(Offsets, at, k) /\ BlocksIn(Offsets, at, k)
BY SMT DEF Offsets, RoundsIn, BlocksIn, Lanes

LEMMA SeqGrows ==
  ASSUME NEW S, NEW T, S \subseteq T, NEW s \in Seq(S)
  PROVE  s \in Seq(T)
BY SMT

(* The words of k rounds, of k blocks.                                     *)
LEMMA MidTermsType ==
  ASSUME NEW A, A \subseteq Int, NEW j \in 0 .. 3, NEW at \in Int, NEW k \in Nat,
         NEW prev \in Int,
         RoundsIn(A, at, k)
  PROVE  /\ MidTerms(j, at, k, prev) \in [1 .. k -> LoadedFrom(A)]
         /\ MidTerms(j, at, k, prev) \in Seq(LoadedFrom(A))
         /\ Len(MidTerms(j, at, k, prev)) = k
<1>1. ASSUME NEW r \in 1 .. k
      PROVE  LET w == at + 32 * (r - 1) + 8 * j
             IN  Mix(w, IF w = at THEN prev ELSE w - 8) \in LoadedFrom(A)
  <2> DEFINE w == at + 32 * (r - 1) + 8 * j
  <2>1. w \in A
    BY DEF RoundsIn
  <2> HIDE DEF w
  <2>2. (IF w = at THEN prev ELSE w - 8) \in Int
    BY <2>1, SMT
  <2>3. QED
    BY <2>1, <2>2, TermTypes DEF w
<1>2. MidTerms(j, at, k, prev) \in [1 .. k -> LoadedFrom(A)]
  BY <1>1 DEF MidTerms
<1>3. QED
  BY <1>2, SeqOf

LEMMA BulkTermsType ==
  ASSUME NEW A, A \subseteq Int, NEW j \in Lanes, NEW at \in Int, NEW k \in Nat,
         NEW prev \in Int,
         BlocksIn(A, at, k)
  PROVE  LET n == IF j = 0 THEN 2 * k ELSE k
         IN  /\ BulkTerms(j, at, k, prev) \in [1 .. n -> LoadedFrom(A)]
             /\ BulkTerms(j, at, k, prev) \in Seq(LoadedFrom(A))
             /\ Len(BulkTerms(j, at, k, prev)) = n
<1> DEFINE n == IF j = 0 THEN 2 * k ELSE k
<1>1. n \in Nat
  BY SMT
<1>2. CASE j = 0
  <2>1. ASSUME NEW i \in 1 .. 2 * k
        PROVE  LET w == at + 64 * ((i - 1) \div 2)
               IN  (IF i % 2 = 0 THEN Added(w + 56)
                    ELSE Mix(w, IF w = at THEN prev ELSE w - 8)) \in LoadedFrom(A)
    <3> DEFINE b == (i - 1) \div 2
               w == at + 64 * b
    <3>1. b + 1 \in 1 .. k /\ 0 \in Lanes /\ 7 \in Lanes /\ b \in Nat
      BY SMT DEF Lanes
    <3> HIDE DEF b
    <3>2. w = at + 64 * ((b + 1) - 1) + 8 * 0 /\ w + 56 = at + 64 * ((b + 1) - 1) + 8 * 7
      BY <3>1, SMT
    <3>3. w \in A /\ w + 56 \in A
      BY <3>1, <3>2 DEF BlocksIn
    <3> HIDE DEF w
    <3>4. (IF w = at THEN prev ELSE w - 8) \in Int
      BY <3>3, SMT
    <3>5. /\ Added(w + 56) \in LoadedFrom(A)
          /\ Mix(w, IF w = at THEN prev ELSE w - 8) \in LoadedFrom(A)
      BY <3>3, <3>4, TermTypes
    <3>6. QED
      BY <3>5 DEF w, b
  <2>2. BulkTerms(j, at, k, prev) \in [1 .. 2 * k -> LoadedFrom(A)]
    BY <1>2, <2>1 DEF BulkTerms
  <2>3. QED
    BY <1>1, <1>2, <2>2, SeqOf
<1>3. CASE j # 0
  <2>1. ASSUME NEW b \in 1 .. k
        PROVE  LET w == at + 64 * (b - 1) + 8 * j IN Mix(w, w - 8) \in LoadedFrom(A)
    <3> DEFINE w == at + 64 * (b - 1) + 8 * j
    <3>1. w \in A
      BY DEF BlocksIn
    <3> HIDE DEF w
    <3>2. w - 8 \in Int
      BY <3>1, SMT
    <3>3. QED
      BY <3>1, <3>2, TermTypes DEF w
  <2>2. BulkTerms(j, at, k, prev) \in [1 .. k -> LoadedFrom(A)]
    BY <1>3, <2>1 DEF BulkTerms
  <2>3. QED
    BY <1>1, <1>3, <2>2, SeqOf
<1>4. QED
  BY <1>2, <1>3

(***************************************************************************)
(* What each operation makes of such lanes.                                *)
(***************************************************************************)
LEMMA FreshOver == ASSUME NEW A PROVE LanesOver(A, Fresh)
<1>1. \A S : << >> \in Seq(S)
  BY EmptySeq
<1>2. \A j \in Lanes : Fresh[j] = << >>
  BY DEF Fresh
<1>3. Fresh = [j \in Lanes |-> Fresh[j]]
  BY DEF Fresh
<1>4. QED
  BY <1>1, <1>2, <1>3, LaneNumbers DEF LanesOver

LEMMA LoadedAreTerms ==
  ASSUME NEW A, NEW s \in Seq(LoadedFrom(A)) PROVE s \in Seq(Terms(A))
<1>1. LoadedFrom(A) \subseteq Terms(A)
  BY DEF Terms
<1>2. QED
  BY <1>1, SeqGrows

(* What is appended to each lane.                                          *)
RoundsAre(new, lanes, at, k, prev) ==
  /\ \A j \in 0 .. 3 : new[j] = lanes[j] \o MidTerms(j, at, k, prev)
  /\ \A j \in 4 .. 7 : new[j] = lanes[j]

BlocksAre(new, lanes, at, k, prev) ==
  \A j \in Lanes : new[j] = lanes[j] \o BulkTerms(j, at, k, prev)

MidTermsIn(S, at, k, prev)  == \A j \in 0 .. 3 : MidTerms(j, at, k, prev) \in Seq(S)
BulkTermsIn(S, at, k, prev) == \A j \in Lanes : BulkTerms(j, at, k, prev) \in Seq(S)

LEMMA RoundsOver ==
  ASSUME NEW A, A \subseteq Int, NEW lanes, LanesOver(A, lanes),
         NEW at \in Int, NEW k \in Nat, NEW prev \in Int,
         RoundsIn(A, at, k)
  PROVE  /\ LanesOver(A, Rounds(lanes, at, k, prev))
         /\ RoundsAre(Rounds(lanes, at, k, prev), lanes, at, k, prev)
         /\ MidTermsIn(Terms(A), at, k, prev)
<1> DEFINE new == Rounds(lanes, at, k, prev)
<1>0. MidTermsIn(Terms(A), at, k, prev)
  <2>1. \A j \in 0 .. 3 : MidTerms(j, at, k, prev) \in Seq(LoadedFrom(A))
    BY MidTermsType
  <2>2. QED
    BY <2>1, LoadedAreTerms DEF MidTermsIn
<1>1. \A j \in 0 .. 3 : new[j] = lanes[j] \o MidTerms(j, at, k, prev)
  BY LaneNumbers DEF Rounds
<1>2. \A j \in 4 .. 7 : new[j] = lanes[j]
  <2>1. \A j \in 4 .. 7 : j > 3
    BY SMT
  <2>2. QED
    BY <2>1, LaneNumbers DEF Rounds
<1>3. new = [j \in Lanes |-> new[j]]
  BY DEF Rounds
<1>4. \A j \in 0 .. 3 : new[j] \in Seq(Terms(A))
  <2>1. ASSUME NEW j \in 0 .. 3 PROVE lanes[j] \o MidTerms(j, at, k, prev) \in Seq(Terms(A))
    <3>1. MidTerms(j, at, k, prev) \in Seq(Terms(A))
      BY <1>0 DEF MidTermsIn
    <3>2. lanes[j] \in Seq(Terms(A))
      BY DEF LanesOver
    <3>3. QED
      BY <3>1, <3>2, ConcatProperties
  <2>2. QED
    BY <1>1, <2>1
<1>5. \A j \in 4 .. 7 : new[j] \in Seq(LoadedFrom(A))
  BY <1>2 DEF LanesOver
<1> HIDE DEF new
<1>6. LanesOver(A, new)
  BY <1>3, <1>4, <1>5 DEF LanesOver
<1>7. RoundsAre(new, lanes, at, k, prev)
  BY <1>1, <1>2 DEF RoundsAre
<1>8. QED
  BY <1>0, <1>6, <1>7 DEF new

LEMMA BlocksOver ==
  ASSUME NEW A, A \subseteq Int, NEW lanes, LanesOver(A, lanes),
         NEW at \in Int, NEW k \in Nat, NEW prev \in Int,
         BlocksIn(A, at, k)
  PROVE  /\ LanesOver(A, Blocks(lanes, at, k, prev))
         /\ BlocksAre(Blocks(lanes, at, k, prev), lanes, at, k, prev)
         /\ BulkTermsIn(Terms(A), at, k, prev)
<1> DEFINE new == Blocks(lanes, at, k, prev)
<1>0. BulkTermsIn(Terms(A), at, k, prev)
  <2>1. \A j \in Lanes : BulkTerms(j, at, k, prev) \in Seq(LoadedFrom(A))
    BY BulkTermsType
  <2>2. QED
    BY <2>1, LoadedAreTerms DEF BulkTermsIn
<1>1. \A j \in Lanes : new[j] = lanes[j] \o BulkTerms(j, at, k, prev)
  BY DEF Blocks
<1>2. new = [j \in Lanes |-> new[j]]
  BY DEF Blocks
<1>3. \A j \in 0 .. 3 : new[j] \in Seq(Terms(A))
  <2>1. ASSUME NEW j \in 0 .. 3 PROVE lanes[j] \o BulkTerms(j, at, k, prev) \in Seq(Terms(A))
    <3>1. BulkTerms(j, at, k, prev) \in Seq(Terms(A))
      BY <1>0, LaneNumbers DEF BulkTermsIn
    <3>2. lanes[j] \in Seq(Terms(A))
      BY DEF LanesOver
    <3>3. QED
      BY <3>1, <3>2, ConcatProperties
  <2>2. QED
    BY <1>1, <2>1, LaneNumbers
<1>4. \A j \in 4 .. 7 : new[j] \in Seq(LoadedFrom(A))
  <2>1. ASSUME NEW j \in 4 .. 7 PROVE lanes[j] \o BulkTerms(j, at, k, prev) \in Seq(LoadedFrom(A))
    <3>1. BulkTerms(j, at, k, prev) \in Seq(LoadedFrom(A))
      BY BulkTermsType, LaneNumbers
    <3>2. lanes[j] \in Seq(LoadedFrom(A))
      BY DEF LanesOver
    <3>3. QED
      BY <3>1, <3>2, ConcatProperties
  <2>2. QED
    BY <1>1, <2>1, LaneNumbers
<1> HIDE DEF new
<1>5. LanesOver(A, new)
  BY <1>2, <1>3, <1>4 DEF LanesOver
<1>6. BlocksAre(new, lanes, at, k, prev)
  BY <1>1 DEF BlocksAre
<1>7. QED
  BY <1>0, <1>5, <1>6 DEF new

LEMMA FoldedOver ==
  ASSUME NEW A, NEW lanes, LanesOver(A, lanes)
  PROVE  /\ LanesOver(A, Folded(lanes))
         /\ \A j \in 0 .. 3 : Folded(lanes)[j] = lanes[j] \o << Merge(lanes[j + 4]) >>
         /\ \A j \in 4 .. 7 : Folded(lanes)[j] = << >>
<1> DEFINE new == Folded(lanes)
<1>1. \A j \in 0 .. 3 : new[j] = Append(lanes[j], Merge(lanes[j + 4]))
  BY LaneNumbers DEF Folded
<1>2. \A j \in 4 .. 7 : new[j] = << >>
  <2>1. \A j \in 4 .. 7 : j > 3
    BY SMT
  <2>2. QED
    BY <2>1, LaneNumbers DEF Folded
<1>3. new = [j \in Lanes |-> new[j]]
  BY DEF Folded
<1>4. ASSUME NEW j \in 0 .. 3
      PROVE  /\ lanes[j] \in Seq(Terms(A)) /\ Merge(lanes[j + 4]) \in Terms(A)
  <2>1. lanes[j] \in Seq(Terms(A)) /\ lanes[j + 4] \in Seq(LoadedFrom(A))
    BY LaneNumbers DEF LanesOver
  <2>2. \A s \in Seq(LoadedFrom(A)) : Merge(s) \in Terms(A)
    BY DEF Merge, Terms
  <2>3. QED
    BY <2>1, <2>2
<1>5. \A j \in 0 .. 3 : new[j] \in Seq(Terms(A)) /\ new[j] = lanes[j] \o << Merge(lanes[j + 4]) >>
  <2> HIDE DEF new
  <2>1. ASSUME NEW s \in Seq(Terms(A)), NEW e \in Terms(A)
        PROVE  Append(s, e) \in Seq(Terms(A)) /\ Append(s, e) = s \o << e >>
    BY AppendProperties, AppendIsConcat
  <2>2. QED
    BY <1>1, <1>4, <2>1
<1>6. \A j \in 4 .. 7 : new[j] \in Seq(LoadedFrom(A))
  BY <1>2, EmptySeq
<1> HIDE DEF new
<1>7. LanesOver(A, new)
  BY <1>3, <1>5, <1>6 DEF LanesOver
<1>8. QED
  BY <1>2, <1>5, <1>7 DEF new

AbsorbIs(new, lanes, i, e) ==
  new[i] = lanes[i] \o << e >> /\ \A j \in Lanes : j # i => new[j] = lanes[j]

LEMMA AbsorbOver ==
  ASSUME NEW A, NEW lanes, LanesOver(A, lanes), NEW i \in 0 .. 3, NEW e \in LoadedFrom(A)
  PROVE  /\ LanesOver(A, Absorb(lanes, i, e))
         /\ AbsorbIs(Absorb(lanes, i, e), lanes, i, e)
<1> DEFINE new == Absorb(lanes, i, e)
<1>1. /\ lanes = [j \in Lanes |-> lanes[j]]
      /\ \A j \in 0 .. 3 : lanes[j] \in Seq(Terms(A))
      /\ \A j \in 4 .. 7 : lanes[j] \in Seq(LoadedFrom(A))
  BY DEF LanesOver
<1>2. /\ new = [j \in Lanes |-> new[j]]
      /\ new[i] = Append(lanes[i], e)
      /\ \A j \in Lanes : j # i => new[j] = lanes[j]
  BY <1>1, LaneNumbers DEF Absorb
<1> HIDE DEF new
<1>3. e \in Terms(A)
  BY DEF Terms
<1>4. new[i] \in Seq(Terms(A)) /\ new[i] = lanes[i] \o << e >>
  <2>1. ASSUME NEW s \in Seq(Terms(A)), NEW x \in Terms(A)
        PROVE  Append(s, x) \in Seq(Terms(A)) /\ Append(s, x) = s \o << x >>
    BY AppendProperties, AppendIsConcat
  <2>2. QED
    BY <1>1, <1>2, <1>3, <2>1
<1>5. LanesOver(A, new)
  <2>1. \A j \in 0 .. 3 : new[j] \in Seq(Terms(A))
    BY <1>1, <1>2, <1>4, LaneNumbers
  <2>2. \A j \in 4 .. 7 : new[j] \in Seq(LoadedFrom(A))
    <3>1. \A j \in 4 .. 7 : j # i
      BY SMT
    <3>2. QED
      BY <1>1, <1>2, <3>1, LaneNumbers
  <2>3. QED
    BY <1>2, <2>1, <2>2 DEF LanesOver
<1>6. QED
  BY <1>2, <1>4, <1>5 DEF new, AbsorbIs

(* Lanes that agree one by one are the same lanes.                         *)
LEMMA SameLanes ==
  ASSUME NEW A, NEW B, NEW x, NEW y, LanesOver(A, x), LanesOver(B, y),
         \A j \in 0 .. 3 : x[j] = y[j], \A j \in 4 .. 7 : x[j] = y[j]
  PROVE  x = y
<1>1. x = [j \in Lanes |-> x[j]] /\ y = [j \in Lanes |-> y[j]]
  BY DEF LanesOver
<1>2. \A j \in Lanes : x[j] = y[j]
  BY LaneNumbers
<1>3. QED
  BY <1>1, <1>2

(***************************************************************************)
(* Going on where a loop has left off.                                     *)
(***************************************************************************)
(* here is k times size bytes after at, where prev was to be joined, and   *)
(* next is to be joined there; n is k and m together.                      *)
GoesOn(at, size, k, prev, here, next) ==
  here = at + size * k /\ next = IF k = 0 THEN prev ELSE here - 8

IsSum(n, k, m) == n = k + m

LEMMA MidTermsMore ==
  ASSUME NEW j \in 0 .. 3, NEW at \in Int, NEW k \in Nat, NEW m \in Nat, NEW prev \in Int,
         NEW here \in Int, NEW next \in Int, GoesOn(at, 32, k, prev, here, next),
         NEW n \in Nat, IsSum(n, k, m)
  PROVE  Joins(MidTerms(j, at, k, prev), MidTerms(j, here, m, next), MidTerms(j, at, n, prev))
<1> DEFINE f == MidTerms(j, at, n, prev)
           g == MidTerms(j, here, m, next)
<1>1. Offsets \subseteq Int /\ RoundsIn(Offsets, at, n) /\ RoundsIn(Offsets, here, m)
  BY OffsetsFacts
<1>2. f \in [1 .. k + m -> LoadedFrom(Offsets)]
  BY <1>1, MidTermsType DEF IsSum
<1>3. g \in [1 .. m -> LoadedFrom(Offsets)]
  BY <1>1, MidTermsType
<1>4. ASSUME NEW i \in 1 .. m PROVE g[i] = f[k + i]
  <2> DEFINE w == here + 32 * (i - 1) + 8 * j
             v == at + 32 * (k + i - 1) + 8 * j
  <2>1. k + i \in 1 .. n /\ w = v /\ w \in Int
    BY SMT DEF GoesOn, IsSum
  <2>2. g[i] = Mix(w, IF w = here THEN next ELSE w - 8)
    BY DEF MidTerms
  <2>3. f[k + i] = Mix(v, IF v = at THEN prev ELSE v - 8)
    BY <2>1 DEF MidTerms
  <2>4. (IF w = here THEN next ELSE w - 8) = (IF v = at THEN prev ELSE v - 8)
    BY <2>1, SMT DEF GoesOn
  <2> HIDE DEF w, v, f, g
  <2>5. QED
    BY <2>1, <2>2, <2>3, <2>4
<1>5. Cut(f, k) = MidTerms(j, at, k, prev)
  <2>1. \A i \in 1 .. k : i \in 1 .. n
    BY SMT DEF IsSum
  <2>2. QED
    BY <2>1 DEF MidTerms, Cut
<1> HIDE DEF f, g
<1>6. Joins(Cut(f, k), g, f)
  BY <1>2, <1>3, <1>4, Pieces
<1>7. QED
  BY <1>5, <1>6 DEF f, g

LEMMA BulkTermsMore ==
  ASSUME NEW j \in Lanes, NEW at \in Int, NEW k \in Nat, NEW m \in Nat, NEW prev \in Int,
         NEW here \in Int, NEW next \in Int, GoesOn(at, 64, k, prev, here, next),
         NEW n \in Nat, IsSum(n, k, m)
  PROVE  Joins(BulkTerms(j, at, k, prev), BulkTerms(j, here, m, next), BulkTerms(j, at, n, prev))
<1> DEFINE f == BulkTerms(j, at, n, prev)
           g == BulkTerms(j, here, m, next)
<1>1. Offsets \subseteq Int /\ BlocksIn(Offsets, at, n) /\ BlocksIn(Offsets, here, m)
  BY OffsetsFacts
<1>2. f \in [1 .. (IF j = 0 THEN 2 * n ELSE n) -> LoadedFrom(Offsets)]
  BY <1>1, BulkTermsType
<1>3. g \in [1 .. (IF j = 0 THEN 2 * m ELSE m) -> LoadedFrom(Offsets)]
  BY <1>1, BulkTermsType
<1>4. CASE j = 0
  <2>1. /\ f \in [1 .. 2 * k + 2 * m -> LoadedFrom(Offsets)]
        /\ g \in [1 .. 2 * m -> LoadedFrom(Offsets)]
    <3>1. 2 * n = 2 * k + 2 * m
      BY SMT DEF IsSum
    <3>2. QED
      BY <1>2, <1>3, <1>4, <3>1
  <2>2. ASSUME NEW i \in 1 .. 2 * m PROVE g[i] = f[2 * k + i]
    <3> DEFINE c == 2 * k + i
               w == here + 64 * ((i - 1) \div 2)
               v == at + 64 * ((c - 1) \div 2)
    <3>1. /\ c \in 1 .. 2 * n /\ w = v /\ w \in Int
          /\ i % 2 = 0 <=> c % 2 = 0
      BY SMT DEF GoesOn, IsSum
    <3>2. g[i] = IF i % 2 = 0 THEN Added(w + 56)
                 ELSE Mix(w, IF w = here THEN next ELSE w - 8)
      BY <1>4 DEF BulkTerms
    <3>3. f[c] = IF c % 2 = 0 THEN Added(v + 56)
                 ELSE Mix(v, IF v = at THEN prev ELSE v - 8)
      <4> HIDE DEF c
      <4>1. QED
        BY <1>4, <3>1 DEF BulkTerms
    <3>4. (IF w = here THEN next ELSE w - 8) = (IF v = at THEN prev ELSE v - 8)
      BY <3>1, SMT DEF GoesOn
    <3>5. g[i] = f[c]
      <4> HIDE DEF w, v, f, g, c
      <4>1. QED
        BY <3>1, <3>2, <3>3, <3>4
    <3>6. QED
      BY <3>5
  <2>3. Cut(f, 2 * k) = BulkTerms(j, at, k, prev)
    <3>1. \A i \in 1 .. 2 * k : i \in 1 .. 2 * n
      BY SMT DEF IsSum
    <3>2. QED
      BY <1>4, <3>1 DEF BulkTerms, Cut
  <2> HIDE DEF f, g
  <2>4. Joins(Cut(f, 2 * k), g, f)
    <3> DEFINE a == 2 * k  b == 2 * m  S == LoadedFrom(Offsets)
    <3>1. a \in Nat /\ b \in Nat
      BY SMT
    <3>2. f \in [1 .. a + b -> S] /\ g \in [1 .. b -> S] /\ \A i \in 1 .. b : g[i] = f[a + i]
      BY <2>1, <2>2
    <3> HIDE DEF a, b, S
    <3>3. Joins(Cut(f, a), g, f)
      BY <3>1, <3>2, Pieces
    <3>4. QED
      BY <3>3 DEF a
  <2>5. QED
    BY <2>3, <2>4 DEF f, g
<1>5. CASE j # 0
  <2>1. f \in [1 .. k + m -> LoadedFrom(Offsets)] /\ g \in [1 .. m -> LoadedFrom(Offsets)]
    BY <1>2, <1>3, <1>5 DEF IsSum
  <2>2. ASSUME NEW i \in 1 .. m PROVE g[i] = f[k + i]
    <3> DEFINE w == here + 64 * (i - 1) + 8 * j
               v == at + 64 * (k + i - 1) + 8 * j
    <3>1. k + i \in 1 .. n /\ w = v
      BY LaneNumbers, SMT DEF GoesOn, IsSum
    <3>2. g[i] = Mix(w, w - 8)
      BY <1>5 DEF BulkTerms
    <3>3. f[k + i] = Mix(v, v - 8)
      BY <1>5, <3>1 DEF BulkTerms
    <3> HIDE DEF w, v, f, g
    <3>4. QED
      BY <3>1, <3>2, <3>3
  <2>3. Cut(f, k) = BulkTerms(j, at, k, prev)
    <3>1. \A i \in 1 .. k : i \in 1 .. n
      BY SMT DEF IsSum
    <3>2. QED
      BY <1>5, <3>1 DEF BulkTerms, Cut
  <2> HIDE DEF f, g
  <2>4. Joins(Cut(f, k), g, f)
    BY <2>1, <2>2, Pieces
  <2>5. QED
    BY <2>3, <2>4 DEF f, g
<1>6. QED
  BY <1>4, <1>5

LEMMA NoTerms ==
  ASSUME NEW j, NEW at, NEW prev
  PROVE  MidTerms(j, at, 0, prev) = << >> /\ BulkTerms(j, at, 0, prev) = << >>
<1>1. 1 .. 0 = {} /\ 1 .. 2 * 0 = {}
  BY SMT
<1>2. QED
  BY <1>1 DEF MidTerms, BulkTerms

(* The same, for offsets of which nothing more is asked.                   *)
LEMMA RoundsAnywhere ==
  ASSUME NEW lanes, LanesOver(Offsets, lanes), NEW at \in Int, NEW k \in Nat, NEW prev \in Int
  PROVE  /\ LanesOver(Offsets, Rounds(lanes, at, k, prev))
         /\ RoundsAre(Rounds(lanes, at, k, prev), lanes, at, k, prev)
         /\ MidTermsIn(Terms(Offsets), at, k, prev)
<1>1. Offsets \subseteq Int /\ RoundsIn(Offsets, at, k)
  BY OffsetsFacts
<1>2. QED
  BY <1>1, RoundsOver

LEMMA BlocksAnywhere ==
  ASSUME NEW lanes, LanesOver(Offsets, lanes), NEW at \in Int, NEW k \in Nat, NEW prev \in Int
  PROVE  /\ LanesOver(Offsets, Blocks(lanes, at, k, prev))
         /\ BlocksAre(Blocks(lanes, at, k, prev), lanes, at, k, prev)
         /\ BulkTermsIn(Terms(Offsets), at, k, prev)
<1>1. Offsets \subseteq Int /\ BlocksIn(Offsets, at, k)
  BY OffsetsFacts
<1>2. QED
  BY <1>1, BlocksOver

LEMMA LaneTypes ==
  ASSUME NEW A, NEW lanes, LanesOver(A, lanes), NEW j \in Lanes
  PROVE  lanes[j] \in Seq(Terms(A))
BY LaneNumbers, LoadedAreTerms DEF LanesOver

RoundsGoOn(lanes, at, k, prev, here, m, next, n) ==
  Rounds(Rounds(lanes, at, k, prev), here, m, next) = Rounds(lanes, at, n, prev)

LEMMA RoundsMore ==
  ASSUME NEW lanes, LanesOver(Offsets, lanes), NEW at \in Int, NEW k \in Nat, NEW m \in Nat,
         NEW prev \in Int, NEW here \in Int, NEW next \in Int,
         GoesOn(at, 32, k, prev, here, next), NEW n \in Nat, IsSum(n, k, m)
  PROVE  RoundsGoOn(lanes, at, k, prev, here, m, next, n)
<1> DEFINE one == Rounds(lanes, at, k, prev)
           two == Rounds(one, here, m, next)
           all == Rounds(lanes, at, n, prev)
<1>1. /\ LanesOver(Offsets, one)
      /\ RoundsAre(one, lanes, at, k, prev)
      /\ MidTermsIn(Terms(Offsets), at, k, prev)
  BY RoundsAnywhere
<1>2. /\ LanesOver(Offsets, all)
      /\ RoundsAre(all, lanes, at, n, prev)
  BY RoundsAnywhere
<1> HIDE DEF one, all
<1>3. /\ LanesOver(Offsets, two)
      /\ RoundsAre(two, one, here, m, next)
      /\ MidTermsIn(Terms(Offsets), here, m, next)
  BY <1>1, RoundsAnywhere
<1> HIDE DEF two
<1>4. ASSUME NEW j \in 0 .. 3 PROVE two[j] = all[j]
  <2> DEFINE a == MidTerms(j, at, k, prev)
             b == MidTerms(j, here, m, next)
             c == lanes[j]
             S == Terms(Offsets)
  <2>1. a \in Seq(S) /\ b \in Seq(S) /\ c \in Seq(S)
    <3>1. /\ MidTerms(j, at, k, prev) \in Seq(Terms(Offsets))
          /\ MidTerms(j, here, m, next) \in Seq(Terms(Offsets))
      BY <1>1, <1>3 DEF MidTermsIn
    <3>2. lanes[j] \in Seq(Terms(Offsets))
      BY LaneTypes, LaneNumbers
    <3>3. QED
      BY <3>1, <3>2
  <2>2. Joins(a, b, MidTerms(j, at, n, prev))
    BY MidTermsMore
  <2>3. /\ Joins(c, a, one[j]) /\ Joins(one[j], b, two[j])
        /\ Joins(c, MidTerms(j, at, n, prev), all[j])
    BY <1>1, <1>2, <1>3 DEF RoundsAre, Joins
  <2> HIDE DEF a, b, c, S
  <2>4. QED
    BY <2>1, <2>2, <2>3, JoinsTwice
<1>5. \A j \in 4 .. 7 : two[j] = all[j]
  BY <1>1, <1>2, <1>3 DEF RoundsAre
<1>6. two = all
  BY <1>2, <1>3, <1>4, <1>5, SameLanes
<1>7. QED
  BY <1>6 DEF one, two, all, RoundsGoOn

LEMMA NoRounds ==
  ASSUME NEW lanes, LanesOver(Offsets, lanes), NEW at \in Int, NEW prev \in Int
  PROVE  Rounds(lanes, at, 0, prev) = lanes
<1> DEFINE new == Rounds(lanes, at, 0, prev)
<1>1. 0 \in Nat
  BY SMT
<1>2. /\ LanesOver(Offsets, new)
      /\ RoundsAre(new, lanes, at, 0, prev)
  BY <1>1, RoundsAnywhere
<1> HIDE DEF new
<1>3. ASSUME NEW j \in 0 .. 3 PROVE new[j] = lanes[j]
  <2>1. MidTerms(j, at, 0, prev) = << >>
    BY NoTerms
  <2>2. lanes[j] \in Seq(Terms(Offsets))
    BY LaneTypes, LaneNumbers
  <2>3. new[j] = lanes[j] \o << >>
    BY <1>2, <2>1 DEF RoundsAre
  <2>4. QED
    BY <2>2, <2>3, NothingAdded
<1>4. QED
  BY <1>2, <1>3, SameLanes DEF new, RoundsAre

BlocksGoOn(lanes, at, k, prev, here, m, next, n) ==
  Blocks(Blocks(lanes, at, k, prev), here, m, next) = Blocks(lanes, at, n, prev)

LEMMA BlocksMore ==
  ASSUME NEW lanes, LanesOver(Offsets, lanes), NEW at \in Int, NEW k \in Nat, NEW m \in Nat,
         NEW prev \in Int, NEW here \in Int, NEW next \in Int,
         GoesOn(at, 64, k, prev, here, next), NEW n \in Nat, IsSum(n, k, m)
  PROVE  BlocksGoOn(lanes, at, k, prev, here, m, next, n)
<1> DEFINE one == Blocks(lanes, at, k, prev)
           two == Blocks(one, here, m, next)
           all == Blocks(lanes, at, n, prev)
<1>1. /\ LanesOver(Offsets, one)
      /\ BlocksAre(one, lanes, at, k, prev)
      /\ BulkTermsIn(Terms(Offsets), at, k, prev)
  BY BlocksAnywhere
<1>2. /\ LanesOver(Offsets, all)
      /\ BlocksAre(all, lanes, at, n, prev)
  BY BlocksAnywhere
<1> HIDE DEF one, all
<1>3. /\ LanesOver(Offsets, two)
      /\ BlocksAre(two, one, here, m, next)
      /\ BulkTermsIn(Terms(Offsets), here, m, next)
  <2>1. LanesOver(Offsets, one)
    BY <1>1
  <2>2. QED
    BY <2>1, BlocksAnywhere
<1> HIDE DEF two
<1>4. ASSUME NEW j \in Lanes PROVE two[j] = all[j]
  <2> DEFINE a == BulkTerms(j, at, k, prev)
             b == BulkTerms(j, here, m, next)
             c == lanes[j]
             S == Terms(Offsets)
  <2>1. a \in Seq(S) /\ b \in Seq(S) /\ c \in Seq(S)
    <3>1. /\ BulkTerms(j, at, k, prev) \in Seq(Terms(Offsets))
          /\ BulkTerms(j, here, m, next) \in Seq(Terms(Offsets))
      BY <1>1, <1>3 DEF BulkTermsIn
    <3>2. lanes[j] \in Seq(Terms(Offsets))
      BY LaneTypes
    <3>3. QED
      BY <3>1, <3>2
  <2>2. Joins(a, b, BulkTerms(j, at, n, prev))
    BY BulkTermsMore
  <2>3. /\ Joins(c, a, one[j]) /\ Joins(one[j], b, two[j])
        /\ Joins(c, BulkTerms(j, at, n, prev), all[j])
    BY <1>1, <1>2, <1>3 DEF BlocksAre, Joins
  <2> HIDE DEF a, b, c, S
  <2>4. QED
    BY <2>1, <2>2, <2>3, JoinsTwice
<1>5. two = all
  BY <1>2, <1>3, <1>4, SameLanes, LaneNumbers
<1>6. QED
  BY <1>5 DEF one, two, all, BlocksGoOn

LEMMA NoBlocks ==
  ASSUME NEW lanes, LanesOver(Offsets, lanes), NEW at \in Int, NEW prev \in Int
  PROVE  Blocks(lanes, at, 0, prev) = lanes
<1> DEFINE new == Blocks(lanes, at, 0, prev)
<1>1. 0 \in Nat
  BY SMT
<1>2. /\ LanesOver(Offsets, new)
      /\ BlocksAre(new, lanes, at, 0, prev)
  BY <1>1, BlocksAnywhere
<1> HIDE DEF new
<1>3. ASSUME NEW j \in Lanes PROVE new[j] = lanes[j]
  <2>1. BulkTerms(j, at, 0, prev) = << >>
    BY NoTerms
  <2>2. lanes[j] \in Seq(Terms(Offsets))
    BY LaneTypes
  <2>3. new[j] = lanes[j] \o << >>
    BY <1>2, <2>1 DEF BlocksAre
  <2>4. QED
    BY <2>2, <2>3, NothingAdded
<1>4. QED
  BY <1>2, <1>3, SameLanes, LaneNumbers DEF new

(***************************************************************************)
(* Where the loops are: numbers of blocks and rounds.                      *)
(***************************************************************************)
LEMMA CallTypes ==
  ASSUME CallOK
  PROVE  start \in Nat /\ len \in Nat /\ start \in Int /\ len \in Int
BY PathsAssumption, SMT DEF CallOK

LEMMA Counts ==
  ASSUME CallOK
  PROVE  /\ AllBlocks \in Nat /\ AllRounds \in Nat /\ Done \in Nat
         /\ Done = 64 * AllBlocks + 32 * AllRounds
         /\ Done <= len /\ len < Done + 32
         /\ (AllBlocks = 0 <=> len < 320) /\ (Done = 0 <=> len < 32)
         /\ len >= 320 => AllBlocks >= 5 /\ AllRounds <= 1 /\ len < 64 * AllBlocks + 64
         /\ len < 320 => AllRounds = len \div 32
<1> DEFINE n == len
<1>1. n \in Nat
  BY CallTypes
<1>2. CASE n >= 320
  <2>1. AllBlocks = n \div 64
    BY <1>2 DEF AllBlocks
  <2>2. PICK b \in Nat, t \in 0 .. 63 : n = 64 * b + t /\ b = n \div 64
    BY <1>1, SMT
  <2>3. AllBlocks = b /\ AllRounds = t \div 32 /\ Done = 64 * b + 32 * (t \div 32)
    <3>1. (n - 64 * b) = t
      BY <2>2, SMT
    <3>2. QED
      BY <2>1, <2>2, <3>1 DEF AllRounds, Done
  <2>4. PICK r \in 0 .. 1 : r = t \div 32 /\ t - 32 * r \in 0 .. 31
    BY SMT
  <2> HIDE DEF n
  <2>5. AllBlocks = b /\ AllRounds = r /\ Done = 64 * b + 32 * r
    BY <2>3, <2>4
  <2>6. QED
    BY <1>1, <1>2, <2>2, <2>4, <2>5, SMT DEF n
<1>3. CASE n < 320
  <2>1. AllBlocks = 0
    BY <1>1, <1>3, SMT DEF AllBlocks
  <2>2. PICK r \in Nat : r = n \div 32 /\ n - 32 * r \in 0 .. 31
    BY <1>1, SMT
  <2>3. AllRounds = r /\ Done = 32 * r
    <3>1. n - 64 * 0 = n
      BY <1>1, SMT
    <3>2. QED
      BY <2>1, <2>2, <3>1, SMT DEF AllRounds, Done
  <2> HIDE DEF n
  <2>4. QED
    BY <1>1, <1>3, <2>1, <2>2, <2>3, SMT DEF n
<1>4. QED
  BY <1>1, <1>2, <1>3, SMT

(* Offsets of words that lie inside the n bytes from offset s.             *)
Inside(s, n) == {w \in Int : w >= s /\ w + 8 <= s + n}

LEMMA InsideFacts ==
  ASSUME NEW s \in Nat, NEW n \in Nat
  PROVE  Inside(s, n) \subseteq Int /\ Inside(s, n) \subseteq Offsets
BY DEF Inside, Offsets

LEMMA InsideRounds ==
  ASSUME NEW s \in Nat, NEW n \in Nat, NEW at \in Int, NEW k \in Nat,
         at >= s, at + 32 * k <= s + n
  PROVE  RoundsIn(Inside(s, n), at, k)
BY SMT DEF RoundsIn, Inside

LEMMA InsideBlocks ==
  ASSUME NEW s \in Nat, NEW n \in Nat, NEW at \in Int, NEW k \in Nat,
         at >= s, at + 64 * k <= s + n
  PROVE  BlocksIn(Inside(s, n), at, k)
BY SMT DEF BlocksIn, Inside, Lanes

LEMMA LanesGrow ==
  ASSUME NEW A, NEW B, A \subseteq B, NEW lanes, LanesOver(A, lanes)
  PROVE  LanesOver(B, lanes)
<1>1. LoadedFrom(A) \subseteq LoadedFrom(B)
  BY DEF LoadedFrom
<1>2. \A s \in Seq(LoadedFrom(A)) : s \in Seq(LoadedFrom(B))
  BY <1>1, SeqGrows
<1>3. Terms(A) \subseteq Terms(B)
  BY <1>1, <1>2 DEF Terms
<1>4. \A s \in Seq(Terms(A)) : s \in Seq(Terms(B))
  BY <1>3, SeqGrows
<1>5. QED
  BY <1>2, <1>4 DEF LanesOver

LEMMA WordBeforeType ==
  ASSUME CallOK, NEW at \in Int
  PROVE  WordBefore(at) \in Int /\ WordBefore(start) = None /\ None \in Int
BY CallTypes, SMT DEF WordBefore, None

(* The lanes of the invariant are made of words of the input.              *)
LEMMA AfterBlocksOver ==
  ASSUME CallOK, NEW b \in Nat, 64 * b <= len
  PROVE  LanesOver(Inside(start, len), AfterBlocks(b))
<1> DEFINE A == Inside(start, len)
<1>1. A \subseteq Int /\ BlocksIn(A, start, b)
  BY CallTypes, InsideFacts, InsideBlocks, SMT
<1>2. None \in Int /\ start \in Int
  BY WordBeforeType, CallTypes
<1> HIDE DEF A
<1>3. LanesOver(A, Fresh)
  BY FreshOver
<1>4. LanesOver(A, Blocks(Fresh, start, b, None))
  BY <1>1, <1>2, <1>3, BlocksOver
<1>5. QED
  BY <1>4 DEF AfterBlocks, A

(* What the rounds start from.                                             *)
Entered == IF AllBlocks = 0 THEN Fresh ELSE Folded(AfterBlocks(AllBlocks))

LEMMA EnteredOver ==
  ASSUME CallOK
  PROVE  LanesOver(Inside(start, len), Entered)
<1> DEFINE A == Inside(start, len)
<1>1. AllBlocks \in Nat /\ 64 * AllBlocks <= len
  BY Counts, CallTypes, SMT
<1>2. LanesOver(A, AfterBlocks(AllBlocks))
  BY <1>1, AfterBlocksOver
<1> HIDE DEF A
<1>3. LanesOver(A, Folded(AfterBlocks(AllBlocks))) /\ LanesOver(A, Fresh)
  BY <1>2, FoldedOver, FreshOver
<1>4. QED
  BY <1>3 DEF Entered, A

LEMMA AfterRoundsOver ==
  ASSUME CallOK, NEW r \in Nat, r <= AllRounds
  PROVE  /\ LanesOver(Inside(start, len), AfterRounds(r))
         /\ AfterRounds(r) = Rounds(Entered, start + 64 * AllBlocks, r,
                                    WordBefore(start + 64 * AllBlocks))
<1> DEFINE A  == Inside(start, len)
           at == start + 64 * AllBlocks
<1>1. AllBlocks \in Nat /\ at \in Int /\ at >= start /\ at + 32 * r <= start + len
  BY Counts, CallTypes, SMT
<1>2. A \subseteq Int
  BY CallTypes, InsideFacts
<1>3. RoundsIn(A, at, r)
  <2> HIDE DEF at
  <2>1. QED
    BY <1>1, CallTypes, InsideRounds
<1>4. AfterRounds(r) = Rounds(Entered, at, r, WordBefore(at))
  BY DEF AfterRounds, Entered
<1> HIDE DEF A, at
<1>5. LanesOver(A, Entered)
  BY EnteredOver DEF A
<1>6. WordBefore(at) \in Int
  BY <1>1, WordBeforeType
<1>7. LanesOver(A, Rounds(Entered, at, r, WordBefore(at)))
  BY <1>1, <1>2, <1>3, <1>5, <1>6, RoundsOver
<1>8. QED
  BY <1>4, <1>7 DEF A, at

LEMMA WalledOver ==
  ASSUME CallOK
  PROVE  LanesOver(Inside(start, len), Walled)
<1> DEFINE A == Inside(start, len)
<1>1. LanesOver(A, AfterRounds(AllRounds))
  BY AfterRoundsOver, Counts, SMT
<1>2. CASE Done = 0
  BY <1>1, <1>2 DEF Walled
<1>3. CASE Done # 0
  <2>1. start + Done - 8 \in A
    BY <1>3, Counts, CallTypes, SMT DEF Inside
  <2> HIDE DEF A
  <2>2. Rot(start + Done - 8) \in LoadedFrom(A) /\ 0 \in 0 .. 3
    BY <2>1, TermTypes, SMT
  <2>3. LanesOver(A, Absorb(AfterRounds(AllRounds), 0, Rot(start + Done - 8)))
    BY <1>1, <2>2, AbsorbOver
  <2>4. QED
    BY <1>3, <2>3 DEF Walled, A
<1>4. QED
  BY <1>2, <1>3

LEMMA TailOver ==
  ASSUME NEW A, NEW lanes, LanesOver(A, lanes), NEW v \in A, NEW w \in A, NEW i \in {0, 2}
  PROVE  LanesOver(A, Absorb(Absorb(lanes, i, Inj(v)), i + 1, Inj(w)))
<1>1. i \in 0 .. 3 /\ i + 1 \in 0 .. 3
  BY SMT
<1>2. Inj(v) \in LoadedFrom(A) /\ Inj(w) \in LoadedFrom(A)
  BY TermTypes
<1>3. LanesOver(A, Absorb(lanes, i, Inj(v)))
  BY <1>1, <1>2, AbsorbOver
<1> DEFINE k == i + 1
<1> HIDE DEF k
<1>4. k \in 0 .. 3
  BY <1>1 DEF k
<1>5. LanesOver(A, Absorb(Absorb(lanes, i, Inj(v)), k, Inj(w)))
  BY <1>2, <1>3, <1>4, AbsorbOver
<1>6. QED
  BY <1>5 DEF k

LEMMA HeadOver ==
  ASSUME NEW A, NEW lanes, LanesOver(A, lanes), NEW at, at \in A, at + 8 \in A
  PROVE  LanesOver(A, TailHead(lanes, at))
<1>1. LanesOver(A, Absorb(Absorb(lanes, 0, Inj(at)), 0 + 1, Inj(at + 8)))
  <2> DEFINE w == at + 8
  <2>1. w \in A /\ 0 \in {0, 2}
    OBVIOUS
  <2> HIDE DEF w
  <2>2. LanesOver(A, Absorb(Absorb(lanes, 0, Inj(at)), 0 + 1, Inj(w)))
    BY <2>1, TailOver
  <2>3. QED
    BY <2>2 DEF w
<1>2. 0 + 1 = 1
  OBVIOUS
<1>3. QED
  BY <1>1, <1>2 DEF TailHead

LEMMA LastOver ==
  ASSUME NEW A, NEW lanes, LanesOver(A, lanes), NEW end, end - 16 \in A, end - 8 \in A
  PROVE  LanesOver(A, TailLast(lanes, end))
<1>1. LanesOver(A, Absorb(Absorb(lanes, 2, Inj(end - 16)), 2 + 1, Inj(end - 8)))
  <2> DEFINE v == end - 16
             w == end - 8
  <2>1. v \in A /\ w \in A /\ 2 \in {0, 2}
    OBVIOUS
  <2> HIDE DEF v, w
  <2>2. LanesOver(A, Absorb(Absorb(lanes, 2, Inj(v)), 2 + 1, Inj(w)))
    BY <2>1, TailOver
  <2>3. QED
    BY <2>2 DEF v, w
<1>2. 2 + 1 = 3
  OBVIOUS
<1>3. QED
  BY <1>1, <1>2 DEF TailLast

Headed == IF len > Done + 16 THEN TailHead(Walled, start + Done) ELSE Walled

LEMMA EndedOver ==
  ASSUME CallOK, len > 16
  PROVE  /\ LanesOver(Inside(start, len), Headed)
         /\ LanesOver(Inside(start, len), Ended)
<1> DEFINE A == Inside(start, len)
<1>1. LanesOver(A, Walled)
  BY WalledOver
<1>2. LanesOver(A, Headed)
  <2>1. CASE len > Done + 16
    <3>1. start + Done \in A /\ start + Done + 8 \in A
      BY <2>1, Counts, CallTypes, SMT DEF Inside
    <3> DEFINE at == start + Done
    <3> HIDE DEF A, at
    <3>2. LanesOver(A, TailHead(Walled, at))
      BY <1>1, <3>1, HeadOver DEF at
    <3>3. QED
      BY <2>1, <3>2 DEF Headed, at
  <2>2. CASE ~(len > Done + 16)
    BY <1>1, <2>2 DEF Headed
  <2>3. QED
    BY <2>1, <2>2
<1>3. LanesOver(A, Ended)
  <2>1. CASE len > Done
    <3> DEFINE end == start + len
    <3>1. end - 16 \in A /\ end - 8 \in A
      BY CallTypes, SMT DEF Inside
    <3> HIDE DEF A, end
    <3>2. LanesOver(A, TailLast(Headed, end))
      BY <1>2, <3>1, LastOver
    <3>3. QED
      BY <2>1, <3>2 DEF Ended, Headed, end
  <2>2. CASE ~(len > Done)
    BY <1>2, <2>2 DEF Ended, Headed
  <2>3. QED
    BY <2>1, <2>2
<1>4. QED
  BY <1>2, <1>3

(***************************************************************************)
(* The words of such lanes.                                                *)
(***************************************************************************)
LEMMA TermWords ==
  ASSUME NEW A
  PROVE  /\ \A e \in LoadedFrom(A) : e \in Terms(A) /\ e.op # "merge" /\ e.w \in A
         /\ \A e \in Terms(A) : \/ e.op # "merge" /\ e \in LoadedFrom(A)
                                \/ e.op = "merge" /\ e.lane \in Seq(LoadedFrom(A))
<1>1. \A e \in LoadedFrom(A) : e.op # "merge" /\ e.w \in A
  BY DEF LoadedFrom
<1>2. \A e \in [op : {"merge"}, lane : Seq(LoadedFrom(A))] :
        e.op = "merge" /\ e.lane \in Seq(LoadedFrom(A))
  OBVIOUS
<1>3. QED
  BY <1>1, <1>2 DEF Terms

LEMMA InDomain ==
  ASSUME NEW S, NEW s \in Seq(S)
  PROVE  DOMAIN s = 1 .. Len(s) /\ Len(s) \in Nat /\ \A i \in DOMAIN s : s[i] \in S
BY SMT

LEMMA WordsOfLoaded ==
  ASSUME NEW A, NEW s \in Seq(LoadedFrom(A))
  PROVE  WordsOf(s) \subseteq A /\ WordsOf(s) = {s[i].w : i \in DOMAIN s} /\ Merged(s) = {}
<1>1. \A i \in DOMAIN s : s[i].op # "merge" /\ s[i].w \in A
  BY InDomain, TermWords
<1>2. QED
  BY <1>1 DEF WordsOf, Merged

LEMMA LaneWordsInside ==
  ASSUME NEW A, NEW lanes, LanesOver(A, lanes)
  PROVE  LaneWords(lanes) \subseteq A
<1>1. ASSUME NEW j \in Lanes PROVE WordsOf(lanes[j]) \subseteq A /\ Merged(lanes[j]) \subseteq A
  <2>1. lanes[j] \in Seq(Terms(A))
    BY LaneTypes
  <2> DEFINE s == lanes[j]
  <2> HIDE DEF s
  <2>2. \A i \in DOMAIN s : s[i] \in Terms(A)
    BY <2>1, InDomain DEF s
  <2>3. WordsOf(s) \subseteq A
    <3>1. ASSUME NEW i \in DOMAIN s, s[i].op # "merge" PROVE s[i].w \in A
      BY <2>2, <3>1, TermWords
    <3>2. QED
      BY <3>1 DEF WordsOf
  <2>4. Merged(s) \subseteq A
    <3>1. ASSUME NEW i \in DOMAIN s, s[i].op = "merge" PROVE WordsOf(s[i].lane) \subseteq A
      <4>1. s[i].lane \in Seq(LoadedFrom(A))
        BY <2>2, <3>1, TermWords
      <4>2. QED
        BY <4>1, WordsOfLoaded
    <3>2. QED
      BY <3>1 DEF Merged
  <2>5. QED
    BY <2>3, <2>4 DEF s
<1>2. QED
  BY <1>1 DEF LaneWords

LEMMA LaneWordsRead ==
  ASSUME CallOK, LanesOver(Inside(start, len), h), short = << >>
  PROVE  ReadsInside
<1>1. \A w \in LaneWords(h) : w >= start /\ w + 8 <= start + len
  BY LaneWordsInside DEF Inside
<1>2. ShortLoads = {}
  BY DEF ShortLoads
<1>3. QED
  BY <1>1, <1>2 DEF ReadsInside, Loads

(***************************************************************************)
(* One step of each loop.                                                  *)
(***************************************************************************)
BlocksEnd(at, b) == at = start + 64 * b
RoundsEnd(at, r) == at = start + 64 * AllBlocks + 32 * r

LEMMA MoreBlocks ==
  ASSUME CallOK, NEW b \in Nat, NEW m \in Nat, NEW at \in Int, BlocksEnd(at, b)
  PROVE  Blocks(AfterBlocks(b), at, m, WordBefore(at)) = AfterBlocks(b + m)
<1> DEFINE next == WordBefore(at)
           n    == b + m
<1>1. /\ start \in Int /\ None \in Int /\ next \in Int /\ n \in Nat
      /\ IsSum(n, b, m)
  BY CallTypes, WordBeforeType, SMT DEF IsSum
<1>2. GoesOn(start, 64, b, None, at, next)
  BY CallTypes, SMT DEF GoesOn, WordBefore, BlocksEnd
<1>3. LanesOver(Offsets, Fresh)
  BY FreshOver
<1> HIDE DEF next, n
<1>4. BlocksGoOn(Fresh, start, b, None, at, m, next, n)
  BY <1>1, <1>2, <1>3, BlocksMore
<1>5. QED
  BY <1>4 DEF AfterBlocks, BlocksGoOn, next, n

LEMMA NoBlocksYet ==
  ASSUME CallOK
  PROVE  AfterBlocks(0) = Fresh
BY CallTypes, WordBeforeType, FreshOver, NoBlocks DEF AfterBlocks

LEMMA MoreRounds ==
  ASSUME CallOK, NEW r \in Nat, NEW m \in Nat, NEW at \in Int, RoundsEnd(at, r)
  PROVE  Rounds(AfterRounds(r), at, m, WordBefore(at)) = AfterRounds(r + m)
<1> DEFINE from == start + 64 * AllBlocks
           prev == WordBefore(from)
           next == WordBefore(at)
           n    == r + m
<1>1. /\ from \in Int /\ n \in Nat /\ IsSum(n, r, m) /\ from >= start
  BY CallTypes, Counts, SMT DEF IsSum
<1>2. at = from + 32 * r
  BY DEF RoundsEnd
<1> HIDE DEF from
<1>3. prev \in Int /\ next \in Int
  BY <1>1, WordBeforeType
<1>4. GoesOn(from, 32, r, prev, at, next)
  BY <1>1, <1>2, CallTypes, SMT DEF GoesOn, WordBefore
<1>5. LanesOver(Offsets, Entered)
  BY EnteredOver, LanesGrow, InsideFacts, CallTypes
<1>6. /\ AfterRounds(r) = Rounds(Entered, from, r, prev)
      /\ AfterRounds(n) = Rounds(Entered, from, n, prev)
  BY DEF AfterRounds, Entered, from
<1> HIDE DEF prev, next, n
<1>7. RoundsGoOn(Entered, from, r, prev, at, m, next, n)
  BY <1>1, <1>3, <1>4, <1>5, RoundsMore
<1>8. QED
  BY <1>6, <1>7 DEF RoundsGoOn, next, n

LEMMA NoRoundsYet ==
  ASSUME CallOK
  PROVE  AfterRounds(0) = Entered
<1> DEFINE from == start + 64 * AllBlocks
<1>1. from \in Int
  BY CallTypes, Counts, SMT
<1>2. AfterRounds(0) = Rounds(Entered, from, 0, WordBefore(from))
  BY DEF AfterRounds, Entered
<1> HIDE DEF from
<1>3. WordBefore(from) \in Int
  BY <1>1, WordBeforeType
<1>4. LanesOver(Offsets, Entered)
  BY EnteredOver, LanesGrow, InsideFacts, CallTypes
<1>5. QED
  BY <1>1, <1>2, <1>3, <1>4, NoRounds

(* What depends on the call alone does not change.                         *)
LEMMA CallFixed ==
  ASSUME CallOK, UNCHANGED call
  PROVE  /\ CallOK' /\ start' = start /\ len' = len /\ build' = build /\ width' = width
         /\ AllBlocks' = AllBlocks /\ AllRounds' = AllRounds /\ Done' = Done
         /\ Walled' = Walled /\ Ended' = Ended /\ EndOfPairs' = EndOfPairs
         /\ \A b : AfterBlocks(b)' = AfterBlocks(b)
         /\ \A r : AfterRounds(r)' = AfterRounds(r)
         /\ \A at : WordBefore(at)' = WordBefore(at)
<1>1. start' = start /\ len' = len /\ build' = build /\ width' = width
  BY DEF call
<1>2. CallOK'
  BY <1>1 DEF CallOK
<1>3. AllBlocks' = AllBlocks /\ EndOfPairs' = EndOfPairs
  BY <1>1 DEF AllBlocks, EndOfPairs
<1>4. AllRounds' = AllRounds
  BY <1>1, <1>3 DEF AllRounds
<1>5. Done' = Done
  BY <1>3, <1>4 DEF Done
<1>6. \A at : WordBefore(at)' = WordBefore(at)
  BY <1>1 DEF WordBefore
<1>7. \A b : AfterBlocks(b)' = AfterBlocks(b)
  BY <1>1 DEF AfterBlocks
<1>8. \A r : AfterRounds(r)' = AfterRounds(r)
  BY <1>1, <1>3, <1>6, <1>7 DEF AfterRounds
<1>9. Walled' = Walled
  BY <1>1, <1>4, <1>5, <1>8 DEF Walled
<1>10. Ended' = Ended
  BY <1>1, <1>5, <1>9 DEF Ended
<1>11. QED
  BY <1>1, <1>2, <1>3, <1>4, <1>5, <1>6, <1>7, <1>8, <1>9, <1>10

(***************************************************************************)
(* Every action preserves the invariant.                                   *)
(***************************************************************************)
LoadsOf(s) == UNION {{s[k][i] : i \in DOMAIN s[k]} : k \in DOMAIN s}

(* On the short path the loads stay inside and leave no byte out.          *)
LEMMA ShortPathReads ==
  ASSUME IInv, ShortPath
  PROVE  ReadsInside' /\ EveryByteRead'
<1>1. /\ pc' = "done" /\ p = start /\ l = len /\ h' = Fresh /\ len <= 16
      /\ CallOK /\ start' = start /\ len' = len
  BY CallFixed DEF IInv, ShortPath, call
<1>2. start \in Nat /\ len \in Nat
  BY <1>1, CallTypes
<1>3. Loads' = LoadsOf(short')
  <2>1. LaneWords(Fresh) = {}
    <3>1. LanesOver({}, Fresh)
      BY FreshOver
    <3>2. QED
      BY <3>1, LaneWordsInside
  <2>2. QED
    BY <1>1, <2>1 DEF Loads, ShortLoads, LoadsOf
<1>4. ASSUME \A r \in LoadsOf(short') : r[1] >= start /\ r[1] + r[2] <= start + len,
             \A b \in start .. start + len - 1 :
               \E r \in LoadsOf(short') : b \in r[1] .. r[1] + r[2] - 1
      PROVE  ReadsInside' /\ EveryByteRead'
  BY <1>1, <1>3, <1>4 DEF ReadsInside, EveryByteRead
<1>5. ASSUME NEW s, NEW v, NEW w, s = << << v >>, << w >> >>
      PROVE  LoadsOf(s) = {v, w}
  BY <1>5 DEF LoadsOf
<1>6. ASSUME NEW s, NEW u, NEW v, NEW w, s = << << u >>, << v, w >> >>
      PROVE  LoadsOf(s) = {u, v, w}
  BY <1>6 DEF LoadsOf
<1>7. CASE len >= 8
  <2>1. LoadsOf(short') = {<< start, 8 >>, << start + len - 8, 8 >>}
    BY <1>1, <1>2, <1>5, <1>7 DEF ShortPath
  <2>2. QED
    BY <1>1, <1>2, <1>4, <1>7, <2>1
<1>8. CASE len >= 4 /\ len < 8
  <2>1. LoadsOf(short') = {<< start, 4 >>, << start + len - 4, 4 >>}
    BY <1>1, <1>2, <1>5, <1>8 DEF ShortPath
  <2>2. QED
    BY <1>1, <1>2, <1>4, <1>8, <2>1
<1>9. CASE len > 0 /\ len < 4
  <2>1. LoadsOf(short')
          = {<< start, 1 >>, << start + len \div 2, 1 >>, << start + len - 1, 1 >>}
    BY <1>1, <1>2, <1>6, <1>9 DEF ShortPath
  <2>2. QED
    BY <1>1, <1>2, <1>4, <1>9, <2>1
<1>10. CASE len = 0
  <2>1. LoadsOf(short') = {}
    BY <1>1, <1>2, <1>10 DEF ShortPath, LoadsOf
  <2>2. QED
    BY <1>1, <1>2, <1>4, <1>10, <2>1
<1>11. QED
  BY <1>2, <1>7, <1>8, <1>9, <1>10

LEMMA ShortPathKeeps ==
  ASSUME IInv, ShortPath
  PROVE  IInv'
<1>1. ReadsInside' /\ EveryByteRead'
  BY ShortPathReads
<1>2. /\ pc' = "done" /\ CallOK' /\ len' <= 16 /\ l' \in Nat
  BY CallFixed, PathsAssumption DEF IInv, ShortPath, call
<1>3. ~(len' > 16)
  BY <1>2, CallTypes, CallFixed, SMT DEF IInv, ShortPath
<1>4. QED
  BY <1>1, <1>2, <1>3 DEF IInv

(* A step after which the lanes are complete.                              *)
LEMMA ReachesEnd ==
  ASSUME IInv, UNCHANGED << call, short >>, len > 16, pc' = "done", h' = Ended, l' \in Nat
  PROVE  IInv'
<1>1. CallOK' /\ len' = len /\ Ended' = Ended /\ short' = short
  BY CallFixed DEF IInv
<1>2. short = << >> /\ ~(len <= 16)
  BY CallTypes, SMT DEF IInv
<1>3. QED
  BY <1>1, <1>2 DEF IInv

(* A wide build is one of the header, whose pointer starts at 0.           *)
LEMMA WideIsHeader ==
  ASSUME CallOK, build.wide
  PROVE  start = 0 /\ build.lang = "C"
<1>1. build \in BuildTypes
  BY PathsAssumption DEF CallOK
<1>2. build.lang = "C"
  BY <1>1 DEF BuildTypes, Ports
<1>3. QED
  BY <1>2 DEF CallOK

LEMMA TailTierKeeps ==
  ASSUME IInv, TailTier
  PROVE  IInv'
<1>1. /\ CallOK /\ h = Fresh /\ l = len /\ len > 16 /\ len < 32 /\ start = 0
      /\ h' = TailLast(TailHead(Fresh, 0), len)
  BY WideIsHeader DEF IInv, TailTier, Tiers
<1>2. Done = 0 /\ AllBlocks = 0 /\ AllRounds = 0
  BY <1>1, Counts, CallTypes, SMT
<1>3. Walled = Fresh
  BY <1>1, <1>2, NoRoundsYet DEF Walled, Entered
<1>4. 0 + 0 = 0 /\ 0 + len = len /\ len > 0 + 16 /\ len > 0
  BY <1>1, CallTypes, SMT
<1>5. Ended = TailLast(TailHead(Fresh, 0), len)
  BY <1>1, <1>2, <1>3, <1>4 DEF Ended
<1>6. QED
  BY <1>1, <1>5, ReachesEnd DEF TailTier, IInv

LEMMA TierRoundsAre ==
  ASSUME l \in Nat, l >= 32, l < 256
  PROVE  TierRounds = l \div 32
<1>1. CASE l < 64
  BY <1>1, SMT DEF TierRounds
<1>2. CASE l >= 64 /\ l < 128
  BY <1>2, SMT DEF TierRounds
<1>3. CASE l >= 128 /\ l < 192
  BY <1>3, SMT DEF TierRounds
<1>4. CASE l >= 192
  BY <1>4, SMT DEF TierRounds
<1>5. QED
  BY <1>1, <1>2, <1>3, <1>4, SMT

LEMMA RoundTierKeeps ==
  ASSUME IInv, RoundTier
  PROVE  IInv'
<1>1. CallOK /\ h = Fresh /\ l = len /\ len >= 32 /\ len < 256 /\ start = 0
  BY WideIsHeader DEF IInv, RoundTier, Tiers
<1>2. /\ AllBlocks = 0 /\ AllRounds \in Nat /\ AllRounds = len \div 32
      /\ Done = 32 * AllRounds /\ Done # 0
  BY <1>1, Counts, CallTypes, SMT
<1>3. TierRounds = AllRounds
  BY <1>1, <1>2, CallTypes, TierRoundsAre
<1> DEFINE k      == AllRounds
           walled == Absorb(Rounds(Fresh, 0, k, None), 0, Rot(32 * k - 8))
           headed == IF len > 32 * k + 16 THEN TailHead(walled, 32 * k) ELSE walled
<1>4. h' = IF len > 32 * k THEN TailLast(headed, len) ELSE headed
  BY <1>1, <1>3 DEF RoundTier
<1>5. AfterRounds(k) = Rounds(Fresh, 0, k, None)
  <2>1. 0 + 64 * 0 = 0
    BY SMT
  <2>2. QED
    BY <1>1, <1>2, <2>1 DEF AfterRounds, WordBefore
<1>6. 0 + Done - 8 = 32 * k - 8 /\ 0 + Done = 32 * k /\ 0 + len = len
  BY <1>1, <1>2, CallTypes, SMT
<1>7. Walled = walled
  BY <1>1, <1>2, <1>5, <1>6 DEF Walled
<1>8. h' = Ended
  BY <1>1, <1>2, <1>4, <1>6, <1>7 DEF Ended
<1>9. len > 16
  BY <1>1, CallTypes, SMT
<1>10. QED
  BY <1>8, <1>9, ReachesEnd DEF RoundTier, IInv

(* The steps of the loops: the lanes after some rounds, and where p is.    *)
LEMMA InRoundsNow ==
  ASSUME IInv, pc \in {"midpair", "mid", "lastmid", "wall"}
  PROVE  \E r \in Nat :
           /\ InRounds(r) /\ r <= AllRounds /\ RoundsEnd(p, r) /\ p \in Int /\ l \in Nat
           /\ (pc = "wall" => r = AllRounds)
<1>1. PICK r \in Nat : InRounds(r)
  BY DEF IInv
<1>2. CallOK /\ (pc = "wall" => l < 32)
  BY DEF IInv
<1>3. RoundsEnd(p, r) /\ p \in Int
  BY <1>1, <1>2, CallTypes, Counts, SMT DEF InRounds, RoundsEnd
<1>4. l \in Nat
  BY DEF IInv
<1>5. r <= AllRounds /\ (pc = "wall" => r = AllRounds)
  <2>1. p = start + 64 * AllBlocks + 32 * r /\ p + l = start + len
    BY <1>1 DEF InRounds
  <2>2. /\ start \in Nat /\ len \in Nat /\ AllBlocks \in Nat /\ AllRounds \in Nat
        /\ 64 * AllBlocks + 32 * AllRounds <= len /\ len < 64 * AllBlocks + 32 * AllRounds + 32
    BY <1>2, CallTypes, Counts
  <2>3. 64 * AllBlocks + 32 * r + l = len
    BY <1>3, <1>4, <2>1, <2>2, SMT
  <2>4. r <= AllRounds
    BY <1>4, <2>2, <2>3, SMT
  <2>5. ASSUME l < 32 PROVE r = AllRounds
    BY <1>4, <2>2, <2>3, <2>5, SMT
  <2>6. QED
    BY <1>2, <2>4, <2>5
<1>6. QED
  BY <1>1, <1>3, <1>4, <1>5

(* A step after which p is at the end of r rounds.                         *)
LEMMA ReachesRounds ==
  ASSUME IInv, pc # "done", UNCHANGED << call, short >>, len > 16,
         pc' \in {"midpair", "mid", "lastmid", "wall"},
         NEW r \in Nat, RoundsEnd(p', r), p' + l' = start + len, l' \in Nat,
         h' = AfterRounds(r), wp' = WordBefore(p'),
         pc' = "lastmid" => l' < 64, pc' = "wall" => l' < 32
  PROVE  IInv'
<1>1. /\ CallOK' /\ start' = start /\ len' = len /\ AllBlocks' = AllBlocks
      /\ AfterRounds(r)' = AfterRounds(r) /\ short' = << >>
      /\ WordBefore(p)' = WordBefore(p')
  BY CallFixed DEF IInv, call, WordBefore
<1>2. InRounds(r)'
  BY <1>1 DEF InRounds, RoundsEnd
<1>3. QED
  BY <1>1, <1>2 DEF IInv

LEMMA EnterMidKeeps ==
  ASSUME IInv, EnterMid
  PROVE  IInv'
<1>1. /\ CallOK /\ l = len /\ p = start /\ h = Fresh /\ wp = None
      /\ len > 16 /\ len < 320 /\ pc' \in {"midpair", "mid"}
      /\ UNCHANGED << call, p, l, h, wp, short >> /\ l \in Nat /\ pc # "done"
  BY DEF IInv, EnterMid
<1>2. AllBlocks = 0
  BY <1>1, Counts
<1>3. /\ h' = AfterRounds(0) /\ RoundsEnd(p', 0) /\ p' + l' = start + len
      /\ wp' = WordBefore(p')
  <2>1. AfterRounds(0) = Fresh
    BY <1>1, <1>2, NoRoundsYet DEF Entered
  <2>2. p' + l' = start + len
    BY <1>1
  <2>3. RoundsEnd(p', 0) /\ WordBefore(p') = None
    BY <1>1, <1>2, CallTypes, SMT DEF RoundsEnd, WordBefore
  <2>4. QED
    BY <1>1, <2>1, <2>2, <2>3
<1>4. l' \in Nat /\ UNCHANGED << call, short >>
  BY <1>1
<1>5. QED
  BY <1>1, <1>3, <1>4, ReachesRounds

(* k more rounds.                                                          *)
LEMMA RoundsStep ==
  ASSUME IInv, pc \in {"midpair", "mid", "lastmid"}, UNCHANGED << call, short >>,
         NEW k \in {1, 2}, l >= 32 * k,
         h' = Rounds(h, p, k, wp), wp' = p + 32 * k - 8, p' = p + 32 * k, l' = l - 32 * k,
         pc' \in {"midpair", "mid", "wall"},
         pc' = "wall" => l' < 32
  PROVE  IInv' /\ p' > p /\ p' + l' = start + len /\ l' >= 0
<1>1. PICK r \in Nat : InRounds(r) /\ RoundsEnd(p, r) /\ p \in Int /\ l \in Nat
  BY InRoundsNow
<1>2. CallOK /\ len > 16
  BY DEF IInv
<1>3. /\ p + l = start + len /\ h = AfterRounds(r) /\ wp = WordBefore(p)
      /\ p = start + 64 * AllBlocks + 32 * r
  BY <1>1 DEF InRounds
<1>4. /\ start \in Nat /\ len \in Nat /\ AllBlocks \in Nat
  BY <1>2, CallTypes, Counts
<1> DEFINE n == r + k
<1>5. n \in Nat /\ k \in Nat
  BY SMT
<1>6. /\ p' > p /\ p' + l' = start + len /\ l' >= 0 /\ l' \in Nat
      /\ RoundsEnd(p', n) /\ p' # start /\ wp' = p' - 8
  BY <1>1, <1>3, <1>4, SMT DEF RoundsEnd
<1>7. h' = AfterRounds(n)
  BY <1>1, <1>2, <1>3, <1>5, MoreRounds
<1>8. wp' = WordBefore(p')
  BY <1>6 DEF WordBefore
<1> HIDE DEF n
<1>9. IInv'
  BY <1>2, <1>5, <1>6, <1>7, <1>8, ReachesRounds
<1>10. QED
  BY <1>6, <1>9

(* No more rounds here.                                                    *)
LEMMA RoundsStop ==
  ASSUME IInv, pc \in {"midpair", "mid", "lastmid"}, UNCHANGED << call, short, h, wp, p, l >>,
         pc' \in {"lastmid", "wall"},
         pc' = "lastmid" => l < 64, pc' = "wall" => l < 32
  PROVE  IInv'
<1>1. PICK r \in Nat : InRounds(r) /\ RoundsEnd(p, r) /\ l \in Nat
  BY InRoundsNow
<1>2. /\ p' + l' = start + len /\ h' = AfterRounds(r) /\ wp' = WordBefore(p')
      /\ RoundsEnd(p', r) /\ l' \in Nat
  <2>1. p' = p /\ l' = l /\ h' = h /\ wp' = wp
    OBVIOUS
  <2>2. WordBefore(p') = WordBefore(p)
    BY <2>1 DEF WordBefore
  <2>3. RoundsEnd(p', r)
    BY <1>1, <2>1 DEF RoundsEnd
  <2>4. QED
    BY <1>1, <2>1, <2>2, <2>3 DEF InRounds
<1>3. len > 16 /\ pc # "done"
  BY DEF IInv
<1>4. QED
  BY <1>2, <1>3, ReachesRounds

LEMMA MidPairKeeps ==
  ASSUME IInv, MidPair
  PROVE  IInv' /\ (p' # p => p' > p /\ p' + l' = start + len /\ l' >= 0)
<1>1. CASE l >= 64
  <2>1. PICK r \in Nat : p \in Int /\ l \in Nat
    BY InRoundsNow DEF MidPair
  <2>2. /\ l >= 32 * 2 /\ p + 56 = p + 32 * 2 - 8 /\ p + 64 = p + 32 * 2
        /\ l - 64 = l - 32 * 2
    BY <1>1, <2>1, SMT
  <2>3. /\ h' = Rounds(h, p, 2, wp) /\ wp' = p + 32 * 2 - 8 /\ p' = p + 32 * 2
        /\ l' = l - 32 * 2 /\ pc = "midpair" /\ pc' = "midpair" /\ UNCHANGED << call, short >>
    BY <1>1, <2>2 DEF MidPair
  <2>4. QED
    BY <2>2, <2>3, RoundsStep
<1>2. CASE ~(l >= 64)
  <2>1. l < 64
    BY <1>2, SMT DEF IInv
  <2>2. IInv' /\ p' = p
    BY <1>2, <2>1, RoundsStop DEF MidPair
  <2>3. QED
    BY <2>2
<1>3. QED
  BY <1>1, <1>2

LEMMA MidRoundKeeps ==
  ASSUME IInv, MidRound
  PROVE  IInv' /\ (p' # p => p' > p /\ p' + l' = start + len /\ l' >= 0)
<1>1. CASE l >= 32
  <2>1. p \in Int /\ l \in Nat
    BY InRoundsNow DEF MidRound
  <2>2. /\ l >= 32 * 1 /\ p + 24 = p + 32 * 1 - 8 /\ p + 32 = p + 32 * 1
        /\ l - 32 = l - 32 * 1
    BY <1>1, <2>1, SMT
  <2>3. /\ h' = Rounds(h, p, 1, wp) /\ wp' = p + 32 * 1 - 8 /\ p' = p + 32 * 1
        /\ l' = l - 32 * 1 /\ UNCHANGED << call, short >>
        /\ pc \in {"mid", "lastmid"} /\ pc' = IF pc = "mid" THEN "mid" ELSE "wall"
    BY <1>1, <2>2 DEF MidRound
  <2>4. pc' = "wall" => l' < 32
    <3>1. pc = "lastmid" => l < 64
      BY DEF IInv
    <3>2. QED
      BY <2>1, <2>3, <3>1, SMT
  <2>5. pc \in {"midpair", "mid", "lastmid"} /\ pc' \in {"midpair", "mid", "wall"}
    BY <2>3
  <2>6. QED
    BY <2>2, <2>3, <2>4, <2>5, RoundsStep
<1>2. CASE ~(l >= 32)
  <2>1. l < 32
    BY <1>2, SMT DEF IInv
  <2>2. IInv' /\ p' = p
    BY <1>2, <2>1, RoundsStop DEF MidRound
  <2>3. QED
    BY <2>2
<1>3. QED
  BY <1>1, <1>2

(* The bulk loops: b blocks, then m more.                                  *)
LEMMA BlocksStep ==
  ASSUME CallOK, NEW b \in Nat, InBlocks(b), NEW m \in Nat,
         h' = Blocks(h, p, m, wp), wp' = p + 64 * m - 8, p' = p + 64 * m, m > 0,
         UNCHANGED call
  PROVE  InBlocks(b + m)' /\ p' > p /\ p \in Int /\ p' = start + 64 * (b + m)
<1>1. start \in Nat /\ p = start + 64 * b /\ h = AfterBlocks(b) /\ wp = WordBefore(p)
  BY CallTypes DEF InBlocks
<1> DEFINE n == b + m
<1>2. n \in Nat /\ n > 0
  BY SMT
<1>3. p \in Int /\ BlocksEnd(p, b) /\ p' > p /\ wp' = p' - 8 /\ p' # start
  BY <1>1, SMT DEF BlocksEnd
<1>4. p' = start + 64 * n
  BY <1>1, SMT
<1>5. h' = AfterBlocks(n)
  BY <1>1, <1>3, MoreBlocks
<1>6. /\ start' = start /\ len' = len /\ AfterBlocks(n)' = AfterBlocks(n)
      /\ WordBefore(p)' = WordBefore(p')
  BY CallFixed DEF WordBefore
<1>7. len >= 320
  BY DEF InBlocks
<1> HIDE DEF n
<1>8. InBlocks(n)'
  BY <1>3, <1>4, <1>5, <1>6, <1>7 DEF InBlocks, WordBefore
<1>9. QED
  BY <1>3, <1>4, <1>8 DEF n

(* A length, in pairs of blocks, and in blocks.                            *)
LEMMA LengthInPairs ==
  ASSUME CallOK
  PROVE  \E q \in Nat : /\ len = 128 * q + (len % 128) /\ EndOfPairs = 128 * q
                        /\ len % 128 \in 0 .. 127
<1>1. len \in Nat
  BY CallTypes
<1>2. PICK q \in Nat, t \in 0 .. 127 : len = 128 * q + t /\ t = len % 128
  BY <1>1, SMT
<1>3. EndOfPairs = 128 * q
  <2>1. EndOfPairs = len - t
    BY <1>2 DEF EndOfPairs
  <2>2. len - t = 128 * q
    BY <1>2, SMT
  <2>3. QED
    BY <2>1, <2>2
<1>4. QED
  BY <1>2, <1>3

LEMMA EnterBulkKeeps ==
  ASSUME IInv, EnterBulk
  PROVE  IInv'
<1>1. /\ CallOK /\ l = len /\ p = start /\ h = Fresh /\ wp = None /\ len >= 320
      /\ UNCHANGED << call, p, h, wp, short >> /\ l \in Nat /\ short = << >>
  BY DEF IInv, EnterBulk
<1>2. /\ CallOK' /\ start' = start /\ len' = len /\ EndOfPairs' = EndOfPairs
      /\ AfterBlocks(0)' = AfterBlocks(0) /\ WordBefore(p)' = WordBefore(p')
  BY <1>1, CallFixed DEF WordBefore
<1>3. InBlocks(0)'
  <2>1. AfterBlocks(0) = Fresh /\ WordBefore(start) = None
    BY <1>1, NoBlocksYet DEF WordBefore
  <2>2. p' = start + 64 * 0
    BY <1>1, CallTypes, SMT
  <2>3. WordBefore(p)' = None
    BY <1>1, <1>2, <2>1
  <2>4. QED
    BY <1>1, <1>2, <2>1, <2>2, <2>3 DEF InBlocks
<1>4. CASE TwoBlocks
  <2>1. start = 0 /\ pe' = EndOfPairs /\ l' = len % 128 /\ pc' = "pairs"
    BY <1>1, <1>4, WideIsHeader DEF EnterBulk, TwoBlocks
  <2>2. l' \in Nat /\ p' < EndOfPairs
    <3>1. PICK q \in Nat : /\ len = 128 * q + (len % 128) /\ EndOfPairs = 128 * q
                           /\ len % 128 \in 0 .. 127
      BY <1>1, LengthInPairs
    <3>2. QED
      BY <1>1, <2>1, <3>1, SMT
  <2>3. InBlocks(2 * 0)' /\ 0 \in Nat
    <3>1. 2 * 0 = 0
      BY SMT
    <3>2. QED
      BY <1>3, <3>1
  <2>4. \E b \in Nat : InBlocks(2 * b)'
    BY <2>3
  <2>5. QED
    BY <1>1, <1>2, <2>1, <2>2, <2>4 DEF IInv
<1>5. CASE ~TwoBlocks
  <2>1. l' = l /\ pc' = "blocks"
    BY <1>5 DEF EnterBulk
  <2>2. p' + l' = start' + len' /\ l' >= 64
    BY <1>1, <1>2, <2>1, CallTypes, SMT
  <2>3. 0 \in Nat
    BY SMT
  <2>4. QED
    BY <1>1, <1>2, <1>3, <2>1, <2>2, <2>3 DEF IInv
<1>6. QED
  BY <1>4, <1>5

LEMMA BlockPairKeeps ==
  ASSUME IInv, BlockPair
  PROVE  IInv' /\ p' > p /\ p' <= pe
<1>1. /\ CallOK /\ start = 0 /\ l = len % 128 /\ pe = EndOfPairs /\ p < pe /\ l \in Nat
      /\ short = << >> /\ UNCHANGED << call, l, pe, short >>
      /\ pc' = IF p' # pe THEN "pairs" ELSE "oddblock"
  BY DEF IInv, BlockPair
<1>2. PICK b \in Nat : InBlocks(2 * b)
  BY DEF IInv, BlockPair
<1> DEFINE c == 2 * b
           d == 2 * (b + 1)
<1>3. c \in Nat /\ c + 2 = d /\ b + 1 \in Nat /\ 2 \in Nat /\ 2 > 0
  BY SMT
<1>4. InBlocks(c)
  BY <1>2
<1>5. p \in Int
  BY <1>1, <1>4, CallTypes, SMT DEF InBlocks
<1>6. /\ h' = Blocks(h, p, 2, wp) /\ wp' = p + 64 * 2 - 8 /\ p' = p + 64 * 2
  <2>1. p + 64 * 2 - 8 = p + 120 /\ p + 64 * 2 = p + 128
    BY <1>5, SMT
  <2>2. QED
    BY <2>1 DEF BlockPair
<1>7. InBlocks(d)' /\ p' > p /\ p' = start + 64 * d
  <2> HIDE DEF c, d
  <2>1. InBlocks(c + 2)' /\ p' > p /\ p' = start + 64 * (c + 2)
    BY <1>1, <1>3, <1>4, <1>6, BlocksStep
  <2>2. QED
    BY <1>3, <2>1
<1>8. PICK q \in Nat : /\ len = 128 * q + (len % 128) /\ EndOfPairs = 128 * q
                       /\ len % 128 \in 0 .. 127
  BY <1>1, LengthInPairs
<1>9. p' <= pe
  <2>1. p = 128 * b /\ p' = 128 * b + 128
    BY <1>1, <1>4, <1>7, SMT DEF InBlocks
  <2>2. pe = 128 * q
    BY <1>1, <1>8
  <2> HIDE DEF c, d
  <2>3. QED
    BY <1>1, <2>1, <2>2, SMT
<1>10. /\ CallOK' /\ start' = start /\ len' = len /\ EndOfPairs' = EndOfPairs
  BY <1>1, CallFixed
<1>11. \E e \in Nat : InBlocks(2 * e)'
  BY <1>3, <1>7
<1>12. pc' = "pairs" => p' < pe
  <2>1. p' \in Int /\ pe \in Int
    BY <1>1, <1>5, <1>6, <1>8, SMT
  <2>2. QED
    BY <1>1, <1>9, <2>1, SMT
<1>13. pc' = "oddblock" => p' + l' = len
  <2>1. pc' = "oddblock" => p' = 128 * q
    BY <1>1, <1>8
  <2>2. QED
    BY <1>1, <1>8, <2>1, CallTypes, SMT
<1>14. IInv'
  BY <1>1, <1>10, <1>11, <1>12, <1>13 DEF IInv
<1>15. QED
  BY <1>7, <1>9, <1>14

(* A step after which all blocks are done.                                 *)
LEMMA ReachesFold ==
  ASSUME IInv, pc # "done", UNCHANGED << call, short >>, pc' = "fold",
         NEW b \in Nat, InBlocks(b)', p' = start + 64 * b, p' + l' = start + len,
         l' \in Nat, l' < 64
  PROVE  IInv'
<1>1. /\ CallOK' /\ start' = start /\ len' = len /\ AllBlocks' = AllBlocks /\ short' = << >>
  BY CallFixed DEF IInv
<1>2. len >= 320
  BY <1>1 DEF InBlocks
<1>3. AllBlocks = b
  <2>1. CallOK
    BY DEF IInv
  <2>2. 64 * b + l' = len
    BY <2>1, CallTypes, SMT
  <2>3. AllBlocks \in Nat /\ 64 * AllBlocks <= len /\ len < 64 * AllBlocks + 64
    BY <1>2, <2>1, Counts, CallTypes, SMT
  <2>4. QED
    BY <2>2, <2>3, SMT
<1>4. QED
  BY <1>1, <1>3 DEF IInv

LEMMA OddBlockKeeps ==
  ASSUME IInv, OddBlock
  PROVE  IInv' /\ (p' # p => p' > p /\ p' + l' = start + len /\ l' >= 0)
<1>1. /\ CallOK /\ start = 0 /\ l = len % 128 /\ p + l = len /\ l \in Nat /\ pc # "done"
      /\ UNCHANGED << call, short >> /\ pc' = "fold"
  BY DEF IInv, OddBlock
<1>2. PICK b \in Nat : InBlocks(2 * b)
  BY DEF IInv, OddBlock
<1> DEFINE c == 2 * b
<1>3. c \in Nat /\ c + 1 \in Nat /\ 1 \in Nat /\ 1 > 0 /\ l < 128
  BY <1>1, CallTypes, SMT
<1>4. InBlocks(c)
  BY <1>2
<1> HIDE DEF c
<1>5. p \in Int /\ p = start + 64 * c
  BY <1>1, <1>3, <1>4, CallTypes, SMT DEF InBlocks
<1>6. CASE l >= 64
  <2>1. h' = Blocks(h, p, 1, wp) /\ wp' = p + 64 * 1 - 8 /\ p' = p + 64 * 1 /\ l' = l - 64
    <3>1. p + 64 * 1 - 8 = p + 56 /\ p + 64 * 1 = p + 64
      BY <1>5, SMT
    <3>2. QED
      BY <1>6, <3>1 DEF OddBlock
  <2>2. InBlocks(c + 1)' /\ p' > p /\ p' = start + 64 * (c + 1)
    BY <1>1, <1>3, <1>4, <2>1, BlocksStep
  <2>3. p' + l' = start + len /\ l' \in Nat /\ l' < 64 /\ l' >= 0
    BY <1>1, <1>3, <1>5, <1>6, <2>1, CallTypes, SMT
  <2> DEFINE d == c + 1
  <2>4. d \in Nat /\ InBlocks(d)' /\ p' = start + 64 * d
    BY <1>3, <2>2
  <2> HIDE DEF d
  <2>5. IInv'
    BY <1>1, <2>3, <2>4, ReachesFold
  <2>6. QED
    BY <2>2, <2>3, <2>5
<1>7. CASE ~(l >= 64)
  <2>1. h' = h /\ wp' = wp /\ p' = p /\ l' = l
    BY <1>7 DEF OddBlock
  <2>2. InBlocks(c)'
    <3>1. /\ start' = start /\ len' = len /\ AfterBlocks(c)' = AfterBlocks(c)
          /\ WordBefore(p)' = WordBefore(p)
      BY <1>1, <2>1, CallFixed DEF WordBefore
    <3>2. QED
      BY <1>4, <2>1, <3>1 DEF InBlocks
  <2>3. p' = start + 64 * c /\ p' + l' = start + len /\ l' \in Nat /\ l' < 64
    BY <1>1, <1>5, <1>7, <2>1, CallTypes, SMT
  <2>4. IInv'
    BY <1>1, <1>3, <2>2, <2>3, ReachesFold
  <2>5. QED
    BY <2>1, <2>4
<1>8. QED
  BY <1>6, <1>7

LEMMA OneBlockKeeps ==
  ASSUME IInv, OneBlock
  PROVE  IInv' /\ p' > p /\ p' + l' = start + len /\ l' >= 0
<1>1. /\ CallOK /\ l \in Nat /\ l >= 64 /\ p + l = start + len /\ pc # "done"
      /\ UNCHANGED << call, short >> /\ short = << >> /\ l' = l - 64
      /\ pc' = IF l' >= 64 THEN "blocks" ELSE "fold"
  BY DEF IInv, OneBlock
<1>2. PICK b \in Nat : InBlocks(b)
  BY DEF IInv, OneBlock
<1>3. p \in Int /\ 1 \in Nat /\ 1 > 0
  BY <1>1, <1>2, CallTypes, SMT DEF InBlocks
<1>4. h' = Blocks(h, p, 1, wp) /\ wp' = p + 64 * 1 - 8 /\ p' = p + 64 * 1
  <2>1. p + 64 * 1 - 8 = p + 56 /\ p + 64 * 1 = p + 64
    BY <1>3, SMT
  <2>2. QED
    BY <2>1 DEF OneBlock
<1> DEFINE d == b + 1
<1>5. InBlocks(d)' /\ p' > p /\ p' = start + 64 * d /\ d \in Nat
  BY <1>1, <1>2, <1>3, <1>4, BlocksStep
<1>6. p' + l' = start + len /\ l' \in Nat /\ l' >= 0
  BY <1>1, <1>3, <1>4, CallTypes, SMT
<1> HIDE DEF d
<1>7. CASE l' >= 64
  <2>1. CallOK' /\ start' = start /\ len' = len
    BY <1>1, CallFixed
  <2>2. pc' = "blocks"
    BY <1>1, <1>7
  <2>3. \E e \in Nat : InBlocks(e)' /\ p' + l' = start' + len' /\ l' >= 64
    BY <1>5, <1>6, <1>7, <2>1
  <2>4. IInv'
    BY <1>1, <1>6, <2>1, <2>2, <2>3 DEF IInv
  <2>5. QED
    BY <1>5, <1>6, <2>4
<1>8. CASE ~(l' >= 64)
  <2>1. pc' = "fold" /\ l' < 64
    BY <1>1, <1>6, <1>8, SMT
  <2>2. IInv'
    BY <1>1, <1>5, <1>6, <2>1, ReachesFold
  <2>3. QED
    BY <1>5, <1>6, <2>2
<1>9. QED
  BY <1>7, <1>8

LEMMA FoldKeeps ==
  ASSUME IInv, Fold
  PROVE  IInv'
<1>1. /\ CallOK /\ l \in Nat /\ p + l = start + len /\ InBlocks(AllBlocks) /\ pc # "done"
      /\ UNCHANGED << call, p, l, wp, short >> /\ h' = Folded(h)
      /\ pc' \in {"mid", "lastmid"}
  BY DEF IInv, Fold
<1>2. /\ len >= 320 /\ p = start + 64 * AllBlocks /\ h = AfterBlocks(AllBlocks)
      /\ wp = WordBefore(p)
  BY <1>1 DEF InBlocks
<1>3. AllBlocks # 0 /\ len > 16 /\ l < 64 /\ RoundsEnd(p', 0)
  BY <1>1, <1>2, Counts, CallTypes, SMT DEF RoundsEnd
<1>4. h' = AfterRounds(0)
  BY <1>1, <1>2, <1>3, NoRoundsYet DEF Entered
<1>5. wp' = WordBefore(p')
  BY <1>1, <1>2 DEF WordBefore
<1>6. p' + l' = start + len /\ l' \in Nat /\ l' < 64 /\ 0 \in Nat
  BY <1>1, <1>3
<1>7. QED
  BY <1>1, <1>3, <1>4, <1>5, <1>6, ReachesRounds

LEMMA WallKeeps ==
  ASSUME IInv, Wall
  PROVE  IInv'
<1>1. /\ CallOK /\ len > 16 /\ l \in Nat /\ pc # "done" /\ short = << >>
      /\ h' = (IF wp = None THEN h ELSE Absorb(h, 0, Rot(wp)))
      /\ pc' = "tail" /\ UNCHANGED << call, p, l, short >>
  BY DEF IInv, Wall
<1>2. PICK r \in Nat : InRounds(r) /\ r = AllRounds
  BY InRoundsNow DEF Wall
<1>3. /\ p = start + 64 * AllBlocks + 32 * AllRounds /\ p + l = start + len
      /\ h = AfterRounds(AllRounds) /\ wp = WordBefore(p)
  BY <1>2 DEF InRounds
<1>4. p = start + Done /\ l = len - Done
  <2>1. /\ start \in Nat /\ len \in Nat /\ AllBlocks \in Nat /\ AllRounds \in Nat
        /\ Done = 64 * AllBlocks + 32 * AllRounds
    BY <1>1, CallTypes, Counts
  <2>2. p = start + Done /\ p \in Int
    BY <1>3, <2>1, SMT
  <2>3. QED
    BY <1>1, <1>3, <2>1, <2>2, SMT
<1>5. h' = Walled
  <2>1. CASE Done = 0
    <3>1. p = start
      BY <1>1, <1>4, <2>1, CallTypes, SMT
    <3>2. wp = None
      BY <1>3, <3>1 DEF WordBefore
    <3>3. QED
      BY <1>1, <1>3, <2>1, <3>2 DEF Walled
  <2>2. CASE Done # 0
    <3>1. p # start /\ p - 8 = start + Done - 8 /\ p - 8 # None
      <4>1. start \in Nat /\ Done \in Nat
        BY <1>1, CallTypes, Counts
      <4>2. QED
        BY <1>4, <2>2, <4>1, SMT DEF None
    <3>2. wp = start + Done - 8 /\ wp # None
      BY <1>3, <3>1 DEF WordBefore
    <3>3. QED
      BY <1>1, <1>3, <2>2, <3>2 DEF Walled
  <2>3. QED
    BY <2>1, <2>2
<1>6. /\ CallOK' /\ start' = start /\ len' = len /\ Done' = Done /\ Walled' = Walled
  BY <1>1, CallFixed
<1>7. QED
  BY <1>1, <1>4, <1>5, <1>6 DEF IInv

LEMMA TailNow ==
  ASSUME IInv, pc = "tail"
  PROVE  /\ CallOK /\ len > 16 /\ p = start + Done /\ l = len - Done /\ h = Walled
         /\ l \in Nat /\ p + l = start + len
         /\ (l > 16 <=> len > Done + 16) /\ (l > 0 <=> len > Done)
<1>1. /\ CallOK /\ len > 16 /\ p = start + Done /\ l = len - Done /\ h = Walled /\ l \in Nat
  BY DEF IInv
<1>2. QED
  BY <1>1, Counts, CallTypes, SMT

LEMMA TailBytesKeeps ==
  ASSUME IInv, TailBytes
  PROVE  IInv'
<1>1. /\ CallOK /\ len > 16 /\ p = start + Done /\ h = Walled /\ l \in Nat
      /\ p + l = start + len /\ (l > 16 <=> len > Done + 16) /\ (l > 0 <=> len > Done)
  BY TailNow DEF TailBytes
<1>2. (IF l > 16 THEN TailHead(h, p) ELSE h) = Headed
  BY <1>1 DEF Headed
<1>3. h' = IF l > 0 THEN TailLast(Headed, p + l) ELSE Headed
  BY <1>2 DEF TailBytes
<1>4. Ended = IF len > Done THEN TailLast(Headed, start + len) ELSE Headed
  BY DEF Ended, Headed
<1>5. h' = Ended
  BY <1>1, <1>3, <1>4
<1>6. QED
  BY <1>1, <1>5, ReachesEnd DEF TailBytes

LEMMA MovedTailKeeps ==
  ASSUME IInv, MovedTail
  PROVE  IInv' /\ (p' # p => p' > p /\ p' + l' = start + len /\ l' >= 0)
<1>1. /\ CallOK /\ len > 16 /\ p = start + Done /\ h = Walled /\ l \in Nat
      /\ p + l = start + len /\ (l > 16 <=> len > Done + 16) /\ (l > 0 <=> len > Done)
  BY TailNow DEF MovedTail
<1>2. p \in Int
  BY <1>1, Counts, CallTypes, SMT
<1>3. /\ l' \in Nat /\ p' + l' = p + l /\ (l' > 0 <=> l > 0)
      /\ (p' # p => p' > p /\ l' >= 0)
  BY <1>1, <1>2, SMT DEF MovedTail
<1>4. (IF l > 16 THEN TailHead(h, p) ELSE h) = Headed
  BY <1>1 DEF Headed
<1>5. h' = IF l' > 0 THEN TailLast(Headed, p' + l') ELSE Headed
  BY <1>4 DEF MovedTail
<1>6. Ended = IF len > Done THEN TailLast(Headed, start + len) ELSE Headed
  BY DEF Ended, Headed
<1>7. h' = Ended
  BY <1>1, <1>3, <1>5, <1>6
<1>8. IInv'
  BY <1>1, <1>3, <1>7, ReachesEnd DEF MovedTail
<1>9. QED
  BY <1>1, <1>3, <1>8

LEMMA CountedTailKeeps ==
  ASSUME IInv, CountedTail
  PROVE  IInv'
<1>1. /\ CallOK /\ len > 16 /\ p = start + Done /\ h = Walled /\ l \in Nat
      /\ p + l = start + len /\ (l > 16 <=> len > Done + 16) /\ (l > 0 <=> len > Done)
  BY TailNow DEF CountedTail
<1>2. start = 0
  BY <1>1 DEF CountedTail, CallOK
<1>3. start + len = len
  BY <1>1, <1>2, CallTypes, SMT
<1>4. l' \in Nat /\ (l' > 0 <=> l > 0)
  BY <1>1, SMT DEF CountedTail
<1>5. (IF l > 16 THEN TailHead(h, p) ELSE h) = Headed
  BY <1>1 DEF Headed
<1>6. h' = IF l' > 0 THEN TailLast(Headed, len) ELSE Headed
  BY <1>5 DEF CountedTail
<1>7. Ended = IF len > Done THEN TailLast(Headed, start + len) ELSE Headed
  BY DEF Ended, Headed
<1>8. h' = Ended
  BY <1>1, <1>3, <1>4, <1>6, <1>7
<1>9. QED
  BY <1>1, <1>4, <1>8, ReachesEnd DEF CountedTail

LEMMA StutterKeeps ==
  ASSUME IInv, UNCHANGED vars
  PROVE  IInv'
<1>1. IInv' = IInv
  <2>1. /\ build' = build /\ width' = width /\ start' = start /\ len' = len /\ pc' = pc
        /\ p' = p /\ l' = l /\ pe' = pe /\ h' = h /\ wp' = wp /\ short' = short
        /\ UNCHANGED call
    BY DEF vars, call
  <2>2. ReadsInside' = ReadsInside /\ EveryByteRead' = EveryByteRead
    BY <2>1 DEF ReadsInside, EveryByteRead, Loads, ShortLoads
  <2>3. \A at : WordBefore(at)' = WordBefore(at)
    BY <2>1 DEF WordBefore
  <2>4. /\ CallOK' = CallOK
    BY <2>1 DEF CallOK
  <2>5. CallOK
    BY DEF IInv
  <2>6. /\ AllBlocks' = AllBlocks /\ AllRounds' = AllRounds /\ Done' = Done
        /\ Walled' = Walled /\ Ended' = Ended /\ EndOfPairs' = EndOfPairs
        /\ \A b : AfterBlocks(b)' = AfterBlocks(b)
        /\ \A r : AfterRounds(r)' = AfterRounds(r)
    BY <2>1, <2>5, CallFixed
  <2>7. WordBefore(p)' = WordBefore(p)
    BY <2>1 DEF WordBefore
  <2>8. \A b : InBlocks(b)' = InBlocks(b)
    BY <2>1, <2>6, <2>7 DEF InBlocks
  <2>9. \A r : InRounds(r)' = InRounds(r)
    BY <2>1, <2>6, <2>7 DEF InRounds
  <2>10. QED
    BY <2>1, <2>2, <2>4, <2>6, <2>8, <2>9 DEF IInv
<1>2. QED
  BY <1>1

LEMMA InitIInv == Init => IInv
<1> SUFFICES ASSUME Init PROVE IInv
  OBVIOUS
<1>1. CallOK
  BY PathsAssumption DEF Init, CallOK
<1>2. QED
  BY <1>1, CallTypes DEF Init, IInv

(* A call fits its build, the lanes are those of whole blocks and rounds   *)
(* from the start of the input, and p and l are where these end.           *)
THEOREM Inductive == Spec => []IInv
<1>1. IInv /\ [Next]_vars => IInv'
  <2> SUFFICES ASSUME IInv, [Next]_vars PROVE IInv'
    OBVIOUS
  <2>1. CASE ShortPath  BY <2>1, ShortPathKeeps
  <2>2. CASE TailTier  BY <2>2, TailTierKeeps
  <2>3. CASE RoundTier  BY <2>3, RoundTierKeeps
  <2>4. CASE EnterMid  BY <2>4, EnterMidKeeps
  <2>5. CASE MidPair  BY <2>5, MidPairKeeps
  <2>6. CASE MidRound  BY <2>6, MidRoundKeeps
  <2>7. CASE EnterBulk  BY <2>7, EnterBulkKeeps
  <2>8. CASE BlockPair  BY <2>8, BlockPairKeeps
  <2>9. CASE OddBlock  BY <2>9, OddBlockKeeps
  <2>10. CASE OneBlock  BY <2>10, OneBlockKeeps
  <2>11. CASE Fold  BY <2>11, FoldKeeps
  <2>12. CASE Wall  BY <2>12, WallKeeps
  <2>13. CASE TailBytes  BY <2>13, TailBytesKeeps
  <2>14. CASE MovedTail  BY <2>14, MovedTailKeeps
  <2>15. CASE CountedTail  BY <2>15, CountedTailKeeps
  <2>16. CASE Return  BY <2>16, StutterKeeps DEF Return
  <2>17. CASE UNCHANGED vars  BY <2>17, StutterKeeps
  <2>18. QED
    BY <2>1, <2>2, <2>3, <2>4, <2>5, <2>6, <2>7, <2>8, <2>9, <2>10, <2>11, <2>12,
       <2>13, <2>14, <2>15, <2>16, <2>17 DEF Next
<1>2. QED
  BY InitIInv, <1>1, PTL DEF Spec

(***************************************************************************)
(* Properties.                                                             *)
(***************************************************************************)

(* No load reaches outside the input, at any step of any path.             *)
LEMMA LanesInside ==
  ASSUME IInv
  PROVE  ReadsInside
<1>1. CallOK
  BY DEF IInv
<1> DEFINE A == Inside(start, len)
<1>2. ASSUME LanesOver(A, h), short = << >> PROVE ReadsInside
  BY <1>1, <1>2, LaneWordsRead
<1>3. CASE pc = "dispatch"
  <2>1. h = Fresh /\ short = << >>
    BY <1>3 DEF IInv
  <2>2. QED
    BY <1>2, <2>1, FreshOver
<1>4. ASSUME NEW b \in Nat, InBlocks(b), 64 * b <= len PROVE LanesOver(A, h)
  BY <1>1, <1>4, AfterBlocksOver DEF InBlocks
<1>5. CASE pc = "blocks"
  <2>1. PICK b \in Nat : InBlocks(b) /\ p + l = start + len /\ l >= 64 /\ short = << >>
    BY <1>5 DEF IInv
  <2>2. 64 * b <= len
    BY <1>1, <2>1, CallTypes, SMT DEF InBlocks, IInv
  <2>3. QED
    BY <1>2, <1>4, <2>1, <2>2
<1>6. CASE pc \in {"pairs", "oddblock"}
  <2>1. PICK b \in Nat : InBlocks(2 * b)
    BY <1>6 DEF IInv
  <2> DEFINE c == 2 * b
  <2>2. c \in Nat /\ InBlocks(c)
    BY <2>1, SMT
  <2> HIDE DEF c
  <2>3. short = << >> /\ start = 0 /\ l \in Nat
    BY <1>6 DEF IInv
  <2>4. p = 64 * c
    BY <2>2, <2>3, SMT DEF InBlocks
  <2>5. p <= len
    <3>1. CASE pc = "pairs"
      <4>1. p < EndOfPairs
        BY <3>1 DEF IInv
      <4>2. PICK q \in Nat : /\ len = 128 * q + (len % 128) /\ EndOfPairs = 128 * q
                             /\ len % 128 \in 0 .. 127
        BY <1>1, LengthInPairs
      <4>3. QED
        BY <1>1, <2>2, <2>4, <4>1, <4>2, CallTypes, SMT
    <3>2. CASE pc = "oddblock"
      <4>1. p + l = len
        BY <3>2 DEF IInv
      <4>2. QED
        BY <1>1, <2>2, <2>3, <2>4, <4>1, CallTypes, SMT
    <3>3. QED
      BY <1>6, <3>1, <3>2
  <2>6. QED
    BY <1>2, <1>4, <2>2, <2>3, <2>4, <2>5
<1>7. CASE pc = "fold"
  <2>1. InBlocks(AllBlocks) /\ short = << >>
    BY <1>7 DEF IInv
  <2>2. AllBlocks \in Nat /\ 64 * AllBlocks <= len
    BY <1>1, Counts, CallTypes, SMT
  <2>3. QED
    BY <1>2, <1>4, <2>1, <2>2
<1>8. CASE pc \in {"midpair", "mid", "lastmid", "wall"}
  <2>1. PICK r \in Nat : InRounds(r) /\ r <= AllRounds
    BY <1>8, InRoundsNow
  <2>2. LanesOver(A, h)
    BY <1>1, <2>1, AfterRoundsOver DEF InRounds
  <2>3. short = << >>
    BY <1>8 DEF IInv
  <2>4. QED
    BY <1>2, <2>2, <2>3
<1>9. CASE pc = "tail"
  BY <1>1, <1>2, <1>9, WalledOver DEF IInv
<1>10. CASE pc = "done" /\ len > 16
  BY <1>1, <1>2, <1>10, EndedOver DEF IInv
<1>11. CASE pc = "done" /\ len <= 16
  BY <1>11 DEF IInv
<1>12. len > 16 \/ len <= 16
  BY <1>1, CallTypes, SMT
<1>13. pc \in {"dispatch", "blocks", "pairs", "oddblock", "fold", "midpair", "mid",
               "lastmid", "wall", "tail", "done"}
  BY DEF IInv
<1>14. QED
  BY <1>3, <1>5, <1>6, <1>7, <1>8, <1>9, <1>10, <1>11, <1>12, <1>13

THEOREM NoReadOutside == Spec => []ReadsInside
BY Inductive, LanesInside, PTL

(* Every iteration moves p on, and stops at the end it tests for.          *)
THEOREM EveryLoopAdvances == Spec => LoopsAdvance
<1> DEFINE Advances == p' # p => /\ p' > p
                                 /\ pc = "pairs" => p' <= pe
                                 /\ pc # "pairs" => p' + l' = start + len /\ l' >= 0
<1>1. IInv /\ [Next]_vars => [Advances]_vars
  <2> SUFFICES ASSUME IInv, Next PROVE Advances
    OBVIOUS
  <2>1. CASE MidPair  BY <2>1, MidPairKeeps DEF MidPair
  <2>2. CASE MidRound  BY <2>2, MidRoundKeeps DEF MidRound
  <2>3. CASE BlockPair  BY <2>3, BlockPairKeeps DEF BlockPair
  <2>4. CASE OddBlock  BY <2>4, OddBlockKeeps DEF OddBlock
  <2>5. CASE OneBlock  BY <2>5, OneBlockKeeps DEF OneBlock
  <2>6. CASE MovedTail  BY <2>6, MovedTailKeeps DEF MovedTail
  <2>7. CASE p' = p  BY <2>7
  <2>8. ShortPath \/ TailTier \/ RoundTier \/ EnterMid \/ EnterBulk \/ Fold \/ Wall
          \/ TailBytes \/ CountedTail \/ Return => p' = p
    BY DEF ShortPath, TailTier, RoundTier, EnterMid, EnterBulk, Fold, Wall, TailBytes,
           CountedTail, Return, vars
  <2>9. QED
    BY <2>1, <2>2, <2>3, <2>4, <2>5, <2>6, <2>7, <2>8 DEF Next
<1>2. QED
  BY Inductive, <1>1, PTL DEF Spec, LoopsAdvance

(***************************************************************************)
(* No operation drops a word that has been loaded.                         *)
(***************************************************************************)
Keeps(old, new) == WordsOf(old) \subseteq WordsOf(new) /\ Merged(old) \subseteq Merged(new)

LEMMA JoinedWords ==
  ASSUME NEW S, NEW s \in Seq(S), NEW t \in Seq(S), NEW u, Joins(s, t, u)
  PROVE  Keeps(s, u) /\ Keeps(t, u)
<1>1. /\ u \in Seq(S) /\ Len(u) = Len(s) + Len(t) /\ Len(s) \in Nat /\ Len(t) \in Nat
      /\ \A i \in 1 .. Len(s) + Len(t) : u[i] = IF i <= Len(s) THEN s[i] ELSE t[i - Len(s)]
  BY ConcatProperties, InDomain DEF Joins
<1>2. /\ DOMAIN s = 1 .. Len(s) /\ DOMAIN t = 1 .. Len(t) /\ DOMAIN u = 1 .. Len(s) + Len(t)
  BY <1>1, InDomain
<1>3. \A i \in DOMAIN s : i \in DOMAIN u /\ u[i] = s[i]
  BY <1>1, <1>2, SMT
<1>4. \A i \in DOMAIN t : \E k \in DOMAIN u : u[k] = t[i]
  <2>1. ASSUME NEW i \in DOMAIN t PROVE \E k \in DOMAIN u : u[k] = t[i]
    <3>1. /\ Len(s) + i \in 1 .. Len(s) + Len(t) /\ ~(Len(s) + i <= Len(s))
          /\ (Len(s) + i) - Len(s) = i
      BY <1>1, <1>2, SMT
    <3>2. u[Len(s) + i] = t[i]
      BY <1>1, <3>1
    <3>3. QED
      BY <1>2, <3>1, <3>2
  <2>2. QED
    BY <2>1
<1>5. Keeps(s, u)
  BY <1>3 DEF Keeps, WordsOf, Merged
<1>6. Keeps(t, u)
  <2>1. WordsOf(t) \subseteq WordsOf(u)
    BY <1>4 DEF WordsOf
  <2>2. Merged(t) \subseteq Merged(u)
    BY <1>4 DEF Merged
  <2>3. QED
    BY <2>1, <2>2 DEF Keeps
<1>7. QED
  BY <1>5, <1>6

LEMMA KeepLane ==
  ASSUME NEW new, NEW j \in Lanes, NEW s, Keeps(s, new[j])
  PROVE  WordsOf(s) \subseteq LaneWords(new) /\ Merged(s) \subseteq LaneWords(new)
BY DEF Keeps, LaneWords

LEMMA KeepLanes ==
  ASSUME NEW lanes, NEW new, \A j \in Lanes : Keeps(lanes[j], new[j])
  PROVE  LaneWords(lanes) \subseteq LaneWords(new)
BY DEF Keeps, LaneWords

LEMMA KeepsSelf == ASSUME NEW s PROVE Keeps(s, s)
BY DEF Keeps

LEMMA RoundsKeep ==
  ASSUME NEW A, A \subseteq Int, NEW lanes, LanesOver(A, lanes),
         NEW at \in Int, NEW k \in Nat, NEW prev \in Int,
         RoundsIn(A, at, k)
  PROVE  /\ LaneWords(lanes) \subseteq LaneWords(Rounds(lanes, at, k, prev))
         /\ RoundsIn(LaneWords(Rounds(lanes, at, k, prev)), at, k)
<1> DEFINE new == Rounds(lanes, at, k, prev)
<1>1. RoundsAre(new, lanes, at, k, prev) /\ MidTermsIn(Terms(A), at, k, prev)
  BY RoundsOver
<1>2. ASSUME NEW j \in 0 .. 3
      PROVE  Keeps(lanes[j], new[j]) /\ Keeps(MidTerms(j, at, k, prev), new[j])
  <2> DEFINE s == lanes[j]
             t == MidTerms(j, at, k, prev)
             u == new[j]
             S == Terms(A)
  <2>1. s \in Seq(S) /\ t \in Seq(S)
    BY <1>1, LaneTypes, LaneNumbers DEF MidTermsIn
  <2>2. Joins(s, t, u)
    BY <1>1 DEF RoundsAre, Joins
  <2> HIDE DEF s, t, u, S
  <2>3. Keeps(s, u) /\ Keeps(t, u)
    BY <2>1, <2>2, JoinedWords
  <2>4. QED
    BY <2>3 DEF s, t, u
<1>3. \A j \in 4 .. 7 : new[j] = lanes[j]
  BY <1>1 DEF RoundsAre
<1> HIDE DEF new
<1>4. LaneWords(lanes) \subseteq LaneWords(new)
  <2>1. \A j \in Lanes : Keeps(lanes[j], new[j])
    BY <1>2, <1>3, LaneNumbers, KeepsSelf
  <2>2. QED
    BY <2>1, KeepLanes
<1>5. ASSUME NEW r \in 1 .. k, NEW j \in 0 .. 3
      PROVE  at + 32 * (r - 1) + 8 * j \in LaneWords(new)
  <2> DEFINE t == MidTerms(j, at, k, prev)
             w == at + 32 * (r - 1) + 8 * j
             v == IF w = at THEN prev ELSE w - 8
  <2>1. t[r] = Mix(w, v) /\ DOMAIN t = 1 .. k
    BY DEF MidTerms
  <2> HIDE DEF w, v, t
  <2>2. t[r].op # "merge" /\ t[r].w = w
    BY <2>1 DEF Mix
  <2>3. w \in WordsOf(t)
    BY <2>1, <2>2 DEF WordsOf
  <2>4. Keeps(t, new[j]) /\ j \in Lanes
    BY <1>2, LaneNumbers DEF t
  <2>5. QED
    BY <2>3, <2>4, KeepLane DEF w
<1>6. RoundsIn(LaneWords(new), at, k)
  BY <1>5 DEF RoundsIn
<1>7. QED
  BY <1>4, <1>6 DEF new

LEMMA BlocksKeep ==
  ASSUME NEW A, A \subseteq Int, NEW lanes, LanesOver(A, lanes),
         NEW at \in Int, NEW k \in Nat, NEW prev \in Int,
         BlocksIn(A, at, k)
  PROVE  BlocksIn(LaneWords(Blocks(lanes, at, k, prev)), at, k)
<1> DEFINE new == Blocks(lanes, at, k, prev)
<1>1. BlocksAre(new, lanes, at, k, prev) /\ BulkTermsIn(Terms(A), at, k, prev)
  BY BlocksOver
<1>2. ASSUME NEW j \in Lanes PROVE Keeps(BulkTerms(j, at, k, prev), new[j])
  <2> DEFINE s == lanes[j]
             t == BulkTerms(j, at, k, prev)
             u == new[j]
             S == Terms(A)
  <2>1. s \in Seq(S) /\ t \in Seq(S)
    BY <1>1, LaneTypes DEF BulkTermsIn
  <2>2. Joins(s, t, u)
    BY <1>1 DEF BlocksAre, Joins
  <2> HIDE DEF s, t, u, S
  <2>3. Keeps(t, u)
    BY <2>1, <2>2, JoinedWords
  <2>4. QED
    BY <2>3 DEF t, u
<1> HIDE DEF new
<1>3. ASSUME NEW b \in 1 .. k, NEW j \in Lanes
      PROVE  at + 64 * (b - 1) + 8 * j \in LaneWords(new)
  <2> DEFINE t == BulkTerms(j, at, k, prev)
             w == at + 64 * (b - 1) + 8 * j
  <2>1. w \in WordsOf(t)
    <3>1. CASE j = 0
      <4> DEFINE i == 2 * b - 1
                 x == at + 64 * ((i - 1) \div 2)
      <4>1. i \in 1 .. 2 * k /\ i % 2 # 0 /\ x = w
        BY <3>1, SMT
      <4>2. t[i] = Mix(x, IF x = at THEN prev ELSE x - 8) /\ DOMAIN t = 1 .. 2 * k
        <5> HIDE DEF i
        <5>1. QED
          BY <3>1, <4>1 DEF BulkTerms
      <4> HIDE DEF x, t, w, i
      <4>3. t[i].op # "merge" /\ t[i].w = w
        BY <4>1, <4>2 DEF Mix
      <4>4. QED
        BY <4>1, <4>2, <4>3 DEF WordsOf
    <3>2. CASE j # 0
      <4>1. t[b] = Mix(w, w - 8) /\ DOMAIN t = 1 .. k
        BY <3>2 DEF BulkTerms
      <4> HIDE DEF t, w
      <4>2. t[b].op # "merge" /\ t[b].w = w
        BY <4>1 DEF Mix
      <4>3. QED
        BY <4>1, <4>2 DEF WordsOf
    <3>3. QED
      BY <3>1, <3>2
  <2>2. Keeps(t, new[j])
    BY <1>2
  <2> HIDE DEF t, w
  <2>3. QED
    BY <2>1, <2>2, KeepLane DEF w
<1>4. BlocksIn(LaneWords(new), at, k)
  BY <1>3 DEF BlocksIn
<1>5. QED
  BY <1>4 DEF new

LEMMA FoldedKeeps ==
  ASSUME NEW A, NEW lanes, LanesOver(A, lanes)
  PROVE  LaneWords(lanes) \subseteq LaneWords(Folded(lanes))
<1> DEFINE new == Folded(lanes)
<1>1. ASSUME NEW j \in 0 .. 3
      PROVE  /\ WordsOf(lanes[j]) \cup Merged(lanes[j]) \subseteq LaneWords(new)
             /\ WordsOf(lanes[j + 4]) \subseteq LaneWords(new)
  <2> DEFINE s == lanes[j]
             t == << Merge(lanes[j + 4]) >>
             u == new[j]
             S == Terms(A)
  <2>1. s \in Seq(S) /\ t \in Seq(S)
    <3>1. Merge(lanes[j + 4]) \in S
      BY LaneNumbers DEF LanesOver, Merge, Terms
    <3>2. QED
      BY <3>1, LaneTypes, LaneNumbers
  <2>2. Joins(s, t, u)
    BY FoldedOver DEF Joins
  <2>3. WordsOf(lanes[j + 4]) \subseteq Merged(t)
    BY DEF Merge, Merged
  <2> HIDE DEF s, t, u, S
  <2>4. Keeps(s, u) /\ Keeps(t, u)
    BY <2>1, <2>2, JoinedWords
  <2> HIDE DEF new
  <2>5. /\ WordsOf(s) \subseteq LaneWords(new) /\ Merged(s) \subseteq LaneWords(new)
        /\ Merged(t) \subseteq LaneWords(new)
    BY <2>4, LaneNumbers, KeepLane DEF u
  <2>6. QED
    BY <2>3, <2>5 DEF s
<1> HIDE DEF new
<1>2. ASSUME NEW j \in 4 .. 7
      PROVE  WordsOf(lanes[j]) \cup Merged(lanes[j]) \subseteq LaneWords(new)
  <2>1. j - 4 \in 0 .. 3 /\ (j - 4) + 4 = j
    BY SMT
  <2>2. Merged(lanes[j]) = {}
    BY WordsOfLoaded DEF LanesOver
  <2>3. WordsOf(lanes[j]) \subseteq LaneWords(new)
    BY <1>1, <2>1
  <2>4. QED
    BY <2>2, <2>3
<1>3. \A j \in Lanes : WordsOf(lanes[j]) \cup Merged(lanes[j]) \subseteq LaneWords(new)
  BY <1>1, <1>2, LaneNumbers
<1>4. QED
  BY <1>3 DEF LaneWords, new

LEMMA AbsorbKeeps ==
  ASSUME NEW A, NEW lanes, LanesOver(A, lanes), NEW i \in 0 .. 3, NEW e \in LoadedFrom(A)
  PROVE  /\ LaneWords(lanes) \subseteq LaneWords(Absorb(lanes, i, e))
         /\ e.w \in LaneWords(Absorb(lanes, i, e))
<1> DEFINE new == Absorb(lanes, i, e)
<1>1. AbsorbIs(new, lanes, i, e) /\ i \in Lanes
  BY AbsorbOver, LaneNumbers
<1>2. Keeps(lanes[i], new[i]) /\ Keeps(<< e >>, new[i])
  <2> DEFINE s == lanes[i]
             t == << e >>
             u == new[i]
             S == Terms(A)
  <2>1. s \in Seq(S) /\ t \in Seq(S)
    BY <1>1, LaneTypes DEF Terms
  <2>2. Joins(s, t, u)
    BY <1>1 DEF Joins, AbsorbIs
  <2> HIDE DEF s, t, u, S
  <2>3. Keeps(s, u) /\ Keeps(t, u)
    BY <2>1, <2>2, JoinedWords
  <2>4. QED
    BY <2>3 DEF s, t, u
<1> HIDE DEF new
<1>3. LaneWords(lanes) \subseteq LaneWords(new)
  <2>1. \A j \in Lanes : Keeps(lanes[j], new[j])
    BY <1>1, <1>2, KeepsSelf DEF AbsorbIs
  <2>2. QED
    BY <2>1, KeepLanes
<1>4. e.w \in LaneWords(new)
  <2>1. e.op # "merge"
    BY TermWords
  <2>2. e.w \in WordsOf(<< e >>)
    BY <2>1 DEF WordsOf
  <2>3. QED
    BY <1>1, <1>2, <2>2, KeepLane
<1>5. QED
  BY <1>3, <1>4 DEF new

LEMMA TailKeeps ==
  ASSUME NEW A, NEW lanes, LanesOver(A, lanes), NEW v \in A, NEW w \in A, NEW i \in {0, 2}
  PROVE  LET new == Absorb(Absorb(lanes, i, Inj(v)), i + 1, Inj(w))
         IN  LaneWords(lanes) \subseteq LaneWords(new) /\ {v, w} \subseteq LaneWords(new)
<1> DEFINE k   == i + 1
           one == Absorb(lanes, i, Inj(v))
           new == Absorb(one, k, Inj(w))
<1>1. i \in 0 .. 3 /\ k \in 0 .. 3
  BY SMT
<1>2. Inj(v) \in LoadedFrom(A) /\ Inj(w) \in LoadedFrom(A) /\ Inj(v).w = v /\ Inj(w).w = w
  BY TermTypes DEF Inj
<1>3. LanesOver(A, one) /\ LaneWords(lanes) \subseteq LaneWords(one) /\ v \in LaneWords(one)
  <2> DEFINE e == Inj(v)
  <2>1. e \in LoadedFrom(A) /\ e.w = v
    BY <1>2
  <2> HIDE DEF e
  <2>2. /\ LanesOver(A, Absorb(lanes, i, e))
        /\ LaneWords(lanes) \subseteq LaneWords(Absorb(lanes, i, e))
        /\ e.w \in LaneWords(Absorb(lanes, i, e))
    BY <1>1, <2>1, AbsorbOver, AbsorbKeeps
  <2>3. QED
    BY <2>1, <2>2 DEF e
<1> HIDE DEF one, k
<1>4. LaneWords(one) \subseteq LaneWords(new) /\ w \in LaneWords(new)
  <2> DEFINE e == Inj(w)
  <2>1. e \in LoadedFrom(A) /\ e.w = w
    BY <1>2
  <2> HIDE DEF e
  <2>2. /\ LaneWords(one) \subseteq LaneWords(Absorb(one, k, e))
        /\ e.w \in LaneWords(Absorb(one, k, e))
    BY <1>1, <1>3, <2>1, AbsorbKeeps
  <2>3. QED
    BY <2>1, <2>2 DEF e
<1>5. LaneWords(lanes) \subseteq LaneWords(new) /\ {v, w} \subseteq LaneWords(new)
  BY <1>3, <1>4
<1>6. QED
  BY <1>5 DEF k, one

LEMMA HeadKeeps ==
  ASSUME NEW A, NEW lanes, LanesOver(A, lanes), NEW at, at \in A, at + 8 \in A
  PROVE  /\ LaneWords(lanes) \subseteq LaneWords(TailHead(lanes, at))
         /\ {at, at + 8} \subseteq LaneWords(TailHead(lanes, at))
<1> DEFINE w   == at + 8
           new == Absorb(Absorb(lanes, 0, Inj(at)), 0 + 1, Inj(w))
<1>1. w \in A /\ 0 \in {0, 2}
  OBVIOUS
<1>2. TailHead(lanes, at) = new
  <2>1. 0 + 1 = 1
    OBVIOUS
  <2>2. QED
    BY <2>1 DEF TailHead
<1> HIDE DEF w
<1>3. LaneWords(lanes) \subseteq LaneWords(new) /\ {at, w} \subseteq LaneWords(new)
  BY <1>1, TailKeeps
<1>4. QED
  BY <1>2, <1>3 DEF w

LEMMA LastKeeps ==
  ASSUME NEW A, NEW lanes, LanesOver(A, lanes), NEW end, end - 16 \in A, end - 8 \in A
  PROVE  /\ LaneWords(lanes) \subseteq LaneWords(TailLast(lanes, end))
         /\ {end - 16, end - 8} \subseteq LaneWords(TailLast(lanes, end))
<1> DEFINE v   == end - 16
           w   == end - 8
           new == Absorb(Absorb(lanes, 2, Inj(v)), 2 + 1, Inj(w))
<1>1. v \in A /\ w \in A /\ 2 \in {0, 2}
  OBVIOUS
<1>2. TailLast(lanes, end) = new
  <2>1. 2 + 1 = 3
    OBVIOUS
  <2>2. QED
    BY <2>1 DEF TailLast
<1> HIDE DEF v, w
<1>3. LaneWords(lanes) \subseteq LaneWords(new) /\ {v, w} \subseteq LaneWords(new)
  BY <1>1, TailKeeps
<1>4. QED
  BY <1>2, <1>3 DEF v, w

(* All blocks and all rounds are in the lanes that the tail is added to.   *)
LEMMA WalledWords ==
  ASSUME CallOK
  PROVE  /\ BlocksIn(LaneWords(Walled), start, AllBlocks)
         /\ RoundsIn(LaneWords(Walled), start + 64 * AllBlocks, AllRounds)
<1> DEFINE A  == Inside(start, len)
           at == start + 64 * AllBlocks
           r  == AllRounds
           walked == AfterRounds(r)
<1>1. /\ start \in Nat /\ len \in Nat /\ AllBlocks \in Nat /\ AllRounds \in Nat
      /\ 64 * AllBlocks <= len /\ 64 * AllBlocks + 32 * AllRounds <= len
  BY CallTypes, Counts, SMT
<1>2. A \subseteq Int /\ BlocksIn(A, start, AllBlocks) /\ LanesOver(A, AfterBlocks(AllBlocks))
  BY <1>1, InsideFacts, InsideBlocks, AfterBlocksOver, SMT
<1>3. at \in Int /\ RoundsIn(A, at, r)
  <2>1. at \in Int /\ at >= start /\ at + 32 * r <= start + len
    BY <1>1, SMT
  <2> HIDE DEF at
  <2>2. QED
    BY <1>1, <2>1, InsideRounds
<1>4. LanesOver(A, Entered)
  BY EnteredOver
<1> HIDE DEF A, at
<1>5. BlocksIn(LaneWords(Entered), start, AllBlocks)
  <2>1. CASE AllBlocks = 0
    <3>1. 1 .. 0 = {}
      BY SMT
    <3>2. QED
      BY <2>1, <3>1 DEF BlocksIn
  <2>2. CASE AllBlocks # 0
    <3>1. None \in Int /\ start \in Int /\ LanesOver(A, Fresh)
      BY <1>1, FreshOver, SMT DEF None
    <3>2. BlocksIn(LaneWords(AfterBlocks(AllBlocks)), start, AllBlocks)
      BY <1>1, <1>2, <3>1, BlocksKeep DEF AfterBlocks
    <3>3. LaneWords(AfterBlocks(AllBlocks)) \subseteq LaneWords(Folded(AfterBlocks(AllBlocks)))
      BY <1>2, FoldedKeeps
    <3>4. Entered = Folded(AfterBlocks(AllBlocks))
      BY <2>2 DEF Entered
    <3>5. QED
      BY <3>2, <3>3, <3>4 DEF BlocksIn
  <2>3. QED
    BY <2>1, <2>2
<1>6. /\ LaneWords(Entered) \subseteq LaneWords(walked) /\ RoundsIn(LaneWords(walked), at, r)
      /\ LanesOver(A, walked)
  <2>1. walked = Rounds(Entered, at, r, WordBefore(at))
    BY DEF AfterRounds, Entered, at
  <2>2. WordBefore(at) \in Int
    BY <1>3, WordBeforeType
  <2> HIDE DEF r, walked
  <2>3. r \in Nat
    BY <1>1 DEF r
  <2>4. QED
    BY <1>2, <1>3, <1>4, <2>1, <2>2, <2>3, RoundsKeep, RoundsOver
<1>7. LaneWords(walked) \subseteq LaneWords(Walled)
  <2>1. CASE Done = 0
    BY <2>1 DEF Walled
  <2>2. CASE Done # 0
    <3>1. start + Done - 8 \in A
      BY <1>1, <2>2, Counts, SMT DEF Inside, A
    <3>2. Rot(start + Done - 8) \in LoadedFrom(A) /\ 0 \in 0 .. 3
      BY <3>1, TermTypes, SMT
    <3> DEFINE e == Rot(start + Done - 8)
    <3>3. e \in LoadedFrom(A)
      BY <3>2
    <3>4. Walled = Absorb(walked, 0, e)
      BY <2>2 DEF Walled
    <3> HIDE DEF e, walked
    <3>5. QED
      BY <1>6, <3>2, <3>3, <3>4, AbsorbKeeps
  <2>3. QED
    BY <2>1, <2>2
<1> HIDE DEF walked
<1>8. BlocksIn(LaneWords(Walled), start, AllBlocks)
  BY <1>5, <1>6, <1>7 DEF BlocksIn
<1>9. RoundsIn(LaneWords(Walled), at, r)
  BY <1>6, <1>7 DEF RoundsIn
<1>10. QED
  BY <1>8, <1>9 DEF at

LEMMA EndedWords ==
  ASSUME CallOK, len > 16
  PROVE  /\ BlocksIn(LaneWords(Ended), start, AllBlocks)
         /\ RoundsIn(LaneWords(Ended), start + 64 * AllBlocks, AllRounds)
         /\ len > Done + 16 => {start + Done, start + Done + 8} \subseteq LaneWords(Ended)
         /\ len > Done => {(start + len) - 16, (start + len) - 8} \subseteq LaneWords(Ended)
<1> DEFINE A  == Inside(start, len)
           at  == start + Done
           end == start + len
<1>1. start \in Nat /\ len \in Nat /\ Done \in Nat
  BY CallTypes, Counts
<1>2. LanesOver(A, Walled) /\ LanesOver(A, Headed)
  BY WalledOver, EndedOver
<1>3. ASSUME len > Done + 16
      PROVE  LaneWords(Walled) \cup {at, at + 8} \subseteq LaneWords(Headed)
  <2>1. at \in A /\ at + 8 \in A
    BY <1>1, <1>3, SMT DEF Inside
  <2>2. Headed = TailHead(Walled, at)
    BY <1>3 DEF Headed
  <2> HIDE DEF A, at
  <2>3. QED
    BY <1>2, <2>1, <2>2, HeadKeeps
<1>4. LaneWords(Walled) \subseteq LaneWords(Headed)
  <2>1. CASE len > Done + 16
    BY <1>3, <2>1
  <2>2. CASE ~(len > Done + 16)
    BY <2>2 DEF Headed
  <2>3. QED
    BY <2>1, <2>2
<1>5. ASSUME len > Done
      PROVE  LaneWords(Headed) \cup {end - 16, end - 8} \subseteq LaneWords(Ended)
  <2>1. end - 16 \in A /\ end - 8 \in A
    BY <1>1, SMT DEF Inside
  <2>2. Ended = TailLast(Headed, end)
    BY <1>5 DEF Ended, Headed
  <2> HIDE DEF A, end
  <2>3. QED
    BY <1>2, <2>1, <2>2, LastKeeps
<1>6. LaneWords(Headed) \subseteq LaneWords(Ended)
  <2>1. CASE len > Done
    BY <1>5, <2>1
  <2>2. CASE ~(len > Done)
    BY <2>2 DEF Ended, Headed
  <2>3. QED
    BY <2>1, <2>2
<1>7. LaneWords(Walled) \subseteq LaneWords(Ended)
  BY <1>4, <1>6
<1>8. /\ BlocksIn(LaneWords(Ended), start, AllBlocks)
      /\ RoundsIn(LaneWords(Ended), start + 64 * AllBlocks, AllRounds)
  BY <1>7, WalledWords DEF BlocksIn, RoundsIn
<1>9. len > Done + 16 => {start + Done, start + Done + 8} \subseteq LaneWords(Ended)
  BY <1>3, <1>6
<1>10. len > Done => {(start + len) - 16, (start + len) - 8} \subseteq LaneWords(Ended)
  BY <1>5
<1>11. QED
  BY <1>8, <1>9, <1>10, Zenon

(* Where the word with a byte is.                                          *)
LEMMA ByteInBlocks ==
  ASSUME NEW s \in Nat, NEW k \in Nat, NEW A, BlocksIn(A, s, k),
         NEW b \in s .. s + 64 * k - 1
  PROVE  \E w \in A : b \in w .. w + 8 - 1
<1> DEFINE i == (b - s) \div 64 + 1
           j == ((b - s) % 64) \div 8
           w == s + 64 * (i - 1) + 8 * j
<1>1. i \in 1 .. k /\ j \in Lanes
  BY SMT DEF Lanes
<1>2. b \in w .. w + 8 - 1
  BY SMT
<1> HIDE DEF i, j
<1>3. w \in A
  BY <1>1 DEF BlocksIn
<1>4. QED
  BY <1>2, <1>3

LEMMA ByteInRounds ==
  ASSUME NEW s \in Nat, NEW k \in Nat, NEW A, RoundsIn(A, s, k),
         NEW b \in s .. s + 32 * k - 1
  PROVE  \E w \in A : b \in w .. w + 8 - 1
<1> DEFINE i == (b - s) \div 32 + 1
           j == ((b - s) % 32) \div 8
           w == s + 32 * (i - 1) + 8 * j
<1>1. i \in 1 .. k /\ j \in 0 .. 3
  BY SMT
<1>2. b \in w .. w + 8 - 1
  BY SMT
<1> HIDE DEF i, j
<1>3. w \in A
  BY <1>1 DEF RoundsIn
<1>4. QED
  BY <1>2, <1>3

LEMMA EveryByteInEnded ==
  ASSUME CallOK, len > 16, NEW b \in start .. start + len - 1
  PROVE  \E w \in LaneWords(Ended) : b \in w .. w + 8 - 1
<1> DEFINE at == start + 64 * AllBlocks
           A  == LaneWords(Ended)
<1>1. /\ start \in Nat /\ len \in Nat /\ AllBlocks \in Nat /\ AllRounds \in Nat /\ Done \in Nat
      /\ Done = 64 * AllBlocks + 32 * AllRounds /\ Done <= len /\ len < Done + 32
  BY CallTypes, Counts
<1>2. /\ BlocksIn(A, start, AllBlocks)
      /\ RoundsIn(A, at, AllRounds)
      /\ len > Done + 16 => {start + Done, start + Done + 8} \subseteq A
      /\ len > Done => {(start + len) - 16, (start + len) - 8} \subseteq A
  BY EndedWords
<1> HIDE DEF A
<1>3. CASE b < at
  <2>1. b \in start .. start + 64 * AllBlocks - 1
    BY <1>1, <1>3, SMT
  <2>2. QED
    BY <1>1, <1>2, <2>1, ByteInBlocks DEF A
<1>4. CASE b >= at /\ b < start + Done
  <2>1. at \in Nat /\ b \in at .. at + 32 * AllRounds - 1
    BY <1>1, <1>4, SMT
  <2> HIDE DEF at
  <2>2. QED
    BY <1>1, <1>2, <2>1, ByteInRounds DEF A
<1>5. CASE b >= start + Done /\ b < (start + len) - 16
  <2>1. len > Done + 16
    BY <1>1, <1>5, SMT
  <2>2. start + Done \in A /\ start + Done + 8 \in A
    BY <1>2, <2>1
  <2>3. \/ b \in start + Done .. start + Done + 8 - 1
        \/ b \in start + Done + 8 .. start + Done + 8 + 8 - 1
    BY <1>1, <1>5, SMT
  <2>4. QED
    BY <2>2, <2>3 DEF A
<1>6. CASE b >= start + Done /\ b >= (start + len) - 16
  <2>1. len > Done
    BY <1>1, <1>6, SMT
  <2>2. (start + len) - 16 \in A /\ (start + len) - 8 \in A
    BY <1>2, <2>1
  <2>3. \/ b \in (start + len) - 16 .. (start + len) - 16 + 8 - 1
        \/ b \in (start + len) - 8 .. (start + len) - 8 + 8 - 1
    BY <1>1, <1>6, SMT
  <2>4. QED
    BY <2>2, <2>3 DEF A
<1>7. QED
  BY <1>1, <1>3, <1>4, <1>5, <1>6, SMT

LEMMA NoByteLeftOut ==
  ASSUME IInv
  PROVE  EveryByteRead
<1>1. CASE pc = "done" /\ len > 16
  <2>1. h = Ended /\ CallOK
    BY <1>1 DEF IInv
  <2>2. ASSUME NEW b \in start .. start + len - 1
        PROVE  \E r \in Loads : b \in r[1] .. r[1] + r[2] - 1
    <3>1. PICK w \in LaneWords(h) : b \in w .. w + 8 - 1
      BY <1>1, <2>1, EveryByteInEnded
    <3>2. << w, 8 >> \in Loads
      BY DEF Loads
    <3>3. << w, 8 >>[1] = w /\ << w, 8 >>[2] = 8
      OBVIOUS
    <3>4. QED
      BY <3>1, <3>2, <3>3
  <2>3. QED
    BY <2>2 DEF EveryByteRead
<1>2. CASE pc = "done" /\ len <= 16
  BY <1>2 DEF IInv
<1>3. CASE pc # "done"
  BY <1>3 DEF EveryByteRead
<1>4. len > 16 \/ len <= 16
  BY CallTypes, SMT DEF IInv
<1>5. QED
  BY <1>1, <1>2, <1>3, <1>4

(* Every byte of the input reaches the digest.                             *)
THEOREM NoByteMissed == Spec => []EveryByteRead
BY Inductive, NoByteLeftOut, PTL

(***************************************************************************)
(* The walk, part by part.                                                 *)
(***************************************************************************)
LEMMA BytesAre ==
  ASSUME NEW k \in Int, NEW n \in Nat
  PROVE  /\ Len(W!NextBytes(k, n)) = n /\ DOMAIN W!NextBytes(k, n) = 1 .. n
         /\ \A i \in 1 .. n : W!NextBytes(k, n)[i] = k + i - 1
BY SMT DEF W!NextBytes

LEMMA LoadIsBytes ==
  ASSUME NEW s \in Int, NEW n \in Nat, NEW first \in Nat, NEW m \in Nat,
         first >= 1, first + m - 1 <= n, NEW last \in Int, last = first + m - 1,
         NEW k \in Int, k = s + (first - 1)
  PROVE  W!Load(W!NextBytes(s, n), first, last) = W!NextBytes(k, m)
<1> DEFINE mem == W!NextBytes(s, n)
<1>1. /\ DOMAIN mem = 1 .. n
      /\ \A i \in 1 .. n : mem[i] = s + i - 1
  BY BytesAre
<1> HIDE DEF mem
<1>2. ASSUME NEW i \in 1 .. m
      PROVE  (IF first + i - 1 \in DOMAIN mem THEN mem[first + i - 1] ELSE W!Outside) = k + i - 1
  <2> DEFINE x == first + i - 1
  <2>1. x \in 1 .. n /\ s + x - 1 = k + i - 1
    BY SMT
  <2> HIDE DEF x
  <2>2. mem[x] = s + x - 1 /\ x \in DOMAIN mem
    BY <1>1, <2>1
  <2>3. QED
    BY <2>1, <2>2 DEF x
<1>3. last - first + 1 = m
  BY SMT
<1>4. W!Load(mem, first, last)
        = [i \in 1 .. m |-> IF first + i - 1 \in DOMAIN mem THEN mem[first + i - 1] ELSE W!Outside]
  BY <1>3 DEF W!Load
<1>5. QED
  BY <1>2, <1>4 DEF W!NextBytes, mem

(* The words of m words of consecutive bytes.                              *)
Offs(k, m) == [i \in 1 .. m |-> k + 8 * (i - 1)]

LEMMA WordsAre ==
  ASSUME NEW k \in Int, NEW m \in Nat, NEW n \in Nat, n = 8 * m
  PROVE  Words(W!NextBytes(k, n)) = Offs(k, m)
<1> DEFINE bytes == W!NextBytes(k, n)
<1>1. Len(bytes) = n /\ \A i \in 1 .. n : bytes[i] = k + i - 1
  BY BytesAre
<1> HIDE DEF bytes
<1>2. Len(bytes) \div 8 = m
  BY <1>1, SMT
<1>3. ASSUME NEW i \in 1 .. m PROVE bytes[8 * i - 7] = k + 8 * (i - 1)
  <2> DEFINE x == 8 * i - 7
  <2>1. x \in 1 .. n /\ k + x - 1 = k + 8 * (i - 1)
    BY SMT
  <2> HIDE DEF x
  <2>2. bytes[x] = k + x - 1
    BY <1>1, <2>1
  <2>3. QED
    BY <2>1, <2>2 DEF x
<1>4. QED
  BY <1>2, <1>3 DEF Words, Offs, bytes

LEMMA NoWordsAre == Words(<< >>) = << >>
<1>1. Len(<< >>) = 0 /\ 0 \div 8 = 0 /\ 1 .. 0 = {}
  BY SMT
<1>2. QED
  BY <1>1 DEF Words

LEMMA OffsAre ==
  ASSUME NEW k \in Int, NEW m \in Nat
  PROVE  /\ Offs(k, m) \in [1 .. m -> Int] /\ Offs(k, m) \in Seq(Int) /\ Len(Offs(k, m)) = m
         /\ (Offs(k, m) = << >> <=> m = 0)
         /\ \A i \in 1 .. m : Offs(k, m)[i] = k + 8 * (i - 1)
<1>1. Offs(k, m) \in [1 .. m -> Int] /\ \A i \in 1 .. m : Offs(k, m)[i] = k + 8 * (i - 1)
  BY SMT DEF Offs
<1>2. Offs(k, m) \in Seq(Int) /\ Len(Offs(k, m)) = m
  BY <1>1, SeqOf
<1>3. Offs(k, m) = << >> <=> m = 0
  <2> DEFINE s == Offs(k, m)
  <2> HIDE DEF s
  <2>1. s \in Seq(Int) /\ Len(s) = m
    BY <1>2 DEF s
  <2>2. s = << >> <=> Len(s) = 0
    BY <2>1, EmptySeq
  <2>3. QED
    BY <2>1, <2>2 DEF s
<1>4. QED
  BY <1>1, <1>2, <1>3

LEMMA OffsJoin ==
  ASSUME NEW k \in Int, NEW m \in Nat, NEW n \in Nat, NEW at \in Int, at = k + 8 * m,
         NEW t \in Nat, t = m + n
  PROVE  Joins(Offs(k, m), Offs(at, n), Offs(k, t))
<1> DEFINE f == Offs(k, t)
           g == Offs(at, n)
<1>1. f \in [1 .. m + n -> Int] /\ g \in [1 .. n -> Int]
  BY OffsAre
<1>2. \A i \in 1 .. n : g[i] = f[m + i]
  <2>1. ASSUME NEW i \in 1 .. n PROVE g[i] = f[m + i]
    <3>1. m + i \in 1 .. t /\ at + 8 * (i - 1) = k + 8 * (m + i - 1)
      BY SMT
    <3>2. g[i] = at + 8 * (i - 1) /\ f[m + i] = k + 8 * (m + i - 1)
      BY <3>1 DEF Offs
    <3>3. QED
      BY <3>1, <3>2
  <2>2. QED
    BY <2>1
<1>3. Cut(f, m) = Offs(k, m)
  <2>1. \A i \in 1 .. m : i \in 1 .. t
    BY SMT
  <2>2. QED
    BY <2>1 DEF Cut, Offs
<1> HIDE DEF f, g
<1>4. Joins(Cut(f, m), g, f)
  <2> DEFINE S == Int
  <2>1. f \in [1 .. m + n -> S] /\ g \in [1 .. n -> S]
    BY <1>1
  <2> HIDE DEF S
  <2>2. QED
    BY <1>2, <2>1, Pieces
<1>5. QED
  BY <1>3, <1>4 DEF f, g

(* The digest record of the whole input.                                   *)
Digest == W!OneShot(width, 0, W!NextBytes(start, len))

LEMMA DigestParts ==
  ASSUME CallOK, len > 16
  PROVE  /\ Words(Digest.blocks) = Offs(start, 8 * AllBlocks)
         /\ Words(Digest.rounds) = Offs(start + 64 * AllBlocks, 4 * AllRounds)
         /\ Words(Digest.head) = IF len > Done + 16 THEN Offs(start + Done, 2) ELSE << >>
         /\ Words(Digest.last) = IF len > Done THEN Offs((start + len) - 16, 2) ELSE << >>
<1> DEFINE msg == W!NextBytes(start, len)
           whole == 64 * AllBlocks
<1>1. /\ start \in Nat /\ len \in Nat /\ AllBlocks \in Nat /\ AllRounds \in Nat /\ Done \in Nat
      /\ Done = 64 * AllBlocks + 32 * AllRounds /\ Done <= len /\ len < Done + 32
      /\ (AllBlocks = 0 <=> len < 320)
      /\ len >= 320 => AllRounds <= 1 /\ len < 64 * AllBlocks + 64
  BY CallTypes, Counts
<1>2. Len(msg) = len
  BY <1>1, BytesAre, SMT
<1> HIDE DEF msg
<1>3. /\ Digest.blocks = W!Load(msg, 1, whole) \/ (AllBlocks = 0 /\ Digest.blocks = << >>)
      /\ Digest.rounds = W!Load(msg, whole + 1, Done)
      /\ Digest.head = W!HeadWords(msg, len, Done)
      /\ Digest.last = W!LastWords(msg, len, Done)
  <2>1. CASE len < 320
    <3>1. Digest = W!MidHash(width, 0, msg)
      <4>1. ~(len <= 16) /\ ~(len >= 320)
        BY <1>1, <2>1, SMT
      <4>2. QED
        BY <1>2, <4>1 DEF Digest, W!OneShot, msg
    <3>2. len - (len % 32) = Done /\ whole + 1 = 1
      <4>1. PICK q \in Nat, t \in 0 .. 31 : len = 32 * q + t /\ t = len % 32
        BY <1>1, SMT
      <4>2. q = AllRounds /\ AllBlocks = 0
        BY <1>1, <2>1, <4>1, SMT
      <4>3. len - t = Done /\ whole + 1 = 1
        BY <1>1, <4>1, <4>2, SMT
      <4>4. QED
        BY <4>1, <4>3
    <3>3. /\ Digest.blocks = << >> /\ Digest.rounds = W!Load(msg, 1, Done)
          /\ Digest.head = W!HeadWords(msg, len, Done)
          /\ Digest.last = W!LastWords(msg, len, Done)
      BY <1>2, <3>1, <3>2 DEF W!MidHash
    <3>4. QED
      BY <1>1, <2>1, <3>2, <3>3
  <2>2. CASE ~(len < 320)
    <3>1. Digest = W!Finish(width, 0, << >>, msg, len, len)
      <4>1. ~(len <= 16) /\ len >= 320
        BY <1>1, <2>2, SMT
      <4>2. QED
        BY <1>2, <4>1 DEF Digest, W!OneShot, W!LongHash, msg
    <3>2. W!WholeBlocks(len) = whole
      <4>1. PICK q \in Nat, t \in 0 .. 63 : len = 64 * q + t /\ t = len % 64
        BY <1>1, SMT
      <4>2. q = AllBlocks
        BY <1>1, <2>2, <4>1, SMT
      <4>3. len - t = whole
        BY <4>1, <4>2, SMT
      <4>4. QED
        BY <4>1, <4>3 DEF W!WholeBlocks
    <3>3. (IF len - whole >= 32 THEN whole + 32 ELSE whole) = Done
      BY <1>1, <2>2, SMT
    <3> HIDE DEF whole
    <3>4. /\ Digest.blocks = << >> \o W!Load(msg, 1, whole)
          /\ Digest.rounds = W!Load(msg, whole + 1, Done)
          /\ Digest.head = W!HeadWords(msg, len, Done)
          /\ Digest.last = W!LastWords(msg, len, Done)
      BY <3>1, <3>2, <3>3 DEF W!Finish
    <3>5. << >> \o W!Load(msg, 1, whole) = W!Load(msg, 1, whole)
      <4> DEFINE n == whole - 1 + 1
                 f == W!Load(msg, 1, whole)
                 S == {f[i] : i \in 1 .. n}
      <4>1. n \in Nat
        BY <1>1, SMT DEF whole
      <4>2. f \in [1 .. n -> S]
        BY DEF W!Load
      <4> HIDE DEF n, f, S
      <4>3. f \in Seq(S)
        BY <4>1, <4>2, SeqOf
      <4>4. QED
        BY <4>3, NothingAdded DEF f
    <3>6. QED
      BY <3>4, <3>5
  <2>3. QED
    BY <2>1, <2>2
<1>4. Words(Digest.blocks) = Offs(start, 8 * AllBlocks)
  <2> DEFINE n == whole
             m == 8 * AllBlocks
  <2>1. /\ m \in Nat /\ n \in Nat /\ n = 8 * m /\ 1 + n - 1 <= len /\ n = 1 + n - 1
        /\ start = start + (1 - 1) /\ n \in Int /\ start \in Int
    BY <1>1, SMT
  <2>2. CASE Digest.blocks = W!Load(msg, 1, whole)
    <3> HIDE DEF n, m
    <3>1. W!Load(msg, 1, n) = W!NextBytes(start, n)
      BY <1>1, <2>1, LoadIsBytes DEF msg
    <3>2. QED
      BY <2>1, <2>2, <3>1, WordsAre DEF n, m
  <2>3. CASE AllBlocks = 0 /\ Digest.blocks = << >>
    <3>1. m = 0 /\ Offs(start, 0) = << >>
      BY <2>1, <2>3, OffsAre, SMT
    <3>2. QED
      BY <2>3, <3>1, NoWordsAre
  <2>4. QED
    BY <1>3, <2>2, <2>3
<1>5. Words(Digest.rounds) = Offs(start + 64 * AllBlocks, 4 * AllRounds)
  <2> DEFINE first == whole + 1
             n == 32 * AllRounds
             m == 4 * AllRounds
             k == start + 64 * AllBlocks
             last == Done
  <2>1. /\ first \in Nat /\ first >= 1 /\ n \in Nat /\ m \in Nat /\ n = 8 * m /\ k \in Int
        /\ first + n - 1 <= len /\ last = first + n - 1 /\ k = start + (first - 1)
        /\ start \in Int /\ last \in Int /\ len \in Nat
    BY <1>1, SMT
  <2> HIDE DEF first, n, m, k, last
  <2>2. W!Load(msg, first, last) = W!NextBytes(k, n)
    BY <2>1, LoadIsBytes DEF msg
  <2>3. QED
    BY <1>3, <2>1, <2>2, WordsAre DEF first, m, k, last
<1>6. Words(Digest.head) = IF len > Done + 16 THEN Offs(start + Done, 2) ELSE << >>
  <2> DEFINE first == Done + 1
             last == Done + 16
             k == start + Done
  <2>1. len - Done > 16 <=> len > Done + 16
    BY <1>1, SMT
  <2>2. CASE len > Done + 16
    <3>1. /\ first \in Nat /\ first >= 1 /\ last \in Int /\ k \in Int /\ start \in Int
          /\ first + 16 - 1 <= len /\ last = first + 16 - 1 /\ k = start + (first - 1)
          /\ 16 \in Nat /\ 2 \in Nat /\ 16 = 8 * 2
      BY <1>1, <2>2, SMT
    <3>2. Digest.head = W!Load(msg, first, last)
      BY <1>3, <2>1, <2>2 DEF W!HeadWords
    <3> HIDE DEF first, last, k
    <3>3. W!Load(msg, first, last) = W!NextBytes(k, 16)
      BY <1>1, <3>1, LoadIsBytes DEF msg
    <3>4. Words(W!NextBytes(k, 16)) = Offs(k, 2)
      BY <3>1, WordsAre
    <3>5. QED
      BY <2>2, <3>2, <3>3, <3>4 DEF k
  <2>3. CASE ~(len > Done + 16)
    BY <1>3, <2>1, <2>3, NoWordsAre DEF W!HeadWords
  <2>4. QED
    BY <2>2, <2>3
<1>7. Words(Digest.last) = IF len > Done THEN Offs((start + len) - 16, 2) ELSE << >>
  <2> DEFINE first == len - 16 + 1
             k == (start + len) - 16
  <2>1. len - Done > 0 <=> len > Done
    BY <1>1, SMT
  <2>2. CASE len > Done
    <3>1. /\ first \in Nat /\ first >= 1 /\ len \in Int /\ k \in Int /\ start \in Int
          /\ first + 16 - 1 <= len /\ len = first + 16 - 1 /\ k = start + (first - 1)
          /\ 16 \in Nat /\ 2 \in Nat /\ 16 = 8 * 2
      BY <1>1, <2>2, SMT
    <3>2. Digest.last = W!Load(msg, first, len)
      BY <1>3, <2>1, <2>2 DEF W!LastWords
    <3> HIDE DEF first, k
    <3>3. W!Load(msg, first, len) = W!NextBytes(k, 16)
      BY <1>1, <3>1, LoadIsBytes DEF msg
    <3>4. Words(W!NextBytes(k, 16)) = Offs(k, 2)
      BY <3>1, WordsAre
    <3>5. QED
      BY <2>2, <3>2, <3>3, <3>4 DEF k
  <2>3. CASE ~(len > Done)
    BY <1>3, <2>1, <2>3, NoWordsAre DEF W!LastWords
  <2>4. QED
    BY <2>2, <2>3
<1>8. QED
  BY <1>4, <1>5, <1>6, <1>7

(* The words of a lane, from consecutive words of the input.               *)
LEMMA JoinIs ==
  ASSUME NEW s \in Int, NEW m \in Nat, NEW i \in 1 .. m
  PROVE  Join(Offs(s, m), i)
           = Mix(s + 8 * (i - 1), IF i = 1 THEN None ELSE s + 8 * (i - 1) - 8)
<1> DEFINE words == Offs(s, m)
<1>1. \A k \in 1 .. m : words[k] = s + 8 * (k - 1)
  BY OffsAre
<1> HIDE DEF words
<1>2. CASE i = 1
  BY <1>1, <1>2 DEF Join, words
<1>3. CASE i # 1
  <2>1. i - 1 \in 1 .. m /\ s + 8 * (i - 1) - 8 = s + 8 * (i - 1 - 1)
    BY <1>3, SMT
  <2>2. words[i] = s + 8 * (i - 1) /\ words[i - 1] = s + 8 * (i - 1 - 1)
    BY <1>1, <2>1
  <2>3. Join(words, i) = Mix(words[i], words[i - 1])
    BY <1>3 DEF Join
  <2>4. QED
    BY <1>3, <2>1, <2>2, <2>3 DEF words
<1>4. QED
  BY <1>2, <1>3

LEMMA WideIs ==
  ASSUME NEW j \in Lanes, NEW s \in Int, NEW k \in Nat, NEW m \in Nat, m = 8 * k
  PROVE  WideLane(Offs(s, m), j) = BulkTerms(j, s, k, None)
<1> DEFINE bulk == Offs(s, m)
<1>1. /\ Len(bulk) = m /\ \A i \in 1 .. m : bulk[i] = s + 8 * (i - 1)
      /\ \A i \in 1 .. m : Join(bulk, i)
                             = Mix(s + 8 * (i - 1), IF i = 1 THEN None ELSE s + 8 * (i - 1) - 8)
  BY OffsAre, JoinIs
<1> HIDE DEF bulk
<1>2. Len(bulk) \div 8 = k
  BY <1>1, SMT
<1>3. CASE j = 0
  <2>1. ASSUME NEW i \in 1 .. 2 * k
        PROVE  LET w == s + 64 * ((i - 1) \div 2)
               IN  (IF i % 2 = 1 THEN Join(bulk, 4 * i - 3) ELSE Added(bulk[4 * i]))
                     = IF i % 2 = 0 THEN Added(w + 56)
                       ELSE Mix(w, IF w = s THEN None ELSE w - 8)
    <3> DEFINE w == s + 64 * ((i - 1) \div 2)
    <3>1. CASE i % 2 = 1
      <4> DEFINE x == 4 * i - 3
                 v == s + 8 * (x - 1)
      <4>1. x \in 1 .. m /\ v = w /\ (x = 1 <=> w = s)
        BY <3>1, SMT
      <4>2. Join(bulk, x) = Mix(v, IF x = 1 THEN None ELSE v - 8)
        <5> HIDE DEF x
        <5>1. QED
          BY <1>1, <4>1
      <4>3. Join(bulk, x) = Mix(w, IF w = s THEN None ELSE w - 8)
        <5> HIDE DEF x, v, w
        <5>1. QED
          BY <4>1, <4>2
      <4> HIDE DEF v, w
      <4>4. QED
        BY <3>1, <4>3, SMT DEF w
    <3>2. CASE i % 2 = 0
      <4> DEFINE x == 4 * i
      <4>1. x \in 1 .. m /\ s + 8 * (x - 1) = w + 56
        BY <3>2, SMT
      <4>2. bulk[x] = s + 8 * (x - 1)
        <5> HIDE DEF x
        <5>1. QED
          BY <1>1, <4>1
      <4>3. Added(bulk[x]) = Added(w + 56)
        <5> HIDE DEF x, w
        <5>1. QED
          BY <4>1, <4>2
      <4> HIDE DEF w
      <4>4. QED
        BY <3>2, <4>3, SMT DEF w
    <3>3. i % 2 = 0 \/ i % 2 = 1
      BY SMT
    <3>4. QED
      BY <3>1, <3>2, <3>3
  <2>2. QED
    BY <1>2, <1>3, <2>1 DEF WideLane, BulkTerms, bulk
<1>4. CASE j # 0
  <2>1. ASSUME NEW b \in 1 .. k
        PROVE  LET w == s + 64 * (b - 1) + 8 * j
               IN  Join(bulk, 8 * b - 7 + j) = Mix(w, w - 8)
    <3> DEFINE w == s + 64 * (b - 1) + 8 * j
               x == 8 * b - 7 + j
               v == s + 8 * (x - 1)
    <3>1. x \in 1 .. m /\ v = w /\ x # 1
      BY <1>4, SMT DEF Lanes
    <3>2. Join(bulk, x) = Mix(v, IF x = 1 THEN None ELSE v - 8)
      <4> HIDE DEF x
      <4>1. QED
        BY <1>1, <3>1
    <3>3. Join(bulk, x) = Mix(w, w - 8)
      <4> HIDE DEF x, v, w
      <4>1. QED
        BY <3>1, <3>2
    <3>4. QED
      BY <3>3
  <2>2. QED
    BY <1>2, <1>4, <2>1 DEF WideLane, BulkTerms, bulk
<1>5. QED
  BY <1>3, <1>4

(* Those of the mid rounds, after the words of k blocks.                   *)
MidLane(all, skipped, j) ==
  [r \in 1 .. (Len(all) - skipped) \div 4 |-> Join(all, skipped + 4 * r - 3 + j)]

MidAre(all, skipped, j, at, n, prev) ==
  MidLane(all, skipped, j) = MidTerms(j, at, n, prev)

LEMMA MidIs ==
  ASSUME NEW j \in 0 .. 3, NEW s \in Int, NEW k \in Nat, NEW n \in Nat,
         NEW m \in Nat, m = 8 * k, NEW t \in Nat, t = m + 4 * n,
         NEW at \in Int, at = s + 64 * k
  PROVE  MidAre(Offs(s, t), m, j, at, n, IF at = s THEN None ELSE at - 8)
<1> DEFINE all  == Offs(s, t)
           prev == IF at = s THEN None ELSE at - 8
<1>1. /\ Len(all) = t
      /\ \A i \in 1 .. t : Join(all, i)
                             = Mix(s + 8 * (i - 1), IF i = 1 THEN None ELSE s + 8 * (i - 1) - 8)
  BY OffsAre, JoinIs
<1> HIDE DEF all
<1>2. (Len(all) - m) \div 4 = n
  BY <1>1, SMT
<1>3. ASSUME NEW r \in 1 .. n
      PROVE  LET w == at + 32 * (r - 1) + 8 * j
             IN  Join(all, m + 4 * r - 3 + j) = Mix(w, IF w = at THEN prev ELSE w - 8)
  <2> DEFINE w == at + 32 * (r - 1) + 8 * j
             x == m + 4 * r - 3 + j
             v == s + 8 * (x - 1)
  <2>1. x \in 1 .. t /\ v = w
    BY SMT
  <2>2. Join(all, x) = Mix(v, IF x = 1 THEN None ELSE v - 8)
    <3> HIDE DEF x
    <3>1. QED
      BY <1>1, <2>1
  <2>3. (IF x = 1 THEN None ELSE v - 8) = (IF w = at THEN prev ELSE w - 8)
    <3>1. CASE x = 1
      <4>1. w = at /\ at = s
        BY <3>1, SMT
      <4>2. QED
        BY <3>1, <4>1
    <3>2. CASE x # 1 /\ w = at
      <4>1. at # s /\ v - 8 = at - 8
        BY <3>2, SMT
      <4> HIDE DEF x, v, w
      <4>2. QED
        BY <3>2, <4>1
    <3>3. CASE x # 1 /\ w # at
      <4>1. v - 8 = w - 8
        BY SMT
      <4> HIDE DEF x, v, w
      <4>2. QED
        BY <3>3, <4>1
    <3>4. QED
      BY <3>1, <3>2, <3>3
  <2>4. Join(all, x) = Mix(w, IF w = at THEN prev ELSE w - 8)
    <3> HIDE DEF x, v, w, prev
    <3>1. QED
      BY <2>1, <2>2, <2>3
  <2>5. QED
    BY <2>4
<1>4. QED
  BY <1>2, <1>3 DEF MidAre, MidLane, MidTerms, all

(***************************************************************************)
(* The lanes at the end of every path, one by one.                         *)
(***************************************************************************)
MergePart(j) ==
  IF AllBlocks = 0 THEN << >> ELSE << Merge(BulkTerms(j + 4, start, AllBlocks, None)) >>

MidPart(j) ==
  MidTerms(j, start + 64 * AllBlocks, AllRounds, WordBefore(start + 64 * AllBlocks))

WallPart(j) == IF j = 0 /\ Done # 0 THEN << Rot(start + Done - 8) >> ELSE << >>

TailPart(j) ==
  IF j < 2
  THEN IF len > Done + 16 THEN << Inj((start + Done) + 8 * j) >> ELSE << >>
  ELSE IF len > Done THEN << Inj(((start + len) - 16) + 8 * (j - 2)) >> ELSE << >>

LEMMA NothingJoined ==
  ASSUME NEW A, NEW lanes, LanesOver(A, lanes), NEW j \in Lanes
  PROVE  lanes[j] \o << >> = lanes[j]
BY LaneTypes, NothingAdded

LEMMA BlocksLane ==
  ASSUME CallOK, NEW j \in Lanes
  PROVE  AfterBlocks(AllBlocks)[j] = BulkTerms(j, start, AllBlocks, None)
<1> DEFINE k   == AllBlocks
           new == Blocks(Fresh, start, k, None)
           t   == BulkTerms(j, start, k, None)
<1>1. k \in Nat /\ start \in Int /\ None \in Int /\ LanesOver(Offsets, Fresh)
  BY Counts, CallTypes, WordBeforeType, FreshOver
<1> HIDE DEF k
<1>2. BlocksAre(new, Fresh, start, k, None) /\ BulkTermsIn(Terms(Offsets), start, k, None)
  BY <1>1, BlocksAnywhere
<1> HIDE DEF new
<1>3. new[j] = << >> \o t /\ t \in Seq(Terms(Offsets))
  BY <1>2 DEF BlocksAre, BulkTermsIn, Fresh
<1> HIDE DEF t
<1>4. new[j] = t
  BY <1>3, NothingAdded
<1>5. QED
  BY <1>4 DEF AfterBlocks, new, t, k

LEMMA EnteredLane ==
  ASSUME CallOK
  PROVE  /\ \A j \in 0 .. 3 : Entered[j] = BulkTerms(j, start, AllBlocks, None) \o MergePart(j)
         /\ \A j \in 4 .. 7 : Entered[j] = << >>
<1>1. CASE AllBlocks = 0
  <2>1. Entered = Fresh /\ \A j \in Lanes : Fresh[j] = << >>
    BY <1>1 DEF Entered, Fresh
  <2>2. \A j \in 0 .. 3 : BulkTerms(j, start, AllBlocks, None) = << >> /\ MergePart(j) = << >>
    BY <1>1, NoTerms DEF MergePart
  <2>3. << >> \o << >> = << >>
    BY EmptySeq, NothingAdded
  <2>4. QED
    BY <2>1, <2>2, <2>3, LaneNumbers
<1>2. CASE AllBlocks # 0
  <2> DEFINE old == AfterBlocks(AllBlocks)
  <2>1. Entered = Folded(old)
    BY <1>2 DEF Entered
  <2>2. LanesOver(Inside(start, len), old)
    BY Counts, CallTypes, AfterBlocksOver, SMT
  <2>3. \A j \in Lanes : old[j] = BulkTerms(j, start, AllBlocks, None)
    BY BlocksLane
  <2> HIDE DEF old
  <2>4. /\ \A j \in 0 .. 3 : Folded(old)[j] = old[j] \o << Merge(old[j + 4]) >>
        /\ \A j \in 4 .. 7 : Folded(old)[j] = << >>
    BY <2>2, FoldedOver
  <2>5. \A j \in 0 .. 3 : MergePart(j) = << Merge(old[j + 4]) >>
    BY <1>2, <2>3, LaneNumbers DEF MergePart
  <2>6. QED
    BY <2>1, <2>3, <2>4, <2>5, LaneNumbers
<1>3. QED
  BY <1>1, <1>2

LEMMA RoundsLane ==
  ASSUME CallOK
  PROVE  /\ \A j \in 0 .. 3 : AfterRounds(AllRounds)[j] = Entered[j] \o MidPart(j)
         /\ \A j \in 4 .. 7 : AfterRounds(AllRounds)[j] = Entered[j]
<1> DEFINE at   == start + 64 * AllBlocks
           r    == AllRounds
           prev == WordBefore(at)
           new  == Rounds(Entered, at, r, prev)
<1>1. at \in Int /\ r \in Nat
  BY Counts, CallTypes, SMT
<1>2. AfterRounds(r) = new /\ \A j : MidPart(j) = MidTerms(j, at, r, prev)
  BY DEF AfterRounds, Entered, MidPart
<1>3. LanesOver(Offsets, Entered)
  BY EnteredOver, LanesGrow, InsideFacts, CallTypes
<1> HIDE DEF at
<1>4. prev \in Int
  BY <1>1, WordBeforeType
<1> HIDE DEF r, prev
<1>5. RoundsAre(new, Entered, at, r, prev)
  BY <1>1, <1>3, <1>4, RoundsAnywhere
<1> HIDE DEF new
<1>6. QED
  BY <1>2, <1>5 DEF RoundsAre, r

LEMMA WalledLane ==
  ASSUME CallOK
  PROVE  /\ \A j \in 0 .. 3 : Walled[j] = AfterRounds(AllRounds)[j] \o WallPart(j)
         /\ \A j \in 4 .. 7 : Walled[j] = AfterRounds(AllRounds)[j]
<1> DEFINE old == AfterRounds(AllRounds)
           A   == Inside(start, len)
<1>1. LanesOver(A, old)
  BY AfterRoundsOver, Counts, SMT
<1>2. \A j \in Lanes : old[j] \o << >> = old[j]
  <2> HIDE DEF old, A
  <2>1. QED
    BY <1>1, NothingJoined
<1>3. CASE Done = 0
  <2>1. Walled = old /\ \A j : WallPart(j) = << >>
    BY <1>3 DEF Walled, WallPart
  <2> HIDE DEF old
  <2>2. QED
    BY <1>2, <2>1, LaneNumbers DEF old
<1>4. CASE Done # 0
  <2> DEFINE e == Rot(start + Done - 8)
  <2>1. /\ Walled = Absorb(old, 0, e) /\ WallPart(0) = << e >>
        /\ \A j : j # 0 => WallPart(j) = << >>
    BY <1>4 DEF Walled, WallPart
  <2>2. e \in LoadedFrom(A) /\ 0 \in 0 .. 3
    <3>1. start + Done - 8 \in A
      BY <1>4, Counts, CallTypes, SMT DEF Inside
    <3>2. QED
      BY <3>1, TermTypes, SMT
  <2> HIDE DEF old, e, A
  <2>3. AbsorbIs(Walled, old, 0, e)
    BY <1>1, <2>1, <2>2, AbsorbOver
  <2>4. \A j \in 0 .. 3 : Walled[j] = old[j] \o WallPart(j)
    BY <1>2, <2>1, <2>3, LaneNumbers DEF AbsorbIs
  <2>5. \A j \in 4 .. 7 : Walled[j] = old[j]
    <3>1. \A j \in 4 .. 7 : j # 0
      BY SMT
    <3>2. QED
      BY <2>3, <3>1, LaneNumbers DEF AbsorbIs
  <2>6. QED
    BY <2>4, <2>5 DEF old
<1>5. QED
  BY <1>3, <1>4

(* Two words injected into lanes i and k, the others left as they are.     *)
TailIs(new, old, i, v, k, w) ==
  /\ new[i] = old[i] \o << Inj(v) >> /\ new[k] = old[k] \o << Inj(w) >>
  /\ \A j \in Lanes : j # i /\ j # k => new[j] = old[j]

LEMMA TailLanes ==
  ASSUME NEW A, NEW lanes, LanesOver(A, lanes), NEW v \in A, NEW w \in A,
         NEW i \in {0, 2}, NEW k \in {1, 3}, k = i + 1,
         NEW new, new = Absorb(Absorb(lanes, i, Inj(v)), k, Inj(w))
  PROVE  TailIs(new, lanes, i, v, k, w)
<1> DEFINE x   == Inj(v)
           y   == Inj(w)
           one == Absorb(lanes, i, x)
<1>1. i \in 0 .. 3 /\ k \in 0 .. 3 /\ i # k /\ i \in Lanes /\ k \in Lanes
  BY SMT DEF Lanes
<1>2. x \in LoadedFrom(A) /\ y \in LoadedFrom(A) /\ new = Absorb(one, k, y)
  BY TermTypes
<1> HIDE DEF x, y
<1>3. AbsorbIs(one, lanes, i, x) /\ LanesOver(A, one)
  BY <1>1, <1>2, AbsorbOver
<1> HIDE DEF one
<1>4. AbsorbIs(new, one, k, y)
  BY <1>1, <1>2, <1>3, AbsorbOver
<1>5. /\ new[i] = lanes[i] \o << x >> /\ new[k] = lanes[k] \o << y >>
      /\ \A j \in Lanes : j # i /\ j # k => new[j] = lanes[j]
  BY <1>1, <1>3, <1>4 DEF AbsorbIs
<1>6. QED
  BY <1>5 DEF TailIs, x, y

LEMMA EndedLane ==
  ASSUME CallOK, len > 16
  PROVE  /\ \A j \in 0 .. 3 : Ended[j] = Walled[j] \o TailPart(j)
         /\ \A j \in 4 .. 7 : Ended[j] = Walled[j]
<1> DEFINE A   == Inside(start, len)
           at  == start + Done
           end == start + len
<1>0. /\ 0 \in Lanes /\ 1 \in Lanes /\ 2 \in Lanes /\ 3 \in Lanes
      /\ \A j \in Lanes : j > 1 => j # 0 /\ j # 1
  BY SMT DEF Lanes
<1>1. LanesOver(A, Walled) /\ LanesOver(A, Headed)
  BY WalledOver, EndedOver
<1>2. /\ start \in Nat /\ len \in Nat /\ Done \in Nat
  BY CallTypes, Counts
<1>3. \A j \in Lanes : Walled[j] \o << >> = Walled[j] /\ Headed[j] \o << >> = Headed[j]
  <2> HIDE DEF A
  <2>1. QED
    BY <1>1, NothingJoined
<1>4. /\ Headed[0] = Walled[0] \o TailPart(0) /\ Headed[1] = Walled[1] \o TailPart(1)
      /\ \A j \in Lanes : j > 1 => Headed[j] = Walled[j]
  <2>1. CASE len > Done + 16
    <3> DEFINE v == at
               w == at + 8
    <3>1. v \in A /\ w \in A
      BY <1>2, <2>1, SMT DEF Inside
    <3>2. Headed = Absorb(Absorb(Walled, 0, Inj(v)), 1, Inj(w))
      BY <2>1 DEF Headed, TailHead
    <3>3. TailPart(0) = << Inj(v) >> /\ TailPart(1) = << Inj(w) >>
      <4>1. at + 8 * 0 = v /\ at + 8 * 1 = w
        BY <1>2, SMT
      <4>2. QED
        BY <2>1, <4>1 DEF TailPart
    <3>4. 0 \in {0, 2} /\ 1 \in {1, 3} /\ 1 = 0 + 1
      OBVIOUS
    <3> HIDE DEF v, w, A
    <3>5. TailIs(Headed, Walled, 0, v, 1, w)
      BY <1>1, <3>1, <3>2, <3>4, TailLanes
    <3>6. /\ Headed[0] = Walled[0] \o << Inj(v) >> /\ Headed[1] = Walled[1] \o << Inj(w) >>
          /\ \A j \in Lanes : j # 0 /\ j # 1 => Headed[j] = Walled[j]
      BY <3>5 DEF TailIs
    <3>7. QED
      BY <1>0, <3>3, <3>6
  <2>2. CASE ~(len > Done + 16)
    <3>1. Headed = Walled /\ TailPart(0) = << >> /\ TailPart(1) = << >>
      BY <2>2 DEF Headed, TailPart
    <3>2. Headed[0] = Walled[0] \o TailPart(0)
      BY <1>0, <1>3, <3>1
    <3>3. Headed[1] = Walled[1] \o TailPart(1)
      BY <1>0, <1>3, <3>1
    <3>4. QED
      BY <3>1, <3>2, <3>3
  <2>3. QED
    BY <2>1, <2>2
<1>5. /\ Ended[2] = Headed[2] \o TailPart(2) /\ Ended[3] = Headed[3] \o TailPart(3)
      /\ \A j \in Lanes : j # 2 /\ j # 3 => Ended[j] = Headed[j]
  <2>0. ~(2 < 2) /\ ~(3 < 2)
    BY SMT
  <2>1. CASE len > Done
    <3> DEFINE v == end - 16
               w == end - 8
    <3>1. v \in A /\ w \in A
      BY <1>2, SMT DEF Inside
    <3>2. Ended = Absorb(Absorb(Headed, 2, Inj(v)), 3, Inj(w))
      BY <2>1 DEF Ended, Headed, TailLast
    <3>3. TailPart(2) = << Inj(v) >> /\ TailPart(3) = << Inj(w) >>
      <4>1. (end - 16) + 8 * (2 - 2) = v /\ (end - 16) + 8 * (3 - 2) = w
        BY <1>2, SMT
      <4>2. QED
        BY <2>0, <2>1, <4>1 DEF TailPart
    <3>4. 2 \in {0, 2} /\ 3 \in {1, 3} /\ 3 = 2 + 1
      OBVIOUS
    <3> HIDE DEF v, w, A
    <3>5. TailIs(Ended, Headed, 2, v, 3, w)
      BY <1>1, <3>1, <3>2, <3>4, TailLanes
    <3>6. QED
      BY <3>3, <3>5 DEF TailIs
  <2>2. CASE ~(len > Done)
    <3>1. Ended = Headed /\ TailPart(2) = << >> /\ TailPart(3) = << >>
      BY <2>0, <2>2 DEF Ended, Headed, TailPart
    <3>2. Ended[2] = Headed[2] \o TailPart(2)
      BY <1>0, <1>3, <3>1
    <3>3. Ended[3] = Headed[3] \o TailPart(3)
      BY <1>0, <1>3, <3>1
    <3>4. QED
      BY <3>1, <3>2, <3>3
  <2>3. QED
    BY <2>1, <2>2
<1>6. \A j \in 0 .. 3 : Ended[j] = Walled[j] \o TailPart(j)
  <2>1. 0 \in Lanes /\ 1 \in Lanes /\ 2 \in Lanes /\ 3 \in Lanes /\ 2 > 1 /\ 3 > 1
    BY SMT DEF Lanes
  <2>2. /\ Ended[0] = Walled[0] \o TailPart(0) /\ Ended[1] = Walled[1] \o TailPart(1)
        /\ Ended[2] = Walled[2] \o TailPart(2) /\ Ended[3] = Walled[3] \o TailPart(3)
    BY <1>4, <1>5, <2>1
  <2>3. \A j \in 0 .. 3 : j = 0 \/ j = 1 \/ j = 2 \/ j = 3
    BY SMT
  <2>4. QED
    BY <2>2, <2>3
<1>7. \A j \in 4 .. 7 : Ended[j] = Walled[j]
  <2>1. \A j \in 4 .. 7 : j \in Lanes /\ j > 1 /\ j # 2 /\ j # 3
    BY SMT DEF Lanes
  <2>2. QED
    BY <1>4, <1>5, <2>1
<1>8. QED
  BY <1>6, <1>7


(***************************************************************************)
(* The lanes of the walk, part by part, are those.                         *)
(***************************************************************************)
WalkMerge(bulk, j) == IF bulk = << >> THEN << >> ELSE << Merge(WideLane(bulk, j + 4)) >>
WalkWall(all, j)   == IF j = 0 /\ all # << >> THEN << Rot(all[Len(all)]) >> ELSE << >>
WalkTail(words, j) == IF words = << >> THEN << >> ELSE << Inj(words[1 + (j % 2)]) >>

WalkLane(bulk, all, head, last, j) ==
  IF j > 3 THEN << >>
  ELSE WideLane(bulk, j) \o WalkMerge(bulk, j) \o MidLane(all, Len(bulk), j)
         \o WalkWall(all, j) \o WalkTail(IF j < 2 THEN head ELSE last, j)

LEMMA WalkLanesAre ==
  ASSUME NEW d
  PROVE  WalkLanes(d)
           = [j \in Lanes |-> WalkLane(Words(d.blocks), Words(d.blocks) \o Words(d.rounds),
                                       Words(d.head), Words(d.last), j)]
BY DEF WalkLanes, WalkLane, WalkMerge, WalkWall, WalkTail, MidLane

LEMMA MergeOfWalk ==
  ASSUME CallOK, NEW j \in 0 .. 3, NEW bulk, bulk = Offs(start, 8 * AllBlocks)
  PROVE  /\ WideLane(bulk, j) = BulkTerms(j, start, AllBlocks, None)
         /\ WalkMerge(bulk, j) = MergePart(j)
<1> DEFINE m == 8 * AllBlocks
           i == j + 4
<1>1. AllBlocks \in Nat /\ start \in Int /\ m \in Nat /\ m = 8 * AllBlocks
  BY CallTypes, Counts, SMT
<1>2. j \in Lanes /\ i \in Lanes
  BY LaneNumbers
<1>3. bulk = << >> <=> AllBlocks = 0
  <2>1. m = 0 <=> AllBlocks = 0
    BY <1>1, SMT
  <2> HIDE DEF m
  <2>2. Offs(start, m) = << >> <=> m = 0
    BY <1>1, OffsAre
  <2>3. QED
    BY <2>1, <2>2 DEF m
<1>4. bulk = Offs(start, m)
  OBVIOUS
<1> HIDE DEF m, i
<1>5. WideLane(bulk, j) = BulkTerms(j, start, AllBlocks, None)
  BY <1>1, <1>2, <1>4, WideIs
<1>6. WideLane(bulk, i) = BulkTerms(i, start, AllBlocks, None)
  BY <1>1, <1>2, <1>4, WideIs
<1>7. QED
  BY <1>3, <1>5, <1>6 DEF WalkMerge, MergePart, i

LEMMA MidOfWalk ==
  ASSUME CallOK, NEW j \in 0 .. 3, NEW all, all = Offs(start, 8 * AllBlocks + 4 * AllRounds),
         NEW m, m = 8 * AllBlocks
  PROVE  MidLane(all, m, j) = MidPart(j)
<1> DEFINE t  == 8 * AllBlocks + 4 * AllRounds
           at == start + 64 * AllBlocks
           k  == AllBlocks
           n  == AllRounds
<1>1. /\ k \in Nat /\ n \in Nat /\ start \in Int /\ m \in Nat /\ m = 8 * k
      /\ t \in Nat /\ t = m + 4 * n /\ at \in Int /\ at = start + 64 * k
  BY CallTypes, Counts, SMT
<1>2. all = Offs(start, t) /\ MidPart(j) = MidTerms(j, at, n, IF at = start THEN None ELSE at - 8)
  BY DEF MidPart, WordBefore
<1> HIDE DEF t, at, k, n
<1>3. MidAre(Offs(start, t), m, j, at, n, IF at = start THEN None ELSE at - 8)
  BY <1>1, MidIs
<1>4. QED
  BY <1>2, <1>3 DEF MidAre

LEMMA WallOfWalk ==
  ASSUME CallOK, NEW j \in 0 .. 3, NEW all, all = Offs(start, 8 * AllBlocks + 4 * AllRounds)
  PROVE  WalkWall(all, j) = WallPart(j)
<1> DEFINE t == 8 * AllBlocks + 4 * AllRounds
<1>1. /\ start \in Int /\ t \in Nat /\ (t = 0 <=> Done = 0)
      /\ t # 0 => t \in 1 .. t /\ start + 8 * (t - 1) = start + Done - 8
  <2>1. /\ start \in Int /\ AllBlocks \in Nat /\ AllRounds \in Nat
        /\ Done = 64 * AllBlocks + 32 * AllRounds
    BY CallTypes, Counts
  <2>2. QED
    BY <2>1, SMT
<1>2. all = Offs(start, t)
  OBVIOUS
<1> HIDE DEF t
<1>3. /\ all = << >> <=> t = 0
      /\ Len(all) = t /\ \A i \in 1 .. t : all[i] = start + 8 * (i - 1)
  BY <1>1, <1>2, OffsAre
<1>4. CASE t = 0
  BY <1>1, <1>3, <1>4 DEF WalkWall, WallPart
<1>5. CASE t # 0
  <2>1. all[Len(all)] = start + Done - 8
    BY <1>1, <1>3, <1>5
  <2>2. QED
    BY <1>1, <1>3, <1>5, <2>1 DEF WalkWall, WallPart
<1>6. QED
  BY <1>4, <1>5

(* Two words or none, of which an even lane takes the first.               *)
LEMMA PairOfWords ==
  ASSUME NEW k \in Int, NEW j \in 0 .. 3, NEW i \in {0, 1}, i = j % 2
  PROVE  /\ WalkTail(Offs(k, 2), j) = << Inj(k + 8 * i) >>
         /\ WalkTail(<< >>, j) = << >>
<1> DEFINE words == Offs(k, 2)
           x     == 1 + i
<1>1. x \in 1 .. 2 /\ 2 \in Nat /\ 2 # 0 /\ k + 8 * (x - 1) = k + 8 * i
  BY SMT
<1>2. words # << >> /\ \A y \in 1 .. 2 : words[y] = k + 8 * (y - 1)
  BY <1>1, OffsAre
<1>3. WalkTail(words, j) = << Inj(words[x]) >>
  <2> HIDE DEF words
  <2>1. QED
    BY <1>2 DEF WalkTail
<1> HIDE DEF words, x
<1>4. words[x] = k + 8 * i
  BY <1>1, <1>2
<1>5. QED
  BY <1>3, <1>4 DEF WalkTail, words

LEMMA TailOfWalk ==
  ASSUME CallOK, NEW j \in 0 .. 3, NEW head, NEW last,
         head = IF len > Done + 16 THEN Offs(start + Done, 2) ELSE << >>,
         last = IF len > Done THEN Offs((start + len) - 16, 2) ELSE << >>
  PROVE  WalkTail(IF j < 2 THEN head ELSE last, j) = TailPart(j)
<1> DEFINE i == IF j < 2 THEN j ELSE j - 2
           a == start + Done
           b == (start + len) - 16
<1>1. a \in Int /\ b \in Int /\ i \in {0, 1} /\ i = j % 2
  <2>1. start \in Nat /\ len \in Nat /\ Done \in Nat
    BY CallTypes, Counts
  <2>2. i \in {0, 1} /\ i = j % 2
    BY SMT
  <2>3. QED
    BY <2>1, <2>2, SMT
<1>2. head = (IF len > Done + 16 THEN Offs(a, 2) ELSE << >>)
      /\ last = (IF len > Done THEN Offs(b, 2) ELSE << >>)
  OBVIOUS
<1>3. TailPart(j) = IF j < 2
                    THEN IF len > Done + 16 THEN << Inj(a + 8 * i) >> ELSE << >>
                    ELSE IF len > Done THEN << Inj(b + 8 * i) >> ELSE << >>
  BY DEF TailPart
<1> HIDE DEF i, a, b
<1>4. /\ WalkTail(Offs(a, 2), j) = << Inj(a + 8 * i) >>
      /\ WalkTail(Offs(b, 2), j) = << Inj(b + 8 * i) >>
      /\ WalkTail(<< >>, j) = << >>
  BY <1>1, PairOfWords
<1>5. QED
  BY <1>2, <1>3, <1>4

(* Everything the paths leave in the lanes is what the walk has in them.   *)
LEMMA WalkIsEnded ==
  ASSUME CallOK, len > 16
  PROVE  WalkLanes(Digest) = Ended
<1> DEFINE bulk == Words(Digest.blocks)
           all  == bulk \o Words(Digest.rounds)
           head == Words(Digest.head)
           last == Words(Digest.last)
           m    == 8 * AllBlocks
           n    == 4 * AllRounds
           t    == 8 * AllBlocks + 4 * AllRounds
           at   == start + 64 * AllBlocks
<1>1. WalkLanes(Digest) = [j \in Lanes |-> WalkLane(bulk, all, head, last, j)]
  BY WalkLanesAre
<1>2. /\ start \in Int /\ m \in Nat /\ n \in Nat /\ at \in Int /\ at = start + 8 * m
      /\ t \in Nat /\ t = m + n
  BY CallTypes, Counts, SMT
<1>3. /\ bulk = Offs(start, m) /\ Words(Digest.rounds) = Offs(at, n)
      /\ head = (IF len > Done + 16 THEN Offs(start + Done, 2) ELSE << >>)
      /\ last = (IF len > Done THEN Offs((start + len) - 16, 2) ELSE << >>)
  BY DigestParts
<1>4. all = Offs(start, t) /\ Len(bulk) = m
  <2>1. all = Offs(start, m) \o Offs(at, n)
    BY <1>3
  <2>2. bulk = Offs(start, m)
    BY <1>3
  <2> HIDE DEF m, n, t, at, all, bulk
  <2>3. Joins(Offs(start, m), Offs(at, n), Offs(start, t))
    BY <1>2, OffsJoin
  <2>4. Len(Offs(start, m)) = m
    BY <1>2, OffsAre
  <2>5. QED
    BY <2>1, <2>2, <2>3, <2>4 DEF Joins
<1> HIDE DEF bulk, all, head, last
<1>5. ASSUME NEW j \in 0 .. 3
      PROVE  WalkLane(bulk, all, head, last, j) = Ended[j]
  <2>1. /\ WideLane(bulk, j) = BulkTerms(j, start, AllBlocks, None)
        /\ WalkMerge(bulk, j) = MergePart(j)
    BY <1>3, MergeOfWalk
  <2>2. MidLane(all, Len(bulk), j) = MidPart(j)
    BY <1>4, MidOfWalk
  <2>3. WalkWall(all, j) = WallPart(j)
    BY <1>4, WallOfWalk
  <2>4. WalkTail(IF j < 2 THEN head ELSE last, j) = TailPart(j)
    BY <1>3, TailOfWalk
  <2>5. Ended[j] = BulkTerms(j, start, AllBlocks, None) \o MergePart(j) \o MidPart(j)
                     \o WallPart(j) \o TailPart(j)
    BY EnteredLane, RoundsLane, WalledLane, EndedLane
  <2>6. QED
    BY <2>1, <2>2, <2>3, <2>4, <2>5, LaneNumbers DEF WalkLane
<1>6. ASSUME NEW j \in 4 .. 7
      PROVE  WalkLane(bulk, all, head, last, j) = Ended[j]
  <2>1. Ended[j] = << >>
    BY EnteredLane, RoundsLane, WalledLane, EndedLane
  <2>2. j > 3
    BY SMT
  <2>3. QED
    BY <2>1, <2>2 DEF WalkLane
<1>7. \A j \in Lanes : WalkLane(bulk, all, head, last, j) = Ended[j]
  BY <1>5, <1>6, LaneNumbers
<1>8. Ended = [j \in Lanes |-> Ended[j]]
  BY EndedOver DEF LanesOver
<1>9. QED
  BY <1>1, <1>7, <1>8

LEMMA PathsAreTheWalk ==
  ASSUME IInv
  PROVE  SameWalk
<1>1. CASE pc = "done" /\ len > 16
  <2>1. h = Ended /\ CallOK
    BY <1>1 DEF IInv
  <2>2. QED
    BY <1>1, <2>1, WalkIsEnded DEF SameWalk, Digest
<1>2. CASE ~(pc = "done" /\ len > 16)
  BY <1>2 DEF SameWalk
<1>3. QED
  BY <1>1, <1>2

(* Whatever the build, the port and the width, an input of any length over *)
(* 16 bytes ends in the lanes of the one walk.                             *)
THEOREM OneFunction == Spec => []SameWalk
BY Inductive, PathsAreTheWalk, PTL

-----------------------------------------------------------------------------
(***************************************************************************)
(* Inputs of at most 16 bytes (ShortInputs), for all words that meet its   *)
(* laws; those of 64 bits do.                                              *)
(***************************************************************************)

(***************************************************************************)
(* The operations.                                                         *)
(***************************************************************************)

(* A word that is added to, or is exclusive-ored with, is not lost.        *)
LEMMA XorRight ==
  ASSUME NEW u \in Word, NEW v \in Word, NEW w \in Word, Xor(u, w) = Xor(v, w)
  PROVE  u = v
BY XorLaw

LEMMA XorLeft ==
  ASSUME NEW u \in Word, NEW v \in Word, NEW w \in Word, Xor(w, u) = Xor(w, v)
  PROVE  u = v
BY XorLaw, XorRight

LEMMA PlusRight ==
  ASSUME NEW u \in Word, NEW v \in Word, NEW w \in Word, Plus(u, w) = Plus(v, w)
  PROVE  u = v
BY PlusLaw

LEMMA TimesRight ==
  ASSUME NEW u \in Word, NEW v \in Word, NEW k \in {K, M1, M2, N1, N2},
         Times(u, k) = Times(v, k)
  PROVE  u = v
BY TimesLaw

LEMMA XorShiftType ==
  ASSUME NEW w \in Word, NEW n \in {27, 30, 31, 33}
  PROVE  XorShift(w, n) \in Word
BY ShiftLaw, ClosedLaw DEF XorShift

LEMMA XorShiftTells ==
  ASSUME NEW v \in Word, NEW w \in Word, NEW n \in {27, 30, 31, 33},
         XorShift(v, n) = XorShift(w, n)
  PROVE  v = w
BY ShiftLaw DEF XorShift

LEMMA RotlTells ==
  ASSUME NEW v \in Word, NEW w \in Word, NEW n \in {11, 21, 23, 27, 32, 41, 50},
         Rotl(v, n) = Rotl(w, n)
  PROVE  v = w
BY ShiftLaw

(* inj and inj2 are bijective.                                             *)
LEMMA InjTells ==
  ASSUME NEW v \in Word, NEW w \in Word
  PROVE  /\ inj(v) \in Word /\ (inj(v) = inj(w) => v = w)
         /\ inj2(v) \in Word /\ (inj2(v) = inj2(w) => v = w)
<1>1. inj(v) \in Word /\ inj2(v) \in Word
  BY ShiftLaw, ClosedLaw DEF inj, inj2
<1>2. << 21, 41 >>[1] = 21 /\ << 21, 41 >>[2] = 41
  OBVIOUS
<1>3. << 11, 50 >>[1] = 11 /\ << 11, 50 >>[2] = 50
  OBVIOUS
<1>4. inj(v) = inj(w) => v = w
  BY <1>2, RotationsLaw DEF inj
<1>5. inj2(v) = inj2(w) => v = w
  BY <1>3, RotationsLaw DEF inj2
<1>6. QED
  BY <1>1, <1>4, <1>5

(* The finalizers are bijective.                                           *)
Stage(w, n, k) == Times(XorShift(w, n), k)

LEMMA StageTells ==
  ASSUME NEW v \in Word, NEW w \in Word, NEW n \in {27, 30, 31, 33},
         NEW k \in {K, M1, M2, N1, N2}
  PROVE  Stage(v, n, k) \in Word /\ (Stage(v, n, k) = Stage(w, n, k) => v = w)
<1>1. XorShift(v, n) \in Word /\ XorShift(w, n) \in Word /\ k \in Word
  BY XorShiftType, TimesLaw
<1>2. Stage(v, n, k) \in Word
  BY <1>1, ClosedLaw DEF Stage
<1>3. ASSUME Stage(v, n, k) = Stage(w, n, k) PROVE v = w
  <2>1. Times(XorShift(v, n), k) = Times(XorShift(w, n), k)
    BY <1>3 DEF Stage
  <2>2. XorShift(v, n) = XorShift(w, n)
    BY <1>1, <2>1, TimesRight
  <2>3. QED
    BY <2>2, XorShiftTells
<1>4. QED
  BY <1>2, <1>3

LEMMA FmixTells ==
  ASSUME NEW v \in Word, NEW w \in Word
  PROVE  fmix(v) \in Word /\ (fmix(v) = fmix(w) => v = w)
<1> DEFINE one(x) == Stage(x, 27, M1)
           two(x) == Stage(one(x), 33, M2)
<1>1. \A x \in Word : fmix(x) = XorShift(two(x), 27)
  BY DEF fmix, Stage
<1>2. one(v) \in Word /\ one(w) \in Word /\ (one(v) = one(w) => v = w)
  BY StageTells
<1> HIDE DEF one
<1>3. two(v) \in Word /\ two(w) \in Word /\ (two(v) = two(w) => one(v) = one(w))
  BY <1>2, StageTells
<1> HIDE DEF two
<1>4. QED
  BY <1>1, <1>2, <1>3, XorShiftType, XorShiftTells

LEMMA Fmix128Tells ==
  ASSUME NEW v \in Word, NEW w \in Word
  PROVE  fmix128(v) \in Word /\ (fmix128(v) = fmix128(w) => v = w)
<1> DEFINE one(x) == Stage(x, 30, N1)
           two(x) == Stage(one(x), 31, N2)
<1>1. \A x \in Word : fmix128(x) = XorShift(two(x), 33)
  BY DEF fmix128, Stage
<1>2. one(v) \in Word /\ one(w) \in Word /\ (one(v) = one(w) => v = w)
  BY StageTells
<1> HIDE DEF one
<1>3. two(v) \in Word /\ two(w) \in Word /\ (two(v) = two(w) => one(v) = one(w))
  BY <1>2, StageTells
<1> HIDE DEF two
<1>4. QED
  BY <1>1, <1>2, <1>3, XorShiftType, XorShiftTells

(* Lengths keep their difference through the multiply by K.                *)
LEMMA LenmixTells ==
  ASSUME NEW m \in 0 .. MaxShort, NEW n \in 0 .. MaxShort
  PROVE  lenmix(m) \in Word /\ (lenmix(m) = lenmix(n) => m = n)
<1>1. Num(m) \in Word /\ Num(n) \in Word /\ (Num(m) = Num(n) => m = n)
  BY NumLaw
<1>2. QED
  BY <1>1, ClosedLaw, TimesLaw DEF lenmix

-----------------------------------------------------------------------------
(***************************************************************************)
(* Loads.                                                                  *)
(***************************************************************************)

LEMMA Bands ==
  \A size \in 0 .. 16 :
    /\ size \in Nat /\ size <= 16
    /\ size >= 8 \/ size \in 4 .. 7 \/ size \in 1 .. 3 \/ size = 0
    /\ size >= 8 => size \notin 4 .. 7 /\ size \notin 1 .. 3 /\ size # 0
    /\ size \in 4 .. 7 => size <= 7 /\ size >= 4 /\ ~(size >= 8) /\ size \notin 1 .. 3 /\ size # 0
BY SMT

LEMMA UpTo == \A size \in Nat : size <= 16 => size \in 0 .. 16
BY SMT

LEMMA InputFacts ==
  ASSUME NEW f \in Inputs
  PROVE  /\ Len(f) \in 0 .. MaxShort /\ f \in [1 .. Len(f) -> Byte]
<1>1. f \in Seq(Byte) /\ Len(f) <= MaxShort
  BY InputsAssumption
<1>2. Len(f) \in Nat /\ f \in [1 .. Len(f) -> Byte]
  BY <1>1
<1>3. QED
  BY <1>1, <1>2, UpTo DEF MaxShort

(* The bytes of a load are those at its offset, and zeros.                 *)
Eight(f, at, n) == [i \in 0 .. 7 |-> IF i < n THEN f[at + i + 1] ELSE ZeroByte]

LEMMA EightType ==
  ASSUME NEW size \in Nat, NEW f \in [1 .. size -> Byte], NEW at \in Nat, NEW n \in Nat,
         at + n <= size
  PROVE  Eight(f, at, n) \in [0 .. 7 -> Byte]
<1>1. ASSUME NEW i \in 0 .. 7, i < n PROVE f[at + i + 1] \in Byte
  <2>1. at + i + 1 \in 1 .. size
    BY <1>1, SMT
  <2>2. QED
    BY <2>1
<1>2. QED
  BY <1>1, PackLaw DEF Eight

LEMMA LoadType ==
  ASSUME NEW size \in Nat, NEW f \in [1 .. size -> Byte], NEW at \in Nat, NEW n \in Nat,
         at + n <= size
  PROVE  LoadLe(f, at, n) \in Word
<1>1. Eight(f, at, n) \in [0 .. 7 -> Byte]
  BY EightType
<1>2. QED
  BY <1>1, PackLaw DEF LoadLe, Eight

(* Two loads that give one word have read the same bytes.                  *)
LEMMA LoadTells ==
  ASSUME NEW size \in Nat, NEW f \in [1 .. size -> Byte], NEW g \in [1 .. size -> Byte],
         NEW at \in Nat, NEW n \in 0 .. 8, at + n <= size,
         LoadLe(f, at, n) = LoadLe(g, at, n)
  PROVE  \A j \in at + 1 .. at + n : f[j] = g[j]
<1>1. Eight(f, at, n) \in [0 .. 7 -> Byte] /\ Eight(g, at, n) \in [0 .. 7 -> Byte]
  BY EightType
<1>2. Eight(f, at, n) = Eight(g, at, n)
  BY <1>1, PackLaw DEF LoadLe, Eight
<1>3. \A i \in 0 .. 7 : i < n => f[at + i + 1] = g[at + i + 1]
  BY <1>2, SMT DEF Eight
<1>4. SUFFICES ASSUME NEW j \in at + 1 .. at + n PROVE f[j] = g[j]
  OBVIOUS
<1>5. j - at - 1 \in 0 .. 7 /\ j - at - 1 < n /\ at + (j - at - 1) + 1 = j
  BY SMT
<1>6. QED
  BY <1>3, <1>5

(* Equal on 1..l is equal.                                                 *)
LEMMA SameBytes ==
  ASSUME NEW size \in Nat, NEW f \in [1 .. size -> Byte], NEW g \in [1 .. size -> Byte],
         \A j \in 1 .. size : f[j] = g[j]
  PROVE  f = g
OBVIOUS

(* 8..16 bytes: two loads of eight, the second up to the end.              *)
LEMMA LongWordsTell ==
  ASSUME NEW f \in Inputs, NEW g \in Inputs, Len(f) = Len(g), Len(f) >= 8
  PROVE  /\ LongWords(f) \in Word \X Word
         /\ LongWords(f) = LongWords(g) => f = g
<1> DEFINE size == Len(f)
<1>0. Len(f) \in 0 .. 16
  BY InputFacts DEF MaxShort
<1>1. /\ size \in Nat /\ size <= 16 /\ size >= 8 /\ Len(g) = size
      /\ f \in [1 .. size -> Byte] /\ g \in [1 .. size -> Byte]
  <2>1. f \in [1 .. size -> Byte] /\ g \in [1 .. size -> Byte] /\ Len(g) = size
    BY InputFacts
  <2>2. size \in Nat /\ size <= 16 /\ size >= 8
    BY <1>0, Bands
  <2>3. QED
    BY <2>1, <2>2
<1> HIDE DEF size
<1>2. /\ 0 \in Nat /\ size - 8 \in Nat /\ 8 \in 0 .. 8 /\ 8 \in Nat
      /\ 0 + 8 <= size /\ (size - 8) + 8 <= size
  BY <1>1, SMT
<1>3. LongWords(f) = << LoadLe(f, 0, 8), LoadLe(f, size - 8, 8) >>
  BY DEF LongWords, load64le, size
<1>4. LongWords(g) = << LoadLe(g, 0, 8), LoadLe(g, size - 8, 8) >>
  BY <1>1 DEF LongWords, load64le
<1>5. LoadLe(f, 0, 8) \in Word /\ LoadLe(f, size - 8, 8) \in Word
  BY <1>1, <1>2, LoadType
<1>6. ASSUME LongWords(f) = LongWords(g) PROVE f = g
  <2>1. LoadLe(f, 0, 8) = LoadLe(g, 0, 8) /\ LoadLe(f, size - 8, 8) = LoadLe(g, size - 8, 8)
    BY <1>3, <1>4, <1>6
  <2>2. \A j \in 0 + 1 .. 0 + 8 : f[j] = g[j]
    BY <1>1, <1>2, <2>1, LoadTells
  <2>3. \A j \in (size - 8) + 1 .. (size - 8) + 8 : f[j] = g[j]
    BY <1>1, <1>2, <2>1, LoadTells
  <2>4. ASSUME NEW j \in 1 .. size PROVE f[j] = g[j]
    <3>1. j \in 0 + 1 .. 0 + 8 \/ j \in (size - 8) + 1 .. (size - 8) + 8
      BY <1>1, SMT
    <3>2. QED
      BY <2>2, <2>3, <3>1
  <2>5. QED
    BY <1>1, <2>4, SameBytes
<1>7. QED
  BY <1>3, <1>5, <1>6

(* 4..7 bytes: two loads of four.                                          *)
LEMMA MidWordsTell ==
  ASSUME NEW f \in Inputs, NEW g \in Inputs, Len(f) = Len(g), Len(f) \in 4 .. 7
  PROVE  /\ MidWords(f) \in Word \X Word
         /\ MidWords(f) = MidWords(g) => f = g
<1> DEFINE size == Len(f)
<1>0. Len(f) \in 0 .. 16
  BY InputFacts DEF MaxShort
<1>1. /\ size \in Nat /\ size <= 7 /\ size >= 4 /\ Len(g) = size
      /\ f \in [1 .. size -> Byte] /\ g \in [1 .. size -> Byte]
  <2>1. f \in [1 .. size -> Byte] /\ g \in [1 .. size -> Byte] /\ Len(g) = size
    BY InputFacts
  <2>2. size \in Nat /\ size <= 7 /\ size >= 4
    BY <1>0, Bands
  <2>3. QED
    BY <2>1, <2>2
<1> HIDE DEF size
<1>2. /\ 0 \in Nat /\ size - 4 \in Nat /\ 4 \in 0 .. 8 /\ 4 \in Nat
      /\ 0 + 4 <= size /\ (size - 4) + 4 <= size
  BY <1>1, SMT
<1>3. MidWords(f) = << LoadLe(f, 0, 4), LoadLe(f, size - 4, 4) >>
  BY DEF MidWords, load32le, size
<1>4. MidWords(g) = << LoadLe(g, 0, 4), LoadLe(g, size - 4, 4) >>
  BY <1>1 DEF MidWords, load32le
<1>5. LoadLe(f, 0, 4) \in Word /\ LoadLe(f, size - 4, 4) \in Word
  BY <1>1, <1>2, LoadType
<1>6. ASSUME MidWords(f) = MidWords(g) PROVE f = g
  <2>1. LoadLe(f, 0, 4) = LoadLe(g, 0, 4) /\ LoadLe(f, size - 4, 4) = LoadLe(g, size - 4, 4)
    BY <1>3, <1>4, <1>6
  <2>2. \A j \in 0 + 1 .. 0 + 4 : f[j] = g[j]
    BY <1>1, <1>2, <2>1, LoadTells
  <2>3. \A j \in (size - 4) + 1 .. (size - 4) + 4 : f[j] = g[j]
    BY <1>1, <1>2, <2>1, LoadTells
  <2>4. ASSUME NEW j \in 1 .. size PROVE f[j] = g[j]
    <3>1. j \in 0 + 1 .. 0 + 4 \/ j \in (size - 4) + 1 .. (size - 4) + 4
      BY <1>1, SMT
    <3>2. QED
      BY <2>2, <2>3, <3>1
  <2>5. QED
    BY <1>1, <2>4, SameBytes
<1>7. QED
  BY <1>3, <1>5, <1>6

(* 1..3 bytes: first, middle and last are all there are.                   *)
MiddleAndLast(f, size) ==
  [i \in 0 .. 7 |-> CASE i = 1 -> f[Middle(size) + 1] [] i = 2 -> f[size] [] OTHER -> ZeroByte]

LEMMA FewWordsTell ==
  ASSUME NEW f \in Inputs, NEW g \in Inputs, Len(f) = Len(g), Len(f) \in 1 .. 3
  PROVE  /\ FewWords(f) \in Word \X Word
         /\ FewWords(f) = FewWords(g) => f = g
<1> DEFINE size == Len(f)
<1>1. /\ size \in {1, 2, 3} /\ size \in Nat /\ Len(g) = size
      /\ f \in [1 .. size -> Byte] /\ g \in [1 .. size -> Byte]
  BY InputFacts, SMT
<1> HIDE DEF size
<1>2. 0 \in Nat /\ 1 \in 0 .. 8 /\ 1 \in Nat /\ 0 + 1 <= size
  BY <1>1, SMT
<1>3. /\ Middle(size) + 1 \in 1 .. size /\ size \in 1 .. size
      /\ \A j \in 1 .. size : j = 1 \/ j = Middle(size) + 1 \/ j = size
  BY <1>1, SMT DEF Middle
<1>4. FewWords(f) = << LoadLe(f, 0, 1), Pack(MiddleAndLast(f, size)) >>
  BY DEF FewWords, MiddleAndLast, size
<1>5. FewWords(g) = << LoadLe(g, 0, 1), Pack(MiddleAndLast(g, size)) >>
  BY <1>1 DEF FewWords, MiddleAndLast
<1>6. ASSUME NEW r \in [1 .. size -> Byte]
      PROVE  /\ MiddleAndLast(r, size) \in [0 .. 7 -> Byte]
             /\ MiddleAndLast(r, size)[1] = r[Middle(size) + 1]
             /\ MiddleAndLast(r, size)[2] = r[size]
  <2>1. r[Middle(size) + 1] \in Byte /\ r[size] \in Byte /\ ZeroByte \in Byte
    BY <1>3, PackLaw
  <2>2. MiddleAndLast(r, size) =
          [i \in 0 .. 7 |-> IF i = 1 THEN r[Middle(size) + 1]
                           ELSE IF i = 2 THEN r[size] ELSE ZeroByte]
    BY SMT DEF MiddleAndLast
  <2>3. MiddleAndLast(r, size) \in [0 .. 7 -> Byte]
    BY <2>1, <2>2
  <2>4. 1 \in 0 .. 7 /\ 2 \in 0 .. 7 /\ 2 # 1
    BY SMT
  <2>5. QED
    BY <2>2, <2>3, <2>4
<1>7. LoadLe(f, 0, 1) \in Word
  BY <1>1, <1>2, LoadType
<1>8. Pack(MiddleAndLast(f, size)) \in Word
  BY <1>1, <1>6, PackLaw
<1>9. ASSUME FewWords(f) = FewWords(g) PROVE f = g
  <2>1. /\ LoadLe(f, 0, 1) = LoadLe(g, 0, 1)
        /\ Pack(MiddleAndLast(f, size)) = Pack(MiddleAndLast(g, size))
    BY <1>4, <1>5, <1>9
  <2>2. \A j \in 0 + 1 .. 0 + 1 : f[j] = g[j]
    BY <1>1, <1>2, <2>1, LoadTells
  <2>3. MiddleAndLast(f, size) = MiddleAndLast(g, size)
    BY <1>1, <1>6, <2>1, PackLaw
  <2>4. f[Middle(size) + 1] = g[Middle(size) + 1] /\ f[size] = g[size]
    BY <1>1, <1>6, <2>3
  <2>5. f[1] = g[1]
    BY <2>2, SMT
  <2>6. \A j \in 1 .. size : f[j] = g[j]
    BY <1>3, <2>4, <2>5
  <2>7. QED
    BY <1>1, <2>6, SameBytes
<1>10. QED
  BY <1>4, <1>7, <1>8, <1>9

(* Of one length, the two words tell the input.                            *)
LEMMA LoadedTells ==
  ASSUME NEW f \in Inputs, NEW g \in Inputs, Len(f) = Len(g)
  PROVE  Loaded(f) \in Word \X Word /\ (Loaded(f) = Loaded(g) => f = g)
<1>1. Len(f) \in 0 .. 16
  BY InputFacts DEF MaxShort
<1>2. CASE Len(f) >= 8
  <2>0. Len(f) \notin 4 .. 7 /\ Len(f) \notin 1 .. 3 /\ Len(f) # 0
    BY <1>1, <1>2, Bands
  <2>1. Loaded(f) = LongWords(f) /\ Loaded(g) = LongWords(g)
    BY <1>2, <2>0, Zenon DEF Loaded
  <2>2. QED
    BY <1>2, <2>1, LongWordsTell
<1>3. CASE Len(f) \in 4 .. 7
  <2>0. ~(Len(f) >= 8) /\ Len(f) \notin 1 .. 3 /\ Len(f) # 0
    BY <1>1, <1>3, Bands
  <2>1. Loaded(f) = MidWords(f) /\ Loaded(g) = MidWords(g)
    BY <1>3, <2>0, Zenon DEF Loaded
  <2>2. QED
    BY <1>3, <2>1, MidWordsTell
<1>4. CASE Len(f) \in 1 .. 3
  <2>1. Loaded(f) = FewWords(f) /\ Loaded(g) = FewWords(g)
    BY <1>4, SMT DEF Loaded
  <2>2. QED
    BY <1>4, <2>1, FewWordsTell
<1>5. CASE Len(f) = 0
  <2>1. Loaded(f) = NoWords
    BY <1>5, SMT DEF Loaded
  <2>2. [i \in 0 .. 7 |-> ZeroByte] \in [0 .. 7 -> Byte]
    BY PackLaw
  <2>3. NoWords \in Word \X Word
    BY <2>2, PackLaw DEF NoWords
  <2>4. f = g
    <3>1. f \in [1 .. 0 -> Byte] /\ g \in [1 .. 0 -> Byte] /\ 0 \in Nat
      BY <1>5, InputFacts
    <3>2. \A j \in 1 .. 0 : f[j] = g[j]
      BY SMT
    <3>3. QED
      BY <3>1, <3>2, SameBytes
  <2>5. QED
    BY <2>1, <2>3, <2>4
<1>6. Len(f) >= 8 \/ Len(f) \in 4 .. 7 \/ Len(f) \in 1 .. 3 \/ Len(f) = 0
  BY <1>1, Bands
<1>7. QED
  BY <1>2, <1>3, <1>4, <1>5, <1>6

-----------------------------------------------------------------------------
(***************************************************************************)
(* Mixing.                                                                 *)
(***************************************************************************)

(* One side of the multiplication: a word c that stands for the rest.      *)
LEMMA SideTells ==
  ASSUME NEW i \in Word, NEW j \in Word, NEW c \in Word, NEW d \in Word, NEW e \in Word,
         NEW k \in {K, M1, M2, N1, N2}
  PROVE  /\ Times(Xor(Xor(i, c), e), k) \in Word
         /\ Times(Xor(Xor(i, c), e), k) = Times(Xor(Xor(j, c), e), k) => i = j
         /\ Times(Xor(Xor(i, c), e), k) = Times(Xor(Xor(i, d), e), k) => c = d
<1>1. /\ Xor(i, c) \in Word /\ Xor(j, c) \in Word /\ Xor(i, d) \in Word /\ k \in Word
  BY ClosedLaw, TimesLaw
<1>2. /\ Xor(Xor(i, c), e) \in Word /\ Xor(Xor(j, c), e) \in Word
      /\ Xor(Xor(i, d), e) \in Word
  BY <1>1, ClosedLaw
<1>3. Times(Xor(Xor(i, c), e), k) \in Word
  BY <1>1, <1>2, ClosedLaw
<1>4. ASSUME Times(Xor(Xor(i, c), e), k) = Times(Xor(Xor(j, c), e), k) PROVE i = j
  <2>1. Xor(Xor(i, c), e) = Xor(Xor(j, c), e)
    BY <1>2, <1>4, TimesRight
  <2>2. Xor(i, c) = Xor(j, c)
    BY <1>1, <2>1, XorRight
  <2>3. QED
    BY <2>2, XorRight
<1>5. ASSUME Times(Xor(Xor(i, c), e), k) = Times(Xor(Xor(i, d), e), k) PROVE c = d
  <2>1. Xor(Xor(i, c), e) = Xor(Xor(i, d), e)
    BY <1>2, <1>5, TimesRight
  <2>2. Xor(i, c) = Xor(i, d)
    BY <1>1, <2>1, XorRight
  <2>3. QED
    BY <2>2, XorLeft
<1>6. QED
  BY <1>3, <1>4, <1>5

(* Under one seed the products tell the words, and over the same words the *)
(* first product tells the seed.                                           *)
LEMMA MultipliedTells ==
  ASSUME NEW a \in Word, NEW b \in Word, NEW c \in Word, NEW d \in Word,
         NEW s \in Word, NEW t \in Word
  PROVE  /\ Multiplied(a, b, s) \in Word \X Word
         /\ Multiplied(a, b, s) = Multiplied(c, d, s) => a = c /\ b = d
         /\ Multiplied(a, b, s) = Multiplied(a, b, t) => s = t
<1> DEFINE S == Xor(s, K)  T == Xor(t, K)  R == Rotl(S, 23)  L == Shr(K, 19)
           x(i, z) == Times(Xor(Xor(i, z), K), K)
           y(i, z) == Times(Xor(Xor(i, z), L), M1)
<1>1. K \in Word /\ K \in {K, M1, M2, N1, N2} /\ M1 \in {K, M1, M2, N1, N2}
  BY TimesLaw
<1>2. S \in Word /\ T \in Word /\ R \in Word /\ L \in Word
  BY <1>1, ClosedLaw, ShiftLaw
<1>3. /\ Multiplied(a, b, s) = << x(inj(a), S), y(inj2(b), R) >>
      /\ Multiplied(c, d, s) = << x(inj(c), S), y(inj2(d), R) >>
  BY DEF Multiplied
<1>4. Multiplied(a, b, t) = << x(inj(a), T), y(inj2(b), Rotl(T, 23)) >>
  BY DEF Multiplied
<1>5. /\ inj(a) \in Word /\ inj(c) \in Word /\ (inj(a) = inj(c) => a = c)
      /\ inj2(b) \in Word /\ inj2(d) \in Word /\ (inj2(b) = inj2(d) => b = d)
  BY InjTells
<1>6. S = T => s = t
  BY <1>1, XorRight
<1> HIDE DEF S, T, R, L
<1>7. /\ x(inj(a), S) \in Word
      /\ x(inj(a), S) = x(inj(c), S) => inj(a) = inj(c)
      /\ x(inj(a), S) = x(inj(a), T) => S = T
  BY <1>1, <1>2, <1>5, SideTells
<1>8. /\ y(inj2(b), R) \in Word
      /\ y(inj2(b), R) = y(inj2(d), R) => inj2(b) = inj2(d)
  BY <1>1, <1>2, <1>5, SideTells
<1> HIDE DEF x, y
<1>9. QED
  BY <1>3, <1>4, <1>5, <1>6, <1>7, <1>8

(* (u, x) is a bijection of (x, y) for a length, and over the same (x, y)  *)
(* u tells the length.                                                     *)
LEMMA FoldedTells ==
  ASSUME NEW x \in Word, NEW y \in Word, NEW z \in Word, NEW w \in Word,
         NEW m \in 0 .. MaxShort, NEW n \in 0 .. MaxShort
  PROVE  /\ FoldedWords(x, y, m) \in Word \X Word
         /\ FoldedWords(x, y, m) = FoldedWords(z, w, m) => x = z /\ y = w
         /\ FoldedWords(x, y, m) = FoldedWords(x, y, n) => m = n
<1> DEFINE r == Rotl(x, 27)  a == lenmix(m)  b == lenmix(n)
<1>1. r \in Word /\ a \in Word /\ b \in Word /\ (a = b => m = n)
  BY ShiftLaw, LenmixTells
<1>2. /\ FoldedWords(x, y, m) = << Xor(Xor(r, y), a), x >>
      /\ FoldedWords(x, y, n) = << Xor(Xor(r, y), b), x >>
      /\ FoldedWords(z, w, m) = << Xor(Xor(Rotl(z, 27), w), a), z >>
  BY DEF FoldedWords
<1>3. x = z => Rotl(z, 27) = r
  OBVIOUS
<1> HIDE DEF r, a, b
<1>4. Xor(r, y) \in Word /\ Xor(r, w) \in Word
  BY <1>1, ClosedLaw
<1>5. Xor(Xor(r, y), a) \in Word
  BY <1>1, <1>4, ClosedLaw
<1>6. ASSUME FoldedWords(x, y, m) = FoldedWords(z, w, m) PROVE x = z /\ y = w
  <2>1. x = z /\ Xor(Xor(r, y), a) = Xor(Xor(r, w), a)
    BY <1>2, <1>3, <1>6
  <2>2. Xor(r, y) = Xor(r, w)
    BY <1>1, <1>4, <2>1, XorRight
  <2>3. QED
    BY <1>1, <2>1, <2>2, XorLeft
<1>7. ASSUME FoldedWords(x, y, m) = FoldedWords(x, y, n) PROVE m = n
  <2>1. Xor(Xor(r, y), a) = Xor(Xor(r, y), b)
    BY <1>2, <1>7
  <2>2. QED
    BY <1>1, <1>4, <2>1, XorLeft
<1>8. QED
  BY <1>2, <1>5, <1>6, <1>7

(* The two finalizers together.                                            *)
LEMMA FinalizedTells ==
  ASSUME NEW u \in Word, NEW x \in Word, NEW v \in Word, NEW z \in Word
  PROVE  /\ Finalized(u, x) \in Word \X Word
         /\ Finalized(u, x) = Finalized(v, z) => u = v /\ x = z
<1>1. Rotl(u, 32) \in Word /\ Rotl(v, 32) \in Word
  BY ShiftLaw
<1>2. Plus(x, Rotl(u, 32)) \in Word /\ Plus(z, Rotl(v, 32)) \in Word
  BY <1>1, ClosedLaw
<1>3. /\ fmix(u) \in Word /\ (fmix(u) = fmix(v) => u = v)
      /\ fmix128(Plus(x, Rotl(u, 32))) \in Word
      /\ fmix128(Plus(x, Rotl(u, 32))) = fmix128(Plus(z, Rotl(v, 32)))
           => Plus(x, Rotl(u, 32)) = Plus(z, Rotl(v, 32))
  BY <1>2, FmixTells, Fmix128Tells
<1>4. ASSUME Finalized(u, x) = Finalized(v, z) PROVE u = v /\ x = z
  <2>1. u = v /\ Plus(x, Rotl(u, 32)) = Plus(z, Rotl(v, 32))
    BY <1>3, <1>4 DEF Finalized
  <2>2. Plus(x, Rotl(u, 32)) = Plus(z, Rotl(u, 32))
    BY <2>1
  <2>3. QED
    BY <1>1, <2>1, <2>2, PlusRight
<1>5. QED
  BY <1>3, <1>4 DEF Finalized

-----------------------------------------------------------------------------
(***************************************************************************)
(* The invariant.                                                          *)
(***************************************************************************)

(* What the invariant says of the two computations.                        *)
LEMMA Given ==
  ASSUME PairInv
  PROVE  /\ inputs \in [1 .. 2 -> Inputs] /\ inputs[1] \in Inputs /\ inputs[2] \in Inputs
         /\ seeds[1] \in Word /\ seeds[2] \in Word
         /\ Len(inputs[1]) \in 0 .. MaxShort /\ Len(inputs[2]) \in 0 .. MaxShort
         /\ 1 \in 1 .. 2 /\ 2 \in 1 .. 2
<1>1. 1 \in 1 .. 2 /\ 2 \in 1 .. 2
  BY SMT
<1>2. /\ inputs \in [1 .. 2 -> Inputs] /\ inputs[1] \in Inputs /\ inputs[2] \in Inputs
      /\ seeds[1] \in Seeds /\ seeds[2] \in Seeds
  BY <1>1 DEF PairInv
<1>3. QED
  BY <1>1, <1>2, InputFacts, InputsAssumption

LEMMA PairInitEstablishes == PairInit => PairInv
BY DEF PairInit, PairInv, NeverMerge

(* A pair is its two words.                                                *)
LEMMA Pairs ==
  ASSUME NEW r \in Word \X Word
  PROVE  r[1] \in Word /\ r[2] \in Word /\ r = << r[1], r[2] >>
OBVIOUS

LEMMA StepFacts ==
  ASSUME PairInv, NEW from, NEW to, NEW words, Step(from, to, words)
  PROVE  /\ stage = from /\ stage' = to /\ held' = words
         /\ inputs' = inputs /\ seeds' = seeds
         /\ inputs' \in [1 .. 2 -> Inputs] /\ seeds' \in [1 .. 2 -> Seeds]
         /\ Related /\ Related' /\ (SameLength' <=> SameLength)
<1>1. /\ stage = from /\ stage' = to /\ held' = words
      /\ inputs' = inputs /\ seeds' = seeds
  BY DEF Step
<1>2. Related' /\ (SameLength' <=> SameLength)
  BY <1>1 DEF PairInv, Related, SameLength
<1>3. QED
  BY <1>1, <1>2 DEF PairInv

LEMMA LoadPreserves ==
  ASSUME PairInv, Load
  PROVE  PairInv'
<1> DEFINE words == [k \in 1 .. 2 |-> Loaded(inputs[k])]
<1>1. Step("called", "loaded", words)
  BY DEF Load
<1>2. \A k \in 1 .. 2 : Loaded(inputs[k]) \in Word \X Word
  BY Given, LoadedTells
<1>3. words \in [1 .. 2 -> Word \X Word]
  BY <1>2
<1> HIDE DEF words
<1>4. /\ stage' = "loaded" /\ held' = words /\ inputs' = inputs
      /\ inputs' \in [1 .. 2 -> Inputs] /\ seeds' \in [1 .. 2 -> Seeds] /\ Related'
  BY <1>1, StepFacts
<1>5. \A k \in 1 .. 2 : held'[k] = Loaded(inputs'[k])
  BY <1>4 DEF words
<1>6. QED
  BY <1>3, <1>4, <1>5 DEF PairInv, NeverMerge

LEMMA MultiplyPreserves ==
  ASSUME PairInv, Multiply
  PROVE  PairInv'
<1> DEFINE words == [k \in 1 .. 2 |-> Multiplied(held[k][1], held[k][2], seeds[k])]
           f == inputs[1]  g == inputs[2]  a == held[1]  b == held[2]
           s == seeds[1]   t == seeds[2]
<1>1. Step("loaded", "multiplied", words)
  BY DEF Multiply
<1>2. /\ stage = "loaded" /\ stage' = "multiplied" /\ held' = words /\ inputs' = inputs
      /\ inputs' \in [1 .. 2 -> Inputs] /\ seeds' \in [1 .. 2 -> Seeds]
      /\ Related /\ Related' /\ (SameLength' <=> SameLength)
  BY <1>1, StepFacts
<1>3. /\ f \in Inputs /\ g \in Inputs /\ s \in Word /\ t \in Word
      /\ 1 \in 1 .. 2 /\ 2 \in 1 .. 2
  BY Given
<1>4. a \in Word \X Word /\ b \in Word \X Word /\ a = Loaded(f) /\ b = Loaded(g)
  BY <1>2, <1>3 DEF PairInv
<1>5. /\ a[1] \in Word /\ a[2] \in Word /\ a = << a[1], a[2] >>
      /\ b[1] \in Word /\ b[2] \in Word /\ b = << b[1], b[2] >>
  BY <1>4, Pairs
<1>6. words[1] = Multiplied(a[1], a[2], s) /\ words[2] = Multiplied(b[1], b[2], t)
  BY <1>3
<1>7. words[1] \in Word \X Word /\ words[2] \in Word \X Word
  BY <1>3, <1>5, <1>6, MultipliedTells
<1>8. words \in [1 .. 2 -> Word \X Word]
  <2>1. \A k \in 1 .. 2 : k = 1 \/ k = 2
    BY SMT
  <2>2. words = [k \in 1 .. 2 |-> words[k]]
    OBVIOUS
  <2>3. QED
    BY <1>7, <2>1, <2>2
<1>9. SameLength <=> words[1] # words[2]
  <2>1. CASE Len(f) = Len(g) /\ f # g /\ s = t
    <3>1. a # b
      BY <1>3, <1>4, <2>1, LoadedTells
    <3>2. ~(a[1] = b[1] /\ a[2] = b[2])
      BY <1>5, <3>1
    <3>3. words[1] = Multiplied(a[1], a[2], s) /\ words[2] = Multiplied(b[1], b[2], s)
      BY <1>6, <2>1
    <3>4. Multiplied(a[1], a[2], s) # Multiplied(b[1], b[2], s)
      <4> HIDE DEF a, b, s, words
      <4> QED
        BY <1>3, <1>5, <3>2, MultipliedTells
    <3>5. QED
      BY <2>1, <3>3, <3>4 DEF SameLength
  <2>2. CASE f = g /\ s # t
    <3>1. a = b
      BY <1>4, <2>2
    <3>2. words[1] = Multiplied(a[1], a[2], s) /\ words[2] = Multiplied(a[1], a[2], t)
      BY <1>6, <3>1
    <3>3. Multiplied(a[1], a[2], s) # Multiplied(a[1], a[2], t)
      <4> HIDE DEF a, s, t, words
      <4> QED
        BY <1>3, <1>5, <2>2, MultipliedTells
    <3>4. QED
      BY <2>2, <3>2, <3>3 DEF SameLength
  <2>3. CASE Len(f) # Len(g) /\ Loaded(f) = Loaded(g) /\ s = t
    BY <1>4, <1>6, <2>3 DEF SameLength
  <2>4. QED
    BY <1>2, <2>1, <2>2, <2>3 DEF Related
<1> HIDE DEF words
<1>10. held'[1] # held'[2] <=> words[1] # words[2]
  BY <1>2
<1>11. QED
  BY <1>2, <1>8, <1>9, <1>10 DEF PairInv, NeverMerge

LEMMA FoldPreserves ==
  ASSUME PairInv, FoldWords
  PROVE  PairInv'
<1> DEFINE words == [k \in 1 .. 2 |-> FoldedWords(held[k][1], held[k][2], Len(inputs[k]))]
           m == Len(inputs[1])  n == Len(inputs[2])  a == held[1]  b == held[2]
<1>1. Step("multiplied", "folded", words)
  BY DEF FoldWords
<1>2. /\ stage = "multiplied" /\ stage' = "folded" /\ held' = words
      /\ inputs' \in [1 .. 2 -> Inputs] /\ seeds' \in [1 .. 2 -> Seeds] /\ Related'
  BY <1>1, StepFacts
<1>3. m \in 0 .. MaxShort /\ n \in 0 .. MaxShort /\ 1 \in 1 .. 2 /\ 2 \in 1 .. 2
  BY Given
<1>4. a \in Word \X Word /\ b \in Word \X Word /\ (m = n <=> a # b)
  BY <1>2, <1>3 DEF PairInv, SameLength
<1>5. /\ a[1] \in Word /\ a[2] \in Word /\ a = << a[1], a[2] >>
      /\ b[1] \in Word /\ b[2] \in Word /\ b = << b[1], b[2] >>
  BY <1>4, Pairs
<1>6. words[1] = FoldedWords(a[1], a[2], m) /\ words[2] = FoldedWords(b[1], b[2], n)
  BY <1>3
<1>7. words[1] \in Word \X Word /\ words[2] \in Word \X Word
  BY <1>3, <1>5, <1>6, FoldedTells
<1>8. words \in [1 .. 2 -> Word \X Word]
  <2>1. \A k \in 1 .. 2 : k = 1 \/ k = 2
    BY SMT
  <2>2. words = [k \in 1 .. 2 |-> words[k]]
    OBVIOUS
  <2>3. QED
    BY <1>7, <2>1, <2>2
<1>9. words[1] # words[2]
  <2>1. CASE m = n
    <3>1. ~(a[1] = b[1] /\ a[2] = b[2])
      BY <1>4, <1>5, <2>1
    <3>2. words[1] = FoldedWords(a[1], a[2], m) /\ words[2] = FoldedWords(b[1], b[2], m)
      BY <1>6, <2>1
    <3>3. FoldedWords(a[1], a[2], m) # FoldedWords(b[1], b[2], m)
      <4> HIDE DEF a, b, m, words
      <4> QED
        BY <1>3, <1>5, <3>1, FoldedTells
    <3>4. QED
      BY <3>2, <3>3
  <2>2. CASE m # n
    <3>1. a = b
      BY <1>4, <2>2
    <3>2. words[1] = FoldedWords(a[1], a[2], m) /\ words[2] = FoldedWords(a[1], a[2], n)
      BY <1>6, <3>1
    <3>3. FoldedWords(a[1], a[2], m) # FoldedWords(a[1], a[2], n)
      <4> HIDE DEF a, m, n, words
      <4> QED
        BY <1>3, <1>5, <2>2, FoldedTells
    <3>4. QED
      BY <3>2, <3>3
  <2>3. QED
    BY <2>1, <2>2
<1> HIDE DEF words
<1>10. QED
  BY <1>2, <1>8, <1>9 DEF PairInv, NeverMerge

LEMMA FinalizePreserves ==
  ASSUME PairInv, Finalize
  PROVE  PairInv'
<1> DEFINE words == [k \in 1 .. 2 |-> Finalized(held[k][1], held[k][2])]
           a == held[1]  b == held[2]
<1>1. Step("folded", "done", words)
  BY DEF Finalize
<1>2. /\ stage = "folded" /\ stage' = "done" /\ held' = words
      /\ inputs' \in [1 .. 2 -> Inputs] /\ seeds' \in [1 .. 2 -> Seeds] /\ Related'
  BY <1>1, StepFacts
<1>3. 1 \in 1 .. 2 /\ 2 \in 1 .. 2
  BY Given
<1>4. a \in Word \X Word /\ b \in Word \X Word /\ a # b
  BY <1>2, <1>3 DEF PairInv, NeverMerge
<1>5. /\ a[1] \in Word /\ a[2] \in Word /\ a = << a[1], a[2] >>
      /\ b[1] \in Word /\ b[2] \in Word /\ b = << b[1], b[2] >>
  BY <1>4, Pairs
<1>6. words[1] = Finalized(a[1], a[2]) /\ words[2] = Finalized(b[1], b[2])
  BY <1>3
<1>7. words[1] \in Word \X Word /\ words[2] \in Word \X Word
  BY <1>5, <1>6, FinalizedTells
<1>8. words \in [1 .. 2 -> Word \X Word]
  <2>1. \A k \in 1 .. 2 : k = 1 \/ k = 2
    BY SMT
  <2>2. words = [k \in 1 .. 2 |-> words[k]]
    OBVIOUS
  <2>3. QED
    BY <1>7, <2>1, <2>2
<1>9. words[1] # words[2]
  BY <1>4, <1>5, <1>6, FinalizedTells
<1> HIDE DEF words
<1>10. QED
  BY <1>2, <1>8, <1>9 DEF PairInv, NeverMerge

LEMMA PairNextPreserves == PairInv /\ [PairNext]_pairVars => PairInv'
<1> SUFFICES ASSUME PairInv, [PairNext]_pairVars PROVE PairInv'
  OBVIOUS
<1>1. CASE Load \/ Multiply \/ FoldWords \/ Finalize
  BY <1>1, LoadPreserves, MultiplyPreserves, FoldPreserves, FinalizePreserves
<1>2. CASE UNCHANGED pairVars
  BY <1>2, Zenon DEF pairVars, PairInv, Related, SameLength, NeverMerge
<1>3. QED
  BY <1>1, <1>2 DEF PairNext

(* On the path of 0..16 bytes of hayahash128 a difference of bytes, seed or*)
(* length survives every step, where the invariant says it is.             *)
THEOREM PairsInductive == PairSpec => []PairInv
<1>1. PairInv /\ [PairNext]_pairVars => PairInv'
  BY PairNextPreserves
<1>2. QED
  BY PairInitEstablishes, <1>1, PTL DEF PairSpec

(* No two short inputs of a length, no two seeds, and no two lengths that  *)
(* load the same words share both digest words.                            *)
THEOREM ShortDigestsTell == PairSpec => []NeverMerge
<1>1. PairInv => NeverMerge
  BY DEF PairInv
<1>2. QED
  BY PairsInductive, <1>1, PTL
=============================================================================
