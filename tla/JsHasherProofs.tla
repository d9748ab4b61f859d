--------------------------- MODULE JsHasherProofs ---------------------------
(***************************************************************************)
(* Proofs about JsHasher, for any number of hashers, engines and bytes and *)
(* any page, state, digest and chunk size: no call sees what another left  *)
(* in scratch memory, and none fails because memory has moved.             *)
(***************************************************************************)
EXTENDS JsHasher, SequenceTheorems, TLAPS

LEMMA SizeFacts ==
  /\ MaxLen \in Nat \ {0} /\ Page \in Nat \ {0} /\ StateSize \in Nat \ {0}
  /\ OutSize \in Nat \ {0} /\ InitPages \in Nat \ {0} /\ MaxPages \in Nat \ {0}
  /\ HeapBase \in Nat /\ InitPages <= MaxPages /\ Lengths \subseteq Nat
  /\ OneShots \subseteq Nat
BY JsAssumption

(***************************************************************************)
(* Functions on 1 .. n as sequences.                                       *)
(***************************************************************************)
LEMMA FunctionIsSeq ==
  ASSUME NEW n \in Nat, NEW S, NEW f \in [1 .. n -> S]
  PROVE  f \in Seq(S) /\ Len(f) = n /\ DOMAIN f = 1 .. n
BY SMT

(* A run of cells.                                                         *)
Run(c, n) == c = [k \in 1 .. n |-> c[k]] /\ Len(c) = n

LEMMA MakeRun ==
  ASSUME NEW n \in Nat, NEW c, c = [k \in 1 .. n |-> c[k]]
  PROVE  Run(c, n)
<1> DEFINE S == {c[k] : k \in 1 .. n}
<1>1. c \in [1 .. n -> S]
  <2>1. \A k \in 1 .. n : c[k] \in S
    OBVIOUS
  <2> HIDE DEF S
  <2>2. [k \in 1 .. n |-> c[k]] \in [1 .. n -> S]
    BY <2>1
  <2>3. QED
    BY <2>2
<1> HIDE DEF S
<1>2. Len(c) = n
  BY <1>1, FunctionIsSeq
<1>3. QED
  BY <1>2 DEF Run

LEMMA SeqIsRun ==
  ASSUME NEW S, NEW c \in Seq(S)
  PROVE  Run(c, Len(c)) /\ Len(c) \in Nat
<1>1. Len(c) \in Nat /\ c \in [1 .. Len(c) -> S]
  BY LenProperties
<1>2. c = [k \in 1 .. Len(c) |-> c[k]]
  BY <1>1
<1>3. QED
  BY <1>1, <1>2, MakeRun

(***************************************************************************)
(* Linear memory.                                                          *)
(***************************************************************************)

(* A memory has a cell at every address, used or not.                      *)
Limit == Page * MaxPages
Laid(mem) == mem = [a \in 0 .. Limit - 1 |-> mem[a]]

LEMMA LimitType == Limit \in Nat
BY SizeFacts, SMT DEF Limit

LEMMA WriteLaid ==
  ASSUME NEW mem, Laid(mem), NEW p, NEW c
  PROVE  Laid(Write(mem, p, c))
<1> DEFINE w(a) == IF a \in p .. p + Len(c) - 1 THEN c[a - p + 1] ELSE mem[a]
<1>1. DOMAIN mem = 0 .. Limit - 1
  BY DEF Laid
<1>2. Write(mem, p, c) = [a \in 0 .. Limit - 1 |-> w(a)]
  BY <1>1 DEF Write
<1> HIDE DEF w
<1>3. QED
  BY <1>2 DEF Laid

LEMMA PagesBound ==
  ASSUME NEW x \in Nat, x <= MaxPages
  PROVE  Page * x \in Nat /\ Page * x <= Limit
BY SizeFacts, SMT DEF Limit

(* What is written is read back.                                           *)
LEMMA ReadBack ==
  ASSUME NEW mem, Laid(mem), NEW p \in Nat, NEW n \in Nat, NEW c, Run(c, n),
         p + n <= Limit
  PROVE  Read(Write(mem, p, c), p, n) = c
<1>1. DOMAIN mem = 0 .. Limit - 1 /\ Len(c) = n
  BY DEF Laid, Run
<1>2. ASSUME NEW k \in 1 .. n
      PROVE  Write(mem, p, c)[p + k - 1] = c[k]
  <2>1. /\ p + k - 1 \in 0 .. Limit - 1 /\ p + k - 1 \in p .. p + n - 1
        /\ (p + k - 1) - p + 1 = k
    BY LimitType, SMT
  <2>2. QED
    BY <1>1, <2>1, Zenon DEF Write
<1>3. Read(Write(mem, p, c), p, n) = [k \in 1 .. n |-> c[k]]
  BY <1>2 DEF Read
<1>4. QED
  BY <1>3 DEF Run

(* What is written elsewhere is not.                                       *)
LEMMA ReadBeside ==
  ASSUME NEW mem, Laid(mem), NEW p \in Nat, NEW c, Len(c) \in Nat,
         NEW q \in Nat, NEW n \in Nat,
         q + n <= p \/ p + Len(c) <= q, q + n <= Limit
  PROVE  Read(Write(mem, p, c), q, n) = Read(mem, q, n)
<1>1. DOMAIN mem = 0 .. Limit - 1
  BY DEF Laid
<1>2. ASSUME NEW k \in 1 .. n
      PROVE  Write(mem, p, c)[q + k - 1] = mem[q + k - 1]
  <2>1. /\ q + k - 1 \in 0 .. Limit - 1
        /\ ~(q + k - 1 \in p .. p + Len(c) - 1)
    BY LimitType, SMT
  <2>2. QED
    BY <1>1, <2>1, Zenon DEF Write
<1>3. QED
  BY <1>2 DEF Read

(* The cell at the address written to.                                     *)
LEMMA WrittenFirst ==
  ASSUME NEW mem, Laid(mem), NEW p \in Nat, NEW n \in Nat \ {0}, NEW c, Run(c, n),
         p + n <= Limit
  PROVE  Write(mem, p, c)[p] = c[1]
<1>1. DOMAIN mem = 0 .. Limit - 1 /\ Len(c) = n
  BY DEF Laid, Run
<1>2. p \in 0 .. Limit - 1 /\ p \in p .. p + n - 1 /\ p - p + 1 = 1
  BY LimitType, SMT
<1>3. QED
  BY <1>1, <1>2, Zenon DEF Write

(***************************************************************************)
(* States in cells.                                                        *)
(***************************************************************************)
LEMMA CellsRun == ASSUME NEW st PROVE Run(Cells(st), StateSize)
<1>1. Cells(st) = [k \in 1 .. StateSize |-> Cells(st)[k]]
  BY DEF Cells
<1>2. QED
  BY <1>1, MakeRun, SizeFacts

(* The cells of a state hold that state.                                   *)
LEMMA StateInCells == ASSUME NEW st PROVE StateIn(Cells(st)) = st
<1>1. Cells(st)[1] = [state |-> st, part |-> 1]
  BY SizeFacts, SMT DEF Cells, Part
<1>2. "state" \in DOMAIN Cells(st)[1] /\ Cells(st)[1].state = st
  BY <1>1
<1>3. QED
  BY <1>2, Zenon DEF StateIn

LEMMA WordsRun ==
  ASSUME NEW d
  PROVE  /\ Run([k \in 1 .. OutSize |-> Word(d)], OutSize)
         /\ [k \in 1 .. OutSize |-> Word(d)][1] = Word(d)
         /\ Word(d).digest = d
<1> DEFINE c == [k \in 1 .. OutSize |-> Word(d)]
<1>1. c = [k \in 1 .. OutSize |-> c[k]]
  OBVIOUS
<1>2. c[1] = Word(d)
  BY SizeFacts, SMT
<1>3. Word(d).digest = d
  BY DEF Word
<1> HIDE DEF c
<1>4. Run(c, OutSize)
  BY <1>1, MakeRun, SizeFacts
<1>5. QED
  BY <1>2, <1>3, <1>4 DEF c

(***************************************************************************)
(* Growing.                                                                *)
(***************************************************************************)

(* The pages asked for are enough.                                         *)
LEMMA PagesCover ==
  ASSUME NEW b \in Nat \ {0}, NEW s \in Nat, NEW needed \in Nat, s < needed
  PROVE  /\ ((needed - s) + b - 1) \div b \in Nat
         /\ needed <= s + b * (((needed - s) + b - 1) \div b)
<1> DEFINE x == (needed - s) + b - 1
           q == x \div b
           r == x % b
<1>1. x \in Nat
  BY SMT
<1>2. x = (b * q) + r /\ r \in 0 .. (b - 1) /\ q \in Nat
  BY <1>1, SMT
<1>3. b * q \in Nat
  BY <1>2, SMT
<1>4. (needed - s) <= b * q
  <2> HIDE DEF q, r
  <2>1. QED
    BY <1>2, <1>3, SMT
<1>5. QED
  BY <1>2, <1>3, <1>4, SMT

LEMMA ViewRefreshed ==
  ASSUME NEW m, NEW needed, NEW x, NEW v, NEW c,
         Grown(m, needed) = [pages |-> x, view |-> v, cells |-> c]
  PROVE  Reserved(m, needed) = [pages |-> x, view |-> x, cells |-> c]
<1> DEFINE g == [pages |-> x, view |-> v, cells |-> c]
<1>1. [g EXCEPT !.view = g.pages] = [pages |-> x, view |-> x, cells |-> c]
  <2>1. g.pages = x
    OBVIOUS
  <2>2. [g EXCEPT !.view = x] = [pages |-> x, view |-> x, cells |-> c]
    OBVIOUS
  <2>3. QED
    BY <2>1, <2>2
<1>2. Reserved(m, needed) = [g EXCEPT !.view = g.pages]
  BY Zenon DEF Reserved
<1>3. QED
  BY <1>1, <1>2

(* reserve() leaves the cells alone, the view on the memory as it is, and  *)
(* room for what was asked.                                                *)
LEMMA ReservedRight ==
  ASSUME NEW m, MemoryOK(m), NEW needed \in Nat, Grown(m, needed).pages <= MaxPages
  PROVE  /\ Reserved(m, needed) = [ pages |-> Reserved(m, needed).pages,
                                    view  |-> Reserved(m, needed).pages,
                                    cells |-> m.cells ]
         /\ Reserved(m, needed).pages \in m.pages .. MaxPages
         /\ needed <= Page * Reserved(m, needed).pages
<1> DEFINE more == ((needed - Size(m)) + Page - 1) \div Page
<1>1. /\ m = [pages |-> m.pages, view |-> m.view, cells |-> m.cells]
      /\ m.pages \in Nat /\ m.view = m.pages
      /\ m.pages <= MaxPages
  BY SizeFacts, SMT DEF MemoryOK
<1>2. Size(m) \in Nat /\ Size(m) = Page * m.pages
  BY <1>1, SizeFacts, SMT DEF Size
<1>3. CASE MustGrow(m, needed)
  <2>1. Size(m) < needed
    BY <1>3 DEF MustGrow
  <2>2. more \in Nat /\ needed <= Size(m) + Page * more
    BY <1>2, <2>1, PagesCover, SizeFacts
  <2>3. more = (needed - Size(m) + Page - 1) \div Page
    BY <1>2, SizeFacts, SMT
  <2> HIDE DEF more
  <2>4. Grown(m, needed) = [m EXCEPT !.pages = @ + more]
    BY <1>3, <2>3 DEF Grown
  <2>5. Grown(m, needed) = [pages |-> m.pages + more, view |-> m.view, cells |-> m.cells]
    BY <1>1, <2>4, Zenon
  <2>6. Reserved(m, needed) =
          [pages |-> m.pages + more, view |-> m.pages + more, cells |-> m.cells]
    BY <2>5, ViewRefreshed
  <2>7. Page * (m.pages + more) = Size(m) + Page * more
    BY <1>1, <1>2, <2>2, SizeFacts, SMT
  <2>8. m.pages + more \in m.pages .. MaxPages
    BY <1>1, <2>2, <2>5, SizeFacts, SMT
  <2>9. QED
    BY <2>2, <2>6, <2>7, <2>8
<1>4. CASE ~MustGrow(m, needed)
  <2>1. Grown(m, needed) = m /\ ~(Size(m) < needed)
    BY <1>4 DEF Grown, MustGrow
  <2>2. Reserved(m, needed) = [pages |-> m.pages, view |-> m.pages, cells |-> m.cells]
    BY <1>1, <2>1, ViewRefreshed
  <2>3. needed <= Page * m.pages /\ m.pages \in m.pages .. MaxPages
    BY <1>1, <1>2, <2>1, SizeFacts, SMT
  <2>4. QED
    BY <2>2, <2>3
<1>5. QED
  BY <1>3, <1>4

(***************************************************************************)
(* What a call does to the engines.                                        *)
(***************************************************************************)

(* Engines are only added, and their memory only grows.                    *)
EnginesGrow ==
  /\ Len(engine) \in Nat /\ Len(engine') \in Nat /\ Len(engine) <= Len(engine')
  /\ \A x \in 1 .. Len(engine) :
       /\ Size(engine[x]) \in Nat /\ Size(engine'[x]) \in Nat
       /\ Size(engine[x]) <= Size(engine'[x])

LEMMA SizeType ==
  ASSUME NEW m, MemoryOK(m)
  PROVE  Size(m) \in Nat /\ Size(m) <= Limit /\ m.pages \in Nat
<1>1. m.pages \in Nat /\ m.pages <= MaxPages
  BY SizeFacts, SMT DEF MemoryOK
<1>2. Page * m.pages \in Nat /\ Page * m.pages <= Page * MaxPages
  BY <1>1, SizeFacts, SMT
<1>3. QED
  BY <1>1, <1>2 DEF Size, Limit

LEMMA EnginesStay ==
  ASSUME EnginesOK, UNCHANGED << wasm, engine >>
  PROVE  EnginesOK' /\ EnginesGrow
<1>1. EnginesOK'
  BY DEF EnginesOK
<1>2. \A x \in 1 .. Len(engine) : Size(engine[x]) \in Nat
  BY SizeType DEF EnginesOK
<1>3. EnginesGrow
  BY <1>2, SMT DEF EnginesGrow, EnginesOK
<1>4. QED
  BY <1>1, <1>3

(* One memory replaced by a larger one.                                    *)
LEMMA EngineReplaced ==
  ASSUME EnginesOK, NEW e \in 1 .. Len(engine), NEW m, MemoryOK(m),
         engine[e].pages <= m.pages,
         engine' = [engine EXCEPT ![e] = m], wasm' = wasm
  PROVE  /\ EnginesOK' /\ EnginesGrow
         /\ Len(engine') = Len(engine) /\ engine'[e] = m
<1>1. /\ Len(engine) \in Nat /\ engine = [x \in 1 .. Len(engine) |-> engine[x]]
      /\ \A x \in 1 .. Len(engine) : MemoryOK(engine[x])
      /\ wasm \in 0 .. Len(engine)
  BY DEF EnginesOK
<1>2. /\ engine' = [x \in 1 .. Len(engine) |-> engine'[x]]
      /\ \A x \in 1 .. Len(engine) : engine'[x] = IF x = e THEN m ELSE engine[x]
  BY <1>1
<1>3. Len(engine') = Len(engine)
  BY <1>1, <1>2, MakeRun DEF Run
<1>4. \A x \in 1 .. Len(engine) : MemoryOK(engine'[x])
  BY <1>1, <1>2
<1>5. EnginesOK'
  BY <1>1, <1>2, <1>3, <1>4 DEF EnginesOK, MemoryOK
<1>6. ASSUME NEW x \in 1 .. Len(engine)
      PROVE  /\ Size(engine[x]) \in Nat /\ Size(engine'[x]) \in Nat
             /\ Size(engine[x]) <= Size(engine'[x])
  <2>1. Size(engine[x]) \in Nat /\ Size(engine'[x]) \in Nat
    BY <1>1, <1>4, SizeType
  <2>2. CASE x = e
    <3>1. engine'[x] = m /\ m.pages \in Nat /\ engine[e].pages \in Nat
      BY <1>1, <1>2, <2>2, SizeType
    <3>2. Page * engine[e].pages <= Page * m.pages
      BY <3>1, SizeFacts, SMT
    <3>3. QED
      BY <2>1, <2>2, <3>1, <3>2 DEF Size
  <2>3. CASE x # e
    BY <1>2, <2>1, <2>3
  <2>4. QED
    BY <2>2, <2>3
<1>7. EnginesGrow
  BY <1>1, <1>3, <1>6 DEF EnginesGrow
<1>8. QED
  BY <1>2, <1>3, <1>5, <1>7

(* The memory a call that reserved leaves, with any cells in it.           *)
LEMMA EngineWritten ==
  ASSUME EnginesOK, NEW e \in 1 .. Len(engine), NEW needed \in Nat,
         Granted(e, needed), NEW c, Laid(c),
         engine' = [engine EXCEPT ![e] =
                      [Reserved(engine[e], needed) EXCEPT !.cells = c]],
         wasm' = wasm
  PROVE  /\ EnginesOK' /\ EnginesGrow
         /\ Len(engine') = Len(engine) /\ needed <= Size(engine'[e])
<1> DEFINE m == Reserved(engine[e], needed)
           w == [pages |-> m.pages, view |-> m.pages, cells |-> c]
<1>1. MemoryOK(engine[e])
  BY DEF EnginesOK
<1>2. /\ m = [pages |-> m.pages, view |-> m.pages, cells |-> engine[e].cells]
      /\ m.pages \in engine[e].pages .. MaxPages
      /\ needed <= Page * m.pages
  BY <1>1, ReservedRight DEF Granted
<1> HIDE DEF m
<1>3. [m EXCEPT !.cells = c] = w
  BY <1>2
<1>4. MemoryOK(w) /\ engine[e].pages <= w.pages
  <2>1. engine[e].pages \in InitPages .. MaxPages
    BY <1>1 DEF MemoryOK
  <2>2. m.pages \in InitPages .. MaxPages /\ engine[e].pages <= m.pages
    BY <1>2, <2>1, SizeFacts, SMT
  <2>3. c = [a \in 0 .. Page * MaxPages - 1 |-> c[a]]
    BY DEF Laid, Limit
  <2>4. w.pages = m.pages /\ w.view = m.pages /\ w.cells = c
    OBVIOUS
  <2>5. QED
    BY <2>2, <2>3, <2>4 DEF MemoryOK
<1>5. engine' = [engine EXCEPT ![e] = w]
  BY <1>3 DEF m
<1>6. w.pages = m.pages
  OBVIOUS
<1> HIDE DEF w
<1>7. EnginesOK' /\ EnginesGrow /\ Len(engine') = Len(engine) /\ engine'[e] = w
  BY <1>4, <1>5, EngineReplaced
<1>8. QED
  BY <1>2, <1>6, <1>7 DEF Size

(* What may be relied on in a memory that was reserved.                    *)
LEMMA ReservedUsable ==
  ASSUME EnginesOK, NEW e \in 1 .. Len(engine), NEW needed \in Nat,
         Granted(e, needed)
  PROVE  LET m == Reserved(engine[e], needed)
         IN  /\ m.view = m.pages /\ Laid(m.cells) /\ needed <= Limit
             /\ \A p, n \in Nat : p + n <= needed => CanSet(m, p, n)
<1> DEFINE m == Reserved(engine[e], needed)
<1>1. MemoryOK(engine[e])
  BY DEF EnginesOK
<1>2. /\ m = [pages |-> m.pages, view |-> m.pages, cells |-> engine[e].cells]
      /\ m.pages \in engine[e].pages .. MaxPages
      /\ needed <= Page * m.pages
  BY <1>1, ReservedRight DEF Granted
<1>3. engine[e].pages \in Nat /\ Laid(engine[e].cells)
  BY <1>1, SizeType DEF MemoryOK, Laid, Limit
<1> HIDE DEF m
<1>4. m.view = m.pages /\ m.cells = engine[e].cells
  BY <1>2
<1>5. m.pages \in Nat /\ Page * m.pages \in Nat /\ Page * m.pages <= Limit
  <2>1. m.pages \in Nat /\ m.pages <= MaxPages
    BY <1>2, <1>3, SizeFacts, SMT
  <2>2. QED
    BY <2>1, PagesBound
<1>6. needed <= Limit
  BY <1>2, <1>5, LimitType, SMT
<1>7. ASSUME NEW p \in Nat, NEW n \in Nat, p + n <= needed
      PROVE  CanSet(m, p, n)
  <2>1. p + n <= Page * m.pages
    BY <1>2, <1>5, <1>7, SMT
  <2>2. QED
    BY <1>4, <2>1 DEF CanSet
<1>8. QED
  BY <1>3, <1>4, <1>6, <1>7 DEF m

(***************************************************************************)
(* What a call does to the hashers.                                        *)
(***************************************************************************)

(* A hasher that is left alone keeps its state and its reserved memory.    *)
LEMMA HasherStays ==
  ASSUME EnginesGrow, NEW i \in Hashers, HasherOK(i),
         hasher'[i] = hasher[i], kept'[i] = kept[i]
  PROVE  HasherOK(i)'
<1> SUFFICES ASSUME hasher[i].live PROVE HasherOK(i)'
  BY DEF HasherOK
<1>1. CASE hasher[i].engine = Null
  BY <1>1 DEF HasherOK
<1>2. CASE hasher[i].engine # Null
  <2> DEFINE e == hasher[i].engine
  <2>1. /\ e \in 1 .. Len(engine)
        /\ hasher[i].state = Cells([seed |-> hasher[i].seed, bytes |-> kept[i]])
        /\ OutPtr <= Size(engine[e])
    BY <1>2 DEF HasherOK
  <2>2. e \in 1 .. Len(engine')
    BY <2>1, SMT DEF EnginesGrow
  <2>3. OutPtr \in Nat
    BY SizeFacts, SMT DEF OutPtr
  <2>4. OutPtr <= Size(engine'[e])
    BY <2>1, <2>3, SMT DEF EnginesGrow
  <2>5. QED
    BY <1>2, <2>1, <2>2, <2>4 DEF HasherOK
<1>3. QED
  BY <1>1, <1>2

LEMMA HashersStay ==
  ASSUME HashersOK, EnginesGrow, UNCHANGED << hasher, kept >>
  PROVE  HashersOK'
BY HasherStays DEF HashersOK

(* All but one are left alone.                                             *)
LEMMA OneHasher ==
  ASSUME HashersOK, EnginesGrow, NEW i \in Hashers,
         NEW r \in HasherType, NEW b \in Seq(Bytes),
         hasher' = [hasher EXCEPT ![i] = r], kept' = [kept EXCEPT ![i] = b],
         HasherOK(i)'
  PROVE  HashersOK'
<1>1. hasher \in [Hashers -> HasherType] /\ kept \in [Hashers -> Seq(Bytes)]
  BY DEF HashersOK
<1>2. /\ hasher' \in [Hashers -> HasherType] /\ kept' \in [Hashers -> Seq(Bytes)]
      /\ \A j \in Hashers : j # i => hasher'[j] = hasher[j] /\ kept'[j] = kept[j]
  BY <1>1
<1>3. \A j \in Hashers : HasherOK(j)'
  BY <1>2, HasherStays DEF HashersOK
<1>4. QED
  BY <1>2, <1>3 DEF HashersOK

(***************************************************************************)
(* Hashers as records.                                                     *)
(***************************************************************************)
LEMMA AsRecord ==
  ASSUME NEW r \in HasherType
  PROVE  /\ r = [ live |-> r.live, engine |-> r.engine, seed |-> r.seed,
                  total |-> r.total, state |-> r.state, pure |-> r.pure ]
         /\ r.live \in BOOLEAN /\ r.engine \in Nat /\ r.seed \in AllSeeds
         /\ r.total \in Nat /\ r.state \in Seq([state : States, part : Nat])
         /\ r.pure \in States
BY DEF HasherType

(* Fields of one record of many, set one by one.                           *)
LEMMA FieldsOfOne ==
  ASSUME NEW h, NEW S, h \in [Hashers -> S], NEW i \in Hashers,
         NEW s, NEW t, NEW c, NEW p, NEW b
  PROVE  /\ [h EXCEPT ![i].seed = s, ![i].total = t, ![i].state = c] =
              [h EXCEPT ![i] = [h[i] EXCEPT !.seed = s, !.total = t, !.state = c]]
         /\ [h EXCEPT ![i].seed = s, ![i].total = t, ![i].pure = p] =
              [h EXCEPT ![i] = [h[i] EXCEPT !.seed = s, !.total = t, !.pure = p]]
         /\ [h EXCEPT ![i].total = t, ![i].pure.bytes = b] =
              [h EXCEPT ![i] = [h[i] EXCEPT !.total = t, !.pure.bytes = b]]
         /\ [h EXCEPT ![i].total = t] = [h EXCEPT ![i] = [h[i] EXCEPT !.total = t]]
         /\ [h EXCEPT ![i].state = c] = [h EXCEPT ![i] = [h[i] EXCEPT !.state = c]]
OBVIOUS

(* What reset() sets, and the record it makes.                             *)
SetState(g, h, i, s, x) == g = [h EXCEPT ![i].seed = s, ![i].total = 0, ![i].state = x]
SetPure(g, h, i, s, x)  == g = [h EXCEPT ![i].seed = s, ![i].total = 0, ![i].pure = x]
OneIs(g, h, i, e, s, t, c, p) ==
  g = [h EXCEPT ![i] = [ live |-> TRUE, engine |-> e, seed |-> s, total |-> t,
                         state |-> c, pure |-> p ]]

LEMMA ResetFields ==
  ASSUME NEW h \in [Hashers -> HasherType], NEW i \in Hashers, NEW s, NEW x, NEW g,
         h[i].live
  PROVE  /\ SetState(g, h, i, s, x) => OneIs(g, h, i, h[i].engine, s, 0, x, h[i].pure)
         /\ SetPure(g, h, i, s, x) => OneIs(g, h, i, h[i].engine, s, 0, h[i].state, x)
<1> DEFINE r == h[i]
           a == [r EXCEPT !.seed = s]
           b == [a EXCEPT !.total = 0]
<1>1. PICK l, e, q, t, c, p :
        r = [live |-> l, engine |-> e, seed |-> q, total |-> t, state |-> c, pure |-> p]
  BY AsRecord
<1>2. a = [live |-> l, engine |-> e, seed |-> s, total |-> t, state |-> c, pure |-> p]
  <2> HIDE DEF r
  <2>1. QED
    BY <1>1
<1>3. /\ [r EXCEPT !.seed = s, !.total = 0, !.state = x] = [b EXCEPT !.state = x]
      /\ [r EXCEPT !.seed = s, !.total = 0, !.pure = x] = [b EXCEPT !.pure = x]
  OBVIOUS
<1> HIDE DEF a
<1>4. b = [live |-> l, engine |-> e, seed |-> s, total |-> 0, state |-> c, pure |-> p]
  BY <1>2
<1> HIDE DEF b
<1>5. /\ [b EXCEPT !.state = x] =
           [live |-> l, engine |-> e, seed |-> s, total |-> 0, state |-> x, pure |-> p]
      /\ [b EXCEPT !.pure = x] =
           [live |-> l, engine |-> e, seed |-> s, total |-> 0, state |-> c, pure |-> x]
  BY <1>4
<1>6. /\ [h EXCEPT ![i].seed = s, ![i].total = 0, ![i].state = x] =
           [h EXCEPT ![i] = [r EXCEPT !.seed = s, !.total = 0, !.state = x]]
      /\ [h EXCEPT ![i].seed = s, ![i].total = 0, ![i].pure = x] =
           [h EXCEPT ![i] = [r EXCEPT !.seed = s, !.total = 0, !.pure = x]]
  BY FieldsOfOne
<1>7. r.live = TRUE /\ r.live = l /\ r.engine = e /\ r.state = c /\ r.pure = p
  <2>1. r.live \in BOOLEAN
    BY AsRecord
  <2>2. QED
    BY <1>1, <2>1
<1> HIDE DEF r
<1>8. QED
  BY <1>3, <1>5, <1>6, <1>7 DEF SetState, SetPure, OneIs, r

(* What update() and a chunk set.                                          *)
AddTotal(g, h, i, n)     == g = [h EXCEPT ![i].total = @ + n]
AddBytes(g, h, i, n, d)  == g = [h EXCEPT ![i].total = @ + n, ![i].pure.bytes = @ \o d]
NewCells(g, h, i, x)     == g = [h EXCEPT ![i].state = x]

LEMMA OneField ==
  ASSUME NEW h \in [Hashers -> HasherType], NEW i \in Hashers, NEW x, NEW g,
         h[i].live
  PROVE  /\ AddTotal(g, h, i, x) =>
              OneIs(g, h, i, h[i].engine, h[i].seed, h[i].total + x, h[i].state, h[i].pure)
         /\ NewCells(g, h, i, x) =>
              OneIs(g, h, i, h[i].engine, h[i].seed, h[i].total, x, h[i].pure)
<1> DEFINE r == h[i]
<1>1. PICK l, e, s, t, c, p :
        r = [live |-> l, engine |-> e, seed |-> s, total |-> t, state |-> c, pure |-> p]
  BY AsRecord
<1>2. /\ [r EXCEPT !.total = t + x] =
           [live |-> l, engine |-> e, seed |-> s, total |-> t + x, state |-> c, pure |-> p]
      /\ [r EXCEPT !.state = x] =
           [live |-> l, engine |-> e, seed |-> s, total |-> t, state |-> x, pure |-> p]
  <2> HIDE DEF r
  <2>1. QED
    BY <1>1
<1>3. /\ r.live = TRUE /\ r.live = l /\ r.engine = e /\ r.seed = s /\ r.total = t
      /\ r.state = c /\ r.pure = p
  <2>1. r.live \in BOOLEAN
    BY AsRecord
  <2>2. QED
    BY <1>1, <2>1
<1>4. /\ [h EXCEPT ![i].total = @ + x] = [h EXCEPT ![i] = [r EXCEPT !.total = t + x]]
      /\ [h EXCEPT ![i].state = x] = [h EXCEPT ![i] = [r EXCEPT !.state = x]]
  BY <1>3
<1> HIDE DEF r
<1>5. QED
  BY <1>2, <1>3, <1>4 DEF AddTotal, NewCells, OneIs, r

LEMMA PureFields ==
  ASSUME NEW h \in [Hashers -> HasherType], NEW i \in Hashers, NEW n, NEW d, NEW b, NEW g,
         h[i].live, h[i].pure = [seed |-> h[i].seed, bytes |-> b],
         AddBytes(g, h, i, n, d)
  PROVE  OneIs(g, h, i, h[i].engine, h[i].seed, h[i].total + n, h[i].state,
               [seed |-> h[i].seed, bytes |-> b \o d])
<1> DEFINE r == h[i]
           v == [seed |-> r.seed, bytes |-> b \o d]
<1>1. PICK l, e, s, t, c, p :
        r = [live |-> l, engine |-> e, seed |-> s, total |-> t, state |-> c, pure |-> p]
  BY AsRecord
<1>2. /\ r.live = TRUE /\ r.live = l /\ r.engine = e /\ r.seed = s /\ r.total = t
      /\ r.state = c /\ r.pure = p
  <2>1. r.live \in BOOLEAN
    BY AsRecord
  <2>2. QED
    BY <1>1, <2>1
<1> DEFINE a == [r EXCEPT !.total = t + n]
<1>3. a = [live |-> l, engine |-> e, seed |-> s, total |-> t + n, state |-> c, pure |-> p]
  <2> DEFINE u == t + n
  <2> HIDE DEF r, u
  <2>1. [r EXCEPT !.total = u] =
          [live |-> l, engine |-> e, seed |-> s, total |-> u, state |-> c, pure |-> p]
    BY <1>1
  <2>2. QED
    BY <2>1 DEF u
<1>4. [p EXCEPT !.bytes = b \o d] = v
  <2>1. p = [seed |-> s, bytes |-> b] /\ r.seed = s
    BY <1>2
  <2> DEFINE u == b \o d
  <2> HIDE DEF r, u
  <2>2. [p EXCEPT !.bytes = u] = [seed |-> s, bytes |-> u]
    BY <2>1
  <2>3. QED
    BY <2>1, <2>2 DEF u
<1>5. [r EXCEPT !.total = @ + n, !.pure.bytes = @ \o d] =
        [a EXCEPT !.pure = [p EXCEPT !.bytes = b \o d]]
  <2>1. r.total = t /\ r.pure = p /\ p.bytes = b
    BY <1>2
  <2> HIDE DEF r
  <2>2. QED
    BY <2>1
<1> HIDE DEF a
<1>6. [a EXCEPT !.pure = v] =
        [live |-> l, engine |-> e, seed |-> s, total |-> t + n, state |-> c, pure |-> v]
  <2> HIDE DEF v
  <2>1. QED
    BY <1>3
<1>7. [h EXCEPT ![i].total = @ + n, ![i].pure.bytes = @ \o d] =
        [h EXCEPT ![i] = [r EXCEPT !.total = @ + n, !.pure.bytes = @ \o d]]
  OBVIOUS
<1> HIDE DEF r
<1>8. QED
  <2> DEFINE u == t + n
             w == [live |-> l, engine |-> e, seed |-> s, total |-> u, state |-> c, pure |-> v]
  <2>1. g = [h EXCEPT ![i] = w]
    <3> DEFINE y == [r EXCEPT !.total = @ + n, !.pure.bytes = @ \o d]
    <3>1. g = [h EXCEPT ![i] = y]
      BY <1>7 DEF AddBytes
    <3>2. y = w
      <4> HIDE DEF v
      <4>1. y = [a EXCEPT !.pure = v]
        BY <1>4, <1>5
      <4>2. QED
        BY <1>6, <4>1
    <3> HIDE DEF y, w
    <3>3. QED
      BY <3>1, <3>2
  <2>2. w = [live |-> TRUE, engine |-> r.engine, seed |-> r.seed, total |-> r.total + n,
             state |-> r.state, pure |-> v]
    BY <1>2
  <2>3. QED
    BY <2>1, <2>2 DEF OneIs, r

LEMMA EmptyState ==
  ASSUME NEW s \in AllSeeds
  PROVE  Empty(s) = [seed |-> s, bytes |-> << >>] /\ Empty(s) \in States
<1>1. << >> \in Seq(Bytes)
  BY EmptySeq
<1>2. QED
  BY <1>1 DEF Empty, States

LEMMA CellsType ==
  ASSUME NEW st \in States
  PROVE  Cells(st) \in Seq([state : States, part : Nat])
<1>1. Cells(st) \in [1 .. StateSize -> [state : States, part : Nat]]
  BY SizeFacts, SMT DEF Cells, Part
<1>2. QED
  BY <1>1, FunctionIsSeq, SizeFacts

LEMMA PtrFacts ==
  /\ StatePtr \in Nat /\ OutPtr \in Nat /\ InputPtr \in Nat /\ HeapBase = StatePtr
  /\ OutPtr = StatePtr + StateSize /\ InputPtr = OutPtr + OutSize
BY SizeFacts, SMT DEF StatePtr, OutPtr, InputPtr

(* hayahash_init into reserved cells gives an empty state, whatever was in *)
(* the cells.                                                              *)
LEMMA InitFetched ==
  ASSUME EnginesOK, NEW e \in 1 .. Len(engine), Granted(e, StatePtr + StateSize),
         NEW seed
  PROVE  LET m     == Reserved(engine[e], StatePtr + StateSize)
             cells == StreamInit(m.cells, StatePtr, seed)
         IN  /\ Laid(cells)
             /\ \A old : Fetched(m, cells, old) = Cells(Empty(seed))
<1> DEFINE m     == Reserved(engine[e], StatePtr + StateSize)
           cells == StreamInit(m.cells, StatePtr, seed)
<1>1. StatePtr + StateSize \in Nat /\ StatePtr \in Nat /\ StateSize \in Nat
  BY PtrFacts, SizeFacts, SMT
<1>2. m.view = m.pages /\ Laid(m.cells) /\ StatePtr + StateSize <= Limit
  BY <1>1, ReservedUsable
<1> HIDE DEF m
<1>3. cells = Write(m.cells, StatePtr, Cells(Empty(seed)))
  BY DEF StreamInit
<1>4. Run(Cells(Empty(seed)), StateSize)
  BY CellsRun
<1>5. Laid(cells)
  BY <1>2, <1>3, WriteLaid
<1>6. Read(cells, StatePtr, StateSize) = Cells(Empty(seed))
  BY <1>1, <1>2, <1>3, <1>4, ReadBack
<1> HIDE DEF cells
<1>7. \A old : Fetched(m, cells, old) = Cells(Empty(seed))
  BY <1>2, <1>6, Zenon DEF Fetched
<1>8. QED
  BY <1>5, <1>7 DEF m, cells

(* hayahash_update absorbs the input that was copied in, into the state    *)
(* that was copied in, whatever the cells held before.                     *)
LEMMA UpdatedState ==
  ASSUME NEW mem, Laid(mem), NEW st \in States, NEW chunk \in Seq(Bytes), NEW n \in Nat,
         n = Len(chunk), InputPtr + n <= Limit
  PROVE  LET put   == Write(Write(mem, StatePtr, Cells(st)), InputPtr, chunk)
             cells == StreamUpdate(put, StatePtr, InputPtr, n)
         IN  /\ Laid(cells)
             /\ Read(cells, StatePtr, StateSize) =
                  Cells([seed |-> st.seed, bytes |-> st.bytes \o chunk])
<1> DEFINE one == Write(mem, StatePtr, Cells(st))
           put == Write(one, InputPtr, chunk)
           new == [seed |-> st.seed, bytes |-> st.bytes \o chunk]
<1>1. /\ StatePtr \in Nat /\ InputPtr \in Nat /\ StateSize \in Nat
      /\ StatePtr + StateSize <= InputPtr /\ StatePtr + StateSize <= Limit
  BY PtrFacts, SizeFacts, LimitType, SMT
<1>2. Laid(one) /\ Read(one, StatePtr, StateSize) = Cells(st)
  BY <1>1, CellsRun, ReadBack, WriteLaid
<1>3. Run(chunk, n) /\ Len(chunk) \in Nat
  BY SeqIsRun
<1> HIDE DEF one
<1>4. Laid(put) /\ Read(put, InputPtr, n) = chunk
  BY <1>1, <1>2, <1>3, ReadBack, WriteLaid
<1>5. Read(put, StatePtr, StateSize) = Cells(st)
  <2>1. Read(put, StatePtr, StateSize) = Read(one, StatePtr, StateSize)
    BY <1>1, <1>2, <1>3, ReadBeside
  <2>2. QED
    BY <1>2, <2>1
<1> HIDE DEF put
<1>6. StateIn(Read(put, StatePtr, StateSize)) = st
  BY <1>5, StateInCells
<1>7. [st EXCEPT !.bytes = @ \o Read(put, InputPtr, n)] = new
  <2>1. PICK s, b : st = [seed |-> s, bytes |-> b]
    BY DEF States
  <2>2. st.seed = s /\ st.bytes = b
    BY <2>1
  <2> DEFINE y == b \o chunk
  <2> HIDE DEF y
  <2>3. [st EXCEPT !.bytes = y] = [seed |-> s, bytes |-> y]
    BY <2>1
  <2>4. QED
    BY <1>4, <2>2, <2>3 DEF y
<1>8. StreamUpdate(put, StatePtr, InputPtr, n) = Write(put, StatePtr, Cells(new))
  <2> HIDE DEF new
  <2>1. QED
    BY <1>6, <1>7 DEF StreamUpdate
<1> HIDE DEF new
<1>9. /\ Laid(Write(put, StatePtr, Cells(new)))
      /\ Read(Write(put, StatePtr, Cells(new)), StatePtr, StateSize) = Cells(new)
  BY <1>1, <1>4, CellsRun, ReadBack, WriteLaid
<1>10. QED
  BY <1>8, <1>9 DEF new, put, one

(* hayahash_digest gives the digest of the state that was copied in.       *)
LEMMA DigestedState ==
  ASSUME NEW mem, Laid(mem), NEW st, OutPtr + OutSize <= Limit
  PROVE  LET cells == StreamDigest(Write(mem, StatePtr, Cells(st)), StatePtr, OutPtr)
         IN  Laid(cells) /\ cells[OutPtr].digest = st
<1> DEFINE put   == Write(mem, StatePtr, Cells(st))
           words == [k \in 1 .. OutSize |-> Word(st)]
<1>1. /\ StatePtr \in Nat /\ OutPtr \in Nat /\ StateSize \in Nat
      /\ StatePtr + StateSize <= Limit
  BY PtrFacts, SizeFacts, LimitType, SMT
<1>2. Laid(put) /\ Read(put, StatePtr, StateSize) = Cells(st)
  BY <1>1, CellsRun, ReadBack, WriteLaid
<1> HIDE DEF put
<1>3. StreamDigest(put, StatePtr, OutPtr) = Write(put, OutPtr, words)
  BY <1>2, StateInCells DEF StreamDigest
<1>4. Run(words, OutSize) /\ words[1] = Word(st) /\ Word(st).digest = st
  BY WordsRun
<1> HIDE DEF words
<1>5. Laid(Write(put, OutPtr, words)) /\ Write(put, OutPtr, words)[OutPtr] = words[1]
  BY <1>1, <1>2, <1>4, SizeFacts, WrittenFirst, WriteLaid
<1>6. QED
  BY <1>3, <1>4, <1>5 DEF put

(* A one-shot call hashes the input that was copied in.                    *)
LEMMA HashedInput ==
  ASSUME NEW mem, Laid(mem), NEW at \in Nat, NEW n \in Nat, NEW data, Run(data, n),
         NEW seed, at + n <= Limit
  PROVE  LET put == Write(mem, at, data)
             due == [seed |-> seed, bytes |-> data]
         IN  /\ Laid(put) /\ HashOf(put, at, n, seed) = due
             /\ HeapBase + OutSize <= Limit =>
                  LET cells == Hash128(put, at, n, seed, HeapBase)
                  IN  Laid(cells) /\ cells[HeapBase].digest = due
<1> DEFINE put   == Write(mem, at, data)
           due   == [seed |-> seed, bytes |-> data]
           words == [k \in 1 .. OutSize |-> Word(due)]
<1>1. Laid(put) /\ Read(put, at, n) = data
  BY ReadBack, WriteLaid
<1> HIDE DEF put
<1>2. HashOf(put, at, n, seed) = due
  BY <1>1 DEF HashOf
<1> HIDE DEF due
<1>3. Hash128(put, at, n, seed, HeapBase) = Write(put, HeapBase, words)
  BY <1>2 DEF Hash128
<1>4. Run(words, OutSize) /\ words[1] = Word(due) /\ Word(due).digest = due
  BY WordsRun
<1> HIDE DEF words
<1>5. ASSUME HeapBase + OutSize <= Limit
      PROVE  /\ Laid(Write(put, HeapBase, words))
             /\ Write(put, HeapBase, words)[HeapBase] = words[1]
  BY <1>1, <1>4, <1>5, SizeFacts, WrittenFirst, WriteLaid
<1>6. QED
  BY <1>1, <1>2, <1>3, <1>4, <1>5 DEF put, due

(***************************************************************************)
(* The initial states and the steps.                                       *)
(***************************************************************************)
LEMMA FreshMemoryOK == MemoryOK(FreshMemory)
<1>1. /\ FreshMemory.pages = InitPages /\ FreshMemory.view = InitPages
      /\ FreshMemory.cells = [a \in 0 .. Page * MaxPages - 1 |-> Zero]
  BY DEF FreshMemory
<1>2. FreshMemory = [ pages |-> FreshMemory.pages, view |-> FreshMemory.view,
                      cells |-> FreshMemory.cells ]
  BY DEF FreshMemory
<1>3. FreshMemory.cells = [a \in 0 .. Page * MaxPages - 1 |-> FreshMemory.cells[a]]
  BY <1>1
<1>4. InitPages \in InitPages .. MaxPages
  BY SizeFacts, SMT
<1>5. QED
  BY <1>1, <1>2, <1>3, <1>4 DEF MemoryOK

LEMMA InitEstablishes == Init => IInv
<1> SUFFICES ASSUME Init PROVE IInv
  OBVIOUS
<1>1. EnginesOK
  <2>1. CASE wasm = 1 /\ engine = << FreshMemory >>
    <3>1. Len(engine) = 1 /\ engine = [e \in 1 .. 1 |-> engine[e]] /\ engine[1] = FreshMemory
      BY <2>1
    <3>2. \A e \in 1 .. 1 : e = 1
      BY SMT
    <3>3. wasm \in 0 .. 1 /\ 1 \in Nat
      BY <2>1, SMT
    <3>4. QED
      BY <3>1, <3>2, <3>3, FreshMemoryOK DEF EnginesOK
  <2>2. CASE wasm = Null /\ engine = << >>
    <3>1. Len(engine) = 0 /\ engine = [e \in 1 .. 0 |-> engine[e]]
      BY <2>2
    <3>2. \A e \in 1 .. 0 : FALSE
      BY SMT
    <3>3. wasm \in 0 .. 0 /\ 0 \in Nat
      BY <2>2, SMT DEF Null
    <3>4. QED
      BY <3>1, <3>2, <3>3, Zenon DEF EnginesOK
  <2>3. QED
    BY <2>1, <2>2 DEF Init
<1>2. HashersOK
  <2> DEFINE r == [ live |-> FALSE, engine |-> Null, seed |-> Null, total |-> 0,
                    state |-> << >>, pure |-> Empty(Null) ]
  <2>1. Null \in AllSeeds /\ Null \in Nat /\ 0 \in Nat
    BY DEF AllSeeds, Null
  <2>2. << >> \in Seq([state : States, part : Nat]) /\ << >> \in Seq(Bytes)
    BY EmptySeq
  <2>3. Empty(Null) \in States
    BY <2>1, EmptyState
  <2>4. r \in HasherType /\ r.live = FALSE
    BY <2>1, <2>2, <2>3 DEF HasherType
  <2>5. hasher = [i \in Hashers |-> r] /\ kept = [i \in Hashers |-> << >>]
    BY DEF Init
  <2> HIDE DEF r
  <2>6. \A i \in Hashers : HasherOK(i)
    BY <2>4, <2>5 DEF HasherOK
  <2>7. QED
    BY <2>2, <2>4, <2>5, <2>6 DEF HashersOK
<1>3. UpdatingOK /\ ResultsRight /\ FailsOnlyWhenRefused
  BY DEF Init, UpdatingOK, ResultsRight, NoDigest, FailsOnlyWhenRefused
<1>4. QED
  BY <1>1, <1>2, <1>3 DEF IInv

LEMMA SetModulePreserves ==
  ASSUME IInv, SetModule \/ SetWrongModule PROVE IInv'
<1>1. UpdatingOK' /\ ResultsRight' /\ FailsOnlyWhenRefused'
  BY DEF SetModule, SetWrongModule, UpdatingOK, ResultsRight, NoDigest,
         FailsOnlyWhenRefused, IInv
<1>2. CASE SetModule
  <2>1. /\ Len(engine) \in Nat /\ engine = [e \in 1 .. Len(engine) |-> engine[e]]
        /\ \A e \in 1 .. Len(engine) : MemoryOK(engine[e])
    BY DEF IInv, EnginesOK
  <2> DEFINE S == {engine[e] : e \in 1 .. Len(engine)} \cup {FreshMemory}
  <2>2. \A e \in 1 .. Len(engine) : engine[e] \in S
    OBVIOUS
  <2>3. FreshMemory \in S
    OBVIOUS
  <2> HIDE DEF S
  <2>4. engine \in [1 .. Len(engine) -> S]
    BY <2>1, <2>2
  <2>5. engine \in Seq(S)
    BY <2>1, <2>4, FunctionIsSeq
  <2>6. engine' = Append(engine, FreshMemory) /\ wasm' = Len(engine')
    BY <1>2 DEF SetModule
  <2>7. /\ engine' \in Seq(S) /\ Len(engine') = Len(engine) + 1
        /\ \A e \in 1 .. Len(engine) : engine'[e] = engine[e]
        /\ engine'[Len(engine) + 1] = FreshMemory
    BY <2>3, <2>5, <2>6, AppendProperties
  <2>8. Len(engine') \in Nat /\ engine' = [e \in 1 .. Len(engine') |-> engine'[e]]
    BY <2>7, SeqIsRun DEF Run
  <2>9. \A e \in 1 .. Len(engine') : MemoryOK(engine'[e])
    <3>1. \A e \in 1 .. Len(engine') : e \in 1 .. Len(engine) \/ e = Len(engine) + 1
      BY <2>1, <2>7, SMT
    <3>2. QED
      BY <2>1, <2>7, <3>1, FreshMemoryOK
  <2>10. EnginesOK'
    <3>1. wasm' \in 0 .. Len(engine')
      BY <2>6, <2>8, SMT
    <3>2. QED
      BY <2>8, <2>9, <3>1 DEF EnginesOK, MemoryOK
  <2>11. EnginesGrow
    <3>1. \A e \in 1 .. Len(engine) : Size(engine[e]) \in Nat
      BY <2>1, SizeType
    <3>2. QED
      BY <2>1, <2>7, <3>1, SMT DEF EnginesGrow
  <2>12. HashersOK'
    BY <1>2, <2>11, HashersStay DEF SetModule, IInv
  <2>13. QED
    BY <1>1, <2>10, <2>12 DEF IInv
<1>3. CASE SetWrongModule
  <2>1. EnginesOK' /\ EnginesGrow
    BY <1>3, EnginesStay DEF SetWrongModule, IInv
  <2>2. HashersOK'
    BY <1>3, <2>1, HashersStay DEF SetWrongModule, IInv
  <2>3. QED
    BY <1>1, <2>1, <2>2 DEF IInv
<1>4. QED
  BY <1>2, <1>3

(* Calls that leave memory, hashers and the results of before alone.       *)
LEMMA NothingWritten ==
  ASSUME IInv, UNCHANGED << wasm, engine, hasher, kept >>, updating' = Idle \/ updating' = updating,
         ResultsRight', FailsOnlyWhenRefused'
  PROVE  IInv'
<1>1. EnginesOK' /\ EnginesGrow
  BY EnginesStay DEF IInv
<1>2. HashersOK'
  BY <1>1, HashersStay DEF IInv
<1>3. UpdatingOK'
  BY DEF IInv, UpdatingOK
<1>4. QED
  BY <1>1, <1>2, <1>3 DEF IInv

(* A hasher made or re-initialised on engine e.                            *)
LEMMA StartsEmpty ==
  ASSUME IInv, NEW i \in Hashers, NEW seed \in Seeds, NEW e \in 1 .. Len(engine),
         Granted(e, StatePtr + StateSize),
         engine' = [engine EXCEPT ![e] =
           [Reserved(engine[e], StatePtr + StateSize) EXCEPT !.cells =
              StreamInit(Reserved(engine[e], StatePtr + StateSize).cells, StatePtr, seed)]],
         wasm' = wasm,
         NEW p \in States,
         hasher' = [hasher EXCEPT ![i] =
           [ live |-> TRUE, engine |-> e, seed |-> seed, total |-> 0,
             state |-> Cells(Empty(seed)), pure |-> p ]],
         kept' = [kept EXCEPT ![i] = << >>]
  PROVE  EnginesOK' /\ HashersOK'
<1> DEFINE r == [ live |-> TRUE, engine |-> e, seed |-> seed, total |-> 0,
                  state |-> Cells(Empty(seed)), pure |-> p ]
<1>1. EnginesOK /\ HashersOK /\ StatePtr + StateSize \in Nat /\ StatePtr + StateSize = OutPtr
  BY PtrFacts, SizeFacts, SMT DEF IInv
<1>2. Laid(StreamInit(Reserved(engine[e], StatePtr + StateSize).cells, StatePtr, seed))
  BY <1>1, InitFetched
<1>3. /\ EnginesOK' /\ EnginesGrow /\ Len(engine') = Len(engine)
      /\ OutPtr <= Size(engine'[e])
  <2> DEFINE c == StreamInit(Reserved(engine[e], StatePtr + StateSize).cells, StatePtr, seed)
  <2>1. Laid(c) /\ engine' = [engine EXCEPT ![e] =
                      [Reserved(engine[e], StatePtr + StateSize) EXCEPT !.cells = c]]
    BY <1>2
  <2> HIDE DEF c
  <2>2. QED
    BY <1>1, <2>1, EngineWritten
<1>4. /\ seed \in AllSeeds /\ Empty(seed) \in States
      /\ Empty(seed) = [seed |-> seed, bytes |-> << >>] /\ << >> \in Seq(Bytes)
  BY EmptyState, EmptySeq DEF AllSeeds
<1>5. e \in Nat /\ e # Null /\ 0 \in Nat
  BY <1>1, SMT DEF EnginesOK, Null
<1>6. r \in HasherType
  BY <1>4, <1>5, CellsType DEF HasherType
<1>7. /\ r.live = TRUE /\ r.engine = e /\ r.seed = seed
      /\ r.state = Cells([seed |-> seed, bytes |-> << >>])
  BY <1>4
<1>8. hasher' = [hasher EXCEPT ![i] = r]
  OBVIOUS
<1> HIDE DEF r
<1>9. hasher'[i] = r /\ kept'[i] = << >>
  BY <1>1, <1>8 DEF HashersOK
<1>10. HasherOK(i)'
  BY <1>3, <1>5, <1>7, <1>9 DEF HasherOK
<1>11. HashersOK'
  BY <1>1, <1>3, <1>4, <1>6, <1>8, <1>10, OneHasher
<1>12. QED
  BY <1>3, <1>11

LEMMA NewWasmPreserves ==
  ASSUME IInv, NEW i \in Hashers, NEW seed \in Seeds, NewWasm(i, seed) PROVE IInv'
<1>1. /\ updating = Idle /\ updating' = updating /\ wasm' = wasm /\ wasm # Null
      /\ out' = NoDigest
  BY DEF NewWasm
<1>2. ResultsRight' /\ UpdatingOK'
  BY <1>1 DEF ResultsRight, NoDigest, UpdatingOK
<1>3. wasm \in 1 .. Len(engine)
  BY <1>1, SMT DEF IInv, EnginesOK, Null
<1>4. CASE Refused(wasm, StatePtr + StateSize) /\ UNCHANGED << engine, hasher, kept >>
  <2>1. FailsOnlyWhenRefused'
    BY <1>4 DEF Refused, FailsOnlyWhenRefused
  <2>2. QED
    BY <1>1, <1>2, <1>4, <2>1, NothingWritten
<1>5. CASE ~(Refused(wasm, StatePtr + StateSize) /\ UNCHANGED << engine, hasher, kept >>)
  <2> DEFINE m     == Reserved(engine[wasm], StatePtr + StateSize)
             cells == StreamInit(m.cells, StatePtr, seed)
             blank == [c \in 1 .. StateSize |-> Zero]
  <2>1. /\ Granted(wasm, StatePtr + StateSize) /\ threw' = "nothing"
        /\ engine' = [engine EXCEPT ![wasm] = [m EXCEPT !.cells = cells]]
        /\ hasher' = [hasher EXCEPT ![i] =
             [ live |-> TRUE, engine |-> wasm, seed |-> seed, total |-> 0,
               state |-> Fetched(m, cells, blank), pure |-> Empty(Null) ]]
        /\ kept' = [kept EXCEPT ![i] = << >>]
    BY <1>5 DEF NewWasm
  <2>2. Fetched(m, cells, blank) = Cells(Empty(seed))
    BY <1>3, <2>1, InitFetched DEF IInv
  <2>3. Empty(Null) \in States
    BY EmptyState DEF AllSeeds
  <2>4. hasher' = [hasher EXCEPT ![i] =
             [ live |-> TRUE, engine |-> wasm, seed |-> seed, total |-> 0,
               state |-> Cells(Empty(seed)), pure |-> Empty(Null) ]]
    <3> HIDE DEF m, cells, blank
    <3>1. QED
      BY <2>1, <2>2
  <2>5. EnginesOK' /\ HashersOK'
    BY <1>1, <1>3, <2>1, <2>3, <2>4, StartsEmpty
  <2>6. FailsOnlyWhenRefused'
    BY <2>1 DEF FailsOnlyWhenRefused
  <2>7. QED
    BY <1>2, <2>5, <2>6 DEF IInv
<1>6. QED
  BY <1>4, <1>5

(* A hasher without an engine keeps its state itself.                      *)
LEMMA PureHasherOK ==
  ASSUME IInv, NEW i \in Hashers, NEW seed \in AllSeeds, NEW t \in Nat,
         NEW b \in Seq(Bytes), NEW c \in Seq([state : States, part : Nat]),
         UNCHANGED << wasm, engine >>,
         hasher' = [hasher EXCEPT ![i] =
           [ live |-> TRUE, engine |-> Null, seed |-> seed, total |-> t,
             state |-> c, pure |-> [seed |-> seed, bytes |-> b] ]],
         kept' = [kept EXCEPT ![i] = b]
  PROVE  EnginesOK' /\ HashersOK'
<1> DEFINE r == [ live |-> TRUE, engine |-> Null, seed |-> seed, total |-> t,
                  state |-> c, pure |-> [seed |-> seed, bytes |-> b] ]
<1>1. EnginesOK' /\ EnginesGrow /\ HashersOK
  BY EnginesStay DEF IInv
<1>2. r \in HasherType
  <2>1. [seed |-> seed, bytes |-> b] \in States /\ Null \in Nat
    BY DEF States, Null
  <2>2. QED
    BY <2>1 DEF HasherType
<1>3. r.live = TRUE /\ r.engine = Null /\ r.seed = seed /\ r.pure = [seed |-> seed, bytes |-> b]
  OBVIOUS
<1>4. hasher' = [hasher EXCEPT ![i] = r]
  OBVIOUS
<1> HIDE DEF r
<1>5. hasher'[i] = r /\ kept'[i] = b
  BY <1>1, <1>4 DEF HashersOK
<1>6. HasherOK(i)'
  BY <1>3, <1>5 DEF HasherOK
<1>7. QED
  BY <1>1, <1>2, <1>4, <1>6, OneHasher

LEMMA NewPurePreserves ==
  ASSUME IInv, NEW i \in Hashers, NEW seed \in Seeds, NewPure(i, seed) PROVE IInv'
<1>1. /\ updating' = Idle /\ out' = NoDigest /\ threw' = "nothing"
      /\ UNCHANGED << wasm, engine >> /\ kept' = [kept EXCEPT ![i] = << >>]
      /\ hasher' = [hasher EXCEPT ![i] =
           [ live |-> TRUE, engine |-> Null, seed |-> seed, total |-> 0,
             state |-> << >>, pure |-> Empty(seed) ]]
  BY DEF NewPure
<1>2. Empty(seed) = [seed |-> seed, bytes |-> << >>] /\ seed \in AllSeeds
  BY EmptyState DEF AllSeeds
<1>3. << >> \in Seq(Bytes) /\ << >> \in Seq([state : States, part : Nat]) /\ 0 \in Nat
  BY EmptySeq
<1>4. EnginesOK' /\ HashersOK'
  BY <1>1, <1>2, <1>3, PureHasherOK
<1>5. UpdatingOK' /\ ResultsRight' /\ FailsOnlyWhenRefused'
  BY <1>1 DEF UpdatingOK, ResultsRight, NoDigest, FailsOnlyWhenRefused
<1>6. QED
  BY <1>4, <1>5 DEF IInv

LEMMA ResetPreserves ==
  ASSUME IInv, NEW i \in Hashers, NEW seed \in Seeds, Reset(i, seed) PROVE IInv'
<1> DEFINE f == hasher[i]  e == f.engine
<1>1. /\ updating' = Idle /\ out' = NoDigest /\ threw' = "nothing" /\ f.live
      /\ kept' = [kept EXCEPT ![i] = << >>] /\ wasm' = wasm
  BY DEF Reset
<1>2. UpdatingOK' /\ ResultsRight' /\ FailsOnlyWhenRefused'
  BY <1>1 DEF UpdatingOK, ResultsRight, NoDigest, FailsOnlyWhenRefused
<1>3. /\ f \in HasherType /\ hasher \in [Hashers -> HasherType] /\ HasherOK(i)
      /\ EnginesOK
  BY DEF IInv, HashersOK
<1>4. f.live = TRUE /\ f.pure \in States /\ f.state \in Seq([state : States, part : Nat])
  BY <1>1, <1>3, AsRecord
<1>5. /\ Empty(seed) = [seed |-> seed, bytes |-> << >>] /\ seed \in AllSeeds
      /\ << >> \in Seq(Bytes) /\ 0 \in Nat
  BY EmptyState, EmptySeq DEF AllSeeds
<1>6. CASE e = Null
  <2>1. /\ UNCHANGED << wasm, engine >>
        /\ hasher' = [hasher EXCEPT ![i].seed = seed, ![i].total = 0,
                                    ![i].pure = Empty(seed)]
    BY <1>1, <1>6 DEF Reset
  <2>2. OneIs(hasher', hasher, i, e, seed, 0, f.state, Empty(seed))
    <3>1. SetPure(hasher', hasher, i, seed, Empty(seed))
      BY <2>1 DEF SetPure
    <3>2. QED
      BY <1>1, <1>3, <3>1, ResetFields
  <2>3. hasher' = [hasher EXCEPT ![i] =
           [ live |-> TRUE, engine |-> Null, seed |-> seed, total |-> 0,
             state |-> f.state, pure |-> [seed |-> seed, bytes |-> << >>] ]]
    BY <1>5, <1>6, <2>2 DEF OneIs
  <2>4. EnginesOK' /\ HashersOK'
    BY <1>1, <1>4, <1>5, <2>1, <2>3, PureHasherOK
  <2>5. QED
    BY <1>2, <2>4 DEF IInv
<1>7. CASE e # Null
  <2> DEFINE m     == Reserved(engine[e], StatePtr + StateSize)
             cells == StreamInit(m.cells, StatePtr, seed)
  <2>1. /\ engine' = [engine EXCEPT ![e] = [m EXCEPT !.cells = cells]]
        /\ hasher' = [hasher EXCEPT ![i].seed = seed, ![i].total = 0,
                                    ![i].state = Fetched(m, cells, f.state)]
    BY <1>7 DEF Reset
  <2>2. e \in 1 .. Len(engine) /\ OutPtr <= Size(engine[e])
    BY <1>1, <1>3, <1>7 DEF HasherOK
  <2>3. Granted(e, StatePtr + StateSize)
    <3>1. MemoryOK(engine[e])
      BY <1>3, <2>2 DEF EnginesOK
    <3>2. ~MustGrow(engine[e], StatePtr + StateSize)
      <4>1. Size(engine[e]) \in Nat
        BY <3>1, SizeType
      <4>2. QED
        BY <2>2, <4>1, PtrFacts, SMT DEF MustGrow
    <3>3. engine[e].pages <= MaxPages
      BY <3>1, SizeFacts, SMT DEF MemoryOK
    <3>4. QED
      BY <3>2, <3>3 DEF Granted, Grown
  <2>4. Fetched(m, cells, f.state) = Cells(Empty(seed))
    BY <1>3, <2>2, <2>3, InitFetched
  <2>5. SetState(hasher', hasher, i, seed, Cells(Empty(seed)))
    <3> HIDE DEF m, cells
    <3>1. QED
      BY <2>1, <2>4 DEF SetState
  <2>6. hasher' = [hasher EXCEPT ![i] =
           [ live |-> TRUE, engine |-> e, seed |-> seed, total |-> 0,
             state |-> Cells(Empty(seed)), pure |-> f.pure ]]
    <3>1. OneIs(hasher', hasher, i, e, seed, 0, Cells(Empty(seed)), f.pure)
      BY <1>1, <1>3, <2>5, ResetFields
    <3>2. QED
      BY <3>1 DEF OneIs
  <2>7. EnginesOK' /\ HashersOK'
    <3> DEFINE p == f.pure
    <3>1. /\ p \in States
          /\ hasher' = [hasher EXCEPT ![i] =
               [ live |-> TRUE, engine |-> e, seed |-> seed, total |-> 0,
                 state |-> Cells(Empty(seed)), pure |-> p ]]
      BY <1>4, <2>6
    <3>2. /\ engine' = [engine EXCEPT ![e] =
               [Reserved(engine[e], StatePtr + StateSize) EXCEPT !.cells =
                  StreamInit(Reserved(engine[e], StatePtr + StateSize).cells,
                             StatePtr, seed)]]
      BY <2>1
    <3> HIDE DEF e, p, m, cells
    <3>3. QED
      BY <1>1, <2>2, <2>3, <3>1, <3>2, StartsEmpty
  <2>8. QED
    BY <1>2, <2>7 DEF IInv
<1>8. QED
  BY <1>6, <1>7

(* A hasher whose engine has reserved its cells, with a state of its own.  *)
LEMMA WasmHasherOK ==
  ASSUME HashersOK, EnginesGrow, NEW i \in Hashers, NEW e \in 1 .. Len(engine'), e # Null,
         OutPtr <= Size(engine'[e]),
         NEW s \in AllSeeds, NEW t \in Nat, NEW b \in Seq(Bytes), NEW p \in States,
         OneIs(hasher', hasher, i, e, s, t, Cells([seed |-> s, bytes |-> b]), p),
         kept' = [kept EXCEPT ![i] = b]
  PROVE  HashersOK'
<1> DEFINE r == [ live |-> TRUE, engine |-> e, seed |-> s, total |-> t,
                  state |-> Cells([seed |-> s, bytes |-> b]), pure |-> p ]
<1>1. r \in HasherType
  <2>1. [seed |-> s, bytes |-> b] \in States
    BY DEF States
  <2>2. e \in Nat
    BY SMT DEF EnginesGrow
  <2>3. Cells([seed |-> s, bytes |-> b]) \in Seq([state : States, part : Nat])
    BY <2>1, CellsType
  <2>4. QED
    BY <2>2, <2>3 DEF HasherType
<1>2. hasher' = [hasher EXCEPT ![i] = r]
  BY DEF OneIs
<1>3. r.live /\ r.engine = e /\ r.seed = s /\ r.state = Cells([seed |-> s, bytes |-> b])
  OBVIOUS
<1> HIDE DEF r
<1>4. hasher'[i] = r /\ kept'[i] = b
  BY <1>2 DEF HashersOK
<1>5. HasherOK(i)'
  BY <1>3, <1>4 DEF HasherOK
<1>6. QED
  BY <1>1, <1>2, <1>5, OneHasher

(* What is known of a hasher on an engine between two calls.               *)
LEMMA OnEngine ==
  ASSUME IInv, NEW i \in Hashers, hasher[i].live, hasher[i].engine # Null
  PROVE  /\ hasher \in [Hashers -> HasherType] /\ hasher[i].engine \in 1 .. Len(engine)
         /\ hasher[i].state = Cells([seed |-> hasher[i].seed, bytes |-> kept[i]])
         /\ OutPtr <= Size(engine[hasher[i].engine])
         /\ hasher[i].seed \in AllSeeds /\ hasher[i].total \in Nat
         /\ kept[i] \in Seq(Bytes) /\ hasher[i].pure \in States
         /\ [seed |-> hasher[i].seed, bytes |-> kept[i]] \in States
<1>1. hasher \in [Hashers -> HasherType] /\ kept[i] \in Seq(Bytes) /\ HasherOK(i)
  BY DEF IInv, HashersOK
<1>2. /\ hasher[i].engine \in 1 .. Len(engine)
      /\ hasher[i].state = Cells([seed |-> hasher[i].seed, bytes |-> kept[i]])
      /\ OutPtr <= Size(engine[hasher[i].engine])
  BY <1>1 DEF HasherOK
<1>3. hasher[i].seed \in AllSeeds /\ hasher[i].total \in Nat /\ hasher[i].pure \in States
  BY <1>1, AsRecord
<1>4. [seed |-> hasher[i].seed, bytes |-> kept[i]] \in States
  BY <1>1, <1>3 DEF States
<1>5. QED
  BY <1>1, <1>2, <1>3, <1>4

LEMMA DataType ==
  ASSUME IInv, NEW i \in Hashers, NEW n \in Nat
  PROVE  Data(i, n) \in Seq(Bytes) /\ Len(Data(i, n)) = n
<1>1. hasher[i].total \in Nat
  <2>1. hasher[i] \in HasherType
    BY DEF IInv, HashersOK
  <2>2. QED
    BY <2>1, AsRecord
<1>2. \A k \in 1 .. n : Byte(<< i, hasher[i].total + k >>) \in Bytes
  <2>1. \A k \in 1 .. n : << i, hasher[i].total + k >> \in Hashers \X Nat
    BY <1>1, SMT
  <2>2. \A x \in Hashers \X Nat : [byte |-> x] \in Bytes
    BY DEF Bytes
  <2>3. QED
    BY <2>1, <2>2 DEF Byte
<1>3. Data(i, n) \in [1 .. n -> Bytes]
  BY <1>2 DEF Data
<1>4. QED
  BY <1>3, FunctionIsSeq

LEMMA UpdatePreserves ==
  ASSUME IInv, NEW i \in Hashers, NEW n \in Lengths, Update(i, n) PROVE IInv'
<1> DEFINE f == hasher[i]
<1>1. /\ f.live /\ n > 0 /\ threw' = "nothing" /\ out' = NoDigest
      /\ UNCHANGED << wasm, engine >> /\ updating = Idle
  BY DEF Update
<1>2. n \in Nat /\ Data(i, n) \in Seq(Bytes) /\ Len(Data(i, n)) = n
  BY SizeFacts, DataType
<1>3. Data(i, n) # << >>
  BY <1>1, <1>2, EmptySeq, SMT
<1>4. ResultsRight' /\ FailsOnlyWhenRefused'
  BY <1>1 DEF ResultsRight, NoDigest, FailsOnlyWhenRefused
<1>5. EnginesOK' /\ EnginesGrow /\ HashersOK
  BY <1>1, EnginesStay DEF IInv
<1>6. /\ f \in HasherType /\ hasher \in [Hashers -> HasherType] /\ HasherOK(i)
      /\ kept \in [Hashers -> Seq(Bytes)]
  BY <1>5 DEF HashersOK
<1>7. f.seed \in AllSeeds /\ f.total + n \in Nat /\ f.state \in Seq([state : States, part : Nat])
  <2>1. f.seed \in AllSeeds /\ f.total \in Nat /\ f.state \in Seq([state : States, part : Nat])
    BY <1>6, AsRecord
  <2>2. QED
    BY <1>2, <2>1, SMT
<1>8. CASE f.engine = Null
  <2> DEFINE b == kept[i] \o Data(i, n)
  <2>1. /\ AddBytes(hasher', hasher, i, n, Data(i, n)) /\ UNCHANGED updating
        /\ kept' = [kept EXCEPT ![i] = b]
    BY <1>8 DEF Update, AddBytes
  <2>2. f.pure = [seed |-> f.seed, bytes |-> kept[i]]
    BY <1>1, <1>6, <1>8 DEF HasherOK
  <2>3. b \in Seq(Bytes)
    BY <1>2, <1>6, ConcatProperties
  <2>4. OneIs(hasher', hasher, i, f.engine, f.seed, f.total + n, f.state,
              [seed |-> f.seed, bytes |-> b])
    BY <1>1, <1>6, <2>1, <2>2, PureFields
  <2> HIDE DEF b
  <2>5. EnginesOK' /\ HashersOK'
    <3> DEFINE s == f.seed  t == f.total + n  c == f.state  e == f.engine
    <3>1. /\ s \in AllSeeds /\ t \in Nat /\ c \in Seq([state : States, part : Nat])
          /\ e = Null
          /\ OneIs(hasher', hasher, i, e, s, t, c, [seed |-> s, bytes |-> b])
      BY <1>7, <1>8, <2>4
    <3> HIDE DEF s, t, c, e
    <3>2. hasher' = [hasher EXCEPT ![i] =
             [ live |-> TRUE, engine |-> Null, seed |-> s, total |-> t,
               state |-> c, pure |-> [seed |-> s, bytes |-> b] ]]
      BY <3>1 DEF OneIs
    <3>3. QED
      BY <1>1, <2>1, <2>3, <3>1, <3>2, PureHasherOK
  <2>6. UpdatingOK'
    BY <1>1, <2>1 DEF UpdatingOK
  <2>7. QED
    BY <1>4, <2>5, <2>6 DEF IInv
<1>9. CASE f.engine # Null
  <2>1. /\ AddTotal(hasher', hasher, i, n) /\ UNCHANGED kept
        /\ updating' = [who |-> i, data |-> Data(i, n)]
    BY <1>9 DEF Update, AddTotal
  <2>2. OneIs(hasher', hasher, i, f.engine, f.seed, f.total + n, f.state, f.pure)
    BY <1>1, <1>6, <2>1, OneField
  <2>3. /\ f.engine \in 1 .. Len(engine) /\ OutPtr <= Size(engine[f.engine])
        /\ f.state = Cells([seed |-> f.seed, bytes |-> kept[i]])
        /\ kept[i] \in Seq(Bytes) /\ f.pure \in States
    BY <1>1, <1>9, OnEngine
  <2>4. kept' = [kept EXCEPT ![i] = kept[i]]
    BY <1>6, <2>1
  <2>5. HashersOK'
    <3> DEFINE s == f.seed  t == f.total + n  p == f.pure  e == f.engine  b == kept[i]
    <3>1. /\ s \in AllSeeds /\ t \in Nat /\ p \in States /\ b \in Seq(Bytes)
          /\ e \in 1 .. Len(engine') /\ e # Null /\ OutPtr <= Size(engine'[e])
          /\ OneIs(hasher', hasher, i, e, s, t, Cells([seed |-> s, bytes |-> b]), p)
          /\ kept' = [kept EXCEPT ![i] = b]
      BY <1>1, <1>7, <1>9, <2>2, <2>3, <2>4
    <3> HIDE DEF s, t, p, e, b
    <3>2. QED
      BY <1>5, <3>1, WasmHasherOK
  <2>6. UpdatingOK'
    <3> DEFINE u == [who |-> i, data |-> Data(i, n)]
    <3>1. u = [who |-> u.who, data |-> u.data] /\ u.who = i /\ u.data = Data(i, n)
      OBVIOUS
    <3>2. hasher'[i].live /\ hasher'[i].engine = f.engine
      BY <1>6, <2>2 DEF OneIs
    <3> HIDE DEF u
    <3>3. updating' = u
      BY <2>1 DEF u
    <3>4. QED
      BY <1>2, <1>3, <1>9, <3>1, <3>2, <3>3 DEF UpdatingOK
  <2>7. QED
    BY <1>4, <1>5, <2>5, <2>6 DEF IInv
<1>10. QED
  BY <1>8, <1>9

(* The next chunk of the input of an update, and what is left after it.    *)
LEMMA ChunkType ==
  ASSUME NEW d \in Seq(Bytes), d # << >>, NEW n,
         n = (IF Len(d) < MaxLen THEN Len(d) ELSE MaxLen)
  PROVE  /\ n \in Nat /\ SubSeq(d, 1, n) \in Seq(Bytes) /\ Len(SubSeq(d, 1, n)) = n
         /\ SubSeq(d, n + 1, Len(d)) \in Seq(Bytes)
<1>1. Len(d) \in Nat /\ Len(d) > 0
  BY EmptySeq, SMT
<1>2. n \in 1 .. Len(d) /\ n + 1 \in 1 .. Len(d) + 1 /\ n - 1 + 1 = n
  BY <1>1, SizeFacts, SMT
<1>3. SubSeq(d, 1, n) \in Seq(Bytes) /\ Len(SubSeq(d, 1, n)) = n
  <2>1. 1 \in 1 .. Len(d) + 1 /\ n \in 1 - 1 .. Len(d) /\ n - 1 + 1 = n
    BY <1>1, <1>2, SMT
  <2>2. QED
    BY <2>1, SubSeqProperties
<1>4. SubSeq(d, n + 1, Len(d)) \in Seq(Bytes)
  <2>1. Len(d) \in (n + 1) - 1 .. Len(d)
    BY <1>1, <1>2, SMT
  <2>2. QED
    BY <1>2, <2>1, SubSeqProperties
<1>5. QED
  BY <1>2, <1>3, <1>4, SMT

LEMMA ChunkPreserves == ASSUME IInv, Chunk PROVE IInv'
<1> DEFINE i      == updating.who
           f      == hasher[i]
           e      == f.engine
           n      == IF Len(updating.data) < MaxLen THEN Len(updating.data) ELSE MaxLen
           chunk  == SubSeq(updating.data, 1, n)
           rest   == SubSeq(updating.data, n + 1, Len(updating.data))
           needed == InputPtr + n
           m      == Reserved(engine[e], needed)
           ok     == CanSet(m, InputPtr, n)
           put    == Write(Write(m.cells, StatePtr, f.state), InputPtr, chunk)
           cells  == IF ok THEN StreamUpdate(put, StatePtr, InputPtr, n) ELSE m.cells
           st     == [seed |-> f.seed, bytes |-> kept[i]]
           b      == kept[i] \o chunk
<1>1. updating # Idle /\ out' = NoDigest /\ wasm' = wasm
  BY DEF Chunk
<1>2. /\ updating = [who |-> i, data |-> updating.data]
      /\ i \in Hashers /\ updating.data \in Seq(Bytes) /\ updating.data # << >>
      /\ f.live /\ e # Null
  BY <1>1 DEF IInv, UpdatingOK
<1>3. ResultsRight'
  BY <1>1 DEF ResultsRight, NoDigest
<1>4. CASE /\ Refused(e, needed) /\ updating' = Idle /\ UNCHANGED << engine, hasher, kept >>
  <2>1. FailsOnlyWhenRefused'
    BY <1>4 DEF Refused, FailsOnlyWhenRefused
  <2>2. QED
    BY <1>1, <1>3, <1>4, <2>1, NothingWritten
<1>5. CASE ~(Refused(e, needed) /\ updating' = Idle /\ UNCHANGED << engine, hasher, kept >>)
  <2>1. /\ Granted(e, needed)
        /\ engine' = [engine EXCEPT ![e] = [m EXCEPT !.cells = cells]]
        /\ hasher' = IF ok THEN [hasher EXCEPT ![i].state = Read(cells, StatePtr, StateSize)]
                           ELSE hasher
        /\ kept' = IF ok THEN [kept EXCEPT ![i] = @ \o chunk] ELSE kept
        /\ updating' = IF ok /\ rest # << >> THEN [updating EXCEPT !.data = rest] ELSE Idle
        /\ threw' = Outcome(ok)
    BY <1>5 DEF Chunk
  <2>2. /\ hasher \in [Hashers -> HasherType] /\ e \in 1 .. Len(engine)
        /\ f.state = Cells(st) /\ f.seed \in AllSeeds /\ f.total \in Nat
        /\ kept[i] \in Seq(Bytes) /\ f.pure \in States /\ st \in States
    BY <1>2, OnEngine
  <2>3. /\ n \in Nat /\ chunk \in Seq(Bytes) /\ Len(chunk) = n /\ rest \in Seq(Bytes)
    BY <1>2, ChunkType
  <2> HIDE DEF n, chunk, rest
  <2>4. needed \in Nat /\ InputPtr \in Nat /\ InputPtr + n <= needed /\ OutPtr <= needed
        /\ OutPtr \in Nat
    BY <2>3, PtrFacts, SizeFacts, SMT
  <2> HIDE DEF needed
  <2>5. m.view = m.pages /\ Laid(m.cells) /\ needed <= Limit /\ ok
    BY <2>1, <2>2, <2>3, <2>4, ReservedUsable DEF IInv
  <2>6. /\ Laid(StreamUpdate(put, StatePtr, InputPtr, n))
        /\ Read(StreamUpdate(put, StatePtr, InputPtr, n), StatePtr, StateSize) =
             Cells([seed |-> st.seed, bytes |-> st.bytes \o chunk])
    <3>1. InputPtr + n <= Limit
      BY <2>3, <2>4, <2>5, LimitType, SMT
    <3>2. put = Write(Write(m.cells, StatePtr, Cells(st)), InputPtr, chunk)
      BY <2>2
    <3> DEFINE mem == m.cells
    <3>3. Laid(mem) /\ put = Write(Write(mem, StatePtr, Cells(st)), InputPtr, chunk)
      BY <2>5, <3>2
    <3> HIDE DEF mem, m, st, put
    <3>4. QED
      BY <2>2, <2>3, <3>1, <3>3, UpdatedState
  <2>7. st.seed = f.seed /\ st.bytes = kept[i]
    OBVIOUS
  <2>8. Laid(cells) /\ Read(cells, StatePtr, StateSize) = Cells([seed |-> f.seed, bytes |-> b])
    <3> HIDE DEF put, m, ok, st
    <3>1. QED
      BY <2>5, <2>6, <2>7
  <2>9. /\ EnginesOK' /\ EnginesGrow /\ Len(engine') = Len(engine)
        /\ needed <= Size(engine'[e])
    <3> HIDE DEF cells, e
    <3>1. QED
      BY <1>1, <2>1, <2>2, <2>4, <2>8, EngineWritten DEF IInv
  <2>10. b \in Seq(Bytes)
    BY <2>2, <2>3, ConcatProperties
  <2>11. NewCells(hasher', hasher, i, Cells([seed |-> f.seed, bytes |-> b]))
    <3> HIDE DEF cells, ok, b
    <3>1. QED
      BY <2>1, <2>5, <2>8 DEF NewCells
  <2>12. kept' = [kept EXCEPT ![i] = b]
    <3> HIDE DEF ok
    <3>1. QED
      BY <2>1, <2>5
  <2>13. HashersOK'
    <3>1. OneIs(hasher', hasher, i, e, f.seed, f.total, Cells([seed |-> f.seed, bytes |-> b]),
                f.pure)
      BY <1>2, <2>2, <2>11, OneField
    <3>2. HashersOK /\ OutPtr <= Size(engine'[e]) /\ e \in 1 .. Len(engine')
      <4>1. Size(engine'[e]) \in Nat
        BY <2>2, <2>9 DEF EnginesGrow
      <4>2. QED
        BY <2>2, <2>4, <2>9, <4>1, SMT DEF IInv
    <3> DEFINE s == f.seed  t == f.total  p == f.pure  x == i
    <3>3. /\ s \in AllSeeds /\ t \in Nat /\ p \in States /\ b \in Seq(Bytes) /\ x \in Hashers
          /\ e \in 1 .. Len(engine') /\ e # Null /\ OutPtr <= Size(engine'[e])
          /\ OneIs(hasher', hasher, x, e, s, t, Cells([seed |-> s, bytes |-> b]), p)
          /\ kept' = [kept EXCEPT ![x] = b]
      BY <1>2, <2>2, <2>10, <2>12, <3>1, <3>2
    <3> HIDE DEF s, t, p, e, b, x
    <3>4. QED
      BY <2>9, <3>2, <3>3, WasmHasherOK
  <2>14. FailsOnlyWhenRefused'
    <3> HIDE DEF ok
    <3>1. QED
      BY <2>1, <2>5 DEF Outcome, FailsOnlyWhenRefused
  <2>15. UpdatingOK'
    <3>1. CASE rest = << >>
      BY <2>1, <3>1 DEF UpdatingOK
    <3>2. CASE rest # << >>
      <4> DEFINE u == [who |-> i, data |-> rest]
      <4>1. updating' = [updating EXCEPT !.data = rest]
        <5> HIDE DEF ok
        <5>1. QED
          BY <2>1, <2>5, <3>2
      <4>2. updating' = u
        BY <1>2, <4>1
      <4>3. u.who = i /\ u.data = rest /\ u = [who |-> u.who, data |-> u.data]
        OBVIOUS
      <4>4. hasher'[i].live /\ hasher'[i].engine # Null
        <5>1. OneIs(hasher', hasher, i, e, f.seed, f.total,
                    Cells([seed |-> f.seed, bytes |-> b]), f.pure)
          BY <1>2, <2>2, <2>11, OneField
        <5>2. hasher'[i].live = TRUE /\ hasher'[i].engine = e
          BY <1>2, <2>2, <5>1 DEF OneIs
        <5>3. QED
          BY <1>2, <5>2
      <4> HIDE DEF u, e, f
      <4>5. QED
        BY <1>2, <2>3, <3>2, <4>2, <4>3, <4>4 DEF UpdatingOK
    <3>3. QED
      BY <3>1, <3>2
  <2>16. QED
    BY <1>3, <2>9, <2>13, <2>14, <2>15 DEF IInv
<1>6. QED
  BY <1>4, <1>5

(* Calls that write engine e, leave the hashers alone and give a result.   *)
LEMMA OnlyScratch ==
  ASSUME IInv, NEW e \in 1 .. Len(engine), NEW needed \in Nat, Granted(e, needed),
         NEW c, Laid(c),
         engine' = [engine EXCEPT ![e] = [Reserved(engine[e], needed) EXCEPT !.cells = c]],
         UNCHANGED << wasm, hasher, kept, updating >>,
         ResultsRight', FailsOnlyWhenRefused'
  PROVE  IInv'
<1>1. EnginesOK' /\ EnginesGrow
  BY EngineWritten DEF IInv
<1>2. HashersOK'
  BY <1>1, HashersStay DEF IInv
<1>3. UpdatingOK'
  BY DEF IInv, UpdatingOK
<1>4. QED
  BY <1>1, <1>2, <1>3 DEF IInv

LEMMA DigestPreserves ==
  ASSUME IInv, NEW i \in Hashers, Digest(i) PROVE IInv'
<1> DEFINE f      == hasher[i]
           e      == f.engine
           due    == [seed |-> f.seed, bytes |-> kept[i]]
           needed == OutPtr + OutSize
           m      == Reserved(engine[e], needed)
           ok     == CanSet(m, StatePtr, StateSize)
           put    == Write(m.cells, StatePtr, f.state)
           cells  == IF ok THEN StreamDigest(put, StatePtr, OutPtr) ELSE m.cells
<1>1. f.live /\ UNCHANGED << wasm, hasher, kept, updating >>
  BY DEF Digest
<1>2. CASE e = Null
  <2>1. out' = [got |-> f.pure, due |-> due] /\ threw' = "nothing" /\ UNCHANGED engine
    BY <1>2 DEF Digest
  <2>2. f.pure = due
    BY <1>1, <1>2 DEF IInv, HashersOK, HasherOK
  <2>3. ResultsRight' /\ FailsOnlyWhenRefused'
    BY <2>1, <2>2 DEF ResultsRight, FailsOnlyWhenRefused
  <2>4. QED
    BY <1>1, <2>1, <2>3, NothingWritten
<1>3. CASE e # Null /\ Refused(e, needed) /\ out' = NoDigest /\ UNCHANGED engine
  <2>1. ResultsRight' /\ FailsOnlyWhenRefused'
    BY <1>3 DEF Refused, NoDigest, ResultsRight, FailsOnlyWhenRefused
  <2>2. QED
    BY <1>1, <1>3, <2>1, NothingWritten
<1>4. CASE /\ e # Null
           /\ ~(e # Null /\ Refused(e, needed) /\ out' = NoDigest /\ UNCHANGED engine)
  <2>1. /\ Granted(e, needed)
        /\ engine' = [engine EXCEPT ![e] = [m EXCEPT !.cells = cells]]
        /\ out' = IF ok THEN [got |-> cells[OutPtr].digest, due |-> due] ELSE NoDigest
        /\ threw' = Outcome(ok)
    BY <1>4 DEF Digest
  <2>2. e \in 1 .. Len(engine) /\ f.state = Cells(due)
    BY <1>1, <1>4, OnEngine
  <2>3. /\ needed \in Nat /\ StatePtr \in Nat /\ StateSize \in Nat
        /\ StatePtr + StateSize <= needed
    BY PtrFacts, SizeFacts, SMT
  <2>4. m.view = m.pages /\ Laid(m.cells) /\ needed <= Limit /\ ok
    <3> HIDE DEF needed
    <3>1. QED
      BY <2>1, <2>2, <2>3, ReservedUsable DEF IInv
  <2>5. /\ Laid(StreamDigest(put, StatePtr, OutPtr))
        /\ StreamDigest(put, StatePtr, OutPtr)[OutPtr].digest = due
    <3> DEFINE mem == m.cells
    <3>1. Laid(mem) /\ put = Write(mem, StatePtr, Cells(due)) /\ OutPtr + OutSize <= Limit
      BY <2>2, <2>4
    <3> HIDE DEF mem, m, due, put
    <3>2. QED
      BY <3>1, DigestedState
  <2>6. Laid(cells) /\ cells[OutPtr].digest = due
    <3> HIDE DEF put, m, ok, due
    <3>1. QED
      BY <2>4, <2>5
  <2>7. ResultsRight' /\ FailsOnlyWhenRefused'
    <3> HIDE DEF ok, cells, due
    <3>1. QED
      BY <2>1, <2>4, <2>6 DEF Outcome, ResultsRight, FailsOnlyWhenRefused
  <2>8. QED
    <3> HIDE DEF cells, e, needed
    <3>1. QED
      BY <1>1, <2>1, <2>2, <2>3, <2>6, <2>7, OnlyScratch
<1>5. QED
  BY <1>2, <1>3, <1>4

LEMMA OneShotPreserves ==
  ASSUME IInv, NEW width \in {64, 128}, NEW n \in OneShots, NEW seed \in Seeds,
         OneShot(width, n, seed)
  PROVE  IInv'
<1> DEFINE e      == wasm
           data   == OneShotData(n)
           due    == [seed |-> seed, bytes |-> data]
           at     == IF width = 64 THEN HeapBase ELSE HeapBase + OutSize
           m      == Reserved(engine[e], at + n)
           ok     == CanSet(m, at, n)
           put    == Write(m.cells, at, data)
           got    == HashOf(put, at, n, seed)
           cells  == IF ~ok THEN m.cells
                     ELSE IF width = 64 THEN put
                     ELSE Hash128(put, at, n, seed, HeapBase)
<1>1. UNCHANGED << wasm, hasher, kept, updating >>
  BY DEF OneShot
<1>2. CASE (e = Null \/ n > MaxLen) /\ threw' = "nothing" /\ UNCHANGED engine
           /\ out' = [got |-> due, due |-> due]
  <2>1. ResultsRight' /\ FailsOnlyWhenRefused'
    BY <1>2 DEF ResultsRight, FailsOnlyWhenRefused
  <2>2. QED
    BY <1>1, <1>2, <2>1, NothingWritten
<1>3. CASE Refused(e, at + n) /\ out' = NoDigest /\ UNCHANGED engine
  <2>1. ResultsRight' /\ FailsOnlyWhenRefused'
    BY <1>3 DEF Refused, NoDigest, ResultsRight, FailsOnlyWhenRefused
  <2>2. QED
    BY <1>1, <1>3, <2>1, NothingWritten
<1>4. CASE /\ e # Null /\ Granted(e, at + n)
           /\ engine' = [engine EXCEPT ![e] = [m EXCEPT !.cells = cells]]
           /\ out' = IF ok THEN [ got |-> IF width = 64 THEN got ELSE cells[HeapBase].digest,
                                  due |-> due ]
                           ELSE NoDigest
           /\ threw' = Outcome(ok)
  <2>1. e \in 1 .. Len(engine) /\ EnginesOK
    BY <1>4, SMT DEF IInv, EnginesOK, Null
  <2>2. /\ at \in Nat /\ n \in Nat /\ at + n \in Nat
        /\ width # 64 => HeapBase + OutSize <= at + n
    BY SizeFacts, SMT
  <2>3. Run(data, n)
    <3>1. data = [k \in 1 .. n |-> data[k]]
      BY DEF OneShotData
    <3> HIDE DEF data
    <3>2. QED
      BY <2>2, <3>1, MakeRun
  <2> HIDE DEF at, data
  <2>4. m.view = m.pages /\ Laid(m.cells) /\ at + n <= Limit /\ ok
    <3> DEFINE needed == at + n
    <3>1. needed \in Nat /\ Granted(e, needed) /\ at + n <= needed
      BY <1>4, <2>2, SMT
    <3>2. m = Reserved(engine[e], needed)
      OBVIOUS
    <3> HIDE DEF needed, m
    <3>3. m.view = m.pages /\ Laid(m.cells) /\ needed <= Limit /\ CanSet(m, at, n)
      BY <2>1, <2>2, <3>1, <3>2, ReservedUsable
    <3>4. QED
      BY <3>3 DEF needed
  <2>5. /\ Laid(put) /\ got = due
        /\ width # 64 => /\ Laid(Hash128(put, at, n, seed, HeapBase))
                         /\ Hash128(put, at, n, seed, HeapBase)[HeapBase].digest = due
    <3>1. width # 64 => HeapBase + OutSize <= Limit
      BY <2>2, <2>4, LimitType, SizeFacts, SMT
    <3> DEFINE mem == m.cells
    <3>2. Laid(mem) /\ put = Write(mem, at, data)
      BY <2>4
    <3> HIDE DEF mem, m, put
    <3>3. QED
      BY <2>2, <2>3, <2>4, <3>1, <3>2, HashedInput
  <2> HIDE DEF m, put, got, due, ok
  <2>6. Laid(cells) /\ (width # 64 => cells[HeapBase].digest = due)
    BY <2>4, <2>5
  <2>7. ResultsRight' /\ FailsOnlyWhenRefused'
    <3> HIDE DEF cells
    <3>1. out'.got = due /\ out'.due = due
      BY <1>4, <2>4, <2>5, <2>6
    <3>2. QED
      BY <1>4, <2>4, <3>1 DEF Outcome, ResultsRight, FailsOnlyWhenRefused
  <2>8. engine' = [engine EXCEPT ![e] = [Reserved(engine[e], at + n) EXCEPT !.cells = cells]]
    BY <1>4 DEF m
  <2>9. QED
    <3> HIDE DEF cells, e
    <3>1. QED
      BY <1>1, <1>4, <2>1, <2>2, <2>6, <2>7, <2>8, OnlyScratch
<1>5. QED
  BY <1>2, <1>3, <1>4 DEF OneShot

LEMMA NextPreserves == IInv /\ [Next]_vars => IInv'
<1> SUFFICES ASSUME IInv, [Next]_vars PROVE IInv'
  OBVIOUS
<1>1. CASE SetModule \/ SetWrongModule
  BY <1>1, SetModulePreserves
<1>2. ASSUME NEW i \in Hashers, NEW s \in Seeds,
             NewWasm(i, s) \/ NewPure(i, s) \/ Reset(i, s)
      PROVE  IInv'
  BY <1>2, NewWasmPreserves, NewPurePreserves, ResetPreserves
<1>3. ASSUME NEW i \in Hashers, NEW n \in Lengths, Update(i, n) PROVE IInv'
  BY <1>3, UpdatePreserves
<1>4. CASE Chunk
  BY <1>4, ChunkPreserves
<1>5. ASSUME NEW i \in Hashers, Digest(i) PROVE IInv'
  BY <1>5, DigestPreserves
<1>6. ASSUME NEW width \in {64, 128}, NEW n \in OneShots, NEW s \in Seeds,
             OneShot(width, n, s)
      PROVE  IInv'
  BY <1>6, OneShotPreserves
<1>7. CASE UNCHANGED vars
  BY <1>7, NothingWritten DEF vars, IInv, ResultsRight, FailsOnlyWhenRefused
<1>8. QED
  BY <1>1, <1>2, <1>3, <1>4, <1>5, <1>6, <1>7 DEF Next

(* The invariant holds in every reachable state: after any calls, refused  *)
(* or not, on any engines.                                                 *)
THEOREM Inductive == Spec => []IInv
BY InitEstablishes, NextPreserves, PTL DEF Spec

(* StatesAreOwn: whatever is left in the scratch cells of whichever engine,*)
(* a hasher's state is its seed and the chunks it has absorbed.            *)
THEOREM StatesStayOwn == Spec => []StatesAreOwn
<1>1. IInv => StatesAreOwn
  <2> SUFFICES ASSUME IInv, NEW i \in Hashers, hasher[i].live
               PROVE  (IF hasher[i].engine = Null THEN hasher[i].pure
                       ELSE StateIn(hasher[i].state))
                        = [seed |-> hasher[i].seed, bytes |-> kept[i]]
    BY DEF StatesAreOwn
  <2>1. CASE hasher[i].engine = Null
    BY <2>1 DEF IInv, HashersOK, HasherOK
  <2>2. CASE hasher[i].engine # Null
    BY <2>2, OnEngine, StateInCells
  <2>3. QED
    BY <2>1, <2>2
<1>2. QED
  BY <1>1, Inductive, PTL

(* ResultsRight: digest64(), digest128() and the one-shot functions return *)
(* the digest of what was absorbed, or of their argument, and never of     *)
(* what another call left in memory.                                       *)
THEOREM ResultsStayRight == Spec => []ResultsRight
<1>1. IInv => ResultsRight
  BY DEF IInv
<1>2. QED
  BY <1>1, Inductive, PTL

(* FailsOnlyWhenRefused: no call writes through the view of a memory that  *)
(* an earlier call made grow.                                              *)
THEOREM NeverDetached == Spec => []FailsOnlyWhenRefused
<1>1. IInv => FailsOnlyWhenRefused
  BY DEF IInv
<1>2. QED
  BY <1>1, Inductive, PTL

=============================================================================
