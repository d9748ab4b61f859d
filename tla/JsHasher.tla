------------------------------ MODULE JsHasher ------------------------------
(***************************************************************************)
(* The JavaScript package: hashers and one-shot functions over a wasm      *)
(* engine (js/src/index.ts, wasm.ts, js/wasm/shim.c).                      *)
(*                                                                         *)
(* Every call of an engine copies what it needs into scratch cells of one  *)
(* linear memory: the state of whichever hasher is calling, the digest and *)
(* the input.  Memory grows on demand, which detaches every view of it;    *)
(* the environment may refuse to grow it, and the call then throws.  JS    *)
(* runs one call at a time, so a step here is a call, except that an       *)
(* update is one step to count its length and one per chunk: the first     *)
(* chunk, which is the longest, may be refused memory.                     *)
(*                                                                         *)
(* A streaming state, whose inside is the subject of HayaStream, is here   *)
(* the seed and the bytes absorbed, spread over StateSize cells.           *)
(***************************************************************************)
EXTENDS Integers, Sequences

CONSTANTS
  Hashers,     \* instances of Hasher
  MaxEngines,  \* bound: engines that initWasmFromModule builds
  Seeds,
  Lengths,     \* lengths a caller passes to update
  OneShots,    \* and to hayahash64 and hayahash128
  MaxLen,      \* WASM_MAX_LEN
  Page,        \* cells of a page
  HeapBase,    \* __heap_base
  StateSize,   \* hayahash_state_size()
  OutSize,     \* cells of a digest, 16 bytes in the code
  InitPages, MaxPages,
  MaxBytes     \* bound: bytes given to one hasher between resets

ASSUME JsAssumption ==
  /\ MaxEngines \in Nat
  /\ {MaxLen, Page, StateSize, OutSize, InitPages, MaxPages} \subseteq Nat \ {0}
  /\ HeapBase \in Nat /\ Lengths \subseteq Nat /\ OneShots \subseteq Nat
  /\ InitPages <= MaxPages

VARIABLES
  wasm,     \* the engine index.ts uses for new work, or Null
  engine,   \* the memory and the view `mem` of each engine built
  hasher,   \* the private fields of each Hasher
  kept,     \* history: bytes of every chunk whose absorption returned
  updating, \* the update that is running, or Idle
  out,      \* the digest the last call returned, if one, and the one due
  threw     \* what the last call threw, if it did

vars == << wasm, engine, hasher, kept, updating, out, threw >>

Null == 0
Idle == [who |-> "nobody"]
NoDigest == [got |-> Null, due |-> Null]

(***************************************************************************)
(* Linear memory.  A cell holds one part of a state, a digest, a byte, or  *)
(* the zero it was created with.                                           *)
(***************************************************************************)
Zero        == [zero |-> 0]
Part(st, i) == [state |-> st, part |-> i]
Word(d)     == [digest |-> d]
Byte(b)     == [byte |-> b]

Empty(seed) == [seed |-> seed, bytes |-> << >>]
Cells(st)   == [i \in 1 .. StateSize |-> Part(st, i)]

Read(mem, ptr, n) == [i \in 1 .. n |-> mem[ptr + i - 1]]
Write(mem, ptr, cells) ==
  [a \in DOMAIN mem |->
     IF a \in ptr .. ptr + Len(cells) - 1 THEN cells[a - ptr + 1] ELSE mem[a]]

(* The state that cells hold; parts of different states make no sense.     *)
Torn == [seed |-> Null, bytes |-> << Zero >>]
StateIn(cells) ==
  IF /\ "state" \in DOMAIN cells[1]
     /\ cells = Cells(cells[1].state)
  THEN cells[1].state ELSE Torn

FreshMemory ==
  [ pages |-> InitPages, view |-> InitPages,
    cells |-> [a \in 0 .. Page * MaxPages - 1 |-> Zero] ]

(* Scratch layout above __heap_base.                                       *)
StatePtr == HeapBase
OutPtr   == HeapBase + StateSize

(* Mutant of InputPtr: the state is taken to be one cell.                  *)
InputPtrInState == HeapBase + 1

InputPtr == OutPtr + OutSize

Size(m) == Page * m.pages
MustGrow(m, needed) == Size(m) < needed
Grown(m, needed) ==
  IF MustGrow(m, needed)
  THEN [m EXCEPT !.pages = @ + ((needed - Size(m) + Page - 1) \div Page)]
  ELSE m

(* Mutant of Reserved: the view of the memory as it was is kept.           *)
ReservedStale(m, needed) == Grown(m, needed)

(* reserve(): grow if needed, then refresh the view if it was detached.    *)
Reserved(m, needed) == LET g == Grown(m, needed) IN [g EXCEPT !.view = g.pages]

(* A view of an older buffer is detached: nothing can be set through it.   *)
CanSet(m, ptr, n) == m.view = m.pages /\ ptr + n <= Page * m.view

(***************************************************************************)
(* The exports of shim.c.                                                  *)
(***************************************************************************)
StreamInit(mem, st, seed) == Write(mem, st, Cells(Empty(seed)))

StreamUpdate(mem, st, p, n) ==
  LET old == StateIn(Read(mem, st, StateSize))
  IN  Write(mem, st, Cells([old EXCEPT !.bytes = @ \o Read(mem, p, n)]))

StreamDigest(mem, st, to) ==
  Write(mem, to, [i \in 1 .. OutSize |-> Word(StateIn(Read(mem, st, StateSize)))])

(* hayahash128(p, len, seed, out); hayahash64 returns its digest instead.  *)
HashOf(mem, p, n, seed) == [seed |-> seed, bytes |-> Read(mem, p, n)]
Hash128(mem, p, n, seed, to) ==
  Write(mem, to, [i \in 1 .. OutSize |-> Word(HashOf(mem, p, n, seed))])

(***************************************************************************)
(* Calls.                                                                  *)
(***************************************************************************)
Init ==
  /\ \/ wasm = 1 /\ engine = << FreshMemory >>
     \/ wasm = Null /\ engine = << >>     \* initWasm() returned null
  /\ hasher = [i \in Hashers |->
                 [ live |-> FALSE, engine |-> Null, seed |-> Null, total |-> 0,
                   state |-> << >>, pure |-> Empty(Null) ]]
  /\ kept = [i \in Hashers |-> << >>]
  /\ updating = Idle
  /\ out = NoDigest
  /\ threw = "nothing"

(* memory.grow() throws a RangeError when the environment refuses.         *)
Refused(e, needed) ==
  /\ MustGrow(engine[e], needed)
  /\ threw' = "refused"

Granted(e, needed) == Grown(engine[e], needed).pages <= MaxPages

(* Through a detached view nothing is copied.                              *)
Fetched(m, cells, old) ==
  IF m.view = m.pages THEN Read(cells, StatePtr, StateSize) ELSE old

Outcome(ok) == IF ok THEN "nothing" ELSE "detached"

(* setWasmModule, with a module that is the hayahash module and with one   *)
(* that is not.                                                            *)
SetModule ==
  /\ updating = Idle /\ Len(engine) < MaxEngines
  /\ engine' = Append(engine, FreshMemory)
  /\ wasm' = Len(engine')
  /\ threw' = "nothing"
  /\ out' = NoDigest
  /\ UNCHANGED << hasher, kept, updating >>

SetWrongModule ==
  /\ updating = Idle
  /\ threw' = "module"
  /\ out' = NoDigest
  /\ UNCHANGED << wasm, engine, hasher, kept, updating >>

(* new Hasher(seed), on the engine of the moment.                          *)
NewWasm(i, seed) ==
  LET e == wasm IN
  /\ updating = Idle /\ ~hasher[i].live /\ e # Null
  /\ \/ /\ Refused(e, StatePtr + StateSize)
        /\ UNCHANGED << engine, hasher, kept >>
     \/ /\ Granted(e, StatePtr + StateSize)
        /\ LET m     == Reserved(engine[e], StatePtr + StateSize)
               cells == StreamInit(m.cells, StatePtr, seed)
               blank == [c \in 1 .. StateSize |-> Zero]
           IN  /\ engine' = [engine EXCEPT ![e] = [m EXCEPT !.cells = cells]]
               /\ hasher' = [hasher EXCEPT ![i] =
                    [ live |-> TRUE, engine |-> e, seed |-> seed, total |-> 0,
                      state |-> Fetched(m, cells, blank), pure |-> Empty(Null) ]]
        /\ kept' = [kept EXCEPT ![i] = << >>]
        /\ threw' = "nothing"
  /\ out' = NoDigest
  /\ UNCHANGED << wasm, updating >>

NewPure(i, seed) ==
  /\ updating = Idle /\ ~hasher[i].live /\ wasm = Null
  /\ hasher' = [hasher EXCEPT ![i] =
       [ live |-> TRUE, engine |-> Null, seed |-> seed, total |-> 0,
         state |-> << >>, pure |-> Empty(seed) ]]
  /\ kept' = [kept EXCEPT ![i] = << >>]
  /\ threw' = "nothing"
  /\ out' = NoDigest
  /\ UNCHANGED << wasm, engine, updating >>

(* Mutant of Reset: the new seed is recorded and the old one used.         *)
ResetOldSeed(i, seed) ==
  LET f == hasher[i] IN
  /\ updating = Idle /\ f.live
  /\ IF f.engine = Null
     THEN /\ hasher' = [hasher EXCEPT ![i].seed = seed, ![i].total = 0,
                                      ![i].pure = Empty(f.seed)]
          /\ UNCHANGED engine
     ELSE LET m     == Reserved(engine[f.engine], StatePtr + StateSize)
              cells == StreamInit(m.cells, StatePtr, f.seed)
          IN  /\ engine' = [engine EXCEPT ![f.engine] = [m EXCEPT !.cells = cells]]
              /\ hasher' = [hasher EXCEPT ![i].seed = seed, ![i].total = 0,
                                          ![i].state = Fetched(m, cells, @)]
  /\ kept' = [kept EXCEPT ![i] = << >>]
  /\ threw' = "nothing"
  /\ out' = NoDigest
  /\ UNCHANGED << wasm, updating >>

(* reset(seed): on the engine captured at construction, which reserved the *)
(* cells of the state then.  reset() passes the seed it has.               *)
Reset(i, seed) ==
  LET f == hasher[i] IN
  /\ updating = Idle /\ f.live
  /\ IF f.engine = Null
     THEN /\ hasher' = [hasher EXCEPT ![i].seed = seed, ![i].total = 0,
                                      ![i].pure = Empty(seed)]
          /\ UNCHANGED engine
     ELSE LET m     == Reserved(engine[f.engine], StatePtr + StateSize)
              cells == StreamInit(m.cells, StatePtr, seed)
          IN  /\ engine' = [engine EXCEPT ![f.engine] = [m EXCEPT !.cells = cells]]
              /\ hasher' = [hasher EXCEPT ![i].seed = seed, ![i].total = 0,
                                          ![i].state = Fetched(m, cells, @)]
  /\ kept' = [kept EXCEPT ![i] = << >>]
  /\ threw' = "nothing"
  /\ out' = NoDigest
  /\ UNCHANGED << wasm, updating >>

(* The n bytes a caller passes to hasher i next, or to a one-shot function.*)
Data(i, n) == [k \in 1 .. n |-> Byte(<< i, hasher[i].total + k >>)]
OneShotData(n) == [k \in 1 .. n |-> Byte(<< "one-shot", k >>)]

(* update(data), data not empty: #total first, then the pure hasher, or    *)
(* the loop over chunks.                                                   *)
Update(i, n) ==
  LET f == hasher[i] IN
  /\ updating = Idle /\ f.live
  /\ n > 0 /\ f.total + n <= MaxBytes
  /\ IF f.engine = Null
     THEN /\ hasher' = [hasher EXCEPT ![i].total = @ + n,
                                      ![i].pure.bytes = @ \o Data(i, n)]
          /\ kept' = [kept EXCEPT ![i] = @ \o Data(i, n)]
          /\ UNCHANGED updating
     ELSE /\ hasher' = [hasher EXCEPT ![i].total = @ + n]
          /\ updating' = [who |-> i, data |-> Data(i, n)]
          /\ UNCHANGED kept
  /\ threw' = "nothing"
  /\ out' = NoDigest
  /\ UNCHANGED << wasm, engine >>

(* One iteration of the loop: streamUpdate(state, chunk).                  *)
Chunk ==
  /\ updating # Idle
  /\ LET i      == updating.who
         e      == hasher[i].engine
         len    == Len(updating.data)
         n      == IF len < MaxLen THEN len ELSE MaxLen
         chunk  == SubSeq(updating.data, 1, n)
         rest   == SubSeq(updating.data, n + 1, len)
         needed == InputPtr + n
     IN \/ /\ Refused(e, needed)
           /\ updating' = Idle
           /\ UNCHANGED << engine, hasher, kept >>
        \/ /\ Granted(e, needed)
           /\ LET m     == Reserved(engine[e], needed)
                  ok    == CanSet(m, InputPtr, n)
                  put   == Write(Write(m.cells, StatePtr, hasher[i].state),
                                 InputPtr, chunk)
                  cells == IF ok THEN StreamUpdate(put, StatePtr, InputPtr, n)
                                 ELSE m.cells
              IN  /\ engine' = [engine EXCEPT ![e] = [m EXCEPT !.cells = cells]]
                  /\ hasher' = IF ok THEN [hasher EXCEPT ![i].state =
                                            Read(cells, StatePtr, StateSize)]
                                     ELSE hasher
                  /\ kept' = IF ok THEN [kept EXCEPT ![i] = @ \o chunk] ELSE kept
                  /\ updating' = IF ok /\ rest # << >>
                                 THEN [updating EXCEPT !.data = rest] ELSE Idle
                  /\ threw' = Outcome(ok)
  /\ out' = NoDigest
  /\ UNCHANGED wasm

(* digest64() and digest128(): one crossing serves both.                   *)
Digest(i) ==
  LET f      == hasher[i]
      e      == f.engine
      due    == [seed |-> f.seed, bytes |-> kept[i]]
      needed == OutPtr + OutSize
  IN
  /\ updating = Idle /\ f.live
  /\ \/ /\ e = Null
        /\ out' = [got |-> f.pure, due |-> due]
        /\ threw' = "nothing"
        /\ UNCHANGED engine
     \/ /\ e # Null /\ Refused(e, needed)
        /\ out' = NoDigest
        /\ UNCHANGED engine
     \/ /\ e # Null /\ Granted(e, needed)
        /\ LET m     == Reserved(engine[e], needed)
               ok    == CanSet(m, StatePtr, StateSize)
               put   == Write(m.cells, StatePtr, f.state)
               cells == IF ok THEN StreamDigest(put, StatePtr, OutPtr) ELSE m.cells
           IN  /\ engine' = [engine EXCEPT ![e] = [m EXCEPT !.cells = cells]]
               /\ out' = IF ok THEN [got |-> cells[OutPtr].digest, due |-> due]
                               ELSE NoDigest
               /\ threw' = Outcome(ok)
  /\ UNCHANGED << wasm, hasher, kept, updating >>

(* hayahash64(data, seed) and hayahash128(data, seed): the input goes where*)
(* the states of hashers are otherwise copied, after the digest for 128.   *)
OneShot(width, n, seed) ==
  LET e      == wasm
      due    == [seed |-> seed, bytes |-> OneShotData(n)]
      at     == IF width = 64 THEN HeapBase ELSE HeapBase + OutSize
  IN
  /\ updating = Idle
  /\ \/ /\ e = Null \/ n > MaxLen
        /\ out' = [got |-> due, due |-> due]      \* the pure functions
        /\ threw' = "nothing"
        /\ UNCHANGED engine
     \/ /\ e # Null /\ n <= MaxLen /\ Refused(e, at + n)
        /\ out' = NoDigest
        /\ UNCHANGED engine
     \/ /\ e # Null /\ n <= MaxLen /\ Granted(e, at + n)
        /\ LET m     == Reserved(engine[e], at + n)
               ok    == CanSet(m, at, n)
               put   == Write(m.cells, at, OneShotData(n))
               got   == HashOf(put, at, n, seed)
               cells == IF ~ok THEN m.cells
                        ELSE IF width = 64 THEN put
                        ELSE Hash128(put, at, n, seed, HeapBase)
           IN  /\ engine' = [engine EXCEPT ![e] = [m EXCEPT !.cells = cells]]
               /\ out' = IF ok THEN [ got |-> IF width = 64 THEN got
                                              ELSE cells[HeapBase].digest,
                                      due |-> due ]
                               ELSE NoDigest
               /\ threw' = Outcome(ok)
  /\ UNCHANGED << wasm, hasher, kept, updating >>

Next ==
  \/ SetModule
  \/ SetWrongModule
  \/ \E i \in Hashers, s \in Seeds : NewWasm(i, s) \/ NewPure(i, s) \/ Reset(i, s)
  \/ \E i \in Hashers, n \in Lengths : Update(i, n)
  \/ Chunk
  \/ \E i \in Hashers : Digest(i)
  \/ \E width \in {64, 128}, n \in OneShots, s \in Seeds : OneShot(width, n, s)

Spec == Init /\ [][Next]_vars

(***************************************************************************)
(* Properties.                                                             *)
(***************************************************************************)

(* shim.c: "several hashers can be live at once and the JS side owns       *)
(* placement and lifetime".  Whatever other hashers and one-shot calls     *)
(* leave in the scratch cells, whichever engine is installed since, and    *)
(* wherever growing memory was refused, the state a hasher owns is its own *)
(* seed and exactly the chunks whose absorption returned, in order.        *)
StatesAreOwn ==
  \A i \in Hashers :
    hasher[i].live =>
      (IF hasher[i].engine = Null THEN hasher[i].pure ELSE StateIn(hasher[i].state))
        = [seed |-> hasher[i].seed, bytes |-> kept[i]]

(* index.ts: "The digest equals hayahash64 / hayahash128 over the          *)
(* concatenation of every Hasher.update", and a one-shot call hashes its   *)
(* argument: no result mixes in what an earlier call left in memory.       *)
ResultsRight == out.got = out.due

(* wasm.ts: "grow() detaches the old buffer; refresh the view".  A call    *)
(* fails only when the environment refuses memory, never because some      *)
(* earlier call made memory grow.                                          *)
FailsOnlyWhenRefused == threw # "detached"

(* index.ts: length is the "Number of bytes absorbed so far".              *)
LengthIsAbsorbed ==
  \A i \in Hashers :
    hasher[i].live /\ updating = Idle => hasher[i].total = Len(kept[i])
(***************************************************************************)
(* The inductive invariant (see JsHasherProofs).  It says nothing of what  *)
(* the scratch cells hold: between two calls they may hold anything.       *)
(***************************************************************************)
Bytes      == [byte : Hashers \X Nat]
AllSeeds   == Seeds \cup {Null}
States     == [seed : AllSeeds, bytes : Seq(Bytes)]
HasherType == [ live : BOOLEAN, engine : Nat, seed : AllSeeds, total : Nat,
                state : Seq([state : States, part : Nat]), pure : States ]

(* Between calls the view is of the memory as it is, within its limits.    *)
MemoryOK(m) ==
  /\ m = [pages |-> m.pages, view |-> m.view, cells |-> m.cells]
  /\ m.pages \in InitPages .. MaxPages /\ m.view = m.pages
  /\ m.cells = [a \in 0 .. Page * MaxPages - 1 |-> m.cells[a]]

EnginesOK ==
  /\ Len(engine) \in Nat /\ engine = [e \in 1 .. Len(engine) |-> engine[e]]
  /\ \A e \in 1 .. Len(engine) : MemoryOK(engine[e])
  /\ wasm \in 0 .. Len(engine)

(* What a hasher is made of, with the memory its engine reserved for it.   *)
HasherOK(i) ==
  hasher[i].live =>
    LET own == [seed |-> hasher[i].seed, bytes |-> kept[i]]
    IN  IF hasher[i].engine = Null
        THEN hasher[i].pure = own
        ELSE /\ hasher[i].engine \in 1 .. Len(engine)
             /\ hasher[i].state = Cells(own)
             /\ OutPtr <= Size(engine[hasher[i].engine])

HashersOK ==
  /\ hasher \in [Hashers -> HasherType] /\ kept \in [Hashers -> Seq(Bytes)]
  /\ \A i \in Hashers : HasherOK(i)

(* An update inside its loop has something left, on an engine.             *)
UpdatingOK ==
  updating # Idle =>
    /\ updating = [who |-> updating.who, data |-> updating.data]
    /\ updating.who \in Hashers
    /\ updating.data \in Seq(Bytes) /\ updating.data # << >>
    /\ hasher[updating.who].live /\ hasher[updating.who].engine # Null

IInv ==
  /\ EnginesOK /\ HashersOK /\ UpdatingOK
  /\ ResultsRight /\ FailsOnlyWhenRefused
=============================================================================
