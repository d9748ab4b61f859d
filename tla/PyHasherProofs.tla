--------------------------- MODULE PyHasherProofs ---------------------------
(***************************************************************************)
(* Proofs about PyHasher, for any number of hashers, threads and buffers,  *)
(* every content of the buffers and every seed.                            *)
(***************************************************************************)
EXTENDS PyHasher, TLAPS

(* The accounts of the views, one view at a time.                          *)
Accounted(b, c) ==
  /\ c \in exports[b] <=> Holds(c) /\ calls[c].buf = b
  /\ c \in exports[b] => calls[c].view = where[b]

LEMMA ViewByView ==
  ASSUME exports \in [Buffers -> SUBSET Callers]
  PROVE  ViewsAccounted <=> \A b \in Buffers, c \in Callers : Accounted(b, c)
BY SMT DEF ViewsAccounted, Accounted

LEMMA ViewByViewNext ==
  ASSUME exports' \in [Buffers -> SUBSET Callers],
         \A b \in Buffers, c \in Callers : Accounted(b, c)'
  PROVE  ViewsAccounted'
BY SMT DEF ViewsAccounted, Accounted

(* What an invariant knows of two threads: who holds the lock is alone.    *)
LEMMA OneInC ==
  ASSUME IInv, gil = Free, NEW c \in Callers
  PROVE  calls[c].phase # "view"
<1>1. calls[c].phase = "view" <=> gil = c
  BY DEF IInv, LockRight
<1>2. QED
  BY <1>1, PyAssumption

(* The end of a call, field by field.                                      *)
LEMMA EndedFields ==
  ASSUME NEW answer
  PROVE  /\ Ended(answer).op = "ended" /\ Ended(answer).phase = "done"
         /\ Ended(answer).obj = NoObject /\ Ended(answer).buf = NoBuffer
         /\ Ended(answer).answer = answer /\ IsCall(Ended(answer))
BY DEF Ended, Record, IsCall

LEMMA CallFields ==
  ASSUME NEW op, NEW o, NEW b, NEW w, NEW s
  PROVE  /\ Call(op, o, b, w, s).op = op /\ Call(op, o, b, w, s).phase = "fetch"
         /\ Call(op, o, b, w, s).obj = o /\ Call(op, o, b, w, s).buf = b
         /\ Call(op, o, b, w, s).width = w /\ Call(op, o, b, w, s).seed = s
         /\ Call(op, o, b, w, s).answer = "pending" /\ IsCall(Call(op, o, b, w, s))
BY DEF Call, Record, IsCall

(* The fetch of a buffer and the release of it, field by field.            *)
WithView(call, v, g, fits) ==
  [call EXCEPT !.phase = "view", !.view = v, !.got = g, !.fits = fits]

Releasing(call, answer, digest) ==
  [call EXCEPT !.phase = "release", !.answer = answer, !.digest = digest]

LEMMA FetchFields ==
  ASSUME NEW call, IsCall(call), NEW v, NEW g, NEW fits,
         NEW new, new = WithView(call, v, g, fits)
  PROVE  /\ new.phase = "view" /\ new.view = v /\ new.got = g
         /\ new.op = call.op /\ new.obj = call.obj /\ new.buf = call.buf
         /\ new.width = call.width /\ new.answer = call.answer /\ IsCall(new)
<1>1. new = [op |-> call.op, obj |-> call.obj, buf |-> call.buf,
             width |-> call.width, seed |-> call.seed, phase |-> "view",
             view |-> v, got |-> g, fits |-> fits,
             answer |-> call.answer, digest |-> call.digest]
  BY Zenon DEF IsCall, WithView
<1>2. PICK r : r = new
  OBVIOUS
<1>3. IsCall(r)
  BY <1>1, <1>2 DEF IsCall
<1>4. QED
  BY <1>1, <1>2, <1>3

LEMMA ReleaseFields ==
  ASSUME NEW call, IsCall(call), NEW answer, NEW digest,
         NEW new, new = Releasing(call, answer, digest)
  PROVE  /\ new.phase = "release" /\ new.answer = answer /\ new.digest = digest
         /\ new.op = call.op /\ new.obj = call.obj /\ new.buf = call.buf
         /\ new.width = call.width /\ new.seed = call.seed /\ new.got = call.got
         /\ new.view = call.view /\ IsCall(new)
<1>1. new = [op |-> call.op, obj |-> call.obj, buf |-> call.buf,
             width |-> call.width, seed |-> call.seed, phase |-> "release",
             view |-> call.view, got |-> call.got, fits |-> call.fits,
             answer |-> answer, digest |-> digest]
  BY Zenon DEF IsCall, Releasing
<1>2. PICK r : r = new
  OBVIOUS
<1>3. IsCall(r)
  BY <1>1, <1>2 DEF IsCall
<1>4. QED
  BY <1>1, <1>2, <1>3

(* Setting a call changes no other.                                        *)
LEMMA SetsOne ==
  ASSUME IInv, NEW c \in Callers, NEW call, Sets(c, call)
  PROVE  /\ calls' = [d \in Callers |-> calls'[d]]
         /\ calls'[c] = call
         /\ \A d \in Callers : d # c => calls'[d] = calls[d]
<1>1. calls = [d \in Callers |-> calls[d]] /\ calls' = [calls EXCEPT ![c] = call]
  BY DEF IInv, Shapes, Sets
<1>2. QED
  BY <1>1, Zenon

(* The seed a call works with.                                             *)
LEMMA SeedIsSeed ==
  ASSUME NEW arg \in SeedArgs, arg # BadSeed, NEW default \in Seeds
  PROVE  Seed(arg, default) \in Seeds
BY DEF SeedArgs, Seed

-----------------------------------------------------------------------------
(***************************************************************************)
(* The invariant.                                                          *)
(***************************************************************************)

LEMMA LeftoverIsStruct ==
  ASSUME NEW left \in Leftovers
  PROVE  left \in Structs
<1>1. PICK s \in Seeds, t \in Seeds : left = [st |-> StInit(s), seed |-> t]
  BY DEF Leftovers
<1>2. << >> \in Seq(Nat)
  BY SMT
<1>3. StInit(s) \in [seed : Seeds, msg : Seq(Nat)]
  BY <1>2 DEF StInit
<1>4. QED
  BY <1>1, <1>3 DEF Structs

LEMMA InitEstablishes == Init => IInv
<1> SUFFICES ASSUME Init PROVE IInv
  OBVIOUS
<1>1. ImportRight
  BY DEF Init, ImportRight
<1>2. Shapes
  <2>1. mem \in [Objects -> Structs]
    BY LeftoverIsStruct DEF Init
  <2>2. content \in [Buffers -> Seq(Nat)]
    BY PyAssumption DEF Init
  <2>3. given \in [Objects -> Seq(Nat)]
    BY SMT DEF Init
  <2>4. QED
    BY <2>1, <2>2, <2>3, SMT DEF Init, Shapes
<1>3. \A c \in Callers : calls[c] = Ended("pending")
  BY DEF Init
<1>4. ViewsAccounted
  BY <1>3, EndedFields DEF Init, ViewsAccounted, Holds
<1>5. LockRight
  BY <1>3, EndedFields, PyAssumption DEF Init, LockRight
<1>6. HashersRight
  BY DEF Init, HashersRight
<1>7. CallsRight
  BY <1>3, EndedFields DEF Init, CallsRight, CallRight
<1>8. QED
  BY <1>1, <1>2, <1>4, <1>5, <1>6, <1>7 DEF IInv

(* Module initialisation touches nothing else.                             *)
LEMMA ImportPreserves ==
  ASSUME IInv, ImportCreate \/ ImportAdd \/ ImportAddFails
  PROVE  IInv'
<1>1. ImportRight'
  BY SMT DEF IInv, ImportRight, ImportCreate, ImportAdd, ImportAddFails
<1>2. UNCHANGED Others
  BY DEF ImportCreate, ImportAdd, ImportAddFails
<1>3. QED
  BY <1>1, <1>2, Zenon DEF IInv, Others, hashers, memory, history, Shapes, ViewsAccounted,
     Holds, LockRight, HashersRight, CallsRight, CallRight

(***************************************************************************)
(* Parts of the invariant after a step, from what the step leaves alone.   *)
(***************************************************************************)

(* Neither before nor after it does the call hold a view.                  *)
LEMMA ViewsUnmoved ==
  ASSUME IInv, NEW c \in Callers, NEW call, Sets(c, call), ~Holds(c),
         call.phase \notin {"view", "release"}, UNCHANGED << where, exports >>
  PROVE  ViewsAccounted'
<1>1. exports \in [Buffers -> SUBSET Callers] /\ exports' \in [Buffers -> SUBSET Callers]
  BY DEF IInv, Shapes
<1>2. \A b \in Buffers, d \in Callers : Accounted(b, d)
  BY <1>1, ViewByView DEF IInv
<1>3. calls'[c] = call /\ \A d \in Callers : d # c => calls'[d] = calls[d]
  BY SetsOne
<1>4. ASSUME NEW b \in Buffers, NEW d \in Callers PROVE Accounted(b, d)'
  <2>1. Accounted(b, d) /\ exports'[b] = exports[b] /\ where'[b] = where[b]
    BY <1>2
  <2>2. CASE d = c
    <3>1. ~Holds(c)'
      BY <1>3 DEF Holds
    <3>2. QED
      BY <2>1, <2>2, <3>1 DEF Accounted
  <2>3. CASE d # c
    <3>1. calls'[d] = calls[d] /\ (Holds(d)' <=> Holds(d))
      BY <1>3, <2>3 DEF Holds
    <3>2. QED
      BY <2>1, <3>1 DEF Accounted
  <2>4. QED
    BY <2>2, <2>3
<1>5. QED
  BY <1>1, <1>4, ViewByViewNext

(* Nobody holds the lock, and nobody takes it.                             *)
LEMMA LockUnmoved ==
  ASSUME IInv, NEW c \in Callers, NEW call, Sets(c, call), call.phase # "view",
         gil = Free, gil' = gil
  PROVE  LockRight'
<1>1. calls'[c] = call /\ \A d \in Callers : d # c => calls'[d] = calls[d]
  BY SetsOne
<1>2. \A d \in Callers : calls'[d].phase # "view"
  BY <1>1, OneInC
<1>3. QED
  BY <1>2, PyAssumption DEF LockRight

(* The calls beside the one that moves.                                    *)
LEMMA OtherCalls ==
  ASSUME IInv, NEW c \in Callers, NEW call, Sets(c, call), CallRight(c)',
         \A d \in Callers : d # c => did'[d] = did[d],
         content' = content, live \subseteq live'
  PROVE  CallsRight'
<1>1. \A d \in Callers : d # c => calls'[d] = calls[d]
  BY SetsOne
<1>2. ASSUME NEW d \in Callers, d # c PROVE CallRight(d)'
  <2>1. CallRight(d) /\ calls'[d] = calls[d] /\ did'[d] = did[d]
    BY <1>1, <1>2 DEF IInv, CallsRight
  <2>2. QED
    BY <2>1, SMT DEF CallRight
<1>3. QED
  BY <1>2 DEF CallsRight

(* One hasher is written.                                                  *)
LEMMA WritesOne ==
  ASSUME IInv, NEW c \in Callers, NEW o \in Objects, NEW struct \in Structs,
         NEW g \in Seq(Nat), Writes(c, o, struct, g)
  PROVE  /\ mem' \in [Objects -> Structs] /\ given' \in [Objects -> Seq(Nat)]
         /\ did' \in [Callers -> BOOLEAN] /\ did'[c]
         /\ mem'[o] = struct /\ given'[o] = g
         /\ \A q \in Objects : q # o => mem'[q] = mem[q] /\ given'[q] = given[q]
         /\ \A d \in Callers : d # c => did'[d] = did[d]
<1>1. /\ mem \in [Objects -> Structs] /\ given \in [Objects -> Seq(Nat)]
      /\ did \in [Callers -> BOOLEAN]
  BY DEF IInv, Shapes
<1>2. /\ mem' = [mem EXCEPT ![o] = struct]
      /\ given' = [given EXCEPT ![o] = g]
      /\ did' = [did EXCEPT ![c] = TRUE]
  BY DEF Writes
<1>3. mem' \in [Objects -> Structs] /\ given' \in [Objects -> Seq(Nat)]
  BY <1>1, <1>2
<1>4. did' \in [Callers -> BOOLEAN] /\ did'[c]
  BY <1>1, <1>2, Zenon
<1>5. QED
  BY <1>1, <1>2, <1>3, <1>4, Zenon

(* What it is written with is right.                                       *)
LEMMA WrittenRight ==
  ASSUME IInv, NEW c \in Callers, NEW o \in Objects, NEW struct \in Structs,
         NEW g \in Seq(Nat), Writes(c, o, struct, g),
         struct.st = [seed |-> struct.seed, msg |-> g], live' \subseteq live \cup {o}
  PROVE  HashersRight'
<1>1. /\ mem'[o] = struct /\ given'[o] = g
      /\ \A q \in Objects : q # o => mem'[q] = mem[q] /\ given'[q] = given[q]
  BY WritesOne
<1>2. live \subseteq Objects /\ \A q \in live : mem[q].st = [seed |-> mem[q].seed, msg |-> given[q]]
  BY DEF IInv, Shapes, HashersRight
<1>3. QED
  BY <1>1, <1>2 DEF HashersRight

(* did' when a call starts or raises.                                      *)
LEMMA Undone ==
  ASSUME IInv, NEW c \in Callers, did' = [did EXCEPT ![c] = FALSE]
  PROVE  /\ did' \in [Callers -> BOOLEAN] /\ ~did'[c]
         /\ \A d \in Callers : d # c => did'[d] = did[d]
BY Zenon DEF IInv, Shapes

(* A call that has ended is right, whatever it did.                        *)
LEMMA EndedRight ==
  ASSUME NEW c, NEW answer, calls'[c] = Ended(answer),
         answer = "raised" => ~did'[c],
         answer \in {"none", "object"} => did'[c]
  PROVE  CallRight(c)'
<1>1. /\ Ended(answer).phase = "done" /\ Ended(answer).answer = answer
      /\ IsCall(Ended(answer))
  BY EndedFields
<1>2. QED
  BY <1>1 DEF CallRight

(* A call may begin only when it is done, and then holds no view.          *)
LEMMA MayCallFacts ==
  ASSUME NEW c, MayCall(c)
  PROVE  gil = Free /\ ~Holds(c)
BY DEF MayCall, Holds

-----------------------------------------------------------------------------
(***************************************************************************)
(* Calls that read no buffer.                                              *)
(***************************************************************************)

(* What a call does that ends without code of an exporter having run.      *)
LEMMA CallEnds ==
  ASSUME IInv, NEW c \in Callers, NEW answer, Sets(c, Ended(answer)),
         ~Holds(c), gil = Free, UNCHANGED << module, gil, memory >>,
         answer = "raised" => ~did'[c],
         answer \in {"none", "object"} => did'[c],
         \A d \in Callers : d # c => did'[d] = did[d],
         did' \in [Callers -> BOOLEAN],
         live' \subseteq Objects, live \subseteq live',
         mem' \in [Objects -> Structs], given' \in [Objects -> Seq(Nat)],
         HashersRight'
  PROVE  IInv'
<1>1. UNCHANGED << import, typeRefs, modRefs >> /\ UNCHANGED << content, where, exports >>
  BY DEF module, memory
<1>2. ImportRight'
  BY <1>1, Zenon DEF IInv, ImportRight
<1>3. calls'[c] = Ended(answer) /\ calls' = [d \in Callers |-> calls'[d]]
  BY SetsOne
<1>4. Shapes'
  BY <1>1, <1>3, Zenon DEF IInv, Shapes
<1>5. Ended(answer).phase = "done"
  BY EndedFields
<1>6. ViewsAccounted'
  BY <1>1, <1>5, ViewsUnmoved
<1>7. LockRight'
  BY <1>5, LockUnmoved
<1>8. CallRight(c)'
  BY <1>3, EndedRight
<1>9. CallsRight'
  BY <1>1, <1>8, OtherCalls
<1>10. QED
  BY <1>2, <1>4, <1>6, <1>7, <1>9 DEF IInv

LEMMA RaisesPreserves ==
  ASSUME IInv, NEW c \in Callers, MayCall(c), Raises(c), UNCHANGED module
  PROVE  IInv'
<1>1. /\ Sets(c, Ended("raised")) /\ did' = [did EXCEPT ![c] = FALSE]
      /\ UNCHANGED << mem, live, gil, memory, given >>
  BY DEF Raises, hashers
<1>2. /\ did' \in [Callers -> BOOLEAN] /\ ~did'[c]
      /\ \A d \in Callers : d # c => did'[d] = did[d]
  BY <1>1, Undone
<1>3. gil = Free /\ ~Holds(c)
  BY MayCallFacts
<1>4. /\ live' \subseteq Objects /\ live \subseteq live' /\ HashersRight'
      /\ mem' \in [Objects -> Structs] /\ given' \in [Objects -> Seq(Nat)]
  BY <1>1, Zenon DEF IInv, Shapes, HashersRight
<1>5. QED
  BY <1>1, <1>2, <1>3, <1>4, CallEnds

(* A call that writes one hasher and ends.                                 *)
LEMMA MakesPreserves ==
  ASSUME IInv, NEW c \in Callers, MayCall(c), NEW answer, Sets(c, Ended(answer)),
         answer # "raised", UNCHANGED << module, gil, memory >>,
         NEW o \in Objects, NEW struct \in Structs, NEW g \in Seq(Nat),
         Writes(c, o, struct, g), struct.st = [seed |-> struct.seed, msg |-> g],
         live' = live \cup {o} \/ live' = live
  PROVE  IInv'
<1>1. /\ mem' \in [Objects -> Structs] /\ given' \in [Objects -> Seq(Nat)]
      /\ did' \in [Callers -> BOOLEAN] /\ did'[c]
      /\ \A d \in Callers : d # c => did'[d] = did[d]
  BY WritesOne
<1>2. live' \subseteq Objects /\ live \subseteq live' /\ live' \subseteq live \cup {o}
  BY DEF IInv, Shapes
<1>3. HashersRight'
  BY <1>2, WrittenRight
<1>4. gil = Free /\ ~Holds(c)
  BY MayCallFacts
<1>5. QED
  BY <1>1, <1>2, <1>3, <1>4, CallEnds

(* A started hasher.                                                       *)
LEMMA StartedStruct ==
  ASSUME NEW s \in Seeds, NEW struct, struct = [st |-> StInit(s), seed |-> s]
  PROVE  /\ struct \in Structs /\ << >> \in Seq(Nat)
         /\ struct.st = [seed |-> struct.seed, msg |-> << >>]
<1>1. << >> \in Seq(Nat)
  BY SMT
<1>2. StInit(s) = [seed |-> s, msg |-> << >>] /\ StInit(s) \in [seed : Seeds, msg : Seq(Nat)]
  BY <1>1 DEF StInit
<1>3. QED
  BY <1>1, <1>2 DEF Structs

LEMMA NewPreserves ==
  ASSUME IInv, NEW c \in Callers, NEW o \in Objects, NEW arg \in SeedArgs, New(c, o, arg)
  PROVE  IInv'
<1>1. MayCall(c) /\ UNCHANGED module
  BY DEF New
<1>2. CASE Raises(c)
  BY <1>1, <1>2, RaisesPreserves
<1>3. CASE ~Raises(c)
  <2> DEFINE s == Seed(arg, 0)
             struct == [st |-> StInit(s), seed |-> s]
  <2>1. /\ arg # BadSeed /\ Writes(c, o, struct, << >>) /\ live' = live \cup {o}
        /\ Sets(c, Ended("object")) /\ UNCHANGED << gil, memory >>
    BY <1>3 DEF New
  <2>2. s \in Seeds
    BY <2>1, SeedIsSeed, PyAssumption
  <2> HIDE DEF s
  <2>3. /\ struct \in Structs /\ << >> \in Seq(Nat)
        /\ struct.st = [seed |-> struct.seed, msg |-> << >>]
    BY <2>2, StartedStruct
  <2> HIDE DEF struct
  <2>4. QED
    BY <1>1, <2>1, <2>3, MakesPreserves
<1>4. QED
  BY <1>2, <1>3

LEMMA CopyPreserves ==
  ASSUME IInv, NEW c \in Callers, NEW o \in Objects, NEW q \in Objects, Copy(c, o, q)
  PROVE  IInv'
<1>1. MayCall(c) /\ UNCHANGED module /\ o \in live
  BY DEF Copy
<1>2. CASE Raises(c)
  BY <1>1, <1>2, RaisesPreserves
<1>3. CASE ~Raises(c)
  <2>1. /\ Writes(c, q, Copied(o, q), given[o]) /\ live' = live \cup {q}
        /\ Sets(c, Ended("object")) /\ UNCHANGED << gil, memory >>
    BY <1>3 DEF Copy
  <2>2. mem[o] \in Structs /\ mem[q] \in Structs /\ given[o] \in Seq(Nat)
    BY DEF IInv, Shapes
  <2>3. Copied(o, q) = [st |-> mem[o].st, seed |-> mem[o].seed]
    BY <2>2, Zenon DEF Copied, Structs
  <2>4. Copied(o, q) = mem[o]
    BY <2>2, <2>3 DEF Structs
  <2>5. mem[o].st = [seed |-> mem[o].seed, msg |-> given[o]]
    BY <1>1 DEF IInv, HashersRight
  <2>6. QED
    BY <1>1, <2>1, <2>2, <2>4, <2>5, MakesPreserves
<1>4. QED
  BY <1>2, <1>3

LEMMA ResetPreserves ==
  ASSUME IInv, NEW c \in Callers, NEW o \in Objects, NEW arg \in SeedArgs, Reset(c, o, arg)
  PROVE  IInv'
<1>1. MayCall(c) /\ UNCHANGED module /\ o \in live
  BY DEF Reset
<1>2. CASE Raises(c)
  BY <1>1, <1>2, RaisesPreserves
<1>3. CASE ~Raises(c)
  <2> DEFINE s == Seed(arg, mem[o].seed)
             struct == [st |-> StInit(s), seed |-> s]
  <2>1. /\ arg # BadSeed /\ Writes(c, o, struct, << >>)
        /\ Sets(c, Ended("none")) /\ UNCHANGED << live, gil, memory >>
    BY <1>3 DEF Reset
  <2>2. mem[o] \in Structs
    BY DEF IInv, Shapes
  <2>3. mem[o].seed \in Seeds
    BY <2>2 DEF Structs
  <2>4. s \in Seeds
    BY <2>1, <2>3, SeedIsSeed
  <2> HIDE DEF s
  <2>5. /\ struct \in Structs /\ << >> \in Seq(Nat)
        /\ struct.st = [seed |-> struct.seed, msg |-> << >>]
    BY <2>4, StartedStruct
  <2> HIDE DEF struct
  <2>6. QED
    BY <1>1, <2>1, <2>5, MakesPreserves
<1>4. QED
  BY <1>2, <1>3

LEMMA DigestPreserves ==
  ASSUME IInv, NEW c \in Callers, NEW o \in Objects, Digest(c, o)
  PROVE  IInv'
<1>1. MayCall(c) /\ UNCHANGED module
  BY DEF Digest
<1>2. CASE Raises(c)
  BY <1>1, <1>2, RaisesPreserves
<1>3. CASE ~Raises(c)
  <2>1. /\ Sets(c, Ended("digest")) /\ did' = [did EXCEPT ![c] = FALSE]
        /\ UNCHANGED << mem, live, gil, memory, given >>
    BY <1>3 DEF Digest, hashers
  <2>2. /\ did' \in [Callers -> BOOLEAN]
        /\ \A d \in Callers : d # c => did'[d] = did[d]
    BY <2>1, Undone
  <2>3. gil = Free /\ ~Holds(c)
    BY <1>1, MayCallFacts
  <2>4. /\ live' \subseteq Objects /\ live \subseteq live' /\ HashersRight'
        /\ mem' \in [Objects -> Structs] /\ given' \in [Objects -> Seq(Nat)]
    BY <2>1, Zenon DEF IInv, Shapes, HashersRight
  <2>5. QED
    BY <1>1, <2>1, <2>2, <2>3, <2>4, CallEnds
<1>4. QED
  BY <1>2, <1>3

(* An object goes away only when no call has it.                           *)
LEMMA DeallocPreserves ==
  ASSUME IInv, NEW o \in Objects, Dealloc(o)
  PROVE  IInv'
<1>1. /\ \A c \in Callers : calls[c].phase # "done" => calls[c].obj # o
      /\ live' = live \ {o} /\ given' = [given EXCEPT ![o] = << >>]
      /\ \E left \in Leftovers : mem' = [mem EXCEPT ![o] = left]
      /\ UNCHANGED << import, typeRefs, modRefs >>
      /\ UNCHANGED << calls, gil, content, where, exports, did >>
  BY DEF Dealloc, module, memory
<1>2. ImportRight' /\ ViewsAccounted' /\ LockRight'
  BY <1>1, Zenon DEF IInv, ImportRight, ViewsAccounted, Holds, LockRight
<1>3. /\ live \subseteq Objects /\ mem \in [Objects -> Structs]
      /\ given \in [Objects -> Seq(Nat)]
  BY DEF IInv, Shapes
<1>4. mem' \in [Objects -> Structs] /\ given' \in [Objects -> Seq(Nat)]
  <2>1. << >> \in Seq(Nat)
    BY SMT
  <2>2. PICK left \in Leftovers : mem' = [mem EXCEPT ![o] = left]
    BY <1>1
  <2>3. left \in Structs
    BY LeftoverIsStruct
  <2>4. QED
    BY <1>1, <1>3, <2>1, <2>2, <2>3
<1>5. Shapes'
  <2>1. live' \subseteq Objects
    BY <1>1, <1>3
  <2>2. QED
    BY <1>1, <1>4, <2>1, Zenon DEF IInv, Shapes
<1>6. HashersRight'
  <2>1. \A q \in Objects : q # o => mem'[q] = mem[q] /\ given'[q] = given[q]
    BY <1>1, <1>3, Zenon
  <2>2. \A q \in live : mem[q].st = [seed |-> mem[q].seed, msg |-> given[q]]
    BY DEF IInv, HashersRight
  <2>3. QED
    BY <1>1, <1>3, <2>1, <2>2 DEF HashersRight
<1>7. CallsRight'
  <2>1. ASSUME NEW c \in Callers PROVE CallRight(c)'
    <3>1. CallRight(c) /\ (calls[c].phase # "done" => calls[c].obj # o)
      BY <1>1 DEF IInv, CallsRight
    <3>2. QED
      BY <1>1, <3>1, SMT DEF CallRight
  <2>2. QED
    BY <2>1 DEF CallsRight
<1>8. QED
  BY <1>2, <1>5, <1>6, <1>7 DEF IInv

-----------------------------------------------------------------------------
(***************************************************************************)
(* Calls that read a buffer.                                               *)
(***************************************************************************)

LEMMA StartPreserves ==
  ASSUME IInv, NEW c \in Callers, MayCall(c), NEW call, Start(c, call),
         IsCall(call), call.phase = "fetch", call.op \in {"update", "hash"},
         call.buf \in Buffers, call.width \in Widths, call.answer = "pending",
         call.op = "update" => call.obj \in live
  PROVE  IInv'
<1>1. /\ Sets(c, call) /\ did' = [did EXCEPT ![c] = FALSE]
      /\ UNCHANGED << import, typeRefs, modRefs >>
      /\ UNCHANGED << mem, live, gil, content, where, exports, given >>
  BY DEF Start, module, hashers, memory
<1>2. /\ did' \in [Callers -> BOOLEAN] /\ ~did'[c]
      /\ \A d \in Callers : d # c => did'[d] = did[d]
  BY <1>1, Undone
<1>3. gil = Free /\ ~Holds(c)
  BY MayCallFacts
<1>4. calls'[c] = call /\ calls' = [d \in Callers |-> calls'[d]]
  BY <1>1, SetsOne
<1>5. ImportRight' /\ HashersRight'
  BY <1>1, Zenon DEF IInv, ImportRight, HashersRight
<1>6. Shapes'
  BY <1>1, <1>2, <1>4, Zenon DEF IInv, Shapes
<1>7. ViewsAccounted'
  BY <1>1, <1>3, ViewsUnmoved
<1>8. LockRight'
  BY <1>1, <1>3, LockUnmoved
<1>9. CallRight(c)'
  BY <1>1, <1>2, <1>4 DEF CallRight
<1>10. CallsRight'
  BY <1>1, <1>2, <1>9, OtherCalls
<1>11. QED
  BY <1>5, <1>6, <1>7, <1>8, <1>10 DEF IInv

LEMMA StartUpdatePreserves ==
  ASSUME IInv, NEW c \in Callers, NEW o \in Objects, NEW b \in Buffers, StartUpdate(c, o, b)
  PROVE  IInv'
<1> DEFINE call == Call("update", o, b, 64, 0)
<1>1. MayCall(c) /\ o \in live /\ Start(c, call)
  BY DEF StartUpdate
<1>2. /\ call.op = "update" /\ call.phase = "fetch" /\ call.obj = o /\ call.buf = b
      /\ call.width = 64 /\ call.answer = "pending" /\ IsCall(call)
  BY CallFields
<1>3. 64 \in Widths
  BY DEF Widths
<1> HIDE DEF call
<1>4. QED
  BY <1>1, <1>2, <1>3, StartPreserves

LEMMA StartHashPreserves ==
  ASSUME IInv, NEW c \in Callers, NEW b \in Buffers, NEW w \in Widths,
         NEW arg \in SeedArgs, StartHash(c, b, w, arg)
  PROVE  IInv'
<1>1. MayCall(c)
  BY DEF StartHash
<1>2. CASE arg = BadSeed
  BY <1>1, <1>2, RaisesPreserves DEF StartHash
<1>3. CASE arg # BadSeed
  <2> DEFINE call == Call("hash", NoObject, b, w, Seed(arg, 0))
  <2>1. Start(c, call)
    BY <1>3 DEF StartHash
  <2>2. /\ call.op = "hash" /\ call.phase = "fetch" /\ call.buf = b
        /\ call.width = w /\ call.answer = "pending" /\ IsCall(call)
    BY CallFields
  <2> HIDE DEF call
  <2>3. QED
    BY <1>1, <2>1, <2>2, StartPreserves
<1>4. QED
  BY <1>2, <1>3

LEMMA FetchFailsPreserves ==
  ASSUME IInv, NEW c \in Callers, FetchFails(c)
  PROVE  IInv'
<1>1. /\ gil = Free /\ calls[c].phase = "fetch" /\ Sets(c, Ended("raised"))
      /\ UNCHANGED << module, gil, memory >> /\ UNCHANGED << mem, live, given, did >>
  BY DEF FetchFails, hashers, history
<1>2. CallRight(c)
  BY DEF IInv, CallsRight
<1>3. ~did'[c] /\ ~Holds(c)
  BY <1>1, <1>2 DEF CallRight, Holds
<1>4. /\ did' \in [Callers -> BOOLEAN] /\ \A d \in Callers : d # c => did'[d] = did[d]
      /\ live' \subseteq Objects /\ live \subseteq live' /\ HashersRight'
      /\ mem' \in [Objects -> Structs] /\ given' \in [Objects -> Seq(Nat)]
  BY <1>1, Zenon DEF IInv, Shapes, HashersRight
<1>5. QED
  BY <1>1, <1>3, <1>4, CallEnds

LEMMA FetchedPreserves ==
  ASSUME IInv, NEW c \in Callers, Fetched(c)
  PROVE  IInv'
<1> DEFINE b == calls[c].buf
<1>1. /\ gil = Free /\ calls[c].phase = "fetch"
      /\ exports' = [exports EXCEPT ![b] = @ \cup {c}] /\ gil' = c
      /\ UNCHANGED << import, typeRefs, modRefs >>
      /\ UNCHANGED << mem, live, content, where, given, did >>
  BY DEF Fetched, module, hashers, history
<1>2. PICK fits \in BOOLEAN :
        Sets(c, WithView(calls[c], where[b], content[b], fits))
  BY DEF Fetched, WithView
<1>2a. PICK new : new = WithView(calls[c], where[b], content[b], fits) /\ Sets(c, new)
  BY <1>2
<1>3. CallRight(c)
  BY DEF IInv, CallsRight
<1>4. IsCall(calls[c]) /\ b \in Buffers /\ ~Holds(c)
  BY <1>1, <1>3 DEF CallRight, Holds
<1>5. /\ new.phase = "view" /\ new.view = where[b] /\ new.got = content[b]
      /\ new.op = calls[c].op /\ new.obj = calls[c].obj /\ new.buf = b
      /\ new.width = calls[c].width /\ new.answer = calls[c].answer /\ IsCall(new)
  BY <1>4, <1>2a, FetchFields
<1>6. Sets(c, new)
  BY <1>2a
<1>7. /\ calls'[c] = new /\ calls' = [d \in Callers |-> calls'[d]]
      /\ \A d \in Callers : d # c => calls'[d] = calls[d]
  BY <1>6, SetsOne
<1>8. ImportRight' /\ HashersRight'
  BY <1>1, Zenon DEF IInv, ImportRight, HashersRight
<1>9. exports \in [Buffers -> SUBSET Callers]
  BY DEF IInv, Shapes
<1>10. exports' \in [Buffers -> SUBSET Callers]
  BY <1>1, <1>4, <1>9
<1>11. Shapes'
  BY <1>1, <1>7, <1>10, Zenon DEF IInv, Shapes
<1>12. ViewsAccounted'
  <2>1. \A a \in Buffers, d \in Callers : Accounted(a, d)
    BY <1>9, ViewByView DEF IInv
  <2>2. ASSUME NEW a \in Buffers, NEW d \in Callers PROVE Accounted(a, d)'
    <3>1. Accounted(a, d) /\ where'[a] = where[a] /\ calls'[c].buf = b
      BY <2>1, <1>1, <1>5, <1>7
    <3>2. CASE d = c
      <4>1. Holds(c)' /\ calls'[c].view = where[b]
        BY <1>5, <1>7 DEF Holds
      <4>2. c \in exports'[a] <=> a = b
        BY <1>1, <1>4, <1>9, <3>1, <3>2, Zenon DEF Accounted
      <4>3. QED
        BY <3>1, <3>2, <4>1, <4>2 DEF Accounted
    <3>3. CASE d # c
      <4>1. calls'[d] = calls[d] /\ (Holds(d)' <=> Holds(d))
        BY <1>7, <3>3 DEF Holds
      <4>2. d \in exports'[a] <=> d \in exports[a]
        BY <1>1, <1>4, <1>9, <3>3
      <4>3. QED
        BY <3>1, <4>1, <4>2 DEF Accounted
    <3>4. QED
      BY <3>2, <3>3
  <2>3. QED
    BY <1>10, <2>2, ViewByViewNext
<1>13. LockRight'
  <2>1. calls'[c].phase = "view" /\ \A d \in Callers : d # c => calls'[d].phase # "view"
    BY <1>1, <1>5, <1>7, OneInC
  <2>2. QED
    BY <1>1, <2>1 DEF LockRight
<1>14. CallRight(c)'
  BY <1>1, <1>3, <1>5, <1>7, SMT DEF CallRight
<1>15. CallsRight'
  BY <1>1, <1>6, <1>14, OtherCalls
<1>16. QED
  BY <1>8, <1>11, <1>12, <1>13, <1>15 DEF IInv

(* The end of the use of a view.                                           *)
LEMMA ReleasesPreserves ==
  ASSUME IInv, NEW c \in Callers, calls[c].phase = "view",
         NEW answer, NEW digest, Releases(c, answer, digest),
         answer \in {"raised", "none", "digest"},
         answer = "raised" => ~did'[c], answer = "none" => did'[c],
         calls[c].op = "hash" =>
           ~did'[c] /\ digest \subseteq {OneShot(calls[c].width, calls[c].seed, calls[c].got)},
         \A d \in Callers : d # c => did'[d] = did[d],
         did' \in [Callers -> BOOLEAN], mem' \in [Objects -> Structs],
         given' \in [Objects -> Seq(Nat)], HashersRight'
  PROVE  IInv'
<1>1. /\ Sets(c, Releasing(calls[c], answer, digest))
      /\ gil' = Free /\ UNCHANGED << import, typeRefs, modRefs >>
      /\ UNCHANGED << live, content, where, exports >>
  BY DEF Releases, Releasing, module, memory
<1>2. PICK new : new = Releasing(calls[c], answer, digest) /\ Sets(c, new)
  BY <1>1
<1>3. CallRight(c)
  BY DEF IInv, CallsRight
<1>4. IsCall(calls[c])
  BY <1>3 DEF CallRight
<1>5. /\ new.phase = "release" /\ new.answer = answer /\ new.digest = digest
      /\ new.op = calls[c].op /\ new.obj = calls[c].obj /\ new.buf = calls[c].buf
      /\ new.width = calls[c].width /\ new.seed = calls[c].seed /\ new.got = calls[c].got
      /\ new.view = calls[c].view /\ IsCall(new)
  BY <1>2, <1>4, ReleaseFields
<1>6. /\ calls'[c] = new /\ calls' = [d \in Callers |-> calls'[d]]
      /\ \A d \in Callers : d # c => calls'[d] = calls[d]
  BY <1>2, SetsOne
<1>7. ImportRight'
  BY <1>1, Zenon DEF IInv, ImportRight
<1>8. Shapes'
  BY <1>1, <1>6, Zenon DEF IInv, Shapes
<1>9. ViewsAccounted'
  <2>1. exports \in [Buffers -> SUBSET Callers] /\ exports' \in [Buffers -> SUBSET Callers]
    BY <1>8 DEF IInv, Shapes
  <2>2. \A b \in Buffers, d \in Callers : Accounted(b, d)
    BY <2>1, ViewByView DEF IInv
  <2>3. ASSUME NEW b \in Buffers, NEW d \in Callers PROVE Accounted(b, d)'
    <3>1. Accounted(b, d)
      BY <2>2
    <3>2. calls'[d].buf = calls[d].buf /\ calls'[d].view = calls[d].view
      BY <1>5, <1>6
    <3>3. Holds(d)' <=> Holds(d)
      BY <1>5, <1>6 DEF Holds
    <3>4. QED
      BY <1>1, <3>1, <3>2, <3>3 DEF Accounted
  <2>4. QED
    BY <2>1, <2>3, ViewByViewNext
<1>10. LockRight'
  <2>1. \A d \in Callers : d # c => calls[d].phase # "view"
    BY DEF IInv, LockRight
  <2>2. \A d \in Callers : calls'[d].phase # "view"
    BY <1>5, <1>6, <2>1
  <2>3. QED
    BY <1>1, <2>2, PyAssumption DEF LockRight
<1>11. CallRight(c)'
  <2>1. /\ calls[c].op \in {"update", "hash"} /\ calls[c].buf \in Buffers
        /\ calls[c].width \in Widths /\ (calls[c].op = "update" => calls[c].obj \in live)
    BY <1>3 DEF CallRight
  <2>2. QED
    BY <1>1, <1>5, <1>6, <2>1 DEF CallRight
<1>12. CallsRight'
  BY <1>1, <1>2, <1>11, OtherCalls
<1>13. QED
  BY <1>7, <1>8, <1>9, <1>10, <1>12 DEF IInv

(* The bytes a call sees are the ones it fetched.                          *)
LEMMA SeesFetched ==
  ASSUME IInv, NEW c \in Callers, calls[c].phase = "view"
  PROVE  Seen(c) = calls[c].got /\ ~did[c] /\ calls[c].got \in Seq(Nat)
<1>1. CallRight(c) /\ ViewsAccounted /\ content \in [Buffers -> Seq(Nat)]
  BY DEF IInv, CallsRight, Shapes
<1>2. /\ calls[c].buf \in Buffers /\ calls[c].got = content[calls[c].buf] /\ ~did[c]
  BY <1>1 DEF CallRight
<1>3. calls[c].view = where[calls[c].buf]
  BY <1>1, <1>2 DEF ViewsAccounted, Holds
<1>4. QED
  BY <1>1, <1>2, <1>3 DEF Seen

LEMMA RejectsPreserves ==
  ASSUME IInv, NEW c \in Callers, Rejects(c)
  PROVE  IInv'
<1>1. /\ calls[c].phase = "view" /\ Releases(c, "raised", {})
      /\ UNCHANGED << mem, given, did >> /\ live' = live
  BY DEF Rejects, history, Releases
<1>2. ~did'[c]
  BY <1>1, SeesFetched
<1>3. /\ did' \in [Callers -> BOOLEAN] /\ mem' \in [Objects -> Structs]
      /\ given' \in [Objects -> Seq(Nat)] /\ HashersRight'
  BY <1>1, Zenon DEF IInv, Shapes, HashersRight
<1>4. QED
  BY <1>1, <1>2, <1>3, ReleasesPreserves

LEMMA StUpdateIs ==
  ASSUME NEW s, NEW m, NEW bytes
  PROVE  StUpdate([seed |-> s, msg |-> m], bytes) = [seed |-> s, msg |-> m \o bytes]
<1>1. PICK st : st = [seed |-> s, msg |-> m]
  OBVIOUS
<1>2. PICK n : n = m \o bytes
  OBVIOUS
<1>3. st.msg = m
  BY <1>1
<1>4. StUpdate(st, bytes) = [st EXCEPT !.msg = n]
  BY <1>2, <1>3 DEF StUpdate
<1>5. PICK r : r = [[seed |-> s, msg |-> m] EXCEPT !.msg = n]
  OBVIOUS
<1>6. r = [seed |-> s, msg |-> n]
  BY <1>5, Zenon
<1>7. QED
  BY <1>1, <1>2, <1>4, <1>5, <1>6

LEMMA AbsorbsPreserves ==
  ASSUME IInv, NEW c \in Callers, Absorbs(c)
  PROVE  IInv'
<1> DEFINE o == calls[c].obj
<1>1. /\ calls[c].phase = "view" /\ calls[c].op = "update" /\ calls[c].fits
      /\ Writes(c, o, [mem[o] EXCEPT !.st = StUpdate(@, Seen(c))], given[o] \o calls[c].got)
      /\ Releases(c, IF calls[c].fits THEN "none" ELSE "raised", {})
  BY DEF Absorbs, Accepted
<1>2. Releases(c, "none", {}) /\ live' = live
  BY <1>1 DEF Releases
<1>3. CallRight(c) /\ live \subseteq Objects /\ mem \in [Objects -> Structs]
      /\ given \in [Objects -> Seq(Nat)]
  BY DEF IInv, CallsRight, Shapes
<1>4. o \in live /\ o \in Objects
  BY <1>1, <1>3 DEF CallRight
<1>5. Seen(c) = calls[c].got /\ calls[c].got \in Seq(Nat)
  BY <1>1, SeesFetched
<1>6. mem[o].st = [seed |-> mem[o].seed, msg |-> given[o]] /\ mem[o] \in Structs
  BY <1>3, <1>4 DEF IInv, HashersRight
<1>7. mem[o].seed \in Seeds /\ given[o] \in Seq(Nat)
  BY <1>3, <1>4, <1>6 DEF Structs
<1> DEFINE g == given[o] \o calls[c].got
<1>8. g \in Seq(Nat)
  BY <1>5, <1>7, SMT
<1>9. PICK struct : struct = [mem[o] EXCEPT !.st = StUpdate(@, Seen(c))]
  OBVIOUS
<1>10. StUpdate(mem[o].st, Seen(c)) = [seed |-> mem[o].seed, msg |-> g]
  <2>1. StUpdate([seed |-> mem[o].seed, msg |-> given[o]], calls[c].got)
          = [seed |-> mem[o].seed, msg |-> g]
    BY StUpdateIs
  <2>2. QED
    BY <1>5, <1>6, <2>1
<1>11. struct = [st |-> [seed |-> mem[o].seed, msg |-> g], seed |-> mem[o].seed]
  BY <1>6, <1>9, <1>10, Zenon DEF Structs
<1> HIDE DEF g
<1>12. struct \in Structs /\ struct.st = [seed |-> struct.seed, msg |-> g]
  BY <1>7, <1>8, <1>11 DEF Structs
<1>13. Writes(c, o, struct, g)
  BY <1>1, <1>9 DEF g
<1> HIDE DEF o
<1>14. /\ mem' \in [Objects -> Structs] /\ given' \in [Objects -> Seq(Nat)]
       /\ did' \in [Callers -> BOOLEAN] /\ did'[c]
       /\ \A d \in Callers : d # c => did'[d] = did[d]
  BY <1>4, <1>8, <1>12, <1>13, WritesOne
<1>15. HashersRight'
  BY <1>2, <1>4, <1>8, <1>12, <1>13, WrittenRight
<1>16. QED
  BY <1>1, <1>2, <1>14, <1>15, ReleasesPreserves

LEMMA HashesPreserves ==
  ASSUME IInv, NEW c \in Callers, Hashes(c)
  PROVE  IInv'
<1> DEFINE digest == {IF calls[c].width = 64 THEN Hash64(calls[c].seed, Seen(c))
                                             ELSE Hash128(calls[c].seed, Seen(c))}
<1>1. /\ calls[c].phase = "view" /\ calls[c].op = "hash" /\ Releases(c, "digest", digest)
      /\ UNCHANGED << mem, given, did >> /\ live' = live
  BY DEF Hashes, history, Releases
<1>2. Seen(c) = calls[c].got /\ ~did'[c]
  BY <1>1, SeesFetched
<1>3. CallRight(c)
  BY DEF IInv, CallsRight
<1>4. calls[c].width \in {64, 128}
  BY <1>1, <1>3 DEF CallRight, Widths
<1>5. digest \subseteq {OneShot(calls[c].width, calls[c].seed, calls[c].got)}
  BY <1>2, <1>4 DEF Hash64, Hash128
<1> HIDE DEF digest
<1>6. /\ did' \in [Callers -> BOOLEAN] /\ mem' \in [Objects -> Structs]
      /\ given' \in [Objects -> Seq(Nat)] /\ HashersRight'
  BY <1>1, Zenon DEF IInv, Shapes, HashersRight
<1>7. QED
  BY <1>1, <1>2, <1>5, <1>6, ReleasesPreserves

(* PyBuffer_Release is through and the call ends.                          *)
LEMMA ReleasedPreserves ==
  ASSUME IInv, NEW c \in Callers, Released(c)
  PROVE  IInv'
<1> DEFINE b == calls[c].buf
<1>1. /\ gil = Free /\ calls[c].phase = "release"
      /\ exports' = [exports EXCEPT ![b] = @ \ {c}]
      /\ UNCHANGED << import, typeRefs, modRefs >>
      /\ UNCHANGED << mem, live, gil, content, where, given, did >>
  BY DEF Released, module, hashers, history
<1>2. CallRight(c)
  BY DEF IInv, CallsRight
<1>3. b \in Buffers
  BY <1>1, <1>2 DEF CallRight
<1>4. PICK answer : /\ Sets(c, Ended(answer))
                    /\ answer = "raised" => ~did[c]
                    /\ answer \in {"none", "object"} => did[c]
  <2>1. CASE Sets(c, Ended(calls[c].answer))
    BY <2>1, <1>2 DEF CallRight
  <2>2. CASE calls[c].op = "hash" /\ Sets(c, Ended("raised"))
    BY <2>2, <1>1, <1>2 DEF CallRight
  <2>3. QED
    BY <2>1, <2>2 DEF Released
<1>5. /\ calls'[c] = Ended(answer) /\ calls' = [d \in Callers |-> calls'[d]]
      /\ \A d \in Callers : d # c => calls'[d] = calls[d]
  BY <1>4, SetsOne
<1>6. Ended(answer).phase = "done"
  BY EndedFields
<1>7. ImportRight' /\ HashersRight'
  BY <1>1, Zenon DEF IInv, ImportRight, HashersRight
<1>8. exports \in [Buffers -> SUBSET Callers]
  BY DEF IInv, Shapes
<1>9. exports' \in [Buffers -> SUBSET Callers]
  BY <1>1, <1>3, <1>8
<1>10. Shapes'
  BY <1>1, <1>5, <1>9, Zenon DEF IInv, Shapes
<1>11. ViewsAccounted'
  <2>1. \A a \in Buffers, d \in Callers : Accounted(a, d)
    BY <1>8, ViewByView DEF IInv
  <2>2. ASSUME NEW a \in Buffers, NEW d \in Callers PROVE Accounted(a, d)'
    <3>1. Accounted(a, d) /\ where'[a] = where[a]
      BY <2>1, <1>1
    <3>2. CASE d = c
      <4>1. ~Holds(c)'
        BY <1>5, <1>6 DEF Holds
      <4>2. c \notin exports'[a]
        BY <1>1, <1>3, <1>8, <3>1, <3>2, Zenon DEF Accounted
      <4>3. QED
        BY <3>2, <4>1, <4>2 DEF Accounted
    <3>3. CASE d # c
      <4>1. calls'[d] = calls[d] /\ (Holds(d)' <=> Holds(d))
        BY <1>5, <3>3 DEF Holds
      <4>2. d \in exports'[a] <=> d \in exports[a]
        BY <1>1, <1>3, <1>8, <3>3
      <4>3. QED
        BY <3>1, <4>1, <4>2 DEF Accounted
    <3>4. QED
      BY <3>2, <3>3
  <2>3. QED
    BY <1>9, <2>2, ViewByViewNext
<1>12. LockRight'
  BY <1>1, <1>4, <1>6, LockUnmoved
<1>13. CallRight(c)'
  BY <1>1, <1>4, <1>5, EndedRight
<1>14. CallsRight'
  BY <1>1, <1>4, <1>13, OtherCalls
<1>15. QED
  BY <1>7, <1>10, <1>11, <1>12, <1>14 DEF IInv

-----------------------------------------------------------------------------
(* Python code writes a buffer only while no view is being read, and moves *)
(* it only while none is out.                                              *)
LEMMA PythonPreserves ==
  ASSUME IInv, NEW b \in Buffers, NEW bytes \in Contents, Write(b, bytes) \/ Resize(b, bytes)
  PROVE  IInv'
<1>1. /\ gil = Free /\ content' = [content EXCEPT ![b] = bytes]
      /\ where' = where \/ (exports[b] = {} /\ where' = [where EXCEPT ![b] = @ + 1])
      /\ UNCHANGED << import, typeRefs, modRefs >>
      /\ UNCHANGED << mem, live, calls, gil, exports, given, did >>
  BY DEF Write, Resize, module, hashers, history
<1>2. ImportRight' /\ LockRight' /\ HashersRight'
  BY <1>1, Zenon DEF IInv, ImportRight, LockRight, HashersRight
<1>3. /\ content \in [Buffers -> Seq(Nat)] /\ where \in [Buffers -> Nat]
      /\ exports \in [Buffers -> SUBSET Callers] /\ bytes \in Seq(Nat)
  BY PyAssumption DEF IInv, Shapes
<1>4. content' \in [Buffers -> Seq(Nat)]
  BY <1>1, <1>3
<1>5. where' \in [Buffers -> Nat]
  <2>1. where[b] + 1 \in Nat
    BY <1>3, SMT
  <2>2. QED
    BY <1>1, <1>3, <2>1
<1>6. Shapes'
  BY <1>1, <1>4, <1>5, Zenon DEF IInv, Shapes
<1>7. ViewsAccounted'
  <2>1. \A a \in Buffers, d \in Callers : Accounted(a, d)
    BY <1>3, ViewByView DEF IInv
  <2>2. ASSUME NEW a \in Buffers, NEW d \in Callers PROVE Accounted(a, d)'
    <3>1. Accounted(a, d) /\ exports' = exports /\ calls' = calls
      BY <2>1, <1>1
    <3>2. d \in exports[a] => where'[a] = where[a]
      BY <1>1, <1>3
    <3>3. QED
      BY <3>1, <3>2 DEF Accounted, Holds
  <2>3. exports' \in [Buffers -> SUBSET Callers]
    BY <1>1, <1>3
  <2>4. QED
    BY <2>2, <2>3, ViewByViewNext
<1>8. CallsRight'
  <2>1. ASSUME NEW c \in Callers PROVE CallRight(c)'
    <3>1. CallRight(c) /\ calls[c].phase # "view"
      BY <1>1, OneInC DEF IInv, CallsRight
    <3>2. UNCHANGED << calls, live, did >>
      BY <1>1
    <3>3. QED
      BY <3>1, <3>2, SMT DEF CallRight
  <2>2. QED
    BY <2>1 DEF CallsRight
<1>9. QED
  BY <1>2, <1>6, <1>7, <1>8 DEF IInv

LEMMA StutterPreserves ==
  ASSUME IInv, UNCHANGED vars
  PROVE  IInv'
<1>1. /\ UNCHANGED << import, typeRefs, modRefs, mem, live, calls, gil >>
      /\ UNCHANGED << content, where, exports, given, did >>
  BY DEF vars, module, hashers, memory, history
<1>2. ImportRight' /\ Shapes' /\ ViewsAccounted'
  BY <1>1, Zenon DEF IInv, ImportRight, Shapes, ViewsAccounted, Holds
<1>3. LockRight' /\ HashersRight' /\ CallsRight'
  BY <1>1, Zenon DEF IInv, LockRight, HashersRight, CallsRight, CallRight
<1>4. QED
  BY <1>2, <1>3 DEF IInv

LEMMA StepPreserves ==
  ASSUME IInv, NEW c \in Callers, Step(c)
  PROVE  IInv'
<1>1. CASE \E o \in Objects, arg \in SeedArgs : New(c, o, arg) \/ Reset(c, o, arg)
  BY <1>1, NewPreserves, ResetPreserves
<1>2. CASE \E o, q \in Objects : Copy(c, o, q)
  BY <1>2, CopyPreserves
<1>3. CASE \E o \in Objects : Digest(c, o)
  BY <1>3, DigestPreserves
<1>4. CASE \E o \in Objects, b \in Buffers : StartUpdate(c, o, b)
  BY <1>4, StartUpdatePreserves
<1>5. CASE \E b \in Buffers, w \in Widths, arg \in SeedArgs : StartHash(c, b, w, arg)
  BY <1>5, StartHashPreserves
<1>6. CASE FetchFails(c) \/ Fetched(c)
  BY <1>6, FetchFailsPreserves, FetchedPreserves
<1>7. CASE Rejects(c) \/ Absorbs(c) \/ Hashes(c)
  BY <1>7, RejectsPreserves, AbsorbsPreserves, HashesPreserves
<1>8. CASE Released(c)
  BY <1>8, ReleasedPreserves
<1>9. QED
  BY <1>1, <1>2, <1>3, <1>4, <1>5, <1>6, <1>7, <1>8 DEF Step

LEMMA NextPreserves == IInv /\ [Next]_vars => IInv'
<1> SUFFICES ASSUME IInv, [Next]_vars PROVE IInv'
  OBVIOUS
<1>1. CASE ImportCreate \/ ImportAdd \/ ImportAddFails
  BY <1>1, ImportPreserves
<1>2. CASE \E c \in Callers : Step(c)
  BY <1>2, StepPreserves
<1>3. CASE \E o \in Objects : Dealloc(o)
  BY <1>3, DeallocPreserves
<1>4. CASE \E b \in Buffers, bytes \in Contents : Write(b, bytes) \/ Resize(b, bytes)
  BY <1>4, PythonPreserves
<1>5. CASE UNCHANGED vars
  BY <1>5, StutterPreserves
<1>6. QED
  BY <1>1, <1>2, <1>3, <1>4, <1>5 DEF Next

(* The invariant holds whatever the threads, the exporters and the failures*)
(* of python/native/_hayahash.c do.                                        *)
THEOREM Inductive == Spec => []IInv
<1>1. IInv /\ [Next]_vars => IInv'
  BY NextPreserves
<1>2. QED
  BY InitEstablishes, <1>1, PTL DEF Spec

-----------------------------------------------------------------------------
(***************************************************************************)
(* What follows.                                                           *)
(***************************************************************************)

(* Every Py_buffer is released exactly once, on every path of Hasher_update*)
(* and of the two functions, and not before the last read of it.           *)
THEOREM ViewsAreReleased == Spec => []ViewsAccounted
<1>1. IInv => ViewsAccounted
  BY DEF IInv
<1>2. QED
  BY Inductive, <1>1, PTL

(* The digests of a hasher are the one-shot hashes, with the seed it holds,*)
(* of what its update calls were given; copies and resets included.        *)
THEOREM StatesAreGiven == Spec => []StateIsGiven
<1>1. IInv => StateIsGiven
  <2> SUFFICES ASSUME IInv, NEW o \in live
               PROVE  /\ Digest64(mem[o].st) = OneShot(64, mem[o].seed, given[o])
                      /\ Digest128(mem[o].st) = OneShot(128, mem[o].seed, given[o])
    BY DEF StateIsGiven
  <2>1. mem[o].st = [seed |-> mem[o].seed, msg |-> given[o]]
    BY DEF IInv, HashersRight
  <2>2. mem[o].st.seed = mem[o].seed /\ mem[o].st.msg = given[o]
    BY <2>1
  <2>3. QED
    BY <2>2 DEF Digest64, Digest128
<1>2. QED
  BY Inductive, <1>1, PTL

(* An exception means that no hasher was written, a result that it was.    *)
THEOREM CallsAreAtomic == Spec => []AllOrNothing
<1>1. IInv => AllOrNothing
  BY DEF IInv, CallsRight, CallRight, AllOrNothing
<1>2. QED
  BY Inductive, <1>1, PTL

(* PyInit__hayahash keeps its references straight however often it fails.  *)
THEOREM ImportIsAtomic == Spec => []ImportAllOrNothing
<1>1. IInv => ImportAllOrNothing
  BY DEF IInv, ImportRight, ImportAllOrNothing
<1>2. QED
  BY Inductive, <1>1, PTL

(* hayahash64 and hayahash128 of a mutable buffer answer for its bytes at  *)
(* the fetch, whatever other threads write before and after.               *)
THEOREM AnswersAreRight == Spec => []AnswersRight
<1>1. IInv => AnswersRight
  BY DEF IInv, CallsRight, CallRight, AnswersRight
<1>2. QED
  BY Inductive, <1>1, PTL
=============================================================================
