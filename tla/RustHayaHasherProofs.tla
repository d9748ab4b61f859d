------------------------ MODULE RustHayaHasherProofs ------------------------
(***************************************************************************)
(* Proofs about RustHayaHasher, for every in-line capacity, every set of   *)
(* write lengths and every message length.                                 *)
(***************************************************************************)
EXTENDS RustHayaHasher, WalkProofs

(* The used part of the array is the message, when it is in line.          *)
LEMMA InlineRun ==
  ASSUME IInv, ~Spilled
  PROVE  SubSeq(inline, 1, len) = NextBytes(0, total)
<1>1. /\ total \in Nat /\ len = total /\ len \in 0 .. InlineCap
      /\ inline \in [1 .. InlineCap -> Nat \cup {Zero}]
      /\ \A i \in 1 .. len : inline[i] = i - 1
  BY DEF IInv
<1>2. SubSeq(inline, 1, len) = [i \in 1 .. len |-> inline[i]]
  BY <1>1, RustAssumption, SMT DEF Zero
<1>3. NextBytes(0, total) = [i \in 1 .. len |-> i - 1]
  BY <1>1, SMT DEF NextBytes
<1>4. [i \in 1 .. len |-> inline[i]] = [i \in 1 .. len |-> i - 1]
  BY <1>1, Zenon
<1>5. QED
  BY <1>2, <1>3, <1>4

(* buffer() is the bytes written, wherever they are.                       *)
LEMMA BufferIs ==
  IInv => buffer = NextBytes(0, total) /\ total \in Nat
<1> SUFFICES ASSUME IInv PROVE buffer = NextBytes(0, total) /\ total \in Nat
  OBVIOUS
<1>1. CASE Spilled
  BY <1>1 DEF IInv, buffer
<1>2. CASE ~Spilled
  BY <1>2, InlineRun DEF IInv, buffer
<1>3. QED
  BY <1>1, <1>2

(* The same after a step.                                                  *)
LEMMA BufferIsNext ==
  IInv' => (buffer = NextBytes(0, total) /\ total \in Nat)'
BY BufferIs, PTL

(* The message and the bytes of a write, one after the other.              *)
LEMMA WriteExtends ==
  ASSUME total \in Nat, NEW n \in Nat
  PROVE  NextBytes(0, total) \o NextBytes(total, n) = NextBytes(0, total + n)
<1>1. 0 \in Nat /\ 0 + total = total
  BY SMT
<1>2. NextBytes(0, total) \o NextBytes(0 + total, n) = NextBytes(0, total + n)
  BY <1>1, NextBytesConcat
<1>3. QED
  BY <1>1, <1>2

(* A run of at least one byte is not empty.                                *)
LEMMA RunNotEmpty ==
  ASSUME NEW k \in Nat, k > 0
  PROVE  NextBytes(0, k) # << >>
<1>1. 0 \in Nat /\ Len(NextBytes(0, k)) = k
  BY NextBytesType
<1>2. QED
  BY <1>1, SMT

-----------------------------------------------------------------------------
(***************************************************************************)
(* The invariant.                                                          *)
(***************************************************************************)

LEMMA InitEstablishes == Init => IInv
<1> SUFFICES ASSUME Init PROVE IInv
  OBVIOUS
<1>1. /\ seed \in Seeds /\ len = 0 /\ heap = << >> /\ total = 0
      /\ inline = [i \in 1 .. InlineCap |-> Zero]
  BY DEF Init
<1>2. inline \in [1 .. InlineCap -> Nat \cup {Zero}]
  BY <1>1
<1>3. ~Spilled
  BY <1>1 DEF Spilled
<1>4. total \in Nat /\ len \in 0 .. InlineCap /\ \A i \in 1 .. len : inline[i] = i - 1
  BY <1>1, RustAssumption, SMT
<1>5. QED
  BY <1>1, <1>2, <1>3, <1>4 DEF IInv

(* A hasher that is new, or built by another, holds nothing.               *)
LEMMA EmptyPreserves ==
  ASSUME NEW s \in Seeds, Empty(s)
  PROVE  IInv'
<1>1. /\ seed' \in Seeds /\ len' = 0 /\ heap' = << >> /\ total' = 0
      /\ inline' = [i \in 1 .. InlineCap |-> Zero]
  BY DEF Empty
<1>2. inline' \in [1 .. InlineCap -> Nat \cup {Zero}]
  BY <1>1
<1>3. ~Spilled'
  BY <1>1 DEF Spilled
<1>4. /\ total' \in Nat /\ len' \in 0 .. InlineCap
      /\ \A i \in 1 .. len' : inline'[i] = i - 1
  BY <1>1, RustAssumption, SMT
<1>5. QED
  BY <1>1, <1>2, <1>3, <1>4 DEF IInv

(* What every write does.                                                  *)
LEMMA WrittenFacts ==
  ASSUME IInv, NEW n, Written(n)
  PROVE  /\ n \in Nat /\ n > 0 /\ total \in Nat
         /\ total' = total + n /\ total' \in Nat /\ total' > 0 /\ out' = {}
<1>1. n \in Nat /\ n # 0 /\ total \in Nat /\ total' = total + n /\ out' = {}
  BY RustAssumption DEF Written, IInv
<1>2. QED
  BY <1>1, SMT

LEMMA WriteHeapPreserves ==
  ASSUME IInv, NEW n \in Chunks, WriteHeap(n)
  PROVE  IInv'
<1>1. /\ n \in Nat /\ n > 0 /\ total \in Nat
      /\ total' = total + n /\ total' \in Nat /\ total' > 0
  BY WrittenFacts DEF WriteHeap
<1>2. /\ heap = NextBytes(0, total) /\ total > InlineCap
      /\ seed \in Seeds /\ len \in 0 .. InlineCap
      /\ inline \in [1 .. InlineCap -> Nat \cup {Zero}]
  BY DEF IInv, WriteHeap
<1>3. seed' = seed /\ len' = len /\ inline' = inline
      /\ heap' = heap \o NextBytes(total, n)
  BY DEF WriteHeap
<1>4. heap' = NextBytes(0, total')
  BY <1>1, <1>2, <1>3, WriteExtends
<1>5. Spilled'
  BY <1>1, <1>4, RunNotEmpty DEF Spilled
<1>6. total' > InlineCap
  BY <1>1, <1>2, RustAssumption, SMT
<1>7. QED
  BY <1>1, <1>2, <1>3, <1>4, <1>5, <1>6 DEF IInv

LEMMA WriteInlinePreserves ==
  ASSUME IInv, NEW n \in Chunks, WriteInline(n)
  PROVE  IInv'
<1>1. /\ n \in Nat /\ n > 0 /\ total \in Nat /\ total' = total + n /\ total' \in Nat
  BY WrittenFacts DEF WriteInline
<1>2. /\ seed \in Seeds /\ len \in 0 .. InlineCap /\ len = total
      /\ inline \in [1 .. InlineCap -> Nat \cup {Zero}]
      /\ \A i \in 1 .. len : inline[i] = i - 1
  BY DEF IInv, WriteInline
<1>3. /\ seed' = seed /\ heap' = heap /\ len' = len + n /\ len + n <= InlineCap
      /\ inline' = [i \in 1 .. InlineCap |->
           IF i \in len + 1 .. len + n THEN total + (i - len) - 1 ELSE inline[i]]
  BY DEF WriteInline, Fits
<1>4. ~Spilled'
  BY <1>3 DEF WriteInline, Spilled
<1>5. len' \in 0 .. InlineCap /\ len' = total'
  BY <1>1, <1>2, <1>3, RustAssumption, SMT
<1>6. inline' \in [1 .. InlineCap -> Nat \cup {Zero}]
  <2>1. ASSUME NEW i \in 1 .. InlineCap, i \in len + 1 .. len + n
        PROVE  total + (i - len) - 1 \in Nat
    BY <2>1, <1>1, <1>2, RustAssumption, SMT
  <2>2. QED
    BY <2>1, <1>2, <1>3
<1>7. ASSUME NEW i \in 1 .. len' PROVE inline'[i] = i - 1
  <2>1. i \in 1 .. InlineCap /\ i \in Int /\ len \in Int
    BY <1>2, <1>3, <1>5, RustAssumption, SMT
  <2>2. CASE i \in len + 1 .. len + n
    <3>1. inline'[i] = total + (i - len) - 1
      BY <2>1, <2>2, <1>3
    <3>2. total + (i - len) - 1 = i - 1
      BY <2>1, <1>1, <1>2, SMT
    <3>3. QED
      BY <3>1, <3>2
  <2>3. CASE ~(i \in len + 1 .. len + n)
    <3>1. inline'[i] = inline[i]
      BY <2>1, <2>3, <1>3
    <3>2. i \in 1 .. len
      BY <2>1, <2>3, <1>1, <1>2, <1>3, SMT
    <3>3. QED
      BY <3>1, <3>2, <1>2
  <2>4. QED
    BY <2>2, <2>3
<1>8. QED
  BY <1>1, <1>2, <1>3, <1>4, <1>5, <1>6, <1>7 DEF IInv

LEMMA SpillPreserves ==
  ASSUME IInv, NEW n \in Chunks, Spill(n)
  PROVE  IInv'
<1>1. /\ n \in Nat /\ n > 0 /\ total \in Nat
      /\ total' = total + n /\ total' \in Nat /\ total' > 0
  BY WrittenFacts DEF Spill
<1>2. /\ seed \in Seeds /\ len \in 0 .. InlineCap /\ len = total
      /\ inline \in [1 .. InlineCap -> Nat \cup {Zero}]
  BY DEF IInv, Spill
<1>3. /\ seed' = seed /\ len' = len /\ inline' = inline
      /\ heap' = SubSeq(inline, 1, len) \o NextBytes(total, n)
      /\ ~Spilled /\ ~(len + n <= InlineCap)
  BY DEF Spill, Fits
<1>4. heap' = NextBytes(0, total')
  BY <1>1, <1>3, InlineRun, WriteExtends
<1>5. Spilled'
  BY <1>1, <1>4, RunNotEmpty DEF Spilled
<1>6. total' > InlineCap
  BY <1>1, <1>2, <1>3, RustAssumption, SMT
<1>7. QED
  BY <1>1, <1>2, <1>3, <1>4, <1>5, <1>6 DEF IInv

LEMMA NextPreserves == IInv /\ [Next]_vars => IInv'
<1> SUFFICES ASSUME IInv, [Next]_vars PROVE IInv'
  OBVIOUS
<1>1. ASSUME NEW s \in Seeds, Empty(s) PROVE IInv'
  BY <1>1, EmptyPreserves
<1>2. ASSUME NEW n \in Chunks, WriteHeap(n) \/ WriteInline(n) \/ Spill(n) PROVE IInv'
  BY <1>2, WriteHeapPreserves, WriteInlinePreserves, SpillPreserves
<1>3. CASE Build
  <2>1. seed \in Seeds
    BY DEF IInv
  <2>2. QED
    BY <1>3, <2>1, EmptyPreserves DEF Build
<1>4. ASSUME UNCHANGED << fields, total >> PROVE IInv'
  BY <1>4 DEF IInv, fields, Spilled
<1>5. QED
  BY <1>1, <1>2, <1>3, <1>4 DEF Next, Digest, vars

(* In the array or on the heap, the whole message is there.                *)
THEOREM Inductive == Spec => []IInv
<1>1. QED
  BY InitEstablishes, NextPreserves, PTL DEF Spec

(* hasher.rs: the digest always equals hayahash64 of the concatenated      *)
(* writes.                                                                 *)
THEOREM ConcatenatedWrites == Spec => []DigestIsOneShot
<1>1. IInv => DigestIsOneShot
  BY BufferIs DEF DigestIsOneShot
<1>2. QED
  BY <1>1, Inductive, PTL

(* Nothing is allocated for a message that fits in line.                   *)
THEOREM ShortKeysDoNotAllocate == Spec => []AllocatesOnlyWhenLarger
<1>1. IInv => AllocatesOnlyWhenLarger
  BY DEF IInv, AllocatesOnlyWhenLarger, Spilled
<1>2. QED
  BY <1>1, Inductive, PTL

-----------------------------------------------------------------------------
(***************************************************************************)
(* Refinement of StreamSpec.                                               *)
(***************************************************************************)

(* The one-shot function StreamSpec refers to is the one of Walk, and so   *)
(* are the runs of bytes.                                                  *)
LEMMA SameOneShot ==
  ASSUME NEW w, NEW s, NEW msg
  PROVE  Promise!OneShot(w, s, msg) = OneShot(w, s, msg)
BY DEF Promise!OneShot, OneShot, Promise!ShortHash, ShortHash,
       Promise!MidHash, MidHash, Promise!LongHash, LongHash,
       Promise!Finish, Finish, Promise!WholeBlocks, WholeBlocks,
       Promise!HeadWords, HeadWords, Promise!LastWords, LastWords,
       Promise!Load, Load, Promise!Outside, Outside

LEMMA SameNextBytes ==
  ASSUME NEW k, NEW n
  PROVE  Promise!NextBytes(k, n) = NextBytes(k, n)
BY DEF Promise!NextBytes, NextBytes

(* A write, wherever its bytes go, appends them to the message.            *)
LEMMA WriteSimulates ==
  ASSUME IInv, IInv', NEW n, Written(n), seed' = seed
  PROVE  Promise!Update
<1>1. /\ n \in Nat /\ n > 0 /\ total \in Nat /\ total' = total + n /\ out' = {}
  BY WrittenFacts
<1>2. buffer = NextBytes(0, total) /\ buffer' = NextBytes(0, total + n)
  BY <1>1, BufferIs, BufferIsNext
<1>3. Len(buffer) = total /\ Len(buffer') = total + n
  <2>1. 0 \in Nat /\ total + n \in Nat
    BY <1>1, SMT
  <2>2. QED
    BY <2>1, <1>1, <1>2, NextBytesType
<1>4. (total + n) - total = n /\ total + n > total
  BY <1>1, SMT
<1>5. buffer' = buffer \o Promise!NextBytes(Len(buffer), Len(buffer') - Len(buffer))
  BY <1>1, <1>2, <1>3, <1>4, WriteExtends, SameNextBytes
<1>6. QED
  BY <1>1, <1>3, <1>4, <1>5 DEF Promise!Update

(* Every step is a step of the promise, building a hasher included.        *)
LEMMA StepSimulates ==
  ASSUME IInv, IInv', Next
  PROVE  Promise!Next
<1>1. ASSUME NEW s \in Seeds, Empty(s) PROVE Promise!Restart(s)
  <2>1. seed' = s /\ len' = 0 /\ heap' = << >> /\ out' = {} /\ total' = 0
    BY <1>1 DEF Empty
  <2>2. buffer' = NextBytes(0, 0)
    BY <2>1, BufferIsNext
  <2>3. NextBytes(0, 0) = << >>
    BY SMT DEF NextBytes
  <2>4. QED
    BY <2>1, <2>2, <2>3 DEF Promise!Restart
<1>2. ASSUME NEW n \in Chunks, WriteHeap(n) \/ WriteInline(n) \/ Spill(n)
      PROVE  Promise!Update
  BY <1>2, WriteSimulates DEF WriteHeap, WriteInline, Spill
<1>3. ASSUME NEW w \in Widths, Digest(w) PROVE Promise!Digest(w)
  <2>1. /\ out' = {OneShot(w, seed, buffer)} /\ seed' = seed
        /\ len' = len /\ inline' = inline /\ heap' = heap
    BY <1>3 DEF Digest, fields
  <2>2. buffer' = buffer
    BY <2>1 DEF buffer, Spilled
  <2>3. QED
    BY <2>1, <2>2, SameOneShot DEF Promise!Digest
<1>4. Widths = Promise!Widths
  BY DEF Widths, Promise!Widths
<1>5. CASE Build
  <2>1. seed \in Seeds
    BY DEF IInv
  <2>2. QED
    BY <1>1, <1>5, <2>1 DEF Build, Promise!Next
<1>6. QED
  BY <1>1, <1>2, <1>3, <1>4, <1>5 DEF Next, Promise!Next

(* HayaHasher implements the promise of StreamSpec.                        *)
THEOREM Refinement == Spec => ImplementsStreamSpec
<1>1. Init => Promise!Init
  <2>1. ASSUME Init PROVE buffer = << >>
    <3>1. buffer = NextBytes(0, 0)
      BY <2>1, InitEstablishes, BufferIs DEF Init
    <3>2. NextBytes(0, 0) = << >>
      BY SMT DEF NextBytes
    <3>3. QED
      BY <3>1, <3>2
  <2>2. QED
    BY <2>1 DEF Init, Promise!Init
<1>2. IInv /\ IInv' /\ [Next]_vars => [Promise!Next]_(Promise!vars)
  <2>1. UNCHANGED vars => UNCHANGED Promise!vars
    BY DEF vars, fields, Promise!vars, buffer, Spilled
  <2>2. QED
    BY <2>1, StepSimulates
<1>3. QED
  BY <1>1, <1>2, Inductive, PTL DEF Spec, ImplementsStreamSpec, Promise!Spec
=============================================================================
