---------------------------- MODULE StreamProofs ----------------------------
(***************************************************************************)
(* Proofs about HayaStream, for every block, floor and buffer size that    *)
(* meets its assumptions, every set of call lengths and every message      *)
(* length.  They cite nothing of PortStreams.  Then proofs about           *)
(* PortStreams: no index of any port leaves its type, whatever the width   *)
(* of the type, the fill level and the chunks, and so each port's machine  *)
(* is HayaStream.                                                          *)
(***************************************************************************)
EXTENDS PortStreams, WalkProofs


(* What the assumptions on the sizes say of the buffer and its floor.      *)
LEMMA CapacityFacts ==
  /\ Keep \in Nat /\ BufCap \in Nat /\ BulkMin \in Nat
  /\ Keep >= Block /\ Keep >= Pair /\ Keep + Block <= BufCap
  /\ BulkMin <= BufCap
  /\ Keep % Block = 0
<1>1. /\ Keep \in Nat /\ BufCap \in Nat /\ BulkMin \in Nat
      /\ Keep # 0 /\ Keep % Block = 0
      /\ Keep + Block <= BufCap /\ BulkMin <= BufCap
  BY StreamAssumption, WalkAssumption
<1>2. Keep >= Block
  <2>1. CASE Keep < Block
    <3>1. ((Block * 0) + Keep) % Block = Keep
      <4>1. Keep \in 0 .. (Block - 1)
        BY <2>1, <1>1, SizesPositive, SMT
      <4>2. QED
        BY <4>1, ModUnique, SizesPositive
    <3>2. (Block * 0) + Keep = Keep
      BY <1>1, SizesPositive, SMT
    <3>3. QED
      BY <3>1, <3>2, <1>1
  <2>2. QED
    BY <2>1, <1>1, SizesPositive, SMT
<1>3. Block >= Pair
  BY WalkAssumption, SMT
<1>4. QED
  BY <1>1, <1>2, <1>3, SizesPositive, SMT

(* The first m bytes in the buffer continue the bytes absorbed.            *)
LEMMA FrontOfBuffer ==
  ASSUME IInv, NEW m \in 0 .. nbuf
  PROVE  /\ Load(buf, 1, m) = NextBytes(Len(fed), m)
         /\ fed \o Load(buf, 1, m) = NextBytes(0, Len(fed) + m)
<1>1. /\ Len(fed) \in Nat /\ m \in Nat
      /\ BufCap \in Nat /\ m \in 0 .. BufCap
      /\ HoldsFrom(buf, BufCap, Len(fed), m)
  BY CapacityFacts, SMT DEF IInv, TypeOK, BufferHoldsNext, HoldsFrom
<1>2. Load(buf, 1, m) = NextBytes(Len(fed), m)
  BY <1>1, LoadFront
<1>3. fed = NextBytes(0, Len(fed))
  BY DEF IInv, LanesHoldPrefix
<1>4. NextBytes(0, Len(fed)) \o NextBytes(0 + Len(fed), m)
        = NextBytes(0, Len(fed) + m)
  BY <1>1, NextBytesConcat
<1>5. 0 + Len(fed) = Len(fed)
  BY <1>1, SMT
<1>6. QED
  BY <1>2, <1>3, <1>4, <1>5

(* Lanes that absorb the first m bytes of the buffer, whole blocks of      *)
(* them, and then d more whole blocks that come after, still hold a        *)
(* prefix of the message.                                                  *)
LEMMA PrefixGrows ==
  ASSUME NEW k \in Nat, NEW d \in Nat
  PROVE  /\ Len(NextBytes(0, k)) = k
         /\ NextBytes(0, k) \in Seq(Bytes)
         /\ NextBytes(0, k) = NextBytes(0, Len(NextBytes(0, k)))
         /\ NextBytes(0, k) \o NextBytes(k, d) = NextBytes(0, k + d)
<1>1. Len(NextBytes(0, k)) = k /\ NextBytes(0, k) \in Seq(Nat)
  BY NextBytesType
<1>2. NextBytes(0, k) \in Seq(Bytes)
  BY SMT DEF Bytes, NextBytes
<1>3. NextBytes(0, k) \o NextBytes(0 + k, d) = NextBytes(0, k + d)
  BY NextBytesConcat
<1>4. 0 + k = k
  BY SMT
<1>5. QED
  BY <1>1, <1>2, <1>3, <1>4

-----------------------------------------------------------------------------
(***************************************************************************)
(* IInv is inductive: one lemma per action.                                *)
(***************************************************************************)

(* What init leaves: no byte absorbed, none in the buffer.                 *)
LEMMA FreshLanes ==
  /\ << >> \in Seq(Bytes) /\ Len(<< >>) = 0
  /\ << >> = NextBytes(0, 0)
  /\ 0 % Block = 0
  /\ [i \in 1 .. BufCap |-> Junk] \in [1 .. BufCap -> Bytes]
<1>1. << >> \in Seq(Bytes) /\ Len(<< >>) = 0
  OBVIOUS
<1>2. << >> = NextBytes(0, 0)
  BY SMT DEF NextBytes
<1>3. 0 % Block = 0
  BY SizesPositive, SMT
<1>4. [i \in 1 .. BufCap |-> Junk] \in [1 .. BufCap -> Bytes]
  BY Zenon DEF Bytes
<1>5. QED
  BY <1>1, <1>2, <1>3, <1>4

(* hayahash64_init establishes the invariant.                              *)
LEMMA InitEstablishes == Init => IInv
<1> SUFFICES ASSUME Init PROVE IInv
  OBVIOUS
<1>1. bulk \in BOOLEAN /\ ~bulk
  BY DEF Init
<1>2. /\ seed \in Seeds /\ iv \in Seeds /\ iv = seed
      /\ fed \in Seq(Bytes) /\ buf \in [1 .. BufCap -> Bytes]
      /\ fed = NextBytes(0, Len(fed)) /\ Len(fed) % Block = 0 /\ Len(fed) = 0
      /\ pc = "ready" /\ nbuf = 0 /\ total = 0 /\ data = 0 /\ p = 0 /\ n = 0
  BY FreshLanes DEF Init
<1>3. TypeOK
  BY <1>1, <1>2, CapacityFacts, SMT DEF TypeOK
<1>4. LanesHoldPrefix
  BY <1>2 DEF LanesHoldPrefix
<1>5. BufferHoldsNext /\ BytesAddUp
  BY <1>2, SMT DEF BufferHoldsNext, BytesAddUp, Held
<1>6. PhaseOK
  BY <1>1, <1>2, CapacityFacts, SizesPositive, SMT DEF PhaseOK
<1>7. QED
  BY <1>3, <1>4, <1>5, <1>6 DEF IInv

(* So does calling it again on a state that has been used.                 *)
LEMMA ReinitPreserves ==
  ASSUME IInv, NEW s \in Seeds, Reinit(s)
  PROVE  IInv'
<1>1. bulk' \in BOOLEAN /\ ~bulk'
  BY DEF Reinit
<1>2. /\ seed' \in Seeds /\ iv' \in Seeds /\ iv' = seed'
      /\ fed' \in Seq(Bytes) /\ buf' \in [1 .. BufCap -> Bytes]
      /\ fed' = NextBytes(0, Len(fed')) /\ Len(fed') % Block = 0
      /\ Len(fed') = 0
      /\ pc' = "ready" /\ nbuf' = 0 /\ total' = 0
      /\ data' \in Nat /\ p' \in Nat /\ n' \in Nat
  BY FreshLanes DEF Reinit, call, IInv, TypeOK
<1>3. TypeOK'
  BY <1>1, <1>2, CapacityFacts, SMT DEF TypeOK
<1>4. LanesHoldPrefix'
  BY <1>2 DEF LanesHoldPrefix
<1>5. BufferHoldsNext' /\ BytesAddUp'
  BY <1>2, SMT DEF BufferHoldsNext, BytesAddUp, Held
<1>6. PhaseOK'
  BY <1>1, <1>2, CapacityFacts, SizesPositive, SMT DEF PhaseOK
<1>7. QED
  BY <1>3, <1>4, <1>5, <1>6 DEF IInv

(* memcpy keeps the buffer a run of the stream when the bytes it copies    *)
(* are the ones that come next.                                            *)
LEMMA CopyExtends ==
  ASSUME IInv, NEW from \in Nat, NEW len \in Nat,
         from = Len(fed) + nbuf, nbuf + len <= BufCap
  PROVE  /\ Copied(from, len) \in [1 .. BufCap -> Bytes]
         /\ \A i \in 1 .. (nbuf + len) :
              Copied(from, len)[i] = Len(fed) + i - 1
<1>1. /\ Len(fed) \in Nat /\ nbuf \in 0 .. BufCap /\ BufCap \in Nat
      /\ buf \in [1 .. BufCap -> Bytes]
      /\ \A i \in 1 .. nbuf : buf[i] = Len(fed) + i - 1
  BY CapacityFacts DEF IInv, TypeOK, BufferHoldsNext
<1>2. ASSUME NEW i \in 1 .. BufCap
      PROVE  Copied(from, len)[i] \in Bytes
  <2>1. CASE i \in nbuf + 1 .. nbuf + len
    <3>1. from + (i - nbuf - 1) \in Nat
      BY <2>1, <1>1, SMT
    <3>2. QED
      BY <2>1, <3>1 DEF Copied, Bytes
  <2>2. CASE i \notin nbuf + 1 .. nbuf + len
    BY <2>2, <1>1 DEF Copied
  <2>3. QED
    BY <2>1, <2>2
<1>3. ASSUME NEW i \in 1 .. (nbuf + len)
      PROVE  Copied(from, len)[i] = Len(fed) + i - 1
  <2>1. i \in 1 .. BufCap
    BY <1>1, SMT
  <2>2. CASE i \in nbuf + 1 .. nbuf + len
    <3>1. Copied(from, len)[i] = from + (i - nbuf - 1)
      BY <2>1, <2>2 DEF Copied
    <3>2. QED
      BY <3>1, <2>2, <1>1, SMT
  <2>3. CASE i \notin nbuf + 1 .. nbuf + len
    <3>1. i \in 1 .. nbuf
      BY <2>3, <1>1, SMT
    <3>2. Copied(from, len)[i] = buf[i]
      BY <2>1, <2>3 DEF Copied
    <3>3. QED
      BY <3>1, <3>2, <1>1
  <2>4. QED
    BY <2>2, <2>3
<1>4. Copied(from, len) = [i \in 1 .. BufCap |-> Copied(from, len)[i]]
  BY DEF Copied
<1>5. QED
  BY <1>2, <1>3, <1>4

(* A call that stays below the capacity: the buffer is still the whole     *)
(* message.                                                                *)
LEMMA UpdateBufferedPreserves ==
  ASSUME IInv, NEW len \in Chunks, UpdateBuffered(len)
  PROVE  IInv'
<1>1. /\ len \in Nat /\ len > 0
      /\ pc = "ready" /\ total \in Nat /\ nbuf \in Nat
      /\ nbuf + len < BufCap /\ ~bulk
      /\ Len(fed) = 0 /\ Len(fed) + nbuf = total
  BY StreamAssumption, SMT
     DEF IInv, TypeOK, PhaseOK, BytesAddUp, Held, UpdateBuffered, Enter,
         StaysBuffered
<1>2. /\ pc' = "ready" /\ data' = 0 /\ p' = 0 /\ n' = 0
      /\ seed' = seed /\ iv' = iv /\ fed' = fed /\ bulk' = bulk
      /\ total' = total + len /\ nbuf' = nbuf + len
      /\ buf' = Copied(total, len)
  BY DEF UpdateBuffered, Enter, Return
<1>3. /\ Copied(total, len) \in [1 .. BufCap -> Bytes]
      /\ \A i \in 1 .. (nbuf + len) :
           Copied(total, len)[i] = Len(fed) + i - 1
  <2>1. total = Len(fed) + nbuf /\ nbuf + len <= BufCap
    BY <1>1, CapacityFacts, SMT
  <2>2. QED
    BY <2>1, <1>1, CopyExtends
<1>4. bulk' \in BOOLEAN /\ ~bulk'
  BY <1>1, <1>2 DEF IInv, TypeOK
<1>5. TypeOK'
  BY <1>1, <1>2, <1>3, <1>4, CapacityFacts, SMT DEF IInv, TypeOK
<1>6. LanesHoldPrefix'
  BY <1>2 DEF IInv, LanesHoldPrefix
<1>7. BufferHoldsNext'
  BY <1>2, <1>3 DEF BufferHoldsNext
<1>8. BytesAddUp'
  BY <1>1, <1>2, SMT DEF BytesAddUp, Held
<1>9. PhaseOK'
  BY <1>1, <1>2, <1>4 DEF PhaseOK
<1>10. QED
  BY <1>5, <1>6, <1>7, <1>8, <1>9 DEF IInv

(* The commit to the bulk path: the total has reached the capacity, so the *)
(* buffer is going to be filled.                                           *)
LEMMA UpdateBulkPreserves ==
  ASSUME IInv, NEW len \in Chunks, UpdateBulk(len)
  PROVE  IInv'
<1>1. /\ len \in Nat /\ len > 0
      /\ pc = "ready" /\ total \in Nat /\ nbuf \in 0 .. BufCap
      /\ Len(fed) \in Nat /\ Len(fed) + nbuf = total /\ nbuf < BufCap
      /\ BufCap \in Nat /\ Keep \in Nat
  BY StreamAssumption, CapacityFacts, SMT
     DEF IInv, TypeOK, PhaseOK, BytesAddUp, Held, UpdateBulk, Enter
<1>2. /\ pc' = "loop" /\ data' = total /\ p' = total /\ n' = len
      /\ seed' = seed /\ iv' = iv /\ fed' = fed /\ bulk' = TRUE
      /\ total' = total + len /\ nbuf' = nbuf /\ buf' = buf
  BY DEF UpdateBulk, Enter
<1>3. total + len >= BufCap /\ (nbuf >= Keep \/ nbuf + len >= BufCap)
  <2>1. CASE bulk
    BY <2>1, <1>1, SMT DEF IInv, PhaseOK
  <2>2. CASE ~bulk
    <3>1. ~(nbuf + len < BufCap)
      BY <2>2 DEF UpdateBulk, StaysBuffered
    <3>2. QED
      BY <3>1, <1>1, SMT
  <2>3. QED
    BY <2>1, <2>2
<1>4. TypeOK'
  BY <1>1, <1>2, SMT DEF IInv, TypeOK
<1>5. LanesHoldPrefix' /\ BufferHoldsNext'
  BY <1>2 DEF IInv, LanesHoldPrefix, BufferHoldsNext
<1>6. BytesAddUp'
  BY <1>1, <1>2, SMT DEF BytesAddUp, Held
<1>7. PhaseOK'
  BY <1>1, <1>2, <1>3, SMT DEF PhaseOK
<1>8. QED
  BY <1>4, <1>5, <1>6, <1>7 DEF IInv

(* The call is running, so the state is committed to the bulk path.        *)
LEMMA RunningIsBulk ==
  ASSUME IInv, pc # "ready"
  PROVE  /\ bulk = TRUE /\ total >= BufCap /\ total \in Nat
         /\ Len(fed) \in Nat /\ fed \in Seq(Bytes) /\ nbuf \in 0 .. BufCap
         /\ p \in Nat /\ n \in Nat /\ data \in Nat
         /\ Len(fed) + nbuf = p /\ p + n = total /\ data <= p /\ data < total
         /\ BufCap \in Nat /\ Keep \in Nat
<1>1. bulk = TRUE
  BY DEF IInv, PhaseOK, TypeOK
<1>2. total >= BufCap
  BY <1>1 DEF IInv, PhaseOK
<1>3. /\ total \in Nat /\ fed \in Seq(Bytes) /\ nbuf \in 0 .. BufCap
      /\ p \in Nat /\ n \in Nat /\ data \in Nat
  BY DEF IInv, TypeOK
<1>4. Len(fed) + nbuf = p /\ p + n = total /\ data <= p /\ data < total
  BY DEF IInv, BytesAddUp, Held
<1>5. QED
  BY <1>1, <1>2, <1>3, <1>4, CapacityFacts

(* The fast path: the floor and the direct blocks are absorbed, and a      *)
(* remainder of Keep .. Keep + Block - 1 bytes is left to copy.            *)
LEMMA FastPathPreserves ==
  ASSUME IInv, FastPath
  PROVE  IInv'
<1>1. /\ pc = "loop" /\ nbuf = Keep /\ n > BufCap
      /\ fed' = fed \o Load(buf, 1, Keep) \o NextBytes(p, Direct)
      /\ p' = p + Direct /\ n' = n - Direct
      /\ nbuf' = 0 /\ pc' = "fill"
      /\ seed' = seed /\ total' = total /\ bulk' = bulk /\ iv' = iv
      /\ buf' = buf /\ data' = data
  BY DEF FastPath, AtFloor
<1>2. /\ bulk = TRUE /\ total >= BufCap /\ total \in Nat
      /\ Len(fed) \in Nat
      /\ p \in Nat /\ n \in Nat /\ data \in Nat
      /\ Len(fed) + Keep = p /\ p + n = total /\ data <= p /\ data < total
      /\ BufCap \in Nat /\ Keep \in Nat
  BY <1>1, RunningIsBulk
<1>3. /\ Direct \in 0 .. (n - Keep)
      /\ (n - Keep) - Direct \in 0 .. (Block - 1)
      /\ Direct % Block = 0
  <2>1. n - Keep \in Nat
    BY <1>1, <1>2, CapacityFacts, SizesPositive, SMT
  <2>2. QED
    BY <2>1, WholeBlocksBounds DEF Direct
<1>4. Direct \in Nat /\ p + Direct \in Nat /\ n - Direct \in Nat
  BY <1>1, <1>2, <1>3, CapacityFacts, SizesPositive, SMT
<1>5. fed' = NextBytes(0, p + Direct)
  <2>1. Keep \in 0 .. nbuf
    BY <1>1, <1>2, SMT
  <2>2. fed \o Load(buf, 1, Keep) = NextBytes(0, p)
    BY <2>1, <1>2, FrontOfBuffer
  <2>3. NextBytes(0, p) \o NextBytes(p, Direct) = NextBytes(0, p + Direct)
    BY <1>2, <1>4, PrefixGrows
  <2>4. QED
    BY <1>1, <2>2, <2>3
<1>6. /\ Len(fed') = p + Direct /\ fed' \in Seq(Bytes)
      /\ fed' = NextBytes(0, Len(fed'))
  BY <1>4, <1>5, PrefixGrows
<1>7. (p + Direct) % Block = 0
  <2>1. Len(fed) % Block = 0 /\ Keep % Block = 0
    BY CapacityFacts DEF IInv, LanesHoldPrefix
  <2>2. p % Block = 0
    BY <2>1, <1>2, MultiplesAdd
  <2>3. QED
    BY <2>2, <1>2, <1>3, <1>4, MultiplesAdd
<1>8. TypeOK'
  BY <1>1, <1>2, <1>4, <1>6, SMT DEF IInv, TypeOK
<1>9. LanesHoldPrefix'
  BY <1>1, <1>6, <1>7 DEF IInv, LanesHoldPrefix
<1>10. BufferHoldsNext'
  BY <1>1, SMT DEF BufferHoldsNext
<1>11. BytesAddUp'
  BY <1>1, <1>2, <1>4, <1>6, SMT DEF BytesAddUp, Held
<1>12. PhaseOK'
  <2>1. n - Direct \in Keep .. (Keep + Block - 1)
    BY <1>2, <1>3, <1>4, SizesPositive, SMT
  <2>2. QED
    BY <2>1, <1>1, <1>2 DEF PhaseOK
<1>13. QED
  BY <1>8, <1>9, <1>10, <1>11, <1>12 DEF IInv

(* Take is what fits, so it fills the buffer or ends the call's bytes.     *)
LEMMA TakeFits ==
  ASSUME IInv, pc # "ready"
  PROVE  /\ Take \in Nat /\ nbuf + Take <= BufCap /\ Take <= n
         /\ nbuf + Take < BufCap => Take = n
BY RunningIsBulk, SMT DEF Take, Room

(* The copy, whether it fills the buffer or ends the call.                 *)
LEMMA FillPreserves ==
  ASSUME IInv, Fill
  PROVE  IInv'
<1>1. /\ pc # "ready" /\ pc \in {"fill", "loop"}
      /\ buf' = Copied(p, Take) /\ nbuf' = nbuf + Take
      /\ seed' = seed /\ total' = total /\ bulk' = bulk /\ iv' = iv
      /\ fed' = fed
  BY DEF Fill
<1>2. /\ bulk = TRUE /\ total >= BufCap /\ total \in Nat
      /\ Len(fed) \in Nat /\ fed \in Seq(Bytes) /\ nbuf \in 0 .. BufCap
      /\ p \in Nat /\ n \in Nat /\ data \in Nat
      /\ Len(fed) + nbuf = p /\ p + n = total /\ data <= p /\ data < total
      /\ BufCap \in Nat /\ Keep \in Nat
  BY <1>1, RunningIsBulk
<1>3. /\ Take \in Nat /\ nbuf + Take <= BufCap /\ Take <= n
      /\ nbuf + Take < BufCap => Take = n
  BY <1>1, TakeFits
<1>4. /\ Copied(p, Take) \in [1 .. BufCap -> Bytes]
      /\ \A i \in 1 .. (nbuf + Take) :
           Copied(p, Take)[i] = Len(fed) + i - 1
  BY <1>2, <1>3, CopyExtends
<1>5. nbuf + Take \in 0 .. BufCap
  BY <1>2, <1>3, SMT
<1>6. LanesHoldPrefix'
  BY <1>1 DEF IInv, LanesHoldPrefix
<1>7. BufferHoldsNext'
  BY <1>1, <1>4 DEF BufferHoldsNext
<1>8. CASE nbuf' < BufCap /\ Return
  <2>1. /\ pc' = "ready" /\ data' = 0 /\ p' = 0 /\ n' = 0 /\ Take = n
    BY <1>1, <1>3, <1>8 DEF Return
  <2>2. TypeOK'
    BY <2>1, <1>1, <1>2, <1>4, <1>5, SMT DEF IInv, TypeOK
  <2>3. BytesAddUp'
    BY <2>1, <1>1, <1>2, <1>3, SMT DEF BytesAddUp, Held
  <2>4. nbuf + Take >= Keep
    <3>1. CASE pc = "fill"
      BY <3>1, <2>1, <1>2, SizesPositive, SMT DEF IInv, PhaseOK
    <3>2. CASE pc = "loop"
      <4>1. nbuf >= Keep \/ nbuf + n >= BufCap
        BY <3>2, <1>2 DEF IInv, PhaseOK
      <4>2. QED
        BY <4>1, <2>1, <1>1, <1>2, <1>3, <1>8, SMT
    <3>3. QED
      BY <3>1, <3>2, <1>1
  <2>5. nbuf' \in Keep .. (BufCap - 1)
    BY <2>4, <1>1, <1>2, <1>5, <1>8, SMT
  <2>6. PhaseOK'
    BY <2>1, <2>5, <1>1, <1>2 DEF PhaseOK
  <2>7. QED
    BY <2>2, <2>3, <2>6, <1>6, <1>7 DEF IInv
<1>9. CASE /\ nbuf' >= BufCap /\ p' = p + Take /\ n' = n - Take
           /\ pc' = "drain" /\ UNCHANGED << data, out >>
  <2>1. data' = data /\ p + Take \in Nat /\ n - Take \in Nat
    BY <1>2, <1>3, <1>9, SMT
  <2>2. TypeOK'
    BY <2>1, <1>1, <1>2, <1>4, <1>5, <1>9, SMT DEF IInv, TypeOK
  <2>3. BytesAddUp'
    BY <2>1, <1>1, <1>2, <1>3, <1>9, SMT DEF BytesAddUp, Held
  <2>4. nbuf' = BufCap
    BY <1>1, <1>2, <1>3, <1>9, SMT
  <2>5. PhaseOK'
    BY <2>4, <1>1, <1>2, <1>9 DEF PhaseOK
  <2>6. QED
    BY <2>2, <2>3, <2>5, <1>6, <1>7 DEF IInv
<1>10. QED
  BY <1>8, <1>9 DEF Fill

(* The drain of a full buffer: what is absorbed and what the move keeps    *)
(* are still the bytes read so far, and the floor is left.                 *)
LEMMA DrainPreserves ==
  ASSUME IInv, Drain
  PROVE  IInv'
<1>1. /\ pc = "drain" /\ pc' = "loop"
      /\ fed' = fed \o Load(buf, 1, Consume)
      /\ nbuf' = nbuf - Consume
      /\ buf' = Moved(Consume, nbuf - Consume)
      /\ seed' = seed /\ total' = total /\ bulk' = bulk /\ iv' = iv
      /\ data' = data /\ p' = p /\ n' = n
  BY DEF Drain
<1>2. /\ bulk = TRUE /\ total >= BufCap /\ total \in Nat
      /\ Len(fed) \in Nat
      /\ p \in Nat /\ n \in Nat /\ data \in Nat
      /\ Len(fed) + nbuf = p /\ p + n = total /\ data <= p /\ data < total
      /\ BufCap \in Nat /\ Keep \in Nat
  BY <1>1, RunningIsBulk
<1>3. nbuf = BufCap /\ buf \in [1 .. BufCap -> Bytes]
  BY <1>1, <1>2 DEF IInv, PhaseOK, TypeOK
<1>4. /\ Consume \in 0 .. (BufCap - Keep)
      /\ (BufCap - Keep) - Consume \in 0 .. (Block - 1)
      /\ Consume % Block = 0
  <2>1. BufCap - Keep \in Nat
    BY <1>2, CapacityFacts, SizesPositive, SMT
  <2>2. QED
    BY <2>1, <1>3, WholeBlocksBounds DEF Consume
<1>5. /\ Consume \in 1 .. BufCap
      /\ nbuf - Consume \in Keep .. (BufCap - 1)
      /\ Len(fed) + Consume \in Nat
  BY <1>2, <1>3, <1>4, CapacityFacts, SizesPositive, SMT
<1>6. fed' = NextBytes(0, Len(fed) + Consume)
  <2>1. Consume \in 0 .. nbuf
    BY <1>2, <1>3, <1>5, SMT
  <2>2. QED
    BY <2>1, <1>1, FrontOfBuffer
<1>7. /\ Len(fed') = Len(fed) + Consume /\ fed' \in Seq(Bytes)
      /\ fed' = NextBytes(0, Len(fed'))
  BY <1>5, <1>6, PrefixGrows
<1>8. (Len(fed) + Consume) % Block = 0
  <2>1. Len(fed) % Block = 0 /\ Consume \in Nat
    BY <1>5, <1>2, SMT DEF IInv, LanesHoldPrefix
  <2>2. QED
    BY <2>1, <1>2, <1>4, MultiplesAdd
<1>9. buf' \in [1 .. BufCap -> Bytes]
  <2>1. ASSUME NEW i \in 1 .. BufCap
        PROVE  (IF i <= nbuf - Consume THEN buf[i + Consume] ELSE buf[i]) \in Bytes
    <3>1. CASE i <= nbuf - Consume
      <4>1. i + Consume \in 1 .. BufCap
        BY <3>1, <1>2, <1>3, <1>5, SMT
      <4>2. QED
        BY <3>1, <4>1, <1>3
    <3>2. CASE ~(i <= nbuf - Consume)
      BY <3>2, <1>3
    <3>3. QED
      BY <3>1, <3>2
  <2>2. QED
    BY <2>1, <1>1 DEF Moved
<1>10. BufferHoldsNext'
  <2>1. ASSUME NEW i \in 1 .. (nbuf - Consume)
        PROVE  Moved(Consume, nbuf - Consume)[i] = (Len(fed) + Consume) + i - 1
    <3>1. /\ i \in 1 .. BufCap /\ i <= nbuf - Consume
          /\ i + Consume \in 1 .. nbuf
      BY <1>2, <1>3, <1>5, SMT
    <3>2. Moved(Consume, nbuf - Consume)[i] = buf[i + Consume]
      BY <3>1 DEF Moved
    <3>3. buf[i + Consume] = Len(fed) + (i + Consume) - 1
      BY <3>1 DEF IInv, BufferHoldsNext
    <3>4. QED
      BY <3>1, <3>2, <3>3, <1>2, <1>5, SMT
  <2>2. QED
    BY <2>1, <1>1, <1>7 DEF BufferHoldsNext
<1>11. TypeOK'
  BY <1>1, <1>2, <1>5, <1>7, <1>9, SMT DEF IInv, TypeOK
<1>12. LanesHoldPrefix'
  BY <1>1, <1>7, <1>8 DEF IInv, LanesHoldPrefix
<1>13. BytesAddUp'
  <2>1. (Len(fed) + Consume) + (nbuf - Consume) = p
    BY <1>2, <1>3, <1>5, SMT
  <2>2. QED
    BY <2>1, <1>1, <1>2, <1>7 DEF BytesAddUp, Held
<1>14. PhaseOK'
  <2>1. nbuf' < BufCap /\ nbuf' >= Keep
    BY <1>1, <1>2, <1>5, SMT
  <2>2. QED
    BY <2>1, <1>1, <1>2 DEF PhaseOK
<1>15. QED
  BY <1>10, <1>11, <1>12, <1>13, <1>14 DEF IInv

(* The digests read the state only.                                        *)
LEMMA DigestPreserves ==
  ASSUME IInv, NEW w \in Widths, Digest(w)
  PROVE  IInv'
BY DEF Digest, state, call, IInv, TypeOK, LanesHoldPrefix, BufferHoldsNext,
       BytesAddUp, PhaseOK, Held

(* A step that changes nothing.                                            *)
LEMMA StutterPreserves ==
  ASSUME IInv, UNCHANGED vars
  PROVE  IInv'
BY DEF vars, state, call, IInv, TypeOK, LanesHoldPrefix, BufferHoldsNext,
       BytesAddUp, PhaseOK, Held

(* The step case of the invariant, one fact for each action.               *)
LEMMA NextPreserves == IInv /\ [Next]_vars => IInv'
BY ReinitPreserves, UpdateBufferedPreserves, UpdateBulkPreserves,
   FastPathPreserves, FillPreserves, DrainPreserves, DigestPreserves,
   StutterPreserves DEF Next

-----------------------------------------------------------------------------
(***************************************************************************)
(* What follows from it.                                                   *)
(***************************************************************************)

(* The inductive invariant holds in every reachable state.                 *)
THEOREM Inductive == Spec => []IInv
<1>1. Init => IInv
  BY InitEstablishes
<1>2. IInv /\ [Next]_vars => IInv'
  BY NextPreserves
<1>3. QED
  BY <1>1, <1>2, PTL DEF Spec

(* The variables of the streaming state keep their types: in particular    *)
(* nbuf never exceeds the buffer.                                          *)
THEOREM TypeCorrect == Spec => []TypeOK
<1>1. IInv => TypeOK
  BY DEF IInv
<1>2. QED
  BY <1>1, Inductive, PTL

(* Bytes are consumed in whole blocks from offset 0; with the live part of *)
(* the buffer they are exactly the bytes read so far.                      *)
THEOREM NothingLost == Spec => []NothingLostOrRepeated
<1>1. ASSUME IInv PROVE NothingLostOrRepeated
  <2>1. nbuf \in 0 .. nbuf /\ Len(fed) + nbuf = Held
    BY <1>1, SMT DEF IInv, TypeOK, BytesAddUp
  <2>2. fed \o Load(buf, 1, nbuf) = NextBytes(0, Len(fed) + nbuf)
    BY <1>1, <2>1, FrontOfBuffer
  <2>3. QED
    BY <1>1, <2>1, <2>2 DEF NothingLostOrRepeated, IInv, LanesHoldPrefix
<1>2. QED
  BY <1>1, Inductive, PTL

(* A digest never finds fewer than Keep bytes in the buffer of a state on  *)
(* the bulk path, and the whole message in that of any other.              *)
THEOREM FloorIsKept == Spec => []FloorKept
<1>1. ASSUME IInv PROVE FloorKept
  <2>1. CASE pc = "ready" /\ ~bulk
    <3>1. Len(fed) = 0 /\ nbuf < BufCap /\ Len(fed) + nbuf = total
      BY <1>1, <2>1 DEF IInv, PhaseOK, BytesAddUp, Held
    <3>2. nbuf = total
      BY <1>1, <3>1, SMT DEF IInv, TypeOK
    <3>3. QED
      BY <2>1, <3>1, <3>2 DEF FloorKept
  <2>2. CASE pc = "ready" /\ bulk
    BY <1>1, <2>2 DEF IInv, PhaseOK, FloorKept
  <2>3. QED
    BY <2>1, <2>2 DEF FloorKept
<1>2. QED
  BY <1>1, Inductive, PTL

(* One-shot over the buffer below the commit, or over the whole message.   *)
LEMMA DigestEquals ==
  ASSUME IInv, pc = "ready", NEW w \in Widths
  PROVE  DigestOf(w) = OneShot(w, seed, NextBytes(0, total))
<1>1. /\ Len(fed) \in Nat /\ nbuf \in 0 .. BufCap /\ total \in Nat
      /\ Len(fed) + nbuf = total /\ iv = seed
      /\ fed = NextBytes(0, Len(fed)) /\ Len(fed) % Block = 0
      /\ HoldsFrom(buf, BufCap, Len(fed), nbuf)
  BY DEF IInv, TypeOK, BytesAddUp, Held, LanesHoldPrefix, BufferHoldsNext,
         HoldsFrom
<1>2. CASE ~bulk
  <2>1. Len(fed) = 0
    BY <1>2 DEF IInv, PhaseOK
  <2>2. nbuf = total /\ total \in 0 .. nbuf
    BY <2>1, <1>1, SMT
  <2>3. Load(buf, 1, total) = NextBytes(0, total)
    BY <2>1, <2>2, FrontOfBuffer
  <2>4. QED
    BY <1>2, <2>3 DEF DigestOf
<1>3. CASE bulk
  <2>1. nbuf \in Keep .. (BufCap - 1) /\ total >= BufCap
    BY <1>3 DEF IInv, PhaseOK
  <2>2. nbuf \in Pair .. BufCap /\ BufCap \in Nat
    BY <1>1, <2>1, CapacityFacts, SizesPositive, SMT
  <2>3. Finish(w, iv, NextBytes(0, Len(fed)), buf, nbuf, Len(fed) + nbuf)
          = LongHash(w, iv, NextBytes(0, Len(fed) + nbuf))
    <3>1. CanFinish(buf, BufCap, Len(fed), nbuf)
      BY <1>1, <2>2 DEF CanFinish
    <3>2. QED
      BY <3>1, FinishContinues
  <2>4. DigestOf(w) = LongHash(w, seed, NextBytes(0, total))
    BY <1>1, <1>3, <2>3 DEF DigestOf
  <2>5. /\ Len(NextBytes(0, total)) = total
        /\ total >= BulkMin /\ ~(total <= Pair)
    <3>1. Len(NextBytes(0, total)) = total
      BY <1>1, NextBytesType
    <3>2. total >= BulkMin
      BY <1>1, <2>1, CapacityFacts, SMT
    <3>3. ~(total <= Pair)
      BY <3>2, <1>1, CapacityFacts, SizesPositive, WalkAssumption, SMT
    <3>4. QED
      BY <3>1, <3>2, <3>3
  <2>6. OneShot(w, seed, NextBytes(0, total))
          = LongHash(w, seed, NextBytes(0, total))
    BY <2>5 DEF OneShot
  <2>7. QED
    BY <2>4, <2>6
<1>4. QED
  BY <1>2, <1>3

(* The digest of either width, whenever it may be taken, is the one-shot   *)
(* hash of the bytes given so far, however they were split.                *)
THEOREM SplitIndependence == Spec => []DigestIsOneShot
<1>1. IInv => DigestIsOneShot
  BY DigestEquals DEF DigestIsOneShot
<1>2. QED
  BY <1>1, Inductive, PTL

(* After the fast path a call leaves between Keep and Keep + Block - 1     *)
(* bytes in the buffer and returns.                                        *)
THEOREM FastPathEnds == Spec => FastPathFinishes
<1> DEFINE A == /\ pc = "loop" /\ pc' = "fill" => n' \in Keep .. Keep + Block - 1
                /\ pc = "fill" => pc' = "ready" /\ nbuf' = n
<1>1. ASSUME IInv, IInv', [Next]_vars PROVE [A]_vars
  <2>1. CASE UNCHANGED vars
    BY <2>1
  <2>2. CASE FastPath
    <3>1. pc = "loop" /\ pc' = "fill"
      BY <2>2 DEF FastPath
    <3>2. bulk'
      BY <1>1, <3>1 DEF IInv, PhaseOK
    <3>3. n' \in Keep .. Keep + Block - 1
      BY <1>1, <3>1, <3>2 DEF IInv, PhaseOK
    <3>4. QED
      BY <3>1, <3>3
  <2>3. CASE Fill
    <3>1. pc # "ready" /\ pc' # "fill" /\ nbuf' = nbuf + Take
      BY <2>3 DEF Fill, Return
    <3>2. CASE pc = "fill"
      <4>1. nbuf = 0 /\ n \in Keep .. Keep + Block - 1 /\ n \in Nat
        BY <1>1, <3>2, RunningIsBulk DEF IInv, PhaseOK
      <4>2. Take = n /\ nbuf + Take < BufCap
        BY <4>1, CapacityFacts, SizesPositive, SMT DEF Take, Room
      <4>3. pc' = "ready"
        BY <2>3, <3>1, <4>1, <4>2, CapacityFacts, SMT DEF Fill, Return
      <4>4. nbuf' = n
        BY <3>1, <4>1, <4>2, SMT
      <4>5. QED
        BY <3>1, <4>3, <4>4
    <3>3. CASE pc # "fill"
      BY <3>1, <3>3
    <3>4. QED
      BY <3>2, <3>3
  <2>4. CASE Drain
    BY <2>4 DEF Drain
  <2>5. CASE \E s \in Seeds : Reinit(s)
    BY <2>5 DEF Reinit, call
  <2>6. CASE \E len \in Chunks : UpdateBuffered(len) \/ UpdateBulk(len)
    BY <2>6 DEF UpdateBuffered, UpdateBulk, Enter
  <2>7. CASE \E w \in Widths : Digest(w)
    BY <2>7 DEF Digest, call
  <2>8. QED
    BY <1>1, <2>1, <2>2, <2>3, <2>4, <2>5, <2>6, <2>7 DEF Next
<1>2. QED
  BY <1>1, Inductive, PTL DEF Spec, FastPathFinishes

-----------------------------------------------------------------------------
(***************************************************************************)
(* Refinement of StreamSpec.                                               *)
(***************************************************************************)

(* The length of the message as the caller sees it: a call counts when it  *)
(* has returned.                                                           *)
Settled == IF pc = "ready" THEN total ELSE data

Message == SubSeq(fed \o Load(buf, 1, nbuf), 1, Settled)

(* The first x bytes of a run.                                             *)
LEMMA FrontOfRun ==
  ASSUME NEW h \in Nat, NEW x \in 0 .. h
  PROVE  SubSeq(NextBytes(0, h), 1, x) = NextBytes(0, x)
BY SMT DEF NextBytes

(* The message of the promise is the run of bytes of the calls that have   *)
(* returned.                                                               *)
LEMMA MessageIs ==
  IInv => /\ Settled \in Nat
          /\ Message = NextBytes(0, Settled)
          /\ Len(Message) = Settled
<1> SUFFICES ASSUME IInv
             PROVE  /\ Settled \in Nat
                    /\ Message = NextBytes(0, Settled)
                    /\ Len(Message) = Settled
  OBVIOUS
<1>1. nbuf \in 0 .. nbuf /\ Len(fed) + nbuf = Held
  BY SMT DEF IInv, TypeOK, BytesAddUp
<1>2. fed \o Load(buf, 1, nbuf) = NextBytes(0, Held)
  BY <1>1, FrontOfBuffer
<1>3. Held \in Nat /\ Settled \in 0 .. Held
  BY SMT DEF IInv, TypeOK, BytesAddUp, Held, Settled
<1>4. Message = NextBytes(0, Settled)
  BY <1>2, <1>3, FrontOfRun DEF Message
<1>5. Settled \in Nat
  BY <1>3, SMT
<1>6. 0 \in Nat
  OBVIOUS
<1>7. Len(NextBytes(0, Settled)) = Settled
  BY <1>5, <1>6, NextBytesType
<1>8. QED
  BY <1>4, <1>5, <1>7

(* The same after a step.                                                  *)
LEMMA MessageIsNext ==
  IInv' => (/\ Settled \in Nat
            /\ Message = NextBytes(0, Settled)
            /\ Len(Message) = Settled)'
BY MessageIs, PTL

(* The one-shot function StreamSpec refers to is the one of Walk.          *)
LEMMA SameOneShot ==
  ASSUME NEW w, NEW s, NEW msg
  PROVE  Promise!OneShot(w, s, msg) = OneShot(w, s, msg)
BY DEF Promise!OneShot, OneShot, Promise!ShortHash, ShortHash,
       Promise!MidHash, MidHash, Promise!LongHash, LongHash,
       Promise!Finish, Finish, Promise!WholeBlocks, WholeBlocks,
       Promise!HeadWords, HeadWords, Promise!LastWords, LastWords,
       Promise!Load, Load, Promise!Outside, Outside

(* So are the runs of bytes.                                               *)
LEMMA SameNextBytes ==
  ASSUME NEW k, NEW len
  PROVE  Promise!NextBytes(k, len) = NextBytes(k, len)
BY DEF Promise!NextBytes, NextBytes

(* Every step is a step of the promise, or invisible to the caller.        *)
LEMMA StepSimulates ==
  ASSUME IInv, IInv', Next
  PROVE  [Promise!Next]_(Promise!vars)
<1> DEFINE Invisible == seed' = seed /\ Message' = Message /\ out' = out
<1>1. /\ Message = NextBytes(0, Settled) /\ Settled \in Nat
      /\ Len(Message) = Settled
  BY MessageIs
<1>2. /\ Message' = NextBytes(0, Settled') /\ Settled' \in Nat
      /\ Len(Message') = Settled'
  BY MessageIsNext
<1>3. Invisible => UNCHANGED Promise!vars
  BY DEF Promise!vars, Message, Settled
<1>4. ASSUME NEW s \in Seeds, Reinit(s) PROVE Promise!Restart(s)
  <2>1. seed' = s /\ out' = {} /\ Settled' = 0
    BY <1>4 DEF Reinit, call, Settled
  <2>2. Message' = << >>
    BY <2>1, <1>2, FreshLanes
  <2>3. QED
    BY <2>1, <2>2 DEF Promise!Restart, Message, Settled
<1>5. ASSUME seed' = seed, out' = {}, Settled' > Settled PROVE Promise!Update
  <2>1. Settled' - Settled \in Nat /\ Settled + (Settled' - Settled) = Settled'
    <3>1. Settled \in Nat /\ Settled' \in Nat /\ Settled' > Settled
      BY <1>1, <1>2, <1>5
    <3>2. \A x, y \in Nat : y > x => y - x \in Nat /\ x + (y - x) = y
      BY SMT
    <3>3. QED
      BY <3>1, <3>2
  <2>2. NextBytes(0, Settled) \o NextBytes(Settled, Settled' - Settled)
          = NextBytes(0, Settled')
    BY <2>1, <1>1, PrefixGrows
  <2>3. Message' = Message \o Promise!NextBytes(Len(Message), Len(Message') - Len(Message))
    BY <2>2, <1>1, <1>2, SameNextBytes
  <2>4. Len(Message') > Len(Message)
    BY <1>1, <1>2, <1>5
  <2>5. QED
    BY <2>3, <2>4, <1>5 DEF Promise!Update, Message, Settled
<1>6. ASSUME NEW len \in Chunks, UpdateBuffered(len) PROVE Promise!Update
  <2>1. /\ len \in Nat /\ len > 0 /\ total \in Nat
        /\ pc = "ready" /\ pc' = "ready" /\ total' = total + len
        /\ seed' = seed /\ out' = {}
    BY <1>6, StreamAssumption DEF UpdateBuffered, Enter, Return, IInv, TypeOK
  <2>2. Settled' > Settled
    BY <2>1, SMT DEF Settled
  <2>3. QED
    BY <2>1, <2>2, <1>5
<1>7. ASSUME NEW len \in Chunks, UpdateBulk(len) PROVE Invisible
  <2>1. seed' = seed /\ out' = out /\ Settled' = Settled
    BY <1>7 DEF UpdateBulk, Enter, Settled
  <2>2. QED
    BY <2>1, <1>1, <1>2
<1>8. ASSUME FastPath PROVE Invisible
  <2>1. seed' = seed /\ out' = out /\ Settled' = Settled
    BY <1>8 DEF FastPath, Settled
  <2>2. QED
    BY <2>1, <1>1, <1>2
<1>9. ASSUME Drain PROVE Invisible
  <2>1. seed' = seed /\ out' = out /\ Settled' = Settled
    BY <1>9 DEF Drain, Settled
  <2>2. QED
    BY <2>1, <1>1, <1>2
<1>10. ASSUME Fill PROVE Promise!Update \/ Invisible
  <2>1. pc # "ready" /\ seed' = seed /\ total' = total
    BY <1>10 DEF Fill
  <2>2. CASE Return
    <3>1. pc' = "ready" /\ out' = {}
      BY <2>2 DEF Return
    <3>2. data < total
      BY <2>1 DEF IInv, BytesAddUp
    <3>3. Settled' = total /\ Settled = data /\ total \in Nat /\ data \in Nat
      BY <2>1, <3>1 DEF Settled, IInv, TypeOK
    <3>4. Settled' > Settled
      BY <3>2, <3>3, SMT
    <3>5. QED
      BY <2>1, <3>1, <3>4, <1>5
  <2>3. CASE pc' = "drain" /\ data' = data /\ out' = out
    <3>1. Settled' = Settled
      BY <2>1, <2>3 DEF Settled
    <3>2. QED
      BY <3>1, <2>1, <2>3, <1>1, <1>2
  <2>4. QED
    BY <1>10, <2>2, <2>3 DEF Fill
<1>11. ASSUME NEW w \in Widths, Digest(w) PROVE Promise!Digest(w)
  <2>1. /\ pc = "ready" /\ seed' = seed /\ Settled' = Settled /\ Settled = total
        /\ out' = {DigestOf(w)}
    BY <1>11 DEF Digest, state, call, Settled
  <2>2. DigestOf(w) = OneShot(w, seed, Message)
    BY <2>1, <1>1, DigestEquals
  <2>3. out' = {Promise!OneShot(w, seed, Message)}
    BY <2>1, <2>2, SameOneShot
  <2>4. Message' = Message
    BY <2>1, <1>1, <1>2
  <2>5. QED
    BY <2>1, <2>3, <2>4 DEF Promise!Digest, Message, Settled
<1>12. Widths = Promise!Widths
  BY DEF Widths, Promise!Widths
<1>13. Promise!Next \/ Invisible
  BY <1>4, <1>6, <1>7, <1>8, <1>9, <1>10, <1>11, <1>12
     DEF Next, Promise!Next
<1>14. QED
  BY <1>3, <1>13

(* The C streaming state implements the promise of StreamSpec.             *)
THEOREM Refinement == Spec => ImplementsStreamSpec
<1>1. Init => Promise!Init
  <2>1. ASSUME Init PROVE Promise!Init
    <3>1. IInv /\ Settled = 0 /\ seed \in Seeds /\ out = {}
      BY <2>1, InitEstablishes DEF Init, Settled
    <3>2. Message = << >>
      BY <3>1, MessageIs, FreshLanes
    <3>3. QED
      BY <3>1, <3>2 DEF Promise!Init, Message, Settled
  <2>2. QED
    BY <2>1
<1>2. IInv /\ IInv' /\ [Next]_vars => [Promise!Next]_(Promise!vars)
  <2>1. CASE UNCHANGED vars
    BY <2>1 DEF vars, state, call, Promise!vars
  <2>2. QED
    BY <2>1, StepSimulates
<1>3. QED
  BY <1>1, <1>2, Inductive, PTL DEF Spec, ImplementsStreamSpec, Promise!Spec

-----------------------------------------------------------------------------
(***************************************************************************)
(* The ports.                                                              *)
(***************************************************************************)

(* What holds between two steps besides the invariant of HayaStream: the   *)
(* argument of the last call, how much of it the loop has read, and that   *)
(* nothing has overflowed yet.                                             *)
GoodRange(r) ==
  /\ r \in [at : 0 .. IndexMax, len : Nat, size : Nat]
  /\ r.at + r.len <= r.size
  /\ port \in Signed => r.size <= IndexMax

PortRest ==
  /\ port \in Ports
  /\ fits = TRUE
  /\ GoodRange(range)
  /\ pc # "ready" => (p - data) + n = range.len
  /\ n <= Longest

PortInv == IInv /\ PortRest

(***************************************************************************)
(* Arithmetic.                                                             *)
(***************************************************************************)

(* A remainder of a number that is below the divisor.                      *)
LEMMA SmallMod ==
  ASSUME NEW b \in Nat \ {0}, NEW r \in 0 .. (b - 1)
  PROVE  r % b = r
BY SMT

(* A number in the range of the index type is stored as it is.             *)
LEMMA IndexExact ==
  ASSUME port \in Ports, NEW x \in IndexRange
  PROVE  Index(x) = x
<1>1. Width \in Nat \ {0} /\ IndexMax \in Nat /\ Width = 2 * (IndexMax + 1)
  BY PortAssumption, SMT DEF Width
<1>2. CASE port \in Signed
  <2>1. x \in -(IndexMax + 1) .. IndexMax
    BY <1>2 DEF IndexRange
  <2>2. ((x + IndexMax) + 1) \in 0 .. (Width - 1)
    BY <1>1, <2>1, SMT
  <2>3. (((x + IndexMax) + 1) % Width) = (x + IndexMax) + 1
    BY <1>1, <2>2, SmallMod
  <2>4. Wrapped(x) = x
    BY <1>1, <2>1, <2>3, SMT DEF Wrapped
  <2>5. QED
    BY <1>2, <2>4, Zenon DEF Index, Signed, Unsigned
<1>3. CASE port \in Unsigned
  <2>1. x \in 0 .. (Width - 1)
    BY <1>3 DEF IndexRange, Signed, Unsigned
  <2>2. (x % Width) = x
    BY <1>1, <2>1, SmallMod
  <2>3. QED
    BY <1>3, <2>2 DEF Index, Signed, Unsigned
<1>4. CASE port = "js"
  BY <1>4 DEF Index, Signed, Unsigned
<1>5. QED
  BY <1>2, <1>3, <1>4 DEF Ports

(* Small values are in the range of every type.                            *)
LEMMA SmallInRange ==
  ASSUME NEW x \in 0 .. IndexMax
  PROVE  x \in IndexRange
BY PortAssumption, SMT DEF IndexRange, Width

(* A chunk may be empty.                                                   *)
LEMMA LongestIsNat ==
  ASSUME port \in Ports
  PROVE  Longest \in Nat
<1>1. IndexMax \in Nat /\ BufCap \in Nat /\ BufCap <= IndexMax
  BY PortAssumption, StreamAssumption
<1>2. QED
  BY <1>1, SMT DEF Longest, Width

(* The sum of the header fits where it is used: the chunk leaves room for  *)
(* the state, so it leaves room for what is in the buffer.                 *)
LEMMA SumInRange ==
  ASSUME port \in {"c", "rust", "zig", "js"}, NEW k \in 0 .. BufCap,
         NEW len \in Nat, len <= Longest
  PROVE  k + len \in IndexRange
<1>1. IndexMax \in Nat /\ BufCap \in Nat /\ BufCap <= IndexMax
  BY PortAssumption, StreamAssumption
<1>2. Longest <= (Width - 1) - BufCap /\ Longest \in Int
  BY <1>1, SMT DEF Longest, Width, Signed
<1>3. port \notin Signed
  BY DEF Signed
<1>4. Width \in Int
  BY <1>1, SMT DEF Width
<1>5. (k + len) \in 0 .. (Width - 1)
  BY <1>1, <1>2, <1>4, SMT
<1>6. QED
  BY <1>3, <1>5 DEF IndexRange

(* No chunk is longer than an index can say.                               *)
LEMMA LengthInRange ==
  ASSUME NEW len \in Nat, len <= Longest
  PROVE  len \in IndexRange
<1>1. IndexMax \in Nat /\ BufCap \in Nat
  BY PortAssumption, StreamAssumption
<1>2. CASE port \in Signed
  BY <1>1, <1>2, SMT DEF Longest, IndexRange, Width
<1>3. CASE port \notin Signed
  <2>1. Longest <= Width - 1 /\ Longest \in Int /\ Width \in Int
    BY <1>1, <1>3, SMT DEF Longest, Width
  <2>2. len \in 0 .. (Width - 1)
    BY <2>1, SMT
  <2>3. QED
    BY <1>3, <2>2 DEF IndexRange
<1>4. QED
  BY <1>2, <1>3

(***************************************************************************)
(* Each action of a port is the action of HayaStream it is named after.    *)
(***************************************************************************)

(* The test a port makes is one that cannot overflow in that port.         *)
GoodTest(len, test) ==
  \/ port \in Signed /\ test = RoomTest(len)
  \/ port \in {"c", "rust", "zig", "js"} /\ test = SumTest(len)

(* The two sides of a test are in range, and the test decides what the     *)
(* test of the header decides.                                             *)
LEMMA TestExact ==
  ASSUME PortInv, NEW len \in Nat, len <= Longest, NEW test,
         GoodTest(len, test)
  PROVE  /\ test[1] \in IndexRange /\ test[2] \in IndexRange
         /\ Index(test[1]) < Index(test[2]) <=> nbuf + len < BufCap
         /\ nbuf + len < BufCap => nbuf + len \in IndexRange
<1>1. /\ IndexMax \in Nat /\ BufCap \in Nat /\ BufCap <= IndexMax
      /\ nbuf \in 0 .. BufCap /\ port \in Ports
  BY PortAssumption, StreamAssumption DEF PortInv, PortRest, IInv, TypeOK
<1>2. BufCap - nbuf \in 0 .. IndexMax /\ BufCap \in 0 .. IndexMax
  BY <1>1, SMT
<1>3. BufCap - nbuf \in IndexRange /\ BufCap \in IndexRange
  BY <1>2, SmallInRange
<1>4. ASSUME nbuf + len < BufCap PROVE nbuf + len \in IndexRange
  <2>1. nbuf + len \in 0 .. IndexMax
    BY <1>1, <1>4, SMT
  <2>2. QED
    BY <2>1, SmallInRange
<1>5. CASE port \in Signed /\ test = RoomTest(len)
  <2>1. test[1] = len /\ test[2] = BufCap - nbuf
    BY <1>5 DEF RoomTest
  <2>2. len \in IndexRange
    BY LengthInRange
  <2>3. Index(len) = len /\ Index(BufCap - nbuf) = BufCap - nbuf
    BY <1>1, <1>3, <2>2, IndexExact
  <2>4. len < BufCap - nbuf <=> nbuf + len < BufCap
    BY <1>1, SMT
  <2>5. QED
    BY <1>3, <1>4, <2>1, <2>2, <2>3, <2>4
<1>6. CASE port \in {"c", "rust", "zig", "js"} /\ test = SumTest(len)
  <2>1. test[1] = nbuf + len /\ test[2] = BufCap
    BY <1>6 DEF SumTest
  <2>2. nbuf + len \in IndexRange
    BY <1>1, <1>6, SumInRange
  <2>3. Index(nbuf + len) = nbuf + len /\ Index(BufCap) = BufCap
    BY <1>1, <1>3, <2>2, IndexExact
  <2>4. QED
    BY <1>3, <2>1, <2>2, <2>3
<1>7. QED
  BY <1>5, <1>6 DEF GoodTest

(* Entry of update.                                                        *)
LEMMA UpdateExact ==
  ASSUME PortInv, NEW len \in Chunks, NEW test, NEW arg,
         GoodTest(len, test), GoodRange(arg), arg.len = len,
         PortUpdate(len, test, arg)
  PROVE  (UpdateBuffered(len) \/ UpdateBulk(len)) /\ PortRest'
<1>1. /\ len \in Nat /\ len <= Longest /\ Enter(len) /\ range' = arg
      /\ port' = port /\ port \in Ports /\ fits = TRUE
  BY StreamAssumption DEF PortUpdate, PortInv, PortRest
<1>2. /\ test[1] \in IndexRange /\ test[2] \in IndexRange
      /\ Index(test[1]) < Index(test[2]) <=> nbuf + len < BufCap
      /\ nbuf + len < BufCap => nbuf + len \in IndexRange
  BY <1>1, TestExact
<1>3. Longest' = Longest /\ GoodRange(range)'
  BY <1>1 DEF Longest, GoodRange
<1>4. Longest \in Nat
  BY <1>1, LongestIsNat
<1>5. PortStays(test) <=> StaysBuffered(len)
  BY <1>2 DEF PortStays, StaysBuffered
<1>6. CASE PortStays(test)
  <2>1. /\ buf' = Copied(total, len) /\ nbuf' = Index(nbuf + len) /\ Return
        /\ Computes({test[1], test[2], nbuf + len})
        /\ UNCHANGED << seed, bulk, iv, fed >>
    BY <1>6 DEF PortUpdate
  <2>2. nbuf + len \in IndexRange
    BY <1>2, <1>6 DEF PortStays
  <2>3. nbuf' = nbuf + len
    BY <1>1, <2>1, <2>2, IndexExact
  <2>4. UpdateBuffered(len)
    BY <1>1, <1>5, <1>6, <2>1, <2>3 DEF UpdateBuffered
  <2>5. fits' = TRUE
    BY <1>1, <1>2, <2>1, <2>2 DEF Computes
  <2>6. pc' = "ready" /\ n' = 0
    BY <2>1 DEF Return
  <2>7. n' <= Longest'
    BY <1>3, <1>4, <2>6, SMT
  <2>8. PortRest'
    BY <1>1, <1>3, <2>5, <2>6, <2>7 DEF PortRest
  <2>9. QED
    BY <2>4, <2>8
<1>7. CASE ~PortStays(test)
  <2>1. /\ bulk' = TRUE /\ data' = total /\ p' = total /\ n' = len
        /\ pc' = "loop"
        /\ Computes(IF bulk THEN {} ELSE {test[1], test[2]})
        /\ UNCHANGED << seed, nbuf, iv, fed, buf, out >>
    BY <1>7 DEF PortUpdate
  <2>2. UpdateBulk(len)
    BY <1>1, <1>5, <1>7, <2>1 DEF UpdateBulk
  <2>3. fits' = TRUE
    BY <1>1, <1>2, <2>1 DEF Computes
  <2>4. total \in Nat
    BY DEF PortInv, IInv, TypeOK
  <2>5. (p' - data') + n' = range'.len
    BY <1>1, <2>1, <2>4, SMT
  <2>6. PortRest'
    BY <1>1, <1>3, <2>1, <2>3, <2>5 DEF PortRest
  <2>7. QED
    BY <2>2, <2>6
<1>8. QED
  BY <1>6, <1>7

(* What is at most the buffer, or at most what the call has left, is       *)
(* stored as it is.                                                        *)
LEMMA UpToBufCap ==
  ASSUME PortInv, NEW x \in 0 .. BufCap
  PROVE  x \in IndexRange /\ Index(x) = x
<1>1. x \in 0 .. IndexMax /\ port \in Ports
  BY PortAssumption, StreamAssumption, SMT DEF PortInv, PortRest
<1>2. x \in IndexRange
  BY <1>1, SmallInRange
<1>3. QED
  BY <1>1, <1>2, IndexExact

LEMMA UpToRest ==
  ASSUME PortInv, NEW x \in 0 .. n
  PROVE  x \in IndexRange /\ Index(x) = x
<1>1. n \in Nat /\ n <= Longest /\ port \in Ports
  BY DEF PortInv, PortRest, IInv, TypeOK
<1>2. Longest \in Nat
  BY <1>1, LongestIsNat
<1>3. x \in Nat /\ x <= Longest
  BY <1>1, <1>2, SMT
<1>4. x \in IndexRange
  BY <1>3, LengthInRange
<1>5. QED
  BY <1>1, <1>4, IndexExact

(* The index into the caller's array stays inside it.                      *)
LEMMA CursorInRange ==
  ASSUME PortInv, pc # "ready", NEW k \in 0 .. n
  PROVE  Cursor(k) \in IndexRange
<1>1. /\ p \in Nat /\ data \in Nat /\ n \in Nat /\ data <= p
      /\ (p - data) + n = range.len /\ GoodRange(range)
  BY DEF PortInv, PortRest, IInv, TypeOK, BytesAddUp
<1>2. /\ range.at \in Nat /\ range.len \in Nat /\ range.size \in Nat
      /\ range.at + range.len <= range.size
      /\ port \in Signed => range.size <= IndexMax
  BY <1>1 DEF GoodRange
<1>3. CASE port \in {"java", "swift"}
  <2>1. IndexMax \in Nat /\ range.size <= IndexMax
    BY <1>2, <1>3, PortAssumption DEF Signed
  <2>2. range.at + (p - data) + k \in 0 .. IndexMax
    BY <1>1, <1>2, <2>1, SMT
  <2>3. Cursor(k) \in 0 .. IndexMax
    BY <1>3, <2>2 DEF Cursor
  <2>4. QED
    BY <2>3, SmallInRange
<1>4. CASE port \notin {"java", "swift"}
  BY <1>4, UpToRest DEF Cursor
<1>5. QED
  BY <1>3, <1>4

(* The loop goes on with the rest of the same argument.                    *)
LEMMA RestAfter ==
  ASSUME PortInv, pc # "ready", UNCHANGED << port, range, data >>, fits' = TRUE,
         NEW k \in 0 .. n, p' = p + k, n' = n - k
  PROVE  PortRest'
<1>1. /\ p \in Nat /\ data \in Nat /\ n \in Nat /\ port \in Ports
      /\ (p - data) + n = range.len /\ GoodRange(range) /\ n <= Longest
  BY DEF PortInv, PortRest, IInv, TypeOK
<1>2. Longest' = Longest /\ GoodRange(range)' /\ Longest \in Nat
  BY <1>1, LongestIsNat DEF Longest, GoodRange
<1>3. (p' - data') + n' = range'.len
  BY <1>1, SMT
<1>4. n' <= Longest'
  BY <1>1, <1>2, SMT
<1>5. QED
  BY <1>1, <1>2, <1>3, <1>4 DEF PortRest

(* The call has returned.                                                  *)
LEMMA RestAtReturn ==
  ASSUME PortInv, UNCHANGED << port, range >>, fits' = TRUE,
         pc' = "ready", n' = 0
  PROVE  PortRest'
<1>1. port \in Ports /\ GoodRange(range)
  BY DEF PortInv, PortRest
<1>2. Longest' = Longest /\ GoodRange(range)' /\ Longest \in Nat
  BY <1>1, LongestIsNat DEF Longest, GoodRange
<1>3. n' <= Longest'
  BY <1>2, SMT
<1>4. QED
  BY <1>1, <1>2, <1>3 DEF PortRest

(* The fast path.                                                          *)
LEMMA FastPathExact ==
  ASSUME PortInv, PortFastPath
  PROVE  FastPath /\ PortRest'
<1>1. /\ pc = "loop" /\ AtFloor /\ pc' = "fill"
      /\ fed' = fed \o Load(buf, 1, Keep) \o NextBytes(p, PortDirect)
      /\ p' = p + PortDirect /\ n' = Index(n - PortDirect) /\ nbuf' = 0
      /\ Computes({n - Keep, PortDirect, Cursor(PortDirect), n - PortDirect})
      /\ UNCHANGED << seed, total, bulk, iv, buf, data, out, port, range >>
  BY DEF PortFastPath
<1>2. n \in Nat /\ Keep \in Nat /\ BufCap \in Nat /\ n > BufCap
      /\ Keep <= BufCap /\ fits = TRUE
  BY <1>1, StreamAssumption, SizesPositive, SMT
     DEF PortInv, PortRest, IInv, TypeOK, AtFloor
<1>3. n - Keep \in 0 .. n /\ n - Keep \in Nat
  BY <1>2, SMT
<1>4. PortDirect = Direct
  BY <1>3, UpToRest DEF PortDirect, Direct
<1>5. Direct \in 0 .. (n - Keep)
  BY <1>3, WholeBlocksBounds DEF Direct
<1>6. Direct \in 0 .. n /\ n - Direct \in 0 .. n
  BY <1>2, <1>5, SMT
<1>7. /\ n - Keep \in IndexRange /\ Direct \in IndexRange
      /\ n - Direct \in IndexRange /\ Index(n - Direct) = n - Direct
  BY <1>3, <1>6, UpToRest
<1>8. Cursor(Direct) \in IndexRange
  BY <1>1, <1>6, CursorInRange
<1>9. fits' = TRUE
  BY <1>1, <1>2, <1>4, <1>7, <1>8 DEF Computes
<1>10. p' = p + Direct /\ n' = n - Direct
  BY <1>1, <1>4, <1>7
<1>11. FastPath
  BY <1>1, <1>4, <1>10 DEF FastPath
<1>12. PortRest'
  BY <1>1, <1>6, <1>9, <1>10, RestAfter
<1>13. QED
  BY <1>11, <1>12

(* The copy into the buffer.                                               *)
LEMMA FillExact ==
  ASSUME PortInv, PortFill
  PROVE  Fill /\ PortRest'
<1>1. /\ pc = "fill" \/ (pc = "loop" /\ ~AtFloor)
      /\ buf' = Copied(p, PortTake) /\ nbuf' = Index(nbuf + PortTake)
      /\ \/ nbuf' < BufCap /\ Return
         \/ /\ nbuf' >= BufCap /\ p' = p + PortTake
            /\ n' = Index(n - PortTake) /\ pc' = "drain"
            /\ UNCHANGED << data, out >>
      /\ Computes({Room, nbuf + PortTake, Cursor(PortTake), n - PortTake})
      /\ UNCHANGED << seed, total, bulk, iv, fed, port, range >>
  BY DEF PortFill
<1>2. /\ pc # "ready" /\ IInv /\ fits = TRUE /\ n \in Nat
      /\ nbuf \in 0 .. BufCap /\ BufCap \in Nat
  BY <1>1, StreamAssumption DEF PortInv, PortRest, IInv, TypeOK
<1>3. /\ Take \in Nat /\ nbuf + Take <= BufCap /\ Take <= n
  BY <1>2, TakeFits
<1>4. Room \in 0 .. BufCap /\ Take \in 0 .. n /\ n - Take \in 0 .. n
      /\ nbuf + Take \in 0 .. BufCap
  BY <1>2, <1>3, SMT DEF Room
<1>5. /\ Room \in IndexRange /\ Index(Room) = Room
      /\ nbuf + Take \in IndexRange /\ Index(nbuf + Take) = nbuf + Take
  BY <1>4, UpToBufCap
<1>6. n - Take \in IndexRange /\ Index(n - Take) = n - Take
  BY <1>4, UpToRest
<1>7. PortTake = Take
  BY <1>5 DEF PortTake, Take
<1>8. Cursor(Take) \in IndexRange
  BY <1>2, <1>4, CursorInRange
<1>9. fits' = TRUE
  BY <1>1, <1>2, <1>5, <1>6, <1>7, <1>8 DEF Computes
<1>10. Fill
  BY <1>1, <1>5, <1>6, <1>7 DEF Fill
<1>11. CASE Return
  <2>1. pc' = "ready" /\ n' = 0
    BY <1>11 DEF Return
  <2>2. QED
    BY <1>1, <1>9, <1>10, <2>1, RestAtReturn
<1>12. CASE p' = p + PortTake /\ n' = Index(n - PortTake) /\ data' = data
  <2>1. p' = p + Take /\ n' = n - Take
    BY <1>6, <1>7, <1>12
  <2>2. QED
    BY <1>1, <1>2, <1>4, <1>9, <1>10, <1>12, <2>1, RestAfter
<1>13. QED
  BY <1>1, <1>11, <1>12

(* The drain down to the floor.                                            *)
LEMMA DrainExact ==
  ASSUME PortInv, PortDrain
  PROVE  Drain /\ PortRest'
<1>1. /\ pc = "drain" /\ pc' = "loop"
      /\ fed' = fed \o Load(buf, 1, PortConsume)
      /\ nbuf' = Index(nbuf - PortConsume)
      /\ buf' = Moved(PortConsume, Index(nbuf - PortConsume))
      /\ Computes({nbuf - Keep, PortConsume, nbuf - PortConsume})
      /\ UNCHANGED << seed, total, bulk, iv, data, p, n, out, port, range >>
  BY DEF PortDrain
<1>2. IInv /\ fits = TRUE
  BY DEF PortInv, PortRest
<1>3. /\ nbuf = BufCap /\ BufCap \in Nat /\ Keep \in Nat /\ Keep <= BufCap
      /\ n \in Nat /\ p \in Nat
  BY <1>1, <1>2, RunningIsBulk, StreamAssumption, SizesPositive, SMT
     DEF IInv, PhaseOK, TypeOK
<1>4. nbuf - Keep \in 0 .. BufCap /\ nbuf - Keep \in Nat
  BY <1>3, SMT
<1>5. nbuf - Keep \in IndexRange /\ Index(nbuf - Keep) = nbuf - Keep
  BY <1>4, UpToBufCap
<1>6. PortConsume = Consume
  BY <1>5 DEF PortConsume, Consume
<1>7. Consume \in 0 .. (nbuf - Keep)
  BY <1>4, WholeBlocksBounds DEF Consume
<1>8. Consume \in 0 .. BufCap /\ nbuf - Consume \in 0 .. BufCap
  BY <1>3, <1>7, SMT
<1>9. /\ Consume \in IndexRange /\ nbuf - Consume \in IndexRange
      /\ Index(nbuf - Consume) = nbuf - Consume
  BY <1>8, UpToBufCap
<1>10. fits' = TRUE
  BY <1>1, <1>2, <1>5, <1>6, <1>9 DEF Computes
<1>11. Drain
  BY <1>1, <1>6, <1>9 DEF Drain
<1>12. p' = p + 0 /\ n' = n - 0 /\ 0 \in 0 .. n
  BY <1>1, <1>3, SMT
<1>13. PortRest'
  BY <1>1, <1>10, <1>12, RestAfter
<1>14. QED
  BY <1>11, <1>13

(* Digests: while the state is not committed, nbuf is total.               *)
LEMMA DigestExact ==
  ASSUME PortInv, NEW w \in Widths, NEW live, live \in {total, nbuf},
         PortDigest(w, live)
  PROVE  Digest(w) /\ PortRest'
<1>1. /\ pc = "ready" /\ UNCHANGED << state, call, port, range >>
      /\ out' = { IF ~bulk
                  THEN OneShot(w, seed, Load(buf, 1, Index(live)))
                  ELSE Finish(w, iv, fed, buf, nbuf, total) }
      /\ Computes(IF bulk THEN {} ELSE {live})
  BY DEF PortDigest
<1>2. IInv /\ fits = TRUE
  BY DEF PortInv, PortRest
<1>3. ASSUME ~bulk
      PROVE  live = total /\ live \in IndexRange /\ Index(live) = live
  <2>1. Len(fed) + nbuf = total /\ Len(fed) = 0 /\ nbuf \in 0 .. BufCap
    BY <1>1, <1>2, <1>3 DEF IInv, TypeOK, BytesAddUp, PhaseOK, Held
  <2>2. live = total /\ live \in 0 .. BufCap
    BY <2>1, SMT
  <2>3. QED
    BY <2>2, UpToBufCap
<1>4. out' = {DigestOf(w)}
  BY <1>1, <1>3 DEF DigestOf
<1>5. fits' = TRUE
  BY <1>1, <1>2, <1>3 DEF Computes
<1>6. Digest(w)
  BY <1>1, <1>4 DEF Digest
<1>7. pc' = pc /\ n' = n
  BY <1>1 DEF call
<1>8. n <= Longest /\ GoodRange(range) /\ port \in Ports
  BY DEF PortInv, PortRest
<1>9. Longest' = Longest /\ GoodRange(range)'
  BY <1>1, <1>8 DEF Longest, GoodRange
<1>10. PortRest'
  BY <1>1, <1>5, <1>7, <1>8, <1>9 DEF PortRest
<1>11. QED
  BY <1>6, <1>10

(* Resets.                                                                 *)
LEMMA ResetExact ==
  ASSUME PortInv, NEW s \in Seeds, Reinit(s), UNCHANGED << port, range, fits >>
  PROVE  PortRest'
<1>1. pc' = pc /\ n' = n /\ pc = "ready"
  BY DEF Reinit, call
<1>2. /\ n <= Longest /\ GoodRange(range) /\ port \in Ports /\ fits = TRUE
  BY DEF PortInv, PortRest
<1>3. Longest' = Longest /\ GoodRange(range)'
  BY <1>2 DEF Longest, GoodRange
<1>4. QED
  BY <1>1, <1>2, <1>3 DEF PortRest

(* A call with a whole slice.                                              *)
LEMMA SliceGood ==
  ASSUME port \in Ports, NEW len \in Nat, len <= Longest
  PROVE  GoodRange(Slice(len)) /\ Slice(len).len = len
<1>1. IndexMax \in Nat
  BY PortAssumption
<1>2. port \in Signed => len <= IndexMax
  BY DEF Longest
<1>3. /\ Slice(len).at = 0 /\ Slice(len).len = len /\ Slice(len).size = len
      /\ Slice(len) \in [at : 0 .. IndexMax, len : Nat, size : Nat]
  BY <1>1 DEF Slice
<1>4. 0 + len <= len
  BY SMT
<1>5. QED
  BY <1>2, <1>3, <1>4 DEF GoodRange

(* The range check of Java and C# lets through the ranges inside the       *)
(* array, and no others, for every value of its three integers: comparing  *)
(* with the difference cannot overflow.                                    *)
THEOREM RangeCheckExact ==
  ASSUME port \in Signed, NEW at \in -(IndexMax + 1) .. IndexMax,
         NEW len \in 0 .. IndexMax, NEW size \in 0 .. IndexMax
  PROVE  Accepts(at, len, size) <=> at >= 0 /\ at + len <= size
<1>1. IndexMax \in Nat /\ port \in Ports
  BY PortAssumption DEF Ports
<1>2. size - len \in -(IndexMax + 1) .. IndexMax
  BY <1>1, SMT
<1>3. size - len \in IndexRange
  BY <1>2 DEF IndexRange
<1>4. Index(size - len) = size - len
  BY <1>1, <1>3, IndexExact
<1>5. at <= size - len <=> at + len <= size
  BY <1>1, SMT
<1>6. QED
  BY <1>4, <1>5 DEF Accepts

(* A call with a range of an array.                                        *)
LEMMA RangedExact ==
  ASSUME PortInv, port \in Signed, NEW at \in Offsets, NEW len \in Chunks,
         NEW size \in Sizes, RangedUpdate(at, len, size)
  PROVE  (UpdateBuffered(len) \/ UpdateBulk(len)) /\ PortRest'
<1> DEFINE arg == [at |-> at, len |-> len, size |-> size]
<1>1. /\ PortUpdate(len, RoomTest(len), arg) /\ Accepts(at, len, size)
      /\ len \in Nat /\ len <= Longest
  BY StreamAssumption DEF RangedUpdate, PortUpdate
<1>2. /\ IndexMax \in Nat /\ at \in -(IndexMax + 1) .. IndexMax
      /\ len \in 0 .. IndexMax /\ size \in 0 .. IndexMax
  BY <1>1, PortAssumption, SMT DEF Longest
<1>3. at >= 0 /\ at + len <= size
  BY <1>1, <1>2, RangeCheckExact
<1>4. at \in 0 .. IndexMax /\ size \in Nat /\ size <= IndexMax
  BY <1>2, <1>3, SMT
<1>5. arg.at = at /\ arg.len = len /\ arg.size = size
      /\ arg \in [at : 0 .. IndexMax, len : Nat, size : Nat]
  BY <1>1, <1>4
<1>6. GoodRange(arg) /\ arg.len = len
  BY <1>3, <1>4, <1>5 DEF GoodRange
<1>7. GoodTest(len, RoomTest(len))
  BY DEF GoodTest
<1>8. QED
  BY <1>1, <1>6, <1>7, UpdateExact

(* A call with a whole slice, in any other port.                           *)
LEMMA SlicedExact ==
  ASSUME PortInv, NEW len \in Chunks, NEW test, GoodTest(len, test),
         PortUpdate(len, test, Slice(len))
  PROVE  (UpdateBuffered(len) \/ UpdateBulk(len)) /\ PortRest'
<1>1. len \in Nat /\ len <= Longest /\ port \in Ports
  BY StreamAssumption DEF PortUpdate, PortInv, PortRest
<1>2. GoodRange(Slice(len)) /\ Slice(len).len = len
  BY <1>1, SliceGood
<1>3. QED
  BY <1>2, UpdateExact

(* Every step of a port.                                                   *)
LEMMA StepExact ==
  ASSUME PortInv, PortNext
  PROVE  Next /\ PortRest'
<1>1. ASSUME NEW s \in Seeds, ResetInPlace(s) \/ ResetByValue(s)
      PROVE  Next /\ PortRest'
  <2>1. Reinit(s) /\ UNCHANGED << port, range, fits >>
    BY <1>1 DEF ResetInPlace, ResetByValue
  <2>2. QED
    BY <2>1, ResetExact DEF Next
<1>2. ASSUME NEW len \in Chunks,
             \/ CUpdate(len) \/ GoWrite(len) \/ SwiftAbsorb(len)
             \/ RustUpdate(len) \/ ZigUpdate(len) \/ JsUpdate(len)
      PROVE  Next /\ PortRest'
  <2>1. PICK test : GoodTest(len, test) /\ PortUpdate(len, test, Slice(len))
    BY <1>2 DEF CUpdate, GoWrite, SwiftAbsorb, RustUpdate, ZigUpdate,
                JsUpdate, GoodTest, Signed
  <2>2. QED
    BY <2>1, SlicedExact DEF Next
<1>3. ASSUME NEW len \in Chunks, NEW at \in Offsets, NEW size \in Sizes,
             JavaUpdate(at, len, size) \/ CSharpUpdate(at, len, size)
      PROVE  Next /\ PortRest'
  <2>1. port \in Signed /\ RangedUpdate(at, len, size)
    BY <1>3 DEF JavaUpdate, CSharpUpdate, Signed
  <2>2. QED
    BY <2>1, RangedExact DEF Next
<1>4. ASSUME PortFastPath \/ PortFill \/ PortDrain
      PROVE  Next /\ PortRest'
  BY <1>4, FastPathExact, FillExact, DrainExact DEF Next
<1>5. ASSUME NEW w \in Widths,
             \/ CDigest(w) \/ GoSum(w) \/ JavaDigest(w) \/ CSharpDigest(w)
             \/ SwiftDigest(w) \/ RustFinish(w) \/ ZigDigest(w) \/ JsDigest(w)
      PROVE  Next /\ PortRest'
  <2>1. PortDigest(w, total) \/ PortDigest(w, nbuf)
    BY <1>5 DEF CDigest, GoSum, JavaDigest, CSharpDigest, SwiftDigest,
                RustFinish, ZigDigest, JsDigest
  <2>2. QED
    BY <2>1, DigestExact DEF Next
<1>6. QED
  BY <1>1, <1>2, <1>3, <1>4, <1>5 DEF PortNext

(***************************************************************************)
(* The theorems.                                                           *)
(***************************************************************************)

(* The invariant is inductive, and every step is a step of HayaStream.     *)
THEOREM PortInductive == PortSpec => []PortInv
<1>1. ASSUME PortInit PROVE PortInv
  <2>1. /\ IInv /\ port \in Ports /\ fits = TRUE /\ range = Slice(0)
        /\ pc = "ready" /\ n = 0
    BY <1>1, InitEstablishes DEF PortInit, Init
  <2>2. Longest \in Nat
    BY <2>1, LongestIsNat
  <2>3. 0 \in Nat /\ 0 <= Longest
    BY <2>2, SMT
  <2>4. GoodRange(range)
    BY <2>1, <2>3, SliceGood
  <2>5. QED
    BY <2>1, <2>3, <2>4 DEF PortInv, PortRest
<1>2. ASSUME PortInv, [PortNext]_portVars PROVE PortInv'
  <2>1. CASE PortNext
    BY <1>2, <2>1, StepExact, NextPreserves DEF PortInv
  <2>2. CASE UNCHANGED portVars
    <3>1. UNCHANGED vars /\ UNCHANGED << port, range, fits >>
      BY <2>2 DEF portVars
    <3>2. IInv'
      BY <1>2, <3>1, StutterPreserves DEF PortInv
    <3>3. pc' = pc /\ p' = p /\ data' = data /\ n' = n
      BY <3>1 DEF vars, call
    <3>4. PortRest'
      BY <1>2, <3>1, <3>3 DEF PortInv, PortRest, GoodRange, Longest
    <3>5. QED
      BY <3>2, <3>4 DEF PortInv
  <2>3. QED
    BY <1>2, <2>1, <2>2
<1>3. QED
  BY <1>1, <1>2, PTL DEF PortSpec

(* No index of any port ever leaves its type.                              *)
THEOREM NoOverflow == PortSpec => []NothingOverflows
<1>1. PortInv => NothingOverflows
  BY DEF PortInv, PortRest, NothingOverflows
<1>2. QED
  BY <1>1, PortInductive, PTL

(* Every read of the caller's array is inside the range the caller named.  *)
THEOREM ReadsStayInside == PortSpec => []ReadsInsideArray
<1>1. PortInv => ReadsInsideArray
  BY DEF PortInv, PortRest, GoodRange, ReadsInsideArray
<1>2. QED
  BY <1>1, PortInductive, PTL

(* Each port behaves as the header's state does.                           *)
THEOREM PortRefinement == PortSpec => ImplementsHayaStream
<1>1. PortInit => Init
  BY DEF PortInit
<1>2. PortInv /\ [PortNext]_portVars => [Next]_vars
  BY StepExact DEF portVars
<1>3. QED
  BY <1>1, <1>2, PortInductive, PTL DEF PortSpec, ImplementsHayaStream, Spec

(* So every port's digests are the one-shot function of the bytes given,   *)
(* however they were split: the theorem about the header, for all ports.   *)
THEOREM PortSplitIndependence == PortSpec => []DigestIsOneShot
BY PortRefinement, SplitIndependence, PTL DEF ImplementsHayaStream
=============================================================================
