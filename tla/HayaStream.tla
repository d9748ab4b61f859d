----------------------------- MODULE HayaStream -----------------------------
(***************************************************************************)
(* The streaming state of hayahash.h (hayahash64_state): init, update and  *)
(* the two digests, with the loop of update taken step by step.            *)
(*                                                                         *)
(* A byte is its offset in the current message, as in StreamSpec.  The     *)
(* eight lanes h[] and the rotated word wp are what the bytes absorbed so  *)
(* far made of the initial lanes, so they are represented by the pair      *)
(* (iv, fed): the seed that initialised them and the bytes that went       *)
(* through hayahash64_internal_blocks since, in order.                     *)
(***************************************************************************)
EXTENDS Walk

CONSTANTS
  Keep,      \* hayahash64_internal_keep, 128
  BufCap,    \* hayahash64_internal_bufcap, 448
  Seeds,     \* seeds a caller may use
  Chunks,    \* lengths a caller may pass to update
  MaxTotal   \* bound: longest message a caller builds

ASSUME StreamAssumption ==
  /\ Keep \in Nat \ {0} /\ Keep % Block = 0
  /\ BufCap \in Nat /\ Keep + Block <= BufCap
  /\ BulkMin <= BufCap
  /\ Chunks \subseteq Nat
  /\ MaxTotal \in Nat

VARIABLES
  seed, total, nbuf, bulk,  \* the fields of the same names
  iv, fed,                  \* h[] and wp, see above
  buf,                      \* buf[i + 1] is the code's buf[i]
  pc,                       \* where the current call of update is
  data, p, n,               \* its locals: offset of the caller's first byte,
                            \* of the next byte to read, and bytes left
  out                       \* the last digest of the current message, a set

state == << seed, total, nbuf, bulk, iv, fed, buf >>
call  == << pc, data, p, n >>
vars  == << state, call, out >>

(* Contents of memory that no byte of the current message was written to:  *)
(* init leaves buf as it is, so it holds indeterminate or earlier bytes.   *)
Junk == -1

(* memcpy(st->buf + st->nbuf, q, len), q being the caller's byte at offset *)
(* from of the message.                                                    *)
Copied(from, len) ==
  [i \in 1 .. BufCap |->
     IF i \in nbuf + 1 .. nbuf + len THEN from + (i - nbuf - 1) ELSE buf[i]]

(* Mutant of Moved: the move starts at the floor, not at the end of what   *)
(* was consumed.                                                           *)
MovedFromFloor(len, rest) ==
  [i \in 1 .. BufCap |-> IF i <= rest THEN buf[i + Keep] ELSE buf[i]]

(* memmove(st->buf, st->buf + len, rest)                                   *)
Moved(len, rest) ==
  [i \in 1 .. BufCap |-> IF i <= rest THEN buf[i + len] ELSE buf[i]]

(***************************************************************************)
(* Calls.                                                                  *)
(***************************************************************************)

(* hayahash64_init on a state whose memory holds anything.                 *)
Init ==
  /\ seed \in Seeds /\ iv = seed /\ fed = << >>
  /\ total = 0 /\ nbuf = 0 /\ bulk = FALSE
  /\ buf = [i \in 1 .. BufCap |-> Junk]
  /\ pc = "ready" /\ data = 0 /\ p = 0 /\ n = 0
  /\ out = {}

(* Mutant of Reinit: st->bulk is not cleared.                              *)
ReinitKeepsBulk(s) ==
  /\ pc = "ready"
  /\ seed' = s /\ iv' = s /\ fed' = << >>
  /\ total' = 0 /\ nbuf' = 0
  /\ buf' = [i \in 1 .. BufCap |-> Junk]
  /\ out' = {}
  /\ UNCHANGED << bulk, call >>

(* The same function on a state that has been used: the bytes left in buf  *)
(* belong to another message from now on.                                  *)
Reinit(s) ==
  /\ pc = "ready"
  /\ seed' = s /\ iv' = s /\ fed' = << >>
  /\ total' = 0 /\ nbuf' = 0 /\ bulk' = FALSE
  /\ buf' = [i \in 1 .. BufCap |-> Junk]
  /\ out' = {}
  /\ UNCHANGED call

(* Entry of hayahash64_update(st, data, len).  A call with len = 0 returns *)
(* before it changes anything.                                             *)
Enter(len) ==
  /\ pc = "ready"
  /\ len > 0
  /\ total + len <= MaxTotal
  /\ total' = total + len

(* The call returns: its locals are gone, and what the caller knew of the  *)
(* digest is out of date.                                                  *)
Return ==
  /\ pc' = "ready"
  /\ data' = 0 /\ p' = 0 /\ n' = 0
  /\ out' = {}

(* Mutant of StaysBuffered: <= for <.                                      *)
StaysBufferedToCap(len) == ~bulk /\ nbuf + len <= BufCap

(* Totals up to BufCap - 1 stay in the buffer and the call returns.        *)
StaysBuffered(len) == ~bulk /\ nbuf + len < BufCap

UpdateBuffered(len) ==
  /\ Enter(len)
  /\ StaysBuffered(len)
  /\ buf' = Copied(total, len)
  /\ nbuf' = nbuf + len
  /\ Return
  /\ UNCHANGED << seed, bulk, iv, fed >>

(* Otherwise the state is, or becomes, committed to the bulk path and the  *)
(* loop starts.                                                            *)
UpdateBulk(len) ==
  /\ Enter(len)
  /\ ~StaysBuffered(len)
  /\ bulk' = TRUE
  /\ data' = total /\ p' = total /\ n' = len
  /\ pc' = "loop"
  /\ UNCHANGED << seed, nbuf, iv, fed, buf, out >>

(***************************************************************************)
(* The loop of update.                                                     *)
(***************************************************************************)

(* Mutant of AtFloor: <= for =, a buffer below the floor qualifies.        *)
AtFloorOrBelow == nbuf <= Keep /\ n > BufCap

(* Mutant of Direct: nothing is held back for the buffer.                  *)
DirectAll == WholeBlocks(n)

(* The buffer is at its floor and plenty is coming: drain the floor, then  *)
(* whole blocks straight from the caller's memory.                         *)
AtFloor == nbuf = Keep /\ n > BufCap

Direct == WholeBlocks(n - Keep)

FastPath ==
  /\ pc = "loop"
  /\ AtFloor
  /\ fed' = fed \o Load(buf, 1, Keep) \o NextBytes(p, Direct)
  /\ p' = p + Direct
  /\ n' = n - Direct
  /\ nbuf' = 0
  /\ pc' = "fill"
  /\ UNCHANGED << seed, total, bulk, iv, buf, data, out >>

(* Mutant of Take: not limited by the room.                                *)
TakeUnlimited == n

(* Copy what fits; the call returns unless that fills the buffer.          *)
Room == BufCap - nbuf

Take == IF n < Room THEN n ELSE Room

Fill ==
  /\ pc = "fill" \/ (pc = "loop" /\ ~AtFloor)
  /\ buf' = Copied(p, Take)
  /\ nbuf' = nbuf + Take
  /\ \/ /\ nbuf' < BufCap
        /\ Return
     \/ /\ nbuf' >= BufCap
        /\ p' = p + Take
        /\ n' = n - Take
        /\ pc' = "drain"
        /\ UNCHANGED << data, out >>
  /\ UNCHANGED << seed, total, bulk, iv, fed >>

(* Mutants of Consume: the floor is not kept; the operands are the wrong   *)
(* way round.                                                              *)
ConsumeAll == WholeBlocks(nbuf)
ConsumeRoom == WholeBlocks(BufCap - nbuf)

(* Buffer full: consume whole blocks down to the floor, move the rest to   *)
(* the front.                                                              *)
Consume == WholeBlocks(nbuf - Keep)

Drain ==
  /\ pc = "drain"
  /\ fed' = fed \o Load(buf, 1, Consume)
  /\ nbuf' = nbuf - Consume
  /\ buf' = Moved(Consume, nbuf - Consume)
  /\ pc' = "loop"
  /\ UNCHANGED << seed, total, bulk, iv, data, p, n, out >>

(***************************************************************************)
(* Digests: const on the state, 64 and 128 bits from the same one.         *)
(***************************************************************************)

(* Below the commit the buffer is the whole message and the one-shot       *)
(* function hashes it; above it, the walk continues over what is left in   *)
(* the buffer.                                                             *)
DigestOf(w) ==
  IF ~bulk
  THEN OneShot(w, seed, Load(buf, 1, total))
  ELSE Finish(w, iv, fed, buf, nbuf, total)

Digest(w) ==
  /\ pc = "ready"
  /\ out' = {DigestOf(w)}
  /\ UNCHANGED << state, call >>

-----------------------------------------------------------------------------
Step == FastPath \/ Fill \/ Drain

Next ==
  \/ \E s \in Seeds : Reinit(s)
  \/ \E len \in Chunks : UpdateBuffered(len) \/ UpdateBulk(len)
  \/ FastPath
  \/ Fill
  \/ Drain
  \/ \E w \in Widths : Digest(w)

Spec == Init /\ [][Next]_vars

(* A call that has started runs: there is nothing in update that waits.    *)
(* Nothing is assumed of the caller.                                       *)
FairSpec == Spec /\ WF_vars(Step)

(***************************************************************************)
(* Properties.                                                             *)
(***************************************************************************)

Bytes == Nat \cup {Junk, Outside}

(* Types of the variables.                                                 *)
TypeOK ==
  /\ seed \in Seeds /\ iv \in Seeds
  /\ total \in Nat /\ nbuf \in 0 .. BufCap /\ bulk \in BOOLEAN
  /\ fed \in Seq(Bytes)
  /\ buf \in [1 .. BufCap -> Bytes]
  /\ pc \in {"ready", "loop", "fill", "drain"}
  /\ data \in Nat /\ p \in Nat /\ n \in Nat

(* Bytes of the message the state has taken over from the caller.          *)
Held == IF pc = "ready" THEN total ELSE p

(* The inductive invariant: what is true between any two steps, inside a   *)
(* call too, of the lanes, the buffer and the locals of the call.          *)
LanesHoldPrefix ==
  /\ iv = seed
  /\ fed = NextBytes(0, Len(fed))
  /\ Len(fed) % Block = 0

BufferHoldsNext == \A i \in 1 .. nbuf : buf[i] = Len(fed) + i - 1

BytesAddUp ==
  /\ Len(fed) + nbuf = Held
  /\ pc # "ready" => p + n = total /\ data <= p /\ data < total

PhaseOK ==
  IF bulk
  THEN /\ total >= BufCap
       /\ pc = "ready" => nbuf \in Keep .. BufCap - 1
       /\ pc = "loop"  => nbuf < BufCap /\ (nbuf >= Keep \/ nbuf + n >= BufCap)
       /\ pc = "fill"  => nbuf = 0 /\ n \in Keep .. Keep + Block - 1
       /\ pc = "drain" => nbuf = BufCap
  ELSE pc = "ready" /\ Len(fed) = 0 /\ nbuf < BufCap

IInv ==
  TypeOK /\ LanesHoldPrefix /\ BufferHoldsNext /\ BytesAddUp /\ PhaseOK

(* hayahash.h: "Produces digests identical to hayahash64() and hayahash128 *)
(* () for the same (seed, bytes) regardless of how the input is split      *)
(* across update calls".  Whenever a digest can be taken, everything mixed *)
(* into it is what the one-shot function mixes in for the bytes given so   *)
(* far: no byte is lost, repeated, out of order, stale or from outside.    *)
DigestIsOneShot ==
  pc = "ready" =>
    \A w \in Widths : DigestOf(w) = OneShot(w, seed, NextBytes(0, total))

(* hayahash.h: "bytes are only ever consumed in whole 64-byte blocks from  *)
(* stream offset 0".  At every step, inside a call too, the bytes absorbed *)
(* followed by the live part of the buffer are the message up to the point *)
(* the call has read, cut at a multiple of Block.                          *)
NothingLostOrRepeated ==
  /\ fed \o Load(buf, 1, nbuf) = NextBytes(0, Held)
  /\ Len(fed) % Block = 0

(* hayahash.h: "at digest time the leftover buffer always holds at least   *)
(* hayahash64_internal_keep bytes".  A state that is still on the one-shot *)
(* path holds the whole message instead.                                   *)
FloorKept ==
  pc = "ready" =>
    IF bulk THEN nbuf \in Keep .. BufCap - 1 /\ total >= BufCap
            ELSE nbuf = total /\ total < BufCap

(* hayahash.h: the fast path leaves "a [keep, keep+63]-byte remainder for  *)
(* the buffer", so the call ends with the next copy: it never fills the    *)
(* buffer again.                                                           *)
FastPathFinishes ==
  [][ /\ pc = "loop" /\ pc' = "fill" => n' \in Keep .. Keep + Block - 1
      /\ pc = "fill" => pc' = "ready" /\ nbuf' = n ]_vars

(* Every call of update returns: the loop makes progress whatever the      *)
(* length and the fill level it starts from.                               *)
UpdateReturns == pc # "ready" ~> pc = "ready"

(* The hasher implements its promise.  A call of update takes effect for   *)
(* the caller when it returns.                                             *)
Promise == INSTANCE StreamSpec WITH
  message <- SubSeq(fed \o Load(buf, 1, nbuf), 1,
                    IF pc = "ready" THEN total ELSE data)

ImplementsStreamSpec == Promise!Spec
=============================================================================
