---------------------------- MODULE HaskellHasher ----------------------------
(***************************************************************************)
(* The incremental hasher of the Haskell port                              *)
(* (haskell/src/Data/Hash/Hayahash.hs).  It buffers in a way of its own:   *)
(* once committed to the bulk path it keeps less than Keep + Block bytes   *)
(* between updates, where the C state keeps anything up to BufCap.  A      *)
(* Hasher is an immutable value and update a pure function, so a step is a *)
(* whole call.                                                             *)
(*                                                                         *)
(* A byte is its offset in the message.  Lanes are the bytes they absorbed *)
(* since initialLanes.  A ByteString is a sequence; the loads of the       *)
(* hashing functions are unchecked (BSU.unsafeIndex) and may reach outside *)
(* it.                                                                     *)
(***************************************************************************)
EXTENDS Walk

CONSTANTS
  Keep,      \* keepBytes, 128
  BufCap,    \* bufferCapacity, 448
  Seeds,     \* seeds a caller may use
  Chunks,    \* lengths a caller may pass to update
  MaxTotal   \* bound: longest message a caller builds

ASSUME HaskellAssumption ==
  /\ Keep \in Nat \ {0} /\ Keep % Block = 0
  /\ BufCap \in Nat /\ Keep + Block <= BufCap
  /\ (BufCap - Keep) % Block = 0
  /\ BulkMin <= BufCap
  /\ Chunks \subseteq Nat
  /\ MaxTotal \in Nat

VARIABLES
  lanes, buffer, seed, total, bulk,  \* the fields of a Hasher
  out                                \* the last digest of this value, a set

hasher == << lanes, buffer, seed, total, bulk >>
vars   == << hasher, out >>

(* BS.take and BS.drop, for n within the length.                           *)
BSTake(n, bytes) == SubSeq(bytes, 1, n)
BSDrop(n, bytes) == SubSeq(bytes, n + 1, Len(bytes))

(* absorbBlocks bytes 0 count: the loop ends when nothing remains, exactly.*)
(* Any other count runs it past the end of the bytes.                      *)
AbsorbBlocks(bytes, count, absorbed) ==
  IF count % Block = 0
  THEN absorbed \o Load(bytes, 1, count)
  ELSE Append(absorbed, Outside)

(* Lanes and buffer, the result of feedBulk.                               *)
Fed(absorbed, rest) == [lanes |-> absorbed, buffer |-> rest]

(* Mutant of Direct: nothing is held back for the buffer.                  *)
DirectAll(n) == WholeBlocks(n)

(* Whole blocks of an input of n bytes that leave a floor.                 *)
Direct(n) == WholeBlocks(n - Keep)

(* Whole blocks of n joined bytes above the floor; 192 is Keep + Block.    *)
Consume(n) == IF n >= Keep + Block THEN WholeBlocks(n - Keep) ELSE 0

(* feedBulk with the buffer at its floor.                                  *)
FeedAtFloor(absorbed, held, input) ==
  LET joined == held \o input
  IN  CASE input = << >> -> Fed(absorbed, held)
        [] Len(input) > BufCap ->
             Fed(AbsorbBlocks(input, Direct(Len(input)),
                              AbsorbBlocks(held, Keep, absorbed)),
                 BSDrop(Direct(Len(input)), input))
        [] OTHER ->
             Fed(AbsorbBlocks(joined, Consume(Len(joined)), absorbed),
                 BSDrop(Consume(Len(joined)), joined))

(* Mutant of Needed: the block above the floor is taken to be the floor.   *)
NeededOfFloor(held) == 2 * Keep - Len(held)

(* What the buffer lacks to one block above the floor.                     *)
Needed(held) == (Keep + Block) - Len(held)

(* feedBulk with the buffer above its floor: fill it up to one block above,*)
(* absorb that block, which leaves the floor, and go on: the one recursive *)
(* call.                                                                   *)
FeedBulk(absorbed, held, input) ==
  LET needed == Needed(held)
      joined == held \o BSTake(needed, input)
  IN  IF Len(held) <= Keep \/ input = << >>
      THEN FeedAtFloor(absorbed, held, input)
      ELSE IF Len(input) < needed
      THEN Fed(absorbed, held \o input)
      ELSE FeedAtFloor(AbsorbBlocks(joined, Block, absorbed),
                       BSDrop(Block, joined), BSDrop(needed, input))

-----------------------------------------------------------------------------
Init ==
  /\ lanes = << >> /\ buffer = << >> /\ seed \in Seeds
  /\ total = 0 /\ bulk = FALSE
  /\ out = {}

(* newHasher: another value in its place.                                  *)
NewHasher(s) ==
  /\ lanes' = << >> /\ buffer' = << >> /\ seed' = s
  /\ total' = 0 /\ bulk' = FALSE
  /\ out' = {}

(* An update with an empty input returns the value it was given.           *)
Given(n) == n > 0 /\ total + n <= MaxTotal

Input(n) == NextBytes(total, n)

(* Mutant of StaysBuffered: <= for <.                                      *)
StaysBufferedToCap(n) == ~bulk /\ Len(buffer) + n <= BufCap

StaysBuffered(n) == ~bulk /\ Len(buffer) + n < BufCap

UpdateBuffered(n) ==
  /\ Given(n) /\ StaysBuffered(n)
  /\ buffer' = buffer \o Input(n)
  /\ total' = total + n
  /\ out' = {}
  /\ UNCHANGED << lanes, seed, bulk >>

(* The commit: the buffer is filled, all of it above the floor absorbed,   *)
(* and the rest of the input fed.                                          *)
UpdateCommit(n) ==
  /\ Given(n) /\ ~bulk /\ ~StaysBuffered(n)
  /\ LET needed == BufCap - Len(buffer)
         prefix == buffer \o BSTake(needed, Input(n))
         fed    == FeedBulk(AbsorbBlocks(prefix, BufCap - Keep, lanes),
                            BSDrop(BufCap - Keep, prefix),
                            BSDrop(needed, Input(n)))
     IN  lanes' = fed.lanes /\ buffer' = fed.buffer
  /\ total' = total + n
  /\ bulk' = TRUE
  /\ out' = {}
  /\ UNCHANGED seed

UpdateBulk(n) ==
  /\ Given(n) /\ bulk
  /\ LET fed == FeedBulk(lanes, buffer, Input(n))
     IN  lanes' = fed.lanes /\ buffer' = fed.buffer
  /\ total' = total + n
  /\ out' = {}
  /\ UNCHANGED << seed, bulk >>

(***************************************************************************)
(* Hashing.                                                                *)
(***************************************************************************)

(* midLoop, finishLower and finishBulk: over the bytes from offset at on,  *)
(* rounds while there are 32, then the tail.                               *)
MidEnd(l, at) == at + ((l - at) - ((l - at) % Round))

Terms(path, w, absorbed, bytes, at, len) ==
  LET l   == Len(bytes)
      mid == MidEnd(l, at)
  IN  [ path   |-> path, width |-> w, iv |-> seed, len |-> len,
        blocks |-> absorbed,
        rounds |-> Load(bytes, at + 1, mid),
        head   |-> HeadWords(bytes, l, mid),
        last   |-> LastWords(bytes, l, mid) ]

(* finishBulk                                                              *)
FinishBulk(w) ==
  LET blocks == WholeBlocks(Len(buffer))
  IN  Terms("bulk", w, AbsorbBlocks(buffer, blocks, lanes), buffer, blocks, total)

(* longTerms                                                               *)
LongTerms(w, bytes) ==
  LET blocks == WholeBlocks(Len(bytes))
  IN  IF Len(bytes) >= BulkMin
      THEN Terms("bulk", w, AbsorbBlocks(bytes, blocks, << >>), bytes, blocks, Len(bytes))
      ELSE Terms("mid", w, << >>, bytes, 0, Len(bytes))

(* hayahash64 and hayahash128                                              *)
Hash(w, bytes) ==
  IF Len(bytes) <= Pair THEN ShortHash(w, seed, bytes) ELSE LongTerms(w, bytes)

(* digest64 and digest128                                                  *)
DigestOf(w) == IF ~bulk THEN Hash(w, buffer) ELSE FinishBulk(w)

Digest(w) ==
  /\ out' = {DigestOf(w)}
  /\ UNCHANGED hasher

-----------------------------------------------------------------------------
Next ==
  \/ \E s \in Seeds : NewHasher(s)
  \/ \E n \in Chunks : UpdateBuffered(n) \/ UpdateCommit(n) \/ UpdateBulk(n)
  \/ \E w \in Widths : Digest(w)

Spec == Init /\ [][Next]_vars

(***************************************************************************)
(* Properties.                                                             *)
(***************************************************************************)

(* Types of the variables.                                                 *)
TypeOK ==
  /\ lanes \in Seq(Nat) /\ buffer \in Seq(Nat)
  /\ seed \in Seeds /\ total \in Nat /\ bulk \in BOOLEAN

(* Hayahash.hs: "At most 447 input bytes are retained before bulk hashing  *)
(* begins, and the bulk path retains between 128 and 191 bytes."           *)
MemoryBounded ==
  IF bulk THEN Len(buffer) \in Keep .. Keep + Block - 1
          ELSE Len(buffer) < BufCap

(* What holds of the value between calls: the lanes absorbed whole blocks  *)
(* from the start, the buffer follows them, and together they are the      *)
(* message.                                                                *)
HoldsMessage ==
  /\ lanes = NextBytes(0, Len(lanes))
  /\ buffer = NextBytes(Len(lanes), Len(buffer))
  /\ Len(lanes) + Len(buffer) = total
  /\ Len(lanes) % Block = 0
  /\ IF bulk THEN total >= BufCap ELSE lanes = << >>

IInv == TypeOK /\ MemoryBounded /\ HoldsMessage

(* docs/ports.md and the module's comments: "bit-exact" with the C         *)
(* reference, one-shot and incremental.  A digest mixes in what the walk   *)
(* of hayahash.h mixes in for the bytes given so far, for every split.     *)
DigestIsOneShot ==
  \A w \in Widths : DigestOf(w) = OneShot(w, seed, NextBytes(0, total))

(* The port implements the promise every streaming hasher makes.           *)
Promise == INSTANCE StreamSpec WITH message <- lanes \o buffer

ImplementsStreamSpec == Promise!Spec
=============================================================================
