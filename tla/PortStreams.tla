----------------------------- MODULE PortStreams -----------------------------
(***************************************************************************)
(* The streaming hashers of the ports that keep the loop of the header: C  *)
(* itself, Go, Java, C#, Swift, Rust, Zig and the pure JavaScript one.     *)
(*                                                                         *)
(* HayaStream counts bytes with integers that have no width.  Here every   *)
(* length, sum and difference the code computes has the type the language  *)
(* gives it, and callers may pass chunks up to the longest the language    *)
(* allows.  The state is that of HayaStream: the fields of the ports have  *)
(* the same names and meanings.                                            *)
(***************************************************************************)
EXTENDS HayaStream

CONSTANTS
  IndexMax,  \* largest value of the signed index type (int, Int): 2^31 - 1
  Offsets,   \* offsets a caller may pass to update(data, offset, length)
  Sizes      \* lengths of the arrays it may pass

ASSUME PortAssumption ==
  /\ IndexMax \in Nat /\ BufCap <= IndexMax
  /\ Offsets \subseteq -(IndexMax + 1) .. IndexMax
  /\ Sizes \subseteq 0 .. IndexMax

VARIABLES
  port,   \* the language
  range,  \* the last call's argument: its array, from where, how many bytes
  fits    \* every index computed so far was in the range of its type

portVars == << vars, port, range, fits >>

(***************************************************************************)
(* The arithmetic of a port.                                               *)
(***************************************************************************)

Signed   == {"go", "java", "csharp", "swift"}
Unsigned == {"c", "rust", "zig"}
Ports    == Signed \cup Unsigned \cup {"js"}

Width == 2 * (IndexMax + 1)

(* Values an index can have.  A Number counts exactly far beyond the       *)
(* longest Uint8Array; the bound only has to be above any int32.           *)
IndexRange ==
  IF port \in Signed THEN -(IndexMax + 1) .. IndexMax ELSE 0 .. Width - 1

Wrapped(x) == ((x + IndexMax + 1) % Width) - (IndexMax + 1)

(* What is stored when x is computed.  Outside the range Go, Java and C#   *)
(* wrap, C and optimised Rust and Zig wrap, Swift and checked Rust and Zig *)
(* stop the program; that it happened stays in fits.                       *)
Index(x) ==
  CASE port \in Signed   -> Wrapped(x)
    [] port \in Unsigned -> x % Width
    [] OTHER             -> x

Computes(xs) == fits' = (fits /\ xs \subseteq IndexRange)

(* The longest chunk: signed lengths and Rust slices (isize::MAX) stop at  *)
(* IndexMax; elsewhere the chunk only has to leave room for the state.     *)
Longest ==
  IF port \in Signed \cup {"rust"} THEN IndexMax ELSE Width - 1 - BufCap

(* A slice is its own array.                                               *)
Slice(len) == [at |-> 0, len |-> len, size |-> len]

(* Java and Swift keep the array and move an index through it; the others  *)
(* cut the slice, so their index starts from 0 each time.                  *)
Cursor(k) ==
  IF port \in {"java", "swift"} THEN range.at + (p - data) + k ELSE k

(***************************************************************************)
(* update.                                                                 *)
(***************************************************************************)

(* The two sides of the test that decides whether a chunk stays in the     *)
(* buffer, as the code computes them: the sum of the header, or a          *)
(* difference.                                                             *)
SumTest(len) == << nbuf + len, BufCap >>

RoomTest(len) == << len, BufCap - nbuf >>

PortStays(test) == ~bulk /\ Index(test[1]) < Index(test[2])

(* From the entry of the method to its loop, or to its first return.       *)
PortUpdate(len, test, arg) ==
  /\ Enter(len)
  /\ len <= Longest
  /\ range' = arg
  /\ \/ /\ PortStays(test)
        /\ buf' = Copied(total, len)
        /\ nbuf' = Index(nbuf + len)
        /\ Return
        /\ Computes({test[1], test[2], nbuf + len})
        /\ UNCHANGED << seed, bulk, iv, fed >>
     \/ /\ ~PortStays(test)
        /\ bulk' = TRUE
        /\ data' = total /\ p' = total /\ n' = len
        /\ pc' = "loop"
        /\ Computes(IF bulk THEN {} ELSE {test[1], test[2]})
        /\ UNCHANGED << seed, nbuf, iv, fed, buf, out >>
  /\ UNCHANGED port

(* Mutant of Accepts: the end of the range is computed as a sum.           *)
AcceptsSum(at, len, size) == at >= 0 /\ len >= 0 /\ Index(at + len) <= size

(* The range check of update(data, offset, length); a call that fails it   *)
(* throws and changes nothing.                                             *)
Accepts(at, len, size) == at >= 0 /\ len >= 0 /\ at <= Index(size - len)

RangedUpdate(at, len, size) ==
  /\ Accepts(at, len, size)
  /\ PortUpdate(len, RoomTest(len), [at |-> at, len |-> len, size |-> size])

CUpdate(len)     == port = "c" /\ PortUpdate(len, SumTest(len), Slice(len))
GoWrite(len)     == port = "go" /\ PortUpdate(len, RoomTest(len), Slice(len))
SwiftAbsorb(len) == port = "swift" /\ PortUpdate(len, RoomTest(len), Slice(len))
RustUpdate(len)  == port = "rust" /\ PortUpdate(len, SumTest(len), Slice(len))
ZigUpdate(len)   == port = "zig" /\ PortUpdate(len, SumTest(len), Slice(len))
JsUpdate(len)    == port = "js" /\ PortUpdate(len, SumTest(len), Slice(len))

JavaUpdate(at, len, size)   == port = "java" /\ RangedUpdate(at, len, size)
CSharpUpdate(at, len, size) == port = "csharp" /\ RangedUpdate(at, len, size)

(* Whole blocks that go straight from the caller's bytes to the lanes:     *)
(* & ~63, or in JavaScript wholeBlocks.                                    *)
PortDirect == WholeBlocks(Index(n - Keep))

PortFastPath ==
  /\ pc = "loop"
  /\ AtFloor
  /\ fed' = fed \o Load(buf, 1, Keep) \o NextBytes(p, PortDirect)
  /\ p' = p + PortDirect
  /\ n' = Index(n - PortDirect)
  /\ nbuf' = 0
  /\ pc' = "fill"
  /\ Computes({n - Keep, PortDirect, Cursor(PortDirect), n - PortDirect})
  /\ UNCHANGED << seed, total, bulk, iv, buf, data, out, port, range >>

PortTake == IF n < Index(Room) THEN n ELSE Index(Room)

PortFill ==
  /\ pc = "fill" \/ (pc = "loop" /\ ~AtFloor)
  /\ buf' = Copied(p, PortTake)
  /\ nbuf' = Index(nbuf + PortTake)
  /\ \/ /\ nbuf' < BufCap
        /\ Return
     \/ /\ nbuf' >= BufCap
        /\ p' = p + PortTake
        /\ n' = Index(n - PortTake)
        /\ pc' = "drain"
        /\ UNCHANGED << data, out >>
  /\ Computes({Room, nbuf + PortTake, Cursor(PortTake), n - PortTake})
  /\ UNCHANGED << seed, total, bulk, iv, fed, port, range >>

PortConsume == WholeBlocks(Index(nbuf - Keep))

PortDrain ==
  /\ pc = "drain"
  /\ fed' = fed \o Load(buf, 1, PortConsume)
  /\ nbuf' = Index(nbuf - PortConsume)
  /\ buf' = Moved(PortConsume, Index(nbuf - PortConsume))
  /\ pc' = "loop"
  /\ Computes({nbuf - Keep, PortConsume, nbuf - PortConsume})
  /\ UNCHANGED << seed, total, bulk, iv, data, p, n, out, port, range >>

(***************************************************************************)
(* Resets and digests.                                                     *)
(***************************************************************************)

(* Go, Java, C#, JavaScript and C write the fields again and leave buf.    *)
ResetInPlace(s) ==
  /\ port \in {"c", "go", "java", "csharp", "js"}
  /\ Reinit(s)
  /\ UNCHANGED << port, range, fits >>

(* Rust, Zig and Swift assign a new value, with a new buffer.              *)
ResetByValue(s) ==
  /\ port \in {"rust", "zig", "swift"}
  /\ Reinit(s)
  /\ UNCHANGED << port, range, fits >>

(* Both digests.  live: how many bytes of buf the port hands to the        *)
(* one-shot function while the state is not committed.                     *)
PortDigest(w, live) ==
  /\ pc = "ready"
  /\ out' = { IF ~bulk
              THEN OneShot(w, seed, Load(buf, 1, Index(live)))
              ELSE Finish(w, iv, fed, buf, nbuf, total) }
  /\ Computes(IF bulk THEN {} ELSE {live})
  /\ UNCHANGED << state, call, port, range >>

CDigest(w)      == port = "c" /\ PortDigest(w, total)
GoSum(w)        == port = "go" /\ PortDigest(w, total)
JavaDigest(w)   == port = "java" /\ PortDigest(w, total)
CSharpDigest(w) == port = "csharp" /\ PortDigest(w, total)
SwiftDigest(w)  == port = "swift" /\ PortDigest(w, nbuf)
RustFinish(w)   == port = "rust" /\ PortDigest(w, total)
ZigDigest(w)    == port = "zig" /\ PortDigest(w, total)
JsDigest(w)     == port = "js" /\ PortDigest(w, total)

-----------------------------------------------------------------------------
PortInit == Init /\ port \in Ports /\ range = Slice(0) /\ fits = TRUE

Loop == PortFastPath \/ PortFill \/ PortDrain

PortNext ==
  \/ \E s \in Seeds : ResetInPlace(s) \/ ResetByValue(s)
  \/ \E len \in Chunks :
       \/ CUpdate(len) \/ GoWrite(len) \/ SwiftAbsorb(len)
       \/ RustUpdate(len) \/ ZigUpdate(len) \/ JsUpdate(len)
       \/ \E at \in Offsets, size \in Sizes :
            JavaUpdate(at, len, size) \/ CSharpUpdate(at, len, size)
  \/ PortFastPath
  \/ PortFill
  \/ PortDrain
  \/ \E w \in Widths :
       \/ CDigest(w) \/ GoSum(w) \/ JavaDigest(w) \/ CSharpDigest(w)
       \/ SwiftDigest(w) \/ RustFinish(w) \/ ZigDigest(w) \/ JsDigest(w)

PortSpec == PortInit /\ [][PortNext]_portVars

(***************************************************************************)
(* Properties.                                                             *)
(***************************************************************************)

(* CHANGELOG.md, "Unreleased": the test for buffering overflowed int in    *)
(* Java, Go, C# and Swift, and the rounding to blocks overflowed int32 in  *)
(* JavaScript, for chunks near the longest.  No guard, sum, difference or  *)
(* rounding leaves its type, whatever the chunk and the fill level.        *)
NothingOverflows == fits

(* A call reads the bytes it was given: what is still to be read is the    *)
(* rest of the range the caller named, and that range is in the array.     *)
ReadsInsideArray ==
  /\ range.at + range.len <= range.size
  /\ pc # "ready" => (p - data) + n = range.len

(* With NothingOverflows, the machine of a port is the machine of          *)
(* HayaStream: every step of a port is a step there, so all that is true   *)
(* of the header's state is true of each port's.                           *)
ImplementsHayaStream == Spec
=============================================================================
