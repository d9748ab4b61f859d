# A verification development of hayahash

hayahash is a 64/128-bit non-cryptographic hash: one C header (`hayahash.h`) with
one-shot functions and a streaming state, ports of both to eight languages (Go, Rust,
Zig, Java, C#, Swift, Haskell, JavaScript), bindings of the header (Python, JavaScript
over wasm), an assembly port, and a command line tool
(`cli/hayasum.c`).  Its central promise is one sentence long: every
implementation, every build, every split of the input gives the same bits.

This directory holds TLA+ modules that model the program's control, TLC
configurations that check them on small instances, and TLAPS proofs of what
matters most for every value of the constants.

    tlc -workers 2 -config Stream.cfg MCHayaStream.tla     # one run
    tlapm StreamProofs.tla                                 # one proof module

All paths below are relative to the repository.

## 1. Inventory

| Component | State it keeps | Operations | Status |
|---|---|---|---|
| C streaming state, `hayahash.h` 1637-1955 | lanes `h[8]` and word `wp`, `seed`, `total`, `nbuf`, `bulk`, `buf[448]` | `init`, `update`, `digest` of 64 and 128 bits | modelled, proved |
| C one-shot functions, `hayahash.h` 113-1634 | locals: lanes, pointer, bytes left; the words of a short input | `hayahash64`, `hayahash128`; five kinds of build take different code | modelled, proved; short inputs with their arithmetic |
| Haskell port, `haskell/src/Data/Hash/Hayahash.hs` | an immutable `Hasher`: lanes, buffer, seed, total, bulk | `newHasher`, `update`, digests, one-shot functions | modelled, proved |
| JavaScript package over wasm, `js/src/{index,wasm}.ts`, `js/wasm/shim.c` | one linear memory per engine with scratch cells; each `Hasher` keeps its state outside it | construct, `reset`, `update` in chunks, digests, one-shots, `setWasmModule` | modelled, proved |
| `hayasum`, the reader, `cli/hayasum.c` 331-526 | stdio streams and their indicators, exit status | open, read, print, final flush | modelled, proved |
| `hayasum`, arguments, seeds, label escaping, `cli/hayasum.c` 84-330 | the parser's index and the fields it fills | parse a command line, read a seed, quote an argument, escape a name | modelled, proved |
| JavaScript pure engine, `js/src/{pure,stream}.ts` | as the C state | as the C state | modelled, proved |
| Streaming ports with the loop of the header: Go, Rust, Zig, Java, C#, Swift | as the C state | the same; Java and C# check a range first | modelled, proved |
| One-shot ports: Go, Rust, Zig, Java, C#, Swift, JavaScript | locals, as in C | `hayahash64`, `hayahash128`, with loads by index | modelled, proved |
| Rust `HayaHasher`, `rust/src/hasher.rs` | 64-byte in-line buffer that spills to a heap vector | `write`, `finish`, digests, `build_hasher` | modelled, proved |
| Python extension, `python/native/_hayahash.c` | a C state and a seed per object; references of the module; views of other objects' buffers | import, construct, `update`, `copy`, `reset`, digests, one-shot functions, `dealloc` | modelled, proved |
| Python copy of the header, MIPS64 assembly, website, SMHasher3 adapter, tests and benchmarks | | | not modelled, see 8 |

How they interact:

- `update` absorbs whole 64-byte blocks with the same block function as the
  one-shot loop; the digests call the one-shot functions over the buffer while
  the message is shorter than 448 bytes and finish the bulk walk above that.
- The Python extension and `hayasum` hold a C state and call the header.
- The JavaScript `Hasher` calls the shim through a linear memory that is shared by
  every hasher of an engine and by the one-shot functions.  It copies its state
  in and out on every call.  Without wasm it delegates to `PureHasher`.
- The Python extension reads buffers that belong to other objects.  Asking for a
  view, and giving it back, runs code of the exporter, and that may be Python: other
  threads and the exporter itself can call the module there.
- The ports share no code.  They are tied together only by test vectors.

What is hard here: nothing is persisted, and only the Python extension meets
threads.  The difficulties are long sequences of calls (the buffer's fill level after any of them), boundary
arithmetic at 16, 32, 64, 128, 320 and 448 bytes, several spellings of one
function that must agree, scratch memory that calls reuse and that moves when it
grows, and partial failure (memory refused to the first chunk of an
update whose length is already counted, one operand of several, output that fails late, an exporter that raises).  `PROJECT.json`
lists each hazard at its line with the properties that would catch it.

## 2. Modules

```
Walk                what a digest is a function of
 |- StreamSpec      the promise of every streaming hasher
 |- HayaStream      the C state, loop step by step   --implements--> StreamSpec
 |                    |- PortStreams  the ports, with index widths  --implements--> HayaStream
 |- HaskellHasher   the Haskell hasher               --implements--> StreamSpec
 |- RustHayaHasher  the Rust HayaHasher              --implements--> StreamSpec
 |- OneShotPaths    every build of the one-shot functions, against Walk
 |- PyHasher        the Python extension over the promise of the C state
ShortInputs         the words of a digest of 0..16 bytes
JsHasher            the wasm package
Hayasum             the command line tool, from the parsed operands on
HayasumText         what the tool does with text
 |- HayasumArgs     its argument parser
WalkProofs          theorems about Walk, cited by those of the three hashers
StreamProofs        HayaStream and PortStreams
OneShotProofs       OneShotPaths and ShortInputs
HayasumProofs       Hayasum and HayasumArgs
HaskellHasherProofs, RustHayaHasherProofs, PyHasherProofs,
JsHasherProofs      the module each is named after
MC*                 instances for TLC
```

**Walk.** The arithmetic (xor, add, rotate, multiply) is uninterpreted.  A digest is
the record of everything mixed into it, in order: path, width, seed, total
length, the bytes of the block loop, of the mid round, of the two words before
the tail and of the last two words.  Equal records mean equal bits for any arithmetic; a byte
that is lost, repeated, reordered, stale or read from outside changes the
record.  Bytes read from outside the memory are `Outside`.  The converse does not
hold and is not claimed: this says nothing about collisions (ShortInputs does, for
short inputs).

**StreamSpec.** Three variables: the seed, the message so far, the last digest.
`Update` appends, `Digest` is `OneShot` of the message, `Restart` begins again.

**HayaStream.** The fields of `hayahash64_state`, the lanes being the pair
(seed they were initialised with, bytes absorbed since).  `update` is not atomic here:
entry, fast path, copy (`Fill`) and drain are actions and the locals of the call
are variables, so the invariants speak of the middle of the loop too.  `buf` is a
real array: `init` leaves junk in it, `memmove` moves what the code moves.

| Code (`hayahash.h`) | Model |
|---|---|
| `hayahash64_init` 1679 | `Init`, `Reinit` |
| `hayahash64_update` 1735-1751 | `UpdateBuffered` |
| 1752-1756 | `UpdateBulk` |
| 1757-1770 | `FastPath` |
| 1771-1777 | `Fill` |
| 1778-1785 | `Drain` |
| `hayahash64_digest`, `hayahash128_digest` | `Digest` |

**PortStreams.** HayaStream counts with integers that have no width.  The ports do
not: `Int` is 32 bits wide on many targets, and the longest slice is
`2^31 - 1` bytes.  The module has the same state and, for each of C, Go, Java, C#,
Swift, Rust, Zig and the pure JavaScript hasher, the update method with
its own test (`nbuf + n < BUF_CAP` or `n < BUF_CAP - nbuf`), argument (a slice, or
an array with an offset and a checked range), arithmetic (`Index` wraps or
is exact) and longest chunk.  `fits` remembers whether a value ever left its type: Go, Java
and C# would go on with a wrapped value, Swift and checked Rust and Zig would
trap.  After the entry the loops of the ports are the same text, so they share
`PortFastPath`, `PortFill` and `PortDrain`.

**OneShotPaths.** `hayahash64` and `hayahash128` as each kind of build compiles
them: (wasm or not) x (clang or not) x (wide target or not) decides between the
straight-line tiers below 256 bytes and a compact loop, between one and two
blocks per iteration, between an in-line and an outlined bulk loop.  The seven
ports of the one-shot functions are builds too: they take the compact loop and
fall through from the bulk loop to the mid rounds, but spell the tail in two ways
of their own (`MovedTail` takes the index along, `CountedTail` only the count, and
finds the end by the length), and Java counts from an offset into a larger array
(`start`).  A lane is the sequence of terms combined into it; a word is the offset
it was loaded from.

**HaskellHasher.** The port buffers in its own way: after the commit it keeps
128..191 bytes between calls, where the C state keeps anything up to 447.
`feedBulk` and `absorbBlocks` are functions; a step is a whole pure call.
`absorbBlocks` ends only when exactly nothing remains, so a count that is no
multiple of a block reads outside, which the model keeps.

**RustHayaHasher.** It absorbs nothing until it is asked: it keeps the whole message, in an array of `InlineCap` bytes and, once a write does not fit, in a
vector.  The vector being empty *is* the flag.  `WriteInline`, `Spill` and `WriteHeap`
are the three branches of `write`; `Build` is `BuildHasher`: a used
hasher builds empty ones.

**ShortInputs.** The one place where the arithmetic is not uninterpreted.  For
0..16 bytes the header claims that nothing is merged, and gives reasons: loads
that cover the input, injections with an odd number of rotations, odd
multipliers, bijective finalizers, a length term that is added where nothing can cancel
it.  The module has the loads and the mixing as written, over words of which it
knows only laws (a load keeps every byte apart; exclusive-or and addition can be
undone; multiplication by the five constants, rotation, `x ^ (x >> n)` and the
two sums of three rotations lose nothing).  Each law is an `ASSUME` that
words of 64 bits meet.  Two computations run in step on inputs that differ
in their bytes, their seed or their length.

**JsHasher.** Engines with a memory of cells, a page count and the view of it the
engine still holds; hashers with their state in JS; scratch cells for state,
digest and input at the addresses `initWasmFromModule` computes.  A call is a
step, because JavaScript runs one at a time, but an update is a step that counts its
length and a step for each chunk.  Only the first chunk can need more memory: the
others are no longer and memory never shrinks.  Growth detaches
the view.  `setWasmModule` may replace the engine under live hashers.

**Hayasum.** `main` from the parsed operands on: open, read, print, flush, exit.
`fread` returns all it was asked for, some or none, with either indicator.  A line is
`Width` bytes, the last its newline, and `PrintByte` gives them to stdio one at a time (`Put`): the
calls of `hayasum_print_digest` are of one byte or more, nobody looks at what they return, and
stdio may hand its buffer to the system at any of their bytes.  A write that fails (`Flush`) may have
got out any number of bytes, and the library may go on holding what it likes of the start of
the rest, so the next byte may get out behind a gap: a line may be torn, or
run into a later one, on a standard output that still takes bytes.  A call of several bytes that gives up in the
middle is one whose later bytes are lost in that way.  Assumed of the library is that it
writes no byte twice that got out, and that between a failed write and the look at
`ferror(stdout)` no call that works changes `errno`.  `errno` and `out_err` say whose reason is in them
(none, a read, a write), and a diagnostic about standard output names the one it was given.

| Code (`cli/hayasum.c`) | Model |
|---|---|
| `main` 490-502 | `ParseHelp`, `HelpEnds`, `ParseUsageError` |
| `main` 507-519 | `NextOperand`, `AfterOperand` |
| `hayasum_hash_path` 433-449 | `Open`, `OpenFails` |
| `hayasum_hash_stream` 358-377 | `ReadOn`, `ReadFails`, `ReadEnds` |
| `hayasum_print_digest` 331-342, `hayasum_usage` | `PrintByte`, `PrintEnds` |
| `hayasum_stdout_failed` 467-480 | `Final` |

**HayasumText, HayasumArgs.** Seeds through `strtoull` with its signs, prefixes, white
space and range, after the screen the code puts before it; quoting into a buffer of
`HAYASUM_TOKMAX` characters; escaping of names.  The parser is one iteration of its
loop a step, with the index it moves.  What a command line means is stated
separately, as the readings the usage text allows, and what a seed means by the
number its digits write; what a line says of a name by a reader that undoes escapes from
left to right.  What the code computes in a loop over characters is a recursive function,
never a fold, whose order the library does not promise.

**PyHasher.** Objects are places in memory with the junk the last object left.  C
code runs under the interpreter lock (`gil`); `PyObject_GetBuffer` and `PyBuffer_Release`
give it up, so an `update` is four steps (start, fetch, use, release)
between which other calls, writes to the buffer, resizes and deallocations happen.
A resize needs that no view is out.  Import is create, add, and an add that fails.

## 3. Properties and runs

| Run | Question | Distinct states |
|---|---|---|
| `stream` | does any sequence of calls of any length lose, repeat or reorder a byte, break the floor or change a digest; does every call return; is the whole a StreamSpec, re-use included | 119,952 |
| `port_streams` | does any index of any port overflow; are ranges checked exactly; is each port's machine the header's | 421,269 |
| `one_shot_paths` | do all builds and all ports compute one function and read the input exactly | 133,784 |
| `short_inputs` | does any load or mixing step of the short path merge what differs | 55,290 |
| `haskell` | does the other buffering scheme give the same digests within its bounds | 1,206 |
| `rust_hayahasher` | is the message found whole in line or on the heap; do short keys stay off the heap | 5,004 |
| `js_hashers` | does any call see what another left in scratch memory; is anything lost by a throw; engines replaced meanwhile | 429,978 |
| `js_length` | *violation*: is `Hasher.length` the number of bytes absorbed | |
| `py_hashers` | is every view given back, every call all or nothing, every digest of the bytes fetched | 568,652 |
| `py_reset` | *violation*: does `reset()` restart with the seed the hasher was built with | |
| `hayasum` | what do exit status, output and diagnostics say of each other | 687,770 |
| `hayasum_args` | is each command line read as the usage text allows, with the values typed; is every diagnostic and name one line | 249,477 |

The properties, and what breaks them (each has a mutant of the code in
`PROJECT.json` that TLC finds):

- `DigestIsOneShot` (HayaStream, HaskellHasher, RustHayaHasher): the digest's record is the
  one-shot record of the bytes given so far.  `NothingLostOrRepeated`: absorbed bytes
  followed by the live buffer are the message up to the point read, at every step of
  the loop.  `FloorKept`: at digest time a committed state has 128..447 bytes in
  the buffer, so the tail may read back.  `FastPathFinishes`: after the fast path
  the call copies 128..191 bytes and returns.  `UpdateReturns`: the loop ends.
- `SameWalk`, `ReadsInside`, `EveryByteRead`, `LoopsAdvance` (OneShotPaths): all
  spellings end with the lanes of the one walk; no load leaves the input; none of its
  bytes is left out; the loop that stops on `p == pe` meets `pe`.
- `NeverMerge` (ShortInputs): the pair of words before the finalizers, and the
  128-bit digest, tell apart two inputs of a length, two seeds of an input, and two
  lengths that load the same words.  The 64-bit digest alone cannot, and is not claimed to.
- `NothingOverflows`, `ReadsInsideArray`, `ImplementsHayaStream` (PortStreams): no
  value leaves its type at any chunk length and fill level; what a call still has
  to read is the rest of the range its caller named, inside the array; each step is a step of
  HayaStream.  The mutants are the bugs `CHANGELOG.md` 17-49 lists as fixed.
- `MemoryBounded` (HaskellHasher): the bounds the module's documentation gives.
- `AllocatesOnlyWhenLarger` (RustHayaHasher): the heap is used only by a message
  longer than the array, whatever writes it came in.
- `StatesAreOwn`, `ResultsRight`, `FailsOnlyWhenRefused` (JsHasher): a hasher's
  state is the bytes absorbed through it; a result mixes in nothing an earlier
  call left; a call throws only because memory was refused.
- `ViewsAccounted`, `StateIsGiven`, `AllOrNothing`, `ImportAllOrNothing`, `AnswersRight`
  (PyHasher): the views out are those of calls between fetch and release, and show
  the memory the buffer has now; digests are one-shot hashes of the bytes fetched,
  through copies, resets and reused memory; a call that raises changed no hasher, one that
  returns has; failed imports hold nothing.
- `ZeroMeansDelivered`, `TornIsTold`, `FailuresReported`, `FailureIsOwn`,
  `StopsWhenBroken` (Hayasum): status 0 means each input was read to its end and its
  line is out to its last byte; no byte out is of the line of a truncated input, and a line
  that is torn, run into another or missing is told of last, with status 1; failures and diagnostics
  match, and a broken stdout is reported with the `errno` of its write and not of another call;
  a second `-` is not blamed for the first; nothing is read after stdout broke.
- `ParsesTheGrammar`, `DiagnosticIsPrintable`, `OneLinePerName`, `NameCanBeReadBack`
  (HayasumArgs): the parser finds a reading of the command line if there is one and
  refuses otherwise; what it prints of an argument is printable and cut where it says; no
  name starts a second line; two names never print alike.

`ImplementsStreamSpec` and `IInv` appear in several modules; the invariants behind
the proofs are checked as `IInv` where TLC can afford it.

### Bounds, and why they are enough

- *Scaling by 8* (`Block = 8`, `Round = 4`, `Pair = 2`, `BulkMin = 40`, `Keep = 16`,
  `BufCap = 56`).  All comparisons of the code are between these sizes, sums of
  them and lengths, and the scaled sizes keep every ratio; a pair keeps two
  units, so bytes inside it stay distinguishable.  In exchange
  *every* length of a call is allowed, in every order.  A message of 118
  scaled bytes drains the buffer twice and reaches the fast path from the floor,
  also from a floor that a drain has just left inside the same call.  The sizes of the
  source need no run of their own: the theorems hold for all sizes.
  `haskell` goes to 200, past its direct path.
- `port_streams` also scales `int` to 8 bits (`IndexMax = 127`), which keeps
  `BufCap < IndexMax` and leaves room for a buffered chunk followed by the longest
  one: 127 where lengths are signed, 199 where they are not.  The lengths
  7, 8, 55 and 63 reach every fill level around the floor and the commit; offsets are the
  extremes of the type and 0, 1.
- `OneShotPaths` is not scaled: its constants are literals of the code.  Lengths
  0..511 hold every length of every tier and, in the bulk path, both
  parities of the block count with every remainder modulo 128.  Offsets 0 and 5
  tell an end taken from the array's start from one taken from the input's.
- `RustHayaHasher` has the sizes of the source; its eight lengths of a write have sums
  on, below and above 16, 64 and 320 bytes.
- `ShortInputs` has the lengths and offsets of the source, with bytes of one bit and
  words of eight, shifts being an eighth of the source's.  One byte set (two up to 8
  bytes) makes a pair of inputs differ in up to two (four) bytes, so a byte that is not
  read and a byte that lands on another both show.  TLC also evaluates the laws
  on those words.
- `JsHasher`: pages of 4 cells put the state in the first page, the digest in the
  second and a full chunk in the third, so each call may be the one that grows, from
  one to three pages; 5 bytes are two chunks.  Two hashers and one one-shot caller
  are enough for interference on cells that hold one value at a time.
  `MaxBytes` (10) bounds a hasher's message; two engines suffice for one to be
  old and one current.
- `PyHasher`: two hashers (a copy and its source), two calls at a time, one buffer
  of one byte that may be written at any time and moved once (`MaxMoves`), two bytes absorbed
  (`MaxTotal`).  Interference is between two calls on one buffer or
  one hasher; the theorems drop every bound.
- `Hayasum`: three operands (a failing one among good ones, `-` twice), three reads each.
  `Width` is 3: a write cut inside a line leaves a start of one byte or of two, and the gap may end
  at the newline, of the same line or of a later one.
- `HayasumArgs`: three arguments are an option, its value and an operand or a
  second option; the 35 arguments have one for each way the parser or the seed reader
  looks at a character.  Seeds are of 8 bits, so ranges end within short texts;
  tokens of 5 characters, so quoting meets its limit.

### Fairness

Only `HayaStream` states any: `WF_vars(Step)`, where `Step` is the loop of an
`update` that has been entered.  A C function runs until it returns; it waits for
nothing.  No fairness is assumed of the caller, who may never call again.
Deadlock is checked in every passing run but `short_inputs`, whose computation ends;
the other modules whose work ends (`OneShotPaths`, `Hayasum`, `HayasumArgs`) have a step that says so.

### The divergences

`js/src/index.ts:109` documents `length` as "Number of bytes absorbed so far."
`update` adds the whole argument to `#total` (line 132) before it absorbs the
first chunk, and `memory.grow` may throw in between (`js/src/wasm.ts:83`).  The
bytes are then counted and not absorbed, while digests, of what was
absorbed, stay right (`StatesAreOwn`).  Run `js_length` shows it.

`python/native/_hayahash.c:214` says of `reset()` without a seed "restart with the
one this hasher was built with".  The code restarts with `self->seed`, which an
earlier `reset(seed)` has replaced (line 220).  The docstring at 290, "Keeps the
current seed unless a new one is given", says what the code does.  Run `py_reset` shows it.

## 4. What is proved

`tlapm` checks 15,013 obligations in eight modules.  The theorems about streams hold for every block, round, pair,
floor, capacity and bulk threshold that meet the assumptions, every
set of call lengths and every message length.  The assumptions are those the
header's constants satisfy: `Round = 2 * Pair`, `Block = 2 * Round`,
`BulkMin > Pair` (`WalkAssumption`); `Keep` a positive multiple of `Block`,
`Keep + Block <= BufCap`, `BulkMin <= BufCap` (`StreamAssumption`); and for
Haskell also that `BufCap - Keep` is a multiple of `Block`, which its commit
needs because `absorbBlocks` must come out even (`HaskellAssumption`); for the ports that
`BufCap <= IndexMax` (`PortAssumption`).

- **WalkProofs**: rounding to blocks, runs of bytes, and the key lemma `FinishContinues`:
  lanes that absorbed the first `k` bytes, `k` a multiple of `Block`, finish over
  memory holding the next `l >= Pair` bytes exactly as the one-shot walk
  over all `k + l` does.  This is where the floor earns its place: the last two
  words are read back from the end, and with fewer than `Pair` bytes they would
  come from before the buffer.
- **StreamProofs**, of HayaStream: `Inductive` (`IInv` is inductive), and from it
  `TypeCorrect`, `NothingLost`, `FloorIsKept`, `SplitIndependence`
  (`DigestIsOneShot`), `FastPathEnds` and `Refinement` (`ImplementsStreamSpec`).
- **StreamProofs**, of PortStreams: `PortInductive`, `NoOverflow`, `ReadsStayInside`,
  `RangeCheckExact` (the range check of Java and C# lets through exactly the ranges inside
  the array, for all three integers), `PortRefinement` and, from it,
  `PortSplitIndependence`.  The argument: a value in the range of its type is stored
  as it is (`IndexExact`); everything the loop computes is at most `BufCap` or at
  most what is left of the chunk; only the sum of the header needs more, that the chunk
  leaves room in memory for the state, which holds where lengths are
  unsigned and not where they are signed.
- **HaskellHasherProofs**: `Inductive`, `MemoryIsBounded`, `SplitIndependence` and
  `Refinement` of the same `StreamSpec`.  With the two refinements, the C
  state and the Haskell hasher make the same promise although they never hold the same
  buffer.

- **RustHayaHasherProofs**: `Inductive`, `ConcatenatedWrites` (`DigestIsOneShot`),
  `ShortKeysDoNotAllocate` and `Refinement`, for every capacity and all lengths.  The
  invariant is that the message is in exactly one place, and which place is what
  the emptiness of the heap says.
- **PyHasherProofs**: `Inductive`, `ViewsAreReleased`, `StatesAreGiven`,
  `CallsAreAtomic`, `ImportIsAtomic`, `AnswersAreRight`, for any number of hashers, calls and
  buffers and any contents.  Assumed is only that the markers differ from what they
  mark and that 0 is a seed (`PyAssumption`).
- **OneShotProofs**, of OneShotPaths: `Inductive`, `OneFunction` (`SameWalk`), `NoReadOutside`
  (`ReadsInside`), `NoByteMissed` (`EveryByteRead`) and `EveryLoopAdvances`
  (`LoopsAdvance`), for every length, width and offset in an array, and every kind of build and
  port.  Nothing is assumed but that lengths and offsets are naturals and that no wasm
  build is for a wide target (`PathsAssumption`).
- **OneShotProofs**, of ShortInputs: `PairsInductive` and `ShortDigestsTell` (`NeverMerge`), for
  all words that meet the laws and all inputs of 0..16 bytes.  Each operator gets a lemma
  that it loses nothing, from the laws (`InjTells`, `FmixTells`, `Fmix128Tells`, ...);
  `LoadedTells` shows that two inputs of a length with the same words are equal, one
  length band at a time, which is where the overlapping loads matter; then each
  step of the computation carries the difference on.
- **JsHasherProofs**: `Inductive`, `StatesStayOwn` (`StatesAreOwn`), `ResultsStayRight`
  (`ResultsRight`) and `NeverDetached` (`FailsOnlyWhenRefused`), for any number of hashers,
  engines and bytes, any size of page, state, digest and chunk, and any limit to memory
  (`JsAssumption`).
- **HayasumProofs**: `Inductive`, `ZeroIsSuccess`, `NothingTorn`, `NothingSilent`,
  `NoInheritedFailure` and `NoUselessReading`, one for each property of `Hayasum`, for
  any number of operands, of reads and of bytes in a line and every way an open, a read or a
  write can turn out.  Assumed is that a line and the reads of an operand are at least one
  (`HayasumAssumption`).  And `AnswersAsTyped` (`ParsesTheGrammar`), `DiagnosticsAreSafe`
  (`DiagnosticIsPrintable`), `NamesAddNoLines` (`OneLinePerName`) and `NamesAreReadBack`
  (`NameCanBeReadBack`), for any command lines of any texts over any characters but the
  terminator (`ArgsAssumption`, `TextAssumption`), any range of seeds (`Cap`) and
  any `HAYASUM_TOKMAX` of 3 or more, which the ellipsis needs.

The inductive invariant of HayaStream.  That digests are right says nothing of the
middle of a call, and `NothingLostOrRepeated` alone is not inductive: to show
that `Drain` consumes whole blocks and leaves the floor one must know that `nbuf`
is `BufCap` there; to show that the fast path reads defined bytes, that `nbuf`
is at its floor and the buffer continues the lanes; that the loop never
returns below the floor needs what is still to come:
`pc = "loop" => nbuf >= Keep \/ nbuf + n >= BufCap`.  `IInv` is the conjunction of
the types, `LanesHoldPrefix`, `BufferHoldsNext`, `BytesAddUp` and
`PhaseOK` (what each program point knows).  TLC checks it first, as an invariant
of `stream`.  The step case has one lemma per action.

The inductive invariant of HaskellHasher is simpler, a call being one step: the
lanes hold whole blocks, the buffer follows, together they are the
message, and the buffer is within its bounds.  The work is in `FeedBulkCuts`:
from any fill level the bulk path leaves, `feedBulk` cuts the message at a multiple
of `Block` that leaves 128..191 bytes.

The inductive invariant of PyHasher says what each call knows in each phase.
Its heart is `LockRight`: exactly the call that is looking at the bytes of a view holds the
lock.  Without it `CallRight` would not survive a write to the buffer, and
the digest would not be one of the bytes fetched.  `HashersRight` is stronger
than `StateIsGiven`, because a copy takes both fields and a reset either keeps or replaces
the seed.

In ShortInputs, a difference is at first in the inputs, then in the loaded words
unless only the length differs, then in the products under the same condition,
and from the fold on always in the pair.  `IInv` says this stage by stage; TLC
checked it on the inputs with at most one byte set, since quantifying over the
functions into `Inputs` is slow.

The inductive invariant of OneShotPaths says where in the input a computation is: at the top
of every loop the lanes are those of `b` whole blocks, or of all blocks, folded, and `r` mid
rounds (`InBlocks`, `InRounds`), and the pointer, the count left and the last word are where
these end.  That is one normal form for all spellings, so each path needs only the lemma that
it goes on from there: that two blocks at once are two blocks one by one, that two
mid rounds are, and that 1 to 7 straight-line rounds are the rounds of a loop
(`BlocksMore`, `RoundsMore`); and that `len % 128` and `len % 64` leave the same blocks
done.  All paths then meet in `Ended`.  The
rest is about `Ended` alone.  `ReadsInside` follows from what is in its lanes;
for `EveryByteRead` the input is cut into the part of the blocks, of the rounds, and
of the two tails, the second of which reaches back over what the first left;
for `SameWalk` each part of a lane (terms of the blocks, the merge, the rounds, the wall, the
tail) is shown to be the part that `WalkLanes` reads off the digest record of `Walk`
(`WideIs`, `MidOfWalk`, `WallOfWalk`, `TailOfWalk`), whose bytes the model and the walk count
in different ways.  The proof goes through no induction over blocks: `k` blocks are a function
on `1 .. 2 * k`, and adding one is a fact about that function.

The inductive invariant of JsHasher says nothing of what the scratch cells hold.  Between
two calls they may hold anything, and that the properties hold all the same is
the theorem: each call writes what it reads before it reads it.  What must be known
between calls is that the view the engine holds is of the memory as it is (`MemoryOK`),
since a call that grows memory refreshes it before it returns or throws; that a hasher made on an
engine has its state in JS, whole, and that the cells the state is copied to were reserved when it was
made (`OutPtr <= Size`), so that only the cells behind them, of a digest or of input, can ask for
more; and that an update inside its loop still knows its hasher.  TLC checked this `IInv` on the instance of the run, and
that of OneShotPaths with the counts of blocks and rounds bounded by the longest input.

The inductive invariant of Hayasum relates four accounts that no single step keeps
together: the bytes of the lines owed, what stdio holds of them, what is out, and the diagnostics.
Of the bytes owed, those before `at` in the line being printed and all of the lines before it have been
given to stdio (`Passed`).  While stdout holds, what is out and what is held (`Kept`) are exactly these;
once it is broken they are some of these, still each once and in order, whatever the library
kept (`OutputOwed`; `CutBytes` and `FlushRight` for a write cut anywhere, `PutRight` for a byte
that goes on behind the gap).  `PrintingBegins`, `PrintingGoesOn` and `PrintingEnds` say how what is passed grows.
The reason of the write that failed stays in `errno` until `main` takes it along (`ReasonKept`),
which is why nothing may be opened in between.  Lines owed and diagnostics add up to the
inputs dealt with (`Accounted`).  `FailureIsOwn` needs that no indicator is set when an
operand's reading begins, which is what `clearerr` is for (`LoopHolds`).  TLC checked
this `IInv` on the instance of the run.

The inductive invariant of HayasumArgs is one equation: what the rest of the command line
can be read as, with the seed and width set so far, is what all of it can be read as
(`AtArgument`).  Each action keeps it, because the argument it looks at is read in
one way (`ReadsRight`): that takes the two descriptions of an option, the code's by the
letter, the length of a name and the first `=`, the usage text's by whole arguments, to
agree for any text (`WrittenRight`), and the code's screen and `strtoull` together to
give a seed the number its digits write (`SeedRight`).  The text operators are
recursive over characters.  The library's induction theorems have an operator as a parameter,
which the provers cannot instantiate, but its `WFMin` is about sets: a set with 0 and the
successors of its elements holds every natural number (`SetInduction`).  From that come the
existence of recursive functions (`Recursion`, `PrimitiveRecursion`) and what each returns:
the readings from the last argument back (`ReadingsRight`), digits (`ValueRight`),
the end of a run of characters (`RunRight`), escapes and the reader that undoes
them (`EscapedRight`, `Restored`).  TLC checked `ArgsInv` on the instance of the run.

Left to TLC: `UpdateReturns` alone (liveness is out of the prover's reach, as is `ENABLED`).
No module declares a RECURSIVE operator.

## 5. Plan

1. *Done*: Walk, StreamSpec, HayaStream with proofs, OneShotPaths, HaskellHasher with
   proofs, JsHasher, Hayasum.
2. *Done*: PortStreams with proofs.
3. *Done*: RustHayaHasher with proofs; PyHasher (several handles over states, the buffer
   of an argument, import) with proofs; HayasumText and HayasumArgs; ShortInputs with
   proofs.
4. *Done*: the ports of the one-shot functions, as builds of OneShotPaths; proofs of
   Hayasum.
5. *Done*: proofs of OneShotPaths and of JsHasher.
6. *Done*: proofs of HayasumArgs.
7. Left: a proof that PyHasher's two digests are StreamSpec's.

## 6. Abstractions, named

- Arithmetic on lanes and the long path's finalizers is uninterpreted (see Walk); that of
  short inputs is known by its laws (see ShortInputs).
- A message's bytes are their offsets, so no two are interchangeable.
- `MaxTotal`, `MaxBytes`, `MaxReads`, `MaxOperands`, `Width`, `MaxEngines`, `MaxMoves` bound the runs,
  each in a guard or in `Init`.  In the theorems they are arbitrary.
- `total` is a natural number; the code's wraps at 2^64 bytes.
- The inside of a streaming state in JsHasher is its seed and the bytes absorbed, spread
  over `StateSize` cells so that a partial overwrite tears it; that the C code
  behind the shim makes digests of that is HayaStream's subject.  So is the state in
  PyHasher.
- External, modelled from their use: `ByteString.take`/`drop`, `memory.grow`,
  `fread`, stdio's output buffering, `strtoull`, the buffer protocol and the
  interpreter lock.

## 7. What the checks do not show

Statistical quality, speed, compiler correctness, the three spellings of a word load
for the byte orders (a word is its offset, and in ShortInputs the `Pack` of its bytes), and the constants of the lanes and rotations, which
decide no control.  Test vectors are the right tool for the last two.  The 64-bit digest of
a short input, and any digest of a longer one, may collide; nothing here says how often.

## 8. Not modelled, and why

- *Python copy of the header*: byte for byte the modelled file; PyHasher has the promise
  of what the extension calls of it.
- *MIPS64 assembly*: register allocation and delay slots are its subject; the
  control is that of the one-shot functions.
- *Website, benchmarks, fuzzers, tests*: user interface, or exercise of
  the program rather than part of it.
- *SMHasher3 adapter*: glue of a statistical test suite around a copy of the header.
