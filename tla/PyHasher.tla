------------------------------ MODULE PyHasher ------------------------------
(***************************************************************************)
(* The Python extension (python/native/_hayahash.c): hashers as objects in *)
(* memory, and the buffers of other objects that calls read.               *)
(*                                                                         *)
(* C code runs with the interpreter lock and nothing runs beside it.  Only *)
(* PyObject_GetBuffer and PyBuffer_Release run code of the exporter, which *)
(* may be Python: other threads, and the exporter itself, can call the     *)
(* module and change buffers there.                                        *)
(*                                                                         *)
(* The state inside a hasher is its promise, which HayaStream proves of    *)
(* the header the extension compiles: the seed and the bytes absorbed.     *)
(***************************************************************************)
EXTENDS Walk

CONSTANTS
  Objects,   \* places in memory where a Hasher may be
  Callers,   \* threads, or nested calls of one
  Buffers,   \* objects that export a buffer
  Contents,  \* what a buffer may hold: sequences of bytes
  Seeds,     \* integers that fit 64 bits
  MaxTotal,  \* bound: bytes absorbed by a hasher
  MaxMoves,  \* bound: reallocations of a buffer
  NoSeed,    \* the seed argument is left out or None
  BadSeed,   \* it is no integer, or one that does not fit
  Free,      \* nobody holds the interpreter lock in C code
  NoObject,  \* a call on no hasher
  NoBuffer   \* a call that reads no buffer

ASSUME PyAssumption ==
  /\ 0 \in Seeds /\ Contents \subseteq Seq(Nat)
  /\ MaxTotal \in Nat /\ MaxMoves \in Nat
  /\ NoSeed \notin Seeds /\ BadSeed \notin Seeds /\ NoSeed # BadSeed
  /\ Free \notin Callers
  /\ NoObject \notin Objects /\ NoBuffer \notin Buffers

VARIABLES
  import, typeRefs, modRefs,   \* module initialisation, references it holds
  mem, live,                   \* HasherObject at each place; places in use
  calls, gil,                  \* calls in progress; who runs C code
  content, where, exports,     \* of a buffer: bytes, address, views handed out
  given, did                   \* history: bytes update calls of a hasher were
                               \* given; calls that have written a hasher

module  == << import, typeRefs, modRefs >>
hashers == << mem, live >>
memory  == << content, where, exports >>
history == << given, did >>
vars    == << module, hashers, calls, gil, memory, history >>

(***************************************************************************)
(* The header, as the extension compiles it.                               *)
(***************************************************************************)
StInit(s)         == [seed |-> s, msg |-> << >>]
StUpdate(st, new) == [st EXCEPT !.msg = @ \o new]

Digest64(st)  == OneShot(64, st.seed, st.msg)
Digest128(st) == OneShot(128, st.seed, st.msg)

Hash64(seed, bytes)  == OneShot(64, seed, bytes)
Hash128(seed, bytes) == OneShot(128, seed, bytes)

(***************************************************************************)
(* Calls.                                                                  *)
(***************************************************************************)

(* Of a call that reads a buffer, view is the address GetBuffer gave it    *)
(* and got is history: the bytes that were there then.                     *)
Record(op, o, b, w, s, phase, answer) ==
  [op |-> op, obj |-> o, buf |-> b, width |-> w, seed |-> s, phase |-> phase,
   view |-> 0, got |-> << >>, fits |-> TRUE, answer |-> answer, digest |-> {}]

Call(op, o, b, w, s) == Record(op, o, b, w, s, "fetch", "pending")

(* A call that has ended, with "none" (Python's None), an object, a digest *)
(* or an exception ("raised").                                             *)
Ended(answer) == Record("ended", NoObject, NoBuffer, 64, 0, "done", answer)

Holds(c) == calls[c].phase \in {"view", "release"}

(* The bytes a view shows: what is in the buffer, unless its memory has    *)
(* moved on.                                                               *)
Seen(c) ==
  LET b == calls[c].buf
  IN  IF calls[c].view = where[b] THEN content[b] ELSE << Outside >>

(* c is about to call, while nobody is in C code.                          *)
MayCall(c) == import = "loaded" /\ gil = Free /\ calls[c].phase = "done"

Sets(c, call) == calls' = [calls EXCEPT ![c] = call]

(* A call that raises before it has written anything.                      *)
Raises(c) ==
  /\ Sets(c, Ended("raised"))
  /\ did' = [did EXCEPT ![c] = FALSE]
  /\ UNCHANGED << hashers, gil, memory, given >>

(* c writes the object at o, and the history of o with it.                 *)
Writes(c, o, struct, g) ==
  /\ mem' = [mem EXCEPT ![o] = struct]
  /\ given' = [given EXCEPT ![o] = g]
  /\ did' = [did EXCEPT ![c] = TRUE]

(* parse_seed; Python integers that do not fit raise.                      *)
SeedArgs == Seeds \cup {NoSeed, BadSeed}
Seed(arg, default) == IF arg = NoSeed THEN default ELSE arg

-----------------------------------------------------------------------------
(* What memory that no object is in may hold.                              *)
Leftovers == {[st |-> StInit(s), seed |-> t] : s, t \in Seeds}

Init ==
  /\ import = "absent" /\ typeRefs = 1 /\ modRefs = 0
  /\ mem \in [Objects -> Leftovers]
  /\ live = {}
  /\ calls = [c \in Callers |-> Ended("pending")]
  /\ gil = Free
  /\ content \in [Buffers -> Contents]
  /\ where = [b \in Buffers |-> 0]
  /\ exports = [b \in Buffers |-> {}]
  /\ given = [o \in Objects |-> << >>]
  /\ did = [c \in Callers |-> FALSE]

(***************************************************************************)
(* PyInit__hayahash.  PyType_Ready, PyModule_Create and PyModule_AddObject *)
(* may each fail, and a failed import may be tried again.  AddObject takes *)
(* over the reference it is given only when it succeeds.                   *)
(***************************************************************************)
Others == << hashers, calls, gil, memory, history >>

ImportCreate ==
  /\ import = "absent"
  /\ modRefs' = modRefs + 1
  /\ typeRefs' = typeRefs + 1
  /\ import' = "created"
  /\ UNCHANGED Others

ImportAdd ==
  /\ import = "created"
  /\ import' = "loaded"
  /\ UNCHANGED << typeRefs, modRefs, Others >>

(* Mutant of ImportAddFails: the reference to the type is not given back.  *)
ImportAddFailsLeaks ==
  /\ import = "created"
  /\ modRefs' = modRefs - 1
  /\ import' = "absent"
  /\ UNCHANGED << typeRefs, Others >>

ImportAddFails ==
  /\ import = "created"
  /\ typeRefs' = typeRefs - 1
  /\ modRefs' = modRefs - 1
  /\ import' = "absent"
  /\ UNCHANGED Others

(***************************************************************************)
(* Calls that read no buffer run from start to end with the lock.          *)
(***************************************************************************)

(* Hasher(seed): the argument, the allocation, then the fields.            *)
New(c, o, arg) ==
  /\ MayCall(c) /\ o \notin live
  /\ \/ Raises(c)
     \/ /\ arg # BadSeed
        /\ LET s == Seed(arg, 0)
           IN  Writes(c, o, [st |-> StInit(s), seed |-> s], << >>)
        /\ live' = live \cup {o}
        /\ Sets(c, Ended("object"))
        /\ UNCHANGED << gil, memory >>
  /\ UNCHANGED module

(* Mutant of Copied: the field beside the state is left as the memory was. *)
CopiedWithoutSeed(o, q) == [mem[q] EXCEPT !.st = mem[o].st]

(* PyObject_New does not clear memory: both fields are assigned.           *)
Copied(o, q) == [mem[q] EXCEPT !.st = mem[o].st, !.seed = mem[o].seed]

Copy(c, o, q) ==
  /\ MayCall(c) /\ o \in live /\ q \notin live
  /\ \/ Raises(c)
     \/ /\ Writes(c, q, Copied(o, q), given[o])
        /\ live' = live \cup {q}
        /\ Sets(c, Ended("object"))
        /\ UNCHANGED << gil, memory >>
  /\ UNCHANGED module

(* reset(seed): without one, the seed the object holds.                    *)
Reset(c, o, arg) ==
  /\ MayCall(c) /\ o \in live
  /\ \/ arg = BadSeed /\ Raises(c)
     \/ /\ arg # BadSeed
        /\ LET s == Seed(arg, mem[o].seed)
           IN  Writes(c, o, [st |-> StInit(s), seed |-> s], << >>)
        /\ Sets(c, Ended("none"))
        /\ UNCHANGED << live, gil, memory >>
  /\ UNCHANGED module

(* digest64(), digest128(): the state is only read; the result, Digest64   *)
(* or Digest128 of it, may fail to be allocated.                           *)
Digest(c, o) ==
  /\ MayCall(c) /\ o \in live
  /\ \/ Raises(c)
     \/ /\ Sets(c, Ended("digest"))
        /\ did' = [did EXCEPT ![c] = FALSE]
        /\ UNCHANGED << hashers, gil, memory, given >>
  /\ UNCHANGED module

(* The last reference is dropped; a call in progress holds one.            *)
Dealloc(o) ==
  /\ gil = Free /\ o \in live
  /\ \A c \in Callers : calls[c].phase # "done" => calls[c].obj # o
  /\ live' = live \ {o}
  /\ \E left \in Leftovers : mem' = [mem EXCEPT ![o] = left]
  /\ given' = [given EXCEPT ![o] = << >>]
  /\ UNCHANGED << module, calls, gil, memory, did >>

(***************************************************************************)
(* Calls that read a buffer.                                               *)
(***************************************************************************)
Start(c, call) ==
  /\ Sets(c, call)
  /\ did' = [did EXCEPT ![c] = FALSE]
  /\ UNCHANGED << module, hashers, gil, memory, given >>

(* Hasher.update goes straight to PyObject_GetBuffer.                      *)
StartUpdate(c, o, b) ==
  /\ MayCall(c) /\ o \in live
  /\ Start(c, Call("update", o, b, 64, 0))

(* hayahash64 and hayahash128 look at the seed first.                      *)
StartHash(c, b, w, arg) ==
  /\ MayCall(c)
  /\ IF arg = BadSeed
     THEN Raises(c) /\ UNCHANGED module
     ELSE Start(c, Call("hash", NoObject, b, w, Seed(arg, 0)))

FetchFails(c) ==
  /\ gil = Free /\ calls[c].phase = "fetch"
  /\ Sets(c, Ended("raised"))
  /\ UNCHANGED << module, hashers, gil, memory, history >>

(* The bound MaxTotal.                                                     *)
Within(c) ==
  calls[c].op = "update" =>
    Len(mem[calls[c].obj].st.msg) + Len(content[calls[c].buf]) <= MaxTotal

(* Mutant of Fetched: the lock is given up around the use of the bytes.    *)
FetchedUnlocked(c) ==
  /\ gil = Free /\ calls[c].phase = "fetch"
  /\ Within(c)
  /\ LET b == calls[c].buf
     IN  /\ exports' = [exports EXCEPT ![b] = @ \cup {c}]
         /\ \E fits \in BOOLEAN :
              Sets(c, [calls[c] EXCEPT !.phase = "view", !.view = where[b],
                                       !.got = content[b], !.fits = fits])
  /\ UNCHANGED << gil, module, hashers, content, where, history >>

(* The exporter returns with a view, C-contiguous or not.                  *)
Fetched(c) ==
  /\ gil = Free /\ calls[c].phase = "fetch"
  /\ Within(c)
  /\ LET b == calls[c].buf
     IN  /\ exports' = [exports EXCEPT ![b] = @ \cup {c}]
         /\ \E fits \in BOOLEAN :
              Sets(c, [calls[c] EXCEPT !.phase = "view", !.view = where[b],
                                       !.got = content[b], !.fits = fits])
  /\ gil' = c
  /\ UNCHANGED << module, hashers, content, where, history >>

(* PyBuffer_Release follows, and with it code of the exporter; answer is   *)
(* what the call will end with.                                            *)
Releases(c, answer, digest) ==
  /\ Sets(c, [calls[c] EXCEPT !.phase = "release", !.answer = answer,
                              !.digest = digest])
  /\ gil' = Free
  /\ UNCHANGED << module, live, memory >>

(* Mutant of Rejects: the view is not released on this path.               *)
RejectsAtOnce(c) ==
  /\ calls[c].phase = "view" /\ ~calls[c].fits
  /\ Sets(c, Ended("raised"))
  /\ gil' = Free
  /\ UNCHANGED << module, memory, hashers, history >>

(* Not C-contiguous: released, and a ValueError.                           *)
Rejects(c) ==
  /\ calls[c].phase = "view" /\ ~calls[c].fits
  /\ Releases(c, "raised", {})
  /\ UNCHANGED << mem, history >>

(* Mutant of Accepted: contiguity is not looked at before the state.       *)
AcceptedAny(c) == TRUE

Accepted(c) == calls[c].fits

(* hayahash64_update over the bytes of the view.                           *)
Absorbs(c) ==
  /\ calls[c].phase = "view" /\ calls[c].op = "update" /\ Accepted(c)
  /\ LET o == calls[c].obj
     IN  Writes(c, o, [mem[o] EXCEPT !.st = StUpdate(@, Seen(c))],
                given[o] \o calls[c].got)
  /\ Releases(c, IF calls[c].fits THEN "none" ELSE "raised", {})

(* hayahash64 or hayahash128 over them.                                    *)
Hashes(c) ==
  /\ calls[c].phase = "view" /\ calls[c].op = "hash" /\ Accepted(c)
  /\ Releases(c, "digest", {IF calls[c].width = 64 THEN Hash64(calls[c].seed, Seen(c))
                                                  ELSE Hash128(calls[c].seed, Seen(c))})
  /\ UNCHANGED << mem, history >>

(* The release is through; the result of a hash may fail to be allocated.  *)
Released(c) ==
  /\ gil = Free /\ calls[c].phase = "release"
  /\ exports' = [exports EXCEPT ![calls[c].buf] = @ \ {c}]
  /\ \/ Sets(c, Ended(calls[c].answer))
     \/ calls[c].op = "hash" /\ Sets(c, Ended("raised"))
  /\ UNCHANGED << module, hashers, gil, content, where, history >>

(***************************************************************************)
(* Python code.  A bytearray may be written while views of it are out, but *)
(* not resized.                                                            *)
(***************************************************************************)
Write(b, bytes) ==
  /\ gil = Free /\ Len(bytes) = Len(content[b])
  /\ content' = [content EXCEPT ![b] = bytes]
  /\ UNCHANGED << module, hashers, calls, gil, where, exports, history >>

Resize(b, bytes) ==
  /\ gil = Free /\ exports[b] = {} /\ where[b] < MaxMoves
  /\ content' = [content EXCEPT ![b] = bytes]
  /\ where' = [where EXCEPT ![b] = @ + 1]
  /\ UNCHANGED << module, hashers, calls, gil, exports, history >>

-----------------------------------------------------------------------------
Step(c) ==
  \/ \E o \in Objects, arg \in SeedArgs : New(c, o, arg) \/ Reset(c, o, arg)
  \/ \E o, q \in Objects : Copy(c, o, q)
  \/ \E o \in Objects : Digest(c, o)
  \/ \E o \in Objects, b \in Buffers : StartUpdate(c, o, b)
  \/ \E b \in Buffers, w \in Widths, arg \in SeedArgs : StartHash(c, b, w, arg)
  \/ FetchFails(c)
  \/ Fetched(c)
  \/ Rejects(c)
  \/ Absorbs(c)
  \/ Hashes(c)
  \/ Released(c)

Next ==
  \/ ImportCreate \/ ImportAdd \/ ImportAddFails
  \/ \E c \in Callers : Step(c)
  \/ \E o \in Objects : Dealloc(o)
  \/ \E b \in Buffers, bytes \in Contents : Write(b, bytes) \/ Resize(b, bytes)

Spec == Init /\ [][Next]_vars

(***************************************************************************)
(* Properties.                                                             *)
(***************************************************************************)

(* Every view is given back, on every path out of every call, and none     *)
(* before the call is done with it: the views out on a buffer are those of *)
(* the calls that have fetched one and not ended.  A view that is never    *)
(* released leaves a bytearray that can never be resized again; one in use *)
(* is of the memory the buffer has now.                                    *)
ViewsAccounted ==
  \A b \in Buffers :
    /\ exports[b] = {c \in Callers : Holds(c) /\ calls[c].buf = b}
    /\ \A c \in exports[b] : calls[c].view = where[b]

(* _hayahash.c: "The digest equals hayahash64()/hayahash128() of the       *)
(* concatenation of every update(), for any split"; test_stream.py:        *)
(* test_copy_is_independent, test_reset.  What any hasher that exists would*)
(* answer now is the one-shot hash, with the seed it reports, of the bytes *)
(* its update calls were given when their buffers were fetched, in order,  *)
(* since it or what it was copied from was last started.                   *)
StateIsGiven ==
  \A o \in live :
    /\ Digest64(mem[o].st) = OneShot(64, mem[o].seed, given[o])
    /\ Digest128(mem[o].st) = OneShot(128, mem[o].seed, given[o])

(* A call that raises has changed no hasher, and one that returns None or  *)
(* an object has changed the one it is about, whatever other calls ran     *)
(* while the exporter's code did.                                          *)
AllOrNothing ==
  \A c \in Callers :
    /\ calls[c].answer = "raised" => ~did[c]
    /\ calls[c].answer \in {"none", "object"} => did[c]

(* A failed import holds nothing, however often it is tried, and one that  *)
(* succeeds holds the module and the type once.                            *)
ImportAllOrNothing ==
  /\ import = "absent" => typeRefs = 1 /\ modRefs = 0
  /\ import = "loaded" => typeRefs = 2 /\ modRefs = 1

(* hayahash64() and hayahash128() answer for the bytes that were in the    *)
(* buffer when it was fetched, whatever is written to it before and after. *)
AnswersRight ==
  \A c \in Callers :
    calls[c].op = "hash" /\ calls[c].phase = "release" =>
      calls[c].digest \subseteq {OneShot(calls[c].width, calls[c].seed, calls[c].got)}

(***************************************************************************)
(* The inductive invariant, in parts.                                      *)
(***************************************************************************)
ImportRight ==
  \/ import = "absent" /\ typeRefs = 1 /\ modRefs = 0
  \/ import \in {"created", "loaded"} /\ typeRefs = 2 /\ modRefs = 1

Structs == [st : [seed : Seeds, msg : Seq(Nat)], seed : Seeds]

Shapes ==
  /\ live \subseteq Objects /\ mem \in [Objects -> Structs]
  /\ given \in [Objects -> Seq(Nat)] /\ did \in [Callers -> BOOLEAN]
  /\ content \in [Buffers -> Seq(Nat)] /\ where \in [Buffers -> Nat]
  /\ exports \in [Buffers -> SUBSET Callers]
  /\ calls = [c \in Callers |-> calls[c]]

(* The fields of a call, by name.                                          *)
IsCall(call) ==
  call = [op |-> call.op, obj |-> call.obj, buf |-> call.buf, width |-> call.width,
          seed |-> call.seed, phase |-> call.phase, view |-> call.view,
          got |-> call.got, fits |-> call.fits, answer |-> call.answer,
          digest |-> call.digest]

(* Who is looking at the bytes of a view holds the lock.                   *)
LockRight ==
  /\ gil \in Callers \cup {Free}
  /\ \A c \in Callers : calls[c].phase = "view" <=> gil = c

(* A hasher holds what it was given and one seed, twice.                   *)
HashersRight ==
  \A o \in live : mem[o].st = [seed |-> mem[o].seed, msg |-> given[o]]

(* What a call knows in each phase.                                        *)
CallRight(c) ==
  LET call == calls[c]
  IN  /\ IsCall(call)
      /\ call.phase \in {"fetch", "view", "release", "done"}
      /\ call.phase # "done" =>
           /\ call.op \in {"update", "hash"}
           /\ call.buf \in Buffers /\ call.width \in Widths
           /\ call.op = "update" => call.obj \in live
      /\ call.phase \in {"fetch", "view"} => call.answer = "pending" /\ ~did[c]
      /\ call.phase = "view" => call.got = content[call.buf]
      /\ call.phase = "release" /\ call.op = "hash" =>
           /\ ~did[c]
           /\ call.digest \subseteq {OneShot(call.width, call.seed, call.got)}
      /\ call.answer = "raised" => ~did[c]
      /\ call.answer \in {"none", "object"} => did[c]

CallsRight == \A c \in Callers : CallRight(c)

IInv ==
  ImportRight /\ Shapes /\ ViewsAccounted /\ LockRight /\ HashersRight /\ CallsRight
=============================================================================
