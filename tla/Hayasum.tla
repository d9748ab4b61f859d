------------------------------ MODULE Hayasum -------------------------------
(***************************************************************************)
(* The command line tool (cli/hayasum.c) after its arguments are parsed:   *)
(* operands are read one by one through stdio, each one's line is printed  *)
(* byte by byte on a buffered standard output, and the exit status is the  *)
(* account of all of it.                                                   *)
(*                                                                         *)
(* Opens, reads and writes turn out any way the C library allows: a write  *)
(* may stop inside a line, lose what it held and work again for the next   *)
(* byte.  The streaming state (see HayaStream) is the bytes absorbed.      *)
(***************************************************************************)
EXTENDS Integers, Sequences

CONSTANTS
  MaxOperands,  \* bound: operands of a command
  MaxReads,     \* bound: calls of fread for one operand
  Width         \* bound: bytes of a line, the last of them its newline

ASSUME HayasumAssumption ==
  MaxOperands \in Nat /\ MaxReads \in Nat \ {0} /\ Width \in Nat \ {0}

VARIABLES
  operands,    \* argv from o.first on
  pc, i,       \* where main is, and its loop variable
  in,          \* error and end-of-file indicators of the stream being read
  stdin,       \* those of stdin between operands
  absorbed,    \* what the streaming state has absorbed of this operand
  got,         \* history: what fread returned for this operand
  own,         \* history: this operand's own reading failed
  due,         \* history: the lines the command owes its caller
  at,          \* the byte of the line being printed that is next
  obuf, oerr,  \* stdio's buffer of stdout and its error indicator
  written,     \* what reached standard output
  errno,       \* which call left its reason there since it was set to 0
  out_err,     \* main's copy of it
  reported,    \* diagnostics on stderr, each what it is about
  status       \* the exit status so far

reading == << in, stdin, absorbed, got, own, due >>
stdout  == << obuf, oerr, written >>
reasons == << errno, out_err >>
vars    == << operands, pc, i, reading, at, stdout, reasons, reported, status >>

Dash == "-"
File == "file"

(* What a diagnostic is about; for standard output also the reason given,  *)
(* where errno 0 ("none") gives nothing but "I/O error".                   *)
Errnos         == {"none", "read", "write"}
Operand(k)     == << "operand", k >>
Output(reason) == << "stdout", reason >>
Usage          == << "usage" >>

NoFlags == [err |-> FALSE, eof |-> FALSE]

(* What fread can return: all it was asked for, less, or nothing, and the  *)
(* indicators it sets.                                                     *)
FreadResults ==
  {r \in [n : {"all", "some", "none"}, err : BOOLEAN, eof : BOOLEAN] :
     /\ ~(r.err /\ r.eof)
     /\ r.n = "all" => ~r.err /\ ~r.eof}

(* The line of an operand, the help or version text, and a byte of either. *)
Line(k, bytes) == [operand |-> k, bytes |-> bytes]
HelpLine == Line(0, << >>)
Byte(line, k) == [line |-> line, at |-> k]

(* No operand is the same as the operand "-".                              *)
Inputs == IF operands = << >> THEN << Dash >> ELSE operands

-----------------------------------------------------------------------------
Init ==
  /\ operands \in UNION {[1 .. k -> {Dash, File}] : k \in 0 .. MaxOperands}
  /\ pc = "parse" /\ i = 1
  /\ in = NoFlags /\ stdin = NoFlags
  /\ absorbed = << >> /\ got = << >> /\ own = FALSE /\ due = << >>
  /\ at = 1
  /\ obuf = << >> /\ oerr = FALSE /\ written = << >>
  /\ errno = "none" /\ out_err = "none"
  /\ reported = << >>
  /\ status = 0

(* What is buffered is handed to the system.  A write that fails may have  *)
(* got a prefix out, cut at any byte; of the rest the library still holds  *)
(* what it likes: all, nothing, or all but the byte that did not fit.      *)
Flush(bytes, ok) ==
  \/ /\ ok
     /\ written' = written \o bytes /\ obuf' = << >>
     /\ UNCHANGED << oerr, errno >>
  \/ /\ ~ok /\ bytes # << >>
     /\ \E cut \in 0 .. Len(bytes) : \E held \in cut .. Len(bytes) :
          /\ written' = written \o SubSeq(bytes, 1, cut)
          /\ obuf' = SubSeq(bytes, cut + 1, held)
     /\ oerr' = TRUE /\ errno' = "write"

(* A byte given to stdio stays in its buffer, or all goes to the system:   *)
(* whether an earlier call failed does not matter.                         *)
Put(byte) ==
  \/ obuf' = Append(obuf, byte) /\ UNCHANGED << oerr, written, errno >>
  \/ \E ok \in BOOLEAN : Flush(Append(obuf, byte), ok)

(***************************************************************************)
(* main                                                                    *)
(***************************************************************************)
ParseRun ==
  /\ pc = "parse"
  /\ pc' = "open"
  /\ UNCHANGED << operands, i, reading, at, stdout, reasons, reported, status >>

(* --help, --version                                                       *)
ParseHelp ==
  /\ pc = "parse"
  /\ due' = << HelpLine >>
  /\ pc' = "help" /\ at' = 1
  /\ UNCHANGED << operands, i, in, stdin, absorbed, got, own, stdout, reasons,
                  reported, status >>

ParseUsageError ==
  /\ pc = "parse"
  /\ reported' = Append(reported, Usage)
  /\ status' = 2
  /\ pc' = "exited"
  /\ UNCHANGED << operands, i, reading, at, stdout, reasons >>

(* Mutant of Failed: a failure is only reported.                           *)
FailedSilently ==
  /\ reported' = Append(reported, Operand(i))
  /\ errno' = "read"
  /\ UNCHANGED status

(* hayasum_perror with the errno of the open or the read, and              *)
(* hayasum_hash_path returns 0.                                            *)
Failed ==
  /\ reported' = Append(reported, Operand(i))
  /\ errno' = "read"
  /\ status' = 1

(* Mutants of AfterOperand: errno is not taken along; no look at stdout.   *)
AfterOperandForgetful ==
  IF operands # << >> /\ oerr'
  THEN pc' = "final" /\ UNCHANGED << i, out_err >>
  ELSE pc' = "next" /\ i' = i + 1 /\ UNCHANGED out_err

AfterOperandRegardless == pc' = "next" /\ i' = i + 1 /\ UNCHANGED out_err

(* The loop of main goes on unless stdout is broken, and then takes errno  *)
(* along.  The call for no operand is outside the loop.                    *)
AfterOperand ==
  IF operands # << >> /\ oerr'
  THEN pc' = "final" /\ out_err' = errno' /\ UNCHANGED i
  ELSE pc' = "next" /\ i' = i + 1 /\ UNCHANGED out_err

NextOperand ==
  /\ pc = "next"
  /\ pc' = IF i > Len(Inputs) THEN "final" ELSE "open"
  /\ UNCHANGED << operands, i, reading, at, stdout, reasons, reported, status >>

(***************************************************************************)
(* hayasum_hash_path and hayasum_hash_stream                               *)
(***************************************************************************)

(* Mutant of FlagsAtStart: no clearerr(stdin).                             *)
FlagsAsLeft(path) == IF path = Dash THEN stdin ELSE NoFlags

(* clearerr(stdin) for "-"; a stream just opened has no indicator set.     *)
FlagsAtStart(path) == NoFlags

Open ==
  /\ pc = "open"
  /\ in' = FlagsAtStart(Inputs[i])
  /\ absorbed' = << >> /\ got' = << >> /\ own' = FALSE
  /\ errno' = "none"
  /\ pc' = "read"
  /\ UNCHANGED << operands, i, stdin, due, at, stdout, out_err, reported, status >>

OpenFails ==
  /\ pc = "open" /\ Inputs[i] = File
  /\ Failed
  /\ own' = TRUE
  /\ UNCHANGED stdout
  /\ AfterOperand
  /\ UNCHANGED << operands, in, stdin, absorbed, got, due, at >>

(* The part of an input that one fread returns.                            *)
Piece == << i, Len(got) + 1 >>

(* n bytes of the buffer go to the state before anything is decided, those *)
(* of a read that failed too.  A stream that has ended stays at its end.   *)
Fread(r) ==
  /\ pc = "read"
  /\ in.eof => r = [n |-> "none", err |-> FALSE, eof |-> TRUE]
  /\ in' = [err |-> in.err \/ r.err, eof |-> in.eof \/ r.eof]
  /\ got' = IF r.n = "none" THEN got ELSE Append(got, Piece)
  /\ absorbed' = IF r.n = "none" THEN absorbed ELSE Append(absorbed, Piece)

(* Mutant of MoreToRead: a short read ends the input.                      *)
MoreToReadFull(r) == r.n = "all"

(* A full buffer, or a short one with no reason given.                     *)
MoreToRead(r) == r.n = "all" \/ (r.n = "some" /\ ~in'.err /\ ~in'.eof)

ReadOn ==
  /\ \E r \in FreadResults :
       /\ Fread(r) /\ MoreToRead(r)
       /\ Len(got') < MaxReads
  /\ UNCHANGED << operands, pc, i, stdin, own, due, at, stdout, reasons, reported, status >>

(* The stream leaves its indicators behind if it is stdin.                 *)
Leave ==
  stdin' = IF Inputs[i] = Dash THEN in' ELSE stdin

(* ferror(in), or nothing read and neither indicator set (EIO).            *)
ReadFails ==
  /\ \E r \in FreadResults :
       /\ Fread(r) /\ ~MoreToRead(r)
       /\ in'.err \/ (r.n = "none" /\ ~in'.eof)
       /\ own' = (r.err \/ (r.n = "none" /\ ~r.eof))
  /\ Leave
  /\ Failed
  /\ UNCHANGED stdout
  /\ AfterOperand
  /\ UNCHANGED << operands, due, at >>

(* End of file: the digest of what was absorbed is printed, after fclose,  *)
(* which like a read that worked may leave anything in errno.              *)
ReadEnds ==
  /\ \E r \in FreadResults :
       /\ Fread(r) /\ ~MoreToRead(r)
       /\ ~in'.err /\ (r.n = "none" => in'.eof)
       /\ due' = IF in'.eof THEN Append(due, Line(i, got')) ELSE due
  /\ Leave
  /\ errno' \in {"none", "read"}
  /\ pc' = "print" /\ at' = 1
  /\ UNCHANGED << operands, i, own, stdout, out_err, reported, status >>

(***************************************************************************)
(* hayasum_print_digest, hayasum_usage                                     *)
(***************************************************************************)
Printing == IF pc = "help" THEN HelpLine ELSE Line(i, absorbed)

(* The calls of stdio that print a line, of one byte or more each, go on   *)
(* after one that failed.                                                  *)
PrintByte ==
  /\ pc \in {"help", "print"} /\ at <= Width
  /\ Put(Byte(Printing, at))
  /\ at' = at + 1
  /\ UNCHANGED << operands, pc, i, reading, out_err, reported, status >>

HelpEnds ==
  /\ pc = "help" /\ at > Width
  /\ pc' = "final"
  /\ UNCHANGED << operands, i, reading, at, stdout, reasons, reported, status >>

PrintEnds ==
  /\ pc = "print" /\ at > Width
  /\ UNCHANGED << stdout, errno >>
  /\ AfterOperand
  /\ UNCHANGED << operands, reading, at, reported, status >>

(***************************************************************************)
(* hayasum_stdout_failed, and main returns.                                *)
(***************************************************************************)

(* Mutant of StdoutFailed: no ferror(stdout).                              *)
FlushFailed(ok) == ~ok

(* fflush tells of what it did itself, the indicator of any earlier call.  *)
StdoutFailed(ok) == ~ok \/ oerr'

(* The reason of a flush that fails, or else the one brought along.        *)
Carried(ok) == IF ok THEN out_err ELSE "write"

Final ==
  /\ pc = "final"
  /\ \E ok \in BOOLEAN :
       /\ Flush(obuf, ok)
       /\ IF StdoutFailed(ok)
          THEN reported' = Append(reported, Output(Carried(ok))) /\ status' = 1
          ELSE UNCHANGED << reported, status >>
  /\ pc' = "exited"
  /\ UNCHANGED << operands, i, reading, at, out_err >>

Exited == pc = "exited" /\ UNCHANGED vars

Next ==
  \/ ParseRun \/ ParseHelp \/ ParseUsageError
  \/ NextOperand
  \/ Open \/ OpenFails
  \/ ReadOn \/ ReadFails \/ ReadEnds
  \/ PrintByte \/ HelpEnds \/ PrintEnds
  \/ Final
  \/ Exited

Spec == Init /\ [][Next]_vars

(***************************************************************************)
(* Properties.                                                             *)
(***************************************************************************)
Elements(s) == {s[n] : n \in 1 .. Len(s)}

(* The bytes of the lines owed, and the order they are owed in.            *)
Owed == {Byte(due[m], k) : m \in 1 .. Len(due), k \in 1 .. Width}

Precedes(x, y) ==
  \/ x.line.operand < y.line.operand
  \/ x.line = y.line /\ x.at < y.at

InOrder(s) == \A m, n \in 1 .. Len(s) : m < n => Precedes(s[m], s[n])

(* README.md: exit status 0 "on success"; "One input always produces       *)
(* exactly one output line"; a digest "that fails to reach stdout ... exits*)
(* 1 rather than being dropped silently".  Status 0 says that every input  *)
(* was read to its end and the line of each, over all of its bytes, is     *)
(* out to its last byte, in order.                                         *)
ZeroMeansDelivered ==
  pc = "exited" /\ status = 0 =>
    /\ Elements(written) = Owed /\ InOrder(written)
    /\ due = << HelpLine >> \/ Len(due) = Len(Inputs)

(* hayasum.c: "Refuse to publish a digest over a possibly truncated read"  *)
(* and "Without this a full disk ... drops digest lines and still exits 0".*)
(* Every byte on standard output, at any time, is of the line of an input  *)
(* that was read to its end, over all of it, none comes twice or out of    *)
(* order; and if at exit a byte of such a line is missing, so that the     *)
(* line is torn, run into another or not there, the last diagnostic says   *)
(* that standard output failed and the status is 1, whatever else failed.  *)
TornIsTold ==
  /\ Elements(written) \subseteq Owed /\ InOrder(written)
  /\ pc = "exited" /\ Elements(written) # Owed =>
       status = 1 /\ \E reason \in Errnos : reported[Len(reported)] = Output(reason)

(* Nothing fails in silence and nothing is reported that did not: at exit  *)
(* there is a diagnostic if and only if the status is not 0, and while     *)
(* stdout holds each input has either its line or its diagnostic, one bad  *)
(* input among good ones notwithstanding.  A broken stdout comes last, and *)
(* never with the errno of another call: it is the one of the write that   *)
(* failed, with every operand on the command line ("carried is the errno   *)
(* captured when the failure was first noticed, or 0").                    *)
FailuresReported ==
  pc = "exited" =>
    /\ status # 0 <=> reported # << >>
    /\ oerr => \/ reported[Len(reported)] = Output("write")
               \/ /\ operands = << >> \/ due = << HelpLine >>
                  /\ reported[Len(reported)] = Output("none")
    /\ reported # << Usage >> /\ due # << HelpLine >> /\ ~oerr =>
         Len(due) + Len(reported) = Len(Inputs)

(* hayasum.c: 'A second "-" must not re-report the first one's error'.  An *)
(* operand is reported only for what happened while it was read itself.    *)
FailureIsOwn ==
  [][ reported' # reported /\ pc \in {"open", "read"} => own' ]_vars

(* hayasum.c: once stdout is broken, "stop rather than reading every       *)
(* remaining file".                                                        *)
StopsWhenBroken == [][ pc' = "read" /\ pc = "open" => ~oerr ]_vars
(***************************************************************************)
(* The inductive invariant (see HayasumProofs).                            *)
(***************************************************************************)
Pieces      == Seq(Nat \X Nat)
Lines       == [operand : Nat, bytes : Pieces]
Bytes       == [line : Lines, at : 1 .. Width]
Diagnostics == ({"operand"} \X Nat) \cup ({"stdout"} \X Errnos) \cup {Usage}
Indicators  == [err : BOOLEAN, eof : BOOLEAN]

TypeOK ==
  /\ operands \in Seq({Dash, File})
  /\ pc \in {"parse", "open", "read", "help", "print", "next", "final", "exited"}
  /\ i \in Nat \ {0}
  /\ in \in Indicators /\ stdin \in Indicators
  /\ absorbed \in Pieces /\ got \in Pieces
  /\ own \in BOOLEAN
  /\ due \in Seq(Lines)
  /\ at \in 1 .. Width + 1
  /\ obuf \in Seq(Bytes) /\ written \in Seq(Bytes) /\ oerr \in BOOLEAN
  /\ errno \in Errnos /\ out_err \in Errnos
  /\ reported \in Seq(Diagnostics)
  /\ status \in 0 .. 2

(* The loop reads on only while stdout holds.                              *)
LoopHolds ==
  /\ pc = "parse" => i = 1 /\ ~oerr
  /\ pc \in {"open", "read"} => i <= Len(Inputs) /\ ~oerr
  /\ pc = "print" => i <= Len(Inputs)
  /\ pc = "next" => i <= Len(Inputs) + 1 /\ (oerr => i = Len(Inputs) + 1 /\ operands = << >>)
  /\ pc = "read" => in = NoFlags /\ absorbed = got

(* The lines owed are of operands done with, in their order; the one being *)
(* printed is the last.                                                    *)
DueInOrder ==
  /\ \A m, n \in 1 .. Len(due) : m < n => due[m].operand < due[n].operand
  /\ pc \in {"parse", "open", "read", "next"} =>
       \A m \in 1 .. Len(due) : due[m].operand < i
  /\ pc = "print" => \A m \in 1 .. Len(due) : due[m].operand < i + 1
  /\ pc \in {"help", "print"} => Len(due) > 0 /\ due[Len(due)] = Printing
  /\ pc = "help" => due = << HelpLine >>

(* What of the lines owed has been given to stdio.                         *)
Remaining(x) == pc \in {"help", "print"} /\ x.line = Printing /\ x.at >= at
Passed == {x \in Owed : ~Remaining(x)}

(* What is out and what stdio still holds are bytes passed to it, in their *)
(* order, and all of them while stdout holds.                              *)
Kept == written \o obuf

OutputOwed ==
  /\ InOrder(Kept)
  /\ Elements(Kept) \subseteq Passed
  /\ ~oerr => Elements(Kept) = Passed
  /\ pc = "exited" /\ ~oerr => obuf = << >>

(* The reason of a failed write is there until it is given.                *)
ReasonKept ==
  /\ pc \in {"help", "print", "next"} /\ oerr => errno = "write"
  /\ out_err \in {"none", "write"}
  /\ pc = "final" /\ oerr => \/ out_err = "write"
                             \/ operands = << >> \/ due = << HelpLine >>

(* How many inputs have been dealt with.                                   *)
Handled ==
  IF pc \in {"final", "exited"} THEN Len(Inputs)
  ELSE IF pc = "print" THEN i ELSE i - 1

(* Each of them has its line or its diagnostic.                            *)
Accounted ==
  \/ pc = "exited" /\ reported = << Usage >> /\ due = << >> /\ status = 2
  \/ pc \in {"help", "final", "exited"} /\ due = << HelpLine >>
  \/ ~oerr => Len(due) + Len(reported) = Handled

(* What a broken stdout is reported as.                                    *)
ToldOfStdout ==
  /\ reported # << >> /\ status = 1
  /\ \/ reported[Len(reported)] = Output("write")
     \/ /\ operands = << >> \/ due = << HelpLine >>
        /\ reported[Len(reported)] = Output("none")

StatusTells ==
  /\ status # 0 <=> reported # << >>
  /\ pc = "exited" /\ oerr => ToldOfStdout

IInv ==
  /\ TypeOK /\ LoopHolds /\ DueInOrder
  /\ OutputOwed /\ ReasonKept
  /\ Accounted /\ StatusTells
=============================================================================
