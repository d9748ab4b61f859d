---------------------------- MODULE HayasumArgs -----------------------------
(***************************************************************************)
(* hayasum_parse_args of cli/hayasum.c, one iteration of its loop a step:  *)
(* options before the first operand, their values attached or in the next  *)
(* argument, and what ends the options.  The operands that are left become *)
(* the names in output lines and diagnostics.                              *)
(*                                                                         *)
(* The characters of a long option's name are one symbol here; the texts   *)
(* of values are those of HayasumText.                                     *)
(***************************************************************************)
EXTENDS HayasumText

CONSTANT CommandLines  \* sequences of arguments after the program's name

ASSUME ArgsAssumption == CommandLines \subseteq Seq(Texts)

VARIABLES
  argv,        \* the arguments: argv[k] is the code's
  argi,        \* the loop variable i
  seed, bits,  \* the fields of *o
  first,
  outcome,     \* "parsing", or what the parser returned
  err          \* what the diagnostic quotes, as a set

argVars == << argv, argi, seed, bits, first, outcome, err >>

argc == Len(argv) + 1
Arg  == argv[argi]

LongName(s) == SubSeq(s, 1, Run(s, 1, Chars \ {"="}) - 1)

(* The letter of an option, from its long name or its first letter.        *)
LongOption(name) ==
  CASE name = << "help" >>    -> "h"
    [] name = << "version" >> -> "V"
    [] name = << "seed" >>    -> "s"
    [] name = << "bits" >>    -> "b"
    [] OTHER                  -> "?"

ShortOption(c) == IF c \in {"h", "V", "s", "b"} THEN c ELSE "?"

IsLong(a) == Char(a, 2) = "-"

Letter(a) == IF IsLong(a) THEN LongOption(LongName(From(a, 3)))
                          ELSE ShortOption(a[2])

(* What follows the "=" of a long option, or the letter of a short one; a  *)
(* set, empty if there is nothing (for the long one, no "=").              *)
Attached(a) ==
  IF IsLong(a)
  THEN LET rest == From(a, 3) IN
       IF LongName(rest) = rest THEN {} ELSE {From(rest, Len(LongName(rest)) + 2)}
  ELSE IF Char(a, 3) # NUL THEN {From(a, 3)} ELSE {}

(* A lone "-" is an operand, and so is anything without a leading "-".     *)
IsOption(a) == Char(a, 1) = "-" /\ Char(a, 2) # NUL

-----------------------------------------------------------------------------
ArgsInit ==
  /\ argv \in CommandLines
  /\ argi = 1 /\ first = 1
  /\ seed = 0 /\ bits = 64
  /\ outcome = "parsing"
  /\ err = {}

Returns(s, token) ==
  /\ outcome' = s
  /\ err' = token
  /\ UNCHANGED << argv, argi, seed, bits, first >>

Runs(at) ==
  /\ first' = at /\ argi' = at
  /\ outcome' = "run"
  /\ UNCHANGED << argv, seed, bits, err >>

FirstOperand ==
  /\ outcome = "parsing"
  /\ argi < argc => ~IsOption(Arg)
  /\ Runs(argi)

DashDash ==
  /\ outcome = "parsing"
  /\ argi < argc /\ Arg = << "-", "-" >>
  /\ Runs(argi + 1)

(* The loop is at an option other than "--".                               *)
AtOption == outcome = "parsing" /\ argi < argc
            /\ IsOption(Arg) /\ Arg # << "-", "-" >>

(* Mutant of Token: the text is copied as it was typed.                    *)
TokenAsTyped(text) == text \o << NUL >>

(* tok, of HAYASUM_TOKMAX + 1 bytes.                                       *)
Token(text) == Quote(TokMax + 1, text)

Unknown ==
  /\ AtOption /\ Letter(Arg) = "?"
  /\ Returns("usage", {Token(IF IsLong(Arg) THEN Arg ELSE << Arg[2] >>)})

(* --help and --version take no value; after -h and -V letters are not     *)
(* looked at.                                                              *)
Flag ==
  /\ AtOption /\ Letter(Arg) \in {"h", "V"}
  /\ IF IsLong(Arg) /\ Attached(Arg) # {}
     THEN Returns("usage", {<< Letter(Arg), NUL >>})
     ELSE Returns(IF Letter(Arg) = "h" THEN "help" ELSE "version", {})

TakesValue == AtOption /\ Letter(Arg) \in {"s", "b"}

(* The text given to the option, as a set.                                 *)
Given ==
  IF Attached(Arg) # {} THEN Attached(Arg)
  ELSE IF argi + 1 < argc THEN {argv[argi + 1]} ELSE {}

Missing ==
  /\ TakesValue /\ Given = {}
  /\ Returns("usage", {<< Letter(Arg), NUL >>})

(* hayasum_set_option: what a text sets the option to, as a set.           *)
Width64  == << "6", "4" >>
Width128 == << "1", "2", "8" >>

Setting(opt, text) ==
  IF opt = "s" THEN ParseU64(text)
  ELSE CASE text = Width64 -> {64} [] text = Width128 -> {128} [] OTHER -> {}

BadValue ==
  /\ TakesValue
  /\ \E text \in Given :
       /\ Setting(Letter(Arg), text) = {}
       /\ Returns("usage", {Token(text)})

(* ++i for the option, and for its value if that is the next argument.     *)
After == IF Attached(Arg) # {} THEN argi + 1 ELSE argi + 2

SetOption ==
  /\ TakesValue
  /\ \E text \in Given : \E v \in Setting(Letter(Arg), text) :
       IF Letter(Arg) = "s"
       THEN seed' = v /\ UNCHANGED bits
       ELSE bits' = v /\ UNCHANGED seed
  /\ argi' = After
  /\ UNCHANGED << argv, first, outcome, err >>

(* main has the answer.                                                    *)
Done == outcome # "parsing" /\ UNCHANGED argVars

ArgsNext ==
  \/ FirstOperand \/ DashDash
  \/ Unknown \/ Flag
  \/ Missing \/ BadValue \/ SetOption
  \/ Done

ArgsSpec == ArgsInit /\ [][ArgsNext]_argVars

(***************************************************************************)
(* Properties.                                                             *)
(***************************************************************************)

(* The usage text: "-s, --seed SEED   64-bit seed, decimal or 0x-hex;      *)
(* default 0", "-b, --bits BITS   digest width: 64 (default) or 128".  A   *)
(* seed means the number its digits write, if that is below 2^64.          *)
Number(base, digits) ==
  LET n[k \in 0 .. Len(digits)] ==
        IF k = 0 THEN 0 ELSE base * n[k - 1] + DigitValue(digits[k])
  IN  n[Len(digits)]

Writes(base, digits) ==
  digits # << >> /\ \A k \in DOMAIN digits : digits[k] \in DigitsOf(base)

SeedMeaning(s) ==
  LET hex == Len(s) > 2 /\ s[1] = "0" /\ s[2] \in {"x", "X"} /\ Writes(16, From(s, 3))
      all == (IF hex THEN {Number(16, From(s, 3))} ELSE {})
               \cup (IF Writes(10, s) THEN {Number(10, s)} ELSE {})
  IN  {v \in all : v < Cap}

WidthMeaning(v) == IF v = Width64 THEN {64} ELSE IF v = Width128 THEN {128} ELSE {}

(* How an option with value v may be written, as one argument or two ...   *)
OneArgument(opt, v) ==
  {<< "-", "-", IF opt = "s" THEN "seed" ELSE "bits", "=" >> \o v}
    \cup (IF v = << >> THEN {} ELSE {<< "-", opt >> \o v})

TwoArguments(opt) ==
  {<< "-", opt >>, << "-", "-", IF opt = "s" THEN "seed" ELSE "bits" >>}

(* ... and the commands that arguments k on of a command line can be read  *)
(* as, with seed s and width b set so far; R are the readings of the rest. *)
Command(what, s, b, rest) == [what |-> what, seed |-> s, bits |-> b, operands |-> rest]

ReadWith(opt, v, s, b, R) ==
  IF opt = "s" THEN UNION {R[x][b] : x \in SeedMeaning(v)}
               ELSE UNION {R[s][x] : x \in WidthMeaning(v)}

RunsAt(line, k, s, b) ==
  LET a == line[k] IN
  (IF a = << >> \/ a[1] # "-" \/ a = << "-" >>
   THEN {Command("run", s, b, From(line, k))} ELSE {})
  \cup (IF a = << "-", "-" >> THEN {Command("run", s, b, From(line, k + 1))} ELSE {})

AsksFor(a) ==
  (IF a = << "-", "-", "help" >> \/ IsPrefix(<< "-", "h" >>, a)
   THEN {Command("help", 0, 64, << >>)} ELSE {})
  \cup (IF a = << "-", "-", "version" >> \/ IsPrefix(<< "-", "V" >>, a)
        THEN {Command("version", 0, 64, << >>)} ELSE {})

SetsIn(a, k, s, b, R) ==
  UNION {UNION {ReadWith(opt, v, s, b, R[k + 1]) :
                  v \in {x \in Suffixes(a) : a \in OneArgument(opt, x)}} :
           opt \in {"s", "b"}}

SetsWithNext(line, k, s, b, R) ==
  UNION {ReadWith(opt, line[k + 1], s, b, R[k + 2]) :
           opt \in {o \in {"s", "b"} : k < Len(line) /\ line[k] \in TwoArguments(o)}}

ReadAt(line, k, s, b, R) ==
  RunsAt(line, k, s, b) \cup AsksFor(line[k])
    \cup SetsIn(line[k], k, s, b, R) \cup SetsWithNext(line, k, s, b, R)

ReadingsOf(line) ==
  LET R[k \in 1 .. Len(line) + 1] ==
        [s \in 0 .. Cap - 1 |-> [b \in {64, 128} |->
           IF k > Len(line) THEN {Command("run", s, b, << >>)}
                            ELSE ReadAt(line, k, s, b, R)]]
  IN  R

Readings == ReadingsOf(argv)[1][0][64]

(* The usage text, "hayasum [-s SEED] [-b 64|128] [--] [FILE ...]" with    *)
(* options "only before the first operand"; of seeds: "A seed that quietly *)
(* means something other than what was typed changes every digest".  The   *)
(* parser finds the one command the arguments can be read as, with every   *)
(* value meaning what was typed, no operand lost and none taken for an     *)
(* option, or a usage error if there is none.                              *)
ParsesTheGrammar ==
  LET answer == IF outcome = "run" THEN Command("run", seed, bits, From(argv, first))
                ELSE Command(outcome, 0, 64, << >>)
  IN  outcome # "parsing" =>
        Readings = IF outcome = "usage" THEN {} ELSE {answer}

(* tok shows text, in full, or cut to what fits with an ellipsis at its    *)
(* end; what is not printable is a question mark.                          *)
Shows(tok, text) ==
  LET n == Len(tok) - 1
      AsIs(len) == \A k \in 1 .. len :
                     tok[k] = IF text[k] \in Control THEN "?" ELSE text[k]
  IN  \/ n = Len(text) /\ n <= TokMax /\ AsIs(n)
      \/ /\ n < Len(text) /\ n = TokMax /\ AsIs(n - 3)
         /\ \A k \in n - 2 .. n : tok[k] = "."

(* The comment of hayasum_parse_args: "On HAYASUM_USAGE_ERROR, err holds a *)
(* one-line printable-ASCII diagnostic".  Whatever the arguments hold, what*)
(* is quoted of them is printable, ends inside tok, and is one of them, its*)
(* value or its letter, shown in full or cut with an ellipsis, or the name *)
(* of an option; without an error nothing is quoted.                       *)
DiagnosticIsPrintable ==
  /\ outcome = "usage" <=> err # {}
  /\ \A tok \in err :
       /\ Len(tok) \in 1 .. TokMax + 1
       /\ \A k \in DOMAIN tok : tok[k] \notin Control
       /\ \A k \in DOMAIN tok : tok[k] = NUL <=> k = Len(tok)
       /\ \/ \E a \in Range(argv) : \E text \in Suffixes(a) \cup {<< Char(a, 2) >>} :
               Shows(tok, text)
          \/ tok \in {<< c, NUL >> : c \in {"h", "V", "s", "b"}}

(* hayasum.c: "one input always maps to exactly one output line", and the  *)
(* same of its diagnostic: a name of any characters adds no line break.    *)
OneLinePerName ==
  outcome = "run" =>
    \A a \in Range(From(argv, first)) : \A text \in {PrintDigest(a), Perror(a)} :
      \A k \in DOMAIN text : text[k] \in {LF, CR} => k = Len(text) /\ text[k] = LF

(* The reader of a line, as in GNU coreutils: a backslash in front means   *)
(* that the name is to be unescaped, from left to right.                   *)
Unescape(c) == CASE c = "n" -> LF [] c = "r" -> CR [] OTHER -> c

Unescaped(body) ==
  LET read[k \in 0 .. Len(body)] ==
        IF k = 0 THEN [name |-> << >>, escape |-> FALSE]
        ELSE LET was == read[k - 1] IN
             IF was.escape
             THEN [name |-> Append(was.name, Unescape(body[k])), escape |-> FALSE]
             ELSE IF body[k] = Backslash THEN [name |-> was.name, escape |-> TRUE]
             ELSE [name |-> Append(was.name, body[k]), escape |-> FALSE]
  IN  read[Len(body)].name

NameIn(line) ==
  IF line[1] = Backslash
  THEN Unescaped(SubSeq(line, 2 + Len(Digits), Len(line) - 1))
  ELSE SubSeq(line, 1 + Len(Digits), Len(line) - 1)

(* No two names share an output line: the name can be read back from it.   *)
NameCanBeReadBack ==
  outcome = "run" =>
    \A a \in Range(From(argv, first)) : NameIn(PrintDigest(a)) = a
=============================================================================
