---------------------------- MODULE HayasumText -----------------------------
(***************************************************************************)
(* What cli/hayasum.c does with text: it reads seeds, quotes arguments in  *)
(* diagnostics and escapes names in output lines, all as pure functions.   *)
(* HayasumArgs checks them against what their results must mean.           *)
(*                                                                         *)
(* A string is a sequence of one-character strings without the terminator; *)
(* the character after the last one is NUL.                                *)
(***************************************************************************)
EXTENDS Integers, Sequences, SequencesExt

CONSTANTS
  Cap,       \* 2^64: one more than the largest uint64_t and unsigned long long
  TokMax,    \* HAYASUM_TOKMAX
  Chars      \* the characters of argv

NUL == "NUL"

ASSUME TextAssumption == /\ Cap \in Nat \ {0}
                         /\ TokMax \in Nat /\ TokMax >= 3
                         /\ NUL \notin Chars

LF  == "LF"
CR  == "CR"
Backslash == "backslash"

(* Characters outside 0x20..0x7e.                                          *)
Control == {LF, CR, "ESC"}

(* What argv can hold.                                                     *)
Texts == Seq(Chars)

(* s[k], counted from 1.                                                   *)
Char(s, k) == IF k \in DOMAIN s THEN s[k] ELSE NUL

From(s, k) == SubSeq(s, k, Len(s))

(***************************************************************************)
(* Seeds.                                                                  *)
(***************************************************************************)
Decimal == << "0", "1", "2", "3", "4", "5", "6", "7", "8", "9" >>
Lower   == << "a", "b", "c", "d", "e", "f" >>
Upper   == << "A", "B", "C", "D", "E", "F" >>

DigitsOf(base) ==
  Range(Decimal) \cup (IF base = 16 THEN Range(Lower) \cup Range(Upper) ELSE {})

IsDigit(c)    == c \in DigitsOf(10)
IsHexDigit(c) == c \in DigitsOf(16)

DigitValue(c) ==
  IF IsDigit(c) THEN (CHOOSE k \in 1 .. 10 : Decimal[k] = c) - 1
                ELSE (CHOOSE k \in 1 .. 6 : c \in {Lower[k], Upper[k]}) + 9

Prefix(s, k) == Char(s, k) = "0" /\ Char(s, k + 1) \in {"x", "X"}

(* The value of digits in base, kept at Cap once it is beyond the type.    *)
Value(base, digits) ==
  LET v[k \in 0 .. Len(digits)] ==
        IF k = 0 THEN 0
        ELSE LET next == base * v[k - 1] + DigitValue(digits[k])
             IN  IF next < Cap THEN next ELSE Cap
  IN  v[Len(digits)]

(* The first position from k on of a character that is not in C.           *)
Run(s, k, C) ==
  CHOOSE m \in k .. Len(s) + 1 :
    /\ \A j \in k .. m - 1 : s[j] \in C
    /\ m \in DOMAIN s => s[m] \notin C

(* strtoull(s, &end, base): white space and a sign are skipped, and for    *)
(* base 16 a prefix that a digit follows; the longest run of digits is     *)
(* read, a value out of range is the largest one with ERANGE, and a minus  *)
(* sign negates in the type.  end is the position of the first character   *)
(* not read, 1 if there is no digit.                                       *)
Strtoull(s, base) ==
  LET blank  == Run(s, 1, {" ", LF, CR})
      signed == IF Char(s, blank) \in {"+", "-"} THEN blank + 1 ELSE blank
      start  == IF base = 16 /\ Prefix(s, signed) /\ IsHexDigit(Char(s, signed + 2))
                THEN signed + 2 ELSE signed
      end    == Run(s, start, DigitsOf(base))
      v      == Value(base, SubSeq(s, start, end - 1))
  IN  IF end = start THEN [value |-> 0, range |-> FALSE, end |-> 1]
      ELSE [ value |-> IF v = Cap THEN Cap - 1
                       ELSE IF Char(s, blank) = "-" THEN (Cap - v) % Cap ELSE v,
             range |-> v = Cap,
             end   |-> end ]

Refused == {}

(* Mutant of Screened: a second prefix is let through to strtoull.         *)
ScreenedOnce(s) ==
  IF Prefix(s, 1) THEN IsHexDigit(Char(s, 3)) ELSE IsDigit(Char(s, 1))

(* What is looked at before strtoull sees the text: a digit must come      *)
(* first, after at most one prefix.                                        *)
Screened(s) ==
  IF Prefix(s, 1)
  THEN IsHexDigit(Char(s, 3)) /\ ~Prefix(s, 3)
  ELSE IsDigit(Char(s, 1))

(* The seed a text means, as a set: empty if it is refused.                *)
ParseU64(s) ==
  LET hex == Prefix(s, 1)
      digits == IF hex THEN From(s, 3) ELSE s
      r == Strtoull(digits, IF hex THEN 16 ELSE 10)
  IN  IF ~Screened(s) \/ r.range \/ r.end # Len(digits) + 1
      THEN Refused ELSE {r.value}

(***************************************************************************)
(* Diagnostics.                                                            *)
(***************************************************************************)

QuoteCap(size) == IF size - 1 > TokMax THEN TokMax ELSE size - 1

Shown(c) == IF c \in Control THEN "?" ELSE c

(* hayasum_quote(dst, size, src): the bytes of dst from the first to the   *)
(* terminator; none are written if size is 0.                              *)
Quote(size, src) ==
  IF size = 0 THEN << >>
  ELSE LET n    == IF Len(src) < QuoteCap(size) THEN Len(src) ELSE QuoteCap(size)
           text == [k \in 1 .. n |-> Shown(src[k])]
       IN  (IF Len(src) > n /\ n >= 3
            THEN SubSeq(text, 1, n - 3) \o << ".", ".", "." >> ELSE text)
             \o << NUL >>

(***************************************************************************)
(* Output lines.                                                           *)
(***************************************************************************)

(* Mutant of NeedsEscape: carriage returns are escaped but do not flag the *)
(* line.                                                                   *)
NeedsEscapeOfNewlines(s) == \E k \in DOMAIN s : s[k] \in {Backslash, LF}

NeedsEscape(s) == \E k \in DOMAIN s : s[k] \in {Backslash, LF, CR}

EscapedChar(c) ==
  CASE c = Backslash -> << Backslash, Backslash >>
    [] c = LF        -> << Backslash, "n" >>
    [] c = CR        -> << Backslash, "r" >>
    [] OTHER         -> << c >>

(* Mutant of Escaped: names are written as they are.                       *)
EscapedNot(s) == s

Escaped(s) == FlattenSeq([k \in DOMAIN s |-> EscapedChar(s[k])])

(* The digest is of fixed width and has no character of the others.        *)
Digits == << "digest", " ", " " >>

PrintDigest(label) ==
  (IF NeedsEscape(label) THEN << Backslash >> ELSE << >>)
    \o Digits \o Escaped(label) \o << LF >>

Perror(label) ==
  << "hayasum", ":", " " >> \o Escaped(label) \o << ":", " ", "reason", LF >>
=============================================================================
