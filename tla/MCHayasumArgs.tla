--------------------------- MODULE MCHayasumArgs ----------------------------
(***************************************************************************)
(* Command lines for TLC.                                                  *)
(***************************************************************************)
EXTENDS HayasumArgs

ShortTexts(chars, len) == UNION {[1 .. k -> chars] : k \in 0 .. len}

(* Values, good and bad, on their own and attached in each way, flags, what*)
(* ends the options, what looks like one of them and is not, and what must *)
(* not reach a terminal.                                                   *)
Values == {Width64, Width128, << "0", "x", "f" >>, << "2", "5", "6" >>, << "=", "2" >>}

Tokens ==
  Values
    \cup {<< "-", "s" >> \o v : v \in Values \cup {<< >>}}
    \cup {<< "-", "b" >> \o v : v \in {<< >>, Width128, << "=", "2" >>}}
    \cup {<< "-", "-", "seed", "=" >> \o v : v \in {<< >>, Width64, << "=", "2" >>}}
    \cup {<< "-", "-", n >> : n \in {"seed", "bits", "help", "version", "seeds"}}
    \cup {<< "-", "-", "bits", "=" >> \o Width64, << "-", "-", "help", "=" >>,
          << "-", "-", "=", "2" >>,
          << "-", "-" >>, << "-" >>, << >>, << "-", "h", "s" >>, << "-", "V" >>,
          << "-", "x" >>, << "-", "LF" >>, << "-", "-", "ESC", "LF" >>,
          << "-", "b", "6", "ESC" >>, << "-", "-", "seed", "=", "2", "2", "2", "2", "2", "2" >>}

(* Every short text as a seed, and as a name after "--".                   *)
SeedTexts == ShortTexts({"0", "2", "6", "f", "x", "X", " ", "-", "+"}, 5)
NameTexts == ShortTexts({"backslash", "LF", "CR", "n", "r", " "}, 5)

MCChars == UNION {Range(text) : text \in Tokens}
             \cup {"2", "6", "f", "x", "X", " ", "-", "+"}
             \cup {"backslash", "LF", "CR", "n", "r", " "}

MCCommandLines ==
  UNION {[1 .. k -> Tokens] : k \in 0 .. 3}
    \cup {<< << "-", "-", "seed", "=" >> \o text >> : text \in SeedTexts}
    \cup {<< << "-", "-" >>, text >> : text \in NameTexts}
=============================================================================
