--------------------------- MODULE HayasumProofs ---------------------------
(***************************************************************************)
(* Proofs about Hayasum, for any number of operands and of reads: whatever *)
(* fails, status 0 says that everything was delivered, every byte printed  *)
(* is owed, and a torn line is told like every other failure.  And about   *)
(* HayasumArgs, for any command line of any texts: the parser reads what   *)
(* the usage text says, diagnostics are printable and names survive        *)
(* escaping.                                                               *)
(***************************************************************************)
EXTENDS Hayasum, HayasumArgs, SequenceTheorems, WellFoundedInduction, TLAPS

(***************************************************************************)
(* Standard output.                                                        *)
(***************************************************************************)
Starts(s, t) == Len(s) <= Len(t) /\ \A k \in 1 .. Len(s) : s[k] = t[k]

(* The start of an ordered sequence is ordered and has no other elements.  *)
LEMMA StartInherits ==
  ASSUME NEW s \in Seq(Bytes), NEW t \in Seq(Bytes), Starts(s, t)
  PROVE  /\ Elements(s) \subseteq Elements(t)
         /\ InOrder(t) => InOrder(s)
<1>1. Len(s) \in Nat /\ Len(t) \in Nat /\ Len(s) <= Len(t)
  BY LenProperties DEF Starts
<1>2. \A k \in 1 .. Len(s) : k \in 1 .. Len(t) /\ s[k] = t[k]
  BY <1>1, SMT DEF Starts
<1>3. QED
  BY <1>2, Zenon DEF Elements, InOrder

(* What a write cut anywhere leaves: its start is out, and a stretch of    *)
(* the rest is held.                                                       *)
LEMMA CutBytes ==
  ASSUME NEW out \in Seq(Bytes), NEW rest \in Seq(Bytes),
         NEW cut \in 0 .. Len(rest), NEW held \in cut .. Len(rest)
  PROVE  /\ out \o SubSeq(rest, 1, cut) \in Seq(Bytes)
         /\ SubSeq(rest, cut + 1, held) \in Seq(Bytes)
         /\ Starts((out \o SubSeq(rest, 1, cut)) \o SubSeq(rest, cut + 1, held), out \o rest)
<1> DEFINE front == SubSeq(rest, 1, cut)  back == SubSeq(rest, cut + 1, held)
<1>1. /\ Len(out) \in Nat /\ Len(rest) \in Nat /\ cut \in Nat /\ held \in Nat
      /\ cut <= held /\ held <= Len(rest)
  BY LenProperties, SMT
<1>2. /\ front \in Seq(Bytes) /\ Len(front) = cut
      /\ \A j \in 1 .. cut : front[j] = rest[j]
  BY <1>1, SMT
<1>3. /\ back \in Seq(Bytes) /\ Len(back) = held - cut
      /\ \A j \in 1 .. held - cut : back[j] = rest[cut + j]
  BY <1>1, SMT
<1> HIDE DEF front, back
<1>4. /\ out \o front \in Seq(Bytes) /\ Len(out \o front) = Len(out) + cut
      /\ \A j \in 1 .. Len(out) + cut :
           (out \o front)[j] = IF j <= Len(out) THEN out[j] ELSE front[j - Len(out)]
  BY <1>1, <1>2, ConcatProperties
<1>5. /\ Len((out \o front) \o back) = Len(out) + cut + (held - cut)
      /\ \A j \in 1 .. Len(out) + cut + (held - cut) :
           ((out \o front) \o back)[j] =
             IF j <= Len(out) + cut THEN (out \o front)[j] ELSE back[j - (Len(out) + cut)]
  <2> DEFINE there == out \o front
  <2>1. there \in Seq(Bytes) /\ Len(there) = Len(out) + cut
    BY <1>4
  <2> HIDE DEF there
  <2>2. /\ Len(there \o back) = Len(there) + Len(back)
        /\ \A j \in 1 .. Len(there) + Len(back) :
             (there \o back)[j] = IF j <= Len(there) THEN there[j] ELSE back[j - Len(there)]
    BY <1>3, <2>1, ConcatProperties
  <2>3. Len(there) + Len(back) = Len(out) + cut + (held - cut)
    BY <1>3, <2>1
  <2>4. QED
    BY <2>1, <2>2, <2>3 DEF there
<1>6. /\ Len(out \o rest) = Len(out) + Len(rest)
      /\ \A j \in 1 .. Len(out) + Len(rest) :
           (out \o rest)[j] = IF j <= Len(out) THEN out[j] ELSE rest[j - Len(out)]
  BY ConcatProperties
<1>7. ASSUME NEW j \in 1 .. Len(out) + cut + (held - cut)
      PROVE  ((out \o front) \o back)[j] = (out \o rest)[j]
  <2>1. j \in 1 .. Len(out) + Len(rest) /\ j \in Nat
    BY <1>1, SMT
  <2>2. CASE j <= Len(out)
    <3>1. j \in 1 .. Len(out) + cut /\ j <= Len(out) + cut
      BY <1>1, <2>1, <2>2, SMT
    <3>2. QED
      BY <1>4, <1>5, <1>6, <2>1, <2>2, <3>1, Zenon
  <2>3. CASE ~(j <= Len(out)) /\ j <= Len(out) + cut
    <3>1. j \in 1 .. Len(out) + cut /\ j - Len(out) \in 1 .. cut
      BY <1>1, <2>1, <2>3, SMT
    <3>2. QED
      BY <1>2, <1>4, <1>5, <1>6, <2>1, <2>3, <3>1, Zenon
  <2>4. CASE ~(j <= Len(out) + cut)
    <3>1. /\ j - (Len(out) + cut) \in 1 .. held - cut
          /\ cut + (j - (Len(out) + cut)) = j - Len(out)
          /\ ~(j <= Len(out))
      BY <1>1, <2>1, <2>4, SMT
    <3>2. back[j - (Len(out) + cut)] = rest[j - Len(out)]
      BY <1>3, <3>1
    <3>3. QED
      BY <1>5, <1>6, <2>1, <2>4, <3>1, <3>2, Zenon
  <2>5. QED
    BY <2>2, <2>3, <2>4
<1>8. Len((out \o front) \o back) <= Len(out \o rest)
  BY <1>1, <1>5, <1>6, SMT
<1>9. Starts((out \o front) \o back, out \o rest)
  BY <1>5, <1>7, <1>8 DEF Starts
<1>10. QED
  BY <1>3, <1>4, <1>9 DEF front, back

(* What stdout and stdio's buffer hold, before and after.                  *)
StdoutType ==
  obuf \in Seq(Bytes) /\ written \in Seq(Bytes) /\ oerr \in BOOLEAN /\ errno \in Errnos

(* What a flush does: a broken stdout stays broken, one that holds has all *)
(* out, and one that breaks says why.                                      *)
Flushed(bytes, ok) ==
  /\ StdoutType'
  /\ Starts(Kept', written \o bytes)
  /\ oerr => oerr'
  /\ ok => errno' = errno /\ oerr' = oerr
  /\ ok => Kept' = written \o bytes /\ obuf' = << >>
  /\ ~ok => oerr' /\ errno' = "write"

LEMMA FlushRight ==
  ASSUME StdoutType, NEW bytes \in Seq(Bytes), NEW ok \in BOOLEAN, Flush(bytes, ok)
  PROVE  Flushed(bytes, ok)
<1> DEFINE all == written \o bytes  none == << >>
<1>1. all \in Seq(Bytes) /\ none \in Seq(Bytes) /\ all \o none = all
  BY ConcatProperties, EmptySeq, ConcatEmptySeq DEF StdoutType
<1>2. Starts(all, all)
  <2>1. Len(all) \in Nat
    BY <1>1, LenProperties
  <2>2. QED
    BY <2>1, SMT DEF Starts
<1> HIDE DEF all, none
<1>3. CASE ok
  <2>1. written' = all /\ obuf' = none /\ oerr' = oerr /\ errno' = errno
    BY <1>3 DEF Flush, all, none
  <2>2. Kept' = all
    BY <1>1, <2>1 DEF Kept
  <2>3. StdoutType'
    BY <1>1, <2>1 DEF StdoutType
  <2>4. QED
    BY <1>2, <1>3, <2>1, <2>2, <2>3 DEF Flushed, all, none
<1>4. CASE ~ok
  <2>1. /\ oerr' = TRUE /\ errno' = "write"
        /\ \E cut \in 0 .. Len(bytes) : \E held \in cut .. Len(bytes) :
             /\ written' = written \o SubSeq(bytes, 1, cut)
             /\ obuf' = SubSeq(bytes, cut + 1, held)
    BY <1>4 DEF Flush
  <2>2. PICK cut \in 0 .. Len(bytes) : \E held \in cut .. Len(bytes) :
          /\ written' = written \o SubSeq(bytes, 1, cut)
          /\ obuf' = SubSeq(bytes, cut + 1, held)
    BY <2>1
  <2>3. PICK held \in cut .. Len(bytes) :
          /\ written' = written \o SubSeq(bytes, 1, cut)
          /\ obuf' = SubSeq(bytes, cut + 1, held)
    BY <2>2
  <2>4. written \in Seq(Bytes)
    BY DEF StdoutType
  <2>5. written' \in Seq(Bytes) /\ obuf' \in Seq(Bytes) /\ Starts(written' \o obuf', all)
    BY <2>3, <2>4, CutBytes DEF all
  <2>6. StdoutType'
    BY <2>1, <2>5 DEF StdoutType, Errnos
  <2>7. QED
    BY <1>4, <2>1, <2>5, <2>6 DEF Flushed, Kept, all
<1>5. QED
  BY <1>3, <1>4

(* A byte more at the end.                                                 *)
LEMMA OneByteMore ==
  ASSUME NEW s \in Seq(Bytes), NEW b \in Bytes
  PROVE  /\ Append(s, b) \in Seq(Bytes)
         /\ Elements(Append(s, b)) = Elements(s) \cup {b}
         /\ InOrder(s) /\ (\A x \in Elements(s) : Precedes(x, b)) => InOrder(Append(s, b))
<1> DEFINE t == Append(s, b)
<1>1. /\ t \in Seq(Bytes) /\ Len(s) \in Nat /\ Len(t) = Len(s) + 1
      /\ \A k \in 1 .. Len(s) : t[k] = s[k]
      /\ t[Len(s) + 1] = b
  BY AppendProperties, LenProperties
<1> HIDE DEF t
<1>2. \A k \in 1 .. Len(t) : k \in 1 .. Len(s) \/ k = Len(s) + 1
  BY <1>1, SMT
<1>3. (\A k \in 1 .. Len(s) : k \in 1 .. Len(t)) /\ Len(s) + 1 \in 1 .. Len(t)
  BY <1>1, SMT
<1>4. Elements(t) = Elements(s) \cup {b}
  <2>1. ASSUME NEW x \in Elements(t) PROVE x \in Elements(s) \cup {b}
    BY <1>1, <1>2, Zenon DEF Elements
  <2>2. ASSUME NEW x \in Elements(s) PROVE x \in Elements(t)
    BY <1>1, <1>3, Zenon DEF Elements
  <2>3. b \in Elements(t)
    BY <1>1, <1>3, Zenon DEF Elements
  <2>4. QED
    BY <2>1, <2>2, <2>3
<1>5. ASSUME InOrder(s), \A x \in Elements(s) : Precedes(x, b) PROVE InOrder(t)
  <2> SUFFICES ASSUME NEW m \in 1 .. Len(t), NEW n \in 1 .. Len(t), m < n
               PROVE  Precedes(t[m], t[n])
    BY DEF InOrder
  <2>1. m \in 1 .. Len(s) /\ (n \in 1 .. Len(s) \/ n = Len(s) + 1)
    BY <1>1, SMT
  <2>2. CASE n \in 1 .. Len(s)
    BY <1>1, <1>5, <2>1, <2>2, Zenon DEF InOrder
  <2>3. CASE n = Len(s) + 1
    <3>1. t[m] \in Elements(s)
      BY <1>1, <2>1, Zenon DEF Elements
    <3>2. QED
      BY <1>1, <1>5, <2>3, <3>1
  <2>4. QED
    BY <2>1, <2>2, <2>3
<1>6. QED
  BY <1>1, <1>4, <1>5 DEF t

(* What is on its way, as a part of given bytes.                           *)
Carries(seq, broken, passed) ==
  /\ InOrder(seq) /\ Elements(seq) \subseteq passed
  /\ ~broken => Elements(seq) = passed

(* A byte that follows all those passed, whenever it is handed over.       *)
LEMMA PutRight ==
  ASSUME StdoutType, NEW passed, Carries(Kept, oerr, passed),
         NEW b \in Bytes, \A x \in passed : Precedes(x, b), Put(b)
  PROVE  /\ StdoutType'
         /\ Carries(Kept', oerr', passed \cup {b})
         /\ oerr' => errno' = "write" \/ (oerr /\ errno' = errno)
<1> DEFINE more == Append(obuf, b)
<1>1. more \in Seq(Bytes) /\ Kept \in Seq(Bytes)
  BY AppendProperties, ConcatProperties DEF StdoutType, Kept
<1>2. written \o more = Append(Kept, b)
  <2>1. << b >> \in Seq(Bytes)
    BY SMT
  <2>2. (written \o obuf) \o << b >> = written \o (obuf \o << b >>)
    BY <2>1, ConcatAssociative DEF StdoutType
  <2>3. QED
    BY <1>1, <2>2, AppendIsConcat DEF StdoutType, Kept
<1>3. /\ Append(Kept, b) \in Seq(Bytes) /\ InOrder(Append(Kept, b))
      /\ Elements(Append(Kept, b)) \subseteq passed \cup {b}
      /\ ~oerr => Elements(Append(Kept, b)) = passed \cup {b}
  <2>1. InOrder(Kept) /\ Elements(Kept) \subseteq passed /\ (~oerr => Elements(Kept) = passed)
    BY DEF Carries
  <2>2. \A x \in Elements(Kept) : Precedes(x, b)
    BY <2>1
  <2>3. /\ Append(Kept, b) \in Seq(Bytes)
        /\ Elements(Append(Kept, b)) = Elements(Kept) \cup {b}
        /\ InOrder(Append(Kept, b))
    BY <1>1, <2>1, <2>2, OneByteMore
  <2>4. QED
    BY <2>1, <2>3
<1> HIDE DEF more
<1>4. CASE obuf' = more /\ UNCHANGED << oerr, written, errno >>
  <2>1. Kept' = Append(Kept, b)
    BY <1>2, <1>4 DEF Kept
  <2>2. StdoutType'
    BY <1>1, <1>4 DEF StdoutType
  <2>3. Carries(Kept', oerr', passed \cup {b})
    BY <1>3, <1>4, <2>1 DEF Carries
  <2>4. QED
    BY <1>4, <2>2, <2>3
<1>5. ASSUME NEW ok \in BOOLEAN, Flush(more, ok)
      PROVE  /\ StdoutType'
             /\ Carries(Kept', oerr', passed \cup {b})
             /\ oerr' => errno' = "write" \/ (oerr /\ errno' = errno)
  <2>1. Flushed(more, ok)
    BY <1>1, <1>5, FlushRight
  <2>2. StdoutType' /\ Kept' \in Seq(Bytes) /\ Starts(Kept', Append(Kept, b))
    <3>1. StdoutType' /\ Starts(Kept', Append(Kept, b))
      BY <1>2, <2>1 DEF Flushed
    <3>2. Kept' \in Seq(Bytes)
      BY <3>1, ConcatProperties DEF StdoutType, Kept
    <3>3. QED
      BY <3>1, <3>2
  <2>3. /\ Elements(Kept') \subseteq Elements(Append(Kept, b))
        /\ InOrder(Kept')
    BY <1>3, <2>2, StartInherits
  <2>4. ~oerr' => Kept' = Append(Kept, b) /\ ~oerr
    BY <1>2, <2>1 DEF Flushed
  <2>5. Carries(Kept', oerr', passed \cup {b})
    BY <1>3, <2>3, <2>4 DEF Carries
  <2>6. QED
    BY <2>1, <2>2, <2>5 DEF Flushed
<1>6. QED
  BY <1>4, <1>5 DEF Put, more

(***************************************************************************)
(* The bytes of the lines owed, while none, one more or all of the last is *)
(* printed.                                                                *)
(***************************************************************************)
Idle(p) == p \notin {"help", "print"}

(* What a byte is of.                                                      *)
LEMMA ByteFields == \A l, k : Byte(l, k).line = l /\ Byte(l, k).at = k
BY DEF Byte

(* No line owed, no byte owed.                                             *)
LEMMA NothingOwed == 1 .. Len(due) = {} => Owed = {}
<1> SUFFICES ASSUME 1 .. Len(due) = {}, NEW x \in Owed PROVE FALSE
  OBVIOUS
<1>1. PICK m \in 1 .. Len(due) : TRUE
  BY DEF Owed
<1>2. QED
  BY <1>1

(* Nothing remains while no line is printed.                               *)
LEMMA IdlePassed ==
  /\ Idle(pc) => Passed = Owed
  /\ Idle(pc') => Passed' = Owed'
<1>1. Idle(pc) => Passed = Owed
  BY DEF Passed, Remaining, Idle
<1>2. Idle(pc') => Passed' = Owed'
  BY DEF Passed, Remaining, Idle
<1>3. QED
  BY <1>1, <1>2

(* A step that leaves stdout alone, between two lines.                     *)
LEMMA IdleOutput ==
  ASSUME OutputOwed, Idle(pc), Idle(pc'), UNCHANGED << due, obuf, oerr, written >>,
         pc' = "exited" /\ ~oerr => obuf = << >>
  PROVE  OutputOwed'
<1>1. Kept' = Kept /\ Owed' = Owed
  BY DEF Kept, Owed
<1>2. Passed' = Passed
  BY <1>1, IdlePassed
<1>3. QED
  BY <1>1, <1>2, Zenon DEF OutputOwed

(* A line that begins to be printed has not been passed on.                *)
LEMMA PrintingBegins ==
  ASSUME due \in Seq(Lines), NEW line \in Lines, due' = Append(due, line),
         \A m \in 1 .. Len(due) : due[m] # line,
         Idle(pc), ~Idle(pc'), Printing' = line, at' = 1
  PROVE  Passed' = Passed
<1>1. /\ Len(due) \in Nat /\ Len(due') = Len(due) + 1
      /\ \A m \in 1 .. Len(due) : due'[m] = due[m]
      /\ due'[Len(due) + 1] = line
  BY AppendProperties, LenProperties
<1>2. \A x : Remaining(x)' <=> x.line = line /\ x.at >= 1
  BY DEF Remaining, Idle
<1>3. ASSUME NEW x \in Passed' PROVE x \in Passed
  <2>1. x \in Owed' /\ ~Remaining(x)'
    BY <1>3 DEF Passed
  <2>2. PICK m \in 1 .. Len(due') : \E k \in 1 .. Width : x = Byte(due'[m], k)
    BY <2>1 DEF Owed
  <2>3. PICK k \in 1 .. Width : x = Byte(due'[m], k)
    BY <2>2
  <2>4. x.line = due'[m] /\ x.at = k /\ k >= 1
    BY <2>3, ByteFields, HayasumAssumption, SMT
  <2>5. m # Len(due) + 1
    BY <1>1, <1>2, <2>1, <2>4, Zenon
  <2>6. m \in 1 .. Len(due)
    BY <1>1, <2>5, SMT
  <2>7. x = Byte(due[m], k)
    BY <1>1, <2>3, <2>6
  <2>8. x \in Owed
    BY <2>6, <2>7 DEF Owed
  <2>9. QED
    BY <2>8, IdlePassed
<1>4. ASSUME NEW x \in Passed PROVE x \in Passed'
  <2>1. x \in Owed
    BY <1>4, IdlePassed
  <2>2. PICK m \in 1 .. Len(due) : \E k \in 1 .. Width : x = Byte(due[m], k)
    BY <2>1 DEF Owed
  <2>3. PICK k \in 1 .. Width : x = Byte(due[m], k)
    BY <2>2
  <2>4. m \in 1 .. Len(due') /\ due'[m] = due[m]
    BY <1>1, SMT
  <2>5. x \in Owed'
    <3>1. x = Byte(due'[m], k)
      BY <2>3, <2>4
    <3>2. QED
      BY <2>4, <3>1 DEF Owed
  <2>6. x.line = due[m] /\ due[m] # line
    BY <2>3, ByteFields
  <2>7. ~Remaining(x)'
    BY <1>2, <2>6
  <2>8. QED
    BY <2>5, <2>7 DEF Passed
<1>5. QED
  BY <1>3, <1>4

(* The next byte of the line being printed follows all that were passed on *)
(* and is passed on by the step that gives it to stdio.                    *)
LEMMA PrintingGoesOn ==
  ASSUME due \in Seq(Lines), at \in 1 .. Width + 1, at <= Width,
         DueInOrder, ~Idle(pc)
  PROVE  /\ Printing \in Lines /\ Byte(Printing, at) \in Bytes
         /\ \A x \in Passed : Precedes(x, Byte(Printing, at))
         /\ pc' = pc /\ Printing' = Printing /\ due' = due /\ at' = at + 1 =>
              Passed' = Passed \cup {Byte(Printing, at)}
<1>1. /\ Len(due) \in Nat /\ Len(due) > 0 /\ due[Len(due)] = Printing
      /\ \A m, n \in 1 .. Len(due) : m < n => due[m].operand < due[n].operand
  BY LenProperties DEF DueInOrder, Idle
<1>2. Len(due) \in 1 .. Len(due) /\ at \in 1 .. Width /\ at \in Nat /\ Width \in Nat
  BY <1>1, HayasumAssumption, SMT
<1>3. Printing \in Lines
  BY <1>1, <1>2, ElementOfSeq
<1>4. Byte(Printing, at) \in Bytes
  BY <1>2, <1>3 DEF Byte, Bytes
<1>5. \A x : Remaining(x) <=> x.line = Printing /\ x.at >= at
  BY DEF Remaining, Idle
<1>6. \A x \in Owed : \E m \in 1 .. Len(due), k \in 1 .. Width : x = Byte(due[m], k)
  BY DEF Owed
<1>7. ASSUME NEW x \in Passed PROVE Precedes(x, Byte(Printing, at))
  <2>1. x \in Owed /\ ~Remaining(x)
    BY <1>7 DEF Passed
  <2>2. PICK m \in 1 .. Len(due) : \E k \in 1 .. Width : x = Byte(due[m], k)
    BY <1>6, <2>1
  <2>3. PICK k \in 1 .. Width : x = Byte(due[m], k)
    BY <2>2
  <2>4. x.line = due[m] /\ x.at = k
    BY <2>3, ByteFields
  <2>5. Byte(Printing, at).line = Printing /\ Byte(Printing, at).at = at
    BY ByteFields
  <2>6. CASE m = Len(due)
    <3>1. x.line = Printing
      BY <1>1, <2>4, <2>6
    <3>2. ~(k >= at)
      BY <1>5, <2>1, <2>4, <3>1
    <3>3. k < at
      BY <1>2, <3>2, SMT
    <3>4. QED
      BY <2>4, <2>5, <3>1, <3>3 DEF Precedes
  <2>7. CASE m # Len(due)
    <3>1. m < Len(due)
      BY <1>1, <2>7, SMT
    <3>2. due[m].operand < due[Len(due)].operand
      BY <1>1, <1>2, <3>1
    <3>3. QED
      BY <1>1, <2>4, <2>5, <3>2 DEF Precedes
  <2>8. QED
    BY <2>6, <2>7
<1>8. ASSUME pc' = pc, Printing' = Printing, due' = due, at' = at + 1
      PROVE  Passed' = Passed \cup {Byte(Printing, at)}
  <2>1. Owed' = Owed
    BY <1>8 DEF Owed
  <2>2. \A x : Remaining(x)' <=> x.line = Printing /\ x.at >= at + 1
    BY <1>8 DEF Remaining, Idle
  <2>3. \A k \in 1 .. Width : k >= at + 1 <=> k >= at /\ k # at
    BY <1>2, SMT
  <2>4. Byte(Printing, at) \in Owed
    BY <1>1, <1>2 DEF Owed
  <2>5. ASSUME NEW x \in Owed
        PROVE  ~Remaining(x)' <=> ~Remaining(x) \/ x = Byte(Printing, at)
    <3>1. PICK m \in 1 .. Len(due) : \E k \in 1 .. Width : x = Byte(due[m], k)
      BY <1>6
    <3>2. PICK k \in 1 .. Width : x = Byte(due[m], k)
      BY <3>1
    <3>3. x.line = due[m] /\ x.at = k
      BY <3>2, ByteFields
    <3>4. x = Byte(Printing, at) <=> x.line = Printing /\ x.at = at
      <4>1. x = Byte(Printing, at) => x.line = Printing /\ x.at = at
        BY ByteFields
      <4>2. x.line = Printing /\ x.at = at => x = Byte(Printing, at)
        BY <3>2, <3>3
      <4>3. QED
        BY <4>1, <4>2
    <3>5. at >= at
      BY <1>2, SMT
    <3>6. QED
      BY <1>5, <2>2, <2>3, <3>3, <3>4, <3>5, Zenon
  <2>6. QED
    BY <2>1, <2>4, <2>5, Zenon DEF Passed
<1>9. QED
  BY <1>3, <1>4, <1>7, <1>8

(* A line printed to its end has been passed on.                           *)
LEMMA PrintingEnds ==
  ASSUME at \in 1 .. Width + 1, at > Width
  PROVE  Passed = Owed
<1>1. ASSUME NEW x \in Owed PROVE ~Remaining(x)
  <2>1. PICK m \in 1 .. Len(due) : \E k \in 1 .. Width : x = Byte(due[m], k)
    BY DEF Owed
  <2>2. PICK k \in 1 .. Width : x = Byte(due[m], k)
    BY <2>1
  <2>3. x.at = k
    BY <2>2, ByteFields
  <2>4. ~(k >= at)
    BY HayasumAssumption, SMT
  <2>5. QED
    BY <2>3, <2>4 DEF Remaining
<1>2. QED
  BY <1>1, Zenon DEF Passed

(***************************************************************************)
(* What the invariant says of a state between two operands, and of the end *)
(* of the loop: one operand more has its line or its diagnostic.           *)
(***************************************************************************)

(* The operands a command works on.                                        *)
LEMMA InputsType ==
  ASSUME operands \in Seq({Dash, File})
  PROVE  /\ Inputs \in Seq({Dash, File}) /\ Len(Inputs) \in Nat \ {0}
         /\ operands = << >> => Len(Inputs) = 1
         /\ \A k \in 1 .. Len(Inputs) : Inputs[k] \in {Dash, File}
<1>1. CASE operands = << >>
  BY <1>1, SMT DEF Inputs
<1>2. CASE operands # << >>
  <2>1. Inputs = operands /\ Len(operands) \in Nat \ {0}
    BY <1>2, EmptySeq DEF Inputs
  <2>2. \A k \in 1 .. Len(operands) : operands[k] \in {Dash, File}
    BY ElementOfSeq
  <2>3. QED
    BY <1>2, <2>1, <2>2
<1>3. QED
  BY <1>1, <1>2

(* The lines and diagnostics of this program.                              *)
LEMMA LineType ==
  /\ HelpLine \in Lines
  /\ Usage \in Diagnostics /\ \A reason \in Errnos : Output(reason) \in Diagnostics
  /\ \A k \in Nat : Operand(k) \in Diagnostics
  /\ \A k \in Nat, b \in Pieces : Line(k, b) \in Lines /\ Line(k, b).operand = k
<1>1. << >> \in Pieces
  BY EmptySeq DEF Pieces
<1>2. \A k \in Nat, b \in Pieces : Line(k, b) \in Lines /\ Line(k, b).operand = k
  BY SMT DEF Line, Lines
<1>3. QED
  BY <1>1, <1>2 DEF HelpLine, Diagnostics, Operand, Usage, Output

(* One more diagnostic.                                                    *)
LEMMA ReportLonger ==
  ASSUME reported \in Seq(Diagnostics), NEW d \in Diagnostics,
         reported' = Append(reported, d)
  PROVE  /\ reported' \in Seq(Diagnostics) /\ reported' # << >>
         /\ Len(reported) \in Nat /\ Len(reported') = Len(reported) + 1
         /\ reported'[Len(reported')] = d
<1>1. /\ Append(reported, d) \in Seq(Diagnostics)
      /\ Append(reported, d) # << >>
      /\ Len(Append(reported, d)) = Len(reported) + 1
      /\ Append(reported, d)[Len(reported) + 1] = d
      /\ Len(reported) \in Nat
  BY AppendProperties, LenProperties
<1>2. QED
  BY <1>1

(* One more line owed, of a later operand than those before it.            *)
LEMMA OwedLonger ==
  ASSUME due \in Seq(Lines), NEW line \in Lines, due' = Append(due, line),
         \A m, n \in 1 .. Len(due) : m < n => due[m].operand < due[n].operand,
         \A m \in 1 .. Len(due) : due[m].operand < line.operand
  PROVE  /\ Len(due) \in Nat /\ Len(due') = Len(due) + 1 /\ due' \in Seq(Lines)
         /\ due'[Len(due')] = line
         /\ \A m, n \in 1 .. Len(due') : m < n => due'[m].operand < due'[n].operand
         /\ \A m \in 1 .. Len(due') : due'[m].operand < line.operand + 1
<1>1. /\ Len(due) \in Nat /\ Len(due') = Len(due) + 1 /\ due' \in Seq(Lines)
      /\ \A m \in 1 .. Len(due) : due'[m] = due[m]
      /\ due'[Len(due) + 1] = line
  BY AppendProperties, LenProperties
<1>2. /\ line.operand \in Nat
      /\ \A m \in 1 .. Len(due) : due[m].operand \in Nat
  <2>1. \A m \in 1 .. Len(due) : due[m] \in Lines
    BY ElementOfSeq
  <2>2. \A l \in Lines : l.operand \in Nat
    BY DEF Lines
  <2>3. QED
    BY <2>1, <2>2
<1>3. \A m \in 1 .. Len(due') : m \in 1 .. Len(due) \/ m = Len(due) + 1
  BY <1>1, SMT
<1>4. ASSUME NEW m \in 1 .. Len(due'), NEW n \in 1 .. Len(due'), m < n
      PROVE  due'[m].operand < due'[n].operand
  <2>1. m \in 1 .. Len(due)
    BY <1>1, <1>4, SMT
  <2>2. CASE n \in 1 .. Len(due)
    BY <1>1, <1>4, <2>1, <2>2
  <2>3. CASE n = Len(due) + 1
    BY <1>1, <2>1, <2>3
  <2>4. QED
    BY <1>3, <2>2, <2>3
<1>5. ASSUME NEW m \in 1 .. Len(due')
      PROVE  due'[m].operand < line.operand + 1
  <2>1. CASE m \in 1 .. Len(due)
    <3>1. due'[m] = due[m] /\ due[m].operand < line.operand /\ due[m].operand \in Nat
      BY <1>1, <1>2, <2>1
    <3>2. QED
      BY <1>2, <3>1, SMT
  <2>2. CASE m = Len(due) + 1
    <3>1. due'[m] = line
      BY <1>1, <2>2
    <3>2. QED
      BY <1>2, <3>1, SMT
  <2>3. QED
    BY <1>3, <2>1, <2>2
<1>6. QED
  BY <1>1, <1>4, <1>5

(***************************************************************************)
(* The end of an operand.                                                  *)
(***************************************************************************)
LEMMA AfterRight ==
  ASSUME operands \in Seq({Dash, File}), i \in Nat \ {0}, i <= Len(Inputs),
         oerr' \in BOOLEAN, UNCHANGED operands, AfterOperand
  PROVE  /\ i' \in Nat \ {0} /\ Inputs' = Inputs
         /\ \/ /\ pc' = "next" /\ i' = i + 1 /\ i' <= Len(Inputs) + 1
               /\ oerr' => i' = Len(Inputs) + 1 /\ operands = << >>
               /\ out_err' = out_err
            \/ /\ pc' = "final" /\ i' = i /\ oerr'
               /\ operands # << >> /\ out_err' = errno'
<1>1. Inputs' = Inputs
  BY DEF Inputs
<1>2. Len(Inputs) \in Nat \ {0} /\ (operands = << >> => Len(Inputs) = 1)
  BY InputsType
<1>3. CASE operands # << >> /\ oerr'
  BY <1>1, <1>3 DEF AfterOperand
<1>4. CASE operands = << >>
  <2>1. pc' = "next" /\ i' = i + 1 /\ out_err' = out_err
    BY <1>4 DEF AfterOperand
  <2>2. i' \in Nat \ {0} /\ i' <= Len(Inputs) + 1 /\ i' = Len(Inputs) + 1
    <3>1. Len(Inputs) = 1
      BY <1>2, <1>4
    <3>2. i = 1
      BY <3>1, SMT
    <3>3. QED
      BY <2>1, <3>1, <3>2, SMT
  <2>3. QED
    BY <1>1, <1>4, <2>1, <2>2
<1>5. CASE ~oerr'
  <2>1. pc' = "next" /\ i' = i + 1 /\ out_err' = out_err
    BY <1>5 DEF AfterOperand
  <2>2. i' \in Nat \ {0} /\ i' <= Len(Inputs) + 1
    BY <1>2, <2>1, SMT
  <2>3. QED
    BY <1>1, <1>5, <2>1, <2>2
<1>6. QED
  BY <1>3, <1>4, <1>5

(* What is true before an operand is done with.                            *)
Busy ==
  /\ pc \in {"open", "read"} /\ i <= Len(Inputs) /\ ~oerr
  /\ Len(due) + Len(reported) = i - 1
  /\ \A m \in 1 .. Len(due) : due[m].operand < i

LEMMA InvariantBusy ==
  ASSUME IInv, pc \in {"open", "read"}
  PROVE  Busy
<1>1. i <= Len(Inputs) /\ ~oerr
  BY DEF IInv, LoopHolds
<1>2. Len(due) + Len(reported) = i - 1
  <2>1. Len(due) + Len(reported) = Handled
    BY <1>1, Zenon DEF IInv, Accounted
  <2>2. Handled = i - 1
    BY Zenon DEF Handled
  <2>3. QED
    BY <2>1, <2>2
<1>3. QED
  BY <1>1, <1>2 DEF Busy, IInv, DueInOrder

(* The parts of the type that reading an operand changes.                  *)
ReadingType ==
  /\ in \in Indicators /\ stdin \in Indicators
  /\ absorbed \in Pieces /\ got \in Pieces /\ own \in BOOLEAN

(* An operand that fails is reported, leaves stdout alone and the loop     *)
(* goes on.                                                                *)
LEMMA FailedPreserves ==
  ASSUME IInv, pc \in {"open", "read"}, Failed, AfterOperand,
         UNCHANGED << stdout, operands, due, at >>, ReadingType'
  PROVE  IInv'
<1>1. Busy
  BY InvariantBusy
<1>2. /\ operands \in Seq({Dash, File}) /\ i \in Nat \ {0} /\ StdoutType
      /\ due \in Seq(Lines) /\ reported \in Seq(Diagnostics)
      /\ out_err \in {"none", "write"}
  BY DEF IInv, TypeOK, StdoutType, ReasonKept
<1>3. /\ obuf' = obuf /\ written' = written /\ oerr' = oerr
      /\ operands' = operands /\ due' = due /\ at' = at /\ status' = 1
      /\ reported' = Append(reported, Operand(i)) /\ errno' = "read"
  BY DEF stdout, Failed
<1>4. ~oerr' /\ oerr' \in BOOLEAN
  BY <1>1, <1>2, <1>3 DEF Busy, StdoutType
<1>5. /\ i' \in Nat \ {0} /\ Inputs' = Inputs
      /\ pc' = "next" /\ i' = i + 1 /\ i' <= Len(Inputs) + 1 /\ out_err' = out_err
  BY <1>1, <1>2, <1>3, <1>4, AfterRight DEF Busy
<1>6. /\ reported' \in Seq(Diagnostics) /\ reported' # << >>
      /\ Len(reported) \in Nat /\ Len(reported') = Len(reported) + 1
  <2>1. Operand(i) \in Diagnostics
    BY <1>2, LineType
  <2>2. QED
    BY <1>2, <1>3, <2>1, ReportLonger
<1>7. TypeOK'
  <2>1. at' \in 1 .. Width + 1
    BY <1>3 DEF IInv, TypeOK
  <2>2. QED
    BY <1>2, <1>3, <1>4, <1>5, <1>6, <2>1 DEF TypeOK, ReadingType, StdoutType, Errnos
<1>8. LoopHolds' /\ ReasonKept'
  BY <1>2, <1>4, <1>5 DEF LoopHolds, ReasonKept
<1>9. DueInOrder'
  <2>1. \A k \in 1 .. Len(due) : due[k].operand \in Nat
    <3>1. \A k \in 1 .. Len(due) : due[k] \in Lines
      BY <1>2, ElementOfSeq
    <3>2. QED
      BY <3>1 DEF Lines
  <2>2. \A k \in 1 .. Len(due) : due[k].operand < i + 1
    BY <1>1, <1>2, <2>1, SMT DEF Busy
  <2>3. QED
    BY <1>3, <1>5, <2>2 DEF DueInOrder, IInv
<1>10. OutputOwed'
  <2>1. Idle(pc) /\ Idle(pc')
    BY <1>5 DEF Idle
  <2>2. QED
    BY <1>3, <1>5, <2>1, IdleOutput DEF IInv
<1>11. Accounted'
  <2>1. Len(due') + Len(reported') = i' - 1
    <3>1. Len(due) \in Nat
      BY <1>2, LenProperties
    <3>2. QED
      BY <1>1, <1>2, <1>3, <1>5, <1>6, <3>1, SMT DEF Busy
  <2>2. Handled' = i' - 1
    BY <1>5, Zenon DEF Handled
  <2>3. QED
    BY <2>1, <2>2 DEF Accounted
<1>12. StatusTells'
  BY <1>3, <1>5, <1>6 DEF StatusTells
<1>13. QED
  BY <1>7, <1>8, <1>9, <1>10, <1>11, <1>12 DEF IInv

(***************************************************************************)
(* One call of fread.                                                      *)
(***************************************************************************)

(* While an operand is read no indicator is set before the call, so they   *)
(* are this call's own after it; the state absorbs what was returned.      *)
LEMMA FreadRight ==
  ASSUME IInv, NEW r \in FreadResults, Fread(r)
  PROVE  /\ in' \in Indicators /\ in'.err = r.err /\ in'.eof = r.eof
         /\ got' \in Pieces /\ absorbed' \in Pieces /\ absorbed' = got'
<1>1. /\ in = NoFlags /\ absorbed = got /\ got \in Pieces /\ i \in Nat
  BY DEF Fread, IInv, LoopHolds, TypeOK
<1>2. /\ r.err \in BOOLEAN /\ r.eof \in BOOLEAN
  BY DEF FreadResults
<1>3. in.err = FALSE /\ in.eof = FALSE
  BY <1>1 DEF NoFlags
<1>4. in' = [err |-> r.err, eof |-> r.eof]
  <2>1. in' = [err |-> in.err \/ r.err, eof |-> in.eof \/ r.eof]
    BY DEF Fread
  <2>2. (in.err \/ r.err) = r.err /\ (in.eof \/ r.eof) = r.eof
    BY <1>2, <1>3, Zenon
  <2>3. QED
    BY <2>1, <2>2, Zenon
<1>5. in' \in Indicators /\ in'.err = r.err /\ in'.eof = r.eof
  BY <1>2, <1>4 DEF Indicators
<1>6. Piece \in Nat \X Nat
  <2>1. Len(got) \in Nat
    BY <1>1, LenProperties DEF Pieces
  <2>2. Len(got) + 1 \in Nat
    BY <2>1, SMT
  <2>3. QED
    BY <1>1, <2>2 DEF Piece
<1>7. Append(got, Piece) \in Pieces
  BY <1>1, <1>6, AppendProperties DEF Pieces
<1>8. CASE r.n = "none"
  BY <1>1, <1>5, <1>8 DEF Fread
<1>9. CASE r.n # "none"
  BY <1>1, <1>5, <1>7, <1>9 DEF Fread
<1>10. QED
  BY <1>8, <1>9

(* What Leave does to the indicators of stdin.                             *)
LEMMA LeaveRight ==
  ASSUME stdin \in Indicators, in' \in Indicators, Leave
  PROVE  stdin' \in Indicators
BY DEF Leave

(***************************************************************************)
(* The actions.                                                            *)
(***************************************************************************)
LEMMA OpenPreserves == ASSUME IInv, Open PROVE IInv'
<1>1. /\ pc = "open" /\ pc' = "read" /\ in' = NoFlags
      /\ absorbed' = << >> /\ got' = << >> /\ own' = FALSE
      /\ operands' = operands /\ i' = i /\ stdin' = stdin /\ due' = due
      /\ at' = at /\ obuf' = obuf /\ oerr' = oerr /\ written' = written
      /\ errno' = "none" /\ out_err' = out_err
      /\ reported' = reported /\ status' = status
  BY DEF Open, FlagsAtStart, stdout
<1>2. Inputs' = Inputs
  BY <1>1 DEF Inputs
<1>3. NoFlags \in Indicators /\ << >> \in Pieces
  BY EmptySeq DEF NoFlags, Indicators, Pieces
<1>4. TypeOK'
  BY <1>1, <1>3 DEF IInv, TypeOK, Errnos
<1>5. LoopHolds' /\ ReasonKept'
  BY <1>1, <1>2 DEF IInv, LoopHolds, ReasonKept
<1>6. DueInOrder'
  BY <1>1 DEF IInv, DueInOrder
<1>7. OutputOwed'
  <2>1. Idle(pc) /\ Idle(pc')
    BY <1>1 DEF Idle
  <2>2. QED
    BY <1>1, <2>1, IdleOutput DEF IInv
<1>8. Accounted'
  <2>1. Busy
    BY <1>1, InvariantBusy
  <2>2. Handled' = i - 1
    BY <1>1, Zenon DEF Handled
  <2>3. QED
    BY <1>1, <2>1, <2>2 DEF Busy, Accounted
<1>9. StatusTells'
  BY <1>1 DEF IInv, StatusTells
<1>10. QED
  BY <1>4, <1>5, <1>6, <1>7, <1>8, <1>9 DEF IInv

LEMMA OpenFailsPreserves == ASSUME IInv, OpenFails PROVE IInv'
<1>1. ReadingType'
  BY DEF OpenFails, IInv, TypeOK, ReadingType
<1>2. QED
  BY <1>1, FailedPreserves DEF OpenFails

LEMMA ReadOnPreserves == ASSUME IInv, ReadOn PROVE IInv'
<1>1. PICK r \in FreadResults : Fread(r) /\ MoreToRead(r)
  BY DEF ReadOn
<1>2. /\ pc = "read" /\ pc' = pc
      /\ operands' = operands /\ i' = i /\ stdin' = stdin /\ due' = due
      /\ at' = at /\ obuf' = obuf /\ oerr' = oerr /\ written' = written
      /\ errno' = errno /\ out_err' = out_err
      /\ reported' = reported /\ status' = status /\ own' = own
  BY <1>1 DEF ReadOn, Fread, stdout, reasons
<1>3. /\ in' \in Indicators /\ in'.err = r.err /\ in'.eof = r.eof
      /\ got' \in Pieces /\ absorbed' \in Pieces /\ absorbed' = got'
  BY <1>1, FreadRight
<1>4. in' = NoFlags
  <2>1. ~in'.err /\ ~in'.eof
    BY <1>1, <1>3 DEF MoreToRead, FreadResults
  <2>2. in' = [err |-> in'.err, eof |-> in'.eof] /\ in'.err \in BOOLEAN /\ in'.eof \in BOOLEAN
    BY <1>3 DEF Indicators
  <2>3. in'.err = FALSE /\ in'.eof = FALSE
    BY <2>1, <2>2
  <2>4. QED
    BY <2>2, <2>3, Zenon DEF NoFlags
<1>5. Inputs' = Inputs
  BY <1>2 DEF Inputs
<1>6. TypeOK'
  BY <1>2, <1>3 DEF IInv, TypeOK
<1>7. LoopHolds' /\ ReasonKept'
  BY <1>2, <1>3, <1>4, <1>5 DEF IInv, LoopHolds, ReasonKept
<1>8. DueInOrder'
  BY <1>2 DEF IInv, DueInOrder
<1>9. OutputOwed'
  <2>1. Idle(pc) /\ Idle(pc')
    BY <1>2 DEF Idle
  <2>2. QED
    BY <1>2, <2>1, IdleOutput DEF IInv
<1>10. Accounted'
  <2>1. Busy
    BY <1>2, InvariantBusy
  <2>2. Handled' = i - 1
    BY <1>2, Zenon DEF Handled
  <2>3. QED
    BY <1>2, <2>1, <2>2 DEF Busy, Accounted
<1>11. StatusTells'
  BY <1>2 DEF IInv, StatusTells
<1>12. QED
  BY <1>6, <1>7, <1>8, <1>9, <1>10, <1>11 DEF IInv

LEMMA ReadFailsPreserves == ASSUME IInv, ReadFails PROVE IInv'
<1>1. PICK r \in FreadResults :
        Fread(r) /\ own' = (r.err \/ (r.n = "none" /\ ~r.eof))
  BY DEF ReadFails
<1>2. /\ in' \in Indicators /\ got' \in Pieces /\ absorbed' \in Pieces
  BY <1>1, FreadRight
<1>3. stdin' \in Indicators
  BY <1>2, LeaveRight DEF ReadFails, IInv, TypeOK
<1>4. own' \in BOOLEAN
  BY <1>1
<1>5. pc = "read"
  BY <1>1 DEF Fread
<1>6. QED
  BY <1>2, <1>3, <1>4, <1>5, FailedPreserves DEF ReadFails, ReadingType

LEMMA ReadEndsPreserves == ASSUME IInv, ReadEnds PROVE IInv'
<1>1. PICK r \in FreadResults :
        /\ Fread(r) /\ ~MoreToRead(r)
        /\ ~in'.err /\ (r.n = "none" => in'.eof)
        /\ due' = IF in'.eof THEN Append(due, Line(i, got')) ELSE due
  BY DEF ReadEnds
<1>2. /\ pc = "read" /\ pc' = "print" /\ at' = 1
      /\ operands' = operands /\ i' = i /\ own' = own
      /\ obuf' = obuf /\ oerr' = oerr /\ written' = written
      /\ errno' \in {"none", "read"} /\ out_err' = out_err
      /\ reported' = reported /\ status' = status
  BY <1>1 DEF ReadEnds, Fread, stdout
<1>3. /\ in' \in Indicators /\ in'.err = r.err /\ in'.eof = r.eof
      /\ got' \in Pieces /\ absorbed' \in Pieces /\ absorbed' = got'
  BY <1>1, FreadRight
<1>4. Busy
  BY <1>2, InvariantBusy
<1>5. /\ operands \in Seq({Dash, File}) /\ i \in Nat \ {0}
      /\ due \in Seq(Lines) /\ reported \in Seq(Diagnostics)
  BY DEF IInv, TypeOK
<1> DEFINE line == Line(i, absorbed')
<1>6. due' = Append(due, line) /\ Printing' = line
  <2>1. in'.eof
    BY <1>1 DEF MoreToRead, FreadResults
  <2>2. Printing' = line
    BY <1>2 DEF Printing
  <2>3. QED
    BY <1>1, <1>3, <2>1, <2>2
<1>7. line \in Lines /\ line.operand = i
  BY <1>3, <1>5, LineType
<1> HIDE DEF line
<1>8. Inputs' = Inputs
  BY <1>2 DEF Inputs
<1>9. /\ \A m \in 1 .. Len(due) : due[m].operand < line.operand
      /\ \A m, n \in 1 .. Len(due) : m < n => due[m].operand < due[n].operand
  BY <1>4, <1>7 DEF Busy, IInv, DueInOrder
<1>10. /\ Len(due) \in Nat /\ Len(due') = Len(due) + 1 /\ due' \in Seq(Lines)
       /\ due'[Len(due')] = line
       /\ \A m, n \in 1 .. Len(due') : m < n => due'[m].operand < due'[n].operand
       /\ \A m \in 1 .. Len(due') : due'[m].operand < i + 1
  BY <1>5, <1>6, <1>7, <1>9, OwedLonger
<1>11. TypeOK'
  <2>1. stdin' \in Indicators
    BY <1>3, LeaveRight DEF ReadEnds, IInv, TypeOK
  <2>2. 1 \in 1 .. Width + 1
    BY HayasumAssumption, SMT
  <2>3. errno' \in Errnos
    BY <1>2 DEF Errnos
  <2>4. QED
    BY <1>2, <1>3, <1>10, <2>1, <2>2, <2>3 DEF IInv, TypeOK
<1>12. LoopHolds' /\ ReasonKept'
  BY <1>2, <1>4, <1>8 DEF Busy, LoopHolds, IInv, ReasonKept
<1>13. DueInOrder'
  <2>1. Len(due') > 0
    BY <1>10, SMT
  <2>2. QED
    BY <1>2, <1>6, <1>10, <2>1 DEF DueInOrder
<1>14. OutputOwed'
  <2>1. \A m \in 1 .. Len(due) : due[m] # line
    <3>1. \A m \in 1 .. Len(due) : due[m].operand < line.operand
      BY <1>9
    <3>2. ~(line.operand < line.operand)
      BY <1>5, <1>7, SMT
    <3>3. QED
      BY <3>1, <3>2
  <2>2. Idle(pc) /\ ~Idle(pc')
    BY <1>2 DEF Idle
  <2>3. Passed' = Passed
    BY <1>2, <1>5, <1>6, <1>7, <2>1, <2>2, PrintingBegins
  <2>4. Kept' = Kept
    BY <1>2 DEF Kept
  <2>5. QED
    BY <1>2, <2>3, <2>4, Zenon DEF IInv, OutputOwed
<1>15. Accounted'
  <2>1. Len(due') + Len(reported') = i
    <3>1. Len(reported) \in Nat
      BY <1>5, LenProperties
    <3>2. QED
      BY <1>2, <1>4, <1>5, <1>10, <3>1, SMT DEF Busy
  <2>2. Handled' = i
    BY <1>2, Zenon DEF Handled
  <2>3. QED
    BY <2>1, <2>2 DEF Accounted
<1>16. StatusTells'
  BY <1>2 DEF IInv, StatusTells
<1>17. QED
  BY <1>11, <1>12, <1>13, <1>14, <1>15, <1>16 DEF IInv

(* A byte of a line is given to stdio.                                     *)
LEMMA PrintBytePreserves == ASSUME IInv, PrintByte PROVE IInv'
<1>1. /\ pc \in {"help", "print"} /\ at <= Width /\ pc' = pc /\ at' = at + 1
      /\ operands' = operands /\ i' = i /\ in' = in /\ stdin' = stdin
      /\ absorbed' = absorbed /\ got' = got /\ own' = own /\ due' = due
      /\ out_err' = out_err /\ reported' = reported /\ status' = status
      /\ Put(Byte(Printing, at))
  BY DEF PrintByte, reading
<1>2. /\ due \in Seq(Lines) /\ at \in 1 .. Width + 1 /\ StdoutType /\ DueInOrder
  BY DEF IInv, TypeOK, StdoutType
<1>3. ~Idle(pc) /\ Printing' = Printing /\ Inputs' = Inputs
  BY <1>1 DEF Idle, Printing, Inputs
<1>4. /\ Byte(Printing, at) \in Bytes
      /\ \A x \in Passed : Precedes(x, Byte(Printing, at))
      /\ Passed' = Passed \cup {Byte(Printing, at)}
  BY <1>1, <1>2, <1>3, PrintingGoesOn
<1>5. /\ StdoutType'
      /\ Carries(Kept', oerr', Passed')
      /\ oerr' => errno' = "write" \/ (oerr /\ errno' = errno)
  <2>1. Carries(Kept, oerr, Passed)
    BY DEF IInv, OutputOwed, Carries
  <2>2. QED
    BY <1>1, <1>2, <1>4, <2>1, PutRight
<1>6. TypeOK'
  <2>1. at' \in 1 .. Width + 1
    BY <1>1, <1>2, HayasumAssumption, SMT
  <2>2. QED
    BY <1>1, <1>5, <2>1 DEF IInv, TypeOK, StdoutType
<1>7. LoopHolds'
  BY <1>1, <1>3 DEF IInv, LoopHolds
<1>8. DueInOrder'
  BY <1>1, <1>3 DEF IInv, DueInOrder
<1>9. OutputOwed'
  BY <1>1, <1>5 DEF OutputOwed, Carries
<1>10. ReasonKept'
  BY <1>1, <1>5 DEF IInv, ReasonKept
<1>11. Accounted'
  <2>1. oerr => oerr'
    BY <1>1, FlushRight DEF Put, Flush
  <2>2. Handled' = Handled
    BY <1>1, <1>3, Zenon DEF Handled
  <2>3. QED
    BY <1>1, <2>1, <2>2, Zenon DEF IInv, Accounted
<1>12. StatusTells'
  BY <1>1 DEF IInv, StatusTells
<1>13. QED
  BY <1>6, <1>7, <1>8, <1>9, <1>10, <1>11, <1>12 DEF IInv

(* A line has been printed to its end.                                     *)
LEMMA LineEnds ==
  ASSUME IInv, pc \in {"help", "print"}, at > Width, Idle(pc'), pc' # "exited",
         UNCHANGED << due, obuf, oerr, written >>
  PROVE  OutputOwed'
<1>1. Passed = Owed
  BY PrintingEnds DEF IInv, TypeOK
<1>2. Passed' = Owed' /\ Owed' = Owed /\ Kept' = Kept
  BY IdlePassed DEF Owed, Kept
<1>3. QED
  BY <1>1, <1>2, Zenon DEF IInv, OutputOwed

LEMMA HelpEndsPreserves == ASSUME IInv, HelpEnds PROVE IInv'
<1>1. /\ pc = "help" /\ at > Width /\ pc' = "final"
      /\ operands' = operands /\ i' = i /\ in' = in /\ stdin' = stdin
      /\ absorbed' = absorbed /\ got' = got /\ own' = own /\ due' = due
      /\ at' = at /\ obuf' = obuf /\ oerr' = oerr /\ written' = written
      /\ errno' = errno /\ out_err' = out_err
      /\ reported' = reported /\ status' = status
  BY DEF HelpEnds, reading, stdout, reasons
<1>2. due = << HelpLine >>
  BY <1>1 DEF IInv, DueInOrder
<1>3. TypeOK'
  BY <1>1 DEF IInv, TypeOK
<1>4. LoopHolds' /\ Accounted' /\ StatusTells'
  BY <1>1, <1>2 DEF IInv, LoopHolds, Accounted, StatusTells
<1>5. DueInOrder'
  BY <1>1 DEF IInv, DueInOrder
<1>6. OutputOwed'
  BY <1>1, LineEnds DEF Idle
<1>7. ReasonKept'
  BY <1>1, <1>2 DEF IInv, ReasonKept
<1>8. QED
  BY <1>3, <1>4, <1>5, <1>6, <1>7 DEF IInv

LEMMA PrintEndsPreserves == ASSUME IInv, PrintEnds PROVE IInv'
<1>1. /\ pc = "print" /\ at > Width /\ AfterOperand
      /\ operands' = operands /\ in' = in /\ stdin' = stdin
      /\ absorbed' = absorbed /\ got' = got /\ own' = own /\ due' = due
      /\ at' = at /\ obuf' = obuf /\ oerr' = oerr /\ written' = written
      /\ errno' = errno /\ reported' = reported /\ status' = status
  BY DEF PrintEnds, reading, stdout
<1>2. /\ operands \in Seq({Dash, File}) /\ i \in Nat \ {0} /\ i <= Len(Inputs)
      /\ oerr \in BOOLEAN /\ out_err \in {"none", "write"} /\ (oerr => errno = "write")
  BY <1>1 DEF IInv, TypeOK, LoopHolds, ReasonKept
<1>3. /\ i' \in Nat \ {0} /\ Inputs' = Inputs
      /\ \/ /\ pc' = "next" /\ i' = i + 1 /\ i' <= Len(Inputs) + 1
            /\ oerr' => i' = Len(Inputs) + 1 /\ operands = << >>
            /\ out_err' = out_err
         \/ /\ pc' = "final" /\ i' = i /\ oerr'
            /\ operands # << >> /\ out_err' = errno'
  BY <1>1, <1>2, AfterRight
<1>4. TypeOK'
  BY <1>1, <1>3 DEF IInv, TypeOK
<1>5. LoopHolds'
  BY <1>1, <1>3 DEF LoopHolds
<1>6. DueInOrder'
  BY <1>1, <1>3 DEF IInv, DueInOrder
<1>7. OutputOwed'
  <2>1. Idle(pc') /\ pc' # "exited"
    BY <1>3 DEF Idle
  <2>2. QED
    BY <1>1, <2>1, LineEnds
<1>8. ReasonKept'
  BY <1>1, <1>2, <1>3 DEF ReasonKept
<1>9. Accounted'
  <2>1. CASE oerr'
    BY <2>1 DEF Accounted
  <2>2. CASE ~oerr'
    <3>1. Len(due) + Len(reported) = i
      <4>1. Len(due) + Len(reported) = Handled
        BY <1>1, <2>2, Zenon DEF IInv, Accounted
      <4>2. Handled = i
        BY <1>1, Zenon DEF Handled
      <4>3. QED
        BY <4>1, <4>2
    <3>2. Handled' = i
      <4>1. pc' = "next" /\ i' = i + 1
        BY <1>3, <2>2, Zenon
      <4>2. Handled' = i' - 1
        BY <4>1, Zenon DEF Handled
      <4>3. QED
        BY <1>2, <4>1, <4>2, SMT
    <3>3. QED
      BY <1>1, <3>1, <3>2 DEF Accounted
  <2>3. QED
    BY <2>1, <2>2
<1>10. StatusTells'
  BY <1>1, <1>3 DEF IInv, StatusTells
<1>11. QED
  BY <1>4, <1>5, <1>6, <1>7, <1>8, <1>9, <1>10 DEF IInv

(* The steps of main outside the operands.                                 *)
LEMMA InitEstablishes == Init => IInv
<1> SUFFICES ASSUME Init PROVE IInv
  OBVIOUS
<1>1. /\ pc = "parse" /\ i = 1 /\ in = NoFlags /\ stdin = NoFlags
      /\ absorbed = << >> /\ got = << >> /\ own = FALSE /\ due = << >> /\ at = 1
      /\ obuf = << >> /\ oerr = FALSE /\ written = << >>
      /\ errno = "none" /\ out_err = "none"
      /\ reported = << >> /\ status = 0
  BY DEF Init
<1>2. operands \in Seq({Dash, File})
  <2>1. PICK k \in 0 .. MaxOperands : operands \in [1 .. k -> {Dash, File}]
    BY DEF Init
  <2>2. k \in Nat
    BY SMT
  <2>3. QED
    BY <2>1, <2>2, SMT
<1>3. /\ NoFlags \in Indicators /\ << >> \in Pieces /\ << >> \in Seq(Lines)
      /\ << >> \in Seq(Bytes) /\ << >> \in Seq(Diagnostics)
  BY EmptySeq DEF NoFlags, Indicators, Pieces
<1>4. TypeOK
  <2>1. 1 \in Nat \ {0} /\ 0 \in 0 .. 2 /\ 1 \in 1 .. Width + 1
    BY HayasumAssumption, SMT
  <2>2. QED
    BY <1>1, <1>2, <1>3, <2>1, Zenon DEF TypeOK, Errnos
<1>5. Len(<< >>) = 0 /\ 1 .. 0 = {}
  BY EmptySeq, SMT
<1>6. LoopHolds /\ StatusTells /\ ReasonKept
  BY <1>1 DEF LoopHolds, StatusTells, ReasonKept
<1>7. DueInOrder
  BY <1>1, <1>5, Zenon DEF DueInOrder
<1>8. OutputOwed
  <2>1. Kept = << >>
    BY <1>1, <1>3, ConcatEmptySeq DEF Kept
  <2>2. Elements(Kept) = {} /\ InOrder(Kept)
    BY <1>5, <2>1, Zenon DEF Elements, InOrder
  <2>3. Passed = {}
    <3>1. Passed = Owed
      BY <1>1, IdlePassed DEF Idle
    <3>2. Owed = {}
      <4>1. 1 .. Len(due) = {}
        BY <1>1, <1>5
      <4>2. QED
        BY <4>1, NothingOwed
    <3>3. QED
      BY <3>1, <3>2
  <2>4. QED
    BY <1>1, <2>2, <2>3 DEF OutputOwed
<1>9. Accounted
  <2>1. Handled = i - 1
    BY <1>1, Zenon DEF Handled
  <2>2. Len(due) + Len(reported) = i - 1
    BY <1>1, <1>5, SMT
  <2>3. QED
    BY <2>1, <2>2 DEF Accounted
<1>10. QED
  BY <1>4, <1>6, <1>7, <1>8, <1>9 DEF IInv

(* Before the first operand nothing is owed, printed or reported.          *)
LEMMA AtParse ==
  ASSUME IInv, pc = "parse"
  PROVE  /\ i = 1 /\ ~oerr /\ due = << >> /\ reported = << >> /\ status = 0
         /\ obuf = << >>
<1>1. i = 1 /\ ~oerr
  BY DEF IInv, LoopHolds
<1>2. /\ due \in Seq(Lines) /\ reported \in Seq(Diagnostics)
      /\ written \in Seq(Bytes) /\ obuf \in Seq(Bytes)
  BY DEF IInv, TypeOK
<1>3. Len(due) + Len(reported) = 0
  <2>1. Len(due) + Len(reported) = Handled
    BY <1>1, Zenon DEF IInv, Accounted
  <2>2. Handled = i - 1
    BY Zenon DEF Handled
  <2>3. QED
    BY <1>1, <2>1, <2>2, SMT
<1>4. due = << >> /\ reported = << >>
  <2>1. Len(due) \in Nat /\ Len(reported) \in Nat
    BY <1>2, LenProperties
  <2>2. Len(due) = 0 /\ Len(reported) = 0
    BY <1>3, <2>1, SMT
  <2>3. QED
    BY <1>2, <2>2, EmptySeq, SMT
<1>5. obuf = << >>
  <2>1. Elements(Kept) = Owed
    BY <1>1, IdlePassed DEF IInv, OutputOwed, Idle
  <2>2. Owed = {}
    <3>1. 1 .. Len(due) = {}
      BY <1>4, EmptySeq, SMT
    <3>2. QED
      BY <3>1, NothingOwed
  <2>3. Kept \in Seq(Bytes) /\ Len(Kept) \in Nat
    BY <1>2, ConcatProperties, LenProperties DEF Kept
  <2>4. Len(Kept) = 0
    <3>1. 1 \in 1 .. Len(Kept) => Kept[1] \in Elements(Kept)
      BY DEF Elements
    <3>2. 1 \notin 1 .. Len(Kept)
      BY <2>1, <2>2, <3>1
    <3>3. QED
      BY <2>3, <3>2, SMT
  <2>5. Kept = << >>
    BY <2>3, <2>4, EmptySeq, SMT
  <2>6. QED
    BY <1>2, <2>5, ConcatEqualIffEmpty, ConcatProperties, LenProperties, EmptySeq, <2>4 DEF Kept
<1>6. QED
  BY <1>1, <1>4, <1>5 DEF IInv, StatusTells

LEMMA ParseRunPreserves == ASSUME IInv, ParseRun PROVE IInv'
<1>1. /\ pc = "parse" /\ pc' = "open" /\ UNCHANGED << operands, i, reported, status >>
      /\ UNCHANGED << in, stdin, absorbed, got, own, due, obuf, oerr, written >>
      /\ UNCHANGED << at, errno, out_err >>
  BY DEF ParseRun, reading, stdout, reasons
<1>2. Inputs' = Inputs /\ 1 <= Len(Inputs)
  <2>1. Len(Inputs) \in Nat \ {0}
    BY InputsType DEF IInv, TypeOK
  <2>2. QED
    BY <1>1, <2>1, SMT DEF Inputs
<1>3. i = 1 /\ ~oerr
  BY <1>1, AtParse
<1>4. TypeOK'
  BY <1>1 DEF IInv, TypeOK
<1>5. LoopHolds' /\ ReasonKept'
  BY <1>1, <1>2, <1>3 DEF IInv, LoopHolds, ReasonKept
<1>6. DueInOrder' /\ StatusTells'
  BY <1>1 DEF IInv, DueInOrder, StatusTells
<1>7. OutputOwed'
  <2>1. Idle(pc) /\ Idle(pc')
    BY <1>1 DEF Idle
  <2>2. QED
    BY <1>1, <2>1, IdleOutput DEF IInv
<1>8. Accounted'
  <2>1. Len(due) + Len(reported) = Handled
    BY <1>1, <1>3, Zenon DEF IInv, Accounted
  <2>2. Handled' = Handled
    BY <1>1, Zenon DEF Handled
  <2>3. QED
    BY <1>1, <2>1, <2>2 DEF Accounted
<1>9. QED
  BY <1>4, <1>5, <1>6, <1>7, <1>8 DEF IInv

LEMMA ParseHelpPreserves == ASSUME IInv, ParseHelp PROVE IInv'
<1>1. /\ pc = "parse" /\ pc' = "help" /\ due' = << HelpLine >> /\ at' = 1
      /\ UNCHANGED << operands, i, reported, status, errno, out_err >>
      /\ UNCHANGED << in, stdin, absorbed, got, own, obuf, oerr, written >>
  BY DEF ParseHelp, stdout, reasons
<1>2. /\ i = 1 /\ ~oerr /\ due = << >> /\ reported = << >> /\ status = 0
  BY <1>1, AtParse
<1>3. due \in Seq(Lines) /\ HelpLine \in Lines
  BY LineType DEF IInv, TypeOK
<1>4. due' = Append(due, HelpLine) /\ due' \in Seq(Lines) /\ Len(due') = 1 /\ due'[1] = HelpLine
  BY <1>1, <1>2, <1>3, SMT
<1>5. TypeOK'
  <2>1. 1 \in 1 .. Width + 1
    BY HayasumAssumption, SMT
  <2>2. QED
    BY <1>1, <1>4, <2>1 DEF IInv, TypeOK
<1>6. LoopHolds' /\ StatusTells' /\ Accounted' /\ ReasonKept'
  BY <1>1, <1>2 DEF IInv, LoopHolds, StatusTells, Accounted, ReasonKept
<1>7. Printing' = HelpLine
  BY <1>1 DEF Printing
<1>8. DueInOrder'
  <2>1. ASSUME NEW m \in 1 .. Len(due'), NEW n \in 1 .. Len(due') PROVE ~(m < n)
    BY <1>4, SMT
  <2>2. Len(due') > 0 /\ due'[Len(due')] = HelpLine
    BY <1>4, SMT
  <2>3. QED
    BY <1>1, <1>7, <2>1, <2>2 DEF DueInOrder
<1>9. OutputOwed'
  <2>1. Idle(pc) /\ ~Idle(pc')
    BY <1>1 DEF Idle
  <2>2. \A m \in 1 .. Len(due) : due[m] # HelpLine
    <3>1. 1 .. Len(due) = {}
      BY <1>2, EmptySeq, SMT
    <3>2. QED
      BY <3>1
  <2>3. Passed' = Passed
    BY <1>1, <1>3, <1>4, <1>7, <2>1, <2>2, PrintingBegins
  <2>4. Kept' = Kept
    BY <1>1 DEF Kept
  <2>5. QED
    BY <1>1, <2>3, <2>4, Zenon DEF IInv, OutputOwed
<1>10. QED
  BY <1>5, <1>6, <1>8, <1>9 DEF IInv

LEMMA ParseUsageErrorPreserves == ASSUME IInv, ParseUsageError PROVE IInv'
<1>1. /\ pc = "parse" /\ pc' = "exited" /\ status' = 2
      /\ reported' = Append(reported, Usage) /\ UNCHANGED << operands, i >>
      /\ UNCHANGED << in, stdin, absorbed, got, own, due, obuf, oerr, written >>
      /\ UNCHANGED << at, errno, out_err >>
  BY DEF ParseUsageError, reading, stdout, reasons
<1>2. ~oerr /\ due = << >> /\ reported = << >> /\ obuf = << >>
  BY <1>1, AtParse
<1>3. reported' \in Seq(Diagnostics) /\ reported' # << >>
  BY <1>1, LineType, ReportLonger DEF IInv, TypeOK
<1>4. TypeOK'
  BY <1>1, <1>3, SMT DEF IInv, TypeOK
<1>5. reported' = << Usage >>
  BY <1>1, <1>2
<1>6. LoopHolds' /\ Accounted' /\ StatusTells' /\ ReasonKept'
  BY <1>1, <1>2, <1>5, <1>3 DEF IInv, LoopHolds, Accounted, StatusTells, ReasonKept
<1>7. DueInOrder'
  BY <1>1 DEF IInv, DueInOrder
<1>8. OutputOwed'
  <2>1. Idle(pc) /\ Idle(pc')
    BY <1>1 DEF Idle
  <2>2. QED
    BY <1>1, <1>2, <2>1, IdleOutput DEF IInv
<1>9. QED
  BY <1>4, <1>6, <1>7, <1>8 DEF IInv

LEMMA NextOperandPreserves == ASSUME IInv, NextOperand PROVE IInv'
<1>1. /\ pc = "next" /\ UNCHANGED << operands, i, reported, status >>
      /\ UNCHANGED << in, stdin, absorbed, got, own, due, obuf, oerr, written >>
      /\ UNCHANGED << at, errno, out_err >>
      /\ pc' = IF i > Len(Inputs) THEN "final" ELSE "open"
  BY DEF NextOperand, reading, stdout, reasons
<1>2. Inputs' = Inputs /\ Len(Inputs) \in Nat
  <2>1. Len(Inputs) \in Nat \ {0}
    BY InputsType DEF IInv, TypeOK
  <2>2. QED
    BY <1>1, <2>1, SMT DEF Inputs
<1>3. /\ i <= Len(Inputs) + 1 /\ i \in Nat
      /\ oerr => i = Len(Inputs) + 1 /\ operands = << >>
  BY <1>1 DEF IInv, LoopHolds, TypeOK
<1>4. \/ i = Len(Inputs) + 1 /\ pc' = "final"
      \/ i <= Len(Inputs) /\ ~oerr /\ pc' = "open"
  <2>1. CASE i > Len(Inputs)
    BY <1>1, <1>2, <1>3, <2>1, SMT
  <2>2. CASE ~(i > Len(Inputs))
    BY <1>1, <1>2, <1>3, <2>2, SMT
  <2>3. QED
    BY <2>1, <2>2
<1>5. TypeOK'
  BY <1>1, <1>4 DEF IInv, TypeOK
<1>6. LoopHolds' /\ ReasonKept'
  BY <1>1, <1>2, <1>3, <1>4 DEF IInv, LoopHolds, ReasonKept
<1>7. DueInOrder' /\ StatusTells'
  BY <1>1, <1>4 DEF IInv, DueInOrder, StatusTells
<1>8. OutputOwed'
  <2>1. Idle(pc) /\ Idle(pc') /\ pc' # "exited"
    BY <1>1, <1>4 DEF Idle
  <2>2. QED
    BY <1>1, <2>1, IdleOutput DEF IInv
<1>9. Accounted'
  <2>1. ~oerr => Len(due) + Len(reported) = Handled
    BY <1>1, Zenon DEF IInv, Accounted
  <2>2. Handled = i - 1
    BY <1>1, Zenon DEF Handled
  <2>3. Handled' = i - 1
    <3>1. CASE pc' = "open"
      BY <1>1, <3>1, Zenon DEF Handled
    <3>2. CASE pc' = "final"
      <4>1. i = Len(Inputs) + 1
        BY <1>4, <3>2
      <4>2. i - 1 = Len(Inputs)
        BY <1>2, <4>1, SMT
      <4>3. Handled' = Len(Inputs)
        BY <1>2, <3>2, Zenon DEF Handled
      <4>4. QED
        BY <4>2, <4>3
    <3>3. QED
      BY <1>4, <3>1, <3>2
  <2>4. QED
    BY <1>1, <2>1, <2>2, <2>3 DEF Accounted
<1>10. QED
  BY <1>5, <1>6, <1>7, <1>8, <1>9 DEF IInv

LEMMA FinalPreserves == ASSUME IInv, Final PROVE IInv'
<1>1. /\ pc = "final" /\ pc' = "exited" /\ UNCHANGED << operands, i >>
      /\ UNCHANGED << in, stdin, absorbed, got, own, due, at, out_err >>
  BY DEF Final, reading
<1>2. PICK ok \in BOOLEAN :
        /\ Flush(obuf, ok)
        /\ IF StdoutFailed(ok)
           THEN reported' = Append(reported, Output(Carried(ok))) /\ status' = 1
           ELSE UNCHANGED << reported, status >>
  BY DEF Final
<1>3. /\ StdoutType /\ obuf \in Seq(Bytes) /\ due \in Seq(Lines)
      /\ reported \in Seq(Diagnostics) /\ status \in 0 .. 2
  BY DEF IInv, TypeOK, StdoutType
<1>4. Flushed(obuf, ok)
  BY <1>2, <1>3, FlushRight
<1>5. /\ StdoutType' /\ (oerr => oerr') /\ (StdoutFailed(ok) <=> oerr')
      /\ ~oerr' => ok /\ ~oerr /\ Kept' = Kept /\ obuf' = << >>
      /\ Starts(Kept', Kept)
  BY <1>4 DEF Flushed, StdoutFailed, Kept
<1>6. oerr' /\ ok => oerr
  BY <1>4 DEF Flushed
<1>7. oerr' => /\ Carried(ok) \in Errnos
               /\ \/ Carried(ok) = "write"
                  \/ (operands = << >> \/ due = << HelpLine >>) /\ Carried(ok) = "none"
  <2>1. /\ out_err \in {"none", "write"}
        /\ oerr => out_err = "write" \/ operands = << >> \/ due = << HelpLine >>
    BY <1>1 DEF IInv, ReasonKept
  <2>2. CASE ok
    BY <1>6, <2>1, <2>2 DEF Carried, Errnos
  <2>3. CASE ~ok
    BY <2>3 DEF Carried, Errnos
  <2>4. QED
    BY <2>2, <2>3
<1>8. /\ reported' \in Seq(Diagnostics) /\ status' \in 0 .. 2
      /\ oerr' => ToldOfStdout'
  <2>1. CASE oerr'
    <3>1. reported' = Append(reported, Output(Carried(ok))) /\ status' = 1
      BY <1>2, <1>5, <2>1
    <3>2. Output(Carried(ok)) \in Diagnostics
      BY <1>7, <2>1, LineType
    <3>3. /\ reported' \in Seq(Diagnostics) /\ reported' # << >>
          /\ reported'[Len(reported')] = Output(Carried(ok))
      BY <1>3, <3>1, <3>2, ReportLonger
    <3>4. ToldOfStdout'
      BY <1>1, <1>7, <2>1, <3>1, <3>3 DEF ToldOfStdout
    <3>5. QED
      BY <3>1, <3>3, <3>4, SMT
  <2>2. CASE ~oerr'
    BY <1>2, <1>3, <1>5, <2>2
  <2>3. QED
    BY <2>1, <2>2
<1>9. TypeOK'
  BY <1>1, <1>5, <1>8 DEF IInv, TypeOK, StdoutType
<1>10. LoopHolds' /\ ReasonKept'
  BY <1>1 DEF IInv, LoopHolds, ReasonKept
<1>11. DueInOrder'
  BY <1>1 DEF IInv, DueInOrder
<1>12. OutputOwed'
  <2>1. Passed' = Owed /\ Passed = Owed
    <3>1. Idle(pc) /\ Idle(pc') /\ Owed' = Owed
      BY <1>1 DEF Idle, Owed
    <3>2. QED
      BY <3>1, IdlePassed
  <2>2. Kept \in Seq(Bytes) /\ Kept' \in Seq(Bytes)
    BY <1>3, <1>5, ConcatProperties DEF StdoutType, Kept
  <2>3. /\ Elements(Kept') \subseteq Elements(Kept)
        /\ InOrder(Kept) => InOrder(Kept')
    BY <1>5, <2>2, StartInherits
  <2>4. /\ InOrder(Kept) /\ Elements(Kept) \subseteq Owed
        /\ ~oerr => Elements(Kept) = Owed
    BY <2>1 DEF IInv, OutputOwed
  <2>5. Elements(Kept') \subseteq Owed /\ InOrder(Kept')
    BY <2>3, <2>4
  <2>6. ~oerr' => Elements(Kept') = Owed /\ obuf' = << >>
    BY <1>5, <2>4
  <2>7. QED
    BY <2>1, <2>5, <2>6 DEF OutputOwed
<1>13. Accounted'
  <2>1. CASE oerr'
    BY <2>1 DEF Accounted
  <2>2. CASE ~oerr'
    <3>1. Inputs' = Inputs
      BY <1>1 DEF Inputs
    <3>2. ~oerr /\ reported' = reported /\ due' = due
      BY <1>1, <1>2, <1>5, <2>2, Zenon
    <3>3. Handled' = Handled
      BY <1>1, <3>1, Zenon DEF Handled
    <3>4. QED
      BY <1>1, <3>2, <3>3 DEF IInv, Accounted
  <2>3. QED
    BY <2>1, <2>2
<1>14. StatusTells'
  <2>1. CASE oerr'
    <3>1. ToldOfStdout'
      BY <1>8, <2>1
    <3>2. reported' # << >> /\ status' # 0
      BY <3>1, SMT DEF ToldOfStdout
    <3>3. QED
      BY <3>1, <3>2 DEF StatusTells
  <2>2. CASE ~oerr'
    BY <1>2, <1>5, <2>2 DEF StatusTells, IInv
  <2>3. QED
    BY <2>1, <2>2
<1>15. QED
  BY <1>9, <1>10, <1>11, <1>12, <1>13, <1>14 DEF IInv

LEMMA NextPreserves == IInv /\ [Next]_vars => IInv'
<1> SUFFICES ASSUME IInv, [Next]_vars PROVE IInv'
  OBVIOUS
<1>1. CASE ParseRun \/ ParseHelp \/ ParseUsageError
  BY <1>1, ParseRunPreserves, ParseHelpPreserves, ParseUsageErrorPreserves
<1>2. CASE NextOperand \/ Open \/ OpenFails
  BY <1>2, NextOperandPreserves, OpenPreserves, OpenFailsPreserves
<1>3. CASE ReadOn \/ ReadFails \/ ReadEnds
  BY <1>3, ReadOnPreserves, ReadFailsPreserves, ReadEndsPreserves
<1>4. CASE PrintByte \/ HelpEnds \/ PrintEnds \/ Final
  BY <1>4, PrintBytePreserves, HelpEndsPreserves, PrintEndsPreserves, FinalPreserves
<1>5. CASE UNCHANGED vars
  <2>1. /\ UNCHANGED << operands, pc, i, at, reported, status, errno, out_err >>
        /\ UNCHANGED << in, stdin, absorbed, got, own, due, obuf, oerr, written >>
    BY <1>5 DEF vars, reading, stdout, reasons
  <2>2. Inputs' = Inputs /\ Printing' = Printing
    BY <2>1 DEF Inputs, Printing
  <2>3. Handled' = Handled
    BY <2>1, <2>2, Zenon DEF Handled
  <2>4. TypeOK' /\ LoopHolds' /\ DueInOrder' /\ ReasonKept'
    BY <2>1, <2>2 DEF IInv, TypeOK, LoopHolds, DueInOrder, ReasonKept
  <2>5. OutputOwed'
    <3>1. Kept' = Kept /\ Owed' = Owed /\ \A x : Remaining(x)' <=> Remaining(x)
      BY <2>1, <2>2 DEF Kept, Owed, Remaining
    <3>2. Passed' = Passed
      BY <3>1, Zenon DEF Passed
    <3>3. QED
      BY <2>1, <3>1, <3>2, Zenon DEF IInv, OutputOwed
  <2>6. Accounted' /\ StatusTells'
    BY <2>1, <2>3 DEF IInv, Accounted, StatusTells, ToldOfStdout
  <2>7. QED
    BY <2>4, <2>5, <2>6 DEF IInv
<1>6. QED
  BY <1>1, <1>2, <1>3, <1>4, <1>5 DEF Next, Exited

(***************************************************************************)
(* The theorems.                                                           *)
(***************************************************************************)

(* Whatever the opens, reads and writes of a command turn out to be, what  *)
(* is owed, buffered, written and reported account for each other.         *)
THEOREM Inductive == Spec => []IInv
<1>1. IInv /\ [Next]_vars => IInv'
  BY NextPreserves
<1>2. QED
  BY InitEstablishes, <1>1, PTL DEF Spec

(* What is out is a part of what was passed to stdio, in its order.        *)
LEMMA WrittenRightly ==
  ASSUME IInv
  PROVE  Elements(written) \subseteq Owed /\ InOrder(written)
<1>1. written \in Seq(Bytes) /\ obuf \in Seq(Bytes) /\ Kept \in Seq(Bytes)
  BY ConcatProperties DEF IInv, TypeOK, Kept
<1>2. Starts(written, Kept)
  <2>1. /\ Len(written) \in Nat /\ Len(obuf) \in Nat
        /\ Len(Kept) = Len(written) + Len(obuf)
        /\ \A k \in 1 .. Len(written) + Len(obuf) :
             Kept[k] = IF k <= Len(written) THEN written[k] ELSE obuf[k - Len(written)]
    BY <1>1, ConcatProperties, LenProperties DEF Kept
  <2>2. /\ Len(written) <= Len(Kept)
        /\ \A k \in 1 .. Len(written) : k \in 1 .. Len(written) + Len(obuf) /\ k <= Len(written)
    BY <2>1, SMT
  <2>3. QED
    BY <2>1, <2>2, Zenon DEF Starts
<1>3. InOrder(Kept) /\ Elements(Kept) \subseteq Owed
  BY DEF IInv, OutputOwed, Passed
<1>4. QED
  BY <1>1, <1>2, <1>3, StartInherits

(* While stdout holds, all of what is owed is out in the end.              *)
LEMMA AllOut ==
  ASSUME IInv, pc = "exited", ~oerr
  PROVE  Elements(written) = Owed /\ InOrder(written)
<1>1. obuf = << >> /\ Elements(Kept) = Passed /\ written \in Seq(Bytes)
  BY DEF IInv, OutputOwed, TypeOK
<1>2. Kept = written
  BY <1>1, ConcatEmptySeq DEF Kept
<1>3. Passed = Owed
  BY IdlePassed DEF Idle
<1>4. QED
  BY <1>1, <1>2, <1>3, WrittenRightly

(* Exit status 0 means that every operand was read to its end and every    *)
(* byte of its line is out.                                                *)
THEOREM ZeroIsSuccess == Spec => []ZeroMeansDelivered
<1>1. IInv => ZeroMeansDelivered
  <2> SUFFICES ASSUME IInv, pc = "exited", status = 0
               PROVE  /\ Elements(written) = Owed /\ InOrder(written)
                      /\ due = << HelpLine >> \/ Len(due) = Len(Inputs)
    BY DEF ZeroMeansDelivered
  <2>1. reported = << >> /\ ~oerr
    BY DEF IInv, StatusTells, ToldOfStdout
  <2>2. Elements(written) = Owed /\ InOrder(written)
    BY <2>1, AllOut
  <2>3. due = << HelpLine >> \/ Len(due) = Len(Inputs)
    <3>1. CASE due # << HelpLine >>
      <4>1. Len(due) + Len(reported) = Handled
        BY <2>1, <3>1, SMT DEF IInv, Accounted
      <4>2. Handled = Len(Inputs)
        BY Zenon DEF Handled
      <4>3. Len(due) \in Nat /\ Len(reported) = 0
        BY <2>1, LenProperties, EmptySeq DEF IInv, TypeOK
      <4>4. QED
        BY <4>1, <4>2, <4>3, SMT
    <3>2. QED
      BY <3>1
  <2>4. QED
    BY <2>2, <2>3
<1>2. QED
  BY Inductive, <1>1, PTL

(* Nothing is ever on standard output but bytes of the lines of inputs     *)
(* read to their ends, each once and in order, and a line that is not      *)
(* whole at exit is told of, last and with status 1.                       *)
THEOREM NothingTorn == Spec => []TornIsTold
<1>1. IInv => TornIsTold
  <2> SUFFICES ASSUME IInv PROVE TornIsTold
    OBVIOUS
  <2>1. Elements(written) \subseteq Owed /\ InOrder(written)
    BY WrittenRightly
  <2>2. ASSUME pc = "exited", Elements(written) # Owed
        PROVE  status = 1 /\ \E reason \in Errnos : reported[Len(reported)] = Output(reason)
    <3>1. oerr
      BY <2>2, AllOut
    <3>2. ToldOfStdout
      BY <2>2, <3>1 DEF IInv, StatusTells
    <3>3. "write" \in Errnos /\ "none" \in Errnos
      BY DEF Errnos
    <3>4. QED
      BY <3>2, <3>3, Zenon DEF ToldOfStdout
  <2>3. QED
    BY <2>1, <2>2 DEF TornIsTold
<1>2. QED
  BY Inductive, <1>1, PTL

(* A status that is not 0 has its diagnostic and the other way round, a    *)
(* broken stdout is reported last, and no input goes without an answer.    *)
THEOREM NothingSilent == Spec => []FailuresReported
<1>1. IInv => FailuresReported
  <2> SUFFICES ASSUME IInv, pc = "exited"
               PROVE  /\ status # 0 <=> reported # << >>
                      /\ oerr => ToldOfStdout
                      /\ reported # << Usage >> /\ due # << HelpLine >> /\ ~oerr =>
                           Len(due) + Len(reported) = Len(Inputs)
    BY Zenon DEF FailuresReported, ToldOfStdout
  <2>1. /\ status # 0 <=> reported # << >>
        /\ oerr => ToldOfStdout
    BY DEF IInv, StatusTells
  <2>2. ASSUME reported # << Usage >>, due # << HelpLine >>, ~oerr
        PROVE  Len(due) + Len(reported) = Len(Inputs)
    <3>1. Len(due) + Len(reported) = Handled
      BY <2>2 DEF IInv, Accounted
    <3>2. Handled = Len(Inputs)
      BY Zenon DEF Handled
    <3>3. QED
      BY <3>1, <3>2
  <2>3. QED
    BY <2>1, <2>2
<1>2. QED
  BY Inductive, <1>1, PTL

(* An operand is reported only for what happened while it was read, an     *)
(* earlier "-" that failed notwithstanding.                                *)
THEOREM NoInheritedFailure == Spec => FailureIsOwn
<1>1. IInv /\ [Next]_vars => (reported' # reported /\ pc \in {"open", "read"} => own')
  <2> SUFFICES ASSUME IInv, [Next]_vars, reported' # reported, pc \in {"open", "read"}
               PROVE  own'
    OBVIOUS
  <2>1. OpenFails \/ ReadFails
    BY DEF Next, vars, ParseRun, ParseHelp, ParseUsageError, NextOperand, Open,
           ReadOn, ReadEnds, PrintByte, HelpEnds, PrintEnds, Final, Exited
  <2>2. CASE OpenFails
    BY <2>2 DEF OpenFails
  <2>3. CASE ReadFails
    <3>1. PICK r \in FreadResults :
            /\ Fread(r) /\ (in'.err \/ (r.n = "none" /\ ~in'.eof))
            /\ own' = (r.err \/ (r.n = "none" /\ ~r.eof))
      BY <2>3 DEF ReadFails
    <3>2. in'.err = r.err /\ in'.eof = r.eof
      BY <3>1, FreadRight
    <3>3. QED
      BY <3>1, <3>2, Zenon
  <2>4. QED
    BY <2>1, <2>2, <2>3
<1>2. QED
  BY Inductive, <1>1, PTL DEF Spec, FailureIsOwn

(* No input is opened once standard output is known to be broken.          *)
THEOREM NoUselessReading == Spec => StopsWhenBroken
<1>1. IInv => (pc' = "read" /\ pc = "open" => ~oerr)
  BY DEF IInv, LoopHolds
<1>2. QED
  BY Inductive, <1>1, PTL DEF Spec, StopsWhenBroken

(***************************************************************************)
(* Texts.                                                                  *)
(***************************************************************************)

(* Induction over the natural numbers, for a set of them.                  *)
LEMMA SetInduction ==
  ASSUME NEW S, 0 \in S, \A n \in Nat : n \in S => n + 1 \in S
  PROVE  Nat \subseteq S
<1> DEFINE T == Nat \ S
<1> SUFFICES ASSUME T # {} PROVE FALSE
  BY DEF T
<1>1. PICK x \in T : \A y \in T : ~ (<< y, x >> \in OpToRel(<, Nat))
  <2>1. IsWellFoundedOn(OpToRel(<, Nat), Nat)
    BY NatLessThanWellFounded
  <2>2. T \subseteq Nat
    BY DEF T
  <2> HIDE DEF T
  <2>3. QED
    BY <2>1, <2>2, WFMin
<1>2. x \in Nat /\ x # 0 /\ x - 1 \in Nat /\ x - 1 < x /\ (x - 1) + 1 = x
  BY SMT DEF T
<1>3. x - 1 \notin T
  BY <1>1, <1>2 DEF OpToRel, T
<1>4. QED
  BY <1>2, <1>3 DEF T

LEMMA Joined ==
  ASSUME NEW C, NEW s \in Seq(C), NEW t \in Seq(C)
  PROVE  /\ s \o t \in Seq(C)
         /\ Len(s \o t) = Len(s) + Len(t)
         /\ \A k \in 1 .. Len(s) : (s \o t)[k] = s[k]
         /\ \A k \in 1 .. Len(t) : (s \o t)[Len(s) + k] = t[k]
<1>1. Len(s) \in Nat /\ Len(t) \in Nat
  BY LenProperties
<1>2. QED
  BY <1>1, SMT

LEMMA FromRight ==
  ASSUME NEW C, NEW s \in Seq(C), NEW k \in 1 .. Len(s) + 1
  PROVE  /\ From(s, k) \in Seq(C)
         /\ Len(From(s, k)) = Len(s) - k + 1
         /\ \A j \in 1 .. Len(s) - k + 1 : From(s, k)[j] = s[k + j - 1]
<1>1. Len(s) \in Nat
  BY LenProperties
<1>2. QED
  BY <1>1, SMT DEF From

LEMMA SuffixOf ==
  ASSUME NEW C, NEW s \in Seq(C)
  PROVE  /\ s \in Suffixes(s)
         /\ \A k \in 1 .. Len(s) + 1 : From(s, k) \in Suffixes(s)
         /\ \A t \in Suffixes(s) : t \in Seq(C)
<1>1. Len(s) \in Nat
  BY LenProperties
<1>2. ASSUME NEW k \in 1 .. Len(s) + 1 PROVE From(s, k) \in Suffixes(s)
  <2>1. CASE k = Len(s) + 1
    <3>1. From(s, k) = << >>
      BY <1>1, <2>1, SMT DEF From
    <3>2. QED
      BY <3>1 DEF Suffixes
  <2>2. CASE k \in 1 .. Len(s)
    BY <2>2 DEF Suffixes, From
  <2>3. QED
    BY <1>1, <2>1, <2>2, SMT
<1>3. s \in Suffixes(s)
  <2>1. From(s, 1) = s
    BY SubSeqFull DEF From
  <2>2. 1 \in 1 .. Len(s) + 1
    BY <1>1, SMT
  <2>3. QED
    BY <1>2, <2>1, <2>2
<1>4. ASSUME NEW t \in Suffixes(s) PROVE t \in Seq(C)
  <2>1. << >> \in Seq(C)
    BY EmptySeq
  <2>2. ASSUME NEW l \in 1 .. Len(s) PROVE SubSeq(s, l, Len(s)) \in Seq(C)
    BY <1>1, <2>2, SMT
  <2>3. QED
    BY <2>1, <2>2 DEF Suffixes
<1>5. QED
  BY <1>2, <1>3, <1>4

(***************************************************************************)
(* Diagnostics.                                                            *)
(***************************************************************************)
Printable(tok, text) ==
  /\ Len(tok) \in 1 .. TokMax + 1
  /\ \A k \in DOMAIN tok : tok[k] \notin Control
  /\ \A k \in DOMAIN tok : tok[k] = NUL <=> k = Len(tok)
  /\ Shows(tok, text)

(* Any text, of any length: what is quoted of it is printable, ends where  *)
(* it should and shows it.                                                 *)
LEMMA QuoteRight ==
  ASSUME NEW text \in Texts
  PROVE  Printable(Token(text), text)
<1> DEFINE n == IF Len(text) < TokMax THEN Len(text) ELSE TokMax
           shown == [k \in 1 .. n |-> Shown(text[k])]
           cut == IF Len(text) > n /\ n >= 3
                  THEN SubSeq(shown, 1, n - 3) \o << ".", ".", "." >> ELSE shown
<1>1. /\ Len(text) \in Nat /\ TokMax \in Nat /\ TokMax >= 3
      /\ n \in Nat /\ n <= TokMax /\ n <= Len(text)
      /\ n < Len(text) => n = TokMax
  BY TextAssumption, LenProperties, SMT DEF Texts
<1> DEFINE Out == Chars \cup {".", "?"}
<1>2. Token(text) = cut \o << NUL >>
  <2>1. TokMax + 1 # 0 /\ (TokMax + 1) - 1 = TokMax /\ ~ (TokMax > TokMax)
    BY <1>1, SMT
  <2>2. QuoteCap(TokMax + 1) = TokMax
    BY <2>1 DEF QuoteCap
  <2>3. QED
    BY <2>1, <2>2 DEF Token, Quote
<1>3. ASSUME NEW k \in 1 .. n
      PROVE  /\ text[k] \in Chars
             /\ Shown(text[k]) \in Out \ ({NUL} \cup Control)
  <2>1. k \in DOMAIN text
    BY <1>1, LenProperties, SMT DEF Texts
  <2>2. text[k] \in Chars /\ text[k] # NUL
    BY <2>1, ElementOfSeq, LenProperties, TextAssumption DEF Texts
  <2>3. QED
    BY <2>2 DEF Shown, Control, LF, CR, NUL
<1>4. shown \in Seq(Out) /\ Len(shown) = n /\ \A k \in 1 .. n : shown[k] = Shown(text[k])
  BY <1>1, <1>3, SMT
<1> HIDE DEF n, shown, Out
<1>5. /\ cut \in Seq(Out) /\ Len(cut) = n
      /\ IF Len(text) > n
         THEN /\ \A k \in 1 .. n - 3 : cut[k] = Shown(text[k])
              /\ \A k \in n - 2 .. n : cut[k] = "."
         ELSE \A k \in 1 .. n : cut[k] = Shown(text[k])
  <2>1. CASE Len(text) > n
    <3>1. cut = SubSeq(shown, 1, n - 3) \o << ".", ".", "." >> /\ n >= 3
      BY <1>1, <2>1, SMT
    <3>2. /\ SubSeq(shown, 1, n - 3) \in Seq(Out) /\ Len(SubSeq(shown, 1, n - 3)) = n - 3
          /\ \A k \in 1 .. n - 3 : SubSeq(shown, 1, n - 3)[k] = shown[k]
      BY <1>1, <1>4, <3>1, SMT
    <3> DEFINE front == SubSeq(shown, 1, n - 3)  dots == << ".", ".", "." >>
    <3>3. cut = front \o dots
      BY <3>1
    <3>4. dots \in Seq(Out) /\ Len(dots) = 3 /\ \A k \in 1 .. 3 : dots[k] = "."
      <4>1. "." \in Out
        BY DEF Out
      <4>2. QED
        BY <4>1, SMT
    <3>5. /\ front \in Seq(Out) /\ Len(front) = n - 3
          /\ \A k \in 1 .. n - 3 : front[k] = Shown(text[k])
      <4>1. \A k \in 1 .. n - 3 : k \in 1 .. n
        BY <1>1, SMT
      <4>2. QED
        BY <1>4, <3>2, <4>1
    <3> HIDE DEF front, dots, cut
    <3>6. /\ front \o dots \in Seq(Out) /\ Len(front \o dots) = n
          /\ \A k \in 1 .. n - 3 : (front \o dots)[k] = front[k]
          /\ \A k \in n - 2 .. n : (front \o dots)[k] = "."
      <4>1. /\ Len(front) + 3 = n
            /\ \A k \in n - 2 .. n : k - (n - 3) \in 1 .. 3 /\ k = Len(front) + (k - (n - 3))
        BY <1>1, <3>1, <3>5, SMT
      <4>2. /\ front \o dots \in Seq(Out) /\ Len(front \o dots) = Len(front) + Len(dots)
            /\ \A k \in 1 .. Len(front) : (front \o dots)[k] = front[k]
            /\ \A k \in 1 .. Len(dots) : (front \o dots)[Len(front) + k] = dots[k]
        <5>1. front \in Seq(Out) /\ dots \in Seq(Out)
          BY <3>4, <3>5
        <5>2. QED
          BY <5>1, Joined
      <4>3. \A k \in 1 .. 3 : (front \o dots)[Len(front) + k] = "."
        BY <3>4, <4>2
      <4>4. ASSUME NEW k \in n - 2 .. n PROVE (front \o dots)[k] = "."
        <5>1. k - (n - 3) \in 1 .. 3 /\ k = Len(front) + (k - (n - 3))
          BY <4>1
        <5>2. QED
          BY <4>3, <5>1
      <4>5. QED
        BY <3>4, <3>5, <4>1, <4>2, <4>4
    <3>7. QED
      BY <2>1, <3>3, <3>4, <3>5, <3>6, Zenon
  <2>2. CASE ~ (Len(text) > n)
    BY <1>4, <2>2 DEF cut
  <2>3. QED
    BY <2>1, <2>2
<1> HIDE DEF cut
<1> DEFINE tok == cut \o << NUL >>
<1>6. /\ Len(tok) = n + 1 /\ DOMAIN tok = 1 .. n + 1
      /\ \A k \in 1 .. n : tok[k] = cut[k]
      /\ tok[n + 1] = NUL
  <2>1. cut \in Seq(Out \cup {NUL}) /\ NUL \in Out \cup {NUL}
    BY <1>5, SeqMonotonic
  <2>2. QED
    BY <1>1, <1>5, <2>1, SMT
<1> HIDE DEF tok
<1>7. ASSUME NEW k \in 1 .. n PROVE tok[k] \in Out \ ({NUL} \cup Control)
  <2>1. cut[k] = Shown(text[k]) \/ cut[k] = "."
    <3>1. k \in 1 .. n - 3 \/ k \in n - 2 .. n
      BY <1>1, SMT
    <3>2. QED
      BY <1>5, <3>1
  <2>2. "." \in Out \ ({NUL} \cup Control)
    BY DEF NUL, Control, LF, CR, Out
  <2>3. QED
    BY <1>3, <1>6, <2>1, <2>2
<1>8. NUL \notin Control
  BY DEF NUL, Control, LF, CR
<1>9. /\ Len(tok) \in 1 .. TokMax + 1
      /\ \A k \in DOMAIN tok : tok[k] \notin Control
      /\ \A k \in DOMAIN tok : tok[k] = NUL <=> k = Len(tok)
  <2>1. n + 1 \in 1 .. TokMax + 1 /\ \A k \in 1 .. n + 1 : (k \in 1 .. n <=> k # n + 1)
    BY <1>1, SMT
  <2>2. QED
    BY <1>6, <1>7, <1>8, <2>1
<1>10. Shows(tok, text)
  <2>1. (n + 1) - 1 = n /\ n - 3 \in Int
    BY <1>1, SMT
  <2>2. CASE Len(text) > n
    <3>1. n = TokMax /\ n < Len(text) /\ 1 .. n - 3 \subseteq 1 .. n /\ n - 2 .. n \subseteq 1 .. n
      BY <1>1, <2>2, SMT
    <3>2. \A k \in 1 .. n - 3 : tok[k] = Shown(text[k])
      BY <1>5, <1>6, <2>2, <3>1
    <3>3. \A k \in n - 2 .. n : tok[k] = "."
      BY <1>5, <1>6, <2>2, <3>1
    <3>4. QED
      BY <1>6, <2>1, <3>1, <3>2, <3>3 DEF Shows, Shown
  <2>3. CASE ~ (Len(text) > n)
    <3>1. n = Len(text)
      BY <1>1, <2>3, SMT
    <3>2. \A k \in 1 .. n : tok[k] = Shown(text[k])
      BY <1>5, <1>6, <2>3
    <3>3. QED
      BY <1>1, <1>6, <2>1, <3>1, <3>2 DEF Shows, Shown
  <2>4. QED
    BY <2>2, <2>3
<1>11. QED
  BY <1>2, <1>9, <1>10 DEF Printable, tok

(***************************************************************************)
(* Recursive functions: they exist, by SetInduction, and what holds at 0   *)
(* and passes on holds everywhere.                                         *)
(***************************************************************************)
LEMMA UpTo ==
  ASSUME NEW N \in Nat, NEW S, 0 \in S, \A n \in 1 .. N : n - 1 \in S => n \in S
  PROVE  \A n \in 0 .. N : n \in S
<1> DEFINE T == {n \in Nat : n <= N => n \in S}
<1>1. 0 \in T
  BY DEF T
<1>2. ASSUME NEW n \in Nat, n \in T PROVE n + 1 \in T
  <2>1. n + 1 \in Nat /\ (n + 1) - 1 = n /\ (n + 1 <= N => n <= N /\ n + 1 \in 1 .. N)
    BY SMT
  <2>2. QED
    BY <1>2, <2>1 DEF T
<1> HIDE DEF T
<1>3. Nat \subseteq T
  BY <1>1, <1>2, SetInduction
<1>4. QED
  BY <1>3, SMT DEF T

LooksBack(N, D, step) ==
  \A n \in 0 .. N : \A f, g \in [0 .. N -> D] :
    (\A m \in 0 .. n - 1 : f[m] = g[m]) => step[n][f] = step[n][g]

Defines(N, D, step) ==
  \E f \in [0 .. N -> D] : \A n \in 0 .. N : f[n] = step[n][f]

LEMMA Recursion ==
  ASSUME NEW N \in Nat, NEW D, NEW any \in D, NEW step,
         step \in [0 .. N -> [[0 .. N -> D] -> D]],
         LooksBack(N, D, step)
  PROVE  Defines(N, D, step)
<1> DEFINE Fs == [0 .. N -> D]
           Upto(n, f) == \A m \in 0 .. n : m <= N => f[m] = step[m][f]
           S == {n \in Nat : n <= N => \E f \in Fs : Upto(n, f)}
           Set(n, f) == [f EXCEPT ![n] = step[n][f]]
<1>1. ASSUME NEW n \in 0 .. N, NEW f \in Fs, \A m \in 0 .. n - 1 : f[m] = step[m][f]
      PROVE  Set(n, f) \in Fs /\ Upto(n, Set(n, f))
  <2>1. step[n][f] \in D
    OBVIOUS
  <2>2. /\ Set(n, f) \in Fs /\ Set(n, f)[n] = step[n][f]
        /\ \A m \in 0 .. N : m # n => Set(n, f)[m] = f[m]
    BY <2>1
  <2> DEFINE g == Set(n, f)
  <2> HIDE DEF g, Fs
  <2>3. g \in Fs /\ g[n] = step[n][f] /\ \A m \in 0 .. N : m # n => g[m] = f[m]
    BY <2>2 DEF g
  <2>4. ASSUME NEW m \in 0 .. n PROVE g[m] = step[m][g]
    <3>1. m \in 0 .. N /\ \A j \in 0 .. m - 1 : j \in 0 .. N /\ j # n
      BY SMT
    <3>2. step[m][f] = step[m][g]
      BY <2>3, <3>1 DEF Fs, LooksBack
    <3>3. CASE m = n
      BY <2>3, <3>2, <3>3
    <3>4. CASE m # n
      <4>1. m \in 0 .. n - 1
        BY <3>4, SMT
      <4>2. QED
        BY <1>1, <2>3, <3>1, <3>2, <3>4, <4>1
    <3>5. QED
      BY <3>3, <3>4
  <2>5. QED
    BY <2>3, <2>4 DEF g
<1>2. 0 \in S
  <2> DEFINE f == [n \in 0 .. N |-> any]
  <2>1. f \in Fs /\ 0 \in 0 .. N /\ 0 .. 0 - 1 = {}
    BY SMT
  <2> HIDE DEF f, Set, Fs, Upto
  <2>2. Upto(0, Set(0, f)) /\ Set(0, f) \in Fs
    BY <1>1, <2>1
  <2>3. QED
    BY <2>2
<1>3. ASSUME NEW n \in Nat, n \in S PROVE n + 1 \in S
  <2> SUFFICES ASSUME n + 1 <= N PROVE \E f \in Fs : Upto(n + 1, f)
    OBVIOUS
  <2>1. n <= N /\ n + 1 \in 0 .. N /\ (n + 1) - 1 = n /\ \A m \in 0 .. n : m <= N
    BY SMT
  <2>2. PICK f \in Fs : Upto(n, f)
    BY <1>3, <2>1
  <2>3. \A m \in 0 .. (n + 1) - 1 : f[m] = step[m][f]
    BY <2>1, <2>2
  <2> HIDE DEF Set, Fs, Upto
  <2>4. Set(n + 1, f) \in Fs /\ Upto(n + 1, Set(n + 1, f))
    BY <1>1, <2>1, <2>3
  <2>5. QED
    BY <2>4
<1>4. N \in S
  <2> HIDE DEF S
  <2>1. QED
    BY <1>2, <1>3, SetInduction
<1>5. PICK f \in Fs : Upto(N, f)
  BY <1>4
<1>6. \A n \in 0 .. N : f[n] = step[n][f]
  BY <1>5, SMT
<1>7. QED
  BY <1>6 DEF Defines

(* The common case, where each value is made from the one before it.       *)
Iterates(N, D, c, next) ==
  \E f \in [0 .. N -> D] : f[0] = c /\ \A n \in 1 .. N : f[n] = next[n][f[n - 1]]

LEMMA PrimitiveRecursion ==
  ASSUME NEW N \in Nat, NEW D, NEW c \in D, NEW next, next \in [1 .. N -> [D -> D]]
  PROVE  Iterates(N, D, c, next)
<1> DEFINE step == [n \in 0 .. N |-> [f \in [0 .. N -> D] |->
                      IF n = 0 THEN c ELSE next[n][f[n - 1]]]]
<1>1. \A n \in 0 .. N : n = 0 \/ (n \in 1 .. N /\ n - 1 \in 0 .. N /\ n - 1 \in 0 .. n - 1)
  BY SMT
<1>2. ASSUME NEW n \in 0 .. N, NEW f \in [0 .. N -> D]
      PROVE  (IF n = 0 THEN c ELSE next[n][f[n - 1]]) \in D
  BY <1>1
<1>3. step \in [0 .. N -> [[0 .. N -> D] -> D]]
  BY <1>2
<1>4. ASSUME NEW n \in 0 .. N, NEW f \in [0 .. N -> D]
      PROVE  step[n][f] = IF n = 0 THEN c ELSE next[n][f[n - 1]]
  OBVIOUS
<1> HIDE DEF step
<1>5. LooksBack(N, D, step)
  <2> SUFFICES ASSUME NEW n \in 0 .. N, NEW f \in [0 .. N -> D], NEW g \in [0 .. N -> D],
                      \A m \in 0 .. n - 1 : f[m] = g[m]
               PROVE  step[n][f] = step[n][g]
    BY DEF LooksBack
  <2>1. QED
    BY <1>1, <1>4
<1>6. PICK f \in [0 .. N -> D] : \A n \in 0 .. N : f[n] = step[n][f]
  <2>1. Defines(N, D, step)
    BY <1>3, <1>5, Recursion
  <2>2. QED
    BY <2>1 DEF Defines
<1>7. f[0] = c
  <2>1. 0 \in 0 .. N
    BY SMT
  <2>2. QED
    BY <1>4, <1>6, <2>1
<1>8. ASSUME NEW n \in 1 .. N PROVE f[n] = next[n][f[n - 1]]
  <2>1. n \in 0 .. N /\ n # 0
    BY SMT
  <2>2. QED
    BY <1>4, <1>6, <2>1
<1>9. QED
  BY <1>7, <1>8 DEF Iterates

IsFlattening(C, seqs, f) ==
  /\ f \in [0 .. Len(seqs) -> Seq(C)]
  /\ f[0] = << >>
  /\ \A n \in 1 .. Len(seqs) : f[n] = f[n - 1] \o seqs[n]

LEMMA FlattenRight ==
  ASSUME NEW C, NEW seqs \in Seq(Seq(C))
  PROVE  \E f : IsFlattening(C, seqs, f) /\ FlattenSeq(seqs) = f[Len(seqs)]
<1> DEFINE L == Len(seqs)
           Eq(g) == g = [u \in 1 .. L |-> IF u = 1 THEN seqs[u] ELSE g[u - 1] \o seqs[u]]
<1>1. /\ L \in Nat
      /\ << >> \in Seq(C)
      /\ \A n \in 1 .. L : seqs[n] \in Seq(C)
  BY LenProperties, ElementOfSeq, EmptySeq
<1>2. PICK f : IsFlattening(C, seqs, f)
  <2> DEFINE next == [n \in 1 .. L |-> [d \in Seq(C) |-> d \o seqs[n]]]
  <2>1. \A n \in 1 .. L : \A d \in Seq(C) : d \o seqs[n] \in Seq(C)
    BY <1>1, ConcatProperties
  <2>2. next \in [1 .. L -> [Seq(C) -> Seq(C)]]
    BY <2>1
  <2>3. \A n \in 1 .. L : \A d \in Seq(C) : next[n][d] = d \o seqs[n]
    OBVIOUS
  <2> HIDE DEF next
  <2>4. PICK f \in [0 .. L -> Seq(C)] : f[0] = << >> /\ \A n \in 1 .. L : f[n] = next[n][f[n - 1]]
    <3>1. Iterates(L, Seq(C), << >>, next)
      BY <1>1, <2>2, PrimitiveRecursion
    <3>2. QED
      BY <3>1 DEF Iterates
  <2>5. \A n \in 1 .. L : f[n - 1] \in Seq(C)
    <3>1. \A n \in 1 .. L : n - 1 \in 0 .. L
      BY <1>1, SMT
    <3>2. QED
      BY <3>1
  <2>6. f[0] = << >> /\ \A n \in 1 .. L : f[n] = f[n - 1] \o seqs[n]
    BY <2>3, <2>4, <2>5
  <2>7. IsFlattening(C, seqs, f)
    BY <2>6 DEF IsFlattening
  <2>8. QED
    BY <2>7
<1>3. CASE L = 0
  <2>1. seqs = << >> /\ f[L] = << >>
    BY <1>2, <1>3, EmptySeq DEF IsFlattening
  <2>2. QED
    BY <1>2, <1>3, <2>1 DEF FlattenSeq
<1>4. CASE L # 0
  <2> DEFINE flatten == CHOOSE g : Eq(g)
  <2>1. Eq(flatten)
    <3> DEFINE g == [u \in 1 .. L |-> f[u]]
    <3>1. ASSUME NEW u \in 1 .. L
          PROVE  g[u] = IF u = 1 THEN seqs[u] ELSE g[u - 1] \o seqs[u]
      <4>1. CASE u = 1
        <5>1. f[1] = << >> \o seqs[1] /\ seqs[1] \in Seq(C)
          <6>1. 1 - 1 = 0
            BY SMT
          <6>2. f[1] = f[1 - 1] \o seqs[1]
            BY <1>2, <4>1 DEF IsFlattening
          <6>3. QED
            BY <1>1, <1>2, <4>1, <6>1, <6>2 DEF IsFlattening
        <5>2. QED
          BY <4>1, <5>1, ConcatEmptySeq
      <4>2. CASE u # 1
        <5>1. u - 1 \in 1 .. L
          BY <1>1, <4>2, SMT
        <5>2. QED
          BY <1>2, <4>2, <5>1 DEF IsFlattening
      <4>3. QED
        BY <4>1, <4>2
    <3>2. Eq(g)
      BY <3>1
    <3> HIDE DEF g, Eq
    <3>3. QED
      BY <3>2
  <2>2. FlattenSeq(seqs) = flatten[L]
    BY <1>4 DEF FlattenSeq
  <2> HIDE DEF flatten
  <2>3. \A u \in 1 .. L : flatten[u] = IF u = 1 THEN seqs[u] ELSE flatten[u - 1] \o seqs[u]
    BY <2>1
  <2> HIDE DEF Eq
  <2> DEFINE S == {n \in Nat : n # 0 => flatten[n] = f[n]}
  <2>4. 0 \in S
    OBVIOUS
  <2>5. ASSUME NEW n \in 1 .. L, n - 1 \in S PROVE n \in S
    <3>1. CASE n = 1
      <4>1. 1 - 1 = 0
        BY SMT
      <4>2. f[1] = seqs[1]
        <5>1. f[1] = f[1 - 1] \o seqs[1]
          BY <1>2, <3>1 DEF IsFlattening
        <5>2. f[1] = << >> \o seqs[1] /\ seqs[1] \in Seq(C)
          BY <1>1, <1>2, <3>1, <4>1, <5>1 DEF IsFlattening
        <5>3. QED
          BY <5>2, ConcatEmptySeq
      <4>3. QED
        BY <2>3, <3>1, <4>2
    <3>2. CASE n # 1
      <4>1. n - 1 # 0 /\ n \in Nat
        BY <3>2, SMT
      <4>2. flatten[n - 1] = f[n - 1]
        BY <2>5, <4>1
      <4>3. QED
        BY <1>2, <2>3, <3>2, <4>1, <4>2 DEF IsFlattening
    <3>3. QED
      BY <3>1, <3>2
  <2>6. L \in S
    <3> HIDE DEF S
    <3>1. \A n \in 0 .. L : n \in S
      BY <1>1, <2>4, <2>5, UpTo
    <3>2. L \in 0 .. L
      BY <1>1, SMT
    <3>3. QED
      BY <3>1, <3>2
  <2>7. QED
    BY <1>2, <1>4, <2>2, <2>6
<1>5. QED
  BY <1>3, <1>4

(***************************************************************************)
(* Output lines.                                                           *)
(***************************************************************************)
(* What an escaped name is made of.                                        *)
Out == (Chars \cup {Backslash, "n", "r"}) \ {LF, CR}

(* The escaped characters of s before its nth are the first of its line.   *)
EscapesOf(s, f) ==
  /\ f \in [0 .. Len(s) -> Seq(Out)]
  /\ f[0] = << >>
  /\ \A n \in 1 .. Len(s) : f[n] = f[n - 1] \o EscapedChar(s[n])
  /\ Escaped(s) = f[Len(s)]

LEMMA CharRight ==
  ASSUME NEW c \in Chars
  PROVE  /\ EscapedChar(c) \in Seq(Out)
         /\ c \in {Backslash, LF, CR} =>
              /\ Len(EscapedChar(c)) = 2
              /\ EscapedChar(c)[1] = Backslash
              /\ EscapedChar(c)[2] \notin {LF, CR}
              /\ Unescape(EscapedChar(c)[2]) = c
         /\ c \notin {Backslash, LF, CR} => EscapedChar(c) = << c >>
<1>1. CASE c = Backslash
  <2>1. EscapedChar(c) = << Backslash, Backslash >>
    BY <1>1 DEF EscapedChar, LF, CR, Backslash
  <2>2. Unescape(Backslash) = Backslash /\ Backslash \notin {LF, CR}
    BY DEF Unescape, Backslash, LF, CR
  <2>3. << Backslash, Backslash >> \in Seq(Out) /\ Len(<< Backslash, Backslash >>) = 2
    <3>1. Backslash \in Out
      BY DEF Out, Backslash, LF, CR
    <3>2. QED
      BY <3>1, SMT
  <2>4. QED
    BY <1>1, <2>1, <2>2, <2>3
<1>2. CASE c = LF
  <2>1. EscapedChar(c) = << Backslash, "n" >>
    BY <1>2 DEF EscapedChar, LF, CR, Backslash
  <2>2. Unescape("n") = LF /\ "n" \notin {LF, CR}
    BY DEF Unescape, LF, CR
  <2>3. << Backslash, "n" >> \in Seq(Out) /\ Len(<< Backslash, "n" >>) = 2
    <3>1. Backslash \in Out /\ "n" \in Out
      BY DEF Out, Backslash, LF, CR
    <3>2. QED
      BY <3>1, SMT
  <2>4. QED
    BY <1>2, <2>1, <2>2, <2>3
<1>3. CASE c = CR
  <2>1. EscapedChar(c) = << Backslash, "r" >>
    BY <1>3 DEF EscapedChar, LF, CR, Backslash
  <2>2. Unescape("r") = CR /\ "r" \notin {LF, CR}
    BY DEF Unescape, LF, CR
  <2>3. << Backslash, "r" >> \in Seq(Out) /\ Len(<< Backslash, "r" >>) = 2
    <3>1. Backslash \in Out /\ "r" \in Out
      BY DEF Out, Backslash, LF, CR
    <3>2. QED
      BY <3>1, SMT
  <2>4. QED
    BY <1>3, <2>1, <2>2, <2>3
<1>4. CASE c \notin {Backslash, LF, CR}
  <2>1. EscapedChar(c) = << c >>
    BY <1>4 DEF EscapedChar
  <2>2. c \in Out
    BY <1>4 DEF Out
  <2>3. << c >> \in Seq(Out)
    BY <2>2, SMT
  <2>4. QED
    BY <1>4, <2>1, <2>3
<1>5. QED
  BY <1>1, <1>2, <1>3, <1>4

LEMMA EscapedRight ==
  ASSUME NEW s \in Texts
  PROVE  \E f : EscapesOf(s, f)
<1> DEFINE seqs == [k \in DOMAIN s |-> EscapedChar(s[k])]
<1>1. DOMAIN s = 1 .. Len(s) /\ Len(s) \in Nat /\ \A k \in 1 .. Len(s) : s[k] \in Chars
  BY LenProperties, ElementOfSeq DEF Texts
<1>2. \A k \in 1 .. Len(s) : EscapedChar(s[k]) \in Seq(Out)
  BY <1>1, CharRight
<1>3. /\ seqs \in Seq(Seq(Out)) /\ Len(seqs) = Len(s)
      /\ \A k \in 1 .. Len(s) : seqs[k] = EscapedChar(s[k])
  <2>1. seqs = [k \in 1 .. Len(s) |-> EscapedChar(s[k])]
    BY <1>1
  <2>2. QED
    BY <1>1, <1>2, <2>1, SMT
<1>4. Escaped(s) = FlattenSeq(seqs)
  BY DEF Escaped
<1> HIDE DEF seqs
<1>5. PICK f : IsFlattening(Out, seqs, f) /\ FlattenSeq(seqs) = f[Len(seqs)]
  BY <1>3, FlattenRight
<1>6. EscapesOf(s, f)
  BY <1>3, <1>4, <1>5 DEF IsFlattening, EscapesOf
<1>7. QED
  BY <1>6

LastOf(a, b, c, d) == << a, b, c, d >> = << a, b, c >> \o << d >>

LEMMA Triple ==
  ASSUME NEW C, NEW a \in C, NEW b \in C, NEW c \in C, NEW d \in C
  PROVE  /\ << a, b, c >> \in Seq(C) /\ Len(<< a, b, c >>) = 3 /\ << a, b, c >>[1] = a
         /\ LastOf(a, b, c, d)
<1>1. << a, b, c >> \in Seq(C) /\ Len(<< a, b, c >>) = 3 /\ << a, b, c >>[1] = a
  BY SMT
<1>2. << a, b, c, d >> \in Seq(C) /\ << d >> \in Seq(C) /\ Len(<< a, b, c, d >>) = 4
      /\ Len(<< d >>) = 1
  BY SMT
<1>3. /\ << a, b, c >> \o << d >> \in Seq(C)
      /\ Len(<< a, b, c >> \o << d >>) = Len(<< a, b, c >>) + Len(<< d >>)
      /\ \A k \in 1 .. Len(<< a, b, c >>) : (<< a, b, c >> \o << d >>)[k] = << a, b, c >>[k]
      /\ \A k \in 1 .. Len(<< d >>) :
           (<< a, b, c >> \o << d >>)[Len(<< a, b, c >>) + k] = << d >>[k]
  BY <1>1, <1>2, Joined
<1>4. QED
  <2> DEFINE t == << a, b, c >> \o << d >>
  <2> HIDE DEF t
  <2>1. t \in Seq(C) /\ Len(t) = 4
    BY <1>1, <1>2, <1>3, SMT DEF t
  <2>2. t[1] = a /\ t[2] = b /\ t[3] = c /\ t[4] = d
    <3>1. /\ \A k \in 1 .. 3 : t[k] = << a, b, c >>[k]
          /\ \A k \in 1 .. 1 : t[3 + k] = << d >>[k]
      BY <1>1, <1>2, <1>3 DEF t
    <3>2. QED
      BY <3>1, SMT
  <2>3. \A k \in 1 .. Len(t) : t[k] = << a, b, c, d >>[k]
    BY <2>1, <2>2, SMT
  <2>4. t = << a, b, c, d >>
    BY <1>2, <2>1, <2>3, SeqEqual
  <2>5. QED
    BY <1>1, <2>4 DEF t, LastOf

OneLine(text) ==
  \A k \in DOMAIN text : text[k] \in {LF, CR} => k = Len(text) /\ text[k] = LF

Printed == Out \cup {Backslash, "digest", " ", "hayasum", ":", "reason"}

LEMMA EndsInBreak ==
  ASSUME NEW body \in Seq(Printed)
  PROVE  OneLine(body \o << LF >>)
<1>1. LF \notin Printed /\ CR \notin Printed
  BY DEF Printed, Out, Backslash, LF, CR
<1>2. body \in Seq(Printed \cup {LF}) /\ LF \in Printed \cup {LF}
  BY SeqMonotonic
<1>3. << LF >> \in Seq(Printed \cup {LF}) /\ Len(<< LF >>) = 1
  BY <1>2, SMT
<1> DEFINE text == body \o << LF >>
<1>4. /\ text \in Seq(Printed \cup {LF}) /\ Len(text) = Len(body) + Len(<< LF >>)
      /\ \A k \in 1 .. Len(body) : text[k] = body[k]
      /\ \A k \in 1 .. Len(<< LF >>) : text[Len(body) + k] = << LF >>[k]
  BY <1>2, <1>3, Joined
<1>5. Len(body) \in Nat /\ DOMAIN text = 1 .. Len(text)
  BY <1>4, LenProperties
<1>6. text[Len(body) + 1] = LF
  BY <1>3, <1>4
<1> HIDE DEF text
<1>7. ASSUME NEW k \in DOMAIN text, text[k] \in {LF, CR}
      PROVE  k = Len(text) /\ text[k] = LF
  <2>1. k \in 1 .. Len(body) \/ k = Len(body) + 1
    BY <1>3, <1>4, <1>5, SMT
  <2>2. k \notin 1 .. Len(body)
    <3>1. ASSUME k \in 1 .. Len(body) PROVE FALSE
      <4>1. body[k] \in Printed
        BY <3>1, ElementOfSeq
      <4>2. QED
        BY <1>1, <1>4, <1>7, <3>1, <4>1
    <3>2. QED
      BY <3>1
  <2>3. QED
    BY <1>3, <1>4, <1>6, <2>1, <2>2
<1>8. QED
  BY <1>7 DEF OneLine, text

LEMMA EscapedType ==
  ASSUME NEW s \in Texts
  PROVE  Escaped(s) \in Seq(Out) /\ Escaped(s) \in Seq(Printed)
<1>1. PICK f : EscapesOf(s, f)
  BY EscapedRight
<1>2. Len(s) \in 0 .. Len(s)
  <2>1. Len(s) \in Nat
    BY LenProperties DEF Texts
  <2>2. QED
    BY <2>1, SMT
<1>3. Escaped(s) \in Seq(Out)
  BY <1>1, <1>2 DEF EscapesOf
<1>4. QED
  BY <1>3, SeqMonotonic DEF Printed

(* A backslash flags the line, and the digest and two blanks follow.       *)
LineFront(label) == (IF NeedsEscape(label) THEN << Backslash >> ELSE << >>) \o Digits

LEMMA FrontType ==
  ASSUME NEW s
  PROVE  /\ Digits \in Seq(Printed) /\ Len(Digits) = 3 /\ Digits[1] = "digest"
         /\ LineFront(s) \in Seq(Printed)
         /\ Len(LineFront(s)) = IF NeedsEscape(s) THEN 4 ELSE 3
         /\ LineFront(s)[1] = IF NeedsEscape(s) THEN Backslash ELSE "digest"
         /\ LineFront(s) \o Escaped(s) \o << LF >> = PrintDigest(s)
<1>1. Digits \in Seq(Printed) /\ Len(Digits) = 3 /\ Digits[1] = "digest"
  <2>1. "digest" \in Printed /\ " " \in Printed
    BY DEF Printed
  <2>2. QED
    BY <2>1, Triple DEF Digits
<1>2. << Backslash >> \in Seq(Printed) /\ Len(<< Backslash >>) = 1 /\ << Backslash >>[1] = Backslash
  <2>1. Backslash \in Printed
    BY DEF Printed
  <2>2. QED
    BY <2>1, SMT
<1>3. CASE NeedsEscape(s)
  <2>1. LineFront(s) = << Backslash >> \o Digits
    BY <1>3 DEF LineFront
  <2>2. /\ << Backslash >> \o Digits \in Seq(Printed)
        /\ Len(<< Backslash >> \o Digits) = Len(<< Backslash >>) + Len(Digits)
        /\ \A k \in 1 .. Len(<< Backslash >>) : (<< Backslash >> \o Digits)[k] = << Backslash >>[k]
    BY <1>1, <1>2, Joined
  <2>3. Len(LineFront(s)) = 4 /\ LineFront(s)[1] = Backslash
    <3>1. 1 \in 1 .. 1 /\ 1 + 3 = 4
      BY SMT
    <3>2. QED
      BY <1>1, <1>2, <2>1, <2>2, <3>1
  <2>4. QED
    BY <1>1, <1>3, <2>1, <2>2, <2>3 DEF PrintDigest, LineFront
<1>4. CASE ~ NeedsEscape(s)
  <2>1. LineFront(s) = Digits
    BY <1>1, <1>4, ConcatEmptySeq DEF LineFront
  <2>2. QED
    BY <1>1, <1>4, <2>1 DEF PrintDigest, LineFront
<1>5. QED
  BY <1>3, <1>4

LEMMA LinesAreLines ==
  ASSUME NEW s \in Texts
  PROVE  OneLine(PrintDigest(s)) /\ OneLine(Perror(s))
<1>1. OneLine(PrintDigest(s))
  <2>1. LineFront(s) \o Escaped(s) \in Seq(Printed)
    BY FrontType, EscapedType, ConcatProperties
  <2>2. QED
    BY <2>1, FrontType, EndsInBreak
<1>2. OneLine(Perror(s))
  <2> DEFINE front == << "hayasum", ":", " " >>
             back  == << ":", " ", "reason" >>
             any   == Printed \cup {LF}
  <2>1. front \in Seq(Printed) /\ back \in Seq(Printed)
    <3>1. "hayasum" \in Printed /\ ":" \in Printed /\ " " \in Printed /\ "reason" \in Printed
      BY DEF Printed
    <3>2. QED
      BY <3>1, Triple
  <2>2. << ":", " ", "reason", LF >> = back \o << LF >>
    <3>1. ":" \in any /\ " " \in any /\ "reason" \in any /\ LF \in any
      BY DEF Printed
    <3> HIDE DEF any
    <3>2. LastOf(":", " ", "reason", LF)
      BY <3>1, Triple
    <3>3. QED
      BY <3>2 DEF LastOf
  <2> HIDE DEF front, back
  <2>3. Perror(s) = (front \o Escaped(s)) \o (back \o << LF >>)
    BY <2>2 DEF Perror, front
  <2> DEFINE head == front \o Escaped(s)
  <2>4. head \in Seq(Printed)
    BY <2>1, EscapedType, ConcatProperties
  <2> HIDE DEF head
  <2>5. head \o (back \o << LF >>) = (head \o back) \o << LF >>
    <3>1. head \in Seq(any) /\ back \in Seq(any)
      BY <2>1, <2>4, SeqMonotonic
    <3>2. << LF >> \in Seq(any)
      <4>1. LF \in any
        OBVIOUS
      <4> HIDE DEF any
      <4>2. QED
        BY <4>1, SMT
    <3> HIDE DEF any
    <3>3. QED
      BY <3>1, <3>2, ConcatAssociative
  <2>6. head \o back \in Seq(Printed)
    BY <2>1, <2>4, ConcatProperties
  <2>7. OneLine((head \o back) \o << LF >>)
    BY <2>6, EndsInBreak
  <2>8. QED
    BY <2>3, <2>5, <2>7 DEF head
<1>3. QED
  BY <1>1, <1>2

(* Reading a line, one character further.                                  *)
Advance(was, c) ==
  IF was.escape THEN [name |-> Append(was.name, Unescape(c)), escape |-> FALSE]
  ELSE IF c = Backslash THEN [name |-> was.name, escape |-> TRUE]
  ELSE [name |-> Append(was.name, c), escape |-> FALSE]

Reader(body, read) ==
  /\ read[0] = [name |-> << >>, escape |-> FALSE]
  /\ \A k \in 1 .. Len(body) : read[k] = Advance(read[k - 1], body[k])

LEMMA ReaderRight ==
  ASSUME NEW C, NEW body \in Seq(C)
  PROVE  \E read : Reader(body, read) /\ Unescaped(body) = read[Len(body)].name
<1> DEFINE N == Len(body)
           AnyText == C \cup {LF, CR}
           D == [name : Seq(AnyText), escape : BOOLEAN]
           none == [name |-> << >>, escape |-> FALSE]
           Eq(g) == g = [k \in 0 .. N |-> IF k = 0 THEN none ELSE Advance(g[k - 1], body[k])]
           next == [n \in 1 .. N |-> [d \in D |-> Advance(d, body[n])]]
<1>1. N \in Nat /\ \A n \in 1 .. N : body[n] \in AnyText
  BY LenProperties, ElementOfSeq
<1>2. none \in D
  BY EmptySeq
<1>3. ASSUME NEW d \in D, NEW c \in AnyText PROVE Advance(d, c) \in D
  <2>1. d.name \in Seq(AnyText) /\ d.escape \in BOOLEAN /\ Unescape(c) \in AnyText
    BY DEF Unescape
  <2> HIDE DEF AnyText
  <2>2. \A x \in AnyText : Append(d.name, x) \in Seq(AnyText)
    BY <2>1, SMT
  <2>3. QED
    BY <2>1, <2>2 DEF Advance
<1> HIDE DEF D, AnyText
<1>4. next \in [1 .. N -> [D -> D]]
  BY <1>1, <1>3
<1>5. \A n \in 1 .. N : \A d \in D : next[n][d] = Advance(d, body[n])
  OBVIOUS
<1> HIDE DEF next, none
<1>6. PICK f \in [0 .. N -> D] : f[0] = none /\ \A n \in 1 .. N : f[n] = next[n][f[n - 1]]
  <2>1. Iterates(N, D, none, next)
    BY <1>1, <1>2, <1>4, PrimitiveRecursion
  <2>2. QED
    BY <2>1 DEF Iterates
<1>7. \E g : Eq(g)
  <2>1. ASSUME NEW n \in 0 .. N
        PROVE  f[n] = IF n = 0 THEN none ELSE Advance(f[n - 1], body[n])
    <3>1. CASE n = 0
      BY <1>6, <3>1
    <3>2. CASE n # 0
      <4>1. n \in 1 .. N /\ n - 1 \in 0 .. N
        BY <1>1, <3>2, SMT
      <4>2. f[n - 1] \in D
        BY <4>1
      <4>3. QED
        BY <1>5, <1>6, <3>2, <4>1, <4>2
    <3>3. QED
      BY <3>1, <3>2
  <2>2. Eq(f)
    BY <2>1
  <2> HIDE DEF Eq
  <2>3. QED
    BY <2>2
<1> DEFINE read == CHOOSE g : Eq(g)
<1>8. Eq(read)
  <2> HIDE DEF Eq
  <2>1. QED
    BY <1>7
<1>9. Unescaped(body) = read[N].name
  BY DEF Unescaped, Advance, none
<1> HIDE DEF read
<1>10. /\ read[0] = none
       /\ \A k \in 1 .. N : read[k] = Advance(read[k - 1], body[k])
  <2>1. 0 \in 0 .. N /\ \A k \in 1 .. N : k \in 0 .. N /\ k # 0
    BY <1>1, SMT
  <2>2. QED
    BY <1>8, <2>1
<1>11. Reader(body, read)
  BY <1>10 DEF Reader, none
<1>12. QED
  BY <1>9, <1>11

(* What is escaped of the first n characters stays the front of the line.  *)
StaysInFront(s, f, n) ==
  /\ Len(f[n]) = Len(f[n - 1]) + Len(EscapedChar(s[n]))
  /\ Len(f[n]) <= Len(Escaped(s))
  /\ \A j \in 1 .. Len(EscapedChar(s[n])) :
       Escaped(s)[Len(f[n - 1]) + j] = EscapedChar(s[n])[j]

LEMMA EscapesArePrefixes ==
  ASSUME NEW s \in Texts, NEW f, EscapesOf(s, f), NEW n \in 1 .. Len(s)
  PROVE  StaysInFront(s, f, n)
<1> DEFINE L == Len(s)
           S == {m \in Nat : n <= m => /\ Len(f[n]) <= Len(f[m])
                                       /\ \A j \in 1 .. Len(f[n]) : f[m][j] = f[n][j]}
<1>1. /\ L \in Nat /\ \A m \in 1 .. L : m \in 0 .. L /\ m - 1 \in 0 .. L
      /\ L \in 0 .. L
  <2>1. L \in Nat
    BY LenProperties DEF Texts
  <2>2. QED
    BY <2>1, SMT
<1>2. \A m \in 0 .. L : f[m] \in Seq(Out) /\ Len(f[m]) \in Nat
  <2>1. \A m \in 0 .. L : f[m] \in Seq(Out)
    BY DEF EscapesOf
  <2>2. QED
    BY <2>1, LenProperties
<1>3. ASSUME NEW m \in 1 .. L
      PROVE  /\ EscapedChar(s[m]) \in Seq(Out) /\ Len(EscapedChar(s[m])) \in Nat
             /\ Len(f[m]) = Len(f[m - 1]) + Len(EscapedChar(s[m]))
             /\ \A k \in 1 .. Len(f[m - 1]) : f[m][k] = f[m - 1][k]
             /\ \A k \in 1 .. Len(EscapedChar(s[m])) :
                  f[m][Len(f[m - 1]) + k] = EscapedChar(s[m])[k]
  <2> DEFINE p == f[m - 1]  e == EscapedChar(s[m])
  <2>1. s[m] \in Chars
    BY ElementOfSeq DEF Texts
  <2>2. e \in Seq(Out) /\ p \in Seq(Out) /\ f[m] = p \o e
    BY <1>1, <1>2, <2>1, CharRight DEF EscapesOf
  <2> HIDE DEF p, e
  <2>3. /\ Len(p \o e) = Len(p) + Len(e)
        /\ \A k \in 1 .. Len(p) : (p \o e)[k] = p[k]
        /\ \A k \in 1 .. Len(e) : (p \o e)[Len(p) + k] = e[k]
    BY <2>2, Joined
  <2>4. Len(e) \in Nat
    BY <2>2, LenProperties
  <2>5. QED
    BY <2>2, <2>3, <2>4 DEF p, e
<1>4. 0 \in S
  BY <1>1, SMT
<1>5. ASSUME NEW m \in 1 .. L, m - 1 \in S PROVE m \in S
  <2> SUFFICES ASSUME n <= m
               PROVE  /\ Len(f[n]) <= Len(f[m])
                      /\ \A j \in 1 .. Len(f[n]) : f[m][j] = f[n][j]
    BY SMT
  <2>1. CASE n = m
    <3>1. Len(f[n]) \in Nat
      BY <1>1, <1>2
    <3>2. QED
      BY <2>1, <3>1, SMT
  <2>2. CASE n # m
    <3>1. n <= m - 1 /\ m - 1 \in Nat
      BY <2>2, SMT
    <3>2. Len(f[n]) <= Len(f[m - 1]) /\ \A j \in 1 .. Len(f[n]) : f[m - 1][j] = f[n][j]
      BY <1>5, <3>1
    <3>3. Len(f[n]) \in Nat /\ Len(f[m - 1]) \in Nat
      BY <1>1, <1>2
    <3>4. Len(f[m]) >= Len(f[m - 1]) /\ Len(f[m]) >= Len(f[n])
      <4>1. Len(f[m]) = Len(f[m - 1]) + Len(EscapedChar(s[m])) /\ Len(EscapedChar(s[m])) \in Nat
        BY <1>3
      <4> DEFINE x == Len(f[m])  y == Len(f[m - 1])  z == Len(f[n])
                 e == Len(EscapedChar(s[m]))
      <4>2. x = y + e /\ e \in Nat /\ y \in Nat /\ z \in Nat /\ z <= y
        BY <3>2, <3>3, <4>1
      <4> HIDE DEF x, y, z, e
      <4>3. x >= y /\ x >= z
        BY <4>2, SMT
      <4>4. QED
        BY <4>3 DEF x, y, z
    <3>5. \A j \in 1 .. Len(f[n]) : j \in 1 .. Len(f[m - 1])
      BY <3>2, <3>3, SMT
    <3>6. \A j \in 1 .. Len(f[n]) : f[m][j] = f[n][j]
      BY <1>3, <3>2, <3>5
    <3>7. Len(f[n]) <= Len(f[m])
      BY <3>2, <3>3, <3>4, <1>1, <1>2, SMT
    <3>8. QED
      BY <3>6, <3>7
  <2>3. QED
    BY <2>1, <2>2
<1>6. L \in S
  <2> HIDE DEF S
  <2>1. \A m \in 0 .. L : m \in S
    BY <1>1, <1>4, <1>5, UpTo
  <2>2. QED
    BY <1>1, <2>1
<1>7. /\ Len(f[n]) <= Len(Escaped(s))
      /\ \A j \in 1 .. Len(f[n]) : Escaped(s)[j] = f[n][j]
  <2>1. n <= L
    BY <1>1, SMT
  <2>2. QED
    BY <1>6, <2>1 DEF EscapesOf
<1>8. ASSUME NEW j \in 1 .. Len(EscapedChar(s[n]))
      PROVE  Escaped(s)[Len(f[n - 1]) + j] = EscapedChar(s[n])[j]
  <2>1. Len(f[n - 1]) \in Nat /\ Len(EscapedChar(s[n])) \in Nat
    BY <1>1, <1>2, <1>3
  <2>2. Len(f[n - 1]) + j \in 1 .. Len(f[n])
    <3>1. Len(f[n]) = Len(f[n - 1]) + Len(EscapedChar(s[n]))
      BY <1>3
    <3> DEFINE x == Len(f[n])  y == Len(f[n - 1])  e == Len(EscapedChar(s[n]))
    <3>2. x = y + e /\ e \in Nat /\ y \in Nat /\ j \in 1 .. e
      BY <2>1, <3>1
    <3> HIDE DEF x, y, e
    <3>3. y + j \in 1 .. x
      BY <3>2, SMT
    <3>4. QED
      BY <3>3 DEF x, y
  <2>3. QED
    BY <1>3, <1>7, <2>2
<1>9. QED
  BY <1>3, <1>7, <1>8 DEF StaysInFront

LEMMA OneMore ==
  ASSUME NEW C, NEW s \in Seq(C), NEW n \in 1 .. Len(s)
  PROVE  /\ SubSeq(s, 1, n) = SubSeq(s, 1, n - 1) \o << s[n] >>
         /\ Append(SubSeq(s, 1, n - 1), s[n]) = SubSeq(s, 1, n)
         /\ SubSeq(s, 1, 0) = << >>
<1>1. Len(s) \in Nat
  BY LenProperties
<1>2. 1 \in 1 .. Len(s) /\ n \in 1 .. Len(s) /\ n - 1 \in 0 .. Len(s)
  BY <1>1, SMT
<1>3. SubSeq(s, 1, n) = SubSeq(s, 1, n - 1) \o << s[n] >>
  BY <1>2, SubSeqRecursiveSecond
<1>4. SubSeq(s, 1, n - 1) \in Seq(C) /\ s[n] \in C
  <2>1. s[n] \in C
    BY ElementOfSeq
  <2>2. \A u \in 1 .. n - 1 : s[u] \in C
    BY <1>1, ElementOfSeq, SMT
  <2>3. QED
    BY <1>2, <2>1, <2>2, SubSeqProperties
<1>5. Append(SubSeq(s, 1, n - 1), s[n]) = SubSeq(s, 1, n - 1) \o << s[n] >>
  BY <1>4, AppendIsConcat
<1>6. SubSeq(s, 1, 0) = << >>
  BY SubSeqEmpty, SMT
<1>7. QED
  BY <1>3, <1>5, <1>6

(* A name is read back from its escaped form.                              *)
LEMMA Restored ==
  ASSUME NEW s \in Texts
  PROVE  Unescaped(Escaped(s)) = s
<1> DEFINE L == Len(s)
<1>1. L \in Nat /\ L \in 0 .. L
  <2>1. L \in Nat
    BY LenProperties DEF Texts
  <2>2. QED
    BY <2>1, SMT
<1>2. PICK f : EscapesOf(s, f)
  BY EscapedRight
<1>3. PICK read : Reader(Escaped(s), read) /\ Unescaped(Escaped(s)) = read[Len(Escaped(s))].name
  BY EscapedType, ReaderRight
<1> DEFINE S == {n \in Nat : read[Len(f[n])] = [name |-> SubSeq(s, 1, n), escape |-> FALSE]}
<1>4. 0 \in S
  <2>1. Len(f[0]) = 0
    BY <1>2, EmptySeq DEF EscapesOf
  <2>2. SubSeq(s, 1, 0) = << >>
    BY SubSeqEmpty, SMT
  <2>3. QED
    BY <1>3, <2>1, <2>2 DEF Reader
<1>5. ASSUME NEW n \in 1 .. L, n - 1 \in S PROVE n \in S
  <2> DEFINE p == Len(f[n - 1])  e == EscapedChar(s[n])  line == Escaped(s)
  <2>1. /\ p \in Nat /\ Len(f[n]) = p + Len(e) /\ Len(f[n]) <= Len(line)
        /\ \A j \in 1 .. Len(e) : line[p + j] = e[j]
    <3>1. n - 1 \in 0 .. L
      BY <1>1, SMT
    <3>2. f[n - 1] \in Seq(Out)
      BY <1>2, <3>1 DEF EscapesOf
    <3>3. /\ Len(f[n]) = Len(f[n - 1]) + Len(EscapedChar(s[n]))
          /\ Len(f[n]) <= Len(Escaped(s))
          /\ \A j \in 1 .. Len(EscapedChar(s[n])) :
               Escaped(s)[Len(f[n - 1]) + j] = EscapedChar(s[n])[j]
      <4>1. StaysInFront(s, f, n)
        BY <1>2, EscapesArePrefixes
      <4>2. QED
        BY <4>1 DEF StaysInFront
    <3>4. Len(f[n - 1]) \in Nat
      BY <3>2, LenProperties
    <3>5. QED
      BY <3>3, <3>4
  <2>2. Len(line) \in Nat
    BY EscapedType, LenProperties
  <2>3. read[p] = [name |-> SubSeq(s, 1, n - 1), escape |-> FALSE]
    BY <1>5
  <2>4. Append(SubSeq(s, 1, n - 1), s[n]) = SubSeq(s, 1, n)
    BY OneMore DEF Texts
  <2>5. s[n] \in Chars
    BY ElementOfSeq DEF Texts
  <2>6. \A k \in 1 .. Len(line) : read[k] = Advance(read[k - 1], line[k])
    BY <1>3 DEF Reader
  <2>7. n \in Nat
    BY SMT
  <2> SUFFICES read[Len(f[n])] = [name |-> SubSeq(s, 1, n), escape |-> FALSE]
    BY <2>7
  <2>8. CASE s[n] \in {Backslash, LF, CR}
    <3>1. Len(e) = 2 /\ e[1] = Backslash /\ Unescape(e[2]) = s[n]
      BY <2>5, <2>8, CharRight
    <3> HIDE DEF p, e, line
    <3>2. /\ p + 1 \in 1 .. Len(line) /\ p + 2 \in 1 .. Len(line)
          /\ (p + 1) - 1 = p /\ (p + 2) - 1 = p + 1 /\ Len(f[n]) = p + 2
      BY <2>1, <2>2, <3>1, SMT
    <3>3. line[p + 1] = Backslash /\ line[p + 2] = e[2]
      <4>1. 1 \in 1 .. 2 /\ 2 \in 1 .. 2
        BY SMT
      <4>2. QED
        BY <2>1, <3>1, <4>1
    <3>4. read[p + 1] = [name |-> SubSeq(s, 1, n - 1), escape |-> TRUE]
      <4>1. read[p + 1] = Advance(read[p], Backslash)
        BY <2>6, <3>2, <3>3
      <4>2. QED
        BY <2>3, <4>1 DEF Advance
    <3>5. read[p + 2] = [name |-> Append(SubSeq(s, 1, n - 1), s[n]), escape |-> FALSE]
      <4>1. read[p + 2] = Advance(read[p + 1], e[2])
        BY <2>6, <3>2, <3>3
      <4>2. QED
        BY <3>1, <3>4, <4>1 DEF Advance
    <3>6. QED
      BY <2>4, <3>2, <3>5
  <2>9. CASE s[n] \notin {Backslash, LF, CR}
    <3>1. e = << s[n] >>
      BY <2>5, <2>9, CharRight
    <3>2. Len(e) = 1 /\ e[1] = s[n]
      BY <3>1, SMT
    <3> HIDE DEF p, e, line
    <3>3. p + 1 \in 1 .. Len(line) /\ (p + 1) - 1 = p /\ Len(f[n]) = p + 1
      BY <2>1, <2>2, <3>2, SMT
    <3>4. line[p + 1] = s[n]
      <4>1. 1 \in 1 .. 1
        BY SMT
      <4>2. QED
        BY <2>1, <3>2, <4>1
    <3>5. read[p + 1] = Advance(read[p], s[n])
      BY <2>6, <3>3, <3>4
    <3>6. read[p + 1] = [name |-> Append(SubSeq(s, 1, n - 1), s[n]), escape |-> FALSE]
      BY <2>3, <2>9, <3>5 DEF Advance
    <3>7. QED
      BY <2>4, <3>3, <3>6
  <2>10. QED
    BY <2>8, <2>9
<1>6. L \in S
  <2> HIDE DEF S
  <2>1. \A n \in 0 .. L : n \in S
    BY <1>1, <1>4, <1>5, UpTo
  <2>2. QED
    BY <1>1, <2>1
<1>7. read[Len(Escaped(s))].name = SubSeq(s, 1, L)
  BY <1>2, <1>6 DEF EscapesOf
<1>8. QED
  BY <1>3, <1>7, SubSeqFull DEF Texts

(* A name that needs no escape is written as it is.                        *)
LEMMA AsItIs ==
  ASSUME NEW s \in Texts, ~ NeedsEscape(s)
  PROVE  Escaped(s) = s
<1> DEFINE L == Len(s)
<1>1. L \in Nat /\ L \in 0 .. L
  <2>1. L \in Nat
    BY LenProperties DEF Texts
  <2>2. QED
    BY <2>1, SMT
<1>2. PICK f : EscapesOf(s, f)
  BY EscapedRight
<1> DEFINE S == {n \in Nat : f[n] = SubSeq(s, 1, n)}
<1>3. 0 \in S
  <2>1. SubSeq(s, 1, 0) = << >>
    BY SubSeqEmpty, SMT
  <2>2. QED
    BY <1>2, <2>1 DEF EscapesOf
<1>4. ASSUME NEW n \in 1 .. L, n - 1 \in S PROVE n \in S
  <2>1. s[n] \in Chars /\ n \in DOMAIN s
    BY ElementOfSeq, LenProperties DEF Texts
  <2>2. EscapedChar(s[n]) = << s[n] >>
    BY <2>1, CharRight DEF NeedsEscape
  <2>3. f[n] = SubSeq(s, 1, n - 1) \o << s[n] >>
    BY <1>2, <1>4, <2>2 DEF EscapesOf
  <2>4. SubSeq(s, 1, n) = SubSeq(s, 1, n - 1) \o << s[n] >>
    BY OneMore DEF Texts
  <2>5. n \in Nat
    BY SMT
  <2>6. QED
    BY <2>3, <2>4, <2>5
<1>5. L \in S
  <2> HIDE DEF S
  <2>1. \A n \in 0 .. L : n \in S
    BY <1>1, <1>3, <1>4, UpTo
  <2>2. QED
    BY <1>1, <2>1
<1>6. QED
  BY <1>2, <1>5, SubSeqFull DEF EscapesOf, Texts

(* What stands between the front of a line and its end.                    *)
Middle(line, a, b) == SubSeq(line, 1 + Len(a), Len(line) - 1) = b

LEMMA Between ==
  ASSUME NEW C, NEW a \in Seq(C), NEW b \in Seq(C), NEW x \in C
  PROVE  Middle((a \o b) \o << x >>, a, b)
<1> DEFINE ab == a \o b
           t == ab \o << x >>
           m == SubSeq(t, 1 + Len(a), Len(t) - 1)
<1>1. Len(a) \in Nat /\ Len(b) \in Nat
  BY LenProperties
<1>2. /\ ab \in Seq(C) /\ Len(ab) = Len(a) + Len(b)
      /\ \A k \in 1 .. Len(b) : ab[Len(a) + k] = b[k]
  BY Joined
<1> HIDE DEF ab
<1>3. << x >> \in Seq(C) /\ Len(<< x >>) = 1
  BY SMT
<1>4. /\ t \in Seq(C) /\ Len(t) = Len(ab) + Len(<< x >>)
      /\ \A k \in 1 .. Len(ab) : t[k] = ab[k]
  <2> DEFINE last == << x >>
  <2> HIDE DEF last
  <2>1. last \in Seq(C)
    BY <1>3 DEF last
  <2>2. /\ ab \o last \in Seq(C) /\ Len(ab \o last) = Len(ab) + Len(last)
        /\ \A k \in 1 .. Len(ab) : (ab \o last)[k] = ab[k]
    <3>1. ab \in Seq(C)
      BY <1>2
    <3>2. QED
      BY <2>1, <3>1, Joined
  <2>3. QED
    BY <2>2 DEF last
<1> HIDE DEF t
<1>5. Len(t) - 1 = Len(a) + Len(b) /\ 1 + Len(a) \in 1 .. Len(t)
  BY <1>1, <1>2, <1>3, <1>4, SMT
<1>6. /\ m \in Seq(C) /\ Len(m) = Len(b)
      /\ \A k \in 1 .. Len(b) : m[k] = t[Len(a) + k]
  BY <1>1, <1>4, <1>5, SMT
<1>7. \A k \in 1 .. Len(b) : Len(a) + k \in 1 .. Len(ab)
  BY <1>1, <1>2, SMT
<1>8. \A k \in 1 .. Len(b) : m[k] = b[k]
  BY <1>2, <1>4, <1>6, <1>7
<1> HIDE DEF m
<1>9. m = b
  BY <1>6, <1>8, SeqEqual
<1>10. QED
  BY <1>9 DEF m, t, ab, Middle

LEMMA ReadBack ==
  ASSUME NEW s \in Texts
  PROVE  NameIn(PrintDigest(s)) = s
<1> DEFINE a == LineFront(s)
           line == (a \o Escaped(s)) \o << LF >>
           any == Printed \cup {LF}
<1>1. /\ a \in Seq(Printed) /\ Escaped(s) \in Seq(Printed) /\ LF \in any
      /\ Len(a) = IF NeedsEscape(s) THEN 4 ELSE 3
      /\ a[1] = IF NeedsEscape(s) THEN Backslash ELSE "digest"
      /\ Len(Digits) = 3
      /\ PrintDigest(s) = line
  BY FrontType, EscapedType
<1>2. a \in Seq(any) /\ Escaped(s) \in Seq(any) /\ Len(Escaped(s)) \in Nat
  BY <1>1, SeqMonotonic, LenProperties
<1> HIDE DEF any
<1> HIDE DEF a
<1>3. SubSeq(line, 1 + Len(a), Len(line) - 1) = Escaped(s)
  <2>1. LF \in any
    BY <1>1
  <2>2. Middle(line, a, Escaped(s))
    BY <1>2, <2>1, Between
  <2>3. QED
    BY <2>2 DEF Middle
<1>4. line[1] = a[1]
  <2>1. 1 \in 1 .. Len(a)
    BY <1>1, SMT
  <2>2. << LF >> \in Seq(any)
    BY <1>1, SMT
  <2>3. /\ a \o Escaped(s) \in Seq(any) /\ Len(a \o Escaped(s)) = Len(a) + Len(Escaped(s))
        /\ (a \o Escaped(s))[1] = a[1]
    BY <1>2, <2>1, Joined
  <2>4. 1 \in 1 .. Len(a \o Escaped(s))
    BY <1>1, <1>2, <2>3, SMT
  <2>5. QED
    BY <2>2, <2>3, <2>4, Joined
<1> HIDE DEF line
<1>5. CASE NeedsEscape(s)
  <2>1. line[1] = Backslash /\ 2 + Len(Digits) = 1 + Len(a)
    BY <1>1, <1>4, <1>5, SMT
  <2>2. NameIn(line) = Unescaped(Escaped(s))
    BY <1>3, <2>1 DEF NameIn
  <2>3. QED
    BY <1>1, <2>2, Restored
<1>6. CASE ~ NeedsEscape(s)
  <2>1. line[1] # Backslash /\ 1 + Len(Digits) = 1 + Len(a)
    <3>1. "digest" # Backslash
      BY DEF Backslash
    <3>2. QED
      BY <1>1, <1>4, <1>6, <3>1
  <2>2. NameIn(line) = Escaped(s)
    BY <1>3, <2>1 DEF NameIn
  <2>3. QED
    BY <1>1, <1>6, <2>2, AsItIs
<1>7. QED
  BY <1>5, <1>6

(***************************************************************************)
(* Seeds.                                                                  *)
(***************************************************************************)
LEMMA DigitsRight ==
  /\ DigitsOf(10) = {"0", "1", "2", "3", "4", "5", "6", "7", "8", "9"}
  /\ DigitsOf(16) = DigitsOf(10) \cup {"a", "b", "c", "d", "e", "f"}
                                 \cup {"A", "B", "C", "D", "E", "F"}
<1>1. Range(Decimal) = {"0", "1", "2", "3", "4", "5", "6", "7", "8", "9"}
  <2>1. DOMAIN Decimal = 1 .. 10
    BY SMT DEF Decimal
  <2>2. 1 .. 10 = {1, 2, 3, 4, 5, 6, 7, 8, 9, 10}
    BY SMT
  <2>3. Range(Decimal) = {Decimal[k] : k \in 1 .. 10}
    BY <2>1 DEF Range
  <2>4. /\ Decimal[1] = "0" /\ Decimal[2] = "1" /\ Decimal[3] = "2" /\ Decimal[4] = "3"
        /\ Decimal[5] = "4" /\ Decimal[6] = "5" /\ Decimal[7] = "6" /\ Decimal[8] = "7"
        /\ Decimal[9] = "8" /\ Decimal[10] = "9"
    BY SMT DEF Decimal
  <2>5. Range(Decimal) = {Decimal[1], Decimal[2], Decimal[3], Decimal[4], Decimal[5],
                          Decimal[6], Decimal[7], Decimal[8], Decimal[9], Decimal[10]}
    <3>1. \A k \in 1 .. 10 : \/ k = 1 \/ k = 2 \/ k = 3 \/ k = 4 \/ k = 5
                             \/ k = 6 \/ k = 7 \/ k = 8 \/ k = 9 \/ k = 10
      BY SMT
    <3>2. QED
      BY <2>2, <2>3, <3>1, SMT
  <2>6. QED
    BY <2>4, <2>5
<1>2. Range(Lower) = {"a", "b", "c", "d", "e", "f"}
  <2>1. DOMAIN Lower = 1 .. 6
    BY SMT DEF Lower
  <2>2. 1 .. 6 = {1, 2, 3, 4, 5, 6}
    BY SMT
  <2>3. Range(Lower) = {Lower[k] : k \in 1 .. 6}
    BY <2>1 DEF Range
  <2>4. /\ Lower[1] = "a" /\ Lower[2] = "b" /\ Lower[3] = "c" /\ Lower[4] = "d"
        /\ Lower[5] = "e" /\ Lower[6] = "f"
    BY SMT DEF Lower
  <2>5. QED
    BY <2>2, <2>3, <2>4, Zenon
<1>3. Range(Upper) = {"A", "B", "C", "D", "E", "F"}
  <2>1. DOMAIN Upper = 1 .. 6
    BY SMT DEF Upper
  <2>2. 1 .. 6 = {1, 2, 3, 4, 5, 6}
    BY SMT
  <2>3. Range(Upper) = {Upper[k] : k \in 1 .. 6}
    BY <2>1 DEF Range
  <2>4. /\ Upper[1] = "A" /\ Upper[2] = "B" /\ Upper[3] = "C" /\ Upper[4] = "D"
        /\ Upper[5] = "E" /\ Upper[6] = "F"
    BY SMT DEF Upper
  <2>5. QED
    BY <2>2, <2>3, <2>4, Zenon
<1>4. QED
  BY <1>1, <1>2, <1>3, SMT DEF DigitsOf

LEMMA DigitValueType ==
  ASSUME NEW c \in DigitsOf(16)
  PROVE  DigitValue(c) \in Nat
<1>1. CASE IsDigit(c)
  <2>1. DOMAIN Decimal = 1 .. 10
    BY SMT DEF Decimal
  <2>2. \E k \in 1 .. 10 : Decimal[k] = c
    BY <1>1, <2>1 DEF IsDigit, DigitsOf, Range
  <2>3. (CHOOSE k \in 1 .. 10 : Decimal[k] = c) \in 1 .. 10
    BY <2>2
  <2> DEFINE k == CHOOSE k \in 1 .. 10 : Decimal[k] = c
  <2> HIDE DEF k
  <2>4. k - 1 \in Nat
    <3>1. k \in 1 .. 10
      BY <2>3 DEF k
    <3>2. QED
      BY <3>1, SMT
  <2>5. QED
    BY <1>1, <2>4 DEF DigitValue, k
<1>2. CASE ~ IsDigit(c)
  <2>1. DOMAIN Lower = 1 .. 6 /\ DOMAIN Upper = 1 .. 6
    BY SMT DEF Lower, Upper
  <2>2. \E k \in 1 .. 6 : c \in {Lower[k], Upper[k]}
    BY <1>2, <2>1 DEF IsDigit, DigitsOf, Range
  <2>3. (CHOOSE k \in 1 .. 6 : c \in {Lower[k], Upper[k]}) \in 1 .. 6
    BY <2>2
  <2> DEFINE k == CHOOSE k \in 1 .. 6 : c \in {Lower[k], Upper[k]}
  <2> HIDE DEF k
  <2>4. k + 9 \in Nat
    <3>1. k \in 1 .. 6
      BY <2>3 DEF k
    <3>2. QED
      BY <3>1, SMT
  <2>5. QED
    BY <1>2, <2>4 DEF DigitValue, k
<1>3. QED
  BY <1>1, <1>2

(* What strtoull computes is the number the digits write, kept at Cap.     *)
LEMMA ValueRight ==
  ASSUME NEW base \in {10, 16}, NEW d \in Seq(DigitsOf(16))
  PROVE  /\ Number(base, d) \in Nat
         /\ Value(base, d) = IF Number(base, d) < Cap THEN Number(base, d) ELSE Cap
<1> DEFINE L == Len(d)
           dv(k) == DigitValue(d[k])
           Capped(x) == IF x < Cap THEN x ELSE Cap
           EqN(g) == g = [k \in 0 .. L |-> IF k = 0 THEN 0 ELSE base * g[k - 1] + dv(k)]
           EqV(g) == g = [k \in 0 .. L |-> IF k = 0 THEN 0 ELSE Capped(base * g[k - 1] + dv(k))]
<1>1. /\ L \in Nat /\ L \in 0 .. L /\ 0 \in 0 .. L
      /\ \A k \in 0 .. L : k # 0 => k \in 1 .. L /\ k - 1 \in 0 .. L
      /\ \A k \in 1 .. L : k \in 0 .. L /\ k # 0 /\ k - 1 \in 0 .. L
  <2>1. L \in Nat
    BY LenProperties
  <2>2. QED
    BY <2>1, SMT
<1>2. \A k \in 1 .. L : dv(k) \in Nat
  BY ElementOfSeq, DigitValueType
<1>3. Cap \in Nat /\ Cap > 0
  BY TextAssumption, SMT
<1> HIDE DEF dv
<1>4. \A x \in Nat : \A k \in 1 .. L : base * x + dv(k) \in Nat
  BY <1>2, SMT
<1>5. \A x \in Nat : Capped(x) \in Nat
  BY <1>3
<1>6. \E g : EqN(g)
  <2> DEFINE next == [n \in 1 .. L |-> [x \in Nat |-> base * x + dv(n)]]
  <2>1. /\ next \in [1 .. L -> [Nat -> Nat]]
        /\ \A n \in 1 .. L : \A x \in Nat : next[n][x] = base * x + dv(n)
    BY <1>4
  <2> HIDE DEF next
  <2>2. Iterates(L, Nat, 0, next)
    BY <1>1, <2>1, PrimitiveRecursion
  <2>3. PICK f \in [0 .. L -> Nat] : f[0] = 0 /\ \A n \in 1 .. L : f[n] = next[n][f[n - 1]]
    BY <2>2 DEF Iterates
  <2>4. \A k \in 0 .. L : f[k] = IF k = 0 THEN 0 ELSE base * f[k - 1] + dv(k)
    BY <1>1, <2>1, <2>3
  <2>5. EqN(f)
    BY <2>4
  <2> HIDE DEF EqN
  <2>6. QED
    BY <2>5
<1>7. \E g : EqV(g)
  <2> DEFINE next == [n \in 1 .. L |-> [x \in Nat |-> Capped(base * x + dv(n))]]
  <2>1. /\ next \in [1 .. L -> [Nat -> Nat]]
        /\ \A n \in 1 .. L : \A x \in Nat : next[n][x] = Capped(base * x + dv(n))
    <3> HIDE DEF Capped
    <3>1. \A n \in 1 .. L : \A x \in Nat : Capped(base * x + dv(n)) \in Nat
      BY <1>4, <1>5
    <3>2. QED
      BY <3>1
  <2> HIDE DEF next, Capped
  <2>2. Iterates(L, Nat, 0, next)
    BY <1>1, <2>1, PrimitiveRecursion
  <2>3. PICK f \in [0 .. L -> Nat] : f[0] = 0 /\ \A n \in 1 .. L : f[n] = next[n][f[n - 1]]
    BY <2>2 DEF Iterates
  <2>4. \A k \in 0 .. L : f[k] = IF k = 0 THEN 0 ELSE Capped(base * f[k - 1] + dv(k))
    BY <1>1, <2>1, <2>3
  <2>5. EqV(f)
    BY <2>4
  <2> HIDE DEF EqV
  <2>6. QED
    BY <2>5
<1> DEFINE n == CHOOSE g : EqN(g)
           v == CHOOSE g : EqV(g)
<1>8. EqN(n) /\ EqV(v)
  <2> HIDE DEF EqN, EqV
  <2>1. QED
    BY <1>6, <1>7
<1>9. Number(base, d) = n[L] /\ Value(base, d) = v[L]
  BY DEF Number, Value, dv
<1> HIDE DEF n, v
<1>10. /\ n[0] = 0 /\ v[0] = 0
       /\ \A k \in 1 .. L : /\ n[k] = base * n[k - 1] + dv(k)
                            /\ v[k] = Capped(base * v[k - 1] + dv(k))
  <2>1. n[0] = 0 /\ v[0] = 0
    BY <1>1, <1>8
  <2>2. ASSUME NEW k \in 1 .. L PROVE n[k] = base * n[k - 1] + dv(k)
    BY <1>1, <1>8
  <2>3. ASSUME NEW k \in 1 .. L PROVE v[k] = Capped(base * v[k - 1] + dv(k))
    BY <1>1, <1>8
  <2>4. QED
    BY <2>1, <2>2, <2>3
<1> HIDE DEF EqN, EqV
<1> DEFINE S == {k \in Nat : n[k] \in Nat /\ v[k] = Capped(n[k])}
<1>11. 0 \in S
  BY <1>3, <1>10
<1>12. ASSUME NEW k \in 1 .. L, k - 1 \in S PROVE k \in S
  <2> DEFINE x == n[k - 1]  y == v[k - 1]  e == dv(k)
  <2>1. x \in Nat /\ y = Capped(x) /\ e \in Nat /\ k \in Nat
    BY <1>2, <1>12, SMT
  <2>2. n[k] = base * x + e /\ v[k] = Capped(base * y + e)
    BY <1>10
  <2> HIDE DEF x, y, e
  <2>3. base * x + e \in Nat /\ Capped(base * y + e) = Capped(base * x + e)
    <3>1. CASE base = 10
      BY <1>3, <2>1, <3>1, SMT
    <3>2. CASE base = 16
      BY <1>3, <2>1, <3>2, SMT
    <3>3. QED
      BY <3>1, <3>2
  <2> HIDE DEF Capped
  <2>4. QED
    BY <2>1, <2>2, <2>3
<1>13. L \in S
  <2> HIDE DEF S
  <2>1. \A k \in 0 .. L : k \in S
    BY <1>1, <1>11, <1>12, UpTo
  <2>2. QED
    BY <1>1, <2>1
<1>14. QED
  BY <1>9, <1>13

StopsAt(s, k, C, m) ==
  /\ m \in k .. Len(s) + 1
  /\ \A j \in k .. m - 1 : s[j] \in C
  /\ m \in DOMAIN s => s[m] \notin C

LEMMA RunRight ==
  ASSUME NEW s \in Texts, NEW C, NEW k \in 1 .. Len(s) + 1
  PROVE  StopsAt(s, k, C, Run(s, k, C))
<1> DEFINE N == Len(s) + 1 - k
           S == {n \in Nat : \/ \A j \in k .. k + n - 1 : s[j] \in C
                             \/ \E m \in k .. Len(s) : StopsAt(s, k, C, m)}
<1>1. /\ Len(s) \in Nat /\ N \in Nat /\ N \in 0 .. N /\ k \in Nat /\ DOMAIN s = 1 .. Len(s)
      /\ k + N - 1 = Len(s)
  <2>1. Len(s) \in Nat /\ DOMAIN s = 1 .. Len(s)
    BY LenProperties DEF Texts
  <2>2. QED
    BY <2>1, SMT
<1>2. 0 \in S
  BY <1>1, SMT
<1>3. ASSUME NEW n \in 1 .. N, n - 1 \in S PROVE n \in S
  <2>1. n \in Nat /\ n - 1 \in Nat
    BY SMT
  <2>2. CASE \E m \in k .. Len(s) : StopsAt(s, k, C, m)
    BY <2>1, <2>2
  <2>3. CASE \A j \in k .. k + (n - 1) - 1 : s[j] \in C
    <3> DEFINE m == k + n - 1
    <3>1. /\ m \in k .. Len(s) /\ m \in k .. Len(s) + 1
          /\ k + (n - 1) - 1 = m - 1
          /\ \A j \in k .. m : j \in k .. m - 1 \/ j = m
      BY <1>1, SMT
    <3> HIDE DEF m
    <3>2. CASE s[m] \in C
      <4>1. \A j \in k .. m : s[j] \in C
        BY <2>3, <3>1, <3>2
      <4>2. QED
        BY <2>1, <4>1 DEF m
    <3>3. CASE s[m] \notin C
      <4>1. StopsAt(s, k, C, m)
        BY <2>3, <3>1, <3>3 DEF StopsAt
      <4>2. QED
        BY <2>1, <3>1, <4>1
    <3>4. QED
      BY <3>2, <3>3
  <2>4. QED
    BY <1>3, <2>2, <2>3
<1>4. N \in S
  <2> HIDE DEF S
  <2>1. \A n \in 0 .. N : n \in S
    <3> HIDE DEF N
    <3>1. QED
      BY <1>1, <1>2, <1>3, UpTo
  <2>2. QED
    BY <1>1, <2>1
<1>5. \E m \in k .. Len(s) + 1 : StopsAt(s, k, C, m)
  <2>1. CASE \E m \in k .. Len(s) : StopsAt(s, k, C, m)
    BY <1>1, <2>1, SMT
  <2>2. CASE \A j \in k .. k + N - 1 : s[j] \in C
    <3>1. /\ Len(s) + 1 \in k .. Len(s) + 1 /\ (Len(s) + 1) - 1 = k + N - 1
          /\ Len(s) + 1 \notin DOMAIN s
      BY <1>1, SMT
    <3>2. QED
      BY <2>2, <3>1 DEF StopsAt
  <2>3. QED
    BY <1>4, <2>1, <2>2
<1>6. QED
  BY <1>5 DEF Run, StopsAt

LEMMA NoDigits ==
  /\ DigitsOf(10) \subseteq DigitsOf(16)
  /\ \A c \in {" ", LF, CR, "+", "-", "x", "X", NUL} : c \notin DigitsOf(16)
  /\ "0" \in DigitsOf(10)
BY DigitsRight DEF LF, CR, NUL

(* A text that starts with a digit, and for base 16 without a prefix: all  *)
(* of it is read if it is digits, and not all otherwise.                   *)
ReadsAll(t, base) ==
  LET r == Strtoull(t, base)
      n == Number(base, t)
  IN  IF \A k \in 1 .. Len(t) : t[k] \in DigitsOf(base)
      THEN r.end = Len(t) + 1 /\ r.range = (n >= Cap) /\ (n < Cap => r.value = n) /\ n \in Nat
      ELSE r.end # Len(t) + 1

LEMMA StrtoullRight ==
  ASSUME NEW t \in Texts, NEW base \in {10, 16},
         Char(t, 1) \in DigitsOf(base), base = 16 => ~ Prefix(t, 1)
  PROVE  ReadsAll(t, base)
<1>1. /\ Len(t) \in Nat /\ DOMAIN t = 1 .. Len(t)
  BY LenProperties DEF Texts
<1>2. DigitsOf(base) \subseteq DigitsOf(16)
  BY NoDigits
<1>3. /\ 1 \in 1 .. Len(t) /\ 1 \in DOMAIN t /\ t[1] \in DigitsOf(base) /\ Char(t, 1) = t[1]
      /\ 1 \in 1 .. Len(t) + 1
  <2>1. 1 \in DOMAIN t
    BY <1>2, NoDigits DEF Char
  <2>2. QED
    BY <1>1, <2>1, SMT DEF Char
<1>4. Run(t, 1, {" ", LF, CR}) = 1
  <2> DEFINE m == Run(t, 1, {" ", LF, CR})
  <2>1. StopsAt(t, 1, {" ", LF, CR}, m)
    BY <1>3, RunRight
  <2>2. t[1] \notin {" ", LF, CR}
    BY <1>2, <1>3, NoDigits
  <2> HIDE DEF m
  <2>3. m = 1 \/ 1 \in 1 .. m - 1
    <3>1. m \in 1 .. Len(t) + 1
      BY <2>1 DEF StopsAt
    <3>2. QED
      BY <1>1, <3>1, SMT
  <2>4. QED
    BY <2>1, <2>2, <2>3 DEF StopsAt, m
<1> DEFINE end == Run(t, 1, DigitsOf(base))
<1>5. /\ StopsAt(t, 1, DigitsOf(base), end)
      /\ end # 1
  <2>1. StopsAt(t, 1, DigitsOf(base), end)
    BY <1>3, RunRight
  <2> HIDE DEF end
  <2>2. QED
    BY <1>3, <2>1 DEF StopsAt
<1> HIDE DEF end
<1> DEFINE v == Value(base, SubSeq(t, 1, end - 1))
           r == [ value |-> IF v = Cap THEN Cap - 1 ELSE v,
                  range |-> v = Cap,
                  end   |-> end ]
<1>6. Strtoull(t, base) = r
  <2>1. Char(t, 1) \notin {"+", "-"}
    BY <1>2, <1>3, NoDigits
  <2>2. Strtoull(t, base) =
          IF end = 1 THEN [value |-> 0, range |-> FALSE, end |-> 1]
          ELSE [ value |-> IF v = Cap THEN Cap - 1
                           ELSE IF Char(t, 1) = "-" THEN (Cap - v) % Cap ELSE v,
                 range |-> v = Cap,
                 end   |-> end ]
    BY <1>4, <2>1 DEF Strtoull, end
  <2>3. QED
    BY <1>5, <2>1, <2>2
<1> HIDE DEF v
<1>7. r.end = end /\ r.range = (v = Cap) /\ (v # Cap => r.value = v)
  OBVIOUS
<1> HIDE DEF r
<1>8. CASE \A k \in 1 .. Len(t) : t[k] \in DigitsOf(base)
  <2>1. end = Len(t) + 1
    <3>1. end \in 1 .. Len(t) + 1 /\ (end \in DOMAIN t => t[end] \notin DigitsOf(base))
      BY <1>5 DEF StopsAt
    <3>2. end \notin 1 .. Len(t)
      BY <1>1, <1>8, <3>1
    <3>3. QED
      BY <1>1, <3>1, <3>2, SMT
  <2>2. v = Value(base, t)
    <3>1. end - 1 = Len(t)
      BY <1>1, <2>1, SMT
    <3>2. QED
      BY <3>1, SubSeqFull DEF v, Texts
  <2>3. t \in Seq(DigitsOf(16))
    <3>1. \A k \in 1 .. Len(t) : t[k] \in DigitsOf(16)
      BY <1>2, <1>8
    <3>2. SubSeq(t, 1, Len(t)) \in Seq(DigitsOf(16))
      BY <1>1, <3>1, SubSeqProperties, SMT
    <3>3. QED
      BY <3>2, SubSeqFull DEF Texts
  <2> DEFINE n == Number(base, t)
  <2>4. n \in Nat /\ v = IF n < Cap THEN n ELSE Cap
    BY <2>2, <2>3, ValueRight
  <2> HIDE DEF n
  <2>5. (v = Cap) = (n >= Cap) /\ (n < Cap => v # Cap /\ v = n)
    BY <2>4, TextAssumption, SMT
  <2>6. r.end = Len(t) + 1 /\ r.range = (n >= Cap) /\ (n < Cap => r.value = n) /\ n \in Nat
    BY <1>7, <2>1, <2>4, <2>5
  <2>7. QED
    BY <1>6, <1>8, <2>6 DEF ReadsAll, n
<1>9. CASE ~ (\A k \in 1 .. Len(t) : t[k] \in DigitsOf(base))
  <2>1. end # Len(t) + 1
    <3>1. ASSUME end = Len(t) + 1 PROVE FALSE
      <4>1. end - 1 = Len(t)
        BY <1>1, <3>1, SMT
      <4>2. QED
        BY <1>5, <1>9, <4>1 DEF StopsAt
    <3>2. QED
      BY <3>1
  <2>2. QED
    BY <1>6, <1>7, <1>9, <2>1 DEF ReadsAll
<1>10. QED
  BY <1>8, <1>9

Hex(s) == Len(s) > 2 /\ s[1] = "0" /\ s[2] \in {"x", "X"} /\ Writes(16, From(s, 3))

LEMMA WritesRight ==
  ASSUME NEW d \in Texts, NEW base
  PROVE  Writes(base, d) <=> d # << >> /\ \A k \in 1 .. Len(d) : d[k] \in DigitsOf(base)
BY LenProperties DEF Writes, Texts

(* The seed a text is read as is the number it writes, or none.            *)
LEMMA SeedRight ==
  ASSUME NEW s \in Texts
  PROVE  ParseU64(s) = SeedMeaning(s)
<1> DEFINE Of(base, d) == IF Writes(base, d) /\ Number(base, d) < Cap THEN {Number(base, d)} ELSE {}
           Read(base, d) == LET r == Strtoull(d, base)
                            IN  IF r.range \/ r.end # Len(d) + 1 THEN {} ELSE {r.value}
<1>1. Len(s) \in Nat /\ DOMAIN s = 1 .. Len(s)
  BY LenProperties DEF Texts
<1>2. ASSUME NEW d \in Texts, NEW base \in {10, 16},
             Char(d, 1) \in DigitsOf(base), base = 16 => ~ Prefix(d, 1)
      PROVE  Read(base, d) = Of(base, d)
  <2>1. ReadsAll(d, base)
    BY <1>2, StrtoullRight
  <2>2. d # << >>
    <3>1. Char(d, 1) # NUL
      BY <1>2, NoDigits
    <3>2. QED
      BY <3>1, EmptySeq DEF Char
  <2>3. CASE \A k \in 1 .. Len(d) : d[k] \in DigitsOf(base)
    <3>1. Writes(base, d)
      BY <2>2, <2>3, WritesRight
    <3> DEFINE n == Number(base, d)  r == Strtoull(d, base)
    <3>2. r.end = Len(d) + 1 /\ r.range = (n >= Cap) /\ (n < Cap => r.value = n) /\ n \in Nat
      BY <2>1, <2>3 DEF ReadsAll
    <3> HIDE DEF n, r
    <3>3. (n >= Cap) = ~ (n < Cap)
      BY <3>2, TextAssumption, SMT
    <3>4. QED
      BY <3>1, <3>2, <3>3 DEF n, r
  <2>4. CASE ~ \A k \in 1 .. Len(d) : d[k] \in DigitsOf(base)
    <3>1. ~ Writes(base, d)
      BY <2>4, WritesRight
    <3>2. Strtoull(d, base).end # Len(d) + 1
      BY <2>1, <2>4 DEF ReadsAll
    <3>3. QED
      BY <3>1, <3>2
  <2>5. QED
    BY <2>3, <2>4
<1>3. CASE Prefix(s, 1)
  <2>1. /\ 1 \in DOMAIN s /\ 2 \in DOMAIN s /\ s[1] = "0" /\ s[2] \in {"x", "X"}
        /\ Len(s) >= 2
    <3>1. 1 + 1 = 2
      BY SMT
    <3>2. Char(s, 1) = "0" /\ Char(s, 2) \in {"x", "X"}
      BY <1>3, <3>1 DEF Prefix
    <3>3. 1 \in DOMAIN s /\ 2 \in DOMAIN s
      BY <3>2 DEF Char, NUL
    <3>4. QED
      BY <1>1, <3>2, <3>3, SMT DEF Char
  <2> DEFINE d == From(s, 3)
  <2>2. /\ d \in Texts /\ Len(d) = Len(s) - 2
        /\ \A j \in 1 .. Len(s) - 2 : d[j] = s[j + 2]
        /\ DOMAIN d = 1 .. Len(d)
    <3>1. 3 \in 1 .. Len(s) + 1
      BY <1>1, <2>1, SMT
    <3>2. /\ d \in Seq(Chars) /\ Len(d) = Len(s) - 3 + 1
          /\ \A j \in 1 .. Len(s) - 3 + 1 : d[j] = s[3 + j - 1]
      BY <3>1, FromRight DEF Texts
    <3> HIDE DEF d
    <3>3. Len(s) - 3 + 1 = Len(s) - 2 /\ \A j \in 1 .. Len(s) - 2 : 3 + j - 1 = j + 2
      BY <1>1, SMT
    <3>4. QED
      BY <3>2, <3>3, LenProperties DEF Texts
  <2> HIDE DEF d
  <2>3. ~ Writes(10, s)
    <3>1. s[2] \notin DigitsOf(10)
      BY <2>1, NoDigits
    <3>2. QED
      BY <2>1, <3>1 DEF Writes
  <2>4. SeedMeaning(s) = Of(16, d)
    <3>1. Hex(s) <=> Writes(16, d)
      <4>1. Writes(16, d) => Len(d) # 0
        BY <2>2, EmptySeq DEF Writes, Texts
      <4>2. Writes(16, d) => Len(s) > 2
        BY <1>1, <2>1, <2>2, <4>1, SMT
      <4>3. QED
        BY <2>1, <4>2 DEF Hex, d
    <3>2. SeedMeaning(s) = {v \in IF Hex(s) THEN {Number(16, d)} ELSE {} : v < Cap}
      BY <2>3 DEF SeedMeaning, Hex, d
    <3>3. QED
      BY <3>1, <3>2
  <2>5. \A k \in {1, 2} : Char(d, k) = Char(s, k + 2)
    <3>1. \A k \in {1, 2} : (k \in 1 .. Len(s) - 2) = (k + 2 \in 1 .. Len(s))
      BY <1>1, <2>1, SMT
    <3>2. QED
      BY <1>1, <2>2, <3>1 DEF Char
  <2>6. Char(d, 1) = Char(s, 3) /\ Char(d, 2) = Char(s, 4) /\ (Prefix(d, 1) <=> Prefix(s, 3))
    <3>1. 1 + 2 = 3 /\ 2 + 2 = 4 /\ 1 + 1 = 2 /\ 3 + 1 = 4
      BY SMT
    <3>2. Char(d, 1) = Char(s, 1 + 2) /\ Char(d, 2) = Char(s, 2 + 2)
      BY <2>5
    <3>3. QED
      BY <3>1, <3>2 DEF Prefix
  <2>7. CASE Screened(s)
    <3>1. Char(d, 1) \in DigitsOf(16) /\ ~ Prefix(d, 1)
      BY <1>3, <2>6, <2>7 DEF Screened, IsHexDigit
    <3>2. ParseU64(s) = Read(16, d)
      BY <1>3, <2>7 DEF ParseU64, d, Refused
    <3>3. QED
      BY <1>2, <2>2, <2>4, <3>1, <3>2
  <2>8. CASE ~ Screened(s)
    <3>1. ParseU64(s) = {}
      BY <2>8 DEF ParseU64, Refused
    <3>2. ~ Writes(16, d)
      <4> SUFFICES ASSUME Writes(16, d) PROVE FALSE
        OBVIOUS
      <4>1. d # << >> /\ \A k \in DOMAIN d : d[k] \in DigitsOf(16)
        BY DEF Writes
      <4>2. 1 \in DOMAIN d
        BY <2>2, <4>1, EmptySeq, SMT DEF Texts
      <4>3. Char(s, 3) \in DigitsOf(16)
        BY <2>6, <4>1, <4>2 DEF Char
      <4>4. Char(s, 4) \in DigitsOf(16) \cup {NUL}
        BY <2>6, <4>1 DEF Char
      <4>5. ~ Prefix(s, 3)
        <5>1. 3 + 1 = 4
          BY SMT
        <5>2. Char(s, 4) \notin {"x", "X"}
          BY <4>4, NoDigits DEF NUL
        <5>3. QED
          BY <5>1, <5>2 DEF Prefix
      <4>6. QED
        BY <1>3, <2>8, <4>3, <4>5 DEF Screened, IsHexDigit
    <3>3. QED
      BY <2>4, <3>1, <3>2
  <2>9. QED
    BY <2>7, <2>8
<1>4. CASE ~ Prefix(s, 1)
  <2>1. ~ Hex(s)
    <3> SUFFICES ASSUME Hex(s) PROVE FALSE
      OBVIOUS
    <3>1. 1 \in DOMAIN s /\ 2 \in DOMAIN s /\ 1 + 1 = 2
      <4>1. Len(s) > 2
        BY DEF Hex
      <4>2. QED
        BY <1>1, <4>1, SMT
    <3>2. QED
      BY <1>4, <3>1 DEF Hex, Prefix, Char
  <2>2. SeedMeaning(s) = Of(10, s)
    <3>1. SeedMeaning(s) = {v \in IF Writes(10, s) THEN {Number(10, s)} ELSE {} : v < Cap}
      BY <2>1 DEF SeedMeaning, Hex
    <3>2. QED
      BY <3>1
  <2>3. CASE Screened(s)
    <3>1. Char(s, 1) \in DigitsOf(10)
      BY <1>4, <2>3 DEF Screened, IsDigit
    <3>2. ParseU64(s) = Read(10, s)
      BY <1>4, <2>3 DEF ParseU64, Refused
    <3>3. Read(10, s) = Of(10, s)
      BY <1>2, <1>4, <3>1
    <3>4. QED
      BY <2>2, <3>2, <3>3
  <2>4. CASE ~ Screened(s)
    <3>1. ParseU64(s) = {}
      BY <2>4 DEF ParseU64, Refused
    <3>2. ~ Writes(10, s)
      <4> SUFFICES ASSUME Writes(10, s) PROVE FALSE
        OBVIOUS
      <4>1. s # << >> /\ \A k \in DOMAIN s : s[k] \in DigitsOf(10)
        BY DEF Writes
      <4>2. 1 \in DOMAIN s
        BY <1>1, <4>1, EmptySeq, SMT DEF Texts
      <4>3. QED
        BY <1>4, <2>4, <4>1, <4>2 DEF Screened, IsDigit, Char
    <3>3. QED
      BY <2>2, <3>1, <3>2
  <2>5. QED
    BY <2>3, <2>4
<1>5. QED
  BY <1>3, <1>4

(***************************************************************************)
(* Arguments.                                                              *)
(***************************************************************************)

(* A text starts with t and goes on with v.                                *)
StartsWith(a, t, v) ==
  Len(a) >= Len(t) /\ (\A j \in 1 .. Len(t) : a[j] = t[j]) /\ From(a, Len(t) + 1) = v

Joins(a, t, v) == a = t \o v <=> StartsWith(a, t, v)

LEMMA Spelled ==
  ASSUME NEW C, NEW a \in Seq(C), NEW t \in Seq(C), NEW v \in Seq(C)
  PROVE  Joins(a, t, v)
<1> DEFINE w == t \o v
<1>1. Len(a) \in Nat /\ Len(t) \in Nat /\ Len(v) \in Nat
  BY LenProperties
<1>2. /\ w \in Seq(C) /\ Len(w) = Len(t) + Len(v)
      /\ \A k \in 1 .. Len(t) : w[k] = t[k]
      /\ \A k \in 1 .. Len(v) : w[Len(t) + k] = v[k]
  BY Joined
<1> HIDE DEF w
<1>3. ASSUME a = w PROVE StartsWith(a, t, v)
  <2>1. Len(t) + 1 \in 1 .. Len(a) + 1 /\ Len(a) >= Len(t)
    BY <1>1, <1>2, <1>3, SMT
  <2> DEFINE f == From(a, Len(t) + 1)
  <2>2. /\ f \in Seq(C) /\ Len(f) = Len(a) - (Len(t) + 1) + 1
        /\ \A j \in 1 .. Len(a) - (Len(t) + 1) + 1 : f[j] = a[Len(t) + 1 + j - 1]
    BY <2>1, FromRight
  <2> HIDE DEF f
  <2>3. Len(a) - (Len(t) + 1) + 1 = Len(v) /\ \A j \in 1 .. Len(v) : Len(t) + 1 + j - 1 = Len(t) + j
    BY <1>1, <1>2, <1>3, SMT
  <2>4. f = v
    <3>1. ASSUME NEW j \in 1 .. Len(f) PROVE f[j] = v[j]
      <4>1. j \in 1 .. Len(v) /\ Len(t) + 1 + j - 1 = Len(t) + j
        BY <2>2, <2>3
      <4>2. f[j] = a[Len(t) + j]
        BY <2>2, <2>3, <4>1
      <4>3. QED
        BY <1>2, <1>3, <4>1, <4>2
    <3>2. QED
      BY <2>2, <2>3, <3>1, SeqEqual
  <2>5. QED
    BY <1>2, <1>3, <2>1, <2>4 DEF StartsWith, f
<1>4. ASSUME StartsWith(a, t, v) PROVE a = w
  <2>1. Len(t) + 1 \in 1 .. Len(a) + 1 /\ Len(a) >= Len(t)
    BY <1>1, <1>4, SMT DEF StartsWith
  <2>2. /\ Len(v) = Len(a) - (Len(t) + 1) + 1
        /\ \A j \in 1 .. Len(a) - (Len(t) + 1) + 1 : v[j] = a[Len(t) + 1 + j - 1]
    BY <1>4, <2>1, FromRight DEF StartsWith
  <2>3. Len(a) = Len(w)
    BY <1>1, <1>2, <2>2, SMT
  <2>4. ASSUME NEW k \in 1 .. Len(a) PROVE a[k] = w[k]
    <3>1. CASE k \in 1 .. Len(t)
      BY <1>2, <1>4, <3>1 DEF StartsWith
    <3>2. CASE k \notin 1 .. Len(t)
      <4>1. /\ k - Len(t) \in 1 .. Len(v) /\ k - Len(t) \in 1 .. Len(a) - (Len(t) + 1) + 1
            /\ Len(t) + 1 + (k - Len(t)) - 1 = k /\ Len(t) + (k - Len(t)) = k
        BY <1>1, <2>2, <3>2, SMT
      <4>2. QED
        BY <1>2, <2>2, <4>1
    <3>3. QED
      BY <3>1, <3>2
  <2>5. QED
    BY <1>2, <2>3, <2>4, SeqEqual
<1>5. QED
  BY <1>3, <1>4 DEF Joins, w

LEMMA Two ==
  ASSUME NEW C, NEW p \in C, NEW q \in C
  PROVE  << p, q >> \in Seq(C) /\ Len(<< p, q >>) = 2 /\ << p, q >>[1] = p /\ << p, q >>[2] = q
BY SMT

LEMMA Three ==
  ASSUME NEW C, NEW p \in C, NEW q \in C, NEW n \in C
  PROVE  /\ << p, q, n >> \in Seq(C) /\ Len(<< p, q, n >>) = 3
         /\ << p, q, n >>[1] = p /\ << p, q, n >>[2] = q /\ << p, q, n >>[3] = n
BY SMT

LEMMA Four ==
  ASSUME NEW C, NEW p \in C, NEW q \in C, NEW n \in C, NEW e \in C
  PROVE  /\ << p, q, n, e >> \in Seq(C) /\ Len(<< p, q, n, e >>) = 4
         /\ << p, q, n, e >>[1] = p /\ << p, q, n, e >>[2] = q
         /\ << p, q, n, e >>[3] = n /\ << p, q, n, e >>[4] = e
BY SMT

LEMMA Numerals ==
  /\ \A j : j \in 1 .. 2 <=> j = 1 \/ j = 2
  /\ \A j : j \in 1 .. 3 <=> j = 1 \/ j = 2 \/ j = 3
  /\ \A j : j \in 1 .. 4 <=> j = 1 \/ j = 2 \/ j = 3 \/ j = 4
BY SMT

(* The forms an option is written in, letter by letter.                    *)
Is2(a, p, q) == Len(a) = 2 /\ a[1] = p /\ a[2] = q
Is3(a, p, q, n) == Len(a) = 3 /\ a[1] = p /\ a[2] = q /\ a[3] = n
Is2And(a, p, q, v) == Len(a) >= 2 /\ a[1] = p /\ a[2] = q /\ From(a, 3) = v
Is4And(a, p, q, n, e, v) ==
  Len(a) >= 4 /\ a[1] = p /\ a[2] = q /\ a[3] = n /\ a[4] = e /\ From(a, 5) = v

Forms(a, p, q, n, e, v) ==
  /\ a = << p, q >> <=> Is2(a, p, q)
  /\ a = << p, q, n >> <=> Is3(a, p, q, n)
  /\ a = << p, q >> \o v <=> Is2And(a, p, q, v)
  /\ a = << p, q, n, e >> \o v <=> Is4And(a, p, q, n, e, v)

LEMMA FormsRight ==
  ASSUME NEW a \in Texts, NEW v \in Texts, NEW p, NEW q, NEW n, NEW e
  PROVE  Forms(a, p, q, n, e, v)
<1> DEFINE C == Chars \cup {p, q, n, e}
<1>1. p \in C /\ q \in C /\ n \in C /\ e \in C /\ a \in Seq(C) /\ v \in Seq(C)
  BY SeqMonotonic DEF Texts
<1> HIDE DEF C
<1>2. a = << p, q >> <=> Is2(a, p, q)
  <2> DEFINE t == << p, q >>
  <2>1. t \in Seq(C) /\ Len(t) = 2 /\ t[1] = p /\ t[2] = q
    BY <1>1, Two
  <2> HIDE DEF t
  <2>2. Is2(a, p, q) => a = t
    BY <1>1, <2>1, SeqEqual, Numerals DEF Is2
  <2>3. QED
    BY <2>1, <2>2 DEF Is2, t
<1>3. a = << p, q, n >> <=> Is3(a, p, q, n)
  <2> DEFINE t == << p, q, n >>
  <2>1. t \in Seq(C) /\ Len(t) = 3 /\ t[1] = p /\ t[2] = q /\ t[3] = n
    BY <1>1, Three
  <2> HIDE DEF t
  <2>2. Is3(a, p, q, n) => a = t
    BY <1>1, <2>1, SeqEqual, Numerals DEF Is3
  <2>3. QED
    BY <2>1, <2>2 DEF Is3, t
<1>4. a = << p, q >> \o v <=> Is2And(a, p, q, v)
  <2> DEFINE t == << p, q >>
  <2>1. t \in Seq(C) /\ Len(t) = 2 /\ t[1] = p /\ t[2] = q
    BY <1>1, Two
  <2> HIDE DEF t
  <2>2. Joins(a, t, v)
    BY <1>1, <2>1, Spelled
  <2>3. 2 + 1 = 3
    BY SMT
  <2>4. StartsWith(a, t, v) <=> Is2And(a, p, q, v)
    BY <2>1, <2>3, Numerals DEF StartsWith, Is2And
  <2>5. QED
    BY <2>2, <2>4 DEF Joins, t
<1>5. a = << p, q, n, e >> \o v <=> Is4And(a, p, q, n, e, v)
  <2> DEFINE t == << p, q, n, e >>
  <2>1. t \in Seq(C) /\ Len(t) = 4 /\ t[1] = p /\ t[2] = q /\ t[3] = n /\ t[4] = e
    BY <1>1, Four
  <2> HIDE DEF t
  <2>2. Joins(a, t, v)
    BY <1>1, <2>1, Spelled
  <2>3. 4 + 1 = 5
    BY SMT
  <2>4. StartsWith(a, t, v) <=> Is4And(a, p, q, n, e, v)
    BY <2>1, <2>3, Numerals DEF StartsWith, Is4And
  <2>5. QED
    BY <2>2, <2>4 DEF Joins, t
<1>6. QED
  BY <1>2, <1>3, <1>4, <1>5 DEF Forms

LEMMA OptionShape ==
  ASSUME NEW a \in Texts
  PROVE  /\ Len(a) \in Nat /\ DOMAIN a = 1 .. Len(a)
         /\ IsOption(a) <=> Len(a) >= 2 /\ a[1] = "-"
         /\ IsLong(a) <=> Len(a) >= 2 /\ a[2] = "-"
         /\ Char(a, 3) = NUL <=> Len(a) <= 2
         /\ ~ IsOption(a) <=> (a = << >> \/ a[1] # "-" \/ a = << "-" >>)
<1>1. Len(a) \in Nat /\ DOMAIN a = 1 .. Len(a) /\ \A k \in DOMAIN a : a[k] \in Chars /\ a[k] # NUL
  <2>1. Len(a) \in Nat /\ DOMAIN a = 1 .. Len(a)
    BY LenProperties DEF Texts
  <2>2. \A k \in 1 .. Len(a) : a[k] \in Chars
    BY ElementOfSeq DEF Texts
  <2>3. QED
    BY <2>1, <2>2, TextAssumption
<1>2. \A k \in {1, 2, 3} : (k \in DOMAIN a) = (Len(a) >= k)
  BY <1>1, SMT
<1>3. \A k \in {1, 2, 3} : (Char(a, k) = NUL) = ~ (Len(a) >= k)
  BY <1>1, <1>2 DEF Char
<1>4. \A k \in {1, 2, 3} : \A c : c # NUL => (Char(a, k) = c) = (Len(a) >= k /\ a[k] = c)
  BY <1>2 DEF Char
<1>5. "-" # NUL /\ (Len(a) >= 2 => Len(a) >= 1) /\ (~ (Len(a) >= 3)) = (Len(a) <= 2)
  BY <1>1, SMT DEF NUL
<1>6. /\ IsOption(a) <=> Len(a) >= 2 /\ a[1] = "-"
      /\ IsLong(a) <=> Len(a) >= 2 /\ a[2] = "-"
      /\ Char(a, 3) = NUL <=> Len(a) <= 2
  BY <1>3, <1>4, <1>5 DEF IsOption, IsLong
<1>7. (a = << >>) = (Len(a) = 0)
  BY EmptySeq DEF Texts
<1>8. a = << "-" >> <=> Len(a) = 1 /\ a[1] = "-"
  <2> DEFINE C == Chars \cup {"-"}  t == << "-" >>
  <2>1. a \in Seq(C) /\ "-" \in C
    BY SeqMonotonic DEF Texts
  <2> HIDE DEF C
  <2>2. t \in Seq(C) /\ Len(t) = 1 /\ t[1] = "-"
    BY <2>1, SMT
  <2>3. \A j : j \in 1 .. 1 <=> j = 1
    BY SMT
  <2> HIDE DEF t
  <2>4. Len(a) = 1 /\ a[1] = "-" => a = t
    BY <2>1, <2>2, <2>3, SeqEqual
  <2>5. QED
    BY <2>2, <2>4 DEF t
<1>9. ~ IsOption(a) <=> (Len(a) = 0 \/ a[1] # "-" \/ (Len(a) = 1 /\ a[1] = "-"))
  BY <1>1, <1>6, SMT
<1>10. QED
  BY <1>1, <1>6, <1>7, <1>8, <1>9

LEMMA NameRight ==
  ASSUME NEW r \in Texts, NEW n, n # "="
  PROVE  /\ LongName(r) = << n >> <=> Len(r) >= 1 /\ r[1] = n /\ (Len(r) = 1 \/ r[2] = "=")
         /\ LongName(r) = << n >> => (LongName(r) = r <=> Len(r) = 1)
<1> DEFINE C == Chars \cup {n}
           m == Run(r, 1, Chars \ {"="})
           t == << n >>
<1>1. Len(r) \in Nat /\ DOMAIN r = 1 .. Len(r) /\ \A k \in 1 .. Len(r) : r[k] \in Chars
  BY LenProperties, ElementOfSeq DEF Texts
<1>2. /\ m \in 1 .. Len(r) + 1
      /\ \A j \in 1 .. m - 1 : r[j] # "="
      /\ m \in 1 .. Len(r) => r[m] = "="
  <2>1. 1 \in 1 .. Len(r) + 1
    BY <1>1, SMT
  <2>2. StopsAt(r, 1, Chars \ {"="}, m)
    BY <2>1, RunRight
  <2>3. QED
    BY <1>1, <2>2 DEF StopsAt
<1>3. LongName(r) = SubSeq(r, 1, m - 1)
  BY DEF LongName
<1> HIDE DEF m
<1>4. r \in Seq(C) /\ n \in C
  BY SeqMonotonic DEF Texts
<1> HIDE DEF C
<1>5. t \in Seq(C) /\ Len(t) = 1 /\ t[1] = n
  BY <1>4, SMT
<1> HIDE DEF t
<1> DEFINE x == LongName(r)
<1>6. /\ x \in Seq(C) /\ Len(x) = m - 1
      /\ \A j \in 1 .. m - 1 : x[j] = r[j]
  BY <1>1, <1>2, <1>3, <1>4, SMT
<1> HIDE DEF x
<1>7. x = t <=> m = 2 /\ r[1] = n
  <2>1. m = 2 <=> Len(x) = 1
    BY <1>2, <1>6, SMT
  <2>2. m = 2 => x[1] = r[1]
    BY <1>6, SMT
  <2>3. \A j : j \in 1 .. 1 <=> j = 1
    BY SMT
  <2>4. Len(x) = 1 /\ x[1] = n => x = t
    BY <1>5, <1>6, <2>3, SeqEqual
  <2>5. QED
    BY <1>5, <2>1, <2>2, <2>4
<1>8. m = 2 /\ r[1] = n <=> Len(r) >= 1 /\ r[1] = n /\ (Len(r) = 1 \/ r[2] = "=")
  <2>1. ASSUME m = 2 PROVE Len(r) >= 1 /\ (Len(r) = 1 \/ r[2] = "=")
    <3>1. Len(r) >= 1 /\ (Len(r) = 1 \/ 2 \in 1 .. Len(r))
      BY <1>1, <1>2, <2>1, SMT
    <3>2. QED
      BY <1>2, <2>1, <3>1
  <2>2. ASSUME Len(r) >= 1, r[1] = n, Len(r) = 1 \/ r[2] = "=" PROVE m = 2
    <3>1. m # 1
      <4>1. 1 \in 1 .. Len(r)
        BY <1>1, <2>2, SMT
      <4>2. QED
        BY <1>2, <2>2, <4>1
    <3>2. CASE Len(r) = 1
      BY <1>2, <3>1, <3>2, SMT
    <3>3. CASE r[2] = "="
      <4>1. ~ (2 \in 1 .. m - 1)
        BY <1>2, <3>3
      <4>2. QED
        BY <1>1, <1>2, <3>1, <4>1, SMT
    <3>4. QED
      BY <2>2, <3>2, <3>3
  <2>3. QED
    BY <2>1, <2>2
<1>9. ASSUME x = t PROVE x = r <=> Len(r) = 1
  <2>1. x = r => Len(r) = 1
    BY <1>5, <1>9
  <2>2. Len(r) = 1 => x = r
    <3>1. \A j : j \in 1 .. 1 <=> j = 1
      BY SMT
    <3>2. r[1] = n
      BY <1>7, <1>9
    <3>3. QED
      BY <1>4, <1>5, <1>9, <3>1, <3>2, SeqEqual
  <2>3. QED
    BY <2>1, <2>2
<1>10. QED
  BY <1>7, <1>8, <1>9 DEF x, t

LEMMA LettersRight ==
  /\ \A x : /\ LongOption(x) = "h" <=> x = << "help" >>
            /\ LongOption(x) = "V" <=> x = << "version" >>
            /\ LongOption(x) = "s" <=> x = << "seed" >>
            /\ LongOption(x) = "b" <=> x = << "bits" >>
            /\ LongOption(x) \in {"h", "V", "s", "b", "?"}
  /\ \A c : /\ \A o \in {"h", "V", "s", "b"} : ShortOption(c) = o <=> c = o
            /\ ShortOption(c) \in {"h", "V", "s", "b", "?"}
<1>1. /\ << "help" >> # << "version" >> /\ << "help" >> # << "seed" >> /\ << "help" >> # << "bits" >>
      /\ << "version" >> # << "seed" >> /\ << "version" >> # << "bits" >> /\ << "seed" >> # << "bits" >>
  BY SMT
<1>2. ASSUME NEW x
      PROVE  /\ LongOption(x) = "h" <=> x = << "help" >>
             /\ LongOption(x) = "V" <=> x = << "version" >>
             /\ LongOption(x) = "s" <=> x = << "seed" >>
             /\ LongOption(x) = "b" <=> x = << "bits" >>
             /\ LongOption(x) \in {"h", "V", "s", "b", "?"}
  <2> DEFINE h == << "help" >>  V == << "version" >>  s == << "seed" >>  b == << "bits" >>
  <2>1. h # V /\ h # s /\ h # b /\ V # s /\ V # b /\ s # b
    BY <1>1
  <2>2. LongOption(x) = CASE x = h -> "h" [] x = V -> "V" [] x = s -> "s" [] x = b -> "b"
                          [] OTHER -> "?"
    BY DEF LongOption
  <2> HIDE DEF h, V, s, b
  <2>3. /\ LongOption(x) = "h" <=> x = h
        /\ LongOption(x) = "V" <=> x = V
        /\ LongOption(x) = "s" <=> x = s
        /\ LongOption(x) = "b" <=> x = b
        /\ LongOption(x) \in {"h", "V", "s", "b", "?"}
    BY <2>1, <2>2, SMT
  <2>4. QED
    BY <2>3 DEF h, V, s, b
<1>3. QED
  BY <1>2 DEF ShortOption

(* What a long option says, for a name n.                                  *)
LongForms(a, n) ==
  /\ LongName(From(a, 3)) = << n >> /\ Attached(a) = {} <=> a = << "-", "-", n >>
  /\ \A v \in Texts : LongName(From(a, 3)) = << n >> /\ Attached(a) = {v}
                        <=> a = << "-", "-", n, "=" >> \o v

LEMMA LongRight ==
  ASSUME NEW a \in Texts, a[1] = "-", IsLong(a), NEW n, n # "="
  PROVE  LongForms(a, n)
<1> DEFINE r == From(a, 3)
<1>1. Len(a) \in Nat /\ Len(a) >= 2 /\ a[2] = "-"
  BY OptionShape
<1>2. /\ r \in Texts /\ Len(r) = Len(a) - 2 /\ \A j \in 1 .. Len(a) - 2 : r[j] = a[j + 2]
  <2>1. 3 \in 1 .. Len(a) + 1
    BY <1>1, SMT
  <2>2. /\ r \in Seq(Chars) /\ Len(r) = Len(a) - 3 + 1
        /\ \A j \in 1 .. Len(a) - 3 + 1 : r[j] = a[3 + j - 1]
    BY <2>1, FromRight DEF Texts
  <2> HIDE DEF r
  <2>3. Len(a) - 3 + 1 = Len(a) - 2 /\ \A j \in 1 .. Len(a) - 2 : 3 + j - 1 = j + 2
    BY <1>1, SMT
  <2>4. QED
    BY <2>2, <2>3 DEF Texts
<1> HIDE DEF r
<1>3. /\ LongName(r) = << n >> <=> Len(r) >= 1 /\ r[1] = n /\ (Len(r) = 1 \/ r[2] = "=")
      /\ LongName(r) = << n >> => (LongName(r) = r <=> Len(r) = 1)
  BY <1>2, NameRight
<1>4. /\ Len(r) = 1 <=> Len(a) = 3
      /\ Len(r) >= 1 <=> Len(a) >= 3
      /\ Len(r) >= 1 /\ Len(r) # 1 <=> Len(a) >= 4
      /\ Len(a) = 3 => Len(a) >= 3
      /\ Len(a) >= 4 => Len(a) >= 3 /\ Len(a) # 3
      /\ Len(a) >= 3 => Len(a) = 3 \/ Len(a) >= 4
      /\ Len(a) >= 3 => 1 \in 1 .. Len(a) - 2
      /\ Len(a) >= 4 => 2 \in 1 .. Len(a) - 2
      /\ 1 + 2 = 3 /\ 2 + 2 = 4
  BY <1>1, <1>2, SMT
<1>5. /\ Len(a) >= 3 => r[1] = a[3]
      /\ Len(a) >= 4 => r[2] = a[4]
  BY <1>2, <1>4
<1>6. Attached(a) = IF LongName(r) = r THEN {} ELSE {From(r, Len(LongName(r)) + 2)}
  BY DEF Attached, r
<1>7. Len(a) >= 4 => From(r, 3) = From(a, 5)
  <2> SUFFICES ASSUME Len(a) >= 4 PROVE From(r, 3) = From(a, 5)
    OBVIOUS
  <2> DEFINE x == From(r, 3)  y == From(a, 5)
  <2>1. 3 \in 1 .. Len(r) + 1 /\ 5 \in 1 .. Len(a) + 1
    BY <1>1, <1>2, SMT
  <2>2. /\ x \in Seq(Chars) /\ Len(x) = Len(r) - 3 + 1
        /\ \A j \in 1 .. Len(r) - 3 + 1 : x[j] = r[3 + j - 1]
    BY <1>2, <2>1, FromRight DEF Texts
  <2>3. /\ y \in Seq(Chars) /\ Len(y) = Len(a) - 5 + 1
        /\ \A j \in 1 .. Len(a) - 5 + 1 : y[j] = a[5 + j - 1]
    BY <2>1, FromRight DEF Texts
  <2> HIDE DEF x, y
  <2>4. Len(x) = Len(y)
    BY <1>1, <1>2, <2>2, <2>3, SMT
  <2>5. ASSUME NEW j \in 1 .. Len(x) PROVE x[j] = y[j]
    <3>1. /\ j \in 1 .. Len(r) - 3 + 1 /\ j \in 1 .. Len(a) - 5 + 1
          /\ 3 + j - 1 \in 1 .. Len(a) - 2 /\ (3 + j - 1) + 2 = 5 + j - 1
      BY <1>1, <1>2, <2>2, <2>3, <2>4, SMT
    <3>2. QED
      BY <1>2, <2>2, <2>3, <3>1
  <2>6. x = y
    BY <2>2, <2>3, <2>4, <2>5, SeqEqual
  <2>7. QED
    BY <2>6 DEF x, y
<1>8. ASSUME LongName(r) = << n >>
      PROVE  /\ Len(LongName(r)) + 2 = 3
             /\ Attached(a) = IF Len(a) = 3 THEN {} ELSE {From(r, 3)}
  <2>1. Len(<< n >>) = 1 /\ 1 + 2 = 3
    BY SMT
  <2>2. Len(LongName(r)) + 2 = 3
    BY <1>8, <2>1
  <2>3. QED
    BY <1>3, <1>4, <1>6, <1>8, <2>2
<1>9. LongName(r) = << n >> /\ Attached(a) = {} <=> a = << "-", "-", n >>
  <2>1. LongName(r) = << n >> /\ Attached(a) = {} <=> Is3(a, "-", "-", n)
    BY <1>1, <1>3, <1>4, <1>5, <1>8 DEF Is3
  <2>2. Forms(a, "-", "-", n, "=", a)
    BY FormsRight
  <2>3. QED
    BY <2>1, <2>2 DEF Forms
<1>10. ASSUME NEW v \in Texts
       PROVE  LongName(r) = << n >> /\ Attached(a) = {v} <=> a = << "-", "-", n, "=" >> \o v
  <2>1. LongName(r) = << n >> /\ Attached(a) = {v} <=> Is4And(a, "-", "-", n, "=", v)
    <3>1. ASSUME LongName(r) = << n >>, Attached(a) = {v}
          PROVE  Is4And(a, "-", "-", n, "=", v)
      <4>1. Len(a) # 3 /\ From(r, 3) = v
        BY <1>8, <3>1
      <4>2. Len(a) >= 4 /\ a[3] = n /\ a[4] = "="
        BY <1>3, <1>4, <1>5, <3>1, <4>1
      <4>3. QED
        BY <1>1, <1>7, <4>1, <4>2 DEF Is4And
    <3>2. ASSUME Is4And(a, "-", "-", n, "=", v)
          PROVE  LongName(r) = << n >> /\ Attached(a) = {v}
      <4>1. Len(a) >= 4 /\ a[3] = n /\ a[4] = "=" /\ From(a, 5) = v
        BY <3>2 DEF Is4And
      <4>2. LongName(r) = << n >>
        BY <1>3, <1>4, <1>5, <4>1
      <4>3. Attached(a) = {From(r, 3)}
        BY <1>4, <1>8, <4>1, <4>2
      <4>4. QED
        BY <1>7, <4>1, <4>2, <4>3
    <3>3. QED
      BY <3>1, <3>2
  <2>2. Forms(a, "-", "-", n, "=", v)
    BY FormsRight
  <2>3. QED
    BY <2>1, <2>2 DEF Forms
<1>11. QED
  BY <1>9, <1>10 DEF LongForms, r

(* What a short option says, for a letter c.                               *)
ShortForms(a, c) ==
  /\ a[2] = c /\ Attached(a) = {} <=> a = << "-", c >>
  /\ \A v \in Texts : a[2] = c /\ Attached(a) = {v} <=> v # << >> /\ a = << "-", c >> \o v

LEMMA ShortRight ==
  ASSUME NEW a \in Texts, IsOption(a), ~ IsLong(a), NEW c
  PROVE  ShortForms(a, c)
<1>1. Len(a) \in Nat /\ Len(a) >= 2 /\ a[1] = "-" /\ (Char(a, 3) = NUL <=> Len(a) <= 2)
      /\ (Len(a) <= 2 <=> Len(a) = 2)
  <2>1. Len(a) \in Nat /\ Len(a) >= 2 /\ a[1] = "-" /\ (Char(a, 3) = NUL <=> Len(a) <= 2)
    BY OptionShape
  <2>2. ASSUME NEW x \in Nat, x >= 2 PROVE x <= 2 <=> x = 2
    BY <2>2, SMT
  <2>3. QED
    BY <2>1, <2>2
<1>2. Attached(a) = IF Len(a) = 2 THEN {} ELSE {From(a, 3)}
  BY <1>1 DEF Attached
<1>3. a[2] = c /\ Attached(a) = {} <=> a = << "-", c >>
  <2>1. Forms(a, "-", c, c, c, a)
    BY FormsRight
  <2>2. QED
    BY <1>1, <1>2, <2>1 DEF Forms, Is2
<1>4. ASSUME NEW v \in Texts
      PROVE  a[2] = c /\ Attached(a) = {v} <=> v # << >> /\ a = << "-", c >> \o v
  <2>1. Forms(a, "-", c, c, c, v)
    BY FormsRight
  <2>2. From(a, 3) = v => (v # << >> <=> Len(a) # 2)
    <3>1. 3 \in 1 .. Len(a) + 1
      BY <1>1, SMT
    <3>2. Len(From(a, 3)) = Len(a) - 3 + 1
      BY <3>1, FromRight DEF Texts
    <3>3. v = << >> <=> Len(v) = 0
      BY EmptySeq DEF Texts
    <3>4. Len(a) - 3 + 1 = 0 <=> Len(a) = 2
      BY <1>1, SMT
    <3>5. QED
      BY <3>2, <3>3, <3>4
  <2>3. QED
    BY <1>1, <1>2, <2>1, <2>2 DEF Forms, Is2And
<1>5. QED
  BY <1>3, <1>4 DEF ShortForms

Named(opt, n) == << opt, n >> \in {<< "h", "help" >>, << "V", "version" >>,
                                   << "s", "seed" >>, << "b", "bits" >>}

LEMMA NamedRight ==
  ASSUME NEW opt, NEW n, Named(opt, n)
  PROVE  /\ \/ opt = "h" /\ n = "help"
            \/ opt = "V" /\ n = "version"
            \/ opt = "s" /\ n = "seed"
            \/ opt = "b" /\ n = "bits"
         /\ opt \in {"h", "V", "s", "b"} /\ opt # "-" /\ n # "=" /\ n # "-"
BY SMT DEF Named

(* An option's letter and value, and the ways it can be written.           *)
Written(a, opt, n) ==
  /\ Letter(a) = opt /\ Attached(a) = {} <=> a = << "-", opt >> \/ a = << "-", "-", n >>
  /\ \A v \in Texts : Letter(a) = opt /\ Attached(a) = {v}
       <=> a = << "-", "-", n, "=" >> \o v \/ (v # << >> /\ a = << "-", opt >> \o v)
  /\ Letter(a) = opt /\ (IsLong(a) => Attached(a) = {}) <=> a = << "-", "-", n >> \/ a[2] = opt

LEMMA WrittenRight ==
  ASSUME NEW a \in Texts, IsOption(a), NEW opt, NEW n, Named(opt, n)
  PROVE  Written(a, opt, n)
<1>1. /\ opt \in {"h", "V", "s", "b"} /\ opt # "-" /\ n # "="
      /\ \A x : LongOption(x) = opt <=> x = << n >>
      /\ \A c : ShortOption(c) = opt <=> c = opt
  BY NamedRight, LettersRight
<1>2. /\ Len(a) \in Nat /\ Len(a) >= 2 /\ a[1] = "-"
      /\ IsLong(a) <=> a[2] = "-"
  BY OptionShape
<1>3. /\ a = << "-", opt >> => a[2] = opt
      /\ a = << "-", "-", n >> => a[2] = "-"
      /\ \A v \in Texts : /\ a = << "-", opt >> \o v => a[2] = opt
                          /\ a = << "-", "-", n, "=" >> \o v => a[2] = "-"
  <2>1. ASSUME NEW v \in Texts
        PROVE  /\ a = << "-", opt >> => a[2] = opt
               /\ a = << "-", "-", n >> => a[2] = "-"
               /\ a = << "-", opt >> \o v => a[2] = opt
               /\ a = << "-", "-", n, "=" >> \o v => a[2] = "-"
    <3>1. Forms(a, "-", opt, n, "=", v) /\ Forms(a, "-", "-", n, "=", v)
      BY FormsRight
    <3>2. QED
      BY <3>1 DEF Forms, Is2, Is3, Is2And, Is4And
  <2>2. QED
    BY <2>1
<1>4. CASE IsLong(a)
  <2>1. LongForms(a, n)
    BY <1>1, <1>2, <1>4, LongRight
  <2>2. Letter(a) = opt <=> LongName(From(a, 3)) = << n >>
    BY <1>1, <1>4 DEF Letter
  <2>3. a[2] # opt
    BY <1>1, <1>2, <1>4
  <2>4. QED
    BY <1>3, <1>4, <2>1, <2>2, <2>3 DEF LongForms, Written
<1>5. CASE ~ IsLong(a)
  <2>1. ShortForms(a, opt)
    BY <1>5, ShortRight
  <2>2. Letter(a) = opt <=> a[2] = opt
    BY <1>1, <1>5 DEF Letter
  <2>3. a[2] # "-"
    BY <1>2, <1>5
  <2>4. QED
    BY <1>3, <1>5, <2>1, <2>2, <2>3 DEF ShortForms, Written
<1>6. QED
  BY <1>4, <1>5

(* Whatever is written as an option is one, and none is "--".              *)
AnOption(a) == IsOption(a) /\ a # << "-", "-" >>

LEMMA WrittenIsOption ==
  ASSUME NEW a \in Texts, NEW v \in Texts, NEW opt, NEW n, Named(opt, n),
         \/ a = << "-", opt >> \/ a = << "-", "-", n >>
         \/ a = << "-", "-", n, "=" >> \o v \/ a = << "-", opt >> \o v
         \/ Len(a) >= 2 /\ a[1] = "-" /\ a[2] = opt
  PROVE  AnOption(a)
<1>1. opt # "-"
  BY NamedRight
<1>2. Forms(a, "-", opt, n, "=", v) /\ Forms(a, "-", "-", n, "=", v)
  BY FormsRight
<1>3. \/ Len(a) = 2 /\ a[1] = "-" /\ a[2] = opt
      \/ Len(a) = 3 /\ a[1] = "-"
      \/ Len(a) >= 4 /\ a[1] = "-"
      \/ Len(a) >= 2 /\ a[1] = "-" /\ a[2] = opt
  BY <1>2 DEF Forms, Is2, Is3, Is2And, Is4And
<1>4. Len(a) \in Nat
  BY OptionShape
<1>5. Len(a) >= 2 /\ a[1] = "-" /\ (Len(a) # 2 \/ a[2] = opt)
  BY <1>3, <1>4, SMT
<1>6. a # << "-", "-" >>
  BY <1>1, <1>2, <1>5 DEF Forms, Is2
<1>7. QED
  BY <1>5, <1>6, OptionShape DEF AnOption

LEMMA PrefixRight ==
  ASSUME NEW a \in Texts, NEW c
  PROVE  IsPrefix(<< "-", c >>, a) <=> Len(a) >= 2 /\ a[1] = "-" /\ a[2] = c
<1> DEFINE C == Chars \cup {"-", c}  t == << "-", c >>  f == SubSeq(a, 1, 2)
<1>1. a \in Seq(C) /\ "-" \in C /\ c \in C /\ Len(a) \in Nat
  BY SeqMonotonic, LenProperties DEF Texts
<1> HIDE DEF C
<1>2. t \in Seq(C) /\ Len(t) = 2 /\ t[1] = "-" /\ t[2] = c
  BY <1>1, Two
<1> HIDE DEF t
<1>3. SubSeq(t, 1, Len(t)) = t
  BY <1>2, SubSeqFull
<1>4. IsPrefix(t, a) <=> 2 <= Len(a) /\ t = f
  BY <1>2, <1>3 DEF IsPrefix
<1>5. ASSUME Len(a) >= 2 PROVE t = f <=> a[1] = "-" /\ a[2] = c
  <2>1. f \in Seq(C) /\ Len(f) = 2 /\ f[1] = a[1] /\ f[2] = a[2]
    BY <1>1, <1>5, SMT
  <2> HIDE DEF f
  <2>2. f[1] = t[1] /\ f[2] = t[2] => t = f
    BY <1>2, <2>1, Numerals, SeqEqual
  <2>3. QED
    BY <1>2, <2>1, <2>2
<1>6. (2 <= Len(a)) = (Len(a) >= 2)
  BY <1>1, SMT
<1>7. QED
  BY <1>4, <1>5, <1>6 DEF t

LEMMA LetterOf ==
  ASSUME NEW a
  PROVE  Letter(a) \in {"h", "V", "s", "b", "?"}
BY LettersRight DEF Letter

LEMMA AttachedOf ==
  ASSUME NEW a \in Texts, IsOption(a)
  PROVE  Attached(a) = {} \/ \E v \in Texts : v \in Suffixes(a) /\ Attached(a) = {v}
<1>1. Len(a) \in Nat /\ Len(a) >= 2 /\ (Char(a, 3) = NUL <=> Len(a) <= 2)
  BY OptionShape
<1>2. From(a, 3) \in Texts /\ From(a, 3) \in Suffixes(a) /\ Len(From(a, 3)) = Len(a) - 3 + 1
  <2>1. 3 \in 1 .. Len(a) + 1
    BY <1>1, SMT
  <2>2. QED
    BY <2>1, FromRight, SuffixOf DEF Texts
<1>3. CASE IsLong(a)
  <2> DEFINE r == From(a, 3)  m == Run(r, 1, Chars \ {"="})
  <2>1. r \in Texts /\ Len(r) \in Nat /\ Len(r) = Len(a) - 2
    BY <1>1, <1>2, SMT
  <2> HIDE DEF r
  <2>2. m \in 1 .. Len(r) + 1 /\ \A j \in 1 .. m - 1 : r[j] \in Chars
    <3>1. 1 \in 1 .. Len(r) + 1
      BY <2>1, SMT
    <3>2. StopsAt(r, 1, Chars \ {"="}, m)
      BY <2>1, <3>1, RunRight
    <3>3. QED
      BY <3>2 DEF StopsAt
  <2> HIDE DEF m
  <2>3. LongName(r) = SubSeq(r, 1, m - 1)
    BY DEF LongName, m
  <2>4. Len(LongName(r)) = m - 1
    <3>1. 1 \in Int /\ m - 1 \in Int /\ (IF 1 <= m - 1 THEN (m - 1) - 1 + 1 ELSE 0) = m - 1
      BY <2>2, SMT
    <3>2. Len(SubSeq(r, 1, m - 1)) = IF 1 <= m - 1 THEN (m - 1) - 1 + 1 ELSE 0
      BY <2>2, <3>1, SubSeqProperties
    <3>3. QED
      BY <2>3, <3>1, <3>2
  <2>5. CASE m = Len(r) + 1
    <3>1. m - 1 = Len(r)
      BY <2>1, <2>5, SMT
    <3>2. LongName(r) = r
      BY <2>1, <2>3, <3>1, SubSeqFull DEF Texts
    <3>3. QED
      BY <1>3, <3>2 DEF Attached, r
  <2>6. CASE m # Len(r) + 1
    <3> DEFINE v == From(r, m + 1)
    <3>1. m + 1 \in 1 .. Len(r) + 1 /\ (m - 1) + 2 = m + 1
      BY <2>1, <2>2, <2>6, SMT
    <3>2. /\ v \in Texts /\ Len(v) = Len(r) - (m + 1) + 1
          /\ \A j \in 1 .. Len(r) - (m + 1) + 1 : v[j] = r[m + 1 + j - 1]
      BY <2>1, <3>1, FromRight DEF Texts
    <3>3. LongName(r) # r
      <4>1. m - 1 # Len(r)
        BY <2>1, <2>2, <2>6, SMT
      <4>2. QED
        BY <2>4, <4>1
    <3>4. Attached(a) = {v}
      BY <1>3, <2>4, <3>1, <3>3 DEF Attached, r
    <3>5. v = From(a, m + 3)
      <4> DEFINE y == From(a, m + 3)
      <4>1. m + 3 \in 1 .. Len(a) + 1
        BY <1>1, <2>1, <2>2, <2>6, SMT
      <4>2. /\ y \in Seq(Chars) /\ Len(y) = Len(a) - (m + 3) + 1
            /\ \A j \in 1 .. Len(a) - (m + 3) + 1 : y[j] = a[m + 3 + j - 1]
        BY <4>1, FromRight DEF Texts
      <4>3. \A j \in 1 .. Len(a) - 3 + 1 : r[j] = a[3 + j - 1]
        <5>1. 3 \in 1 .. Len(a) + 1
          BY <1>1, SMT
        <5>2. QED
          BY <5>1, FromRight DEF Texts, r
      <4> HIDE DEF v, y
      <4>4. Len(v) = Len(y)
        BY <1>1, <2>1, <2>2, <3>2, <4>2, SMT
      <4>5. ASSUME NEW j \in 1 .. Len(v) PROVE v[j] = y[j]
        <5>1. /\ j \in 1 .. Len(r) - (m + 1) + 1 /\ j \in 1 .. Len(a) - (m + 3) + 1
              /\ m + 1 + j - 1 \in 1 .. Len(a) - 3 + 1
              /\ 3 + (m + 1 + j - 1) - 1 = m + 3 + j - 1
          BY <1>1, <2>1, <2>2, <3>2, <4>2, <4>4, SMT
        <5>2. QED
          BY <3>2, <4>2, <4>3, <5>1
      <4>6. v = y
        BY <3>2, <4>2, <4>4, <4>5, SeqEqual DEF Texts
      <4>7. QED
        BY <4>6 DEF y
    <3>6. From(a, m + 3) \in Suffixes(a)
      <4>1. m + 3 \in 1 .. Len(a) + 1
        BY <1>1, <2>1, <2>2, <2>6, SMT
      <4>2. QED
        BY <4>1, SuffixOf DEF Texts
    <3>7. QED
      BY <3>2, <3>4, <3>5, <3>6
  <2>7. QED
    BY <2>5, <2>6
<1>4. CASE ~ IsLong(a)
  BY <1>2, <1>4 DEF Attached
<1>5. QED
  BY <1>3, <1>4

(***************************************************************************)
(* Readings.                                                               *)
(***************************************************************************)
(* The parts of ReadAt: which of them an argument is read by.              *)
SaysFlag(a, opt, n) == a = << "-", "-", n >> \/ IsPrefix(<< "-", opt >>, a)

Is(a, opt) == AnOption(a) /\ Letter(a) = opt

LEMMA FlagRight ==
  ASSUME NEW a \in Texts, NEW opt, NEW n, Named(opt, n)
  PROVE  SaysFlag(a, opt, n) <=> Is(a, opt) /\ (IsLong(a) => Attached(a) = {})
<1>1. IsPrefix(<< "-", opt >>, a) <=> Len(a) >= 2 /\ a[1] = "-" /\ a[2] = opt
  BY PrefixRight
<1>2. Len(a) \in Nat /\ (IsOption(a) <=> Len(a) >= 2 /\ a[1] = "-")
  BY OptionShape
<1>3. SaysFlag(a, opt, n) => AnOption(a)
  BY <1>1, WrittenIsOption DEF SaysFlag
<1>4. CASE AnOption(a)
  <2>1. Written(a, opt, n)
    BY <1>4, WrittenRight DEF AnOption
  <2>2. QED
    BY <1>1, <1>2, <1>4, <2>1 DEF Written, SaysFlag, Is, AnOption
<1>5. QED
  BY <1>3, <1>4 DEF Is

(* The two options with a value.                                           *)
NameOf(opt) == IF opt = "s" THEN "seed" ELSE "bits"

LEMMA NameOfRight ==
  ASSUME NEW opt \in {"s", "b"}
  PROVE  Named(opt, NameOf(opt))
<1>1. opt = "s" \/ opt = "b"
  OBVIOUS
<1>2. QED
  BY <1>1, SMT DEF Named, NameOf

LEMMA TwoRight ==
  ASSUME NEW a \in Texts, NEW opt \in {"s", "b"}
  PROVE  a \in TwoArguments(opt) <=> Is(a, opt) /\ Attached(a) = {}
<1> DEFINE n == NameOf(opt)
<1>1. Named(opt, n)
  BY NameOfRight
<1>2. a \in TwoArguments(opt) <=> a = << "-", opt >> \/ a = << "-", "-", n >>
  BY DEF TwoArguments, NameOf
<1> HIDE DEF n
<1>3. a \in TwoArguments(opt) => AnOption(a)
  BY <1>1, <1>2, WrittenIsOption
<1>4. CASE AnOption(a)
  <2>1. Written(a, opt, n)
    BY <1>1, <1>4, WrittenRight DEF AnOption
  <2>2. QED
    BY <1>2, <1>4, <2>1 DEF Written, Is
<1>5. QED
  BY <1>3, <1>4 DEF Is

(* The values an argument attaches to an option.                           *)
ValuesOf(a, opt) == {x \in Suffixes(a) : a \in OneArgument(opt, x)}

LEMMA OneRight ==
  ASSUME NEW a \in Texts, NEW opt \in {"s", "b"}
  PROVE  ValuesOf(a, opt) = IF Is(a, opt) THEN Attached(a) ELSE {}
<1> DEFINE n == NameOf(opt)
<1>1. Named(opt, n)
  BY NameOfRight
<1>2. ASSUME NEW v \in Texts
      PROVE  a \in OneArgument(opt, v)
               <=> a = << "-", "-", n, "=" >> \o v \/ (v # << >> /\ a = << "-", opt >> \o v)
  BY DEF OneArgument, NameOf
<1> HIDE DEF n
<1>3. \A v \in Suffixes(a) : v \in Texts
  BY SuffixOf DEF Texts
<1>4. ASSUME NEW v \in Texts, a \in OneArgument(opt, v) PROVE AnOption(a)
  BY <1>1, <1>2, <1>4, WrittenIsOption
<1>5. ASSUME AnOption(a), NEW v \in Texts
      PROVE  a \in OneArgument(opt, v) <=> Letter(a) = opt /\ Attached(a) = {v}
  <2>1. Written(a, opt, n)
    BY <1>1, <1>5, WrittenRight DEF AnOption
  <2>2. QED
    BY <1>2, <2>1 DEF Written
<1>6. CASE Is(a, opt)
  <2>1. AnOption(a) /\ IsOption(a) /\ Letter(a) = opt
    BY <1>6 DEF Is, AnOption
  <2>2. ValuesOf(a, opt) = {v \in Suffixes(a) : Attached(a) = {v}}
    BY <1>3, <1>5, <2>1 DEF ValuesOf
  <2>3. Attached(a) = {} \/ \E v \in Texts : v \in Suffixes(a) /\ Attached(a) = {v}
    BY <2>1, AttachedOf
  <2>4. QED
    BY <1>6, <2>2, <2>3
<1>7. CASE ~ Is(a, opt)
  BY <1>3, <1>4, <1>5, <1>7 DEF Is, ValuesOf
<1>8. QED
  BY <1>6, <1>7

(* What argument k is read as, by the parser's own terms.                  *)
ReadsAs(line, k, s, b, R) ==
  LET a == line[k]
      all == ReadAt(line, k, s, b, R)
  IN  /\ ~ IsOption(a) => all = {Command("run", s, b, From(line, k))}
      /\ a = << "-", "-" >> => all = {Command("run", s, b, From(line, k + 1))}
      /\ Is(a, "?") => all = {}
      /\ Is(a, "h") => all = IF IsLong(a) /\ Attached(a) # {} THEN {}
                             ELSE {Command("help", 0, 64, << >>)}
      /\ Is(a, "V") => all = IF IsLong(a) /\ Attached(a) # {} THEN {}
                             ELSE {Command("version", 0, 64, << >>)}
      /\ \A opt \in {"s", "b"} : Is(a, opt) =>
           /\ \A v : Attached(a) = {v} => all = ReadWith(opt, v, s, b, R[k + 1])
           /\ Attached(a) = {} =>
                all = IF k < Len(line) THEN ReadWith(opt, line[k + 1], s, b, R[k + 2]) ELSE {}

LEMMA ReadsRight ==
  ASSUME NEW line \in Seq(Texts), NEW k \in 1 .. Len(line), NEW s, NEW b, NEW R
  PROVE  ReadsAs(line, k, s, b, R)
<1> DEFINE a == line[k]
           all == ReadAt(line, k, s, b, R)
           P1 == IF ~ IsOption(a) THEN {Command("run", s, b, From(line, k))} ELSE {}
           P2 == IF a = << "-", "-" >> THEN {Command("run", s, b, From(line, k + 1))} ELSE {}
           P3 == IF SaysFlag(a, "h", "help") THEN {Command("help", 0, 64, << >>)} ELSE {}
           P4 == IF SaysFlag(a, "V", "version") THEN {Command("version", 0, 64, << >>)} ELSE {}
           V(opt) == UNION {ReadWith(opt, v, s, b, R[k + 1]) : v \in ValuesOf(a, opt)}
           W(opt) == IF k < Len(line) /\ a \in TwoArguments(opt)
                     THEN ReadWith(opt, line[k + 1], s, b, R[k + 2]) ELSE {}
<1>1. a \in Texts
  BY ElementOfSeq
<1>2. (a = << >> \/ a[1] # "-" \/ a = << "-" >>) <=> ~ IsOption(a)
  BY <1>1, OptionShape
<1>3. UNION {UNION {ReadWith(opt, v, s, b, R[k + 1]) :
                      v \in {x \in Suffixes(a) : a \in OneArgument(opt, x)}} :
               opt \in {"s", "b"}} = V("s") \cup V("b")
  <2>1. V("s") \cup V("b") = UNION {V(opt) : opt \in {"s", "b"}}
    <3> HIDE DEF V
    <3>1. QED
      OBVIOUS
  <2>2. QED
    BY <2>1 DEF ValuesOf
<1>4. UNION {ReadWith(opt, line[k + 1], s, b, R[k + 2]) :
               opt \in {o \in {"s", "b"} : k < Len(line) /\ a \in TwoArguments(o)}}
        = W("s") \cup W("b")
  <2> DEFINE X(opt) == ReadWith(opt, line[k + 1], s, b, R[k + 2])
             Y(opt) == k < Len(line) /\ a \in TwoArguments(opt)
  <2>1. UNION {X(opt) : opt \in {o \in {"s", "b"} : Y(o)}}
          = (IF Y("s") THEN X("s") ELSE {}) \cup (IF Y("b") THEN X("b") ELSE {})
    <3> HIDE DEF X, Y
    <3>1. QED
      OBVIOUS
  <2>2. QED
    BY <2>1
<1>5. all = (P1 \cup P2) \cup (P3 \cup P4) \cup (V("s") \cup V("b")) \cup (W("s") \cup W("b"))
  <2>1. RunsAt(line, k, s, b) = P1 \cup P2
    BY <1>2 DEF RunsAt
  <2>2. AsksFor(a) = P3 \cup P4
    BY DEF AsksFor, SaysFlag
  <2>3. SetsIn(a, k, s, b, R) = V("s") \cup V("b")
    BY <1>3 DEF SetsIn
  <2>4. SetsWithNext(line, k, s, b, R) = W("s") \cup W("b")
    BY <1>4 DEF SetsWithNext
  <2> HIDE DEF V, W, P1, P2, P3, P4
  <2>5. QED
    BY <2>1, <2>2, <2>3, <2>4, Zenon DEF ReadAt
<1>6. /\ SaysFlag(a, "h", "help") <=> Is(a, "h") /\ (IsLong(a) => Attached(a) = {})
      /\ SaysFlag(a, "V", "version") <=> Is(a, "V") /\ (IsLong(a) => Attached(a) = {})
  <2>1. Named("h", "help") /\ Named("V", "version")
    BY SMT DEF Named
  <2>2. QED
    BY <1>1, <2>1, FlagRight
<1>7. ASSUME NEW opt \in {"s", "b"}
      PROVE  /\ ~ Is(a, opt) => V(opt) = {} /\ W(opt) = {}
             /\ Is(a, opt) =>
                  /\ \A v : Attached(a) = {v} =>
                       V(opt) = ReadWith(opt, v, s, b, R[k + 1]) /\ W(opt) = {}
                  /\ Attached(a) = {} =>
                       /\ V(opt) = {}
                       /\ W(opt) = IF k < Len(line)
                                   THEN ReadWith(opt, line[k + 1], s, b, R[k + 2]) ELSE {}
  <2>1. ValuesOf(a, opt) = IF Is(a, opt) THEN Attached(a) ELSE {}
    BY <1>1, OneRight
  <2>2. a \in TwoArguments(opt) <=> Is(a, opt) /\ Attached(a) = {}
    BY <1>1, TwoRight
  <2> HIDE DEF a
  <2>3. QED
    BY <2>1, <2>2
<1>8. /\ Is(a, "s") => ~ Is(a, "b") /\ ~ Is(a, "h") /\ ~ Is(a, "V") /\ ~ Is(a, "?")
      /\ Is(a, "b") => ~ Is(a, "h") /\ ~ Is(a, "V") /\ ~ Is(a, "?")
      /\ Is(a, "h") => ~ Is(a, "V") /\ ~ Is(a, "?")
      /\ Is(a, "V") => ~ Is(a, "?")
  BY DEF Is
<1>9. /\ \A opt : ~ IsOption(a) => ~ Is(a, opt)
      /\ \A opt : a = << "-", "-" >> => ~ Is(a, opt)
      /\ a = << "-", "-" >> => IsOption(a)
      /\ \A opt : Is(a, opt) => IsOption(a) /\ a # << "-", "-" >>
  <2>1. a = << "-", "-" >> => IsOption(a)
    <3>1. Forms(a, "-", "-", "-", "-", a)
      BY <1>1, FormsRight
    <3>2. Len(a) \in Nat /\ (Len(a) = 2 => Len(a) >= 2)
      <4>1. Len(a) \in Nat
        BY <1>1, OptionShape
      <4>2. 2 >= 2
        BY SMT
      <4>3. QED
        BY <4>1, <4>2
    <3>3. QED
      BY <1>1, <3>1, <3>2, OptionShape DEF Forms, Is2
  <2>2. QED
    BY <2>1 DEF Is, AnOption
<1> HIDE DEF a, all, V, W
<1>10. ~ IsOption(a) => all = {Command("run", s, b, From(line, k))}
  BY <1>5, <1>6, <1>7, <1>9
<1>11. a = << "-", "-" >> => all = {Command("run", s, b, From(line, k + 1))}
  BY <1>5, <1>6, <1>7, <1>9
<1>12. Is(a, "?") => all = {}
  BY <1>5, <1>6, <1>7, <1>8, <1>9
<1>13. Is(a, "h") => all = IF IsLong(a) /\ Attached(a) # {} THEN {}
                           ELSE {Command("help", 0, 64, << >>)}
  BY <1>5, <1>6, <1>7, <1>8, <1>9
<1>14. Is(a, "V") => all = IF IsLong(a) /\ Attached(a) # {} THEN {}
                           ELSE {Command("version", 0, 64, << >>)}
  BY <1>5, <1>6, <1>7, <1>8, <1>9
<1>15. ASSUME NEW opt \in {"s", "b"}, Is(a, opt)
       PROVE  /\ \A v : Attached(a) = {v} => all = ReadWith(opt, v, s, b, R[k + 1])
              /\ Attached(a) = {} =>
                   all = IF k < Len(line) THEN ReadWith(opt, line[k + 1], s, b, R[k + 2]) ELSE {}
  <2>1. all = V(opt) \cup W(opt)
    <3>1. P1 = {} /\ P2 = {} /\ P3 = {} /\ P4 = {}
      BY <1>6, <1>8, <1>9, <1>15
    <3>2. CASE opt = "s"
      BY <1>5, <1>7, <1>8, <1>15, <3>1, <3>2
    <3>3. CASE opt = "b"
      BY <1>5, <1>7, <1>8, <1>15, <3>1, <3>3
    <3>4. QED
      BY <3>2, <3>3
  <2>2. QED
    BY <1>7, <1>15, <2>1
<1>16. QED
  BY <1>10, <1>11, <1>12, <1>13, <1>14, <1>15 DEF ReadsAs, a, all

(* What an option can be set to.                                           *)
Allowed(opt) == IF opt = "s" THEN 0 .. Cap - 1 ELSE {64, 128}

LEMMA WrittenNumber ==
  ASSUME NEW d \in Texts, NEW base \in {10, 16}, Writes(base, d)
  PROVE  Number(base, d) \in Nat
<1>1. d \in Seq(DigitsOf(16))
  <2>1. Len(d) \in Nat /\ DOMAIN d = 1 .. Len(d)
    BY LenProperties DEF Texts
  <2>2. DigitsOf(base) \subseteq DigitsOf(16)
    BY NoDigits
  <2>3. \A k \in 1 .. Len(d) : d[k] \in DigitsOf(16)
    BY <2>1, <2>2 DEF Writes
  <2> HIDE DEF DigitsOf
  <2>4. QED
    BY <2>1, <2>3, SeqDef DEF Texts
<1>2. QED
  BY <1>1, ValueRight

LEMMA SeedType ==
  ASSUME NEW s \in Texts
  PROVE  SeedMeaning(s) = {} \/ \E x \in 0 .. Cap - 1 : SeedMeaning(s) = {x}
<1>1. ASSUME NEW x \in SeedMeaning(s) PROVE x \in 0 .. Cap - 1
  <2>1. x < Cap /\ (x \in Nat)
    <3>1. CASE Writes(10, s) /\ x = Number(10, s)
      BY <1>1, <3>1, WrittenNumber DEF SeedMeaning
    <3>2. CASE Hex(s) /\ x = Number(16, From(s, 3))
      <4>1. Writes(16, From(s, 3)) /\ Len(s) > 2
        BY <3>2 DEF Hex
      <4>2. From(s, 3) \in Texts
        <5>1. Len(s) \in Nat
          BY LenProperties DEF Texts
        <5>2. 3 \in 1 .. Len(s) + 1
          BY <4>1, <5>1, SMT
        <5>3. QED
          BY <5>2, FromRight DEF Texts
      <4>3. QED
        BY <1>1, <3>2, <4>1, <4>2, WrittenNumber DEF SeedMeaning
    <3>3. QED
      BY <1>1, <3>1, <3>2 DEF SeedMeaning, Hex
  <2>2. QED
    BY <2>1, TextAssumption, SMT
<1>2. SeedMeaning(s) = {} \/ \E x : SeedMeaning(s) = {x}
  BY SeedRight DEF ParseU64, Refused
<1>3. QED
  BY <1>1, <1>2

(* The code's setting is the text's meaning, and the readings of what is   *)
(* left go on from it.                                                     *)
LEMMA SettingRight ==
  ASSUME NEW opt \in {"s", "b"}, NEW v \in Texts
  PROVE  /\ Setting(opt, v) = IF opt = "s" THEN SeedMeaning(v) ELSE WidthMeaning(v)
         /\ Setting(opt, v) = {} \/ \E x \in Allowed(opt) : Setting(opt, v) = {x}
<1>1. CASE opt = "s"
  BY <1>1, SeedRight, SeedType DEF Setting, Allowed
<1>2. CASE opt = "b"
  <2> DEFINE w == Width64  x == Width128
  <2>1. w # x
    BY SMT DEF Width64, Width128
  <2>2. Setting(opt, v) = CASE v = w -> {64} [] v = x -> {128} [] OTHER -> {}
    BY <1>2 DEF Setting
  <2>3. WidthMeaning(v) = IF v = w THEN {64} ELSE IF v = x THEN {128} ELSE {}
    BY DEF WidthMeaning
  <2> HIDE DEF w, x
  <2>4. Setting(opt, v) = WidthMeaning(v) /\ WidthMeaning(v) \in {{}, {64}, {128}}
    BY <2>1, <2>2, <2>3
  <2>5. opt # "s"
    BY <1>2
  <2>6. QED
    BY <2>4, <2>5 DEF Allowed
<1>3. QED
  BY <1>1, <1>2

Continues(opt, v, s, b, R) ==
  /\ Setting(opt, v) = {} => ReadWith(opt, v, s, b, R) = {}
  /\ \A x : Setting(opt, v) = {x} =>
       ReadWith(opt, v, s, b, R) = IF opt = "s" THEN R[x][b] ELSE R[s][x]

LEMMA ContinuesRight ==
  ASSUME NEW opt \in {"s", "b"}, NEW v \in Texts, NEW s, NEW b, NEW R
  PROVE  Continues(opt, v, s, b, R)
<1>1. Setting(opt, v) = IF opt = "s" THEN SeedMeaning(v) ELSE WidthMeaning(v)
  BY SettingRight
<1> DEFINE S == SeedMeaning(v)  W == WidthMeaning(v)
<1>2. ReadWith(opt, v, s, b, R) = IF opt = "s" THEN UNION {R[x][b] : x \in S}
                                               ELSE UNION {R[s][x] : x \in W}
  BY DEF ReadWith
<1> HIDE DEF S, W
<1>3. Setting(opt, v) = IF opt = "s" THEN S ELSE W
  BY <1>1 DEF S, W
<1>4. CASE opt = "s"
  <2>1. Setting(opt, v) = S /\ ReadWith(opt, v, s, b, R) = UNION {R[x][b] : x \in S}
    BY <1>2, <1>3, <1>4
  <2>2. S = {} => UNION {R[x][b] : x \in S} = {}
    OBVIOUS
  <2>3. \A y : S = {y} => UNION {R[x][b] : x \in S} = R[y][b]
    OBVIOUS
  <2>4. QED
    BY <1>4, <2>1, <2>2, <2>3 DEF Continues
<1>5. CASE opt # "s"
  <2>1. Setting(opt, v) = W /\ ReadWith(opt, v, s, b, R) = UNION {R[s][x] : x \in W}
    BY <1>2, <1>3, <1>5
  <2>2. W = {} => UNION {R[s][x] : x \in W} = {}
    OBVIOUS
  <2>3. \A y : W = {y} => UNION {R[s][x] : x \in W} = R[s][y]
    OBVIOUS
  <2>4. QED
    BY <1>5, <2>1, <2>2, <2>3 DEF Continues
<1>6. QED
  BY <1>4, <1>5

LEMMA ArgumentCases ==
  ASSUME NEW a \in Texts
  PROVE  ~ IsOption(a) \/ a = << "-", "-" >> \/ \E c \in {"h", "V", "s", "b", "?"} : Is(a, c)
<1>1. Letter(a) \in {"h", "V", "s", "b", "?"}
  BY LetterOf
<1>2. QED
  BY <1>1 DEF Is, AnOption

Commands == [what : {"run", "help", "version"}, seed : 0 .. Cap - 1, bits : {64, 128},
             operands : Seq(Texts)]

Rest == [0 .. Cap - 1 -> [{64, 128} -> SUBSET Commands]]

Known(line, k, R) == R[k + 1] \in Rest /\ (k < Len(line) => R[k + 2] \in Rest)

LEMMA CommandType ==
  ASSUME NEW what \in {"run", "help", "version"}, NEW s \in 0 .. Cap - 1,
         NEW b \in {64, 128}, NEW rest \in Seq(Texts)
  PROVE  Command(what, s, b, rest) \in Commands
BY DEF Command, Commands

LEMMA WithoutOperands ==
  ASSUME NEW what \in {"run", "help", "version"}, NEW s \in 0 .. Cap - 1, NEW b \in {64, 128}
  PROVE  Command(what, s, b, << >>) \in Commands
<1> DEFINE none == << >>
<1>1. none \in Seq(Texts)
  BY EmptySeq
<1> HIDE DEF none
<1>2. Command(what, s, b, none) \in Commands
  BY <1>1, CommandType
<1>3. QED
  BY <1>2 DEF none

LEMMA ReadWithType ==
  ASSUME NEW opt \in {"s", "b"}, NEW v \in Texts, NEW s \in 0 .. Cap - 1, NEW b \in {64, 128},
         NEW R \in Rest
  PROVE  ReadWith(opt, v, s, b, R) \subseteq Commands
<1>1. Continues(opt, v, s, b, R)
  BY ContinuesRight
<1>2. Setting(opt, v) = {} \/ \E x \in Allowed(opt) : Setting(opt, v) = {x}
  BY SettingRight
<1>3. ASSUME NEW x \in 0 .. Cap - 1, NEW y \in {64, 128} PROVE R[x][y] \subseteq Commands
  BY DEF Rest
<1>4. CASE Setting(opt, v) = {}
  BY <1>1, <1>4 DEF Continues
<1>5. CASE \E x \in Allowed(opt) : Setting(opt, v) = {x}
  <2>1. PICK x \in Allowed(opt) : Setting(opt, v) = {x}
    BY <1>5
  <2>2. ReadWith(opt, v, s, b, R) = IF opt = "s" THEN R[x][b] ELSE R[s][x]
    BY <1>1, <2>1 DEF Continues
  <2>3. QED
    BY <1>3, <2>1, <2>2 DEF Allowed
<1>6. QED
  BY <1>2, <1>4, <1>5

LEMMA ReadAtType ==
  ASSUME NEW line \in Seq(Texts), NEW k \in 1 .. Len(line),
         NEW s \in 0 .. Cap - 1, NEW b \in {64, 128}, NEW R, Known(line, k, R)
  PROVE  ReadAt(line, k, s, b, R) \subseteq Commands
<1> DEFINE a == line[k]
           all == ReadAt(line, k, s, b, R)
<1>1. /\ a \in Texts /\ Len(line) \in Nat
      /\ k \in 1 .. Len(line) + 1 /\ k + 1 \in 1 .. Len(line) + 1
      /\ k < Len(line) => k + 1 \in 1 .. Len(line)
  <2>1. a \in Texts /\ Len(line) \in Nat
    BY ElementOfSeq, LenProperties
  <2>2. QED
    BY <2>1, SMT
<1>2. ReadsAs(line, k, s, b, R)
  BY ReadsRight
<1>3. /\ {Command("run", s, b, From(line, k))} \subseteq Commands
      /\ {Command("run", s, b, From(line, k + 1))} \subseteq Commands
  <2>1. From(line, k) \in Seq(Texts) /\ From(line, k + 1) \in Seq(Texts)
    BY <1>1, FromRight
  <2>2. "run" \in {"run", "help", "version"}
    OBVIOUS
  <2>3. Command("run", s, b, From(line, k)) \in Commands
    BY <2>1, <2>2, CommandType
  <2>4. Command("run", s, b, From(line, k + 1)) \in Commands
    BY <2>1, <2>2, CommandType
  <2>5. QED
    BY <2>3, <2>4
<1>4. /\ {Command("help", 0, 64, << >>)} \subseteq Commands
      /\ {Command("version", 0, 64, << >>)} \subseteq Commands
  <2>1. 0 \in 0 .. Cap - 1
    BY TextAssumption, SMT
  <2>2. 64 \in {64, 128} /\ "help" \in {"run", "help", "version"}
        /\ "version" \in {"run", "help", "version"}
    OBVIOUS
  <2>3. Command("help", 0, 64, << >>) \in Commands
    BY <2>1, <2>2, WithoutOperands
  <2>4. Command("version", 0, 64, << >>) \in Commands
    BY <2>1, <2>2, WithoutOperands
  <2>5. QED
    BY <2>3, <2>4
<1>5. ASSUME NEW opt \in {"s", "b"}, Is(a, opt) PROVE all \subseteq Commands
  <2>1. CASE Attached(a) = {}
    <3>1. all = IF k < Len(line) THEN ReadWith(opt, line[k + 1], s, b, R[k + 2]) ELSE {}
      BY <1>2, <1>5, <2>1 DEF ReadsAs
    <3>2. CASE k < Len(line)
      <4>1. line[k + 1] \in Texts /\ R[k + 2] \in Rest
        BY <1>1, <3>2, ElementOfSeq DEF Known
      <4>2. QED
        BY <3>1, <3>2, <4>1, ReadWithType
    <3>3. QED
      BY <3>1, <3>2
  <2>2. CASE Attached(a) # {}
    <3>1. IsOption(a)
      BY <1>5 DEF Is, AnOption
    <3>2. PICK v \in Texts : Attached(a) = {v}
      BY <1>1, <2>2, <3>1, AttachedOf
    <3>3. all = ReadWith(opt, v, s, b, R[k + 1])
      BY <1>2, <1>5, <3>2 DEF ReadsAs
    <3>4. QED
      BY <3>3, ReadWithType DEF Known
  <2>3. QED
    BY <2>1, <2>2
<1>6. ~ IsOption(a) \/ a = << "-", "-" >> => all \subseteq Commands
  BY <1>2, <1>3 DEF ReadsAs
<1>7. Is(a, "h") \/ Is(a, "V") \/ Is(a, "?") => all \subseteq Commands
  BY <1>2, <1>4 DEF ReadsAs
<1>8. QED
  BY <1>1, <1>5, <1>6, <1>7, ArgumentCases

LEMMA ReadAtLooks ==
  ASSUME NEW line, NEW k, NEW s, NEW b, NEW R, NEW Q,
         R[k + 1] = Q[k + 1], k < Len(line) => R[k + 2] = Q[k + 2]
  PROVE  ReadAt(line, k, s, b, R) = ReadAt(line, k, s, b, Q)
<1>1. SetsIn(line[k], k, s, b, R) = SetsIn(line[k], k, s, b, Q)
  BY DEF SetsIn
<1>2. SetsWithNext(line, k, s, b, R) = SetsWithNext(line, k, s, b, Q)
  <2>1. CASE k < Len(line)
    BY <2>1 DEF SetsWithNext
  <2>2. CASE ~ (k < Len(line))
    BY <2>2 DEF SetsWithNext
  <2>3. QED
    BY <2>1, <2>2
<1>3. QED
  BY <1>1, <1>2 DEF ReadAt

(* The readings of a command line, from its end: after the last argument   *)
(* nothing is left, and each argument looks at the readings of what is     *)
(* behind it.                                                              *)
IsReadings(line, R) ==
  \A s \in 0 .. Cap - 1 : \A b \in {64, 128} :
    /\ R[Len(line) + 1][s][b] = {Command("run", s, b, << >>)}
    /\ \A k \in 1 .. Len(line) : R[k][s][b] = ReadAt(line, k, s, b, R)

LEMMA ReadingsRight ==
  ASSUME NEW line \in Seq(Texts)
  PROVE  IsReadings(line, ReadingsOf(line))
<1> DEFINE N == Len(line)
           Turned(f) == [k \in 1 .. N + 1 |-> f[N + 1 - k]]
           At(R, k) == [s \in 0 .. Cap - 1 |-> [b \in {64, 128} |->
                          IF k > N THEN {Command("run", s, b, << >>)}
                                   ELSE ReadAt(line, k, s, b, R)]]
           Eq(R) == R = [k \in 1 .. N + 1 |-> At(R, k)]
           step == [n \in 0 .. N |-> [f \in [0 .. N -> Rest] |-> At(Turned(f), N + 1 - n)]]
<1>1. /\ N \in Nat
      /\ \A n \in 0 .. N : N + 1 - n \in 1 .. N + 1 /\ N + 1 - (N + 1 - n) = n
      /\ \A k \in 1 .. N + 1 : N + 1 - k \in 0 .. N /\ N + 1 - (N + 1 - k) = k
      /\ \A k \in 1 .. N + 1 : k > N <=> k = N + 1
      /\ \A k \in 1 .. N + 1 : k # N + 1 => k \in 1 .. N
      /\ \A k \in 1 .. N : k \in 1 .. N + 1 /\ k # N + 1 /\ k + 1 \in 1 .. N + 1
      /\ \A k \in 1 .. N : k < N => k + 2 \in 1 .. N + 1
      /\ N + 1 \in 1 .. N + 1
  <2>1. N \in Nat
    BY LenProperties
  <2> HIDE DEF N
  <2>2. QED
    BY <2>1, SMT
<1>2. ASSUME NEW f \in [0 .. N -> Rest], NEW k \in 1 .. N PROVE Known(line, k, Turned(f))
  <2>1. \A j \in 1 .. N + 1 : Turned(f)[j] \in Rest
    BY <1>1
  <2> HIDE DEF Turned
  <2>2. QED
    BY <1>1, <2>1 DEF Known
<1>3. ASSUME NEW R, NEW k \in 1 .. N + 1, k # N + 1 => Known(line, k, R)
      PROVE  At(R, k) \in Rest
  <2>1. ASSUME NEW s \in 0 .. Cap - 1, NEW b \in {64, 128}
        PROVE  (IF k > N THEN {Command("run", s, b, << >>)} ELSE ReadAt(line, k, s, b, R))
                 \in SUBSET Commands
    <3>1. CASE k = N + 1
      <4>1. "run" \in {"run", "help", "version"}
        OBVIOUS
      <4>2. Command("run", s, b, << >>) \in Commands
        BY <4>1, WithoutOperands
      <4>3. QED
        BY <1>1, <3>1, <4>2
    <3>2. CASE k # N + 1
      <4>1. ReadAt(line, k, s, b, R) \subseteq Commands
        BY <1>1, <1>3, <3>2, ReadAtType
      <4>2. QED
        BY <1>1, <3>2, <4>1
    <3>3. QED
      BY <3>1, <3>2
  <2>2. QED
    BY <2>1 DEF Rest
<1>4. ASSUME NEW R, NEW Q, NEW k \in 1 .. N + 1,
             k # N + 1 => R[k + 1] = Q[k + 1],
             k < N => R[k + 2] = Q[k + 2]
      PROVE  At(R, k) = At(Q, k)
  <2>1. ASSUME NEW s \in 0 .. Cap - 1, NEW b \in {64, 128}, k # N + 1
        PROVE  ReadAt(line, k, s, b, R) = ReadAt(line, k, s, b, Q)
    BY <1>4, <2>1, ReadAtLooks
  <2>2. QED
    BY <1>1, <2>1
<1> HIDE DEF N, At
<1>5. step \in [0 .. N -> [[0 .. N -> Rest] -> Rest]]
  <2>1. ASSUME NEW n \in 0 .. N, NEW f \in [0 .. N -> Rest] PROVE At(Turned(f), N + 1 - n) \in Rest
    <3> HIDE DEF Turned
    <3>1. QED
      BY <1>1, <1>2, <1>3
  <2> HIDE DEF Turned
  <2>2. QED
    BY <2>1
<1>6. LooksBack(N, Rest, step)
  <2> SUFFICES ASSUME NEW n \in 0 .. N, NEW f \in [0 .. N -> Rest], NEW g \in [0 .. N -> Rest],
                      \A m \in 0 .. n - 1 : f[m] = g[m]
               PROVE  step[n][f] = step[n][g]
    BY DEF LooksBack
  <2> DEFINE k == N + 1 - n
  <2>1. k \in 1 .. N + 1
    BY <1>1
  <2>2. ASSUME NEW j \in 1 .. N + 1, j > k PROVE Turned(f)[j] = Turned(g)[j]
    <3>1. N + 1 - j \in 0 .. n - 1
      BY <1>1, <2>2, SMT
    <3>2. QED
      BY <3>1
  <2>3. /\ k # N + 1 => k + 1 \in 1 .. N + 1 /\ k + 1 > k
        /\ k < N => k + 2 \in 1 .. N + 1 /\ k + 2 > k
    BY <1>1, SMT
  <2> HIDE DEF k, Turned
  <2>4. At(Turned(f), k) = At(Turned(g), k)
    BY <1>4, <2>1, <2>2, <2>3
  <2>5. QED
    BY <2>4 DEF k
<1>7. PICK f \in [0 .. N -> Rest] : \A n \in 0 .. N : f[n] = step[n][f]
  <2>1. (CHOOSE d : d \in Rest) \in Rest
    <3>1. [s \in 0 .. Cap - 1 |-> [b \in {64, 128} |-> {}]] \in Rest
      BY DEF Rest
    <3>2. QED
      BY <3>1
  <2> HIDE DEF step
  <2>2. Defines(N, Rest, step)
    BY <1>1, <1>5, <1>6, <2>1, Recursion
  <2>3. QED
    BY <2>2 DEF Defines
<1>8. \E R : Eq(R)
  <2> DEFINE R == Turned(f)
  <2>1. ASSUME NEW k \in 1 .. N + 1 PROVE R[k] = At(R, k)
    <3>1. N + 1 - k \in 0 .. N /\ N + 1 - (N + 1 - k) = k
      BY <1>1
    <3>2. R[k] = f[N + 1 - k]
      OBVIOUS
    <3>3. f[N + 1 - k] = At(Turned(f), N + 1 - (N + 1 - k))
      <4> HIDE DEF Turned
      <4>1. QED
        BY <1>7, <3>1
    <3> HIDE DEF Turned
    <3>4. QED
      BY <3>1, <3>2, <3>3
  <2>2. R = [k \in 1 .. N + 1 |-> R[k]]
    OBVIOUS
  <2> HIDE DEF R
  <2>3. Eq(R)
    BY <2>1, <2>2
  <2> HIDE DEF Eq
  <2>4. QED
    BY <2>3
<1> DEFINE R == CHOOSE R : Eq(R)
<1>9. Eq(R)
  <2> HIDE DEF Eq
  <2>1. QED
    BY <1>8
<1>10. ReadingsOf(line) = R
  BY DEF ReadingsOf, At, N
<1> HIDE DEF R
<1>11. \A k \in 1 .. N + 1 : R[k] = At(R, k)
  BY <1>9
<1>12. ASSUME NEW s \in 0 .. Cap - 1, NEW b \in {64, 128}, NEW k \in 1 .. N + 1
       PROVE  R[k][s][b] = At(R, k)[s][b]
  BY <1>11
<1> DEFINE Empty(s, b) == {Command("run", s, b, << >>)}
<1>13. ASSUME NEW s \in 0 .. Cap - 1, NEW b \in {64, 128}, NEW k \in 1 .. N + 1
       PROVE  /\ k = N + 1 => At(R, k)[s][b] = Empty(s, b)
              /\ k # N + 1 => At(R, k)[s][b] = ReadAt(line, k, s, b, R)
  <2>1. At(R, k)[s][b] = IF k > N THEN Empty(s, b) ELSE ReadAt(line, k, s, b, R)
    BY Zenon DEF At
  <2>2. k > N <=> k = N + 1
    BY <1>1
  <2> HIDE DEF Empty
  <2>3. QED
    BY <2>1, <2>2
<1> HIDE DEF Eq, Empty
<1>14. ASSUME NEW s \in 0 .. Cap - 1, NEW b \in {64, 128}
       PROVE  /\ R[N + 1][s][b] = Empty(s, b)
              /\ \A k \in 1 .. N : R[k][s][b] = ReadAt(line, k, s, b, R)
  <2>1. R[N + 1][s][b] = Empty(s, b)
    <3>1. N + 1 \in 1 .. N + 1
      BY <1>1
    <3>2. R[N + 1][s][b] = At(R, N + 1)[s][b]
      BY <1>12, <3>1
    <3>3. At(R, N + 1)[s][b] = Empty(s, b)
      BY <1>13, <3>1, Zenon
    <3>4. QED
      BY <3>2, <3>3, Zenon
  <2>2. ASSUME NEW k \in 1 .. N PROVE R[k][s][b] = ReadAt(line, k, s, b, R)
    <3>1. k \in 1 .. N + 1 /\ k # N + 1
      BY <1>1
    <3>2. R[k][s][b] = At(R, k)[s][b]
      BY <1>12, <3>1
    <3>3. At(R, k)[s][b] = ReadAt(line, k, s, b, R)
      BY <1>13, <3>1, Zenon
    <3>4. QED
      BY <3>2, <3>3, Zenon
  <2>3. QED
    BY <2>1, <2>2
<1>15. QED
  BY <1>10, <1>14 DEF IsReadings, N, Empty

(***************************************************************************)
(* The parser.                                                             *)
(***************************************************************************)
(* Until the parser is done, what is left of the command line, read with   *)
(* what is set so far, is what the whole of it can be read as.             *)
AtArgument ==
  /\ argi \in 1 .. Len(argv) + 1
  /\ seed \in 0 .. Cap - 1 /\ bits \in {64, 128}
  /\ err = {}
  /\ Readings = ReadingsOf(argv)[argi][seed][bits]

ArgsInv ==
  /\ argv \in Seq(Texts)
  /\ outcome = "parsing" => AtArgument
  /\ outcome = "run" => first \in 1 .. Len(argv) + 1
  /\ ParsesTheGrammar
  /\ DiagnosticIsPrintable

ReadingHere ==
  /\ argi < argc => /\ argi \in 1 .. Len(argv) /\ Arg \in Texts /\ Arg \in Range(argv)
                    /\ ReadsAs(argv, argi, seed, bits, ReadingsOf(argv))
                    /\ Readings = ReadAt(argv, argi, seed, bits, ReadingsOf(argv))
  /\ ~ (argi < argc) => Readings = {Command("run", seed, bits, From(argv, argi))}

LEMMA HereRight ==
  ASSUME argv \in Seq(Texts), AtArgument
  PROVE  ReadingHere
<1> DEFINE N == Len(argv)
<1>1. /\ N \in Nat /\ DOMAIN argv = 1 .. N
      /\ argi < argc <=> argi \in 1 .. N
      /\ ~ (argi < argc) <=> argi = N + 1
  <2>1. N \in Nat /\ DOMAIN argv = 1 .. N
    BY LenProperties
  <2>2. QED
    BY <2>1, SMT DEF AtArgument, argc
<1>2. IsReadings(argv, ReadingsOf(argv))
  BY ReadingsRight
<1>3. CASE argi < argc
  <2>1. argi \in 1 .. N
    BY <1>1, <1>3
  <2>2. Arg \in Texts /\ Arg \in Range(argv)
    BY <1>1, <2>1, ElementOfSeq DEF Arg, Range
  <2>3. ReadsAs(argv, argi, seed, bits, ReadingsOf(argv))
    BY <2>1, ReadsRight
  <2>4. Readings = ReadAt(argv, argi, seed, bits, ReadingsOf(argv))
    BY <1>2, <2>1 DEF IsReadings, AtArgument
  <2>5. QED
    BY <1>3, <2>1, <2>2, <2>3, <2>4 DEF ReadingHere
<1>4. CASE ~ (argi < argc)
  <2>1. argi = N + 1
    BY <1>1, <1>4
  <2> DEFINE none == << >>
  <2>2. From(argv, argi) = none
    BY <1>1, <2>1, SMT DEF From
  <2>3. Readings = {Command("run", seed, bits, none)}
    BY <1>2, <2>1 DEF IsReadings, AtArgument
  <2> HIDE DEF none
  <2>4. Readings = {Command("run", seed, bits, From(argv, argi))}
    BY <2>2, <2>3
  <2>5. QED
    BY <1>4, <2>4 DEF ReadingHere
<1>5. QED
  BY <1>3, <1>4

(* What an option with a value is given, and what that makes the readings. *)
GivenHere ==
  LET opt == Letter(Arg) IN
  \/ Given = {} /\ Readings = {}
  \/ \E v \in Texts :
       /\ Given = {v}
       /\ \E a \in Range(argv) : v \in Suffixes(a)
       /\ After \in 1 .. Len(argv) + 1
       /\ Readings = ReadWith(opt, v, seed, bits, ReadingsOf(argv)[After])

LEMMA GivenRight ==
  ASSUME argv \in Seq(Texts), AtArgument, TakesValue
  PROVE  GivenHere
<1> DEFINE N == Len(argv)  opt == Letter(Arg)  R == ReadingsOf(argv)
<1>1. /\ argi < argc /\ IsOption(Arg) /\ Is(Arg, opt) /\ opt \in {"s", "b"}
  BY DEF TakesValue, AtOption, Is, AnOption
<1>2. /\ argi \in 1 .. N /\ Arg \in Texts /\ Arg \in Range(argv)
      /\ ReadsAs(argv, argi, seed, bits, R)
      /\ Readings = ReadAt(argv, argi, seed, bits, R)
  BY <1>1, HereRight DEF ReadingHere
<1>3. /\ N \in Nat /\ DOMAIN argv = 1 .. N
      /\ argi + 1 \in 1 .. N + 1
      /\ argi < N => argi + 1 \in 1 .. N /\ argi + 2 \in 1 .. N + 1
      /\ argi + 1 < argc <=> argi < N
  <2>1. N \in Nat /\ DOMAIN argv = 1 .. N
    BY LenProperties
  <2>2. QED
    BY <1>2, <2>1, SMT DEF argc
<1>4. CASE Attached(Arg) = {}
  <2>1. /\ Given = IF argi < N THEN {argv[argi + 1]} ELSE {}
        /\ After = argi + 2
    BY <1>3, <1>4 DEF Given, After
  <2>2. Readings = IF argi < N THEN ReadWith(opt, argv[argi + 1], seed, bits, R[argi + 2]) ELSE {}
    BY <1>1, <1>2, <1>4 DEF ReadsAs, Arg
  <2>3. CASE argi < N
    <3>1. argv[argi + 1] \in Texts /\ argv[argi + 1] \in Range(argv)
      BY <1>3, <2>3, ElementOfSeq DEF Range
    <3>2. argv[argi + 1] \in Suffixes(argv[argi + 1])
      BY <3>1, SuffixOf DEF Texts
    <3>3. QED
      BY <1>3, <2>1, <2>2, <2>3, <3>1, <3>2 DEF GivenHere
  <2>4. QED
    BY <2>1, <2>2, <2>3 DEF GivenHere
<1>5. CASE Attached(Arg) # {}
  <2>1. PICK v \in Texts : v \in Suffixes(Arg) /\ Attached(Arg) = {v}
    BY <1>1, <1>2, <1>5, AttachedOf
  <2>2. Given = {v} /\ After = argi + 1
    BY <2>1 DEF Given, After
  <2>3. Readings = ReadWith(opt, v, seed, bits, R[argi + 1])
    BY <1>1, <1>2, <2>1 DEF ReadsAs, Arg
  <2>4. QED
    BY <1>2, <1>3, <2>1, <2>2, <2>3 DEF GivenHere
<1>6. QED
  BY <1>4, <1>5

(* What a diagnostic may quote.                                            *)
Quoted(tok) ==
  /\ Len(tok) \in 1 .. TokMax + 1
  /\ \A k \in DOMAIN tok : tok[k] \notin Control
  /\ \A k \in DOMAIN tok : tok[k] = NUL <=> k = Len(tok)
  /\ \/ \E a \in Range(argv) : \E text \in Suffixes(a) \cup {<< Char(a, 2) >>} :
          Shows(tok, text)
     \/ tok \in {<< c, NUL >> : c \in {"h", "V", "s", "b"}}

LEMMA TextQuoted ==
  ASSUME NEW a \in Range(argv), NEW text \in Texts, text \in Suffixes(a) \cup {<< Char(a, 2) >>}
  PROVE  Quoted(Token(text))
<1>1. Printable(Token(text), text)
  BY QuoteRight
<1>2. QED
  BY <1>1 DEF Quoted, Printable

LEMMA LetterQuoted ==
  ASSUME NEW c \in {"h", "V", "s", "b"}
  PROVE  Quoted(<< c, NUL >>)
<1> DEFINE tok == << c, NUL >>
<1>1. Len(tok) = 2 /\ DOMAIN tok = 1 .. 2 /\ tok[1] = c /\ tok[2] = NUL
  BY SMT
<1>2. c # NUL /\ c \notin Control /\ NUL \notin Control
  BY DEF NUL, Control, LF, CR
<1>3. 2 \in 1 .. TokMax + 1
  BY TextAssumption, SMT
<1>4. tok \in {<< x, NUL >> : x \in {"h", "V", "s", "b"}}
  OBVIOUS
<1> HIDE DEF tok
<1>5. \A k \in 1 .. 2 : k = 1 \/ k = 2
  BY SMT
<1>6. 1 # 2
  BY SMT
<1>7. QED
  BY <1>1, <1>2, <1>3, <1>4, <1>5, <1>6, Zenon DEF Quoted, tok

LEMMA ArgsInitInv ==
  ArgsInit => ArgsInv
<1> SUFFICES ASSUME ArgsInit PROVE ArgsInv
  OBVIOUS
<1>1. argv \in Seq(Texts)
  BY ArgsAssumption DEF ArgsInit
<1>2. AtArgument
  <2>1. Len(argv) \in Nat
    BY <1>1, LenProperties
  <2>2. 1 \in 1 .. Len(argv) + 1 /\ 0 \in 0 .. Cap - 1
    BY <2>1, TextAssumption, SMT
  <2>3. QED
    BY <2>2 DEF ArgsInit, AtArgument, Readings
<1>3. ParsesTheGrammar /\ DiagnosticIsPrintable
  BY DEF ArgsInit, ParsesTheGrammar, DiagnosticIsPrintable
<1>4. QED
  BY <1>1, <1>2, <1>3 DEF ArgsInit, ArgsInv

(* The ways to end: the operands, an error with what it quotes, a flag.    *)
LEMMA RunsRight ==
  ASSUME ArgsInv, outcome = "parsing", NEW k \in 1 .. Len(argv) + 1, Runs(k),
         Readings = {Command("run", seed, bits, From(argv, k))}
  PROVE  ArgsInv'
<1>1. /\ argv' = argv /\ seed' = seed /\ bits' = bits /\ err' = err
      /\ first' = k /\ outcome' = "run"
  BY DEF Runs
<1>2. argv \in Seq(Texts) /\ err = {}
  BY DEF ArgsInv, AtArgument
<1>3. Readings' = Readings
  BY <1>1 DEF Readings
<1>4. ParsesTheGrammar'
  <2> DEFINE answer == Command("run", seed, bits, From(argv, k))
  <2>1. (IF outcome = "run" THEN Command("run", seed, bits, From(argv, first))
                            ELSE Command(outcome, 0, 64, << >>))' = answer
    BY <1>1
  <2>2. Readings' = {answer}
    BY <1>3
  <2> HIDE DEF answer
  <2>3. QED
    BY <1>1, <2>1, <2>2 DEF ParsesTheGrammar
<1>5. DiagnosticIsPrintable'
  BY <1>1, <1>2 DEF DiagnosticIsPrintable
<1>6. QED
  BY <1>1, <1>2, <1>4, <1>5 DEF ArgsInv

LEMMA FailsRight ==
  ASSUME ArgsInv, outcome = "parsing", NEW tok, Returns("usage", {tok}), Readings = {}, Quoted(tok)
  PROVE  ArgsInv'
<1>1. argv' = argv /\ outcome' = "usage" /\ err' = {tok}
  BY DEF Returns
<1>2. argv \in Seq(Texts)
  BY DEF ArgsInv
<1>3. Readings' = Readings
  BY <1>1 DEF Readings
<1>4. ParsesTheGrammar'
  BY <1>1, <1>3 DEF ParsesTheGrammar
<1>5. Quoted(tok)'
  BY <1>1 DEF Quoted
<1>6. DiagnosticIsPrintable'
  BY <1>1, <1>5 DEF DiagnosticIsPrintable, Quoted
<1>7. QED
  BY <1>1, <1>2, <1>4, <1>6 DEF ArgsInv

LEMMA FlagsRight ==
  ASSUME ArgsInv, outcome = "parsing", NEW what \in {"help", "version"}, Returns(what, {}),
         Readings = {Command(what, 0, 64, << >>)}
  PROVE  ArgsInv'
<1>1. argv' = argv /\ outcome' = what /\ err' = {}
  BY DEF Returns
<1>2. argv \in Seq(Texts)
  BY DEF ArgsInv
<1>3. Readings' = Readings
  BY <1>1 DEF Readings
<1>4. what # "run" /\ what # "usage" /\ what # "parsing"
  OBVIOUS
<1>5. ParsesTheGrammar'
  <2> DEFINE answer == Command(what, 0, 64, << >>)
  <2>1. (IF outcome = "run" THEN Command("run", seed, bits, From(argv, first))
                            ELSE Command(outcome, 0, 64, << >>))' = answer
    BY <1>1, <1>4
  <2>2. Readings' = {answer}
    BY <1>3
  <2> HIDE DEF answer
  <2>3. QED
    BY <1>1, <1>4, <2>1, <2>2 DEF ParsesTheGrammar
<1>6. DiagnosticIsPrintable'
  BY <1>1, <1>4 DEF DiagnosticIsPrintable
<1>7. QED
  BY <1>1, <1>2, <1>4, <1>5, <1>6 DEF ArgsInv

LEMMA ArgsNextInv ==
  ArgsInv /\ [ArgsNext]_argVars => ArgsInv'
<1> SUFFICES ASSUME ArgsInv, [ArgsNext]_argVars PROVE ArgsInv'
  OBVIOUS
<1> DEFINE R == ReadingsOf(argv)
<1>1. argv \in Seq(Texts) /\ Len(argv) \in Nat
  BY LenProperties DEF ArgsInv
<1>2. outcome = "parsing" => AtArgument /\ ReadingHere
  BY <1>1, HereRight DEF ArgsInv
<1>3. CASE FirstOperand
  <2>1. outcome = "parsing" /\ Runs(argi) /\ argi \in 1 .. Len(argv) + 1
    BY <1>2, <1>3 DEF FirstOperand, AtArgument
  <2>2. Readings = {Command("run", seed, bits, From(argv, argi))}
    <3>1. CASE argi < argc
      <4>1. ~ IsOption(Arg)
        BY <1>3, <3>1 DEF FirstOperand
      <4>2. QED
        BY <1>2, <2>1, <3>1, <4>1 DEF ReadingHere, ReadsAs, Arg
    <3>2. CASE ~ (argi < argc)
      BY <1>2, <2>1, <3>2 DEF ReadingHere
    <3>3. QED
      BY <3>1, <3>2
  <2>3. QED
    BY <2>1, <2>2, RunsRight
<1>4. CASE DashDash
  <2>1. outcome = "parsing" /\ argi < argc /\ Arg = << "-", "-" >> /\ Runs(argi + 1)
    BY <1>4 DEF DashDash
  <2>2. argi + 1 \in 1 .. Len(argv) + 1
    <3>1. argi \in 1 .. Len(argv)
      BY <1>2, <2>1 DEF ReadingHere
    <3>2. QED
      BY <1>1, <3>1, SMT
  <2>3. Readings = {Command("run", seed, bits, From(argv, argi + 1))}
    BY <1>2, <2>1 DEF ReadingHere, ReadsAs, Arg
  <2>4. QED
    BY <2>1, <2>2, <2>3, RunsRight
<1>5. ASSUME AtOption
      PROVE  /\ outcome = "parsing" /\ Is(Arg, Letter(Arg)) /\ Arg \in Texts /\ Arg \in Range(argv)
             /\ ReadsAs(argv, argi, seed, bits, R)
             /\ Readings = ReadAt(argv, argi, seed, bits, R)
  BY <1>2, <1>5 DEF AtOption, ReadingHere, Is, AnOption
<1>6. CASE Unknown
  <2> DEFINE text == IF IsLong(Arg) THEN Arg ELSE << Arg[2] >>
  <2>1. AtOption /\ Letter(Arg) = "?" /\ Returns("usage", {Token(text)})
    BY <1>6 DEF Unknown
  <2>2. Readings = {}
    BY <1>5, <2>1 DEF ReadsAs, Arg
  <2>3. text \in Texts /\ text \in Suffixes(Arg) \cup {<< Char(Arg, 2) >>}
    <3>1. CASE IsLong(Arg)
      BY <1>5, <2>1, <3>1, SuffixOf DEF Texts
    <3>2. CASE ~ IsLong(Arg)
      <4>1. IsOption(Arg) /\ Arg \in Texts
        BY <1>5, <2>1 DEF AtOption
      <4>2. Len(Arg) >= 2 /\ Len(Arg) \in Nat /\ DOMAIN Arg = 1 .. Len(Arg)
        BY <4>1, OptionShape
      <4>3. 2 \in 1 .. Len(Arg)
        BY <4>2, SMT
      <4>4. Char(Arg, 2) = Arg[2] /\ Arg[2] \in Chars
        BY <4>1, <4>2, <4>3, ElementOfSeq DEF Char, Texts
      <4>5. << Arg[2] >> \in Texts
        BY <4>4, SMT DEF Texts
      <4>6. QED
        BY <3>2, <4>4, <4>5
    <3>3. QED
      BY <3>1, <3>2
  <2> HIDE DEF text
  <2>4. Quoted(Token(text))
    BY <1>5, <2>1, <2>3, TextQuoted
  <2>5. QED
    BY <1>5, <2>1, <2>2, <2>4, FailsRight
<1>7. CASE Flag
  <2>1. AtOption /\ Letter(Arg) \in {"h", "V"}
    BY <1>7 DEF Flag
  <2>2. CASE IsLong(Arg) /\ Attached(Arg) # {}
    <3>1. Returns("usage", {<< Letter(Arg), NUL >>})
      BY <1>7, <2>2 DEF Flag
    <3>2. Readings = {}
      BY <1>5, <2>1, <2>2 DEF ReadsAs, Arg
    <3>3. Quoted(<< Letter(Arg), NUL >>)
      BY <2>1, LetterQuoted
    <3>4. QED
      BY <1>5, <2>1, <3>1, <3>2, <3>3, FailsRight
  <2>3. CASE ~ (IsLong(Arg) /\ Attached(Arg) # {})
    <3> DEFINE what == IF Letter(Arg) = "h" THEN "help" ELSE "version"
    <3>1. Returns(what, {}) /\ what \in {"help", "version"}
      BY <1>7, <2>3 DEF Flag
    <3>2. Readings = {Command(what, 0, 64, << >>)}
      <4>1. CASE Letter(Arg) = "h"
        BY <1>5, <2>1, <2>3, <4>1 DEF ReadsAs, Arg
      <4>2. CASE Letter(Arg) = "V"
        <5>1. what = "version"
          BY <4>2
        <5>2. QED
          BY <1>5, <2>1, <2>3, <4>2, <5>1 DEF ReadsAs, Arg
      <4>3. QED
        BY <2>1, <4>1, <4>2
    <3> HIDE DEF what
    <3>3. QED
      BY <1>5, <2>1, <3>1, <3>2, FlagsRight
  <2>4. QED
    BY <2>2, <2>3
<1>8. ASSUME TakesValue PROVE GivenHere /\ AtOption /\ Letter(Arg) \in {"s", "b"}
  <2>1. AtOption /\ Letter(Arg) \in {"s", "b"} /\ outcome = "parsing"
    BY <1>8 DEF TakesValue, AtOption
  <2>2. QED
    BY <1>1, <1>2, <1>8, <2>1, GivenRight
<1>9. CASE Missing
  <2>1. TakesValue /\ Given = {} /\ Returns("usage", {<< Letter(Arg), NUL >>})
    BY <1>9 DEF Missing
  <2>2. Readings = {}
    BY <1>8, <2>1 DEF GivenHere
  <2>3. Quoted(<< Letter(Arg), NUL >>)
    BY <1>8, <2>1, LetterQuoted
  <2>4. QED
    BY <1>5, <1>8, <2>1, <2>2, <2>3, FailsRight
<1>10. CASE BadValue
  <2>1. TakesValue
    BY <1>10 DEF BadValue
  <2>2. PICK text \in Given : Setting(Letter(Arg), text) = {} /\ Returns("usage", {Token(text)})
    BY <1>10 DEF BadValue
  <2>3. /\ text \in Texts
        /\ \E a \in Range(argv) : text \in Suffixes(a)
        /\ Readings = ReadWith(Letter(Arg), text, seed, bits, R[After])
    BY <1>8, <2>1, <2>2 DEF GivenHere
  <2>4. Readings = {}
    <3>1. Continues(Letter(Arg), text, seed, bits, R[After])
      BY <1>8, <2>1, <2>3, ContinuesRight
    <3>2. QED
      BY <2>2, <2>3, <3>1 DEF Continues
  <2>5. Quoted(Token(text))
    BY <2>3, TextQuoted
  <2>6. QED
    BY <1>5, <1>8, <2>1, <2>2, <2>4, <2>5, FailsRight
<1>11. CASE SetOption
  <2> DEFINE opt == Letter(Arg)
  <2>1. TakesValue /\ argi' = After /\ argv' = argv /\ outcome' = outcome /\ err' = err
    BY <1>11 DEF SetOption
  <2>2. PICK text \in Given : \E v \in Setting(opt, text) :
          IF opt = "s" THEN seed' = v /\ UNCHANGED bits ELSE bits' = v /\ UNCHANGED seed
    BY <1>11 DEF SetOption
  <2>3. PICK v \in Setting(opt, text) :
          IF opt = "s" THEN seed' = v /\ UNCHANGED bits ELSE bits' = v /\ UNCHANGED seed
    BY <2>2
  <2>4. /\ text \in Texts /\ After \in 1 .. Len(argv) + 1
        /\ Readings = ReadWith(opt, text, seed, bits, R[After])
    BY <1>8, <2>1, <2>2 DEF GivenHere
  <2>5. opt \in {"s", "b"} /\ outcome = "parsing" /\ AtArgument
    BY <1>2, <1>5, <1>8, <2>1
  <2> HIDE DEF opt
  <2>6. Setting(opt, text) = {v} /\ v \in Allowed(opt)
    BY <2>3, <2>4, <2>5, SettingRight
  <2>7. ReadWith(opt, text, seed, bits, R[After])
          = IF opt = "s" THEN R[After][v][bits] ELSE R[After][seed][v]
    <3>1. Continues(opt, text, seed, bits, R[After])
      BY <2>4, <2>5, ContinuesRight
    <3>2. QED
      BY <2>6, <3>1 DEF Continues
  <2>8. /\ seed' \in 0 .. Cap - 1 /\ bits' \in {64, 128}
        /\ Readings = R[After][seed'][bits']
    BY <2>3, <2>4, <2>5, <2>6, <2>7 DEF Allowed, AtArgument
  <2>9. Readings' = Readings /\ R' = R
    BY <2>1 DEF Readings
  <2>10. Readings' = ReadingsOf(argv')[argi'][seed'][bits']
    BY <2>1, <2>8, <2>9
  <2>11. AtArgument'
    BY <2>1, <2>4, <2>5, <2>8, <2>10 DEF AtArgument
  <2>12. QED
    BY <1>1, <2>1, <2>5, <2>11 DEF ArgsInv, ParsesTheGrammar, DiagnosticIsPrintable, AtArgument
<1>12. CASE Done \/ UNCHANGED argVars
  <2>1. UNCHANGED argVars
    BY <1>12 DEF Done
  <2>2. UNCHANGED << argv, argi, seed, bits, first, outcome, err >>
    BY <2>1 DEF argVars
  <2>3. Readings' = Readings
    BY <2>2 DEF Readings
  <2>4. ParsesTheGrammar' /\ DiagnosticIsPrintable'
    BY <2>2, <2>3 DEF ArgsInv, ParsesTheGrammar, DiagnosticIsPrintable
  <2>5. QED
    BY <2>2, <2>3, <2>4 DEF ArgsInv, AtArgument
<1>13. QED
  BY <1>3, <1>4, <1>6, <1>7, <1>9, <1>10, <1>11, <1>12 DEF ArgsNext

(***************************************************************************)
(* What holds of hayasum's arguments and names.                            *)
(***************************************************************************)
LEMMA ArgsAlways == ArgsSpec => []ArgsInv
<1>1. QED
  BY ArgsInitInv, ArgsNextInv, PTL DEF ArgsSpec

(* For any command line at all: the parser answers with the one command    *)
(* the usage text reads it as, or with a usage error if there is none; a   *)
(* seed is the number its digits write, or is refused.                     *)
THEOREM AnswersAsTyped == ArgsSpec => []ParsesTheGrammar
<1>1. ArgsInv => ParsesTheGrammar
  BY DEF ArgsInv
<1>2. QED
  BY ArgsAlways, <1>1, PTL

(* For any command line and any HAYASUM_TOKMAX of 3 or more, what err      *)
(* quotes is terminated in tok, printable and what it says it is.          *)
THEOREM DiagnosticsAreSafe == ArgsSpec => []DiagnosticIsPrintable
<1>1. ArgsInv => DiagnosticIsPrintable
  BY DEF ArgsInv
<1>2. QED
  BY ArgsAlways, <1>1, PTL

LEMMA OperandType ==
  ASSUME ArgsInv, outcome = "run", NEW a \in Range(From(argv, first))
  PROVE  a \in Texts
<1>1. argv \in Seq(Texts) /\ first \in 1 .. Len(argv) + 1
  BY DEF ArgsInv
<1> DEFINE rest == From(argv, first)
<1>2. rest \in Seq(Texts)
  BY <1>1, FromRight
<1>3. a \in Range(rest)
  OBVIOUS
<1> HIDE DEF rest
<1>4. QED
  BY <1>2, <1>3, LenProperties, ElementOfSeq DEF Range

(* Whatever the names of the operands hold, each of them has one output    *)
(* line and one line of diagnostic.                                        *)
THEOREM NamesAddNoLines == ArgsSpec => []OneLinePerName
<1>1. ArgsInv => OneLinePerName
  BY OperandType, LinesAreLines DEF OneLinePerName, OneLine
<1>2. QED
  BY ArgsAlways, <1>1, PTL

(* The escaped form of a name loses nothing: from the output line a reader *)
(* gets the name of the operand, and no two names have the same line.      *)
THEOREM NamesAreReadBack == ArgsSpec => []NameCanBeReadBack
<1>1. ArgsInv => NameCanBeReadBack
  BY OperandType, ReadBack DEF NameCanBeReadBack
<1>2. QED
  BY ArgsAlways, <1>1, PTL
=============================================================================
