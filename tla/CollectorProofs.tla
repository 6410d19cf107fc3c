--------------------------- MODULE CollectorProofs ---------------------------
(***************************************************************************)
(* That a backup archives what the writer wrote, each byte of a line once  *)
(* and sound lines whole, for any lines, any file and any moment at which  *)
(* a backup looks at it.                                                   *)
(***************************************************************************)
EXTENDS Collector, SequenceTheorems, WellFoundedInduction, TLAPS

-----------------------------------------------------------------------------
(* Lines, terminators and what they make together *)

\* What a line, or a part of it, is made of.
Text == Seq(Byte \ Breaks)

\* The writer's lines are texts.
LEMMA LinesAreText ==
    Lines \subseteq Text
BY LinesAssumption DEF Text

\* A line has no break in it.
LEMMA LineType ==
    ASSUME NEW line \in Text
    PROVE  /\ line \in Seq(Byte)
           /\ Len(line) \in Nat
           /\ \A i \in 1..Len(line) : line[i] \in Byte /\ line[i] \notin Breaks
<1>1. line \in Seq(Byte \ Breaks)
  BY DEF Text
<1>2. \A i \in 1..Len(line) : line[i] \in Byte \ Breaks
  BY <1>1, ElementOfSeq
<1>3. line \in Seq(Byte)
  BY <1>1, SeqMonotonic, Byte \ Breaks \subseteq Byte
<1> QED
  BY <1>1, <1>2, <1>3, LenProperties

\* A terminator is a newline, perhaps after a carriage return.
LEMMA EndType ==
    ASSUME NEW end \in Terminators
    PROVE  /\ end \in Seq(Byte)
           /\ Len(end) \in {1, 2}
           /\ end[Len(end)] = "nl"
           /\ Len(end) = 2 => end[1] = "cr"
           /\ \A i \in 1..Len(end) : end[i] \in Breaks
           /\ end # <<>>
<1>1. "cr" \in Byte /\ "nl" \in Byte
  BY DEF Byte
<1>2. \A a, b : /\ a \in Byte => <<a>> \in Seq(Byte)
               /\ a \in Byte /\ b \in Byte => <<a, b>> \in Seq(Byte)
  OBVIOUS
<1>3. CASE end = <<"nl">>
  <2>1. end \in Seq(Byte)
    BY <1>1, <1>2, <1>3
  <2> QED
    BY <2>1, <1>3 DEF Breaks
<1>4. CASE end = <<"cr", "nl">>
  <2>1. end \in Seq(Byte)
    BY <1>1, <1>2, <1>4
  <2>2. Len(end) = 2 /\ end[1] = "cr" /\ end[2] = "nl"
    BY <1>4
  <2>3. \A i \in 1..2 : i = 1 \/ i = 2
    OBVIOUS
  <2> QED
    BY <2>1, <2>2, <2>3 DEF Breaks
<1> QED
  BY <1>3, <1>4 DEF Terminators

\* A line with its terminator has its only newline at its end.
LEMMA LineAndEnd ==
    ASSUME NEW line \in Text, NEW end \in Terminators
    PROVE  /\ line \o end \in Seq(Byte)
           /\ Len(line \o end) = Len(line) + Len(end)
           /\ \A k \in 1..Len(line) : (line \o end)[k] = line[k]
           /\ \A k \in (Len(line) + 1)..(Len(line) + Len(end)) :
                (line \o end)[k] = end[k - Len(line)]
           /\ (line \o end)[Len(line \o end)] = "nl"
           /\ \A k \in 1..(Len(line \o end) - 1) : (line \o end)[k] # "nl"
<1>1. line \in Seq(Byte) /\ Len(line) \in Nat
  BY LineType
<1>2. end \in Seq(Byte) /\ Len(end) \in {1, 2}
  BY EndType
<1>3. /\ line \o end \in Seq(Byte)
      /\ Len(line \o end) = Len(line) + Len(end)
      /\ \A k \in 1..(Len(line) + Len(end)) :
           (line \o end)[k] = IF k <= Len(line) THEN line[k] ELSE end[k - Len(line)]
  BY <1>1, <1>2, ConcatProperties
<1>4. \A k \in 1..Len(line) : (line \o end)[k] = line[k]
  BY <1>1, <1>2, <1>3
<1>5. \A k \in (Len(line) + 1)..(Len(line) + Len(end)) :
         (line \o end)[k] = end[k - Len(line)]
  BY <1>1, <1>2, <1>3
<1>6. (line \o end)[Len(line \o end)] = "nl"
  BY <1>1, <1>2, <1>3, <1>5, EndType
<1>7. \A k \in 1..(Len(line \o end) - 1) : (line \o end)[k] # "nl"
  <2> SUFFICES ASSUME NEW k \in 1..(Len(line \o end) - 1)
               PROVE  (line \o end)[k] # "nl"
    OBVIOUS
  <2>1. CASE k <= Len(line)
    BY <2>1, <1>1, <1>2, <1>3, <1>4, LineType DEF Breaks
  <2>2. CASE k > Len(line)
    <3>1. Len(end) = 2 /\ k = Len(line) + 1
      <4>1. \A l \in Nat : \A e \in {1, 2} : \A i \in 1..(l + e - 1) : i > l => e = 2 /\ i = l + 1
        OBVIOUS
      <4>2. k \in 1..(Len(line) + Len(end) - 1)
        BY <1>3
      <4> QED
        BY <4>1, <4>2, <2>2, <1>1, <1>2
    <3> QED
      BY <3>1, <1>1, <1>5, EndType
  <2> QED
    BY <2>1, <2>2, <1>1
<1> QED
  BY <1>3, <1>4, <1>5, <1>6, <1>7

\* HasAt, byte by byte.
LEMMA HasAtBytes ==
    ASSUME NEW bytes \in Seq(Byte), NEW from \in Nat, NEW part \in Seq(Byte)
    PROVE  HasAt(bytes, from, part) <=>
             /\ from + Len(part) <= Len(bytes)
             /\ \A k \in 1..Len(part) : bytes[from + k] = part[k]
<1>1. Len(part) \in Nat /\ Len(bytes) \in Nat
  BY LenProperties
<1> SUFFICES ASSUME from + Len(part) <= Len(bytes)
             PROVE  SubSeq(bytes, from + 1, from + Len(part)) = part <=>
                      \A k \in 1..Len(part) : bytes[from + k] = part[k]
  BY DEF HasAt
<1> DEFINE sub == SubSeq(bytes, from + 1, from + Len(part))
<1>2. \A i \in (from + 1)..(from + Len(part)) : bytes[i] \in Byte
  BY <1>1, ElementOfSeq
<1>3. /\ sub \in Seq(Byte)
      /\ Len(sub) = IF from + 1 <= from + Len(part)
                    THEN (from + Len(part)) - (from + 1) + 1 ELSE 0
      /\ \A i \in 1..((from + Len(part)) - (from + 1) + 1) : sub[i] = bytes[(from + 1) + i - 1]
  BY <1>1, <1>2, SubSeqProperties
<1>4. Len(sub) = Len(part) /\ \A i \in 1..Len(part) : sub[i] = bytes[from + i]
  BY <1>1, <1>3
<1> HIDE DEF sub
<1>5. ASSUME \A k \in 1..Len(part) : bytes[from + k] = part[k]
      PROVE  sub = part
  BY <1>3, <1>4, <1>5, SeqEqual
<1>6. ASSUME sub = part
      PROVE  \A k \in 1..Len(part) : bytes[from + k] = part[k]
  BY <1>4, <1>6
<1> QED
  BY <1>5, <1>6 DEF sub

-----------------------------------------------------------------------------
(* What the reader's operators return *)

\* LineEnd is the end of the first raw line.
LEMMA LineEndIs ==
    ASSUME NEW bytes, NEW from \in Nat, NEW size \in Nat, NEW e \in (from + 1)..size,
           e = size \/ bytes[e] = "nl",
           \A i \in (from + 1)..(e - 1) : bytes[i] # "nl"
    PROVE  LineEnd(bytes, from, size) = e
<1> DEFINE IsEnd(x) == /\ x = size \/ bytes[x] = "nl"
                       /\ \A i \in (from + 1)..(x - 1) : bytes[i] # "nl"
<1>1. IsEnd(e)
  OBVIOUS
<1>2. ASSUME NEW x \in (from + 1)..size, IsEnd(x)
      PROVE  x = e
  <2>1. ~ x < e
    BY <1>2
  <2>2. ~ e < x
    BY <1>2
  <2> QED
    BY <2>1, <2>2
<1>3. LineEnd(bytes, from, size) = CHOOSE x \in (from + 1)..size : IsEnd(x)
  BY DEF LineEnd
<1> HIDE DEF IsEnd
<1> QED
  BY <1>1, <1>2, <1>3

\* Trimmed drops the line breaks at the end and no more.
LEMMA TrimmedIs ==
    ASSUME NEW line \in Seq(Byte), NEW n \in 0..Len(line),
           \A i \in (n + 1)..Len(line) : line[i] \in Breaks,
           n > 0 => line[n] \notin Breaks
    PROVE  Trimmed(line) = SubSeq(line, 1, n)
<1> DEFINE IsCut(x) == /\ \A i \in (x + 1)..Len(line) : line[i] \in Breaks
                       /\ x > 0 => line[x] \notin Breaks
<1>0. Len(line) \in Nat
  BY LenProperties
<1>1. IsCut(n)
  OBVIOUS
<1>2. ASSUME NEW x \in 0..Len(line), IsCut(x)
      PROVE  x = n
  <2>1. ~ x < n
    BY <1>0, <1>2
  <2>2. ~ n < x
    BY <1>0, <1>2
  <2> QED
    BY <1>0, <2>1, <2>2
<1>3. Trimmed(line) = SubSeq(line, 1, CHOOSE x \in 0..Len(line) : IsCut(x))
  BY DEF Trimmed
<1> HIDE DEF IsCut
<1>4. (CHOOSE x \in 0..Len(line) : IsCut(x)) = n
  BY <1>1, <1>2
<1> QED
  BY <1>3, <1>4

\* The part of a line with its terminator that is in the file, without breaks.
LEMMA TrimPart ==
    ASSUME NEW line \in Text, NEW end \in Terminators, NEW n \in 0..Len(line \o end)
    PROVE  Trimmed(SubSeq(line \o end, 1, n)) =
             IF n < Len(line) THEN SubSeq(line, 1, n) ELSE line
<1> DEFINE x == line \o end
           part == SubSeq(x, 1, n)
           m == IF n < Len(line) THEN n ELSE Len(line)
<1>1. line \in Seq(Byte) /\ Len(line) \in Nat
  BY LineType
<1>2. end \in Seq(Byte) /\ Len(end) \in {1, 2}
  BY EndType
<1>3. x \in Seq(Byte) /\ Len(x) = Len(line) + Len(end)
  BY LineAndEnd
<1>4. n \in Nat /\ n <= Len(x) /\ m \in 0..n /\ m \in 0..Len(line)
  BY <1>1, <1>2, <1>3
<1>5. \A i \in 1..n : x[i] \in Byte
  BY <1>3, <1>4, ElementOfSeq
<1>6. /\ part \in Seq(Byte)
      /\ Len(part) = IF 1 <= n THEN n - 1 + 1 ELSE 0
      /\ \A i \in 1..(n - 1 + 1) : part[i] = x[1 + i - 1]
  BY <1>4, <1>5, SubSeqProperties
<1>7. Len(part) = n /\ \A i \in 1..n : part[i] = x[i]
  BY <1>4, <1>6
<1>8. \A i \in 1..m : part[i] = line[i]
  BY <1>1, <1>4, <1>7, LineAndEnd
<1>9. \A i \in (m + 1)..n : part[i] \in Breaks
  <2> SUFFICES ASSUME NEW i \in (m + 1)..n
               PROVE  part[i] \in Breaks
    OBVIOUS
  <2>1. m = Len(line) /\ i \in (Len(line) + 1)..(Len(line) + Len(end))
    BY <1>1, <1>2, <1>3, <1>4
  <2>2. part[i] = end[i - Len(line)]
    BY <2>1, <1>1, <1>4, <1>7, LineAndEnd
  <2>3. i - Len(line) \in 1..Len(end)
    BY <2>1, <1>1, <1>2
  <2> QED
    BY <2>2, <2>3, EndType
<1>10. m > 0 => part[m] \notin Breaks
  BY <1>1, <1>4, <1>8, LineType
<1> HIDE DEF x, part
<1>11. Trimmed(part) = SubSeq(part, 1, m)
  BY <1>4, <1>6, <1>7, <1>9, <1>10, TrimmedIs
<1>12. SubSeq(part, 1, m) = SubSeq(line, 1, m)
  <2>1. \A i \in 1..m : part[i] \in Byte /\ line[i] \in Byte
    BY <1>1, <1>4, <1>8, LineType
  <2>2. /\ SubSeq(part, 1, m) \in Seq(Byte)
        /\ Len(SubSeq(part, 1, m)) = IF 1 <= m THEN m - 1 + 1 ELSE 0
        /\ \A i \in 1..(m - 1 + 1) : SubSeq(part, 1, m)[i] = part[1 + i - 1]
    BY <2>1, <1>4, SubSeqProperties
  <2>3. /\ SubSeq(line, 1, m) \in Seq(Byte)
        /\ Len(SubSeq(line, 1, m)) = IF 1 <= m THEN m - 1 + 1 ELSE 0
        /\ \A i \in 1..(m - 1 + 1) : SubSeq(line, 1, m)[i] = line[1 + i - 1]
    BY <2>1, <1>4, SubSeqProperties
  <2>4. Len(SubSeq(part, 1, m)) = m /\ Len(SubSeq(line, 1, m)) = m
    BY <2>2, <2>3, <1>4
  <2>5. \A i \in 1..m : SubSeq(part, 1, m)[i] = SubSeq(line, 1, m)[i]
    BY <2>2, <2>3, <1>4, <1>8
  <2> QED
    BY <2>2, <2>3, <2>4, <2>5, SeqEqual
<1>13. SubSeq(line, 1, Len(line)) = line
  BY <1>1, SubSeqFull
<1> QED
  BY <1>11, <1>12, <1>13 DEF part, x

\* What is left of a terminator is blank.
LEMMA TrimRest ==
    ASSUME NEW end \in Terminators, NEW n \in 0..Len(end)
    PROVE  Trimmed(SubSeq(end, 1, n)) = <<>>
<1> DEFINE part == SubSeq(end, 1, n)
<1>1. end \in Seq(Byte) /\ Len(end) \in {1, 2}
  BY EndType
<1>2. n \in Nat /\ \A i \in 1..n : end[i] \in Byte
  BY <1>1, ElementOfSeq
<1>3. /\ part \in Seq(Byte)
      /\ Len(part) = IF 1 <= n THEN n - 1 + 1 ELSE 0
      /\ \A i \in 1..(n - 1 + 1) : part[i] = end[1 + i - 1]
  BY <1>2, SubSeqProperties
<1>4. Len(part) = n /\ \A i \in 1..n : part[i] = end[i]
  BY <1>2, <1>3
<1>5. \A i \in (0 + 1)..Len(part) : part[i] \in Breaks
  BY <1>1, <1>2, <1>4, EndType
<1> HIDE DEF part
<1>6. Trimmed(part) = SubSeq(part, 1, 0)
  BY <1>2, <1>3, <1>4, <1>5, TrimmedIs
<1>7. SubSeq(part, 1, 0) = <<>>
  BY SubSeqEmpty
<1> QED
  BY <1>6, <1>7 DEF part

-----------------------------------------------------------------------------
(* The parser *)

\* A set of numbers has a least one.
LEMMA LeastNumber ==
    ASSUME NEW T \in SUBSET Nat, T # {}
    PROVE  \E n \in T : \A m \in T : n <= m
<1> DEFINE R == OpToRel(<, Nat)
<1>1. IsWellFoundedOn(R, Nat)
  BY NatLessThanWellFounded
<1>2. \A m, n \in Nat : <<m, n>> \in R <=> m < n
  BY DEF OpToRel
<1> HIDE DEF R
<1>3. PICK n \in T : \A m \in T : ~ (<<m, n>> \in R)
  BY <1>1, WFMin
<1>4. \A m \in T : ~ (m < n)
  BY <1>2, <1>3
<1> QED
  BY <1>4

\* What holds of a number, and of the next one when it holds of one, holds of all
\* from there up to a last one.
LEMMA StepByStep ==
    ASSUME NEW first \in Nat, NEW last \in Nat, NEW T, first \in T,
           \A n \in first..(last - 1) : n \in T => n + 1 \in T
    PROVE  \A n \in first..last : n \in T
<1> DEFINE L == {n \in first..last : n \notin T}
<1> SUFFICES ASSUME L # {} PROVE FALSE
  OBVIOUS
<1>1. PICK n \in L : \A m \in L : n <= m
  <2>1. L \in SUBSET Nat
    OBVIOUS
  <2> HIDE DEF L
  <2> QED
    BY <2>1, LeastNumber
<1>2. n \in first..last /\ n \notin T /\ n # first
  BY <1>1
<1>3. n - 1 \in first..(last - 1) /\ (n - 1) + 1 = n /\ ~ n <= n - 1
  BY <1>2
<1>4. n - 1 \in T
  BY <1>1, <1>3
<1> QED
  BY <1>2, <1>3, <1>4

\* f is the state of the parser after each of the first n bytes.
Parses(f, text, n) ==
    f = [k \in 0..n |-> IF k = 0 THEN Start ELSE ParserStep[f[k - 1]][text[k]]]

\* There is such a function: a text is parsed byte by byte.
LEMMA ParseExists ==
    ASSUME NEW text, NEW n \in Nat
    PROVE  \E f : Parses(f, text, n)
<1> DEFINE T == {m \in Nat : \E f : Parses(f, text, m)}
<1>1. 0 \in T
  <2>1. Parses([k \in 0..0 |-> Start], text, 0)
    BY DEF Parses
  <2> QED
    BY <2>1
<1>2. ASSUME NEW m \in Nat, m \in T
      PROVE  m + 1 \in T
  <2>1. PICK f : Parses(f, text, m)
    BY <1>2
  <2> DEFINE g == [k \in 0..(m + 1) |->
                     IF k = m + 1 THEN ParserStep[f[m]][text[m + 1]] ELSE f[k]]
  <2>2. \A k \in 0..m : g[k] = IF k = 0 THEN Start ELSE ParserStep[g[k - 1]][text[k]]
    <3>1. \A k \in 0..m : f[k] = IF k = 0 THEN Start ELSE ParserStep[f[k - 1]][text[k]]
      BY <2>1 DEF Parses
    <3>2. \A k \in 0..m : g[k] = f[k]
      OBVIOUS
    <3>3. \A k \in 0..m : k # 0 => k - 1 \in 0..m
      OBVIOUS
    <3> HIDE DEF g
    <3> QED
      BY <3>1, <3>2, <3>3
  <2>3. g[m + 1] = ParserStep[g[m]][text[m + 1]]
    OBVIOUS
  <2>4. \A k \in 0..(m + 1) : g[k] = IF k = 0 THEN Start ELSE ParserStep[g[k - 1]][text[k]]
    BY <2>2, <2>3
  <2>5. Parses(g, text, m + 1)
    BY <2>4 DEF Parses
  <2> QED
    BY <2>5
<1> HIDE DEF T
<1>3. \A m \in 0..n : m \in T
  BY <1>1, <1>2, StepByStep
<1>4. n \in T
  BY <1>3
<1> QED
  BY <1>4 DEF T

\* What Parse returns: the start, and a step for each byte.
LEMMA ParseSteps ==
    ASSUME NEW text, Len(text) \in Nat
    PROVE  /\ Parse(text)[0] = Start
           /\ \A k \in 1..Len(text) :
                Parse(text)[k] = ParserStep[Parse(text)[k - 1]][text[k]]
<1>1. Parses(Parse(text), text, Len(text))
  <2>1. Parse(text) = CHOOSE f : Parses(f, text, Len(text))
    BY DEF Parse, Parses
  <2> QED
    BY <2>1, ParseExists
<1> DEFINE p == Parse(text)
<1> HIDE DEF p
<1>2. p = [k \in 0..Len(text) |-> IF k = 0 THEN Start ELSE ParserStep[p[k - 1]][text[k]]]
  BY <1>1 DEF Parses, p
<1>3. \A k \in 0..Len(text) : p[k] = IF k = 0 THEN Start ELSE ParserStep[p[k - 1]][text[k]]
  BY <1>2
<1> QED
  BY <1>3 DEF p

\* The step of the parser as a function is its move.
LEMMA StepIs ==
    ASSUME NEW s \in ParserState, NEW b \in Byte
    PROVE  ParserStep[s][b] = ParserMove(s, b)
BY DEF ParserStep

\* What is decided stays decided, and more than blanks after the value is malformed.
LEMMA DoneStep ==
    ASSUME NEW s \in ParserState, NEW b \in Byte, Decided(s)
    PROVE  /\ Decided(ParserStep[s][b])
           /\ b \notin Blanks => ParserStep[s][b] = Bad
<1>1. CASE s.mode = "bad"
  <2>1. ParserMove(s, b) = Bad
    BY <1>1 DEF ParserMove
  <2> QED
    BY <2>1, StepIs DEF Decided, Bad
<1>2. CASE s.mode = "done"
  <2>1. b \in Blanks => ParserMove(s, b) = s
    BY <1>2 DEF ParserMove
  <2>2. b \notin Blanks => ParserMove(s, b) = Bad
    BY <1>2 DEF ParserMove
  <2> QED
    BY <2>1, <2>2, StepIs DEF Decided, Bad
<1> QED
  BY <1>1, <1>2 DEF Decided

\* A move leads from a state of the parser to a state of the parser.
LEMMA MoveType ==
    ASSUME NEW s \in ParserState, NEW b \in Byte
    PROVE  ParserMove(s, b) \in ParserState
<1>1. s.open \in Seq(Inside) /\ s = [mode |-> s.mode, open |-> s.open]
  BY DEF ParserState
<1>2. \A o \in Seq(Inside), m \in Modes : [mode |-> m, open |-> o] \in ParserState
  BY DEF ParserState
<1>3. \A o \in Seq(Inside) : o # <<>> => Tail(o) \in Seq(Inside)
  BY HeadTailProperties
<1>4. \A o \in Seq(Inside), e \in Inside : <<e>> \o o \in Seq(Inside)
  <2>1. \A e \in Inside : <<e>> \in Seq(Inside)
    OBVIOUS
  <2> QED
    BY <2>1, ConcatProperties
<1>5. \A o \in Seq(Inside) : Ended(o) \in ParserState
  BY <1>2, <1>3, EmptySeq DEF Ended, Modes
<1>6. Bad \in ParserState
  BY <1>2, EmptySeq DEF Bad, Modes
<1>7. \A m \in Modes : [s EXCEPT !.mode = m] \in ParserState
  <2> SUFFICES ASSUME NEW m \in Modes PROVE [s EXCEPT !.mode = m] \in ParserState
    OBVIOUS
  <2>1. [s EXCEPT !.mode = m] = [mode |-> m, open |-> s.open]
    BY DEF ParserState
  <2> QED
    BY <2>1, <1>1, <1>2
<1> QED
  BY <1>1, <1>2, <1>3, <1>4, <1>5, <1>6, <1>7 DEF ParserMove, Modes, Inside

\* The parser is in one of its states after every byte.
LEMMA ParseType ==
    ASSUME NEW text \in Seq(Byte)
    PROVE  \A k \in 0..Len(text) : Parse(text)[k] \in ParserState
<1> DEFINE T == {k \in 0..Len(text) : Parse(text)[k] \in ParserState}
<1>0. Len(text) \in Nat
  BY LenProperties
<1>1. 0 \in T
  <2>1. Start \in ParserState
    BY EmptySeq DEF Start, ParserState, Modes
  <2> QED
    BY <2>1, <1>0, ParseSteps
<1>2. ASSUME NEW k \in 0..(Len(text) - 1), k \in T
      PROVE  k + 1 \in T
  <2>1. k + 1 \in 1..Len(text) /\ (k + 1) - 1 = k
    BY <1>0
  <2>2. Parse(text)[k + 1] = ParserStep[Parse(text)[k]][text[k + 1]]
    BY <2>1, <1>0, ParseSteps
  <2>3. text[k + 1] \in Byte /\ Parse(text)[k] \in ParserState
    BY <2>1, <1>2, ElementOfSeq
  <2>4. Parse(text)[k + 1] \in ParserState
    BY <2>2, <2>3, StepIs, MoveType
  <2> QED
    BY <2>1, <2>4
<1> HIDE DEF T
<1>3. \A k \in 0..Len(text) : k \in T
  BY <1>0, <1>1, <1>2, StepByStep
<1> QED
  BY <1>3 DEF T

\* The parser reads from left to right: what follows a part changes nothing.
LEMMA ParseOfPart ==
    ASSUME NEW text, NEW part, Len(text) \in Nat, Len(part) \in 0..Len(text),
           \A k \in 1..Len(part) : part[k] = text[k]
    PROVE  \A k \in 0..Len(part) : Parse(part)[k] = Parse(text)[k]
<1> DEFINE T == {k \in 0..Len(part) : Parse(part)[k] = Parse(text)[k]}
<1>1. 0 \in T
  BY ParseSteps
<1>2. ASSUME NEW k \in 0..(Len(part) - 1), k \in T
      PROVE  k + 1 \in T
  <2>1. k + 1 \in 1..Len(part) /\ k + 1 \in 1..Len(text) /\ (k + 1) - 1 = k
    OBVIOUS
  <2>2. Parse(part)[k + 1] = ParserStep[Parse(part)[k]][part[k + 1]]
    BY <2>1, ParseSteps
  <2>3. Parse(text)[k + 1] = ParserStep[Parse(text)[k]][text[k + 1]]
    BY <2>1, ParseSteps
  <2>4. Parse(part)[k] = Parse(text)[k] /\ part[k + 1] = text[k + 1]
    BY <2>1, <1>2
  <2> QED
    BY <2>1, <2>2, <2>3, <2>4
<1> HIDE DEF T
<1>3. \A k \in 0..Len(part) : k \in T
  <2>1. Len(part) \in Nat
    OBVIOUS
  <2> QED
    BY <2>1, <1>1, <1>2, StepByStep
<1> QED
  BY <1>3 DEF T

\* What is decided of a part of a text is decided of all of it.
LEMMA DecidedStays ==
    ASSUME NEW text \in Seq(Byte), NEW first \in 0..Len(text), Decided(Parse(text)[first])
    PROVE  \A k \in first..Len(text) : Decided(Parse(text)[k])
<1> DEFINE T == {k \in first..Len(text) : Decided(Parse(text)[k])}
<1>0. Len(text) \in Nat
  BY LenProperties
<1>1. first \in T
  BY <1>0
<1>2. ASSUME NEW k \in first..(Len(text) - 1), k \in T
      PROVE  k + 1 \in T
  <2>1. k + 1 \in 1..Len(text) /\ (k + 1) - 1 = k /\ k \in 0..Len(text) /\ k + 1 \in first..Len(text)
    BY <1>0
  <2>2. Parse(text)[k + 1] = ParserStep[Parse(text)[k]][text[k + 1]]
    BY <2>1, <1>0, ParseSteps
  <2>3. text[k + 1] \in Byte /\ Parse(text)[k] \in ParserState
    BY <2>1, ElementOfSeq, ParseType
  <2> QED
    BY <2>1, <2>2, <2>3, <1>2, DoneStep
<1> HIDE DEF T
<1>3. \A k \in first..Len(text) : k \in T
  <2>1. first \in Nat
    BY <1>0
  <2> QED
    BY <2>1, <1>0, <1>1, <1>2, StepByStep
<1> QED
  BY <1>3 DEF T

\* No sound line looks complete before it is: were its parser done, or stopped by
\* an error, before the last byte, that byte would leave it stopped by an error.
LEMMA CompleteIsWhole ==
    ASSUME NEW line \in Text, Sound(line), NEW n \in 0..Len(line),
           LooksComplete(SubSeq(line, 1, n))
    PROVE  n = Len(line)
<1> DEFINE part == SubSeq(line, 1, n)
<1>1. line \in Seq(Byte) /\ Len(line) \in Nat
  BY LineType
<1>2. n \in Nat /\ n <= Len(line) /\ \A i \in 1..n : line[i] \in Byte
  BY <1>1, ElementOfSeq
<1>3. /\ part \in Seq(Byte)
      /\ Len(part) = IF 1 <= n THEN n - 1 + 1 ELSE 0
      /\ \A i \in 1..(n - 1 + 1) : part[i] = line[1 + i - 1]
  BY <1>2, SubSeqProperties
<1>4. Len(part) = n /\ \A i \in 1..n : part[i] = line[i]
  BY <1>2, <1>3
<1> HIDE DEF part
<1>5. PICK first \in Ink(part), last \in Ink(part) :
         /\ Ink(part) \subseteq first..last
         /\ <<part[first], part[last]>> \in Pairs
         /\ Decided(Parse(part)[last])
  BY DEF LooksComplete, part
<1>6. /\ first \in 1..n /\ last \in 1..n
      /\ \A i \in 1..n : i \in Ink(part) <=> i \in Ink(line)
  BY <1>1, <1>2, <1>4 DEF Ink
<1>7. line[first] \in {"{", "["}
  <2>1. part[first] \in {"{", "["}
    BY <1>5 DEF Pairs
  <2> QED
    BY <2>1, <1>4, <1>6
<1>8. first \in Ink(line) /\ Ink(line) \subseteq first..Len(line)
  <2>1. first \in Ink(line)
    BY <1>5, <1>6
  <2>2. ASSUME NEW i \in Ink(line) PROVE i \in first..Len(line)
    <3>1. i \in 1..Len(line)
      BY DEF Ink
    <3>2. i < first => i \in 1..n
      BY <3>1, <1>1, <1>2, <1>6
    <3>3. i < first => i \in first..last
      BY <3>2, <1>5, <1>6
    <3> QED
      BY <3>1, <3>3, <1>1, <1>2, <1>6
  <2> QED
    BY <2>1, <2>2
<1>9. line[Len(line)] # "blank" /\ Parse(line)[Len(line)].mode = "done"
  BY <1>7, <1>8 DEF Sound
<1>10. Decided(Parse(line)[last])
  <2>1. \A k \in 0..Len(part) : Parse(part)[k] = Parse(line)[k]
    <3>1. Len(part) \in 0..Len(line)
      BY <1>1, <1>2, <1>4
    <3>2. \A k \in 1..Len(part) : part[k] = line[k]
      BY <1>4
    <3> QED
      BY <3>1, <3>2, <1>1, ParseOfPart
  <2>2. last \in 0..Len(part)
    BY <1>2, <1>4, <1>6
  <2> QED
    BY <2>1, <2>2, <1>5
<1>11. ~ last < Len(line)
  <2> SUFFICES ASSUME last < Len(line) PROVE FALSE
    OBVIOUS
  <2>1. /\ last \in 0..Len(line) /\ Len(line) - 1 \in last..Len(line)
        /\ Len(line) - 1 \in 0..Len(line) /\ Len(line) \in 1..Len(line)
    BY <1>1, <1>2, <1>6
  <2>2. Decided(Parse(line)[Len(line) - 1])
    BY <2>1, <1>1, <1>10, DecidedStays
  <2>3. Parse(line)[Len(line)] = ParserStep[Parse(line)[Len(line) - 1]][line[Len(line)]]
    BY <2>1, <1>1, ParseSteps
  <2>4. Parse(line)[Len(line) - 1] \in ParserState
    BY <2>1, <1>1, ParseType
  <2>5. line[Len(line)] \in Byte /\ line[Len(line)] \notin Breaks
    BY <2>1, LineType
  <2>6. line[Len(line)] \in Byte /\ line[Len(line)] \notin Blanks
    BY <2>5, <1>9 DEF Blanks
  <2>7. Parse(line)[Len(line)] = Bad
    BY <2>2, <2>3, <2>4, <2>6, DoneStep
  <2> QED
    BY <2>7, <1>9 DEF Bad
<1> QED
  BY <1>1, <1>2, <1>6, <1>11

-----------------------------------------------------------------------------
(* Raw lines of a file of which only a part may be there *)

\* The bytes that are there are the first ones of whole.
PartOf(bytes, whole) ==
    /\ bytes \in Seq(Byte) /\ whole \in Seq(Byte)
    /\ Len(bytes) <= Len(whole)
    /\ \A i \in 1..Len(bytes) : whole[i] = bytes[i]

\* x, whose only newline is its last byte, begins at offset at of whole.
Unbroken(whole, at, x) ==
    /\ at \in Nat /\ x \in Seq(Byte)
    /\ HasAt(whole, at, x)
    /\ x[Len(x)] = "nl" /\ \A k \in 1..(Len(x) - 1) : x[k] # "nl"

\* n bytes of x, which begins at offset at, are below size.
Below(bytes, size, at, x, n) ==
    /\ size \in (at + 1)..Len(bytes) /\ n \in 1..Len(x)
    /\ \/ n = Len(x) /\ at + n <= size
       \/ n < Len(x) /\ at + n = size

\* The bytes between two offsets.
Between(bytes, from, to) == SubSeq(bytes, from + 1, to)

\* Reading at the beginning of x gives x as far as it is below the size.
LEMMA RawLineOf ==
    ASSUME NEW whole, NEW bytes, PartOf(bytes, whole),
           NEW at, NEW x, Unbroken(whole, at, x),
           NEW size, NEW n, Below(bytes, size, at, x, n)
    PROVE  /\ LineEnd(bytes, at, size) = at + n
           /\ Between(bytes, at, at + n) = Between(x, 0, n)
           /\ bytes[at + n] = "nl" <=> n = Len(x)
<1>2. /\ bytes \in Seq(Byte) /\ whole \in Seq(Byte) /\ at \in Nat /\ x \in Seq(Byte)
      /\ HasAt(whole, at, x) /\ x[Len(x)] = "nl"
      /\ \A k \in 1..(Len(x) - 1) : x[k] # "nl"
      /\ size \in (at + 1)..Len(bytes) /\ n \in 1..Len(x)
  BY DEF PartOf, Unbroken, Below
<1>1. Len(bytes) \in Nat /\ Len(whole) \in Nat /\ Len(x) \in Nat
  BY <1>2, LenProperties
<1>3. \A i \in 1..Len(bytes) : whole[i] = bytes[i]
  BY DEF PartOf
<1>4. \A k \in 1..Len(x) : whole[at + k] = x[k]
  BY <1>2, HasAtBytes
<1>5. /\ n \in Nat \ {0} /\ n <= Len(x) /\ at + n <= size /\ (n < Len(x) => at + n = size)
      /\ at + n \in (at + 1)..size /\ size \in Nat /\ size <= Len(bytes)
  BY <1>1, <1>2 DEF Below
<1>6. \A k \in 1..n : bytes[at + k] = x[k]
  <2> SUFFICES ASSUME NEW k \in 1..n
               PROVE  bytes[at + k] = x[k]
    OBVIOUS
  <2>1. at + k \in 1..Len(bytes) /\ k \in 1..Len(x)
    BY <1>1, <1>2, <1>5
  <2> QED
    BY <2>1, <1>3, <1>4
<1>7. bytes[at + n] = "nl" <=> n = Len(x)
  <2>1. bytes[at + n] = x[n] /\ n \in Nat
    BY <1>5, <1>6
  <2>2. n # Len(x) => n \in 1..(Len(x) - 1)
    BY <1>1, <1>5
  <2> QED
    BY <2>1, <2>2, <1>2
<1>8. LineEnd(bytes, at, size) = at + n
  <2>1. \A i \in (at + 1)..(at + n - 1) : bytes[i] # "nl"
    <3> SUFFICES ASSUME NEW i \in (at + 1)..(at + n - 1)
                 PROVE  bytes[i] # "nl"
      OBVIOUS
    <3>1. i - at \in 1..n /\ i - at \in 1..(Len(x) - 1) /\ at + (i - at) = i
      BY <1>1, <1>2, <1>5
    <3> QED
      BY <3>1, <1>2, <1>6
  <2>2. at + n = size \/ bytes[at + n] = "nl"
    BY <1>1, <1>5, <1>7
  <2> QED
    BY <2>1, <2>2, <1>2, <1>5, LineEndIs
<1>9. SubSeq(bytes, at + 1, at + n) = SubSeq(x, 1, n)
  <2>1. /\ \A i \in (at + 1)..(at + n) : bytes[i] \in Byte
        /\ \A i \in 1..n : x[i] \in Byte
    BY <1>1, <1>2, <1>5, ElementOfSeq
  <2>2. /\ SubSeq(bytes, at + 1, at + n) \in Seq(Byte)
        /\ Len(SubSeq(bytes, at + 1, at + n)) =
             IF at + 1 <= at + n THEN (at + n) - (at + 1) + 1 ELSE 0
        /\ \A i \in 1..((at + n) - (at + 1) + 1) :
             SubSeq(bytes, at + 1, at + n)[i] = bytes[(at + 1) + i - 1]
    BY <2>1, <1>2, <1>5, SubSeqProperties
  <2>3. /\ SubSeq(x, 1, n) \in Seq(Byte)
        /\ Len(SubSeq(x, 1, n)) = IF 1 <= n THEN n - 1 + 1 ELSE 0
        /\ \A i \in 1..(n - 1 + 1) : SubSeq(x, 1, n)[i] = x[1 + i - 1]
    BY <2>1, <1>2, <1>5, SubSeqProperties
  <2>4. Len(SubSeq(bytes, at + 1, at + n)) = n /\ Len(SubSeq(x, 1, n)) = n
    BY <2>2, <2>3, <1>2, <1>5
  <2>5. \A i \in 1..n : SubSeq(bytes, at + 1, at + n)[i] = SubSeq(x, 1, n)[i]
    BY <2>2, <2>3, <1>2, <1>5, <1>6
  <2> QED
    BY <2>2, <2>3, <2>4, <2>5, SeqEqual
<1>10. Between(bytes, at, at + n) = Between(x, 0, n)
  BY <1>9, 0 + 1 = 1 DEF Between
<1> QED
  BY <1>7, <1>8, <1>10

-----------------------------------------------------------------------------
(* The records of a file of whole lines *)

\* The nonempty lines and where they begin, without reading.
Written(bytes) ==
    {r \in [at : Starts(bytes), text : Lines \ {<<>>}] :
        \E end \in Terminators : HasAt(bytes, r.at, r.text \o end)}

\* The text of a line is the line.
LEMMA TextOfLine ==
    ASSUME NEW bytes \in Seq(Byte), NEW at \in Nat,
           NEW line \in Text, NEW end \in Terminators, HasAt(bytes, at, line \o end)
    PROVE  Trimmed(SubSeq(bytes, at + 1, LineEnd(bytes, at, Len(bytes)))) = line
<1> DEFINE full == line \o end
<1>1. Len(line) \in Nat /\ Len(end) \in {1, 2}
  BY LineType, EndType
<1>2. /\ full \in Seq(Byte) /\ Len(full) = Len(line) + Len(end)
      /\ full[Len(full)] = "nl"
      /\ \A k \in 1..(Len(full) - 1) : full[k] # "nl"
  BY LineAndEnd
<1>3. HasAt(bytes, at, full) /\ at + Len(full) <= Len(bytes)
  BY DEF HasAt
<1>4. Trimmed(SubSeq(full, 1, Len(full))) = line
  <2>1. Len(full) \in 0..Len(full) /\ ~ Len(full) < Len(line)
    BY <1>1, <1>2
  <2> QED
    BY <2>1, TrimPart
<1> HIDE DEF full
<1>5. Len(full) \in Nat \ {0} /\ Len(bytes) \in Nat
  <2>1. Len(full) = Len(line) + Len(end)
    BY <1>2
  <2>2. Len(bytes) \in Nat
    BY LenProperties
  <2> QED
    BY <1>1, <2>1, <2>2
<1>6. PartOf(bytes, bytes)
  BY <1>5 DEF PartOf
<1>7. Unbroken(bytes, at, full)
  BY <1>2, <1>3 DEF Unbroken
<1>8. Below(bytes, Len(bytes), at, full, Len(full))
  BY <1>3, <1>5 DEF Below
<1>9. /\ LineEnd(bytes, at, Len(bytes)) = at + Len(full)
      /\ Between(bytes, at, at + Len(full)) = Between(full, 0, Len(full))
  BY <1>6, <1>7, <1>8, RawLineOf
<1>10. Trimmed(Between(full, 0, Len(full))) = line
  BY <1>4, 0 + 1 = 1 DEF Between
<1>11. Trimmed(Between(bytes, at, at + Len(full))) = line
  BY <1>9, <1>10
<1> QED
  BY <1>9, <1>11 DEF Between

\* Reading such a file whole gives what was written.
LEMMA RecordsAreWritten ==
    ASSUME NEW bytes \in Seq(Byte), WholeLines(bytes)
    PROVE  RecordsOf(bytes) = Written(bytes)
<1> DEFINE text(i) == Trimmed(SubSeq(bytes, i + 1, LineEnd(bytes, i, Len(bytes))))
           all == {[at |-> i, text |-> text(i)] : i \in Starts(bytes)}
<1>1. RecordsOf(bytes) = all \ [at : 0..Len(bytes), text : {<<>>}]
  BY DEF RecordsOf, Starts
<1>2. Starts(bytes) \subseteq Nat /\ Starts(bytes) \subseteq 0..Len(bytes)
  BY LenProperties DEF Starts
<1>3. \A i \in Starts(bytes), line \in Lines, end \in Terminators :
         HasAt(bytes, i, line \o end) => text(i) = line
  BY <1>2, TextOfLine, LinesAreText
<1> HIDE DEF text
<1>4. ASSUME NEW r \in all \ [at : 0..Len(bytes), text : {<<>>}]
      PROVE  r \in Written(bytes)
  <2>1. PICK i \in Starts(bytes) : r = [at |-> i, text |-> text(i)]
    BY <1>4
  <2>2. PICK line \in Lines, end \in Terminators : HasAt(bytes, i, line \o end)
    BY <2>1 DEF WholeLines
  <2>3. r = [at |-> i, text |-> line]
    BY <1>3, <2>1, <2>2
  <2>4. line # <<>>
    BY <1>2, <1>4, <2>1, <2>3
  <2> QED
    BY <2>2, <2>3, <2>4 DEF Written
<1>5. ASSUME NEW r \in Written(bytes)
      PROVE  r \in all \ [at : 0..Len(bytes), text : {<<>>}]
  <2>1. /\ r \in [at : Starts(bytes), text : Lines \ {<<>>}]
        /\ \E end \in Terminators : HasAt(bytes, r.at, r.text \o end)
    BY <1>5 DEF Written
  <2>2. r.at \in Starts(bytes) /\ r.text \in Lines /\ r.text # <<>>
        /\ r = [at |-> r.at, text |-> r.text]
    BY <2>1
  <2>3. text(r.at) = r.text
    BY <1>3, <2>1, <2>2
  <2>4. r \in all
    BY <2>2, <2>3
  <2>5. r \notin [at : 0..Len(bytes), text : {<<>>}]
    BY <2>2
  <2> QED
    BY <2>4, <2>5
<1> QED
  BY <1>1, <1>4, <1>5

\* What has been written stays, and what is added begins after it.
LEMMA HasAtKept ==
    ASSUME NEW bytes \in Seq(Byte), NEW more \in Seq(Byte),
           NEW at \in Nat, NEW part \in Seq(Byte), HasAt(bytes, at, part)
    PROVE  HasAt(bytes \o more, at, part)
<1>1. Len(bytes) \in Nat /\ Len(more) \in Nat /\ Len(part) \in Nat
  BY LenProperties
<1>2. /\ bytes \o more \in Seq(Byte) /\ Len(bytes \o more) = Len(bytes) + Len(more)
      /\ \A i \in 1..(Len(bytes) + Len(more)) : (bytes \o more)[i] =
           IF i <= Len(bytes) THEN bytes[i] ELSE more[i - Len(bytes)]
  BY ConcatProperties
<1>3. /\ at + Len(part) <= Len(bytes)
      /\ \A k \in 1..Len(part) : bytes[at + k] = part[k]
  BY HasAtBytes
<1>4. at + Len(part) <= Len(bytes \o more)
  BY <1>1, <1>2, <1>3
<1>5. \A k \in 1..Len(part) : (bytes \o more)[at + k] = part[k]
  <2> SUFFICES ASSUME NEW k \in 1..Len(part)
               PROVE  (bytes \o more)[at + k] = part[k]
    OBVIOUS
  <2>1. at + k \in 1..(Len(bytes) + Len(more)) /\ at + k <= Len(bytes)
    BY <1>1, <1>3
  <2> QED
    BY <2>1, <1>2, <1>3
<1> QED
  BY <1>2, <1>4, <1>5, HasAtBytes

-----------------------------------------------------------------------------
(* One turn of the reader's loop *)

\* What is in the file is the first part of what will be.
LEMMA WholeType ==
    ASSUME TypeOK
    PROVE  /\ Whole \in Seq(Byte) /\ Len(Whole) \in Nat /\ Len(file) \in Nat
           /\ Len(Whole) = Len(file) + Len(todo)
           /\ PartOf(file, Whole)
<1>1. file \in Seq(Byte) /\ todo \in Seq(Byte)
  BY DEF TypeOK
<1>2. Len(file) \in Nat /\ Len(todo) \in Nat
  BY <1>1, LenProperties
<1>3. /\ Whole \in Seq(Byte) /\ Len(Whole) = Len(file) + Len(todo)
      /\ \A i \in 1..(Len(file) + Len(todo)) :
           Whole[i] = IF i <= Len(file) THEN file[i] ELSE todo[i - Len(file)]
  BY <1>1, ConcatProperties DEF Whole
<1>4. Len(file) <= Len(Whole) /\ \A i \in 1..Len(file) : Whole[i] = file[i]
  BY <1>2, <1>3
<1> QED
  BY <1>1, <1>2, <1>3, <1>4 DEF PartOf

\* There is something to read of whatever begins below the size.
LEMMA SomeBelow ==
    ASSUME NEW bytes, Len(bytes) \in Nat, NEW at \in Nat, NEW size \in (at + 1)..Len(bytes),
           NEW x, Len(x) \in Nat \ {0}
    PROVE  \E n : Below(bytes, size, at, x, n)
<1>1. CASE Len(x) <= size - at
  <2>1. Below(bytes, size, at, x, Len(x))
    BY <1>1 DEF Below
  <2> QED
    BY <2>1
<1>2. CASE size - at < Len(x)
  <2>1. Below(bytes, size, at, x, size - at)
    BY <1>2 DEF Below
  <2> QED
    BY <2>1
<1> QED
  BY <1>1, <1>2

\* A line and its terminator have one newline, and so has a terminator.
LEMMA LineUnbroken ==
    ASSUME NEW whole, NEW at \in Nat, NEW line \in Text, NEW end \in Terminators,
           HasAt(whole, at, line \o end)
    PROVE  Unbroken(whole, at, line \o end) /\ Len(line \o end) \in Nat \ {0}
<1>1. Len(line) \in Nat /\ Len(end) \in {1, 2}
  BY LineType, EndType
<1>2. Unbroken(whole, at, line \o end)
  BY LineAndEnd DEF Unbroken
<1>3. Len(line \o end) = Len(line) + Len(end)
  BY LineAndEnd
<1> QED
  BY <1>1, <1>2, <1>3

\* A terminator has its line break at its end only.
LEMMA EndUnbroken ==
    ASSUME NEW whole, NEW at \in Nat, NEW end \in Terminators, HasAt(whole, at, end)
    PROVE  Unbroken(whole, at, end) /\ Len(end) \in Nat \ {0}
<1>1. /\ end \in Seq(Byte) /\ Len(end) \in {1, 2}
      /\ end[Len(end)] = "nl"
      /\ Len(end) = 2 => end[1] = "cr"
  BY EndType
<1>2. \A k \in 1..(Len(end) - 1) : end[k] # "nl"
  BY <1>1
<1> QED
  BY <1>1, <1>2 DEF Unbroken

\* A backup may stop where a line begins.
LEMMA StartIsBoundary ==
    ASSUME NEW bytes \in Seq(Byte), WholeLines(bytes), NEW i \in Starts(bytes)
    PROVE  Boundary(bytes, i)
<1>1. PICK line \in Lines, end \in Terminators : HasAt(bytes, i, line \o end)
  BY DEF WholeLines
<1>2. line \in Seq(Byte) /\ Len(line) \in Nat /\ end \in Seq(Byte)
  BY LineType, LinesAreText, EndType
<1>3. i \in Nat
  BY LenProperties DEF Starts
<1>4. CASE line = <<>>
  <2>1. line \o end = end
    BY <1>2, <1>4, ConcatEmptySeq
  <2> QED
    BY <2>1, <1>1 DEF Boundary
<1>5. CASE line # <<>>
  <2>1. Len(line) # 0
    BY <1>2, <1>5, EmptySeq
  <2>2. i < i + Len(line) /\ i <= i
    BY <2>1, <1>2, <1>3
  <2> QED
    BY <2>2, <1>1 DEF Boundary
<1> QED
  BY <1>4, <1>5

\* A backup may stop after a newline.
LEMMA NewlineIsBoundary ==
    ASSUME NEW bytes \in Seq(Byte), WholeLines(bytes), NEW at \in 1..Len(bytes), bytes[at] = "nl"
    PROVE  Boundary(bytes, at)
<1>1. Len(bytes) \in Nat
  BY LenProperties
<1>2. CASE at = Len(bytes)
  BY <1>2 DEF Boundary
<1>3. CASE at # Len(bytes)
  <2>1. at \in Starts(bytes)
    BY <1>1, <1>3 DEF Starts
  <2> QED
    BY <2>1, StartIsBoundary
<1> QED
  BY <1>2, <1>3

\* What follows a line in its terminator is a boundary.
LEMMA EndIsBoundary ==
    ASSUME Whole \in Seq(Byte), WholeLines(Whole), NEW at \in Nat,
           NEW line \in Text, NEW end \in Terminators, HasAt(Whole, at, line \o end),
           NEW n \in 1..Len(line \o end), ~ n < Len(line)
    PROVE  Boundary(Whole, at + n)
<1>1. Len(line) \in Nat /\ Len(end) \in {1, 2} /\ end \in Seq(Byte)
  BY LineType, EndType
<1>2. /\ line \o end \in Seq(Byte)
      /\ Len(line \o end) = Len(line) + Len(end)
      /\ (line \o end)[Len(line \o end)] = "nl"
      /\ \A k \in (Len(line) + 1)..(Len(line) + Len(end)) :
           (line \o end)[k] = end[k - Len(line)]
  BY LineAndEnd
<1>3. /\ at + Len(line \o end) <= Len(Whole)
      /\ \A k \in 1..Len(line \o end) : Whole[at + k] = (line \o end)[k]
  BY <1>2, HasAtBytes
<1>4. n \in Nat /\ n <= Len(line) + Len(end) /\ Len(line) <= n
  BY <1>1, <1>2
<1>5. CASE n = Len(line \o end)
  <2>1. Whole[at + n] = "nl" /\ at + n \in 1..Len(Whole)
    BY <1>1, <1>2, <1>3, <1>5
  <2> QED
    BY <2>1, NewlineIsBoundary
<1>6. CASE n = Len(line)
  <2>1. \A k \in 1..Len(end) : Whole[(at + n) + k] = end[k]
    <3> SUFFICES ASSUME NEW k \in 1..Len(end)
                 PROVE  Whole[(at + n) + k] = end[k]
      OBVIOUS
    <3>1. /\ (at + n) + k = at + (n + k) /\ (n + k) - Len(line) = k
          /\ n + k \in 1..Len(line \o end)
          /\ n + k \in (Len(line) + 1)..(Len(line) + Len(end))
      BY <1>1, <1>2, <1>6
    <3>2. Whole[at + (n + k)] = (line \o end)[n + k]
      BY <3>1, <1>3
    <3>3. (line \o end)[n + k] = end[(n + k) - Len(line)]
      BY <3>1, <1>2
    <3> QED
      BY <3>1, <3>2, <3>3
  <2>2. at + n \in Nat /\ (at + n) + Len(end) <= Len(Whole)
    BY <1>1, <1>2, <1>3, <1>6
  <2>3. HasAt(Whole, at + n, end)
    BY <2>1, <2>2, <1>1, HasAtBytes
  <2> QED
    BY <2>3 DEF Boundary
<1>7. CASE n # Len(line \o end) /\ n # Len(line)
  <2>1. n # Len(line) + Len(end) /\ n # Len(line)
    BY <1>2, <1>7
  <2>2. n = Len(line) + 1 /\ Len(end) = 2
    <3>1. \A l, m \in Nat : \A e \in {1, 2} :
             l <= m /\ m <= l + e /\ m # l /\ m # l + e => m = l + 1 /\ e = 2
      OBVIOUS
    <3> QED
      BY ONLY <3>1, <2>1, <1>1, <1>4
  <2>3. Len(line \o end) = n + 1
    BY <2>2, <1>1, <1>2
  <2>4. /\ at + n \in Nat /\ (at + n) + 1 = at + (n + 1)
        /\ (n + 1) \in 1..(n + 1)
    BY <1>4
  <2>5. (at + n) + 1 <= Len(Whole) /\ Whole[(at + n) + 1] = "nl"
    BY <2>3, <2>4, <1>2, <1>3
  <2>6. <<"nl">> \in Seq(Byte) /\ Len(<<"nl">>) = 1 /\ \A k \in 1..1 : <<"nl">>[k] = "nl" /\ k = 1
    <3>1. <<"nl">> \in Terminators
      BY DEF Terminators
    <3> QED
      BY <3>1, EndType
  <2>7. HasAt(Whole, at + n, <<"nl">>)
    BY <2>4, <2>5, <2>6, HasAtBytes
  <2> QED
    BY <2>7 DEF Boundary, Terminators
<1> QED
  BY <1>5, <1>6, <1>7

-----------------------------------------------------------------------------
(* What a turn of the loop does to what has been read *)

\* Going on over line breaks only.
LEMMA NothingRead ==
    ASSUME NEW records, NEW bytes, NEW upto \in Nat, ReadOnce(records, bytes, upto),
           \A r \in records : r.at \in Nat /\ Len(r.text) \in Nat,
           NEW to \in Nat, upto <= to,
           \A i \in (upto + 1)..to : bytes[i] \in Breaks
    PROVE  ReadOnce(records, bytes, to)
<1>1. \A r \in records : Before(r, to)
  BY DEF ReadOnce, Before
<1>2. \A i \in 1..to : i \in 1..upto \/ i \in (upto + 1)..to
  OBVIOUS
<1> QED
  BY <1>1, <1>2 DEF ReadOnce

\* Going on over one record, and line breaks after it.
LEMMA RecordAdded ==
    ASSUME NEW records, NEW bytes, NEW upto \in Nat, ReadOnce(records, bytes, upto),
           \A r \in records : r.at \in Nat /\ Len(r.text) \in Nat,
           NEW new, new.at = upto, Len(new.text) \in Nat,
           \E line \in RecordsOf(bytes) :
              PieceOf(new, line) /\ (Sound(line.text) => new = line),
           NEW to \in Nat, upto + Len(new.text) <= to,
           \A i \in (upto + 1)..to : bytes[i] \in Breaks \/ i <= upto + Len(new.text)
    PROVE  ReadOnce(records \cup {new}, bytes, to)
<1>1. \A r \in records : Before(r, new.at) /\ Before(r, to)
  BY DEF ReadOnce, Before
<1>2. Before(new, to)
  BY DEF Before
<1>3. \A r, s \in records \cup {new} : r = s \/ Before(r, s.at) \/ Before(s, r.at)
  BY <1>1 DEF ReadOnce
<1>4. ASSUME NEW i \in 1..to
      PROVE  bytes[i] \in Breaks \/ \E r \in records \cup {new} : r.at < i /\ i <= r.at + Len(r.text)
  <2>1. CASE i \in 1..upto
    BY <2>1 DEF ReadOnce
  <2>2. CASE i \in (upto + 1)..to
    <3>1. new.at < i
      BY <2>2
    <3> QED
      BY <3>1, <2>2
  <2> QED
    BY <2>1, <2>2
<1> QED
  BY <1>1, <1>2, <1>3, <1>4 DEF ReadOnce

\* What a turn of the loop adds to what has been read.
RecordRead == IF Blank THEN {} ELSE {[at |-> pos, text |-> Trimmed(RawLine)]}

\* The rest of a line, with its terminator, follows the part of it before an offset.
LEMMA RestAt ==
    ASSUME NEW bytes \in Seq(Byte), NEW i \in Nat, NEW line \in Text, NEW end \in Terminators,
           HasAt(bytes, i, line \o end), NEW m \in Nat, m < Len(line),
           NEW rest, rest = SubSeq(line, m + 1, Len(line))
    PROVE  /\ rest \in Text /\ Len(rest) = Len(line) - m
           /\ \A k \in 1..Len(rest) : rest[k] = line[m + k]
           /\ HasAt(bytes, i + m, rest \o end)
<1>1. line \in Seq(Byte) /\ Len(line) \in Nat
  BY LineType
<1>2. end \in Seq(Byte) /\ Len(end) \in Nat
  BY EndType
<1>3. /\ rest \in Seq(Byte \ Breaks)
      /\ Len(rest) = IF m + 1 <= Len(line) THEN Len(line) - (m + 1) + 1 ELSE 0
      /\ \A k \in 1..(Len(line) - (m + 1) + 1) : rest[k] = line[(m + 1) + k - 1]
  <2>1. m + 1 \in Nat /\ \A k \in (m + 1)..Len(line) : line[k] \in Byte \ Breaks
    BY <1>1, LineType
  <2> QED
    BY <2>1, <1>1, SubSeqProperties
<1>4. Len(rest) = Len(line) - m /\ \A k \in 1..Len(rest) : rest[k] = line[m + k]
  BY <1>1, <1>3
<1>5. rest \in Text
  BY <1>3 DEF Text
<1>6. /\ line \o end \in Seq(Byte) /\ Len(line \o end) = Len(line) + Len(end)
      /\ \A k \in 1..Len(line) : (line \o end)[k] = line[k]
      /\ \A k \in (Len(line) + 1)..(Len(line) + Len(end)) :
                (line \o end)[k] = end[k - Len(line)]
  BY LineAndEnd
<1>7. /\ rest \o end \in Seq(Byte) /\ Len(rest \o end) = Len(rest) + Len(end)
      /\ \A k \in 1..Len(rest) : (rest \o end)[k] = rest[k]
      /\ \A k \in (Len(rest) + 1)..(Len(rest) + Len(end)) :
                (rest \o end)[k] = end[k - Len(rest)]
  BY <1>5, LineAndEnd
<1>8. /\ i + Len(line \o end) <= Len(bytes)
      /\ \A k \in 1..Len(line \o end) : bytes[i + k] = (line \o end)[k]
  BY <1>6, HasAtBytes
<1>9. \A k \in 1..Len(rest \o end) : bytes[(i + m) + k] = (rest \o end)[k]
  <2> SUFFICES ASSUME NEW k \in 1..Len(rest \o end)
               PROVE  bytes[(i + m) + k] = (rest \o end)[k]
    OBVIOUS
  <2>1. m + k \in 1..Len(line \o end) /\ i + (m + k) = (i + m) + k
    BY <1>1, <1>2, <1>4, <1>6, <1>7
  <2>2. bytes[(i + m) + k] = (line \o end)[m + k]
    BY <2>1, <1>8
  <2>3. CASE k <= Len(rest)
    <3>1. k \in 1..Len(rest) /\ m + k \in 1..Len(line)
      BY <2>3, <1>1, <1>2, <1>4, <1>7
    <3> QED
      BY <3>1, <2>2, <1>4, <1>6, <1>7
  <2>4. CASE k > Len(rest)
    <3>1. /\ k \in (Len(rest) + 1)..(Len(rest) + Len(end))
          /\ m + k \in (Len(line) + 1)..(Len(line) + Len(end))
          /\ (m + k) - Len(line) = k - Len(rest)
      <4>1. \A l, e, r, j \in Nat : r = l - m /\ j > r /\ j <= r + e =>
               /\ j \in (r + 1)..(r + e)
               /\ m + j \in (l + 1)..(l + e)
               /\ (m + j) - l = j - r
        OBVIOUS
      <4>2. k \in Nat /\ k <= Len(rest) + Len(end) /\ Len(rest) \in Nat
        BY <1>1, <1>2, <1>4, <1>7
      <4> QED
        BY ONLY <4>1, <4>2, <2>4, <1>1, <1>2, <1>4
    <3>2. (line \o end)[m + k] = end[(m + k) - Len(line)]
      BY <3>1, <1>6
    <3>3. (rest \o end)[k] = end[k - Len(rest)]
      BY <3>1, <1>7
    <3> QED
      BY <3>1, <3>2, <3>3, <2>2
  <2> QED
    BY <2>3, <2>4, <1>1, <1>4, <1>7
<1>10. (i + m) + Len(rest \o end) <= Len(bytes) /\ i + m \in Nat
  <2>1. i + (Len(line) + Len(end)) <= Len(bytes) /\ Len(bytes) \in Nat
    BY <1>6, <1>8, LenProperties
  <2>2. Len(rest \o end) = (Len(line) - m) + Len(end)
    BY <1>4, <1>7
  <2>3. \A l, e \in Nat : (i + m) + ((l - m) + e) = i + (l + e) /\ i + m \in Nat
    OBVIOUS
  <2>4. (i + m) + Len(rest \o end) = i + (Len(line) + Len(end)) /\ i + m \in Nat
    BY <2>2, <2>3, <1>1, <1>2
  <2> QED
    BY <2>1, <2>4
<1>11. HasAt(bytes, i + m, rest \o end)
  BY <1>7, <1>9, <1>10, HasAtBytes
<1> QED
  BY <1>4, <1>5, <1>11

\* Within a line, what is not deferred is a piece of it, and if the line is sound
\* all of it.
LEMMA ReadLine ==
    ASSUME TypeOK, WholeLines(Whole), HasLine, ~ Deferred, pos <= snapshot,
           NEW i \in Starts(Whole), NEW line \in Lines, NEW end \in Terminators,
           HasAt(Whole, i, line \o end), i <= pos, pos < i + Len(line),
           i = pos \/ ~ Sound(line),
           NEW r, r = [at |-> pos, text |-> Trimmed(RawLine)]
    PROVE  /\ ReadOffset \in (pos + 1)..snapshot /\ Boundary(Whole, ReadOffset)
           /\ r.text \in Seq(Byte) /\ r.text # <<>> /\ pos + Len(r.text) <= ReadOffset
           /\ \E w \in RecordsOf(Whole) : PieceOf(r, w) /\ (Sound(w.text) => r = w)
           /\ \A k \in (pos + 1)..ReadOffset :
                Whole[k] \in Breaks \/ k <= pos + Len(r.text)
<1> DEFINE m    == pos - i
           rest == SubSeq(line, m + 1, Len(line))
           full == rest \o end
<1>1. /\ Whole \in Seq(Byte) /\ Len(file) \in Nat /\ PartOf(file, Whole)
  BY WholeType
<1>2. pos \in Nat /\ snapshot \in (pos + 1)..Len(file) /\ snapshot \in Nat
  BY <1>1 DEF TypeOK, HasLine
<1>3. line \in Text /\ line \in Seq(Byte) /\ Len(line) \in Nat /\ Len(end) \in {1, 2}
  BY LinesAreText, LineType, EndType
<1>4. i \in Nat /\ m \in Nat /\ m < Len(line) /\ i + m = pos
  <2>1. i \in Nat
    BY <1>1, LenProperties DEF Starts
  <2> QED
    BY <2>1, <1>2, <1>3
<1> HIDE DEF m
<1>5. /\ rest \in Text /\ Len(rest) = Len(line) - m
      /\ \A k \in 1..Len(rest) : rest[k] = line[m + k]
      /\ HasAt(Whole, pos, full)
  <2>1. /\ rest \in Text /\ Len(rest) = Len(line) - m
        /\ \A k \in 1..Len(rest) : rest[k] = line[m + k]
        /\ HasAt(Whole, i + m, full)
    BY <1>1, <1>3, <1>4, RestAt
  <2> HIDE DEF rest, full
  <2> QED
    BY <2>1, <1>4
<1> HIDE DEF rest
<1>6. rest \in Seq(Byte) /\ Len(rest) \in Nat \ {0} /\ Len(full) = Len(rest) + Len(end)
  <2>1. Len(full) = Len(rest) + Len(end) /\ rest \in Seq(Byte)
    BY <1>5, LineType, LineAndEnd
  <2> HIDE DEF full
  <2> QED
    BY <2>1, <1>3, <1>4, <1>5
<1>7. Unbroken(Whole, pos, full) /\ Len(full) \in Nat \ {0}
  BY <1>2, <1>5, LineUnbroken
<1> HIDE DEF full
<1>8. PICK n : Below(file, snapshot, pos, full, n)
  BY <1>1, <1>2, <1>7, SomeBelow
<1>9. n \in 1..Len(full) /\ pos + n <= snapshot /\ n \in Nat
  BY <1>7, <1>8 DEF Below
<1>10. /\ LineEnd(file, pos, snapshot) = pos + n
       /\ Between(file, pos, pos + n) = Between(full, 0, n)
       /\ file[pos + n] = "nl" <=> n = Len(full)
  BY <1>1, <1>7, <1>8, RawLineOf
<1>11. ReadOffset = pos + n /\ RawLine = Between(full, 0, n) /\ (Terminated <=> n = Len(full))
  BY <1>10 DEF ReadOffset, RawLine, Terminated, Between
<1>12. r.text = IF n < Len(rest) THEN SubSeq(rest, 1, n) ELSE rest
  <2>1. RawLine = SubSeq(full, 1, n)
    BY <1>11, 0 + 1 = 1 DEF Between
  <2>2. n \in 0..Len(full)
    BY <1>7, <1>9
  <2> QED
    BY <2>1, <2>2, <1>5, TrimPart DEF full
<1> DEFINE t == IF n < Len(rest) THEN n ELSE Len(rest)
<1>13. /\ r.text \in Seq(Byte) /\ Len(r.text) = t /\ t \in Nat \ {0}
       /\ \A k \in 1..t : r.text[k] = rest[k]
  <2>1. CASE n < Len(rest)
    <3>1. \A k \in 1..n : rest[k] \in Byte
      BY <2>1, <1>6, <1>9, ElementOfSeq
    <3>2. /\ SubSeq(rest, 1, n) \in Seq(Byte)
          /\ Len(SubSeq(rest, 1, n)) = IF 1 <= n THEN n - 1 + 1 ELSE 0
          /\ \A k \in 1..(n - 1 + 1) : SubSeq(rest, 1, n)[k] = rest[1 + k - 1]
      BY <3>1, <1>9, SubSeqProperties
    <3>3. Len(SubSeq(rest, 1, n)) = n /\ \A k \in 1..n : SubSeq(rest, 1, n)[k] = rest[k]
      BY <3>2, <1>9
    <3> QED
      BY <3>2, <3>3, <2>1, <1>9, <1>12
  <2>2. CASE ~ n < Len(rest)
    BY <2>2, <1>6, <1>12
  <2> QED
    BY <2>1, <2>2
<1>14. t <= n /\ t <= Len(rest) /\ (n < Len(rest) => t = n)
  BY <1>6, <1>9
<1> HIDE DEF t
<1>15. r.text # <<>> /\ pos + Len(r.text) <= pos + n
  <2>1. Len(<<>>) = 0
    OBVIOUS
  <2> QED
    BY <2>1, <1>2, <1>9, <1>13, <1>14
<1>16. ASSUME Sound(line)
       PROVE  r.text = line /\ pos = i /\ ~ n < Len(line)
  <2>1. pos = i /\ m = 0
    BY <1>2, <1>4, <1>16
  <2>2. rest = line
    BY <2>1, <1>3, <1>5, <1>6, SeqEqual
  <2>3. ~ n < Len(line)
    <3> SUFFICES ASSUME n < Len(line) PROVE FALSE
      OBVIOUS
    <3>1. n # Len(full)
      BY <2>2, <1>3, <1>6, <1>9
    <3>2. LooksComplete(SubSeq(line, 1, n))
      BY <3>1, <2>2, <1>11, <1>12 DEF Deferred
    <3>3. n \in 0..Len(line)
      BY <1>3, <1>9
    <3>4. n = Len(line)
      BY <3>2, <3>3, <1>3, <1>16, CompleteIsWhole
    <3> QED
      BY <3>4, <1>3
  <2> QED
    BY <2>1, <2>2, <2>3, <1>12
<1>17. \E w \in RecordsOf(Whole) : PieceOf(r, w) /\ (Sound(w.text) => r = w)
  <2> DEFINE w == [at |-> i, text |-> line]
  <2>1. w \in RecordsOf(Whole)
    <3>1. line # <<>>
      BY <1>4
    <3>2. w \in Written(Whole)
      BY <3>1 DEF Written
    <3> QED
      BY <3>2, <1>1, RecordsAreWritten
  <2>2. HasAt(line, m, r.text)
    <3>1. m + Len(r.text) <= Len(line)
      BY <1>3, <1>4, <1>5, <1>13, <1>14
    <3>2. \A k \in 1..Len(r.text) : line[m + k] = r.text[k]
      <4> SUFFICES ASSUME NEW k \in 1..t PROVE line[m + k] = r.text[k]
        BY <1>13
      <4>1. k \in 1..Len(rest)
        BY <1>6, <1>13, <1>14
      <4> QED
        BY <4>1, <1>5, <1>13
    <3> QED
      BY <3>1, <3>2, <1>3, <1>4, <1>13, HasAtBytes
  <2>3. PieceOf(r, w)
    BY <2>2 DEF PieceOf, m
  <2>4. Sound(line) => r = w
    BY <1>16
  <2> QED
    BY <2>1, <2>3, <2>4
<1>18. Boundary(Whole, pos + n)
  <2>1. CASE n < Len(rest)
    <3>1. i <= pos + n /\ pos + n < i + Len(line)
      BY <2>1, <1>2, <1>3, <1>4, <1>5, <1>9
    <3>2. ~ Sound(line)
      <4>1. Sound(line) => m = 0
        BY <1>4, <1>16
      <4> QED
        BY <4>1, <2>1, <1>3, <1>5, <1>16
    <3> QED
      BY <3>1, <3>2 DEF Boundary
  <2>2. CASE ~ n < Len(rest)
    BY <2>2, <1>1, <1>2, <1>5, <1>9, EndIsBoundary DEF full
  <2> QED
    BY <2>1, <2>2
<1>19. ASSUME NEW k \in (pos + 1)..(pos + n), ~ k <= pos + Len(r.text)
       PROVE  Whole[k] \in Breaks
  <2>1. /\ ~ n < Len(rest) /\ t = Len(rest)
    BY <1>2, <1>9, <1>13, <1>14, <1>19 DEF t
  <2>2. /\ k - pos \in (Len(rest) + 1)..(Len(rest) + Len(end)) /\ k - pos \in 1..Len(full)
        /\ pos + (k - pos) = k /\ (k - pos) - Len(rest) \in 1..Len(end)
    BY <2>1, <1>2, <1>3, <1>6, <1>9, <1>13, <1>19
  <2>3. Whole[pos + (k - pos)] = full[k - pos]
    <3>1. full \in Seq(Byte)
      BY <1>5, LineAndEnd DEF full
    <3> QED
      BY <3>1, <2>2, <1>1, <1>2, <1>5, HasAtBytes
  <2>4. full[k - pos] = end[(k - pos) - Len(rest)]
    BY <2>2, <1>5, LineAndEnd DEF full
  <2> QED
    BY <2>2, <2>3, <2>4, EndType
<1>20. pos + n \in (pos + 1)..snapshot
  BY <1>2, <1>9
<1> QED
  BY <1>11, <1>13, <1>15, <1>17, <1>18, <1>19, <1>20

\* Before the rest of a terminator, it is that rest, and no record.
LEMMA ReadRest ==
    ASSUME TypeOK, WholeLines(Whole), HasLine, ~ Deferred, pos <= snapshot,
           NEW end \in Terminators, HasAt(Whole, pos, end)
    PROVE  /\ ReadOffset \in (pos + 1)..snapshot /\ Boundary(Whole, ReadOffset)
           /\ Blank
           /\ \A k \in (pos + 1)..ReadOffset : Whole[k] \in Breaks
<1>1. /\ Whole \in Seq(Byte) /\ Len(file) \in Nat /\ PartOf(file, Whole)
  BY WholeType
<1>2. pos \in Nat /\ snapshot \in (pos + 1)..Len(file) /\ snapshot \in Nat
  BY <1>1 DEF TypeOK, HasLine
<1>3. Unbroken(Whole, pos, end) /\ Len(end) \in Nat \ {0}
  BY <1>2, EndUnbroken
<1>4. PICK n : Below(file, snapshot, pos, end, n)
  BY <1>1, <1>2, <1>3, SomeBelow
<1>5. n \in 1..Len(end) /\ pos + n <= snapshot /\ n \in Nat
  BY <1>3, <1>4 DEF Below
<1>6. /\ LineEnd(file, pos, snapshot) = pos + n
      /\ Between(file, pos, pos + n) = Between(end, 0, n)
      /\ file[pos + n] = "nl" <=> n = Len(end)
  BY <1>1, <1>3, <1>4, RawLineOf
<1>7. ReadOffset = pos + n /\ RawLine = Between(end, 0, n) /\ (Terminated <=> n = Len(end))
  BY <1>6 DEF ReadOffset, RawLine, Terminated, Between
<1>8. Trimmed(RawLine) = <<>>
  <2>1. RawLine = SubSeq(end, 1, n)
    BY <1>7, 0 + 1 = 1 DEF Between
  <2>2. n \in 0..Len(end)
    BY <1>3, <1>5
  <2> QED
    BY <2>1, <2>2, TrimRest
<1>9. \A k \in 1..Len(end) : Whole[pos + k] = end[k] /\ end[k] \in Breaks
  BY <1>1, <1>2, EndType, HasAtBytes
<1>10. \A k \in (pos + 1)..(pos + n) : Whole[k] \in Breaks
  <2> SUFFICES ASSUME NEW k \in (pos + 1)..(pos + n) PROVE Whole[k] \in Breaks
    OBVIOUS
  <2>1. k - pos \in 1..Len(end) /\ pos + (k - pos) = k
    BY <1>2, <1>3, <1>5
  <2> QED
    BY <2>1, <1>9
<1>11. Terminated
  <2>1. Ink(<<>>) = {}
    BY DEF Ink
  <2>2. ~ LooksComplete(<<>>)
    BY <2>1 DEF LooksComplete
  <2> QED
    BY <2>2, <1>8 DEF Deferred
<1>12. Boundary(Whole, pos + n)
  <2>1. n = Len(end) /\ Whole[pos + n] = "nl"
    BY <1>5, <1>7, <1>9, <1>11, EndType
  <2>2. pos + n \in 1..Len(Whole)
    BY <1>1, <1>2, <1>5 DEF PartOf
  <2> QED
    BY <2>1, <2>2, <1>1, NewlineIsBoundary
<1>13. pos + n \in (pos + 1)..snapshot
  BY <1>2, <1>5
<1> QED
  BY <1>7, <1>8, <1>10, <1>12, <1>13 DEF Blank

\* Whatever a turn of the loop takes, each byte before it has then been read once.
LEMMA ReadStep ==
    ASSUME TypeOK, WholeLines(Whole), HasLine, ~ Deferred, pos <= snapshot,
           Boundary(Whole, pos), NEW records, ReadOnce(records, Whole, pos),
           \A r \in records : r.at \in Nat /\ Len(r.text) \in Nat
    PROVE  /\ ReadOffset \in (pos + 1)..snapshot /\ Boundary(Whole, ReadOffset)
           /\ \A r \in RecordRead : r.at \in Nat /\ r.text \in Seq(Byte) /\ r.text # <<>>
           /\ ReadOnce(records \cup RecordRead, Whole, ReadOffset)
<1>1. pos \in Nat /\ snapshot \in Nat /\ pos < Len(Whole)
  <2>1. pos < snapshot /\ pos \in Nat /\ snapshot \in 0..Len(file)
    BY WholeType DEF TypeOK, HasLine
  <2>2. Len(Whole) \in Nat /\ Len(file) \in Nat /\ Len(file) <= Len(Whole)
    BY WholeType DEF PartOf
  <2> QED
    BY <2>1, <2>2
<1>2. CASE \E end \in Terminators : HasAt(Whole, pos, end)
  <2>1. /\ ReadOffset \in (pos + 1)..snapshot /\ Boundary(Whole, ReadOffset)
        /\ Blank
        /\ \A k \in (pos + 1)..ReadOffset : Whole[k] \in Breaks
    BY <1>2, ReadRest
  <2>2. RecordRead = {}
    BY <2>1 DEF RecordRead
  <2>3. ReadOffset \in Nat /\ pos <= ReadOffset
    BY <1>1, <2>1
  <2>4. ReadOnce(records, Whole, ReadOffset)
    BY <2>1, <2>3, <1>1, NothingRead
  <2>5. records \cup RecordRead = records
    BY <2>2
  <2> QED
    BY <2>1, <2>2, <2>4, <2>5
<1>3. CASE \E i \in Starts(Whole), line \in Lines, end \in Terminators :
             /\ HasAt(Whole, i, line \o end)
             /\ i <= pos /\ pos < i + Len(line)
             /\ i = pos \/ ~ Sound(line)
  <2> DEFINE new == [at |-> pos, text |-> Trimmed(RawLine)]
  <2>1. /\ ReadOffset \in (pos + 1)..snapshot /\ Boundary(Whole, ReadOffset)
        /\ new.text \in Seq(Byte) /\ new.text # <<>> /\ pos + Len(new.text) <= ReadOffset
        /\ \E w \in RecordsOf(Whole) : PieceOf(new, w) /\ (Sound(w.text) => new = w)
        /\ \A k \in (pos + 1)..ReadOffset :
             Whole[k] \in Breaks \/ k <= pos + Len(new.text)
    BY <1>3, ReadLine
  <2>2. RecordRead = {new} /\ new.at = pos
    BY <2>1 DEF RecordRead, Blank
  <2> HIDE DEF new
  <2>3. ReadOffset \in Nat /\ Len(new.text) \in Nat
    BY <1>1, <2>1, LenProperties
  <2>4. ReadOnce(records \cup {new}, Whole, ReadOffset)
    BY <2>1, <2>2, <2>3, <1>1, RecordAdded
  <2> QED
    BY <2>1, <2>2, <2>4, <1>1
<1> QED
  BY <1>1, <1>2, <1>3 DEF Boundary

-----------------------------------------------------------------------------
(* The invariant *)

\* An empty file of which nothing has been read.
LEMMA CollectorInit ==
    Init => CollectorInv
<1> SUFFICES ASSUME Init PROVE CollectorInv
  OBVIOUS
<1>1. Whole = <<>> /\ Len(Whole) = 0 /\ Starts(Whole) = {}
  BY DEF Init, Whole, Starts
<1>2. TypeOK
  BY BytesAssumption DEF Init, TypeOK
<1>3. WholeLines(Whole)
  BY <1>1 DEF WholeLines
<1>4. ReadInv
  BY <1>1 DEF Init, ReadInv, Boundary
<1>5. ArchivedIsPrefix
  BY DEF Init, ArchivedIsPrefix, ReadOnce
<1> QED
  BY <1>2, <1>3, <1>4, <1>5 DEF CollectorInv

\* A new line at the end of the file changes nothing before it.
LEMMA LineAdded ==
    ASSUME NEW bytes \in Seq(Byte), WholeLines(bytes),
           NEW line \in Lines, NEW end \in Terminators,
           NEW new, new = bytes \o (line \o end)
    PROVE  /\ new \in Seq(Byte) /\ WholeLines(new)
           /\ \A at \in 0..Len(bytes) : Boundary(bytes, at) => Boundary(new, at)
           /\ \A records : \A at \in 0..Len(bytes) :
                ReadOnce(records, bytes, at) => ReadOnce(records, new, at)
<1> DEFINE full == line \o end
<1>1. /\ full \in Seq(Byte) /\ Len(full) \in Nat \ {0}
      /\ full[Len(full)] = "nl"
      /\ \A k \in 1..(Len(full) - 1) : full[k] # "nl"
  <2>1. Len(line) \in Nat /\ Len(end) \in {1, 2} /\ Len(full) = Len(line) + Len(end)
    BY LineType, EndType, LineAndEnd, LinesAreText
  <2>2. /\ full \in Seq(Byte) /\ full[Len(full)] = "nl"
        /\ \A k \in 1..(Len(full) - 1) : full[k] # "nl"
    BY LineAndEnd, LinesAreText
  <2> HIDE DEF full
  <2>3. \A l \in Nat : \A e \in {1, 2} : l + e \in Nat \ {0}
    OBVIOUS
  <2>4. Len(full) \in Nat \ {0}
    BY ONLY <2>1, <2>3
  <2> QED
    BY <2>2, <2>4
<1> HIDE DEF full
<1>2. Len(bytes) \in Nat
  BY LenProperties
<1>3. /\ new \in Seq(Byte) /\ Len(new) = Len(bytes) + Len(full)
      /\ \A i \in 1..(Len(bytes) + Len(full)) :
           new[i] = IF i <= Len(bytes) THEN bytes[i] ELSE full[i - Len(bytes)]
  BY <1>1, ConcatProperties DEF full
<1>4. \A i \in 1..Len(bytes) : new[i] = bytes[i]
  BY <1>1, <1>2, <1>3
<1>5. \A k \in 1..Len(full) : new[Len(bytes) + k] = full[k]
  <2> SUFFICES ASSUME NEW k \in 1..Len(full)
               PROVE  new[Len(bytes) + k] = full[k]
    OBVIOUS
  <2>1. /\ Len(bytes) + k \in 1..(Len(bytes) + Len(full)) /\ ~ Len(bytes) + k <= Len(bytes)
        /\ (Len(bytes) + k) - Len(bytes) = k
    BY <1>1, <1>2
  <2> QED
    BY <2>1, <1>3
<1>6. \A at \in Nat, part \in Seq(Byte) : HasAt(bytes, at, part) => HasAt(new, at, part)
  BY <1>1, HasAtKept DEF full
<1>7. HasAt(new, Len(bytes), full)
  <2>1. Len(bytes) + Len(full) <= Len(new)
    BY <1>1, <1>2, <1>3
  <2> QED
    BY <2>1, <1>1, <1>2, <1>3, <1>5, HasAtBytes
<1>8. Starts(new) = Starts(bytes) \cup {Len(bytes)}
  <2>1. ASSUME NEW i \in Starts(new), i # Len(bytes)
        PROVE  i \in Starts(bytes)
    <3>1. i \in 0..(Len(bytes) + Len(full) - 1) /\ (i = 0 \/ new[i] = "nl")
      BY <1>3 DEF Starts
    <3>2. CASE i < Len(bytes)
      BY <3>1, <3>2, <1>2, <1>4 DEF Starts
    <3>3. CASE Len(bytes) < i
      <4>1. i - Len(bytes) \in 1..(Len(full) - 1) /\ Len(bytes) + (i - Len(bytes)) = i /\ i # 0
        BY <3>1, <3>3, <1>1, <1>2
      <4>2. i - Len(bytes) \in 1..Len(full)
        BY <4>1, <1>1
      <4>3. new[Len(bytes) + (i - Len(bytes))] = full[i - Len(bytes)]
        BY <4>2, <1>5
      <4>4. full[i - Len(bytes)] # "nl"
        BY <4>1, <1>1
      <4> QED
        BY <3>1, <4>1, <4>3, <4>4
    <3> QED
      BY <3>1, <3>2, <3>3, <2>1, <1>2
  <2>2. ASSUME NEW i \in Starts(bytes)
        PROVE  i \in Starts(new)
    <3>1. i \in 0..(Len(bytes) - 1) /\ (i = 0 \/ bytes[i] = "nl")
      BY DEF Starts
    <3>2. i \in 0..(Len(new) - 1) /\ (i # 0 => i \in 1..Len(bytes))
      BY <3>1, <1>1, <1>2, <1>3
    <3> QED
      BY <3>1, <3>2, <1>4 DEF Starts
  <2>3. Len(bytes) \in Starts(new)
    <3>1. Len(bytes) \in 0..(Len(new) - 1)
      BY <1>1, <1>2, <1>3
    <3>2. Len(bytes) = 0 \/ new[Len(bytes)] = "nl"
      <4>1. CASE bytes = <<>>
        BY <4>1
      <4>2. CASE bytes # <<>> /\ Len(bytes) # 0
        BY <4>2, <1>2, <1>4 DEF WholeLines
      <4> QED
        BY <4>1, <4>2
    <3> QED
      BY <3>1, <3>2 DEF Starts
  <2> QED
    BY <2>1, <2>2, <2>3
<1>9. WholeLines(new)
  <2>1. ASSUME NEW i \in Starts(new)
        PROVE  \E l \in Lines, e \in Terminators : HasAt(new, i, l \o e)
    <3>1. CASE i = Len(bytes)
      BY <3>1, <1>7 DEF full
    <3>2. CASE i \in Starts(bytes)
      <4>1. PICK l \in Lines, e \in Terminators : HasAt(bytes, i, l \o e)
        BY <3>2 DEF WholeLines
      <4>2. i \in Nat /\ l \o e \in Seq(Byte)
        BY <3>2, <1>2, LineAndEnd, LinesAreText DEF Starts
      <4> QED
        BY <4>1, <4>2, <1>6
    <3> QED
      BY <3>1, <3>2, <1>8
  <2>2. new[Len(new)] = "nl"
    <3>1. Len(full) \in 1..Len(full)
      BY <1>1
    <3> QED
      BY <3>1, <1>1, <1>3, <1>5
  <2> QED
    BY <2>1, <2>2 DEF WholeLines
<1>10. ASSUME NEW at \in 0..Len(bytes), Boundary(bytes, at)
       PROVE  Boundary(new, at)
  <2>1. at \in Nat
    BY <1>2
  <2>2. CASE at = Len(bytes)
    <3>1. at \in Starts(new)
      BY <2>2, <1>8
    <3> QED
      BY <3>1, <1>3, <1>9, StartIsBoundary
  <2>3. CASE \E e \in Terminators : HasAt(bytes, at, e)
    <3>1. PICK e \in Terminators : HasAt(bytes, at, e)
      BY <2>3
    <3>2. HasAt(new, at, e)
      BY <3>1, <2>1, <1>6, EndType
    <3> QED
      BY <3>2 DEF Boundary
  <2>4. CASE \E i \in Starts(bytes), l \in Lines, e \in Terminators :
               /\ HasAt(bytes, i, l \o e)
               /\ i <= at /\ at < i + Len(l)
               /\ i = at \/ ~ Sound(l)
    <3>1. PICK i \in Starts(bytes), l \in Lines, e \in Terminators :
               /\ HasAt(bytes, i, l \o e)
               /\ i <= at /\ at < i + Len(l)
               /\ i = at \/ ~ Sound(l)
      BY <2>4
    <3>2. i \in Nat /\ l \o e \in Seq(Byte)
      BY <1>2, LineAndEnd, LinesAreText DEF Starts
    <3>3. HasAt(new, i, l \o e) /\ i \in Starts(new)
      BY <3>1, <3>2, <1>6, <1>8
    <3> QED
      BY <3>1, <3>3 DEF Boundary
  <2> QED
    BY <2>2, <2>3, <2>4, <1>10 DEF Boundary
<1>11. Written(bytes) \subseteq Written(new)
  <2> SUFFICES ASSUME NEW r \in Written(bytes) PROVE r \in Written(new)
    OBVIOUS
  <2>1. /\ r \in [at : Starts(bytes), text : Lines \ {<<>>}]
        /\ \E e \in Terminators : HasAt(bytes, r.at, r.text \o e)
    BY DEF Written
  <2>2. PICK e \in Terminators : HasAt(bytes, r.at, r.text \o e)
    BY <2>1
  <2>3. r.at \in Starts(bytes) /\ r.text \in Lines
    BY <2>1
  <2>4. r.at \in Nat /\ r.text \o e \in Seq(Byte)
    BY <2>3, <1>2, LineAndEnd, LinesAreText DEF Starts
  <2>5. HasAt(new, r.at, r.text \o e)
    BY <2>2, <2>4, <1>6
  <2>6. r \in [at : Starts(new), text : Lines \ {<<>>}]
    BY <2>1, <1>8
  <2> QED
    BY <2>5, <2>6 DEF Written
<1>12. RecordsOf(bytes) \subseteq RecordsOf(new)
  BY <1>3, <1>9, <1>11, RecordsAreWritten
<1>13. ASSUME NEW records, NEW upto \in 0..Len(bytes), ReadOnce(records, bytes, upto)
       PROVE  ReadOnce(records, new, upto)
  <2>1. \A i \in 1..upto : new[i] = bytes[i]
    BY <1>2, <1>4
  <2> QED
    BY <2>1, <1>12, <1>13 DEF ReadOnce
<1> QED
  BY <1>3, <1>9, <1>10, <1>13

\* The writer begins a line.
LEMMA BeginLineStep ==
    ASSUME CollectorInv, NEW line \in Lines, NEW end \in Terminators, BeginLine(line, end)
    PROVE  CollectorInv'
<1>1. TypeOK /\ WholeLines(Whole) /\ ReadInv /\ ArchivedIsPrefix
  BY DEF CollectorInv
<1>2. /\ todo = <<>> /\ Len(file) + Len(line) + Len(end) <= MaxBytes
      /\ todo' = line \o end /\ file' = file
      /\ UNCHANGED <<checkpoint, archived, pc, snapshot, pos, staged, outcome>>
  BY DEF BeginLine, readerVars
<1>3. file \in Seq(Byte) /\ Len(file) \in Nat
  BY <1>1, WholeType DEF TypeOK
<1>4. Whole = file /\ Whole' = file \o (line \o end)
  BY <1>2, <1>3, ConcatEmptySeq DEF Whole
<1>5. /\ WholeLines(Whole')
      /\ \A at \in 0..Len(file) : Boundary(file, at) => Boundary(Whole', at)
      /\ \A records : \A at \in 0..Len(file) :
           ReadOnce(records, file, at) => ReadOnce(records, Whole', at)
  BY <1>1, <1>3, <1>4, LineAdded
<1>6. TypeOK'
  <2>1. Len(line \o end) = Len(line) + Len(end) /\ line \o end \in Seq(Byte)
    BY LineAndEnd, LinesAreText
  <2>2. Len(line) \in Nat /\ Len(end) \in {1, 2}
    BY LineType, EndType, LinesAreText
  <2>3. Len(file') + Len(todo') <= MaxBytes
    BY <2>1, <2>2, <1>2, <1>3, BytesAssumption
  <2> QED
    BY <2>1, <2>3, <1>1, <1>2 DEF TypeOK
<1>7. (ReadInv /\ ArchivedIsPrefix)'
  <2>1. checkpoint \in 0..Len(file) /\ pos \in 0..Len(file)
    BY <1>1 DEF TypeOK
  <2>2. /\ Boundary(Whole', checkpoint)
        /\ ReadOnce(archived, Whole', checkpoint)
        /\ pc = "read" => /\ Boundary(Whole', pos)
                          /\ ReadOnce(archived \cup staged, Whole', pos)
    BY <2>1, <1>1, <1>4, <1>5 DEF ReadInv, ArchivedIsPrefix
  <2> QED
    BY <2>2, <1>1, <1>2 DEF ReadInv, ArchivedIsPrefix
<1> QED
  BY <1>5, <1>6, <1>7 DEF CollectorInv

\* Part of a line reaches the file.
LEMMA WriteBytesStep ==
    ASSUME CollectorInv, NEW n \in 1..Len(todo), WriteBytes(n)
    PROVE  CollectorInv'
<1>1. TypeOK /\ WholeLines(Whole) /\ ReadInv /\ ArchivedIsPrefix
  BY DEF CollectorInv
<1>2. /\ file' = file \o SubSeq(todo, 1, n)
      /\ todo' = SubSeq(todo, n + 1, Len(todo))
      /\ UNCHANGED <<checkpoint, archived, pc, snapshot, pos, staged, outcome>>
  BY DEF WriteBytes, readerVars
<1> DEFINE put == SubSeq(todo, 1, n)
           left == SubSeq(todo, n + 1, Len(todo))
<1>3. file \in Seq(Byte) /\ todo \in Seq(Byte) /\ Len(file) \in Nat /\ Len(todo) \in Nat
  BY <1>1, LenProperties DEF TypeOK
<1>4. /\ put \in Seq(Byte) /\ left \in Seq(Byte)
      /\ Len(put) = n /\ Len(left) = Len(todo) - n
      /\ put \o left = todo
  <2>1. n \in Nat /\ 1 <= n /\ n <= Len(todo)
    BY <1>3
  <2>2. \A i \in 1..Len(todo) : todo[i] \in Byte
    BY <1>3, ElementOfSeq
  <2>3. /\ put \in Seq(Byte)
        /\ Len(put) = IF 1 <= n THEN n - 1 + 1 ELSE 0
    BY <2>1, <2>2, <1>3, SubSeqProperties
  <2>4. /\ left \in Seq(Byte)
        /\ Len(left) = IF n + 1 <= Len(todo) THEN Len(todo) - (n + 1) + 1 ELSE 0
    <3>1. \A i \in (n + 1)..Len(todo) : todo[i] \in Byte
      BY <2>1, <2>2, <1>3
    <3> QED
      BY <3>1, <2>1, <1>3, SubSeqProperties
  <2>5. SubSeq(todo, 1, n) \o SubSeq(todo, n + 1, Len(todo)) = SubSeq(todo, 1, Len(todo))
    <3>1. 1 \in 1..Len(todo) + 1 /\ n \in (1 - 1)..Len(todo) /\ Len(todo) \in n..Len(todo)
      BY <2>1, <1>3
    <3> QED
      BY <3>1, <1>3, ConcatAdjacentSubSeq
  <2>6. SubSeq(todo, 1, Len(todo)) = todo
    BY <1>3, SubSeqFull
  <2>7. Len(put) = n /\ Len(left) = Len(todo) - n
    BY <2>1, <2>3, <2>4, <1>3
  <2> QED
    BY <2>3, <2>4, <2>5, <2>6, <2>7
<1> HIDE DEF put, left
<1>5. /\ file' = file \o put /\ todo' = left
      /\ file' \in Seq(Byte) /\ Len(file') = Len(file) + n
  BY <1>2, <1>3, <1>4, ConcatProperties DEF put, left
<1>6. Whole' = Whole
  <2>1. (file \o put) \o left = file \o (put \o left)
    <3>1. file \in Seq(Byte) /\ put \in Seq(Byte) /\ left \in Seq(Byte)
      BY <1>3, <1>4
    <3> QED
      BY ONLY <3>1, ConcatAssociative
  <2> QED
    BY <2>1, <1>4, <1>5 DEF Whole
<1>7. TypeOK'
  <2>1. Len(file') + Len(todo') <= MaxBytes
    <3>1. Len(file) + Len(todo) <= MaxBytes
      BY <1>1 DEF TypeOK
    <3>2. Len(file') = Len(file) + n /\ Len(todo') = Len(todo) - n
      BY <1>4, <1>5
    <3> QED
      BY <3>1, <3>2, <1>3, BytesAssumption
  <2>2. \A k \in 0..Len(file) : k \in 0..Len(file')
    BY <1>3, <1>5
  <2> QED
    BY <2>1, <2>2, <1>1, <1>2, <1>4, <1>5 DEF TypeOK
<1>8. (ReadInv /\ ArchivedIsPrefix)'
  BY <1>1, <1>2, <1>6 DEF ReadInv, ArchivedIsPrefix
<1>9. WholeLines(Whole)'
  BY <1>1, <1>6
<1> QED
  BY <1>7, <1>8, <1>9 DEF CollectorInv

\* The reader looks at the file.
LEMMA OpenFileStep ==
    ASSUME CollectorInv, OpenFile
    PROVE  CollectorInv'
<1>1. TypeOK /\ WholeLines(Whole) /\ ReadInv /\ ArchivedIsPrefix
  BY DEF CollectorInv
<1>2. /\ pc = "idle" /\ pc' = "read" /\ snapshot' = Len(file) /\ pos' = checkpoint
      /\ UNCHANGED <<file, todo, checkpoint, archived, staged, outcome>>
  BY DEF OpenFile
<1>3. Whole' = Whole
  BY <1>2 DEF Whole
<1>4. checkpoint \in 0..Len(file) /\ Len(file) \in Nat
  BY <1>1, WholeType DEF TypeOK
<1>5. TypeOK'
  <2>1. snapshot' \in 0..Len(file) /\ pos' \in 0..Len(file)
    BY <1>2, <1>4
  <2> QED
    BY <2>1, <1>1, <1>2 DEF TypeOK
<1>6. (ReadInv /\ ArchivedIsPrefix)'
  <2>1. staged' = {} /\ checkpoint' <= pos' /\ pos' <= snapshot'
    BY <1>1, <1>2, <1>4 DEF ReadInv, ArchivedIsPrefix
  <2> QED
    BY <2>1, <1>1, <1>2, <1>3 DEF ReadInv, ArchivedIsPrefix
<1> QED
  BY <1>1, <1>3, <1>5, <1>6 DEF CollectorInv

\* A backup ends without a commit.
LEMMA GiveUpStep ==
    ASSUME CollectorInv, NEW how \in {"invalid", "killed"}, EndBackup(how),
           UNCHANGED <<file, todo, checkpoint, archived>>
    PROVE  CollectorInv'
<1>1. TypeOK /\ WholeLines(Whole) /\ ReadInv /\ ArchivedIsPrefix
  BY DEF CollectorInv
<1>2. pc' = "idle" /\ snapshot' = 0 /\ pos' = 0 /\ staged' = {} /\ outcome' = how
  BY DEF EndBackup
<1>3. Whole' = Whole
  BY DEF Whole
<1>4. TypeOK'
  <2>1. 0 \in 0..Len(file)
    BY <1>1, WholeType
  <2>2. archived' \cup staged' \subseteq archived \cup staged
    BY <1>2
  <2> QED
    BY <2>1, <2>2, <1>1, <1>2 DEF TypeOK
<1>5. (ReadInv /\ ArchivedIsPrefix)'
  BY <1>1, <1>2, <1>3 DEF ReadInv, ArchivedIsPrefix
<1> QED
  BY <1>1, <1>3, <1>4, <1>5 DEF CollectorInv

\* A backup ends with a commit.
LEMMA CommitStep ==
    ASSUME CollectorInv, pc = "read", Commit
    PROVE  CollectorInv'
<1>1. TypeOK /\ WholeLines(Whole) /\ ReadInv /\ ArchivedIsPrefix
  BY DEF CollectorInv
<1>2. /\ pc' = "idle" /\ snapshot' = 0 /\ pos' = 0 /\ staged' = {} /\ outcome' = "committed"
      /\ checkpoint' = pos /\ archived' = archived \cup staged
      /\ UNCHANGED <<file, todo>>
  BY DEF Commit, EndBackup
<1>3. Whole' = Whole
  BY <1>2 DEF Whole
<1>4. TypeOK'
  <2>1. 0 \in 0..Len(file) /\ checkpoint' \in 0..Len(file)
    BY <1>1, <1>2, WholeType DEF TypeOK
  <2>2. archived' \cup staged' = archived \cup staged
    BY <1>2
  <2> QED
    BY <2>1, <2>2, <1>1, <1>2 DEF TypeOK
<1>5. (ReadInv /\ ArchivedIsPrefix)'
  BY <1>1, <1>2, <1>3 DEF ReadInv, ArchivedIsPrefix
<1> QED
  BY <1>1, <1>3, <1>4, <1>5 DEF CollectorInv

\* The reader takes a line, blank or not.
LEMMA TakeLineStep ==
    ASSUME CollectorInv, HasLine, ~ Deferred,
           pos' = ReadOffset, staged' = staged \cup RecordRead,
           UNCHANGED <<file, todo, checkpoint, archived, pc, snapshot, outcome>>
    PROVE  CollectorInv'
<1>1. TypeOK /\ WholeLines(Whole) /\ ReadInv /\ ArchivedIsPrefix
  BY DEF CollectorInv
<1>2. pc = "read"
  BY DEF HasLine
<1>3. /\ checkpoint <= pos /\ pos <= snapshot /\ Boundary(Whole, pos)
      /\ ReadOnce(archived \cup staged, Whole, pos)
  BY <1>1, <1>2 DEF ReadInv
<1>4. /\ ReadOffset \in (pos + 1)..snapshot /\ Boundary(Whole, ReadOffset)
      /\ \A r \in RecordRead : r.at \in Nat /\ r.text \in Seq(Byte) /\ r.text # <<>>
      /\ ReadOnce((archived \cup staged) \cup RecordRead, Whole, ReadOffset)
  <2>1. \A r \in archived \cup staged : r.at \in Nat /\ Len(r.text) \in Nat
    BY <1>1, LenProperties DEF TypeOK
  <2> QED
    BY <2>1, <1>1, <1>3, ReadStep
<1>5. Whole' = Whole
  BY DEF Whole
<1>6. /\ pos \in 0..Len(file) /\ snapshot \in 0..Len(file) /\ checkpoint \in 0..Len(file)
      /\ Len(file) \in Nat
  BY <1>1, WholeType DEF TypeOK
<1>7. TypeOK'
  <2>1. pos' \in 0..Len(file)
    BY <1>4, <1>6
  <2>3. \A r \in archived' \cup staged' : r.at \in Nat /\ r.text \in Seq(Byte) /\ r.text # <<>>
    BY <1>1, <1>4 DEF TypeOK
  <2> QED
    BY <2>1, <2>3, <1>1 DEF TypeOK
<1>8. (ReadInv /\ ArchivedIsPrefix)'
  <2>1. checkpoint' <= pos' /\ pos' <= snapshot'
    BY <1>3, <1>4, <1>6
  <2>2. ReadOnce(archived' \cup staged', Whole', pos')
    <3>1. archived' \cup staged' = (archived \cup staged) \cup RecordRead
      OBVIOUS
    <3> QED
      BY <3>1, <1>4, <1>5
  <2>3. Boundary(Whole', pos')
    BY <1>4, <1>5
  <2> QED
    BY <2>1, <2>2, <2>3, <1>1, <1>2, <1>5 DEF ReadInv, ArchivedIsPrefix
<1> QED
  BY <1>1, <1>5, <1>7, <1>8 DEF CollectorInv

\* Writers and readers keep the invariant, whatever they do in between.
LEMMA CollectorStep ==
    CollectorInv /\ [Next]_vars => CollectorInv'
<1> SUFFICES ASSUME CollectorInv, [Next]_vars
             PROVE  CollectorInv'
  OBVIOUS
<1>1. CASE OpenFile
  BY <1>1, OpenFileStep
<1>2. CASE RejectLine
  BY <1>2, GiveUpStep DEF RejectLine
<1>3. CASE SkipBlankLine
  <2>1. RecordRead = {}
    BY <1>3 DEF SkipBlankLine, RecordRead
  <2> QED
    BY <2>1, <1>3, TakeLineStep DEF SkipBlankLine
<1>4. CASE EmitRecord
  <2>1. RecordRead = {[at |-> pos, text |-> Trimmed(RawLine)]}
    BY <1>4 DEF EmitRecord, RecordRead
  <2> QED
    BY <2>1, <1>4, TakeLineStep DEF EmitRecord
<1>5. CASE CommitAtSnapshot
  BY <1>5, CommitStep DEF CommitAtSnapshot
<1>6. CASE CommitAtTail
  BY <1>6, CommitStep DEF CommitAtTail, HasLine
<1>7. ASSUME NEW line \in Lines, NEW end \in Terminators, BeginLine(line, end)
      PROVE  CollectorInv'
  BY <1>7, BeginLineStep
<1>8. ASSUME NEW n \in 1..Len(todo), WriteBytes(n)
      PROVE  CollectorInv'
  BY <1>8, WriteBytesStep
<1>9. CASE Kill
  BY <1>9, GiveUpStep DEF Kill
<1>10. CASE UNCHANGED vars
  <2>1. UNCHANGED <<file, todo, checkpoint, archived, pc, snapshot, pos, staged, outcome>>
    BY <1>10 DEF vars, readerVars
  <2>2. Whole' = Whole
    BY <2>1 DEF Whole
  <2> QED
    BY <2>1, <2>2 DEF CollectorInv, TypeOK, ReadInv, ArchivedIsPrefix
<1> QED
  BY <1>1, <1>2, <1>3, <1>4, <1>5, <1>6, <1>7, <1>8, <1>9, <1>10
  DEF Next, Reader, Writer

-----------------------------------------------------------------------------
(* Theorems *)

\* However a writer and backups interleave, each byte of a line up to where the
\* reader is has been read once, and the reader stops only where a line begins,
\* before the rest of a terminator, or in a line that is not sound: the inductive
\* invariant always holds, for any lines, well-formed or not.
THEOREM CollectorInvariance == Spec => []CollectorInv
<1>1. Init => CollectorInv
  BY CollectorInit
<1>2. CollectorInv /\ [Next]_vars => CollectorInv'
  BY CollectorStep
<1> QED
  BY <1>1, <1>2, PTL DEF Spec

\* The archive holds every byte of the lines up to the checkpoint once, and every
\* sound line as one whole record, for any lines, file sizes and moments at which
\* a backup reads (stream_records_from_source).
THEOREM ArchivedWhole == Spec => []ArchivedIsPrefix
<1>1. CollectorInv => ArchivedIsPrefix
  BY DEF CollectorInv
<1> QED
  BY <1>1, CollectorInvariance, PTL

\* The variables of the reader and the writer keep their types, and no offset is
\* ever past the end of the file.
THEOREM CollectorTypeCorrect == Spec => []TypeOK
<1>1. CollectorInv => TypeOK
  BY DEF CollectorInv
<1> QED
  BY <1>1, CollectorInvariance, PTL
=============================================================================
