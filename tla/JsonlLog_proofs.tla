---------------------------- MODULE JsonlLog_proofs ----------------------------
(***************************************************************************)
(* What a write does to a JSONL file, for rows of any shape.               *)
(***************************************************************************)
EXTENDS JsonlLog, Integers, TLAPS, WellFoundedInduction

\* A torn file has a last line to tear (Written).
TornHasALine(f) == f.torn => Len(f.lines) > 0

-----------------------------------------------------------------------------
\* Writing a row or Bad keeps a file a file.
LEMMA WrittenType ==
  ASSUME NEW R, NEW f \in File(R), TornHasALine(f),
         NEW x \in R \cup {Bad}, NEW nl \in BOOLEAN
  PROVE  /\ Written(f, x, nl) \in File(R)
         /\ TornHasALine(Written(f, x, nl))
<1>1. f.lines \in Seq(R \cup {Bad}) /\ f.torn \in BOOLEAN
  BY DEF File
<1>2. CASE f.torn
  <2>1. Len(f.lines) \in 1 .. Len(f.lines)
    BY <1>1, <1>2 DEF TornHasALine
  <2> DEFINE g == [f.lines EXCEPT ![Len(f.lines)] = Bad]
  <2>2. g \in Seq(R \cup {Bad}) /\ Len(g) = Len(f.lines)
    BY <1>1, <2>1
  <2> HIDE DEF g
  <2>3. Written(f, x, nl) = [lines |-> g, torn |-> ~nl]
    BY <1>2 DEF Written, g
  <2> QED BY <2>1, <2>2, <2>3, <1>1 DEF File, TornHasALine
<1>3. CASE ~f.torn
  <2> DEFINE g == Append(f.lines, x)
  <2>2. g \in Seq(R \cup {Bad}) /\ Len(g) = Len(f.lines) + 1
    BY <1>1
  <2> HIDE DEF g
  <2>3. Written(f, x, nl) = [lines |-> g, torn |-> ~nl]
    BY <1>3 DEF Written, g
  <2> QED BY <2>2, <2>3, <1>1 DEF File, TornHasALine
<1> QED BY <1>1, <1>2, <1>3

\* A line more is a row more, if it parses.
LEMMA AppendRows ==
  ASSUME NEW R, NEW f \in File(R), NEW g, NEW x,
         g.lines = Append(f.lines, x)
  PROVE  RowsOf(g) = RowsOf(f) \cup ({x} \ {Bad})
<1>1. f.lines \in Seq(R \cup {Bad})
  BY DEF File
<1> DEFINE L == g.lines
<1>2. DOMAIN L = DOMAIN f.lines \cup {Len(f.lines) + 1}
  BY <1>1
<1>3. \A i \in DOMAIN f.lines : L[i] = f.lines[i]
  BY <1>1
<1>4. L[Len(f.lines) + 1] = x
  BY <1>1
<1>5. RowsOf(g) = {L[i] : i \in DOMAIN L} \ {Bad}
  BY DEF RowsOf
<1> HIDE DEF L
<1>6. {L[i] : i \in DOMAIN L} = {f.lines[i] : i \in DOMAIN f.lines} \cup {x}
  BY <1>2, <1>3, <1>4
<1> QED BY <1>5, <1>6 DEF RowsOf

\* Onto a file that ends in a newline, a write loses nothing and adds its row.
LEMMA WrittenRows ==
  ASSUME NEW R, NEW f \in File(R), ~f.torn, NEW x, NEW nl
  PROVE  RowsOf(Written(f, x, nl)) = RowsOf(f) \cup ({x} \ {Bad})
<1>1. Written(f, x, nl).lines = Append(f.lines, x)
  BY DEF Written
<1> QED BY <1>1, AppendRows

\* A write that does not land on a torn tail leaves the lines, and perhaps one
\* more: the row, or a fragment of it.
LEMMA CleanWrite ==
  ASSUME NEW f, NEW row, NEW g \in Interrupted(f, row), f.torn => g = f
  PROVE  \/ g = f
         \/ g.lines = Append(f.lines, Bad)
         \/ g.lines = Append(f.lines, row)
BY DEF Interrupted, Written

\* A write of any kind keeps the readable rows of an untorn file, and adds at
\* most the row being written.
LEMMA InterruptedRows ==
  ASSUME NEW R, NEW f \in File(R), ~f.torn, NEW row \in R,
         NEW g \in Interrupted(f, row)
  PROVE  RowsOf(f) \subseteq RowsOf(g) /\ RowsOf(g) \subseteq RowsOf(f) \cup {row}
<1>1. RowsOf(Written(f, Bad, FALSE)) = RowsOf(f) \cup ({Bad} \ {Bad})
  BY WrittenRows
<1>2. RowsOf(Written(f, row, FALSE)) = RowsOf(f) \cup ({row} \ {Bad})
  BY WrittenRows
<1>3. RowsOf(Written(f, row, TRUE)) = RowsOf(f) \cup ({row} \ {Bad})
  BY WrittenRows
<1>4. \/ g = f \/ g = Written(f, Bad, FALSE)
      \/ g = Written(f, row, FALSE) \/ g = Written(f, row, TRUE)
  BY DEF Interrupted
<1> QED BY <1>1, <1>2, <1>3, <1>4

\* What an interrupted write leaves is a file.
LEMMA InterruptedType ==
  ASSUME NEW R, NEW f \in File(R), TornHasALine(f), NEW row \in R,
         NEW g \in Interrupted(f, row)
  PROVE  g \in File(R) /\ TornHasALine(g)
BY WrittenType DEF Interrupted

-----------------------------------------------------------------------------
\* Line by line: g keeps a line of f, spoils it, or adds x at the end.
AddsAtMost(f, g, x) ==
  \A i \in DOMAIN g.lines :
    \/ i \in DOMAIN f.lines /\ g.lines[i] = f.lines[i]
    \/ g.lines[i] = Bad
    \/ ~f.torn /\ i = Len(f.lines) + 1 /\ g.lines[i] = x

\* The lines after a write: a fresh one at the end, or the torn one spoiled.
LEMMA WrittenLines ==
  ASSUME NEW R, NEW f \in File(R), TornHasALine(f), NEW x, NEW nl
  PROVE  AddsAtMost(f, Written(f, x, nl), x)
<1>1. f.lines \in Seq(R \cup {Bad})
  BY DEF File
<1>2. CASE f.torn
  <2>1. Written(f, x, nl).lines = [f.lines EXCEPT ![Len(f.lines)] = Bad]
    BY <1>2 DEF Written
  <2> QED BY <1>1, <2>1 DEF AddsAtMost
<1>3. CASE ~f.torn
  <2>1. Written(f, x, nl).lines = Append(f.lines, x)
    BY <1>3 DEF Written
  <2> QED BY <1>1, <1>3, <2>1 DEF AddsAtMost
<1> QED BY <1>2, <1>3

\* The same of a write that was cut short.
LEMMA InterruptedLines ==
  ASSUME NEW R, NEW f \in File(R), TornHasALine(f), NEW row,
         NEW g \in Interrupted(f, row)
  PROVE  AddsAtMost(f, g, row)
<1>1. CASE g = f
  BY <1>1 DEF AddsAtMost
<1>2. AddsAtMost(f, Written(f, Bad, FALSE), row)
  <2>1. AddsAtMost(f, Written(f, Bad, FALSE), Bad)
    BY WrittenLines
  <2> QED BY <2>1 DEF AddsAtMost
<1>3. AddsAtMost(f, Written(f, row, FALSE), row)
  BY WrittenLines
<1>4. AddsAtMost(f, Written(f, row, TRUE), row)
  BY WrittenLines
<1> QED BY <1>1, <1>2, <1>3, <1>4 DEF Interrupted

-----------------------------------------------------------------------------
(***************************************************************************)
(* Finding a line by its position: the first or the last that fits, as     *)
(* matches[0] and "the last one wins" do in the stores.                    *)
(***************************************************************************)
\* A non-empty set of numbers has a least element.
LEMMA LeastElement ==
  ASSUME NEW I, I \subseteq Nat, I # {}
  PROVE  \E i \in I : \A j \in I : i <= j
<1> DEFINE R == {x \in Nat \X Nat : x[1] < x[2]}
<1>1. IsWellFoundedOn(R, Nat)
  BY NatLessThanWellFounded DEF OpToRel
<1>2. PICK i \in I : \A j \in I : <<j, i>> \notin R
  BY <1>1, WFMin
<1>3. \A j \in I : ~(j < i)
  BY <1>2
<1> QED BY <1>2, <1>3

\* A non-empty set of positions has a last one.
LEMMA GreatestElement ==
  ASSUME NEW n \in Nat, NEW I, I \subseteq 1 .. n, I # {}
  PROVE  \E i \in I : \A j \in I : j <= i
<1> DEFINE J == {k \in Nat : n - k \in I}
<1>1. \A j \in I : j \in Int /\ n - j \in J
  <2> SUFFICES ASSUME NEW j \in I PROVE j \in Int /\ n - j \in J
    OBVIOUS
  <2>1. j \in Int /\ n - j \in Nat /\ n - (n - j) = j
    OBVIOUS
  <2> QED BY <2>1
<1>2. J \subseteq Nat /\ J # {}
  BY <1>1
<1>3. PICK m \in J : \A j \in J : m <= j
  BY <1>2, LeastElement
<1>4. n - m \in I /\ m \in Nat
  BY <1>3
<1>5. \A j \in I : m <= n - j
  BY <1>1, <1>3
<1> HIDE DEF J
<1>6. \A j \in I : j <= n - m
  BY <1>1, <1>4, <1>5
<1> QED BY <1>4, <1>6

=============================================================================
