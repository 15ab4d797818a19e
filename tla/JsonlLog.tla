------------------------------- MODULE JsonlLog -------------------------------
(***************************************************************************)
(* The bytes of one append-only JSONL file, as every store of MANTIS       *)
(* writes and reads them: one JSON object per line, opened in append mode, *)
(* "payload + \n" written in one call, flushed and fsynced.                *)
(*                                                                         *)
(* A file is the sequence of its lines and a flag that says whether the    *)
(* last line lacks its newline.  A line is a row, or Bad: text that        *)
(* json.loads rejects.  A proper prefix of a JSON object is always Bad,    *)
(* and so are two objects on one line.                                     *)
(***************************************************************************)
EXTENDS Naturals, Sequences

CONSTANT Bad    \* a line that is not one JSON object; no row equals it

File(R) == [lines : Seq(R \cup {Bad}), torn : BOOLEAN]

EmptyFile == [lines |-> <<>>, torn |-> FALSE]

\* Append mode adds the text x to the file, with its newline iff nl.  After a
\* torn tail the text lands on the unfinished line, which no longer parses.
Written(f, x, nl) ==
  [lines |-> IF f.torn THEN [f.lines EXCEPT ![Len(f.lines)] = Bad]
                       ELSE Append(f.lines, x),
   torn  |-> ~nl]

\* Mutant of Interrupted: the newline is written whether or not the row was.
InterruptedClosed(f, row) ==
  {f, Written(f, Bad, TRUE), Written(f, row, FALSE), Written(f, row, TRUE)}

\* What a write of row that raised, or that the process did not survive, may
\* have left behind: nothing, a fragment, the object without its newline, or
\* the whole line (the flush went through and the fsync did not).
Interrupted(f, row) ==
  {f, Written(f, Bad, FALSE), Written(f, row, FALSE), Written(f, row, TRUE)}

\* read() raises ValueError on a rejected line unless it is the last one, and
\* otherwise returns the rows in file order.
Malformed(f) == \E i \in 1 .. Len(f.lines) - 1 : f.lines[i] = Bad

RowsOf(f) == {f.lines[i] : i \in DOMAIN f.lines} \ {Bad}

=============================================================================
