-------------------------------- MODULE Ladder --------------------------------
(***************************************************************************)
(* A list of refusals tried from the top: the idiom of every gate in this  *)
(* repository ("if ...: return ..." down to the last return).              *)
(***************************************************************************)
EXTENDS Naturals, Sequences, FiniteSetsExt

\* One rung: when the condition holds, this is the answer.
Rung(when, answer) == [when |-> when, answer |-> answer]

\* The answer of the first rung whose condition holds.
FirstOf(ladder, otherwise) ==
  LET hits == {k \in DOMAIN ladder : ladder[k].when}
  IN  IF hits = {} THEN otherwise ELSE ladder[Min(hits)].answer

=============================================================================
