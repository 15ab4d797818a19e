--------------------------- MODULE ContractLifecycle ---------------------------
(***************************************************************************)
(* What the recorder promises of a contract: it is opened once, and every  *)
(* contract opened ends, after its window, with an outcome or with none,   *)
(* and stays as it ended.                                                  *)
(***************************************************************************)
EXTENDS Naturals

CONSTANTS Windows

VARIABLES
  passed,  \* the windows that are over
  state    \* per window: unseen, open, settled or unsettled

lvars == <<passed, state>>

States == {"unseen", "open", "settled", "unsettled"}

Init == passed = {} /\ state = [w \in Windows |-> "unseen"]

Open(w) ==
  /\ state[w] = "unseen"
  /\ state' = [state EXCEPT ![w] = "open"]
  /\ UNCHANGED passed

End(w) ==
  /\ state[w] = "open" /\ w \in passed
  /\ \E s \in {"settled", "unsettled"} : state' = [state EXCEPT ![w] = s]
  /\ UNCHANGED passed

Pass(w) == w \notin passed /\ passed' = passed \cup {w} /\ UNCHANGED state

Next == \E w \in Windows : Open(w) \/ End(w) \/ Pass(w)

Spec == Init /\ [][Next]_lvars

=============================================================================
