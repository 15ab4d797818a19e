----------------------------- MODULE ContractLedger -----------------------------
(***************************************************************************)
(* What the forward records promise, without processes, files or indexes:  *)
(* a ledger of 15-minute contracts.  A contract is observed, entered at    *)
(* most once while it is open, settled at most once after its window, and  *)
(* not entered after that; a window gets at most one primary selection,    *)
(* which is published at most once, after it was chosen.  Nothing is ever  *)
(* revised.  The promise is void from the moment a write damages a file.   *)
(***************************************************************************)
EXTENDS Naturals

CONSTANTS Windows, Assets, Sides, NONE

VARIABLES
  clock,      \* the window the wall clock is in
  seen,       \* contracts observed: pairs of a window and an asset
  side,       \* the side a contract was entered on, or NONE
  settled,    \* contracts resolved
  chosen,     \* the primary selection of a window, or NONE
  published,  \* how many times a window's selection was announced
  intact      \* no write has damaged a file

lvars == <<clock, seen, side, settled, chosen, published, intact>>

Init ==
  /\ clock = 1
  /\ seen = {} /\ settled = {}
  /\ side = [k \in Windows \X Assets |-> NONE]
  /\ chosen = [w \in Windows |-> NONE]
  /\ published = [w \in Windows |-> 0]
  /\ intact = TRUE

Advance ==
  /\ clock' = clock + 1
  /\ UNCHANGED <<seen, side, settled, chosen, published>>

Observe(k) ==
  /\ k[1] <= clock
  /\ seen' = seen \cup {k}
  /\ UNCHANGED <<clock, side, settled, chosen, published>>

Enter(k, s) ==
  /\ k \in seen \ settled
  /\ side[k] = NONE
  /\ side' = [side EXCEPT ![k] = s]
  /\ UNCHANGED <<clock, seen, settled, chosen, published>>

Settle(k) ==
  /\ k \in seen \ settled
  /\ k[1] < clock
  /\ settled' = settled \cup {k}
  /\ UNCHANGED <<clock, seen, side, chosen, published>>

Choose(w, a) ==
  /\ chosen[w] = NONE
  /\ chosen' = [chosen EXCEPT ![w] = a]
  /\ UNCHANGED <<clock, seen, side, settled, published>>

Publish(w) ==
  /\ chosen[w] # NONE
  /\ published[w] = 0
  /\ published' = [published EXCEPT ![w] = 1]
  /\ UNCHANGED <<clock, seen, side, settled, chosen>>

LedgerStep ==
  \/ Advance
  \/ \E k \in Windows \X Assets :
       \/ Observe(k)
       \/ \E s \in Sides : Enter(k, s)
       \/ Settle(k)
  \/ \E w \in Windows : Publish(w) \/ \E a \in Assets : Choose(w, a)

\* Keeping the promise, or having lost it.
Next ==
  \/ intact /\ intact' /\ LedgerStep
  \/ intact' = FALSE

Spec == Init /\ [][Next]_lvars

=============================================================================
