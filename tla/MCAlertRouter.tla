----------------------------- MODULE MCAlertRouter -----------------------------
(***************************************************************************)
(* AlertRouter with one asset and two request threads.                     *)
(***************************************************************************)
EXTENDS AlertRouter, TLC

CONSTANTS btc, r1, r2

MCAssets   == <<btc>>
MCRequests == {r1, r2}
Symmetry   == Permutations(MCRequests)

=============================================================================
