----------------------------- MODULE MCManualSignal -----------------------------
(***************************************************************************)
(* ManualSignal with two assets that differ in name only.                  *)
(***************************************************************************)
EXTENDS ManualSignal

CONSTANTS btc, eth

MCAssets == {btc, eth}

=============================================================================
