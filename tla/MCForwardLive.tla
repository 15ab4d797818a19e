----------------------------- MODULE MCForwardLive -----------------------------
(***************************************************************************)
(* ForwardLive with one and with two assets.                               *)
(***************************************************************************)
EXTENDS ForwardLive

CONSTANTS btc, eth

OneAsset  == <<btc>>
TwoAssets == <<btc, eth>>

=============================================================================
