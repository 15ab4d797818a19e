----------------------------- MODULE MCManualScan -----------------------------
(***************************************************************************)
(* ManualScan with two assets: the first one's model is at and next to the *)
(* limits of the policies, the second one's passes them all.               *)
(***************************************************************************)
EXTENDS ManualScan

CONSTANTS btc, eth

MCAssetSeq == <<btc, eth>>
MCAssets   == {btc, eth}
MCMoody    == {btc}

Snap(conf, lcb, dist) ==
  [yes |-> TRUE, conf |-> conf, lcb |-> lcb, frag |-> 50, dis |-> 500,
   cross |-> 3500, crossings |-> 4, dist |-> dist, p50 |-> 2, p95 |-> 6]

\* Passed by the two wider policies and by the widest only (on
\* account of its reference tier), each at its limits.
MCSnaps ==
  [a \in MCAssets |->
     IF a = btc
       THEN {Snap(9200, 8750, 6), Snap(9500, 9000, 5)}
       ELSE {Snap(9960, 9900, 6)}]

\* YES asks that cost 86, 88 and, without a NO ask, 88 cents with their fees.
MCBooks ==
  [a \in MCAssets |->
     {[yes |-> {8500}, no |-> {1000, 1300}]} \cup
     IF a = btc
       THEN {[yes |-> {8000}, no |-> {1500, 1300}], [yes |-> {}, no |-> {1300}]}
       ELSE {}]

=============================================================================
