--------------------------- MODULE MCContractRecorder ---------------------------
(***************************************************************************)
(* ContractRecorder over three windows of two minutes, with a price that   *)
(* goes to and fro, and a user who may supply a contract.                  *)
(***************************************************************************)
EXTENDS ContractRecorder

MCPaths == {[t \in Minutes |-> IF t \in {0, 1, 3} THEN 1 ELSE 2]}

MCRecords ==
  {[win |-> 0, ref |-> 2, rule |-> "AT_OR_ABOVE"],
   [win |-> 1, ref |-> 1, rule |-> "UNKNOWN"]}

=============================================================================
