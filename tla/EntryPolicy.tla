------------------------------ MODULE EntryPolicy ------------------------------
(***************************************************************************)
(* The entry decision of one contract: decide (entry/decision.py), applied *)
(* to each scan by the forward engine (forward/engine.py), and the replay  *)
(* of the same policy over the recorded scans (entry/research.py), which   *)
(* has its own, vectorised, copy of the conditions.                        *)
(*                                                                         *)
(* A scan is a record of what decide reads.  Probabilities, disagreement   *)
(* and crossing risk are in hundredths.  Two flags of DecisionInputs and   *)
(* one of RiskDiagnostics (rollover, inconsistent diagnostics, developing  *)
(* trend) keep their defaults in the engine and in the replay, and are     *)
(* left out.                                                               *)
(***************************************************************************)
EXTENDS Naturals, Integers, Sequences, Ladder

CONSTANTS
  None,        \* an Optional threshold that is not set, or no entry
  Scans,       \* the scans that may be observed
  Policies,    \* the policies
  MaxScans     \* bound: scans of the contract

\* What decide may be given.  A fragility is clipped to 0 .. 100, and a
\* disagreement and a crossing risk come from probabilities; what has no number
\* is not a limit of zero.
ScanType ==
  [fresh : BOOLEAN, reference : BOOLEAN, contract : BOOLEAN, history : BOOLEAN,
   finite : BOOLEAN, sec : Int, p : Int, lcb : Int, z : Int,
   frag : 0 .. 100, dis : 0 .. 100, cross : 0 .. 100, crossings : Nat]

Limit == Nat \cup {None}

PolicyType ==
  [threshold : Nat, lcb : Limit, maxFrag : Limit, maxDis : Limit,
   maxCross : Limit, maxCrossings : Limit, maxSec : Nat, minSec : Nat,
   minZ : Nat, earlyWait : Nat, noTrade : Nat]

ASSUME ScansAssumption ==
  /\ MaxScans \in Nat \ {0} /\ None \notin Nat
  /\ Scans \subseteq ScanType /\ Policies \subseteq PolicyType

VARIABLES
  policy,      \* the policy in force
  scans,       \* the scans of the contract, oldest first
  entry        \* the index of the scan the engine recorded an entry for, or None

entryVars == <<policy, scans, entry>>

-----------------------------------------------------------------------------
\* combine_channels and conservative_lower_bound: the Gaussian channel g is the
\* anchor; the bound and the disagreement are read on the side it would take.
Channels(g, t) ==
  LET onside == IF g >= 50 THEN {g, t} ELSE {100 - g, 100 - t}
  IN  [p |-> g, lcb |-> Min(onside), dis |-> Max(onside) - Min(onside)]

\* ProbabilityState.confidence and .side.
Confidence(s) == IF s.p >= 100 - s.p THEN s.p ELSE 100 - s.p
Side(s) == IF s.p >= 50 THEN "YES" ELSE "NO"

Distance(z) == IF z < 0 THEN -z ELSE z

AtMost(x, limit)  == limit = None \/ x <= limit
AtLeast(x, limit) == limit = None \/ x >= limit

\* _invalid: the first reason not to trust the inputs.
Doubts(s) == <<
  Rung(~s.fresh, "STALE_DATA"),
  Rung(~s.reference, "MISSING_REFERENCE"),
  Rung(~s.contract, "INVALID_CONTRACT_ID"),
  Rung(~s.history, "INSUFFICIENT_HISTORY"),
  Rung(~s.finite, "NONFINITE_INPUT"),
  Rung(s.sec \notin 0 .. 900, "INVALID_TIME_REMAINING"),
  Rung(s.p \notin 0 .. 100 \/ s.lcb \notin 0 .. Confidence(s),
       "INCONSISTENT_PROBABILITY"),
  Rung(\/ s.frag \notin 0 .. 100 \/ s.dis \notin 0 .. 100
       \/ s.cross \notin 0 .. 100, "INCONSISTENT_DIAGNOSTICS")>>

Invalid(s) == FirstOf(Doubts(s), "OK")

Refuse(decision, reason) == [decision |-> decision, reason |-> reason]

\* decide: the ladder of refusals of one policy.
Refusals(s, pol) == <<
  Rung(s.sec <= pol.noTrade, Refuse("NO_TRADE", "ENTRY_WINDOW_EXPIRED")),
  Rung(~AtMost(s.crossings, pol.maxCrossings),
       Refuse("NO_TRADE", "CHOP_UNSTABLE")),
  Rung(s.sec > pol.maxSec \/ (pol.earlyWait > 0 /\ s.sec > pol.earlyWait),
       Refuse("WAIT", "EARLY_INSUFFICIENT_INFORMATION")),
  Rung(s.sec < pol.minSec, Refuse("NO_TRADE", "TOO_LATE")),
  Rung(Confidence(s) < pol.threshold, Refuse("WAIT", "PROBABILITY_TOO_LOW")),
  Rung(~AtLeast(s.lcb, pol.lcb),
       Refuse("WAIT", "CONSERVATIVE_BOUND_TOO_LOW")),
  Rung(Distance(s.z) < pol.minZ, Refuse("WAIT", "BUFFER_TOO_SMALL")),
  Rung(~AtMost(s.frag, pol.maxFrag), Refuse("WAIT", "FRAGILITY_TOO_HIGH")),
  Rung(~AtMost(s.dis, pol.maxDis), Refuse("WAIT", "DISAGREEMENT_TOO_HIGH")),
  Rung(~AtMost(s.cross, pol.maxCross),
       Refuse("WAIT", "CROSSING_RISK_TOO_HIGH"))>>

Decide(s, pol) ==
  IF Invalid(s) # "OK" THEN Refuse("DATA_HOLD", Invalid(s))
  ELSE FirstOf(Refusals(s, pol),
         Refuse(IF Side(s) = "YES" THEN "ENTER_YES" ELSE "ENTER_NO", "ELIGIBLE"))

Enters(s, pol) == Decide(s, pol).decision \in {"ENTER_YES", "ENTER_NO"}

-----------------------------------------------------------------------------
\* Mutant of Eligible: the entry window is open at its last second.
EligibleAtTheLastSecond(s, pol) ==
  /\ s.fresh /\ s.reference /\ s.contract /\ s.history /\ s.finite
  /\ s.sec \in 0 .. 900 /\ s.p \in 0 .. 100 /\ s.lcb \in 0 .. 100
  /\ s.lcb <= Confidence(s) /\ Confidence(s) >= pol.threshold
  /\ s.sec <= pol.maxSec /\ s.sec >= pol.minSec /\ s.sec >= pol.noTrade
  /\ Distance(s.z) >= pol.minZ
  /\ (pol.earlyWait > 0 => s.sec <= pol.earlyWait)
  /\ AtLeast(s.lcb, pol.lcb) /\ AtMost(s.frag, pol.maxFrag)
  /\ AtMost(s.dis, pol.maxDis) /\ AtMost(s.cross, pol.maxCross)
  /\ AtMost(s.crossings, pol.maxCrossings)

\* apply_policy_once: the vectorised conjunction of one row.
Eligible(s, pol) ==
  /\ s.fresh /\ s.reference /\ s.contract /\ s.history /\ s.finite
  /\ s.sec \in 0 .. 900 /\ s.p \in 0 .. 100 /\ s.lcb \in 0 .. 100
  /\ s.lcb <= Confidence(s) /\ Confidence(s) >= pol.threshold
  /\ s.sec <= pol.maxSec /\ s.sec >= pol.minSec /\ s.sec > pol.noTrade
  /\ Distance(s.z) >= pol.minZ
  /\ (pol.earlyWait > 0 => s.sec <= pol.earlyWait)
  /\ AtLeast(s.lcb, pol.lcb) /\ AtMost(s.frag, pol.maxFrag)
  /\ AtMost(s.dis, pol.maxDis) /\ AtMost(s.cross, pol.maxCross)
  /\ AtMost(s.crossings, pol.maxCrossings)

\* entry_time_bucket, named by its lower end (600: earlier than T-600).
Bucket(sec) == Max({0} \cup {low \in {30, 60, 120, 180, 300, 450, 600} : low < sec})

\* apply_policy_once: the row kept for the contract, and what is recorded of it.
\* An entered row that decide refuses raises instead (the verdict "error").
Replay(rows, pol) ==
  LET eligible == {k \in DOMAIN rows : Eligible(rows[k], pol)}
      entered  == eligible # {}
      chosen   == IF entered THEN Min(eligible) ELSE Len(rows)
  IN  [index |-> chosen, entered |-> entered,
       verdict |-> IF entered /\ ~Enters(rows[chosen], pol) THEN "error"
                   ELSE Decide(rows[chosen], pol).decision,
       bucket |-> Bucket(rows[chosen].sec)]

-----------------------------------------------------------------------------
EntryInit ==
  /\ policy \in Policies
  /\ scans = <<>> /\ entry = None

\* ForwardEngine.process: one scan; the first one that enters is recorded
\* (has_entry).  Scans come with less and less time remaining.
Process(s) ==
  /\ Len(scans) < MaxScans
  /\ \A k \in DOMAIN scans : s.sec < scans[k].sec
  /\ scans' = Append(scans, s)
  /\ entry' = IF entry = None /\ Enters(s, policy) THEN Len(scans') ELSE entry
  /\ UNCHANGED policy

EntryNext == \E s \in Scans : Process(s)

EntrySpec == EntryInit /\ [][EntryNext]_entryVars

-----------------------------------------------------------------------------
\* The replay enters where the engine did, at every point of the contract's
\* life, and never fails: the vectorised conditions and the ladder of decide
\* agree on every scan, whatever the order in which the ladder refuses
\* (apply_policy_once: "exactly the conjunction in decide").
ReplayAgreesWithEngine ==
  scans # <<>> =>
    LET r == Replay(scans, policy)
    IN  /\ r.verdict # "error"
        /\ r.entered <=> entry # None
        /\ r.entered => r.index = entry
        /\ r.entered => r.bucket < policy.maxSec

=============================================================================
