---------------------------- MODULE MCForwardStore ----------------------------
(***************************************************************************)
(* Evidence that is kept in append-only files, and judged later: a stream  *)
(* of ForwardStore, the evaluations of SVI (SVIEvidence) and the record of *)
(* its shadow specialist (SVIResearch).  They share no state, so what one  *)
(* does is the same whatever the others are doing; a behaviour moves one   *)
(* of them, chosen at the start, and leaves the others where they began.   *)
(***************************************************************************)
EXTENDS ForwardStore, Integers, TLC

CONSTANTS i1, i2, i3, k1, k2, btc, eth, sol, NONE

CONSTANTS Scanned, Passes, Window, MaxTime, MaxRuns, MaxScans, MaxFaults,   \* see SVIEvidence
          Judged, Cases, MinimumSample, MinimumAssets, MaxCases            \* see SVIResearch

VARIABLES
  part,       \* the part that moves
  events, rows, count, sink, seen, report, panel, pc, now, at,
  made, unacked, joined, run, faults, scans,   \* see SVIEvidence
  cases       \* see SVIResearch

MCIds  == {i1, i2, i3}
MCKeys == {k1, k2}

\* Identifiers and keys are only compared with each other.
MCSymmetry == Permutations(MCIds) \cup Permutations(MCKeys)

\* An asset with a signal; one with another signal, which is no bargain, while
\* the benchmark raises; and one without a market.
Book  == [yesBid |-> 58, yesAsk |-> 62, noBid |-> 38, noAsk |-> 42]
Offer == [side |-> "YES", p |-> 80, lcb |-> 75, ask |-> 62, valid |-> TRUE,
          distance |-> 5, book |-> Book]
Pass(offer, failing) == [selection |-> [a \in {btc} |-> offer], failing |-> failing]
MCScanned == <<btc>>
MCPasses ==
  {Pass(Offer, {}),
   Pass([Offer EXCEPT !.side = "NO", !.ask = 90, !.valid = FALSE, !.distance = -5],
        {"KALSHI_MARKET_IMPLIED"}),
   Pass([side |-> NONE, p |-> NONE, lcb |-> NONE, ask |-> NONE, valid |-> FALSE,
         distance |-> NONE, book |-> NONE], {})}

Evidence == INSTANCE SVIEvidence WITH
  AssetSeq <- Scanned, file <- events, merged <- joined

\* A contract on which the shadow specialist does better than the benchmark, a
\* little or much, or worse, and those on which one of the two is silent.
Case(m, b, s, yes) == [m |-> m, b |-> b, s |-> s, yes |-> yes]
MCJudged == <<btc, eth, sol>>
MCCases == {Case(7, 6, 8, TRUE), Case(8, 5, 9, TRUE), Case(7, 7, 8, FALSE),
            Case(3, 4, 2, FALSE), Case(7, NONE, 8, TRUE), Case(6, 6, NONE, TRUE)}

Research == INSTANCE SVIResearch WITH AssetSeq <- Judged

ASSUME EvidenceAssumption == Evidence!EvidenceBounds
ASSUME PassesAssumption == Evidence!PassesAreReal
ASSUME ResearchAssumption == Research!ResearchBounds

sviVars == <<events, rows, count, sink, seen, report, panel, pc, now, at,
             made, unacked, joined, run, faults, scans>>

AllInit ==
  /\ Init /\ Evidence!SviInit /\ Research!ResearchInit
  /\ part \in {"store", "svi", "research"}

Store(action)  == part = "store" /\ action /\ UNCHANGED <<part, sviVars, cases>>
Svi(action)    == part = "svi" /\ action /\ UNCHANGED <<part, vars, cases>>
Assess(action) == part = "research" /\ action /\ UNCHANGED <<part, vars, sviVars>>

AllNext ==
  \/ Store(Open) \/ Store(Crash)
  \/ \E r \in Rows : Store(AppendRow(r)) \/ Store(AppendError(r))
  \/ Svi(Evidence!Start) \/ Svi(Evidence!Scan) \/ Svi(Evidence!Evaluate)
  \/ Svi(Evidence!EvaluateRaises) \/ Svi(Evidence!Dies) \/ Svi(Evidence!Report)
  \/ Svi(Evidence!Sleep) \/ Svi(Evidence!Leave) \/ Svi(Evidence!Tick)
  \/ Assess(Research!Resolve)

AllSpec == AllInit /\ [][AllNext]_<<part, vars, sviVars, cases>>

\* What the screen shows as resolved is what is on file (SVIEvidence).
ReportIsCurrent == Evidence!ReportIsCurrent

\* The evidence passes its audit (SVIEvidence).
EvidencePasses == Evidence!EvidencePasses

\* No contract decides alone what is put forward for review (SVIResearch).
NoCaseDecides == Research!NoCaseDecides

=============================================================================
