----------------------------- MODULE MCShadowStore -----------------------------
(***************************************************************************)
(* The settled contracts of Kalshi: ShadowStore, with one asset, whose     *)
(* windows give contracts enough, and KalshiStudies, on two assets.  They  *)
(* share no file, so a behaviour moves one of them, chosen at the start,   *)
(* and leaves the other where it began.                                    *)
(***************************************************************************)
EXTENDS ShadowStore

CONSTANTS
  btc, NONE, Torn,
  StudyAssets, ChunkOf, Cuts, Listings, Least, MinBars, MinComplete, MinBounds,
  Entering, Entries, Eligible, Candidates, Frozen, Runs   \* see KalshiStudies

VARIABLES
  part,       \* the part that moves
  chunks, markets, model, manifest, reports, study, place, runs, listed,
  rows, picked, hash, scores   \* see KalshiStudies

MCAssets == <<btc>>

-----------------------------------------------------------------------------
\* Ten windows in two chunks, and two candidates, of which one has nothing to
\* fit; lists that reach back to the first window or not; entries in two windows
\* of each split.
MCStudyAssets == {"BTC", "ETH"}
MCChunks      == <<1 .. 5, 6 .. 10>>
MCCuts        == {3}
MCFrozen      == <<"hist_gradient_boosting", "platt">>
MCCandidates  == {<<"statistical", "isotonic">>, MCFrozen}
MCListings    == {1 .. 10, 4 .. 10}
MCEntering    == {1, 2, 7, 8, 9, 10} \X {"BTC"}

Ks == INSTANCE KalshiStudies WITH Assets <- StudyAssets, at <- place

ASSUME StudyAssumption == Ks!StudyConstants

studyVars == <<chunks, markets, model, manifest, reports, study, place, runs, listed,
               rows, picked, hash, scores>>

-----------------------------------------------------------------------------
ContractsInit == part \in {"collector", "studies"} /\ Init /\ Ks!StudyInit

Collect(action) == part = "collector" /\ action /\ UNCHANGED <<part, studyVars>>
Learn(action)   == part = "studies" /\ action /\ UNCHANGED <<part, vars>>

ContractsNext ==
  \/ Collect(Open)
  \/ Collect(Scan)
  \/ Collect(Resolve)
  \/ Collect(NoResult)
  \/ Collect(ResolveFails)
  \/ Collect(ResolveDone)
  \/ Collect(Observe)
  \/ Collect(NoData)
  \/ Collect(Candidate)
  \/ Collect(AppendFails)
  \/ Collect(EndScan)
  \/ Collect(Leave)
  \/ Collect(Crash)
  \/ Collect(Tick)
  \/ \E a \in StudyAssets, k \in DOMAIN ChunkOf : Learn(Ks!Download(a, k))
  \/ \E report \in Ks!Reports : Learn(Ks!SaveReport(report))
  \/ Learn(Ks!Start)
  \/ Learn(Ks!End)
  \/ Learn(Ks!ReadContracts)
  \/ Learn(Ks!ReadHistory)
  \/ Learn(Ks!HashData)
  \/ Learn(Ks!SaveList)
  \/ Learn(Ks!ReplayPolicy)
  \/ Learn(Ks!Choose)
  \/ Learn(Ks!SaveModel)
  \/ Learn(Ks!SaveManifest)
  \/ Learn(Ks!OpenHoldout)
  \/ Learn(Ks!Verify)
  \/ Learn(Ks!Compare)
  \/ Learn(Ks!Measure)
  \/ Learn(Ks!Bound)

ContractsSpec == ContractsInit /\ [][ContractsNext]_<<part, vars, studyVars>>

\* What a study judges came after what it learned (KalshiStudies).
HoldoutStaysSealed == Ks!HoldoutStaysSealed

=============================================================================
