------------------------------- MODULE MCBacktest -------------------------------
(***************************************************************************)
(* The programs that learn from history: Backtest, with a history of two   *)
(* assets, and Phases, on tables of up to eight windows of two assets.     *)
(* They run one at a time on files of their own, so a behaviour moves one  *)
(* of them, chosen at the start, and leaves the other where it began.      *)
(***************************************************************************)
EXTENDS Backtest

CONSTANTS
  PhaseFolds, Tables, Challengers, FeatureSets, Families, Steadfast, Unquoted,
  Thresholds, MinCal, MinPool, MinReported, MinTrades, Sample, Runs   \* see Phases

VARIABLES
  mover,  \* which of the two moves
  program, step, begun, table, scores, fitted, verdict, chosen, disk   \* see Phases

MCAssets == <<"BTC", "ETH">>

-----------------------------------------------------------------------------
\* A row of asset a; each pattern moves one of its fields from window to window.
Row(w, a, pattern) ==
  [window |-> w, asset |-> a,
   left   |-> IF pattern = "left" THEN (w + a) % 2 ELSE 1,
   vol    |-> IF pattern = "vol" THEN w % 4 ELSE a,
   conf   |-> CASE pattern = "sure"  -> 2
                [] pattern = "split" -> 2 * (a - 1)
                [] OTHER             -> (w + 2 * a) % 3]

\* A table of n windows, the last one without the second asset if it is ragged.
TableOf(n, pattern, ragged) ==
  [i \in 1 .. (IF ragged THEN 2 * n - 1 ELSE 2 * n) |->
     Row(((i - 1) % n) + 1, ((i - 1) \div n) + 1, pattern)]

\* One that no block can be cut from, one in which few rows are sure, and those in
\* which volatility, confidence and the asset decide.
MCTables ==
  {TableOf(3, "left", FALSE), TableOf(8, "left", TRUE), TableOf(8, "vol", FALSE),
   TableOf(8, "sure", FALSE), TableOf(8, "split", FALSE)}

MCChallengers == <<"B_logistic", "C_logistic_l1">>

Ph == INSTANCE Phases WITH Folds <- PhaseFolds

ASSUME PhaseAssumption == Ph!PhaseConstants

phaseVars == <<program, step, begun, table, scores, fitted, verdict, chosen, disk>>

-----------------------------------------------------------------------------
ResearchInit == mover \in {"backtest", "phases"} /\ StudyInit /\ Ph!PhaseInit

Live(action)  == mover = "backtest" /\ action /\ UNCHANGED <<mover, phaseVars>>
Learn(action) == mover = "phases" /\ action /\ UNCHANGED <<mover, studyVars>>

ResearchNext ==
  \/ Live(Elapse)
  \/ Live(Study)
  \/ Learn(Ph!Start)
  \/ Learn(Ph!End)
  \/ Learn(Ph!WalkModels)
  \/ Learn(Ph!Pair)
  \/ Learn(Ph!Ablate)
  \/ Learn(Ph!Choose)
  \/ Learn(Ph!Slice)
  \/ Learn(Ph!Final)
  \/ Learn(Ph!SaveModel)
  \/ Learn(Ph!SaveCoefficients)
  \/ Learn(Ph!SaveSummary4)
  \/ Learn(Ph!BuildPools)
  \/ Learn(Ph!SimulatePaths)
  \/ Learn(Ph!CompareChannels)
  \/ Learn(Ph!Agree)
  \/ Learn(Ph!CompareFragility)
  \/ Learn(Ph!CompareVolatility)
  \/ Learn(Ph!SaveSummary5)
  \/ Learn(Ph!SaveReport5)
  \/ Learn(Ph!SelectPolicies)
  \/ Learn(Ph!ScoreHoldout)
  \/ Learn(Ph!SaveEntries)
  \/ Learn(Ph!SaveFrontier)
  \/ Learn(Ph!SaveCandidates)
  \/ Learn(Ph!SaveSummary6)
  \/ Learn(Ph!SaveReports6)

ResearchSpec == ResearchInit /\ [][ResearchNext]_<<mover, studyVars, phaseVars>>

\* Nothing but drawn paths is judged on rows that did not come after all outcomes it
\* learned; what rests on the rows held out are the exceptions that Phases names.
JudgedByTheFuture == Ph!JudgedByTheFuture

\* No file tells of a run whose earlier files are not on disk (Phases).
ReportedIsSaved == Ph!ReportedIsSaved

=============================================================================
