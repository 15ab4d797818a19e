--------------------------------- MODULE Phases ---------------------------------
(***************************************************************************)
(* The research programs mantis_v4_phase4.py, mantis_v4_phase5.py and      *)
(* mantis_v4_phase6.py: which rows of the table each thing they fit, tune  *)
(* or choose rests on, which rows it is then judged on, and which of their *)
(* files are on disk when a run ends, however it ends.  What a model       *)
(* predicts is left out; who beats whom is any outcome the code can print. *)
(* A row has a window, an asset, the time left when it was scanned, a      *)
(* volatility and the highest threshold that confidence in it reaches; it  *)
(* stands for the whole contract.                                          *)
(***************************************************************************)
EXTENDS WalkForward

CONSTANTS
  None,
  Tables,       \* the tables the history may hold when a program starts
  Challengers,  \* the models with parameters, in the order of their names
  FeatureSets,  \* the steps of the ablation ladder, without the baseline
  Families,     \* families of entry policies
  Steadfast,    \* those of them that ask for little fragility
  Unquoted,     \* those the findings of phase 6 do not quote
  Thresholds,   \* thresholds of confidence
  MinCal,       \* the 50 rows below which nothing is calibrated
  MinPool,      \* min_samples
  MinReported,  \* the 30 to 1000 rows below which phase 5 leaves out a slice,
                \* a channel or an estimator
  MinTrades,    \* the 30 trades below which a policy is not preferred
  Sample,       \* mc_sample
  Runs          \* runs of any program

Normal   == "A_normal_z"
Models   == {Challengers[k] : k \in DOMAIN Challengers}
Words    == {"better", "worse", "same"}
Programs == {"phase4", "phase5", "phase6"}

RowType == [window : Nat, asset : Nat, left : Nat, vol : Nat, conf : Nat]

PhaseConstants ==
  /\ SplitConstants /\ None \notin Programs
  /\ DOMAIN Challengers \subseteq Nat /\ Normal \notin Models
  /\ \A t \in Tables : t \in Seq(RowType)
  /\ {MinCal, MinPool, MinReported, MinTrades, Sample, Runs} \subseteq Nat \ {0}
  /\ Unquoted \cup Steadfast \subseteq Families /\ Thresholds \subseteq Nat \ {0}

VARIABLES
  program,  \* the program that runs, or None
  step,     \* the position of its next step
  begun,    \* runs begun
  table,    \* the table it built
  scores,   \* what it judged, and the rows that it rests on (see Score)
  fitted,   \* what it fitted or chose for later use, and the rows likewise
  verdict,  \* its comparison of each challenger with the baseline
  chosen,   \* the model, or the policies, it settled on
  disk      \* of each file, the run that wrote it and what it tells of

phaseVars == <<program, step, begun, table, scores, fitted, verdict, chosen, disk>>

Files ==
  ({"model", "coefficients"} \X Models) \cup
  {<<f, Normal>> : f \in {"model", "summary4", "summary5", "report5", "entries",
                          "frontier", "candidates", "summary6", "reports6"}}

-----------------------------------------------------------------------------
\* (A mutant: the summary of phase 4 is written before the model.)
StepsSummaryFirst(p) ==
  IF p = "phase4" THEN <<"walk", "pair", "ablate", "choose", "slice", "final",
                         "summary4", "model", "coefficients">>
  ELSE IF p = "phase5" THEN <<"pools", "paths", "channels", "agree", "fragility",
                              "volatility", "summary5", "report5">>
  ELSE <<"select", "score", "entries", "frontier", "candidates", "summary6", "reports6">>

\* The steps of the programs, in order.
Steps(p) ==
  CASE p = "phase4" -> <<"walk", "pair", "ablate", "choose", "slice", "final",
                         "model", "coefficients", "summary4">>
    [] p = "phase5" -> <<"pools", "paths", "channels", "agree", "fragility",
                         "volatility", "summary5", "report5">>
    [] p = "phase6" -> <<"select", "score", "entries", "frontier", "candidates",
                         "summary6", "reports6">>

At(p, s) == program = p /\ Steps(p)[step] = s

\* The program goes on to its next step.
Advance == step' = step + 1 /\ UNCHANGED <<program, begun, table>>

\* What a program does not write it forgets when it ends.
Forget ==
  /\ program' = None /\ step' = 1 /\ table' = << >>
  /\ scores' = {} /\ fitted' = {} /\ verdict' = << >> /\ chosen' = Normal
  /\ UNCHANGED begun

Put(file, of) == disk' = [disk EXCEPT ![file] = [run |-> begun, of |-> of]]

Write(file) ==
  /\ Put(file, IF program = "phase4" THEN chosen ELSE Normal)
  /\ IF step = Len(Steps(program)) THEN Forget
     ELSE Advance /\ UNCHANGED <<scores, fitted, verdict, chosen>>

-----------------------------------------------------------------------------
\* What is fitted on what.

Dev      == Positions(table) \ Holdout(table)
Splits   == GroupedWalkForward(table, Dev)
TestRows == UNION {s.test : s \in Splits}

\* What is judged rests on rows it learned outcomes or moves from, on rows it has
\* seen the values of but not the outcomes, and on rows by whose outcomes it was
\* chosen among others.
Score(of, learned, seen, chosenBy, judged) ==
  [of |-> of, learned |-> learned, seen |-> seen, chosenBy |-> chosenBy,
   judged |-> judged]

Made(what, from, seen) == [what |-> what, from |-> from, seen |-> seen]

\* assert_split_integrity.
Integrity(s) ==
  \A v \in WindowsOf(table, s.train), w \in WindowsOf(table, s.test) : v < w

\* What fitting takes from some rows: the baseline has nothing to fit.  What a
\* calibrator takes: too few rows leave the identity.
Fitted(model, rows) == IF model = Normal THEN {} ELSE rows
Calibrated(rows)    == IF Cardinality(rows) < MinCal THEN {} ELSE rows

\* What a model with parameters reads are the features that are there often enough
\* in the whole table, the rows held out included.
Columns(model) == Fitted(model, Positions(table))

\* The rows a model is fitted on and those its calibrator is; the baseline
\* leaves all of them to its calibrator.
FitRows(model, train) == Fitted(model, train \ Calibration(table, train))
CalRows(model, train) ==
  Calibrated(IF model = Normal THEN train ELSE Calibration(table, train))

Learned(model, train) == FitRows(model, train) \cup CalRows(model, train)

\* run_walk_forward: a fresh model and calibrator for each fold.
RunWalkForward(model) ==
  {Score(model, Learned(model, s.train), Columns(model), {}, s.test) : s \in Splits}

Judged(model) == UNION {s.judged : s \in {s \in scores : s.of = model}}

\* clustered_bootstrap draws windows: with fewer than two there is no interval,
\* and nothing is said to be better or worse.
HasInterval(rows) == Cardinality(WindowsOf(table, rows)) >= 2

Comparisons(names, rows(_)) ==
  {v \in [names -> Words] : \A m \in names : HasInterval(rows(m)) \/ v[m] = "same"}

\* Slices of some rows: those confidence takes at each threshold, those it
\* puts in each bucket of a reliability table, those of each time of entry.
\* An empty one is not scored.
SelectivePrediction(rows) == {{i \in rows : table[i].conf >= t} : t \in Thresholds}
ReliabilityTable(rows)    == {{i \in rows : table[i].conf = c} : c \in Thresholds \cup {0}}
ByEntryTime(rows)         == {{i \in rows : table[i].left = l} : l \in {table[i].left : i \in rows}}

Sliced(of, score, chosenBy, slices) ==
  {Score(of, score.learned, score.seen, chosenBy, rows) : rows \in slices \ {{}}}

\* compute_fragility: a row is as fragile as its volatility is high on the scale
\* of the rows scored with it, earlier and later ones.
Fragile(batch, i) ==
  2 * Cardinality({k \in batch : table[k].vol < table[i].vol}) >= Cardinality(batch)

-----------------------------------------------------------------------------
\* Phase 4.

WalkModels ==
  /\ At("phase4", "walk") /\ \A s \in Splits : Integrity(s)
  /\ scores' = UNION {RunWalkForward(m) : m \in Models \cup {Normal}}
  /\ Advance
  /\ UNCHANGED <<fitted, verdict, chosen, disk>>

\* On the rows the model and the baseline both predicted.
Pair ==
  /\ At("phase4", "pair")
  /\ verdict' \in Comparisons(Models, LAMBDA m : Judged(m) \cap Judged(Normal))
  /\ Advance
  /\ UNCHANGED <<scores, fitted, chosen, disk>>

Ablate ==
  /\ At("phase4", "ablate")
  /\ scores' = scores \cup UNION {RunWalkForward(f) : f \in FeatureSets}
  /\ Advance
  /\ UNCHANGED <<fitted, verdict, chosen, disk>>

\* The first by name of those that beat the baseline.
Choose ==
  /\ At("phase4", "choose")
  /\ LET winners == {k \in DOMAIN Challengers : verdict[Challengers[k]] = "better"}
     IN  chosen' = IF winners = {} THEN Normal ELSE Challengers[Min(winners)]
  /\ fitted' = fitted \cup {Made("choice", TestRows, Positions(table))}
  /\ Advance
  /\ UNCHANGED <<scores, verdict, disk>>

\* Selective prediction and the times of entry, on the rows the choice was
\* made on.
Slice ==
  /\ At("phase4", "slice")
  /\ scores' = scores \cup
       UNION {Sliced("slices", s, TestRows,
                     SelectivePrediction(s.judged) \cup ByEntryTime(s.judged)) :
                s \in {s \in scores : s.of = chosen}}
  /\ Advance
  /\ UNCHANGED <<fitted, verdict, chosen, disk>>

\* What fit_final_model fits the artefact on.
FinalRows == Dev

\* The artefact is fitted and judged on the rows held out; so is a baseline that
\* has no calibrator.  The seal compares the windows of the development table.
Final ==
  /\ At("phase4", "final")
  /\ WindowsOf(table, Dev) \cap WindowsOf(table, Holdout(table)) = {}
  /\ fitted' = fitted \cup
       {Made("model", FitRows(chosen, FinalRows), Columns(chosen)),
        Made("calibrator", CalRows(chosen, FinalRows), Columns(chosen))}
  /\ LET final == Score("final", Learned(chosen, FinalRows), Columns(chosen), TestRows,
                        Holdout(table))
     IN  scores' = scores \cup {final, Score("baseline", {}, {}, {}, Holdout(table))}
           \cup Sliced("final", final, TestRows, ReliabilityTable(Holdout(table))
                         \cup SelectivePrediction(Holdout(table)))
  /\ Advance
  /\ UNCHANGED <<verdict, chosen, disk>>

SaveModel == At("phase4", "model") /\ Write(<<"model", chosen>>)

\* The baseline has no coefficients, and no file of them.
SaveCoefficients ==
  /\ At("phase4", "coefficients")
  /\ IF chosen = Normal
       THEN Advance /\ UNCHANGED <<scores, fitted, verdict, chosen, disk>>
       ELSE Write(<<"coefficients", chosen>>)

SaveSummary4 == At("phase4", "summary4") /\ Write(<<"summary4", Normal>>)

-----------------------------------------------------------------------------
\* Phase 5.

\* (A mutant: the training block of the last fold.)
LastBlock ==
  (CHOOSE s \in Splits : \A t \in Splits :
     Min(WindowsOf(table, s.test)) >= Min(WindowsOf(table, t.test))).train

\* The training block of the first fold.
FitBlock ==
  (CHOOSE s \in Splits : \A t \in Splits :
     Min(WindowsOf(table, s.test)) <= Min(WindowsOf(table, t.test))).train

\* EmpiricalTerminalModel: the outcomes at the same distance from the end if
\* they are enough, and otherwise all of them.
EmpiricalPool(i) ==
  LET same == {k \in FitBlock : table[k].left = table[i].left}
  IN  IF Cardinality(same) >= MinPool THEN same ELSE FitBlock

\* The third of the block that the volatility of a row is in.
VolBucket(i) ==
  LET lower == {k \in FitBlock : table[k].vol < table[i].vol}
  IN  Min({2, (3 * Cardinality(lower)) \div Cardinality(FitBlock)})

\* The pool of EmpiricalBootstrapModel: the most specific that is large enough.
PoolAt(i, level) ==
  {k \in FitBlock :
     /\ level <= 3 => table[k].left = table[i].left
     /\ level <= 2 => VolBucket(k) = VolBucket(i)
     /\ level = 1 => table[k].asset = table[i].asset}

BootstrapPool(i) ==
  LET enough == {level \in 1 .. 4 : Cardinality(PoolAt(i, level)) >= MinPool}
  IN  IF enough = {} THEN {} ELSE PoolAt(i, Min(enough))

\* A row without a pool gets no estimate; the buckets rest on the whole block.
Bootstrapped == {i \in TestRows : BootstrapPool(i) # {}}

\* With no fold there is nothing to evaluate, and the program ends.
BuildPools ==
  /\ At("phase5", "pools") /\ Splits # {}
  /\ fitted' = fitted \cup
       {Made(what, FitBlock, {}) : what \in {"normality", "student_t", "pools"}}
  /\ scores' =
       {Score("gaussian", {}, {}, {}, TestRows),
        Score("student_t", FitBlock, {}, {}, TestRows)}
         \cup {Score("empirical", EmpiricalPool(i), {}, {}, {i}) : i \in TestRows}
         \cup {Score("bootstrap", BootstrapPool(i) \cup FitBlock, {}, {}, {i}) :
                 i \in Bootstrapped}
  /\ Advance
  /\ UNCHANGED <<verdict, chosen, disk>>

\* Paths are drawn for a sample of the rows, from the moves of the whole history
\* of an asset.
SimulatePaths ==
  /\ At("phase5", "paths")
  /\ LET n == IF Cardinality(TestRows) < Sample THEN Cardinality(TestRows) ELSE Sample
     IN  \E rows \in kSubset(n, TestRows) :
           scores' = scores \cup {Score("monte_carlo", Positions(table), {}, {}, rows)}
  /\ Advance
  /\ UNCHANGED <<fitted, verdict, chosen, disk>>

Channels == {"student_t", "empirical", "bootstrap", "monte_carlo"}

CompareChannels ==
  /\ At("phase5", "channels")
  /\ verdict' \in Comparisons({c \in Channels : Cardinality(Judged(c)) >= MinReported},
                              Judged)
  /\ Advance
  /\ UNCHANGED <<scores, fitted, chosen, disk>>

\* How far apart the channels are that have an estimate for a row; whether that
\* tells the losers, among the rows the anchor is sure of.
Agree ==
  /\ At("phase5", "agree")
  /\ LET sure == {i \in TestRows : table[i].conf = Max(Thresholds)}
         Apart(i) == Score("agreement",
                           UNION {s.learned : s \in {s \in scores : i \in s.judged}},
                           {}, {}, {i})
     IN  scores' = IF Cardinality(sure) < MinReported THEN scores
                   ELSE scores \cup {Apart(i) : i \in sure}
  /\ Advance
  /\ UNCHANGED <<fitted, verdict, chosen, disk>>

\* The anchor judged by bands of fragility, alone and above each threshold, and
\* above each threshold with no band.  The scales of fragility are those of the
\* rows evaluated, so that a row's band rests on the values of later rows too.
CompareFragility ==
  /\ At("phase5", "fragility")
  /\ fitted' = fitted \cup {Made("scales", {}, TestRows)}
  /\ LET steady == {i \in TestRows : ~Fragile(TestRows, i)}
         banded == {steady, TestRows \ steady} \cup SelectivePrediction(steady)
         Reported(slices, seen) ==
           {Score("fragility", {}, seen, {}, rows) :
              rows \in {rows \in slices : Cardinality(rows) >= MinReported}}
     IN  scores' = scores \cup Reported(banded, TestRows)
                     \cup Reported(SelectivePrediction(TestRows), {})
  /\ Advance
  /\ UNCHANGED <<verdict, chosen, disk>>

\* Estimators of volatility read the bars before each row and fit nothing.
CompareVolatility ==
  /\ At("phase5", "volatility")
  /\ scores' = IF Cardinality(TestRows) < MinReported THEN scores
               ELSE scores \cup {Score("volatility", {}, {}, {}, TestRows)}
  /\ Advance
  /\ UNCHANGED <<fitted, verdict, chosen, disk>>

SaveSummary5 == At("phase5", "summary5") /\ Write(<<"summary5", Normal>>)
SaveReport5  == At("phase5", "report5") /\ Write(<<"report5", Normal>>)

-----------------------------------------------------------------------------
\* Phase 6.

\* The last windows of the development rows, on which policies are compared.
ValidationRows ==
  LET windows == WindowsOf(table, Dev)
      rounded == Rounded((CalEvery - 1) * Cardinality(windows), CalEvery)
      cut     == IF rounded = 0 THEN 1 ELSE rounded
  IN  {i \in Dev : Cardinality({w \in windows : w <= table[i].window}) > cut}

\* apply_policy_once: the rows of a batch that a policy enters on.
Entered(family, threshold, batch, rows) ==
  {i \in rows : /\ table[i].conf >= threshold
                /\ family \in Steadfast => ~Fragile(batch, i)}

\* The candidates with enough trades on those rows, one of which is the most
\* accurate; with none, the first.
Preferred(family) ==
  LET enough == {t \in Thresholds :
                   Cardinality(Entered(family, t, Dev, ValidationRows)) >= MinTrades}
  IN  IF enough = {} THEN {Min(Thresholds)} ELSE enough

\* With nothing to validate on there are no entries to count, and the program
\* ends.  The scales of fragility are those of all the development rows.
SelectPolicies ==
  /\ At("phase6", "select") /\ ValidationRows # {}
  /\ chosen' \in {c \in [Families -> Thresholds] : \A f \in Families : c[f] \in Preferred(f)}
  /\ fitted' = fitted \cup
       {Made(f, ValidationRows, IF f \in Steadfast THEN Dev ELSE {}) : f \in Families}
  /\ Advance
  /\ UNCHANGED <<scores, verdict, disk>>

Traded(f) == Entered(f, chosen[f], Holdout(table), Holdout(table))

\* The scales of fragility are those of all the rows held out.
ScoreHoldout ==
  /\ At("phase6", "score")
  /\ scores' = {Score(f, {}, IF f \in Steadfast THEN Holdout(table) ELSE {},
                     ValidationRows, Traded(f)) : f \in Families}
  /\ Advance
  /\ UNCHANGED <<fitted, verdict, chosen, disk>>

SaveEntries    == At("phase6", "entries") /\ Write(<<"entries", Normal>>)
SaveFrontier   == At("phase6", "frontier") /\ Write(<<"frontier", Normal>>)
SaveCandidates == At("phase6", "candidates") /\ Write(<<"candidates", Normal>>)

\* The families that traded enough to be recommended.
Qualified == {f \in Families : Cardinality(Traded(f)) >= MinTrades}

\* What is chosen among them by how accurate each was on the rows held out.
ByTheHoldout(what) ==
  LET by == UNION {Traded(f) : f \in Qualified}
  IN  Made(what, ValidationRows \cup by,
           IF Qualified \cap Steadfast = {} THEN {} ELSE Dev \cup Holdout(table))

\* The policy to lock is the most accurate on the rows held out, and is quoted
\* with its accuracy on them; so is that of each target of accuracy that one of
\* them reaches, if any.  Without a family that traded enough there is no best
\* one; a finding cannot quote a family that did not trade; and no number of the
\* summary may be NaN, as the interval of trades in one window is.
SaveSummary6 ==
  /\ At("phase6", "summary6")
  /\ \A f \in Families \ Unquoted : Traded(f) # {}
  /\ \A f \in Families : Traded(f) = {} \/ HasInterval(Traded(f))
  /\ \E best \in Qualified, targets \in SUBSET {"frontier"} :
       LET recommended == ByTheHoldout("recommended")
       IN  /\ fitted' = fitted \cup {recommended} \cup {ByTheHoldout(t) : t \in targets}
           /\ scores' = scores \cup {Score("recommended", {}, recommended.seen,
                                          recommended.from, Traded(best))}
           /\ Put(<<"summary6", Normal>>, best)
  /\ Advance
  /\ UNCHANGED <<verdict, chosen>>

\* The table of the report has a line for every family, with its accuracy.
SaveReports6 ==
  /\ At("phase6", "reports6") /\ \A f \in Families : Traded(f) # {}
  /\ Write(<<"reports6", Normal>>)

-----------------------------------------------------------------------------
\* A program is started on the history of the day; it may end at any step, by
\* the operator, by the machine or by an exception.  It first keeps the features
\* that are there often enough in all its rows; the rows that lack one of them are
\* gone from its table.

PhaseInit ==
  /\ program = None /\ step = 1 /\ begun = 0
  /\ table = << >> /\ scores = {} /\ fitted = {} /\ verdict = << >> /\ chosen = Normal
  /\ disk = [file \in Files |-> [run |-> 0, of |-> Normal]]

Start ==
  /\ program = None /\ begun < Runs
  /\ program' \in Programs
  /\ table' \in Tables
  /\ step' = 1 /\ begun' = begun + 1
  /\ fitted' = {Made("columns", {}, Positions(table'))}
  /\ scores' = {} /\ verdict' = << >> /\ chosen' = Normal
  /\ UNCHANGED disk

End == program # None /\ Forget /\ UNCHANGED disk

PhaseNext ==
  \/ Start \/ End
  \/ WalkModels \/ Pair \/ Ablate \/ Choose \/ Slice \/ Final
  \/ SaveModel \/ SaveCoefficients \/ SaveSummary4
  \/ BuildPools \/ SimulatePaths \/ CompareChannels \/ Agree \/ CompareFragility
  \/ CompareVolatility
  \/ SaveSummary5 \/ SaveReport5
  \/ SelectPolicies \/ ScoreHoldout
  \/ SaveEntries \/ SaveFrontier \/ SaveCandidates \/ SaveSummary6 \/ SaveReports6

PhaseSpec == PhaseInit /\ [][PhaseNext]_phaseVars

-----------------------------------------------------------------------------
\* Properties.

Before(rows, later) ==
  \A i \in rows, j \in later : table[i].window < table[j].window

\* What the programs write down as chosen by the rows held out themselves, and
\* what rests on the features that were kept by looking at the whole table.
OfTheHoldout  == {"recommended", "frontier"}
OfTheFeatures == {"columns", "choice", "model", "calibrator"}

\* Nothing but the paths, and how far they are from the rest, is judged on rows
\* that did not come after every row whose outcome it learned from, whatever fold,
\* channel or pool it is of.  But for what the summary of phase 6 recommends, what
\* is judged on the rows held out was chosen by outcomes that came before them, and
\* what is fitted or chosen rests on none of their outcomes; nor, but for the
\* features of phase 4, on their values.  The scales of fragility are the values of
\* the rows judged with them, and are left out (mantis_v4_phase4.py,
\* mantis_v4_phase5.py and mantis_v4_phase6.py).
JudgedByTheFuture ==
  /\ \A s \in scores :
       s.of \notin {"monte_carlo", "agreement"} =>
         /\ Before(s.learned, s.judged)
         /\ s.of \notin OfTheHoldout /\ s.judged \cap Holdout(table) # {} =>
              Before(s.chosenBy, s.judged)
  /\ \A m \in fitted :
       /\ m.what \notin OfTheHoldout => m.from \cap Holdout(table) = {}
       /\ m.what \notin OfTheHoldout \cup OfTheFeatures => m.seen \cap Holdout(table) = {}

\* What the report of phase 6 says by its heading, and the code does not do: no
\* choice rests on an outcome of a row held out (mantis_v4_phase6.py, main).
HoldoutIsUntouched == \A m \in fitted : m.from \cap Holdout(table) = {}

\* However runs end, no file tells of a run whose earlier files are not on disk:
\* a summary of phase 4 is of a model that was saved, with its coefficients; a
\* report is of a summary, and a summary of phase 6 of its tables.
WrittenAfter ==
  {<<"summary5", "report5">>, <<"entries", "frontier">>, <<"frontier", "candidates">>,
   <<"candidates", "summary6">>, <<"summary6", "reports6">>}

ReportedIsSaved ==
  /\ \A p \in WrittenAfter : disk[<<p[2], Normal>>].run <= disk[<<p[1], Normal>>].run
  /\ LET told == disk[<<"summary4", Normal>>]
     IN  \A f \in {"model", "coefficients"} :
           <<f, told.of>> \in Files => told.run <= disk[<<f, told.of>>].run

=============================================================================
