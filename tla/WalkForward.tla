------------------------------- MODULE WalkForward -------------------------------
(***************************************************************************)
(* Which rows of a table a model is fitted on, which calibrate it and      *)
(* which test it (mantis_v4/backtest/splits.py, models/splits.py,          *)
(* models/pipeline.py).  A table is a sequence of rows with a window, one  *)
(* after the other for each asset; windows are numbered, and all are one   *)
(* unit long, so that window w spans [w, w + 1).                           *)
(***************************************************************************)
EXTENDS Naturals, Sequences, FiniteSets, FiniteSetsExt

CONSTANTS
  Folds,         \* folds
  MinTrain,      \* min_train and min_train_groups
  Embargo,       \* embargo, in windows
  HoldoutEvery,  \* one over holdout_fraction
  CalEvery,      \* one over calibration_fraction
  MinCalGroups,  \* the 4 groups below which nothing is kept for calibration
  Percent        \* max_missing_fraction, in hundredths

SplitConstants ==
  /\ Folds \in Nat \ {0, 1} /\ {HoldoutEvery, CalEvery} \subseteq Nat \ {0}
  /\ {MinTrain, Embargo, MinCalGroups, Percent} \subseteq Nat

Positions(rows)  == 1 .. Len(rows)
WindowsOf(rows, positions) == {rows[i].window : i \in positions}

\* The members of a set in the order of the numbers that key gives them; numbers
\* themselves in order; and the positions of a table by window.
Listed(S, key) ==
  [k \in 1 .. Cardinality(S) |->
     CHOOSE x \in S : Cardinality({y \in S : key[y] < key[x]}) = k - 1]

Ascending(S) == Listed(S, [x \in S |-> x])

ByWindow(rows) ==
  Listed(Positions(rows), [i \in Positions(rows) |-> rows[i].window * (Len(rows) + 1) + i])

\* Half-open overlap of a window with the span of some windows.
Overlaps(w, span)  == Min(span) < w + 1 /\ w < Max(span) + 1
Embargoed(w, span) == Max(span) + 1 <= w /\ w < Max(span) + 1 + Embargo

\* (A mutant: no purge.)
KeptUnlessEmbargoed(w, span) == ~Embargoed(w, span)

Kept(w, span) == ~Overlaps(w, span) /\ ~Embargoed(w, span)

\* The bounds of the test block of a fold among n items; the last fold takes
\* the remainder.
Block(n, fold) ==
  fold * (n \div Folds) + 1 ..
    (IF fold = Folds - 1 THEN n ELSE (fold + 1) * (n \div Folds))

-----------------------------------------------------------------------------
\* purged_walk_forward over the replayed contracts: spans are ordered by their
\* start and then by their position, and the blocks count spans.
PurgedFold(rows, fold) ==
  LET order == ByWindow(rows)
      test  == {order[k] : k \in Block(Len(order), fold)}
      span  == WindowsOf(rows, test)
  IN  [train |-> {order[k] : k \in {k \in 1 .. fold * (Len(order) \div Folds) :
                                      Kept(rows[order[k]].window, span)}},
       test  |-> test]

PurgedWalkForward(rows) ==
  IF Len(rows) \div Folds = 0 THEN {}
  ELSE {s \in {PurgedFold(rows, fold) : fold \in 1 .. Folds - 1} :
          Cardinality(s.train) >= MinTrain}

-----------------------------------------------------------------------------
\* The model tables: windows move together, whatever their rows.

\* round() of n over d, a half going to the even neighbour.
Rounded(n, d) ==
  LET q == n \div d
  IN  IF 2 * (n % d) > d \/ (2 * (n % d) = d /\ q % 2 = 1) THEN q + 1 ELSE q

\* The last of the windows, one in every `every` of them and at least one.
Latest(windows, every) ==
  LET n == IF Rounded(Cardinality(windows), every) = 0 THEN 1
           ELSE Rounded(Cardinality(windows), every)
  IN  {w \in windows : Cardinality({v \in windows : v > w}) < n}

\* reserve_holdout: the positions that are held out.
Holdout(rows) ==
  LET held == Latest(WindowsOf(rows, Positions(rows)), HoldoutEvery)
  IN  {i \in Positions(rows) : rows[i].window \in held}

\* grouped_walk_forward over the development rows.
GroupedFold(rows, dev, fold) ==
  LET windows == WindowsOf(rows, dev)
      Rank(w) == Cardinality({v \in windows : v <= w})
      span    == {w \in windows : Rank(w) \in Block(Cardinality(windows), fold)}
      kept    == {w \in windows :
                    /\ Rank(w) <= fold * (Cardinality(windows) \div Folds)
                    /\ Kept(w, span)}
  IN  [groups |-> Cardinality(kept),
       train  |-> {i \in dev : rows[i].window \in kept},
       test   |-> {i \in dev : rows[i].window \in span}]

GroupedWalkForward(rows, dev) ==
  IF Cardinality(WindowsOf(rows, dev)) \div Folds = 0 THEN {}
  ELSE {s \in {GroupedFold(rows, dev, fold) : fold \in 1 .. Folds - 1} :
          s.groups >= MinTrain}

\* split_train_for_calibration: the positions kept for the calibrator.
Calibration(rows, train) ==
  LET windows == WindowsOf(rows, train)
  IN  IF Cardinality(windows) < MinCalGroups THEN {}
      ELSE {i \in train : rows[i].window \in Latest(windows, CalEvery)}

\* run_walk_forward and fit_final_model: what fits, calibrates and tests.
Pools(rows, train, test) ==
  LET cal == Calibration(rows, train)
  IN  [fit |-> train \ cal, cal |-> cal, test |-> test]

Fits(rows) ==
  LET dev == Positions(rows) \ Holdout(rows)
  IN  {p \in {Pools(rows, s.train, s.test) : s \in GroupedWalkForward(rows, dev)} :
         p.fit # {}}
        \cup {Pools(rows, dev, Holdout(rows))}

\* The halves in which select_calibrator fits and scores: by row position.
CalHalves(rows, cal) ==
  LET order == Ascending(cal)
      half  == Len(order) \div 2
  IN  [fit   |-> {order[k] : k \in 1 .. half},
       score |-> {order[k] : k \in half + 1 .. Len(order)}]

\* select_usable_features over the whole table; drop_incomplete keeps the rows
\* with a value for all of them.
Usable(rows, features) ==
  {f \in features :
     100 * Cardinality({i \in Positions(rows) : f \in rows[i].missing})
       <= Percent * Len(rows)}

DropIncomplete(rows, features) ==
  LET whole == Ascending({i \in Positions(rows) : rows[i].missing \cap features = {}})
  IN  [k \in DOMAIN whole |-> rows[whole[k]]]

=============================================================================
