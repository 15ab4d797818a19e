-------------------------------- MODULE Backtest --------------------------------
(***************************************************************************)
(* The programs that learn from history (mantis_v4_backtest.py,            *)
(* mantis_v4_phase4.py): a market prints bars, and at some moment the      *)
(* programs replay what it has printed, build the table of it and divide   *)
(* it for fitting and testing.  While the market prints, an observer       *)
(* computes at each scan what the same code makes of the bars of that      *)
(* moment; nothing the programs derive later may differ from it.           *)
(***************************************************************************)
EXTENDS Replay, WalkForward

CONSTANTS
  Horizon,   \* half minutes the market prints for
  MaxMoves,  \* bars that close away from where they open
  MaxGaps    \* bars the history lacks

ASSUME BacktestAssumption == ReplayConstants /\ SplitConstants /\ Horizon \in Nat

VARIABLES
  clock,    \* half minutes printed
  frames,   \* of each asset, the bars printed
  lived,    \* what the observer computed at each scan, for each asset
  derived   \* what the programs derived, once they ran

studyVars == <<clock, frames, lived, derived>>

Prices == {1, 2}

-----------------------------------------------------------------------------
\* The market.

\* The bar that formed over the last minute closes at a price.
Closed(frame, b, price) ==
  IF b > 0 /\ b - 1 \in DOMAIN frame THEN [frame EXCEPT ![b - 1].close = price]
  ELSE frame

\* A bar opens where the one before it closed.
Opened(frame, b) ==
  LET price == IF frame = << >> THEN 1 ELSE frame[Max(DOMAIN frame)].close
  IN  [c \in DOMAIN frame \cup {b} |->
         IF c = b THEN [open |-> price, close |-> price] ELSE frame[c]]

Moves(printed) ==
  Cardinality({p \in Assets \X (0 .. Horizon) :
                 /\ p[2] \in DOMAIN printed[p[1]]
                 /\ printed[p[1]][p[2]].open # printed[p[1]][p[2]].close})

Gaps(printed, b) ==
  Cardinality({p \in Assets \X (0 .. b) : p[2] \notin DOMAIN printed[p[1]]})

Minute(b) ==
  \E close \in [Assets -> Prices], gap \in SUBSET Assets :
    LET closed == [a \in Assets |-> Closed(frames[a], b, close[a])]
    IN  /\ frames' = [a \in Assets |-> IF a \in gap THEN closed[a] ELSE Opened(closed[a], b)]
        /\ Moves(frames') <= MaxMoves
        /\ Gaps(frames', b) <= MaxGaps

\* What the bars printed at t are worth to the code that scans at t.
Scan(printed, t) ==
  [a \in Assets |->
     [features |-> ComputeFeatures(printed, a, WindowAt(t), t),
      row      |-> BuildRow(printed, a, WindowAt(t), t)]]

StudyInit ==
  /\ clock = 0
  /\ frames = [a \in Assets |-> Opened(<< >>, 0)]
  /\ lived = [t \in {0} |-> Scan(frames, 0)]
  /\ derived = None

\* Half a minute passes; a whole one closes the bars that form and opens others.
Elapse ==
  /\ derived = None /\ clock < Horizon
  /\ clock' = clock + 1
  /\ IF (clock + 1) % Bar = 0 THEN Minute((clock + 1) \div Bar) ELSE UNCHANGED frames
  /\ lived' = [t \in 0 .. clock + 1 |-> IF t <= clock THEN lived[t] ELSE Scan(frames', t)]
  /\ UNCHANGED derived

-----------------------------------------------------------------------------
\* The programs.

\* Of each asset in turn, its times in order.
Place(a) == CHOOSE k \in DOMAIN AssetSeq : AssetSeq[k] = a

InTurn(times) ==
  LET moments == UNION {{[asset |-> a, at |-> t] : t \in times[a]} : a \in Assets}
  IN  Listed(moments, [m \in moments |-> Place(m.asset) * (Horizon + 1) + m.at])

\* replay_all.
Replays(printed) ==
  LET order == InTurn([a \in Assets |-> WindowsFor(printed[a])])
  IN  [k \in DOMAIN order |-> [asset |-> order[k].asset, window |-> order[k].at]]

\* ModellingDatasetBuilder.build: a row for each scan that has one.
HasRow(printed, a) ==
  {t \in UNION {ScanTimes(w) : w \in Labelled(printed, a)} :
     BuildRow(printed, a, WindowAt(t), t) # None}

RowAt(printed, a, w, t) ==
  LET built == BuildRow(printed, a, w, t)
  IN  [asset   |-> a, window |-> w, scan |-> t,
       row     |-> built,
       outcome |-> Outcome(printed[a], w),
       missing |-> Missing(built)]

Table(printed) ==
  LET order == InTurn([a \in Assets |-> HasRow(printed, a)])
  IN  [k \in DOMAIN order |->
         RowAt(printed, order[k].asset, WindowAt(order[k].at), order[k].at)]

\* phase 4: features that are missing too often go, then rows that lack one.
Cleaned(table) == DropIncomplete(table, Usable(table, {"path", "leader"}))

\* With no row left reserve_holdout raises, and the program ends.  A history
\* is the same all through a minute: one moment of it is enough.
Study ==
  /\ derived = None /\ clock % Bar = 0
  /\ LET table == Table(frames)
         clean == Cleaned(table)
     IN  derived' = [table   |-> table,
                     clean   |-> clean,
                     replays |-> Replays(frames),
                     splits  |-> PurgedWalkForward(Replays(frames)),
                     fits    |-> IF clean = << >> THEN {} ELSE Fits(clean)]
  /\ UNCHANGED <<clock, frames, lived>>

StudyNext == Elapse \/ Study

StudySpec == StudyInit /\ [][StudyNext]_studyVars

-----------------------------------------------------------------------------
\* Properties.

StudyTypeOK ==
  /\ clock \in 0 .. Horizon /\ DOMAIN lived = 0 .. clock
  /\ \A a \in Assets : DOMAIN frames[a] \subseteq 0 .. clock \div Bar

\* A replay decides each contract when, and on the features with which, the
\* strategy would have decided it as the window went by: nothing printed
\* later reaches it (view.py, features.py and replay.py).
ReplayedAsLived ==
  derived # None =>
    \A k \in DOMAIN derived.replays, strategy \in Strategies :
      LET a == derived.replays[k].asset
          w == derived.replays[k].window
      IN  ReplayContract(frames, a, w, strategy) =
            FirstDecision(strategy, [t \in ScanTimes(w) |-> lived[t][a].features], w)

\* Each row of the modelling table, the panel of the other assets and the path
\* inside the window included, is the row that could be built at its scan
\* (dataset_builder.py and features_extended.py).
RowsAsLived ==
  derived # None =>
    \A k \in DOMAIN derived.table :
      LET r == derived.table[k] IN r.row = lived[r.scan][r.asset].row

\* What the programs read back from a finished history is what could be seen as
\* it went by, in a replay and in the modelling table alike.
AsLived == ReplayedAsLived /\ RowsAsLived

\* Whatever the blocks cut, contracts a fold trains on have ended before any it
\* tests begins (purged_walk_forward, whose blocks count rows and not windows);
\* and what fits a model, what calibrates it and what tests it follow one another
\* by window (models/splits.py, pipeline.py).
TrainsOnThePast ==
  derived # None =>
    /\ \A s \in derived.splits, i, j \in DOMAIN derived.replays :
         i \in s.train /\ j \in s.test =>
           derived.replays[i].window < derived.replays[j].window
    /\ \A p \in derived.fits, i, j \in DOMAIN derived.clean :
         (i \in p.fit /\ j \in p.cal) \/ (i \in p.fit \cup p.cal /\ j \in p.test) =>
           derived.clean[i].window < derived.clean[j].window

-----------------------------------------------------------------------------
\* What the documentation says and the programs do not do.

\* Contracts of one window are tested by a fold together or not at all
\* (backtest/splits.py: same-window rows across assets always move together).
SameWindowMovesTogether ==
  derived # None =>
    \A s \in derived.splits, i, j \in DOMAIN derived.replays :
      derived.replays[i].window = derived.replays[j].window => (i \in s.test <=> j \in s.test)

\* No label a fold of the modelling table trains on was read from a bar that
\* opened after its test block had begun (models/splits.py: training windows
\* whose label span overlaps the block are purged).  The span is the window;
\* the label is the opening price of the first bar up to a tolerance after it.
LabelsKnownBeforeTest ==
  derived # None =>
    LET dev == Positions(derived.clean) \ Holdout(derived.clean)
    IN  \A s \in GroupedWalkForward(derived.clean, dev) : \A i \in s.train, j \in s.test :
          LET r == derived.clean[i]
          IN  Terminal(frames[r.asset], r.window).bar
                <= derived.clean[j].window * WindowBars

\* The windows held out have no part in which features are used
\* (mantis_v4_phase4.py).
FeaturesIgnoreTheHoldout ==
  derived # None /\ derived.clean # << >> =>
    LET held == {derived.clean[i].window : i \in Holdout(derived.clean)}
    IN  Usable(derived.table, {"path", "leader"}) =
          Usable(SelectSeq(derived.table, LAMBDA r : r.window \notin held),
                 {"path", "leader"})

\* A calibrator is chosen on windows later than those it was fitted on
\* (models/pipeline.py: the rows are split chronologically and by window).
CalibratorHalvesApart ==
  derived # None =>
    \A p \in derived.fits :
      LET halves == CalHalves(derived.clean, p.cal)
      IN  \A i \in halves.fit, j \in halves.score :
            derived.clean[i].window < derived.clean[j].window

=============================================================================
