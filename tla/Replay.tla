--------------------------------- MODULE Replay ---------------------------------
(***************************************************************************)
(* A history of one-minute bars replayed scan by scan, and the table of    *)
(* features and labels built from it (mantis_v4/backtest/view.py,          *)
(* features.py, strategies.py, replay.py, models/dataset_builder.py,       *)
(* models/features_extended.py).                                           *)
(*                                                                         *)
(* Time is counted in half minutes, the step of the scan grid.  A frame    *)
(* maps the minute at which a bar starts to its opening and closing        *)
(* prices; the close of a bar still forming is the price so far.  The      *)
(* indicators keep what the properties tell apart: which rows each reads.  *)
(***************************************************************************)
EXTENDS Naturals, Sequences, FiniteSets, FiniteSetsExt, Functions

CONSTANTS
  None,         \* no value
  AssetSeq,     \* the assets with a history, in the order of their names
  Leader,       \* the reference asset of the cross-asset panel
  WindowBars,   \* window_minutes
  Warmup,       \* warmup_bars
  MinBars,      \* min_bars_for_features
  Tolerance,    \* terminal_tolerance_seconds, in minutes
  MinElapsed,   \* min_elapsed_seconds, in half minutes
  NoNewEntry,   \* no_new_entry_seconds, in half minutes
  Steady        \* the moves and half minutes left at which 0.8 is confident

Assets == Range(AssetSeq)

ReplayConstants ==
  /\ AssetSeq \in Seq(Assets)
  /\ WindowBars \in Nat \ {0} /\ Leader \in Assets
  /\ {Warmup, MinBars, Tolerance, MinElapsed, NoNewEntry, Steady} \subseteq Nat

Bar == 2
StartOf(w)   == Bar * WindowBars * w
EndOf(w)     == StartOf(w + 1)
WindowAt(t)  == t \div (Bar * WindowBars)
ScanTimes(w) == StartOf(w) .. EndOf(w) - 1

-----------------------------------------------------------------------------
\* What a scan may see.

\* (A mutant: the cutoff is the scan, and a forming bar is seen.)
VisibleForming(frame, scan) == {b \in DOMAIN frame : Bar * b <= scan}

\* HistoricalMarketView: the bars that were complete at the scan.
Visible(frame, scan) == {b \in DOMAIN frame : Bar * b + Bar <= scan}

\* derive_proxy_reference: the first bar inside the window.
DeriveReference(frame, w) ==
  LET inside == {b \in DOMAIN frame : Bar * b \in ScanTimes(w)}
  IN  IF inside = {} THEN None
      ELSE [bar |-> Min(inside), price |-> frame[Min(inside)].open]

AvailableAt(reference, scan) == reference # None /\ scan >= Bar * reference.bar

-----------------------------------------------------------------------------
\* Indicators, one row per bar: each reads its own bar and earlier ones.

RowsUpTo(frame, b) == {c \in DOMAIN frame : c <= b}

\* closes.pct_change: against the previous row, whatever the gap between them.
Momentum(frame, b) ==
  LET before == RowsUpTo(frame, b) \ {b}
  IN  IF before = {} THEN None ELSE <<frame[Max(before)].close, frame[b].close>>

\* The masked returns of precompute_indicators: only between adjacent minutes.
Adjacent(frame, b) == {c \in RowsUpTo(frame, b) : c > 0 /\ c - 1 \in DOMAIN frame}

Volatility(frame, b) ==
  Cardinality({c \in Adjacent(frame, b) : frame[c].close # frame[c - 1].close})

\* (A mutant: the panel keeps the latest row of each asset.)
PanelLatest(frames, b) ==
  [a \in {a \in Assets : b \in DOMAIN frames[a]} |->
     Momentum(frames[a], Max(DOMAIN frames[a]))]

\* build_cross_asset_panel at one timestamp: the assets that have a row there.
Panel(frames, b) ==
  [a \in {a \in Assets : b \in DOMAIN frames[a]} |-> Momentum(frames[a], b)]

\* reference_path_features: the rows of the window up to the one of the scan.
Path(frame, w, b, reference) ==
  [c \in {c \in RowsUpTo(frame, b) : Bar * c >= StartOf(w)} |->
     frame[c].close > reference.price]

-----------------------------------------------------------------------------
\* compute_features; the reference is that of the whole history.
ComputeFeatures(frames, a, w, scan) ==
  LET frame == frames[a]
      seen  == Visible(frame, scan)
      ref   == DeriveReference(frame, w)
  IN  IF seen = {} \/ Cardinality(seen) < MinBars THEN None
      ELSE [spot       |-> frame[Max(seen)].close,
            visible    |-> Cardinality(seen),
            momentum   |-> Momentum(frame, Max(seen)),
            volatility |-> Volatility(frame, Max(seen)),
            reference  |-> IF AvailableAt(ref, scan) THEN ref.price ELSE None]

\* The strategies' decide: spot against reference, and the normal baseline,
\* whose probability falls with the volatility of the time that is left.
Strategies == {"spot_vs_reference", "normal_z"}

Confident(f, w, scan) ==
  f.spot # f.reference /\ f.volatility * (EndOf(w) - scan) <= Steady

Decide(strategy, f, w, scan) ==
  CASE \/ f = None
       \/ f.reference = None
       \/ strategy = "normal_z" /\ f.volatility = 0
       \/ scan - StartOf(w) < MinElapsed -> "WAIT"
    [] OTHER ->
       CASE \/ strategy = "normal_z" /\ EndOf(w) - scan <= NoNewEntry
            \/ strategy = "spot_vs_reference" /\ f.spot = f.reference -> "NO_TRADE"
         [] strategy = "normal_z" /\ ~Confident(f, w, scan) -> "WAIT"
         [] OTHER -> IF f.spot > f.reference THEN "YES" ELSE "NO"

\* find_terminal_price: a bar soon after the end, or else one soon before it.
Terminal(frame, w) ==
  LET end    == (w + 1) * WindowBars
      after  == {b \in DOMAIN frame : b >= end}
      before == DOMAIN frame \ after
  IN  IF after # {} /\ Min(after) <= end + Tolerance
      THEN [bar |-> Min(after), price |-> frame[Min(after)].open]
      ELSE IF before # {} /\ Max(before) + Tolerance >= end
      THEN [bar |-> Max(before), price |-> frame[Max(before)].close]
      ELSE None

Outcome(frame, w) ==
  LET ref == DeriveReference(frame, w)
      end == Terminal(frame, w)
  IN  IF ref = None \/ end = None THEN None
      ELSE IF end.price > ref.price THEN "YES" ELSE "NO"

-----------------------------------------------------------------------------
\* windows_for: after the warm-up, and with a bar at or after the end.
WindowsFor(frame) ==
  LET usable == {b \in DOMAIN frame :
                   Cardinality({c \in DOMAIN frame : c < b}) >= Warmup}
  IN  IF usable = {} THEN {}
      ELSE {w \in 0 .. Max(usable) :
              /\ StartOf(w) >= Bar * Min(usable)
              /\ EndOf(w) <= Bar * Max(usable)}

\* The first of the scans at which the strategy does not wait; features maps
\* each scan to what it computed.
FirstDecision(strategy, features, w) ==
  LET decided == {t \in DOMAIN features : Decide(strategy, features[t], w, t) # "WAIT"}
  IN  IF decided = {} THEN [decision |-> "NO_TRADE", at |-> None, features |-> None]
      ELSE [decision |-> Decide(strategy, features[Min(decided)], w, Min(decided)),
            at       |-> Min(decided),
            features |-> features[Min(decided)]]

\* replay_contract, of a window that has a reference.
ReplayContract(frames, a, w, strategy) ==
  FirstDecision(strategy,
                [t \in ScanTimes(w) |-> ComputeFeatures(frames, a, w, t)], w)

\* _build_row: None when it would be incomplete.
BuildRow(frames, a, w, scan) ==
  LET frame == frames[a]
      seen  == Visible(frame, scan)
      ref   == DeriveReference(frame, w)
      pos   == Max(seen)
  IN  IF \/ seen = {} \/ Cardinality(seen) < MinBars
         \/ ~AvailableAt(ref, scan)
         \/ Volatility(frame, pos) = 0
      THEN None
      ELSE [spot       |-> frame[pos].close,
            reference  |-> ref.price,
            momentum   |-> Momentum(frame, pos),
            volatility |-> Volatility(frame, pos),
            path       |-> Path(frame, w, pos, ref),
            panel      |-> Panel(frames, pos)]

\* The features of a row that are not a number.
Missing(row) ==
  {f \in {"path", "leader"} :
     \/ f = "path"   /\ row.path = << >>
     \/ f = "leader" /\ (Leader \notin DOMAIN row.panel \/ row.panel[Leader] = None)}

Labelled(frames, a) == {w \in WindowsFor(frames[a]) : Outcome(frames[a], w) # None}

=============================================================================
