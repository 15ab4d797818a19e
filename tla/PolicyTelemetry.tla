---------------------------- MODULE PolicyTelemetry ----------------------------
(***************************************************************************)
(* PolicyTelemetryStore (mantis_v4/manual_signal/telemetry.py), driven by  *)
(* ManualSignalEngine.scan: every scan first completes the windows that    *)
(* are over, one row per policy, and later records what each policy saw of *)
(* each asset.                                                             *)
(*                                                                         *)
(* Two append-only files, and memory that a restart rebuilds from parts of *)
(* them: the newest completions, and what the newest observations say of   *)
(* the windows seen and of the first signal in each.  Rows that do not     *)
(* parse are skipped by every reader.  A row is appended and synced before *)
(* memory learns it; an exception leaves the loop and ends the process.    *)
(*                                                                         *)
(* Identifiers of observations hold the instant of the scan, which no two  *)
(* scans share, so their test for repetition never holds and is left out.  *)
(***************************************************************************)
EXTENDS JsonlLog, FiniteSets

CONSTANTS
  NAssets,    \* assets in scan order, by number
  NPolicies,  \* policies in order, by number; the first one is V2
  NONE,       \* no asset, no window
  Cap,        \* completions remembered: RECENT_IDS
  Reload,     \* observations read back at a start: RECENT_IDS
  MaxWindow,  \* bound: windows the clock passes through
  MaxRuns,    \* bound: process starts
  MaxScans,   \* bound: scans
  MaxFaults   \* bound: appends that do not complete

Windows  == 1 .. MaxWindow
Assets   == 1 .. NAssets
Policies == 1 .. NPolicies

ASSUME BoundAssumption ==
  /\ {NAssets, NPolicies, MaxWindow, Cap, Reload} \subseteq Nat \ {0}
  /\ {MaxRuns, MaxScans, MaxFaults} \subseteq Nat
ASSUME NoneAssumption == NONE \notin Assets \cup Windows

\* sel: policy_selected_this_scan.  asset # NONE in a completion: its signal.
ObservationRows == [win : Windows, pol : Policies, asset : Assets, sel : BOOLEAN]
CompletionRows  == [win : Windows, pol : Policies, asset : Assets \cup {NONE}]

ASSUME BadAssumption == Bad \notin ObservationRows \cup CompletionRows

VARIABLES
  obs,       \* policy_observations.jsonl
  done,      \* policy_windows.jsonl
  now,       \* the window the wall clock is in
  run,       \* number of the latest process start
  scans,     \* scans begun
  pc,        \* where the process is
  cur,       \* the window of this scan
  todo,      \* complete_before: the pairs of window and policy still to visit
  grid,      \* append_scan: the pairs of asset and policy still to record
  chosen,    \* what each policy selects in this scan
  log,       \* the completions read or made; _completion_ids is its end
  observed,  \* _observed_windows
  first,     \* _first: the asset of a policy's first signal in a window
  counts,    \* _counts, per policy: completions with and without signal
  faults,    \* history: appends that did not complete
  merged     \* history: some write landed on a torn tail

files  == <<obs, done>>
memory == <<log, observed, first, counts>>
vars == <<files, now, run, scans, pc, cur, todo, grid, chosen, memory, faults,
          merged>>

-----------------------------------------------------------------------------
\* Positions of the newest n rows among lines, those that do not parse left out.
Newest(lines, n) ==
  {i \in DOMAIN lines :
     /\ lines[i] # Bad
     /\ Cardinality({j \in DOMAIN lines : j > i /\ lines[j] # Bad}) < n}

\* _completion_set: a deque of Cap identifiers.
Remembered ==
  {<<log[i].win, log[i].pol>> : i \in Newest(log, Cap)}

\* Mutant of FirstAmong: where the row is, not its asset.
FirstPosition(lines, P, w, p) ==
  LET hits == {i \in P : lines[i].win = w /\ lines[i].pol = p /\ lines[i].sel}
  IN  IF hits = {} THEN NONE ELSE CHOOSE i \in hits : \A j \in hits : i <= j

\* The asset of the first row among positions P that policy p selected in w.
FirstAmong(lines, P, w, p) ==
  LET hits == {i \in P : lines[i].win = w /\ lines[i].pol = p /\ lines[i].sel}
  IN  IF hits = {} THEN NONE
      ELSE lines[CHOOSE i \in hits : \A j \in hits : i <= j].asset

\* Completions of policy p with a signal, or without.
CountIn(lines, p, signal) ==
  Cardinality({i \in DOMAIN lines : /\ lines[i] # Bad
                                    /\ lines[i].pol = p
                                    /\ (lines[i].asset # NONE) = signal})

NoSignals == [w \in Windows |-> [p \in Policies |-> NONE]]
NoCounts  == [p \in Policies |-> [yes |-> 0, no |-> 0]]

Init ==
  /\ obs = EmptyFile /\ done = EmptyFile
  /\ now = 1 /\ run = 0 /\ scans = 0 /\ pc = "down" /\ cur = NONE
  /\ todo = {} /\ grid = {} /\ chosen = [p \in Policies |-> NONE]
  /\ log = <<>> /\ observed = {} /\ first = NoSignals /\ counts = NoCounts
  /\ faults = 0 /\ merged = FALSE

\* The process ends and memory goes.
Exit ==
  /\ pc' = "down" /\ cur' = NONE
  /\ todo' = {} /\ grid' = {} /\ chosen' = [p \in Policies |-> NONE]
  /\ log' = <<>> /\ observed' = {} /\ first' = NoSignals /\ counts' = NoCounts

\* What a start finds in the newest observations.
LoadFirst == [w \in Windows |-> [p \in Policies |->
                FirstAmong(obs.lines, Newest(obs.lines, Reload), w, p)]]
LoadObserved == {obs.lines[i].win : i \in Newest(obs.lines, Reload)}

\* A start that has read this much back.
StartWith(c, o, f, n) ==
  /\ pc = "down" /\ run < MaxRuns
  /\ run' = run + 1 /\ pc' = "idle"
  /\ log' = c /\ observed' = o /\ first' = f /\ counts' = n
  /\ UNCHANGED <<files, now, scans, cur, todo, grid, chosen, faults, merged>>

LoadCounts == [p \in Policies |-> [yes |-> CountIn(done.lines, p, TRUE),
                                   no  |-> CountIn(done.lines, p, FALSE)]]

\* Mutant of Start: the windows seen are not read back.
StartNoWindows == StartWith(done.lines, {}, LoadFirst, LoadCounts)

\* PolicyTelemetryStore.__init__.
Start == StartWith(done.lines, LoadObserved, LoadFirst, LoadCounts)

-----------------------------------------------------------------------------
\* complete_before: the observed windows that end by the start of w.
Due(w) == {v \in observed : v < w}

\* scan() completes before anything else.
BeginScan ==
  /\ pc = "idle" /\ scans < MaxScans
  /\ scans' = scans + 1
  /\ cur' = now
  /\ todo' = Due(now) \X Policies
  /\ pc' = "complete"
  /\ UNCHANGED <<files, now, run, grid, chosen, memory, faults, merged>>

\* The loops' order: windows, then policies; assets, then policies.
Earlier(a, b) == a[1] < b[1] \/ (a[1] = b[1] /\ a[2] < b[2])
IsNext(a, S)  == a \in S /\ \A b \in S \ {a} : Earlier(a, b)

\* The next completion due: the windows and policies remembered are skipped.
NextDue == {a \in todo : IsNext(a, todo \ Remembered)}

Completion(a) ==
  [win |-> a[1], pol |-> a[2], asset |-> first[a[1]][a[2]]]

\* complete_window, one row: append, then remember.
Complete(a) ==
  /\ pc = "complete" /\ a \in NextDue
  /\ done' = Written(done, Completion(a), TRUE)
  /\ merged' = (merged \/ done.torn)
  /\ log' = Append(log, Completion(a))
  /\ counts' = IF Completion(a).asset # NONE
                 THEN [counts EXCEPT ![a[2]].yes = @ + 1]
                 ELSE [counts EXCEPT ![a[2]].no = @ + 1]
  /\ todo' = {b \in todo : Earlier(a, b)}
  /\ UNCHANGED <<obs, now, run, scans, pc, cur, grid, chosen, observed, first,
                 faults>>

\* The assets are evaluated; each policy selects one of them or none.
Evaluate ==
  /\ pc = "complete" /\ NextDue = {}
  /\ todo' = {}
  /\ chosen' \in [Policies -> Assets \cup {NONE}]
  /\ grid' = Assets \X Policies
  /\ pc' = "observe"
  /\ UNCHANGED <<files, now, run, scans, cur, memory, faults, merged>>

Observation(a) ==
  [win |-> cur, pol |-> a[2], asset |-> a[1], sel |-> chosen[a[2]] = a[1]]

\* Mutant of Observe: a later signal replaces the first one of the window.
ObserveLatest(a) ==
  /\ pc = "observe" /\ IsNext(a, grid)
  /\ obs' = Written(obs, Observation(a), TRUE)
  /\ merged' = (merged \/ obs.torn)
  /\ observed' = observed \cup {cur}
  /\ first' = IF Observation(a).sel
                THEN [first EXCEPT ![cur][a[2]] = a[1]] ELSE first
  /\ grid' = grid \ {a}
  /\ pc' = IF grid' = {} THEN "idle" ELSE pc
  /\ UNCHANGED <<done, now, run, scans, cur, todo, chosen, log, counts, faults>>

\* append_scan, one row: append, then remember; the first signal stays.
Observe(a) ==
  /\ pc = "observe" /\ IsNext(a, grid)
  /\ obs' = Written(obs, Observation(a), TRUE)
  /\ merged' = (merged \/ obs.torn)
  /\ observed' = observed \cup {cur}
  /\ first' = IF Observation(a).sel /\ first[cur][a[2]] = NONE
                THEN [first EXCEPT ![cur][a[2]] = a[1]] ELSE first
  /\ grid' = grid \ {a}
  /\ pc' = IF grid' = {} THEN "idle" ELSE pc
  /\ UNCHANGED <<done, now, run, scans, cur, todo, chosen, log, counts, faults>>

\* The append of a row raises, or the process dies in it.
CompleteCutShort(a) ==
  /\ pc = "complete" /\ a \in NextDue /\ faults < MaxFaults
  /\ faults' = faults + 1
  /\ done' \in Interrupted(done, Completion(a))
  /\ merged' = (merged \/ (done.torn /\ done' # done))
  /\ Exit
  /\ UNCHANGED <<obs, now, run, scans>>

ObserveCutShort(a) ==
  /\ pc = "observe" /\ IsNext(a, grid) /\ faults < MaxFaults
  /\ faults' = faults + 1
  /\ obs' \in Interrupted(obs, Observation(a))
  /\ merged' = (merged \/ (obs.torn /\ obs' # obs))
  /\ Exit
  /\ UNCHANGED <<done, now, run, scans>>

\* Any other end of the process: an exception elsewhere, Ctrl+C, its death.
Leave ==
  /\ pc # "down"
  /\ Exit
  /\ UNCHANGED <<files, now, run, scans, faults, merged>>

Tick ==
  /\ now < MaxWindow
  /\ now' = now + 1
  /\ UNCHANGED <<files, run, scans, pc, cur, todo, grid, chosen, memory, faults,
                 merged>>

Next ==
  \/ Start \/ BeginScan \/ Evaluate \/ Leave \/ Tick
  \/ \E a \in Windows \X Policies : Complete(a) \/ CompleteCutShort(a)
  \/ \E a \in Assets \X Policies : Observe(a) \/ ObserveCutShort(a)

Spec == Init /\ [][Next]_vars

-----------------------------------------------------------------------------
TypeOK ==
  /\ obs \in File(ObservationRows) /\ done \in File(CompletionRows)
  /\ now \in Windows /\ run \in 0 .. MaxRuns /\ scans \in 0 .. MaxScans
  /\ pc \in {"down", "idle", "complete", "observe"}
  /\ cur \in Windows \cup {NONE}
  /\ todo \subseteq Windows \X Policies /\ grid \subseteq Assets \X Policies
  /\ chosen \in [Policies -> Assets \cup {NONE}]
  /\ log \in Seq(CompletionRows \cup {Bad}) /\ observed \subseteq Windows
  /\ first \in [Windows -> [Policies -> Assets \cup {NONE}]]
  /\ counts \in [Policies -> [yes : Nat, no : Nat]]
  /\ faults \in 0 .. MaxFaults /\ merged \in BOOLEAN

\* One completion per window and policy, over any number of runs and scans
\* (complete_window skips what it has completed): what its test asserts, and what a
\* memory shorter than the file does not keep.
CompletedOnce ==
  \A i, j \in DOMAIN done.lines :
    i # j /\ Bad \notin {done.lines[i], done.lines[j]} =>
      \/ done.lines[i].win # done.lines[j].win
      \/ done.lines[i].pol # done.lines[j].pol

\* What the memory of RECENT_IDS identifiers does keep, whatever is evicted,
\* broken or torn: a completion is repeated no sooner than that many lines after
\* it, and a file of no more lines holds each but once (complete_window).
RepeatsAreFar ==
  \A i, j \in DOMAIN done.lines :
    /\ i < j /\ Bad \notin {done.lines[i], done.lines[j]}
    /\ done.lines[i].win = done.lines[j].win /\ done.lines[i].pol = done.lines[j].pol
    => j - i >= Cap

\* The readable observations; the windows no more of which there are than a start
\* reads back.
Readable(lines) == {i \in DOMAIN lines : lines[i] # Bad}
Fits(w) ==
  Cardinality({i \in Readable(obs.lines) : obs.lines[i].win = w}) <= Reload

\* Nothing before it in the file completes the same window and policy.
IsFirst(i) ==
  \A j \in 1 .. i - 1 :
    \/ done.lines[j] = Bad
    \/ done.lines[j].win # done.lines[i].win
    \/ done.lines[j].pol # done.lines[i].pol

\* A completion never names an asset that the policy did not select in the window;
\* and the first one says what all the observations of the window say, no signal or
\* the asset selected first, also when a restart read only the newest of the file,
\* with the rows of other windows among them.  A window with more observations
\* than a start reads is the one exception (complete_window and __init__).
CompletionsTellTheTruth ==
  ~merged => \A i \in Readable(done.lines) :
    LET c == done.lines[i]
    IN  /\ c.asset # NONE => \E r \in RowsOf(obs) :
             r.win = c.win /\ r.pol = c.pol /\ r.asset = c.asset /\ r.sel
        /\ IsFirst(i) /\ Fits(c.win) =>
             c.asset = FirstAmong(obs.lines, Readable(obs.lines), c.win, c.pol)

\* When a scan starts observing, every earlier window with an observation on
\* disk has been completed for every policy ("finalize every observed expired
\* window"), although a start knows only the windows of the newest observations.
ExpiredAreCompleted ==
  ~merged /\ pc = "observe" =>
    \A r \in RowsOf(obs) : r.win < cur =>
      \A p \in Policies : \E c \in RowsOf(done) : c.win = r.win /\ c.pol = p

\* The counts the operator sees are those of the completions on disk, over
\* restarts (summary).
CountsMatchTheFile ==
  ~merged /\ pc # "down" => counts = LoadCounts

=============================================================================
