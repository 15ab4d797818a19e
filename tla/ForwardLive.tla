------------------------------ MODULE ForwardLive ------------------------------
(***************************************************************************)
(* The live scanner of mantis_v4_live.py over its forward store: main()'s  *)
(* scan loop, ForwardEngine.process and resolve, the primary selection and *)
(* its announcement, and the shutdown path, with crashes, interrupted      *)
(* writes, OSErrors, Ctrl+C and restarts.                                  *)
(*                                                                         *)
(* The scanner is one thread, so its steps are sequenced by pc; a step     *)
(* ends where a record becomes durable, because that is where a crash      *)
(* splits the work.  Wall-clock time is the index of the 15-minute window; *)
(* a contract is a window and an asset.  Probabilities, quotes and ranks   *)
(* are abstracted to what the loop branches on: whether the asset had      *)
(* data, whether and on which side it qualified, and whether it was        *)
(* actionable.                                                             *)
(***************************************************************************)
EXTENDS JsonlLog

CONSTANTS
  AssetSeq,    \* cfg.active_assets, in scan order
  Sides,       \* {"YES", "NO"}
  NONE,        \* no side, no asset, no selection
  MaxWindow,   \* bound: windows the clock passes through
  MaxCycles,   \* bound: scan cycles in all runs together
  MaxRuns,     \* bound: process starts
  MaxFaults    \* bound: OSErrors and writes cut short

Assets  == {AssetSeq[i] : i \in DOMAIN AssetSeq}
Windows == 1 .. MaxWindow
Runs    == 1 .. MaxRuns
Keys    == Windows \X Assets
Statuses == {"PROVIDER FAILURE", "INSUFFICIENT DATA"}

ASSUME BoundAssumption ==
  /\ MaxWindow \in Nat \ {0}
  /\ {MaxCycles, MaxRuns, MaxFaults} \subseteq Nat
ASSUME AssetAssumption ==
  /\ AssetSeq \in Seq(Assets)
  /\ \A i, j \in DOMAIN AssetSeq : AssetSeq[i] = AssetSeq[j] => i = j
ASSUME NoneAssumption == NONE \notin Assets \cup Sides

-----------------------------------------------------------------------------
(***************************************************************************)
(* Rows, one shape per stream.  Identifiers that are fresh uuids cannot    *)
(* collide and are left out; window events, primary selections and STOP    *)
(* events carry an identifier computed from the fields shown.              *)
(***************************************************************************)
ObservationRow == [key : Keys]
EntryRow       == [key : Keys, side : Sides]
ResolutionRow  == [key : Keys, entry_side : Sides \cup {NONE}]
EventRow       == [key : Keys, status : Statuses]
SelectionRow   == [win : Windows, asset : Assets]
HealthRow      == [health : Windows]
RunRow         == [run : Runs]
StopRow        == [run : Runs, clean : BOOLEAN]

RowType ==
  [observations |-> ObservationRow, entries |-> EntryRow,
   resolutions |-> ResolutionRow, window_events |-> EventRow,
   primary_selections |-> SelectionRow, provider_health |-> HealthRow,
   runs |-> RunRow, session_events |-> StopRow]

Streams == {"observations", "entries", "resolutions", "window_events",
            "primary_selections", "provider_health", "runs", "session_events"}

ASSUME BadAssumption == \A s \in Streams : Bad \notin RowType[s]

VARIABLES
  file,        \* [Streams -> File]: the directory on disk
  now,         \* the window the wall clock is in
  pc,          \* where the process is
  run,         \* run_id: the number of the latest process start
  inst,        \* the window of the instant captured by this cycle
  todo,        \* index into AssetSeq of the asset being scanned
  cur,         \* decision in flight: the side entered and whether actionable
  exc,         \* exception being handled: none, an OSError, any other
  status,      \* status of the window event being recorded
  pend,        \* ended contracts still to be resolved for this asset
  scanned,     \* assets of cycle_snapshots
  actionable,  \* those among them select_primary may choose
  pick,        \* the selection being persisted
  failed,      \* persistence_failed of this cycle
  safe,        \* persistence_safe
  observed, entered, resolved,   \* indexes of the store: sets of keys
  events,      \* _ids["window_events"]
  primary,     \* _primary_by_contract
  op           \* CommandCenterState._operator_state

\* History, read by properties only.
VARIABLES
  announced,   \* per window, the PRIMARY_SELECTION events emitted for it
  errored,     \* runs in which an append raised OSError
  faults,      \* number of faults so far
  cycles,      \* number of cycles so far
  merged       \* some write landed on a torn tail

index   == <<observed, entered, resolved, events, primary>>
scan    == <<cur, exc, status, pend>>
cycle   == <<inst, todo, scanned, actionable, pick, failed>>
history == <<announced, errored, faults, cycles, merged>>
vars    == <<file, now, pc, run, safe, op, index, scan, cycle, history>>

Asset == AssetSeq[todo]
Key   == <<inst, Asset>>

NoDisplay == [win |-> NONE, asset |-> NONE, persisted |-> FALSE]
Hold      == NoDisplay          \* mark_no_data: PROVIDER_DEGRADED, no selection
\* Mutants of Display: arguments swapped; every selection called persisted.
DisplaySwapped(w, a, p) == [win |-> a, asset |-> w, persisted |-> p]
DisplayPersisted(w, a, p) == [win |-> w, asset |-> a, persisted |-> a # NONE]

Display(w, a, p) == [win |-> w, asset |-> a, persisted |-> p]

KeysIn(s) == {r.key : r \in RowsOf(file[s])}

\* A local that is not read again before it is set goes back to its first
\* value, so that it does not tell apart states the program cannot.
NoDecision == [side |-> NONE, act |-> FALSE]
DropLocals ==
  /\ cur' = NoDecision
  /\ exc' = "none" /\ status' = "PROVIDER FAILURE" /\ pend' = {}
DropCycle ==
  /\ scanned' = {} /\ actionable' = {} /\ pick' = NONE

Init ==
  /\ file = [s \in Streams |-> EmptyFile]
  /\ now = 1 /\ pc = "down" /\ run = 0
  /\ inst = 1 /\ todo = 1 /\ cur = NoDecision
  /\ exc = "none" /\ status = "PROVIDER FAILURE" /\ pend = {}
  /\ scanned = {} /\ actionable = {} /\ pick = NONE
  /\ failed = FALSE /\ safe = TRUE
  /\ observed = {} /\ entered = {} /\ resolved = {} /\ events = {}
  /\ primary = [w \in Windows |-> NONE]
  /\ op = NoDisplay
  /\ announced = [w \in Windows |-> <<>>]
  /\ errored = {} /\ faults = 0 /\ cycles = 0 /\ merged = FALSE

-----------------------------------------------------------------------------
(***************************************************************************)
(* Appends.                                                                *)
(***************************************************************************)
NoteMerge ==
  merged' = (merged \/ \E s \in Streams : file[s].torn /\ file'[s] # file[s])

\* ForwardStore.append that returns True.
Save(s, row) ==
  /\ file' = [file EXCEPT ![s] = Written(@, row, TRUE)]
  /\ NoteMerge

EventOfStep == [key |-> Key, status |-> status]

\* matches[0]["side"]: the first entry of the contract in file order.
EntrySide(k) ==
  LET L == file["entries"].lines
      I == {i \in DOMAIN L : L[i] # Bad /\ L[i].key = k}
  IN  IF I = {} THEN NONE ELSE L[CHOOSE i \in I : \A j \in I : i <= j].side

\* _primary_by_contract after __init__: the last row of a contract wins.
SavedSelection(w) ==
  LET L == file["primary_selections"].lines
      I == {i \in DOMAIN L : L[i] # Bad /\ L[i].win = w}
  IN  IF I = {} THEN NONE ELSE L[CHOOSE i \in I : \A j \in I : j <= i].asset

\* min(pend): unresolved_contracts lists contracts in order of observation.
NextEnded == CHOOSE w \in pend : \A v \in pend : w <= v

\* Mutant of ResolutionOf: the side decided in this cycle, not the one entered.
ResolutionFromMemory(k) == [key |-> k, entry_side |-> cur.side]

ResolutionOf(k) == [key |-> k, entry_side |-> EntrySide(k)]

\* resolve() can find the contract's observation and read the entries.
Resolvable(w) ==
  /\ ~Malformed(file["observations"]) /\ ~Malformed(file["entries"])
  /\ <<w, Asset>> \in KeysIn("observations")

\* The append the process is in at pc: a set of at most one pair of a stream
\* and a row.
InFlight ==
  CASE pc = "boot"    -> {<<"runs", [run |-> run]>>}
    [] pc = "event"   -> IF EventOfStep \in events THEN {}
                         ELSE {<<"window_events", EventOfStep>>}
    [] pc = "observe" -> {<<"observations", [key |-> Key]>>}
    [] pc = "enter"   -> {<<"entries", [key |-> Key, side |-> cur.side]>>}
    [] pc = "resolve" -> IF pend # {} /\ Resolvable(NextEnded)
                         THEN {<<"resolutions",
                                 ResolutionOf(<<NextEnded, Asset>>)>>}
                         ELSE {}
    [] pc = "persist" -> {<<"primary_selections",
                            [win |-> inst, asset |-> pick]>>}
    [] pc = "health"  -> {<<"provider_health", [health |-> inst]>>}
    [] pc = "stop"    -> {<<"session_events", [run |-> run, clean |-> safe]>>}
    [] OTHER          -> {}

\* What a broken-off write leaves behind.  Ctrl+C only breaks off Python: the
\* file is still closed, hence flushed, and the line is whole.
LeftBy(f, row, closed) ==
  IF closed THEN {Written(f, row, TRUE)} ELSE Interrupted(f, row)

\* The append in flight is broken off.
CutShort(closed) ==
  \E x \in InFlight :
    /\ faults < MaxFaults
    /\ faults' = faults + 1
    /\ \E g \in LeftBy(file[x[1]], x[2], closed) :
         file' = [file EXCEPT ![x[1]] = g]
    /\ NoteMerge

-----------------------------------------------------------------------------
(***************************************************************************)
(* Start-up and shutdown.                                                  *)
(***************************************************************************)
\* The process is gone and its memory with it.
Exit ==
  /\ pc' = "down"
  /\ observed' = {} /\ entered' = {} /\ resolved' = {} /\ events' = {}
  /\ primary' = [w \in Windows |-> NONE]
  /\ op' = NoDisplay
  /\ inst' = 1 /\ todo' = 1 /\ failed' = FALSE
  /\ DropCycle /\ DropLocals

\* main() opens the store: __init__ reads all eight streams and raises on a
\* malformed interior line of any.
Start ==
  /\ pc = "down" /\ run < MaxRuns
  /\ \A s \in Streams : ~Malformed(file[s])
  /\ run' = run + 1
  /\ safe' = TRUE
  /\ observed' = KeysIn("observations")
  /\ entered' = KeysIn("entries")
  /\ resolved' = KeysIn("resolutions")
  /\ events' = RowsOf(file["window_events"])
  /\ primary' = [w \in Windows |-> SavedSelection(w)]
  /\ pc' = "boot"
  /\ UNCHANGED <<file, now, op, scan, cycle, history>>

\* ForwardEngine.__init__ writes the run row.
WriteRun ==
  /\ pc = "boot"
  /\ Save("runs", [run |-> run])
  /\ pc' = "idle"
  /\ UNCHANGED <<now, run, safe, op, index, scan, cycle,
                 announced, errored, faults, cycles>>

\* The finally block: the STOP row says whether persistence was safe.
Stop ==
  /\ pc = "stop"
  /\ Save("session_events", [run |-> run, clean |-> safe])
  /\ Exit
  /\ UNCHANGED <<now, run, safe, announced, errored, faults, cycles>>

-----------------------------------------------------------------------------
(***************************************************************************)
(* One scan cycle.                                                         *)
(***************************************************************************)
\* The instant is captured once.  A new window resets _primary_selection;
\* the reset carries no operator_state, so the one shown stays.
BeginCycle ==
  /\ pc = "idle" /\ cycles < MaxCycles
  /\ cycles' = cycles + 1
  /\ inst' = now /\ todo' = 1 /\ failed' = FALSE
  /\ DropCycle
  /\ pc' = "scan"
  /\ UNCHANGED <<file, now, run, safe, op, index, scan,
                 announced, errored, faults, merged>>

Scanning == pc = "scan" /\ todo \in DOMAIN AssetSeq

\* No bars, or no causal data yet: a window event, then a hold.
NoData(st) ==
  /\ Scanning
  /\ exc' = "none" /\ status' = st
  /\ pc' = "event"
  /\ UNCHANGED <<file, now, run, safe, op, index, cycle, cur, pend, history>>

\* Anything but an OSError is raised before the engine writes.
ScanRaises ==
  /\ Scanning
  /\ exc' = "other" /\ status' = "PROVIDER FAILURE"
  /\ pc' = "event"
  /\ UNCHANGED <<file, now, run, safe, op, index, cycle, cur, pend, history>>

\* Mutant of Classify: the entry is appended before its observation.
ClassifyEntryFirst(side, act) ==
  /\ Scanning
  /\ act => side # NONE
  /\ cur' = [side |-> side, act |-> act]
  /\ pc' = IF side # NONE /\ Key \notin entered THEN "enter" ELSE "observe"
  /\ UNCHANGED <<file, now, run, safe, op, index, cycle, exc, status, pend,
                 history>>

\* compute_asset_state and decide: the side entered, or none; only an asset
\* that qualified can be actionable.
Classify(side, act) ==
  /\ Scanning
  /\ act => side # NONE
  /\ cur' = [side |-> side, act |-> act]
  /\ pc' = "observe"
  /\ UNCHANGED <<file, now, run, safe, op, index, cycle, exc, status, pend,
                 history>>

\* Mutants of Snapshot: contracts already resolved are listed again; the
\* contract of the window still open is listed too.
SnapshotUnsettled ==
  /\ scanned' = scanned \cup {Asset}
  /\ actionable' = IF cur.act THEN actionable \cup {Asset} ELSE actionable
  /\ pend' = {w \in 1 .. inst - 1 : <<w, Asset>> \in observed'}
  /\ pc' = "resolve"

SnapshotEarly ==
  /\ scanned' = scanned \cup {Asset}
  /\ actionable' = IF cur.act THEN actionable \cup {Asset} ELSE actionable
  /\ pend' = {w \in 1 .. inst : <<w, Asset>> \in observed' \ resolved}
  /\ pc' = "resolve"

\* process() returns its snapshot and main() lists the ended contracts.
Snapshot ==
  /\ scanned' = scanned \cup {Asset}
  /\ actionable' = IF cur.act THEN actionable \cup {Asset} ELSE actionable
  /\ pend' = {w \in 1 .. inst - 1 : <<w, Asset>> \in observed' \ resolved}
  /\ pc' = "resolve"

Observe ==
  /\ pc = "observe"
  /\ Save("observations", [key |-> Key])
  /\ observed' = observed \cup {Key}
  /\ IF cur.side # NONE /\ Key \notin entered
       THEN pc' = "enter" /\ UNCHANGED <<scanned, actionable, pend>>
       ELSE Snapshot
  /\ UNCHANGED <<now, run, safe, op, inst, todo, pick, failed, cur, exc,
                 status, entered, resolved, events, primary,
                 announced, errored, faults, cycles>>

\* Mutant of Enter: the index of entries is not updated.
EnterUnindexed ==
  /\ pc = "enter"
  /\ Save("entries", [key |-> Key, side |-> cur.side])
  /\ UNCHANGED <<observed, entered>>
  /\ Snapshot
  /\ UNCHANGED <<now, run, safe, op, inst, todo, pick, failed, cur, exc,
                 status, resolved, events, primary,
                 announced, errored, faults, cycles>>

Enter ==
  /\ pc = "enter"
  /\ Save("entries", [key |-> Key, side |-> cur.side])
  /\ entered' = entered \cup {Key}
  /\ UNCHANGED observed
  /\ Snapshot
  /\ UNCHANGED <<now, run, safe, op, inst, todo, pick, failed, cur, exc,
                 status, resolved, events, primary,
                 announced, errored, faults, cycles>>

\* One ended contract after the other; its window is over and bars of the
\* current window exist, so the terminal bar does too.
Resolve ==
  /\ pc = "resolve" /\ pend # {} /\ Resolvable(NextEnded)
  /\ Save("resolutions", ResolutionOf(<<NextEnded, Asset>>))
  /\ resolved' = resolved \cup {<<NextEnded, Asset>>}
  /\ pend' = pend \ {NextEnded}
  /\ UNCHANGED <<now, pc, run, safe, op, cycle, cur, exc, status, observed,
                 entered, events, primary, announced, errored, faults, cycles>>

\* No observation row is left for the contract: skip it.  An unreadable
\* stream raises ValueError, which the asset's handler takes.
ResolveFails ==
  /\ pc = "resolve" /\ pend # {} /\ ~Resolvable(NextEnded)
  /\ IF \/ Malformed(file["observations"])
        \/ /\ <<NextEnded, Asset>> \in KeysIn("observations")
           /\ Malformed(file["entries"])
       THEN /\ exc' = "other" /\ status' = "PROVIDER FAILURE"
            /\ pc' = "event"
            /\ UNCHANGED pend
       ELSE /\ pend' = pend \ {NextEnded}
            /\ UNCHANGED <<exc, status, pc>>
  /\ UNCHANGED <<file, now, run, safe, op, index, cycle, cur, history>>

AssetDone ==
  /\ pc = "resolve" /\ pend = {}
  /\ todo' = todo + 1
  /\ pc' = "scan"
  /\ DropLocals
  /\ UNCHANGED <<file, now, run, safe, op, index, inst, scanned,
                 actionable, pick, failed, history>>

\* Mutant of RecordEvent: the handler does not tell an OSError apart.
RecordEventGoesOn ==
  /\ pc = "event"
  /\ IF EventOfStep \in events
       THEN UNCHANGED <<file, events, merged>>
       ELSE Save("window_events", EventOfStep)
            /\ events' = events \cup {EventOfStep}
  /\ op' = Hold
  /\ todo' = todo + 1 /\ pc' = "scan"
  /\ DropLocals
  /\ UNCHANGED <<now, run, safe, inst, scanned, actionable, pick, failed,
                 observed, entered, resolved, primary,
                 announced, errored, faults, cycles>>

\* _record_window_event and _hold, from the two no-data paths or from the
\* handler; after an OSError the handler ends the asset loop.
RecordEvent ==
  /\ pc = "event"
  /\ IF EventOfStep \in events
       THEN UNCHANGED <<file, events, merged>>
       ELSE Save("window_events", EventOfStep)
            /\ events' = events \cup {EventOfStep}
  /\ op' = Hold
  /\ IF exc = "os"
       THEN failed' = TRUE /\ safe' = FALSE /\ pc' = "select" /\ UNCHANGED todo
       ELSE todo' = todo + 1 /\ pc' = "scan" /\ UNCHANGED <<failed, safe>>
  /\ DropLocals
  /\ UNCHANGED <<now, run, inst, scanned, actionable, pick, observed,
                 entered, resolved, primary, announced, errored, faults, cycles>>

-----------------------------------------------------------------------------
(***************************************************************************)
(* The primary selection of the window.                                    *)
(***************************************************************************)
AllScanned ==
  \/ pc = "select"
  \/ pc = "scan" /\ todo \notin DOMAIN AssetSeq

AfterSelection == IF failed THEN "stop" ELSE "health"

\* Mutant of Select: the saved selection is not looked up.
SelectAfresh ==
  /\ AllScanned
  /\ \/ /\ \E a \in actionable : op' = Display(inst, a, FALSE) /\ pick' = a
        /\ pc' = "persist"
     \/ /\ actionable = {}
        /\ op' = IF scanned = {} THEN op ELSE Display(inst, NONE, FALSE)
        /\ pc' = AfterSelection /\ UNCHANGED pick
  /\ UNCHANGED <<file, now, run, safe, index, scan, inst, todo, scanned,
                 actionable, failed, history>>

\* The saved selection of the window overrides this cycle's.  Otherwise
\* select_primary ranks the actionable snapshots and takes the best.
Select ==
  /\ AllScanned
  /\ LET saved == primary[inst]
     IN \/ /\ saved # NONE
           /\ op' = Display(inst, saved, TRUE)
           /\ pc' = AfterSelection /\ UNCHANGED pick
        \/ /\ saved = NONE
           /\ \E a \in actionable :
                op' = Display(inst, a, FALSE) /\ pick' = a
           /\ pc' = "persist"
        \/ /\ saved = NONE /\ actionable = {}
           /\ op' = IF scanned = {} THEN op ELSE Display(inst, NONE, FALSE)
           /\ pc' = AfterSelection /\ UNCHANGED pick
  /\ UNCHANGED <<file, now, run, safe, index, scan, inst, todo, scanned,
                 actionable, failed, history>>

\* Mutant of PersistSelection: the index of selections is not updated.
PersistUnindexed ==
  /\ pc = "persist"
  /\ Save("primary_selections", [win |-> inst, asset |-> pick])
  /\ pc' = "announce"
  /\ UNCHANGED <<now, run, safe, op, scan, cycle, index,
                 announced, errored, faults, cycles>>

PersistSelection ==
  /\ pc = "persist"
  /\ Save("primary_selections", [win |-> inst, asset |-> pick])
  /\ primary' = [primary EXCEPT ![inst] = pick]
  /\ pc' = "announce"
  /\ UNCHANGED <<now, run, safe, op, scan, cycle, observed, entered, resolved,
                 events, announced, errored, faults, cycles>>

\* append returned True: show it as persisted and emit PRIMARY_SELECTION.
Announce ==
  /\ pc = "announce"
  /\ op' = Display(inst, pick, TRUE)
  /\ announced' = [announced EXCEPT ![inst] = Append(@, pick)]
  /\ pc' = AfterSelection
  /\ UNCHANGED <<file, now, run, safe, index, scan, cycle,
                 errored, faults, cycles, merged>>

RecordHealth ==
  /\ pc = "health"
  /\ Save("provider_health", [health |-> inst])
  /\ pc' = "idle"
  /\ DropCycle
  /\ UNCHANGED <<now, run, safe, op, index, scan, inst, todo, failed,
                 announced, errored, faults, cycles>>

-----------------------------------------------------------------------------
(***************************************************************************)
(* Faults, the operator and the clock.                                     *)
(***************************************************************************)
\* An append raises OSError.  Inside the asset loop the handler takes it, and
\* records a window event first; raised by that event, or by the selection,
\* nothing takes it before the finally block.
IOError ==
  /\ CutShort(FALSE)
  /\ errored' = errored \cup {run}
  /\ \/ /\ \/ pc \in {"observe", "enter", "resolve"}
           \/ pc = "event" /\ exc = "none"
        /\ exc' = "os" /\ status' = "PROVIDER FAILURE"
        /\ pc' = "event"
        /\ UNCHANGED <<safe, op, index, cur, pend, cycle>>
     \/ /\ \/ pc = "persist"
           \/ pc = "event" /\ exc # "none"
        /\ pc' = "stop"
        /\ UNCHANGED <<safe, op, index, scan, cycle>>
     \/ /\ pc = "health"
        /\ safe' = FALSE /\ op' = Hold
        /\ pc' = "stop"
        /\ UNCHANGED <<index, scan, cycle>>
     \/ pc = "boot" /\ Exit /\ UNCHANGED safe
     \/ pc = "stop" /\ Exit /\ safe' = FALSE
  /\ UNCHANGED <<now, run, announced, cycles>>

\* The process dies, possibly inside the append.
Crash ==
  /\ pc # "down"
  /\ CutShort(FALSE) \/ UNCHANGED <<file, faults, merged>>
  /\ Exit
  /\ UNCHANGED <<now, run, safe, announced, errored, cycles>>

\* Ctrl+C: KeyboardInterrupt is no Exception, so only the outer handler takes
\* it.  The end of a --once cycle leaves the loop in the same way.
Interrupt ==
  /\ pc \notin {"down", "boot", "stop"}
  /\ CutShort(TRUE) \/ UNCHANGED <<file, faults, merged>>
  /\ pc' = "stop"
  /\ UNCHANGED <<now, run, safe, op, index, scan, cycle,
                 announced, errored, cycles>>

Tick ==
  /\ now < MaxWindow
  /\ now' = now + 1
  /\ UNCHANGED <<file, pc, run, safe, op, index, scan, cycle, history>>

Step ==
  \/ WriteRun \/ Stop \/ BeginCycle
  \/ \E st \in Statuses : NoData(st)
  \/ ScanRaises
  \/ \E side \in Sides \cup {NONE}, act \in BOOLEAN : Classify(side, act)
  \/ Observe \/ Enter \/ Resolve \/ ResolveFails \/ AssetDone \/ RecordEvent
  \/ Select \/ PersistSelection \/ Announce \/ RecordHealth

Next == Start \/ Step \/ IOError \/ Crash \/ Interrupt \/ Tick

Spec == Init /\ [][Next]_vars

\* The scanner thread keeps running while it can; nothing else is promised.
FairSpec == Spec /\ WF_vars(Step)

-----------------------------------------------------------------------------
FilesTyped ==
  /\ file = [s \in Streams |-> file[s]]
  /\ \A s \in Streams : file[s] \in File(RowType[s])

LocalsTyped ==
  /\ now \in Windows /\ inst \in Windows
  /\ pc \in {"down", "boot", "idle", "scan", "event", "observe", "enter",
             "resolve", "select", "persist", "announce", "health", "stop"}
  /\ run \in 0 .. MaxRuns
  /\ todo \in 1 .. Len(AssetSeq) + 1
  /\ cur \in [side : Sides \cup {NONE}, act : BOOLEAN]
  /\ exc \in {"none", "os", "other"} /\ status \in Statuses
  /\ pend \subseteq Windows
  /\ scanned \subseteq Assets /\ actionable \subseteq scanned
  /\ pick \in Assets \cup {NONE}
  /\ failed \in BOOLEAN /\ safe \in BOOLEAN

IndexesTyped ==
  /\ observed \subseteq Keys /\ entered \subseteq Keys
  /\ resolved \subseteq Keys /\ events \subseteq EventRow
  /\ primary \in [Windows -> Assets \cup {NONE}]
  /\ op \in [win : Windows \cup {NONE}, asset : Assets \cup {NONE},
             persisted : BOOLEAN]

HistoryTyped ==
  /\ announced \in [Windows -> Seq(Assets)]
  /\ errored \subseteq Runs /\ faults \in 0 .. MaxFaults
  /\ cycles \in 0 .. MaxCycles /\ merged \in BOOLEAN

TypeOK == FilesTyped /\ LocalsTyped /\ IndexesTyped /\ HistoryTyped

\* Rows of stream s, by line, with equal keys.
AtMostOneRowPerKey(s) ==
  \A i, j \in DOMAIN file[s].lines :
    /\ i # j
    /\ Bad \notin {file[s].lines[i], file[s].lines[j]}
    => file[s].lines[i].key # file[s].lines[j].key

\* A contract is entered at most once per asset, whatever crashes, cut-off
\* writes and restarts happen in between (process, has_entry, __init__).
OneEntryPerContract == AtMostOneRowPerKey("entries")

\* A contract is resolved at most once per asset (resolve, has_resolution).
OneResolutionPerContract == AtMostOneRowPerKey("resolutions")

\* A resolution is of a contract whose window is over, that was observed, and
\* carries the side the contract was really entered on, or none if it never
\* was (main's pending loop, resolve reading the entries back from disk).
ResolutionsTellTheTruth ==
  ~merged =>
    \A r \in RowsOf(file["resolutions"]) :
      /\ r.key[1] < now
      /\ r.key \in KeysIn("observations")
      /\ r.entry_side = EntrySide(r.key)

\* Every entry is of an observed contract (process writes the observation
\* first).
EntriesWereObserved ==
  ~merged => KeysIn("entries") \subseteq KeysIn("observations")

\* PRIMARY_SELECTION is emitted at most once per window, over all runs, and
\* for the selection that is on disk (main's selection block).
AnnouncedOncePerWindow ==
  ~merged =>
    \A w \in Windows :
      /\ Len(announced[w]) <= 1
      /\ announced[w] # <<>> => SavedSelection(w) = announced[w][1]

\* The selection shown as persisted is the one a restart would restore.
PersistedDisplayIsOnDisk ==
  ~merged /\ op.persisted => SavedSelection(op.win) = op.asset

\* While no append of the run raised and nobody is stopping it, the indexes
\* in memory are what a restart would rebuild from disk.
MemoryAgreesWithDisk ==
  ~merged /\ pc \notin {"down", "stop"} /\ run \notin errored =>
    /\ observed = KeysIn("observations")
    /\ entered = KeysIn("entries")
    /\ resolved = KeysIn("resolutions")
    /\ events = RowsOf(file["window_events"])
    /\ \A w \in Windows : primary[w] = SavedSelection(w)

\* After an append of a run raised, the run observes, enters and resolves
\* nothing more (the handler, persistence_failed).
NoScanAfterAnError ==
  [][\A s \in {"observations", "entries", "resolutions"} :
       run \in errored /\ run' = run => (file'[s] = file[s])]_vars

\* Once a selection of a window is on disk the operator is never shown
\* another one as persisted for that window, in this run or a later one.
SelectionIsStable ==
  [][\A w \in Windows :
       (SavedSelection(w) # NONE /\ ~merged' =>
         /\ SavedSelection(w)' = SavedSelection(w)
         /\ op'.win = w /\ op'.persisted => op'.asset = SavedSelection(w))]_vars

\* A run in which an append raised always comes to its end.
ErrorStopsTheRun == \A r \in Runs : (r \in errored /\ run = r) ~> (pc = "down")

-----------------------------------------------------------------------------
(***************************************************************************)
(* The ledger these records keep.                                          *)
(***************************************************************************)
Ledger == INSTANCE ContractLedger WITH
  clock     <- now,
  seen      <- KeysIn("observations"),
  side      <- [k \in Keys |-> EntrySide(k)],
  settled   <- KeysIn("resolutions"),
  chosen    <- [w \in Windows |-> SavedSelection(w)],
  published <- [w \in Windows |-> Len(announced[w])],
  intact    <- ~merged

\* Every step of the scanner, its faults included, is one step of the ledger
\* or none, until a write lands on a torn tail.
LedgerSpec == Ledger!Spec

-----------------------------------------------------------------------------
(***************************************************************************)
(* What the documentation and the comments say.                            *)
(***************************************************************************)
\* PHASE11_DATA_INTEGRITY: a truncated final append remains recoverable: cut
\* off writes are the only damage here, so the next start can read the store.
TruncatedTailRecoverable == \A s \in Streams : ~Malformed(file[s])

\* PHASE10_FAILURE_RECOVERY: an OSError during persistence is treated as
\* unsafe; a run that stops after one does not call its records safe.
StopReportsTheError == pc = "stop" /\ run \in errored => ~safe

\* PHASE9_COMMAND_CENTER: at rollover the per-window values clear and the new
\* window initialises from empty: no selection of an earlier window is shown
\* while a cycle works on a later one.
RolloverClearsSelection ==
  pc \notin {"down", "boot", "idle", "stop"} /\ op.asset # NONE
    => op.win = inst

=============================================================================
