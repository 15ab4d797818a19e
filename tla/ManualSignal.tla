------------------------------ MODULE ManualSignal ------------------------------
(***************************************************************************)
(* The manual signal mode: ManualSignalEngine.scan and its signal ledger   *)
(* (mantis_v4/manual_signal), driven by the loop of                        *)
(* _run_kalshi_manual_signals, which shows the signal of the window and    *)
(* speaks it once the interface is ready.                                  *)
(*                                                                         *)
(* The first signal of a window is locked, then appended to the ledger,    *)
(* then shown, then queued for speech; a restart finds the lock in the     *)
(* ledger again.  Any exception leaves the loop, so a failed append ends   *)
(* the process.  Candidates are abstracted to the signal the ranking puts  *)
(* first, if any; time is the index of the 15-minute window and does not   *)
(* run backwards.                                                          *)
(***************************************************************************)
EXTENDS JsonlLog, FiniteSets

CONSTANTS
  Assets,
  Sides,       \* {"YES", "NO"}
  NONE,        \* no signal, no window
  Cap,         \* identifiers kept in memory: 256 in the code
  MaxWindow,   \* bound: windows the clock passes through
  MaxRuns,     \* bound: process starts
  MaxFaults    \* bound: appends that do not complete

Windows == 1 .. MaxWindow

\* A candidate's contract_id holds its asset and window, and signal_id is a
\* hash of contract and side: a signal is its own identifier.
Signals == [win : Windows, asset : Assets, side : Sides]

ASSUME BoundAssumption ==
  /\ MaxWindow \in Nat \ {0} /\ Cap \in Nat \ {0}
  /\ {MaxRuns, MaxFaults} \subseteq Nat
ASSUME NoneAssumption == NONE \notin Signals \cup Windows
ASSUME BadAssumption == Bad \notin Signals

VARIABLES
  file,      \* signals.jsonl
  now,       \* the window the wall clock is in
  run,       \* number of the latest process start
  pc,        \* where the process is
  ids,       \* _ids of the ledger
  latest,    \* _latest_record of the ledger
  win,       \* lock_window_end
  locked,    \* locked_signal
  had,       \* _window_had_signal
  hits,      \* windows_with_signal
  misses,    \* windows_without_signal
  shown,     \* the signal of the operator state
  saved,     \* persisted: this scan appended its signal
  pending,   \* the signal still to be spoken
  ready      \* the interface is ready for speech

\* History, read by properties only.
VARIABLES
  closed,    \* windows this run went through and left
  spoken,    \* signals handed to the voice, in order
  faults,    \* appends that did not complete
  merged     \* some write landed on a torn tail

ledger  == <<file, ids, latest>>
count   == <<had, hits, misses, closed>>
history == <<spoken, faults, merged>>
vars == <<ledger, now, run, pc, win, locked, count, shown, saved, pending,
          ready, history>>

LastOf(lines) == IF lines = <<>> THEN NONE ELSE lines[Len(lines)]

\* The newest Cap lines.
Recent(lines) ==
  {lines[i] : i \in {j \in DOMAIN lines : j + Cap > Len(lines)}}

\* What the ledger keeps of the identifiers it finds at start.
LoadedIds(f) ==
  IF Cardinality(RowsOf(f)) > Cap THEN Recent(f.lines) ELSE RowsOf(f)

\* Mutant of LockedFor: the ledger is not consulted.
LockedForNone(w) == NONE

\* locked_for_window: the newest record, if it is of this window.
LockedFor(w) == IF latest # NONE /\ latest.win = w THEN latest ELSE NONE

Init ==
  /\ file = EmptyFile /\ now = 1 /\ run = 0 /\ pc = "down"
  /\ ids = {} /\ latest = NONE
  /\ win = NONE /\ locked = NONE /\ shown = NONE
  /\ had = FALSE /\ hits = 0 /\ misses = 0
  /\ saved = FALSE /\ pending = NONE /\ ready = FALSE
  /\ closed = {} /\ spoken = <<>> /\ faults = 0 /\ merged = FALSE

-----------------------------------------------------------------------------
\* The process ends; the signal to be spoken, the lock and the counts go.
Exit ==
  /\ pc' = "down"
  /\ ids' = {} /\ latest' = NONE
  /\ win' = NONE /\ locked' = NONE /\ shown' = NONE
  /\ had' = FALSE /\ hits' = 0 /\ misses' = 0 /\ closed' = {}
  /\ saved' = FALSE /\ pending' = NONE /\ ready' = FALSE

\* ManualSignalStore.__init__ raises on any line it cannot parse, the last one
\* included.  A terminal front end is ready at once, a browser later or never.
Start ==
  /\ pc = "down" /\ run < MaxRuns
  /\ \A i \in DOMAIN file.lines : file.lines[i] # Bad
  /\ run' = run + 1
  /\ pc' = "idle"
  /\ ids' = LoadedIds(file) /\ latest' = LastOf(file.lines)
  /\ ready' \in BOOLEAN
  /\ UNCHANGED <<file, now, win, locked, count, shown, saved, pending, history>>

\* The browser reports that its boot sequence is over.
Arm ==
  /\ pc # "down" /\ ~ready
  /\ ready' = TRUE
  /\ UNCHANGED <<ledger, now, run, pc, win, locked, count, shown, saved,
                 pending, history>>

\* scan() within the window of the last one: the lock stays.
SameWindow ==
  /\ pc = "idle" /\ win = now
  /\ pc' = "select"
  /\ UNCHANGED <<ledger, now, run, win, locked, count, shown, saved, pending,
                 ready, history>>

\* Mutant of NewWindow: a signal found in the ledger does not count as had.
NewWindowUncounted ==
  /\ pc = "idle" /\ win # now
  /\ IF win = NONE
       THEN UNCHANGED <<hits, misses, closed>>
       ELSE /\ hits' = IF had THEN hits + 1 ELSE hits
            /\ misses' = IF had THEN misses ELSE misses + 1
            /\ closed' = closed \cup {win}
  /\ win' = now
  /\ locked' = LockedFor(now)
  /\ had' = FALSE
  /\ pc' = "select"
  /\ UNCHANGED <<ledger, now, run, shown, saved, pending, ready, history>>

\* scan() in a new window: count the one that ended, and look the lock of the
\* new one up in the ledger.
NewWindow ==
  /\ pc = "idle" /\ win # now
  /\ IF win = NONE
       THEN UNCHANGED <<hits, misses, closed>>
       ELSE /\ hits' = IF had THEN hits + 1 ELSE hits
            /\ misses' = IF had THEN misses ELSE misses + 1
            /\ closed' = closed \cup {win}
  /\ win' = now
  /\ locked' = LockedFor(now)
  /\ had' = (LockedFor(now) # NONE)
  /\ pc' = "select"
  /\ UNCHANGED <<ledger, now, run, shown, saved, pending, ready, history>>

\* No asset passes the gates, or the window already has its signal.
KeepLock ==
  /\ pc = "select"
  /\ saved' = FALSE
  /\ pc' = "publish"
  /\ UNCHANGED <<ledger, now, run, win, locked, count, shown, pending, ready,
                 history>>

\* Mutant of Lock: a later candidate replaces the signal of the window.
LockAgain(s) ==
  /\ pc = "select"
  /\ s.win = win
  /\ locked' = s /\ had' = TRUE
  /\ pc' = "append"
  /\ UNCHANGED <<ledger, now, run, win, hits, misses, closed, shown, saved,
                 pending, ready, history>>

\* apply_signal_lock: the best candidate becomes the signal of the window, in
\* memory, with this scan's instant as its time of issue.
Lock(s) ==
  /\ pc = "select" /\ locked = NONE
  /\ s.win = win
  /\ locked' = s /\ had' = TRUE
  /\ pc' = "append"
  /\ UNCHANGED <<ledger, now, run, win, hits, misses, closed, shown, saved,
                 pending, ready, history>>

Merges == merged' = (merged \/ (file.torn /\ file' # file))

\* ManualSignalStore.append: a known identifier is refused; more than Cap
\* identifiers collapse to the newest one.
SaveSignal ==
  /\ pc = "append"
  /\ IF locked \in ids
       THEN saved' = FALSE /\ UNCHANGED ledger
       ELSE /\ file' = Written(file, locked, TRUE)
            /\ ids' = IF Cardinality(ids \cup {locked}) > Cap
                        THEN {locked} ELSE ids \cup {locked}
            /\ latest' = locked
            /\ saved' = TRUE
  /\ pc' = "publish"
  /\ Merges
  /\ UNCHANGED <<now, run, win, locked, count, shown, pending, ready, spoken,
                 faults>>

\* Mutant of SaveCutShort: the error is swallowed and the scan goes on.
SaveCutShortIgnored ==
  /\ pc = "append" /\ locked \notin ids
  /\ faults < MaxFaults
  /\ faults' = faults + 1
  /\ file' \in Interrupted(file, locked)
  /\ Merges
  /\ saved' = FALSE
  /\ pc' = "publish"
  /\ UNCHANGED <<now, run, spoken, ids, latest, win, locked, count, shown,
                 pending, ready>>

\* The append raises, or the process dies in it; either way it ends.
SaveCutShort ==
  /\ pc = "append" /\ locked \notin ids
  /\ faults < MaxFaults
  /\ faults' = faults + 1
  /\ file' \in Interrupted(file, locked)
  /\ Merges
  /\ Exit
  /\ UNCHANGED <<now, run, spoken>>

\* Mutant of Publish: a signal found locked is spoken as well.
PublishLocked ==
  /\ pc = "publish"
  /\ shown' = locked
  /\ pending' = IF locked # NONE THEN locked ELSE pending
  /\ pc' = "speak"
  /\ UNCHANGED <<ledger, now, run, win, locked, count, saved, ready, history>>

\* scan() returned: show the locked signal, and remember a new one for speech.
Publish ==
  /\ pc = "publish"
  /\ shown' = locked
  /\ pending' = IF saved THEN locked ELSE pending
  /\ pc' = "speak"
  /\ UNCHANGED <<ledger, now, run, win, locked, count, saved, ready, history>>

\* Mutants of Speak: whatever is pending is spoken, if anything is; only the
\* scan that saved a signal speaks it.
SpeakUnguarded ==
  /\ pc = "speak"
  /\ IF ready
       THEN spoken' = Append(spoken, pending) /\ pending' = NONE
       ELSE UNCHANGED <<spoken, pending>>
  /\ pc' = "idle"
  /\ UNCHANGED <<ledger, now, run, win, locked, count, shown, saved, ready,
                 faults, merged>>

SpeakNow ==
  /\ pc = "speak"
  /\ IF ready /\ saved
       THEN spoken' = Append(spoken, pending) /\ pending' = NONE
       ELSE UNCHANGED <<spoken, pending>>
  /\ pc' = "idle"
  /\ UNCHANGED <<ledger, now, run, win, locked, count, shown, saved, ready,
                 faults, merged>>

\* Speech waits until the interface is ready.
Speak ==
  /\ pc = "speak"
  /\ IF ready /\ pending # NONE
       THEN spoken' = Append(spoken, pending) /\ pending' = NONE
       ELSE UNCHANGED <<spoken, pending>>
  /\ pc' = "idle"
  /\ UNCHANGED <<ledger, now, run, win, locked, count, shown, saved, ready,
                 faults, merged>>

\* An exception of a provider or of another stream, Ctrl+C, the end of --once,
\* or the death of the process outside the ledger's append.
Leave ==
  /\ pc # "down"
  /\ Exit
  /\ UNCHANGED <<file, now, run, history>>

Tick ==
  /\ now < MaxWindow
  /\ now' = now + 1
  /\ UNCHANGED <<ledger, run, pc, win, locked, count, shown, saved, pending,
                 ready, history>>

Scan ==
  \/ SameWindow \/ NewWindow \/ KeepLock \/ (\E s \in Signals : Lock(s))
  \/ SaveSignal \/ Publish \/ Speak

Next == Start \/ Arm \/ Scan \/ SaveCutShort \/ Leave \/ Tick

Spec == Init /\ [][Next]_vars

\* The loop goes on scanning while its process lives.
FairSpec == Spec /\ WF_vars(Scan)

-----------------------------------------------------------------------------
MaybeSignal == Signals \cup {NONE}

TypeOK ==
  /\ file \in File(Signals)
  /\ now \in Windows /\ run \in 0 .. MaxRuns
  /\ pc \in {"down", "idle", "select", "append", "publish", "speak"}
  /\ ids \subseteq Signals /\ latest \in MaybeSignal
  /\ win \in Windows \cup {NONE} /\ locked \in MaybeSignal
  /\ had \in BOOLEAN /\ {hits, misses} \subseteq Nat
  /\ shown \in MaybeSignal /\ saved \in BOOLEAN
  /\ pending \in MaybeSignal /\ ready \in BOOLEAN
  /\ closed \subseteq Windows /\ spoken \in Seq(Signals)
  /\ faults \in 0 .. MaxFaults /\ merged \in BOOLEAN

\* The ledger holds one signal per window, over any number of restarts and
\* appends that broke off (apply_signal_lock, locked_for_window, append).
OneSignalPerWindow ==
  ~merged => \A i, j \in DOMAIN file.lines :
               /\ i # j /\ Bad \notin {file.lines[i], file.lines[j]}
               => file.lines[i].win # file.lines[j].win

\* What the operator sees is in the ledger, so a restart shows it again (scan
\* appends before it returns).
ShownIsSaved == ~merged /\ shown # NONE => shown \in RowsOf(file)

\* A signal is spoken at most once, over all runs, and only once it is in the
\* ledger (persisted, pending).
SpokenOnceAndSaved ==
  ~merged =>
    /\ \A i, j \in DOMAIN spoken : i # j => spoken[i].win # spoken[j].win
    /\ \A i \in DOMAIN spoken : spoken[i] \in RowsOf(file)

\* frequency_summary: of the windows this run left, those with a signal in the
\* ledger were counted as such, and the others as without.
FrequencyMatchesLedger ==
  LET with == {w \in closed : \E s \in RowsOf(file) : s.win = w}
  IN  ~merged => /\ hits = Cardinality(with)
                 /\ misses = Cardinality(closed \ with)

\* Within a window the operator never sees one signal replaced by another.
SignalIsStable ==
  [][shown # NONE /\ shown' # NONE /\ shown.win = shown'.win /\ ~merged'
       => shown' = shown]_vars

\* Once the interface is ready, a saved signal is spoken, or superseded by a
\* later one that is, unless the process ends (pending outlives the scan).
SavedIsSpoken ==
  \A w \in Windows :
    (pending # NONE /\ pending.win = w /\ ready)
      ~> (pc = "down" \/ \E i \in DOMAIN spoken : spoken[i].win >= w)

-----------------------------------------------------------------------------
\* STEP10: a stale or rolled signal disappears on the next scan and produces
\* no speech: what is handed to the voice is a signal of the window scanned.
SpeechIsCurrent ==
  [][spoken' # spoken => spoken'[Len(spoken')].win = win]_vars

=============================================================================
