---------------------------- MODULE ContractRecorder ----------------------------
(***************************************************************************)
(* MantisEngine, ResolutionEngine and ContractRecorder for one asset       *)
(* (mantis_v4/engine.py, resolution.py, recording.py), run by              *)
(* mantis_15m_resolution_v4.py: at its start the program settles what it   *)
(* finds due, then scans until it is interrupted, and settles once more on *)
(* the way out.  A scan captures one instant, settles the contracts due at *)
(* it, and records the contract of the window the instant is in.           *)
(*                                                                         *)
(* The rows are those of SQLite, where a step of the model is a commit;    *)
(* the process may die between any two.  Rows that end are also appended   *)
(* to a CSV file, an append that may fail and is then forgotten.           *)
(*                                                                         *)
(* Left out: entries (no code under src records one), the spot and count   *)
(* columns, the quality report (this engine trades nothing), and the       *)
(* Webull provider, which serves no contract.                              *)
(***************************************************************************)
EXTENDS MarketBars, Sequences

CONSTANTS
  Paths,       \* the prices that may come: functions of the minute
  Records,     \* user-supplied contracts: window, reference (or NONE), rule
  Width,       \* minutes of a window
  Grace,       \* resolution_grace_seconds, in minutes
  MaxAttempts, \* resolution_max_attempts
  Horizon,     \* bound: minutes
  MaxEdits,    \* bound: changes of the user's file
  MaxFaults    \* bound: crashes, interrupts and failed CSV appends

Start(w)   == w * Width
End(w)     == (w + 1) * Width
Window(t)  == t \div Width
Windows    == {w \in 0 .. Horizon : End(w) <= Horizon + Width}
Minutes    == 0 .. Horizon + 1

ASSUME BoundAssumption ==
  /\ {Width, MaxAttempts, Bootstrap, Refresh, MaxRows} \subseteq Nat \ {0}
  /\ {Grace, Tolerance, Cooldown, MinCandles, Horizon} \subseteq Nat
  /\ {MaxEdits, MaxFaults} \subseteq Nat
ASSUME RecordAssumption ==
  \A r \in Records :
    /\ r = [win |-> r.win, ref |-> r.ref, rule |-> r.rule]
    /\ r.win \in Windows /\ r.rule \in {"AT_OR_ABOVE", "UNKNOWN"}

VARIABLES
  price,   \* the prices
  now,     \* the wall clock
  file,    \* the user's readable record, or NONE
  rows,    \* contracts, per window
  csv,     \* contracts.csv
  scored,  \* windows with a prediction row
  pc,      \* where the process is
  stage,   \* why it settles: at its start, in a scan, on its way out
  instant, \* the clock as captured
  queue,   \* the due contracts still to settle
  cache,   \* the bars in memory
  cool,    \* when the provider is asked again
  looked,  \* this scan has its bars
  edits, faults

vars == <<price, now, file, rows, csv, scored, pc, stage, instant, queue,
          cache, cool, looked, edits, faults>>
disk == <<rows, csv, scored>>
bars == <<cache, cool, looked>>
env  == <<price, now, file, edits>>

NoRow == [status |-> "ABSENT"]

Init ==
  /\ price \in Paths /\ now = 0 /\ file = NONE
  /\ rows = [w \in Windows |-> NoRow] /\ csv = << >> /\ scored = {}
  /\ pc = "down" /\ stage = "boot" /\ instant = 0 /\ queue = << >>
  /\ cache = Empty /\ cool = 0 /\ looked = FALSE
  /\ edits = 0 /\ faults = 0

-----------------------------------------------------------------------------
\* Mutant: the grace is taken off the wrong side, and a window ends early.
DueEarly(t) == {w \in Windows : rows[w].status = "OPEN" /\ End(w) <= t + Grace}

\* Mutant: the status is not looked at.
DueAgain(t) == {w \in Windows : rows[w] # NoRow /\ End(w) + Grace <= t}

\* Mutant: only the window before the current one, as at a rollover.
DuePrevious(t) ==
  {w \in Windows : rows[w].status = "OPEN" /\ t >= Grace /\ w + 1 = Window(t - Grace)}

\* due_contracts: the open ones whose window and grace are over, oldest first.
DueAt(t) == {w \in Windows : rows[w].status = "OPEN" /\ End(w) + Grace <= t}

InOrder(S) ==
  [i \in 1 .. Cardinality(S) |->
     CHOOSE w \in S : Cardinality({v \in S : v < w}) = i - 1]

\* A pass over the due contracts begins, at the clock of this moment.
Settling(why) ==
  /\ stage' = why
  /\ instant' = now
  /\ queue' = InOrder(DueAt(now))
  /\ pc' = "settle"

\* A new process; it recovers what an earlier one left open.
Boot ==
  /\ pc = "down"
  /\ Settling("boot")
  /\ UNCHANGED <<env, disk, bars, faults>>

Scan ==
  /\ pc = "idle"
  /\ Settling("scan")
  /\ looked' = FALSE
  /\ UNCHANGED <<env, disk, cache, cool, faults>>

\* Ctrl-C, wherever it comes: one more pass, with the bars of the last scan.
Interrupt ==
  /\ pc # "down" /\ stage # "stop" /\ faults < MaxFaults
  /\ Settling("stop")
  /\ faults' = faults + 1
  /\ UNCHANGED <<env, disk, bars>>

\* A process ends, and its memory with it.
Down ==
  /\ pc' = "down" /\ stage' = "boot" /\ instant' = 0 /\ queue' = << >>
  /\ cache' = Empty /\ cool' = 0 /\ looked' = FALSE

Crash ==
  /\ pc # "down" /\ faults < MaxFaults
  /\ Down
  /\ faults' = faults + 1
  /\ UNCHANGED <<env, disk>>

-----------------------------------------------------------------------------
NeedsBars ==
  \/ pc = "settle" /\ queue # << >> /\ rows[Head(queue)].rule # "UNKNOWN"
  \/ pc = "observe"

\* _lookup_bars: one fetch per asset and scan.
Lookup ==
  /\ NeedsBars /\ ~looked
  /\ \E g \in GetBars(cache, cool, now) : cache' = g.cache /\ cool' = g.cool
  /\ looked' = TRUE
  /\ UNCHANGED <<env, disk, pc, stage, instant, queue, faults>>

Ready == NeedsBars => looked

Ended(w, status, outcome, terminal) ==
  rows' = [rows EXCEPT ![w].status = status, ![w].outcome = outcome,
                       ![w].terminal = terminal]

\* _resolve_one.
Resolve ==
  /\ pc = "settle" /\ queue # << >> /\ Ready
  /\ LET w == Head(queue)
         terminal == Terminal(price, cache, End(w))
     IN  \/ /\ rows[w].rule = "UNKNOWN"
            /\ Ended(w, "UNRESOLVED", NONE, NONE)
            /\ pc' = "mirror" /\ queue' = queue
         \/ /\ rows[w].rule # "UNKNOWN" /\ terminal # NONE
            /\ Ended(w, "RESOLVED",
                     Settle(rows[w].rule, terminal.price, rows[w].ref), terminal)
            /\ pc' = "mirror" /\ queue' = queue
         \/ /\ rows[w].rule # "UNKNOWN" /\ terminal = NONE
            /\ rows' = [rows EXCEPT ![w].attempts = @ + 1]
            /\ IF rows[w].attempts + 1 >= MaxAttempts
               THEN pc' = "giveup" /\ queue' = queue
               ELSE pc' = "settle" /\ queue' = Tail(queue)
  /\ UNCHANGED <<env, csv, scored, stage, instant, bars, faults>>

\* The second commit of _retry_or_give_up.
GiveUp ==
  /\ pc = "giveup"
  /\ Ended(Head(queue), "UNRESOLVED", NONE, NONE)
  /\ pc' = "mirror"
  /\ UNCHANGED <<env, csv, scored, stage, instant, queue, bars, faults>>

\* _append_csv of a row that ended; an error is swallowed.
Mirror ==
  /\ pc = "mirror"
  /\ LET w == Head(queue)
     IN  \/ /\ csv' = Append(csv, [win |-> w, status |-> rows[w].status,
                                   outcome |-> rows[w].outcome])
            /\ faults' = faults
         \/ faults < MaxFaults /\ faults' = faults + 1 /\ csv' = csv
  /\ queue' = Tail(queue) /\ pc' = "settle"
  /\ UNCHANGED <<env, rows, scored, stage, instant, bars>>

\* The pass is over, and the instant of a finished scan is no more.
Idle == pc' = "idle" /\ instant' = 0 /\ UNCHANGED <<stage, queue, bars>>

Settled ==
  /\ pc = "settle" /\ queue = << >>
  /\ \/ stage = "boot" /\ Idle
     \/ /\ stage = "scan" /\ pc' = "observe"
        /\ UNCHANGED <<stage, instant, queue, bars>>
     \/ stage = "stop" /\ Down
  /\ UNCHANGED <<env, disk, faults>>

-----------------------------------------------------------------------------
\* ContractProviderChain: the first contract with a reference.
ContractSpec(w) ==
  IF file # NONE /\ file.win = w /\ file.ref # NONE
  THEN [ref |-> file.ref, source |-> "manual", rule |-> file.rule]
  ELSE LET ref == ProxyReference(price, cache, Start(w), End(w))
       IN  IF ref = NONE THEN NONE
           ELSE [ref |-> ref, source |-> "proxy", rule |-> "PROXY"]

NewRow(spec) ==
  [ref |-> spec.ref, source |-> spec.source, rule |-> spec.rule,
   status |-> "OPEN", attempts |-> 0, outcome |-> NONE, terminal |-> NONE]

\* Mutant: an update replaces the price, but not where it comes from.
ObservedKeepsSource(row, spec) ==
  IF row = NoRow THEN NewRow(spec) ELSE [row EXCEPT !.ref = spec.ref]

\* A first observation inserts the row; a later one replaces where its
\* reference comes from, and leaves its status and attempts alone.
Observed(row, spec) ==
  IF row = NoRow
  THEN NewRow(spec)
  ELSE [row EXCEPT !.ref = spec.ref, !.source = spec.source, !.rule = spec.rule]

\* observe_contract; without a contract nothing is recorded.
Observe ==
  /\ pc = "observe" /\ Ready
  /\ LET w == Window(instant)
         spec == ContractSpec(w)
     IN  \/ spec = NONE /\ Idle /\ UNCHANGED rows
         \/ /\ spec # NONE
            /\ rows' = [rows EXCEPT ![w] = Observed(@, spec)]
            /\ pc' = "predict"
            /\ UNCHANGED <<stage, instant, queue, bars>>
  /\ UNCHANGED <<env, csv, scored, faults>>

\* record_prediction.
Predict ==
  /\ pc = "predict"
  /\ scored' = scored \cup {Window(instant)}
  /\ Idle
  /\ UNCHANGED <<env, rows, csv, faults>>

-----------------------------------------------------------------------------
\* The steps that read the clock or the file; what changes between two other
\* steps is seen by none of them.
Waits == pc \in {"down", "idle"} \/ (NeedsBars /\ ~looked)

\* The user writes, replaces, empties or breaks the file of contracts.
Edit ==
  /\ edits < MaxEdits /\ Waits
  /\ edits' = edits + 1
  /\ file' \in {r \in Records : r.win = Window(now)} \cup {NONE}
  /\ file' # file
  /\ UNCHANGED <<price, now, disk, pc, stage, instant, queue, bars, faults>>

Tick ==
  /\ now < Horizon /\ Waits
  /\ now' = now + 1
  /\ UNCHANGED <<price, file, disk, pc, stage, instant, queue, bars, edits,
                 faults>>

Work == Lookup \/ Resolve \/ GiveUp \/ Mirror \/ Settled \/ Observe \/ Predict

Next == Boot \/ Scan \/ Work \/ Interrupt \/ Crash \/ Edit \/ Tick

\* The loop runs without end, and a program that is down is started again.
Fairness == WF_vars(Boot) /\ WF_vars(Scan) /\ WF_vars(Work) /\ WF_vars(Tick)

Spec == Init /\ [][Next]_vars
FairSpec == Spec /\ Fairness

-----------------------------------------------------------------------------
(* Properties *)

Rowed == {w \in Windows : rows[w] # NoRow}

\* The reference, its source and the settlement rule of a row always come from
\* one contract specification, however providers replace one another: a row
\* never holds a user's price under the proxy's name or rule.
OneSpecification ==
  \A w \in Rowed :
    LET r == rows[w]
    IN  \/ /\ r.source = "manual"
           /\ [win |-> w, ref |-> r.ref, rule |-> r.rule] \in Records
        \/ /\ r.source = "proxy" /\ r.rule = "PROXY"
           /\ r.ref \in {price[t] : t \in Start(w) .. (End(w) - 1)}

\* A label says what the prices and the row's own reference and rule give: a
\* window is settled after its grace, by a price observed within the tolerance
\* of its end, and the reference is not replaced once it has been used.
LabelsTellTheTruth ==
  \A w \in Rowed :
    LET r == rows[w]
    IN  r.status = "RESOLVED" =>
          /\ End(w) + Grace <= now
          /\ r.terminal.bar \in (End(w) - Tolerance) .. (End(w) + Tolerance)
          /\ r.terminal.kind = "OPEN" => r.terminal.bar >= End(w)
          /\ r.terminal.price \in {price[r.terminal.bar], price[r.terminal.bar + 1]}
          /\ r.outcome = Settle(r.rule, r.terminal.price, r.ref)

\* The CSV copy may lack a contract, after a crash or a failed append, but never
\* holds one twice and never contradicts the database.
MirrorAgrees ==
  /\ \A i, j \in 1 .. Len(csv) : csv[i].win = csv[j].win => i = j
  /\ \A i \in 1 .. Len(csv) :
       /\ csv[i].status = rows[csv[i].win].status
       /\ csv[i].outcome = rows[csv[i].win].outcome

\* The promise: a contract that was opened ends once, after its window.
Lifecycle == INSTANCE ContractLifecycle WITH
  passed <- {w \in Windows : End(w) <= now},
  state  <- [w \in Windows |->
               CASE rows[w].status = "ABSENT"     -> "unseen"
                 [] rows[w].status = "OPEN"       -> "open"
                 [] rows[w].status = "RESOLVED"   -> "settled"
                 [] rows[w].status = "UNRESOLVED" -> "unsettled"]
LifecycleSpec == Lifecycle!Spec

\* No contract is left open for ever: again and again nothing is due that is not
\* settled or given up, bars or no bars, after crashes too.
NothingIsForgotten ==
  []<>(\A w \in Windows : End(w) + Grace <= now => rows[w].status # "OPEN")

\* What "the Close of the last bar" would have to mean for a label: the bar was
\* complete when it was fetched (resolution.py does not look at the partial flag).
ClosesAreComplete ==
  \A w \in Rowed :
    rows[w].status = "RESOLVED" /\ rows[w].terminal.kind = "CLOSE" =>
      rows[w].terminal.price = price[rows[w].terminal.bar + 1]

=============================================================================
