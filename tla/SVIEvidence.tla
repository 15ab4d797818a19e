------------------------------ MODULE SVIEvidence ------------------------------
(***************************************************************************)
(* The SVI side of the manual signal program (mantis_v4_live.py,           *)
(* _run_kalshi_manual_signals): each scan resolves contracts that ended,   *)
(* evaluates the specialists, appends the evaluation to the evidence file  *)
(* and, when the number of resolutions is another one, joins the forecasts *)
(* on file to the verified resolutions again.  The report goes to the      *)
(* panel.                                                                  *)
(*                                                                         *)
(* The evidence file is a JsonlLog.  The resolutions file, which           *)
(* ShadowStore models, is here the set of its rows.                        *)
(***************************************************************************)
EXTENDS SVISupervisor, JsonlLog

CONSTANTS
  Passes,      \* what may come to an evaluation: [selection, failing], the row of
               \* each asset (but for its contract) and the specialists that raise
  Window,      \* ticks in a window
  MaxTime,     \* bound: ticks the clock passes through
  MaxRuns,     \* bound: process starts
  MaxFaults,   \* bound: writes that do not complete
  MaxScans     \* bound: scans

Assets == Range(AssetSeq)
Contracts == [asset : Assets, win : 0 .. MaxTime \div Window]

EvidenceBounds ==
  /\ {Window, MaxTime, MaxRuns, MaxFaults, MaxScans} \subseteq Nat /\ Window > 0
  /\ AssetSeq \in Seq(Assets) /\ NONE \notin Contracts

\* The candidates of the selection: each asset has an offer, under the contract
\* of the instant t unless it is a placeholder.
Row(t, asset, offer) ==
  [asset |-> asset, side |-> offer.side, p |-> offer.p, lcb |-> offer.lcb,
   ask |-> offer.ask, valid |-> offer.valid, distance |-> offer.distance,
   book |-> offer.book, left |-> Window - (t % Window),
   contract |-> IF offer.side = NONE THEN NONE
                                     ELSE [asset |-> asset, win |-> t \div Window]]

\* The event of a pass at an instant.
Event(t, pass) ==
  [at |-> t, body |-> Evaluation({Row(t, a, pass.selection[a]) : a \in Assets}, pass.failing)]

Events == UNION {{Event(t, pass) : pass \in Passes} : t \in 0 .. MaxTime}

\* An event is a line that parses; a placeholder, which had no market, no book.
PassesAreReal ==
  /\ Bad \notin Events
  /\ \A pass \in Passes, a \in Assets :
       pass.selection[a].side = NONE => pass.selection[a].book = NONE

\* What a line says: nothing, if it is rejected.
Forecasts(line) ==
  IF line = Bad THEN {}
  ELSE {[agent |-> c.agent, contract |-> c.contract, at |-> line.at, side |-> c.side,
         p |-> c.p, role |-> c.role] :
          c \in {c \in line.body.candidates : c.contract # NONE /\ c.side \in {"YES", "NO"}}}

VARIABLES
  file,      \* events.jsonl
  rows,      \* resolutions.jsonl: [contract, result, verified]
  count,     \* resolutions of the store's summary
  sink,      \* svi_events: "file", or "null" when the file could not be read
  seen,      \* svi_resolution_count
  report,    \* svi_evidence_report
  panel,     \* what publish_to_mantis gave the screen
  pc, now, at

\* History: the events that reached the file, and what went wrong.
VARIABLES made, unacked, merged, run, faults, scans

evidence == <<file, rows, count, sink, seen, report, panel>>
history  == <<made, unacked, merged, run, faults, scans>>
sviVars  == <<evidence, pc, now, at, history>>

NoReport == [resolved |-> {}, unresolved |-> 0]

SviInit ==
  /\ file = EmptyFile /\ rows = {} /\ count = 0 /\ sink = "null" /\ seen = -1
  /\ report = NoReport /\ panel = NoReport /\ pc = "down" /\ now = 0 /\ at = 0
  /\ made = <<>> /\ unacked = FALSE /\ merged = FALSE
  /\ run = 0 /\ faults = 0 /\ scans = 0

-----------------------------------------------------------------------------
\* JsonlEventSink reads the file; when that raises, nothing is recorded.
Start ==
  /\ pc = "down" /\ run < MaxRuns
  /\ sink' = IF Malformed(file) THEN "null" ELSE "file"
  /\ count' = Cardinality(rows) /\ seen' = -1
  /\ report' = NoReport /\ panel' = NoReport
  /\ pc' = "scan" /\ run' = run + 1 /\ unacked' = FALSE
  /\ UNCHANGED <<file, rows, now, at, made, merged, faults, scans>>

\* Contracts that ended and are not resolved.
Due == {c \in Contracts : c.win < now \div Window /\ \A r \in rows : r.contract # c}

Verdicts == [result : {"YES", "NO"}, verified : BOOLEAN]
Resolution(c, v) == [contract |-> c, result |-> v.result, verified |-> v.verified]

\* engine.scan: some contracts are resolved.  An append that broke off may have
\* left its row in the file, which the store did not count.
Scan ==
  /\ pc = "scan" /\ scans < MaxScans
  /\ at' = now /\ scans' = scans + 1 /\ pc' = "evaluate"
  /\ \E resolved \in SUBSET Due : \E verdict \in [resolved -> Verdicts] :
       \/ /\ rows' = rows \cup {Resolution(c, verdict[c]) : c \in resolved}
          /\ count' = count + Cardinality(resolved)
          /\ UNCHANGED <<unacked, faults>>
       \/ /\ Cardinality(resolved) = 1 /\ faults < MaxFaults
          /\ rows' = rows \cup {Resolution(c, verdict[c]) : c \in resolved}
          /\ unacked' = TRUE /\ faults' = faults + 1 /\ UNCHANGED count
  /\ UNCHANGED <<file, sink, seen, report, panel, now, made, merged, run>>

\* An append: the file becomes f, and e counts as made if it is on file now.
Appended(e, f) ==
  /\ file' = f
  /\ merged' = (merged \/ (file.torn /\ f # file))
  /\ made' = IF Len(f.lines) > Len(file.lines) /\ f.lines[Len(f.lines)] = e
               THEN Append(made, e) ELSE made

\* svi.evaluate: the event is appended and the pass goes on to the report,
Evaluate ==
  /\ pc = "evaluate" /\ pc' = "report"
  /\ \E p \in Passes :
       IF sink = "file"
         THEN LET e == Event(at, p) IN Appended(e, Written(file, e, TRUE))
         ELSE UNCHANGED <<file, merged, made>>
  /\ UNCHANGED <<rows, count, sink, seen, report, panel, now, at, unacked,
                 run, faults, scans>>

\* An append that does not complete.
CutShort ==
  /\ pc = "evaluate" /\ sink = "file" /\ faults < MaxFaults /\ faults' = faults + 1
  /\ \E p \in Passes :
       LET e == Event(at, p)
       IN  \E f \in Interrupted(file, e) : Appended(e, f)

\* ... or it raises, and the panel stays as it was,
EvaluateRaises ==
  /\ CutShort /\ pc' = "scan"
  /\ UNCHANGED <<rows, count, sink, seen, report, panel, now, at, unacked, run, scans>>

\* ... or the process dies.
Dies ==
  /\ CutShort /\ pc' = "down"
  /\ UNCHANGED <<rows, count, sink, seen, report, panel, now, at, unacked, run, scans>>

-----------------------------------------------------------------------------
Key(m) == <<m.agent, m.contract>>
Verified(c) == \E r \in rows : r.contract = c /\ r.verified
Outcome(c)  == (CHOOSE r \in rows : r.contract = c /\ r.verified).result

\* A forecast and the verified result of its contract.
Resolved(m) == [agent |-> m.agent, contract |-> m.contract,
                yes |-> IF m.side = "YES" THEN m.p ELSE 100 - m.p,
                outcome |-> Outcome(m.contract)]

\* Of the forecasts of each specialist for each contract, the latest: of two
\* with one timestamp, the one further down the file.
Latest(lines) ==
  UNION {{m \in Forecasts(lines[i]) :
            \A j \in i + 1 .. Len(lines) : \A n \in Forecasts(lines[j]) :
              Key(n) = Key(m) => n.at < m.at} : i \in DOMAIN lines}

\* Mutant of Joined: the forecast on file first.
JoinedFirst(f) ==
  LET latest == Latest(Reverse(f.lines))
      scored == {m \in latest : Verified(m.contract)}
  IN  [resolved |-> {Resolved(m) : m \in scored},
       unresolved |-> Cardinality(latest) - Cardinality(scored)]

\* join_verified_forecasts.
Joined(f) ==
  LET latest == Latest(f.lines)
      scored == {m \in latest : Verified(m.contract)}
  IN  [resolved |-> {Resolved(m) : m \in scored},
       unresolved |-> Cardinality(latest) - Cardinality(scored)]

\* The report is made again when the number of resolutions changed; reading a
\* malformed file raises, and nothing is published.
Report ==
  /\ pc = "report"
  /\ IF count = seen
       THEN pc' = "published" /\ panel' = report /\ UNCHANGED <<seen, report>>
       ELSE IF Malformed(file)
         THEN pc' = "scan" /\ UNCHANGED <<seen, report, panel>>
         ELSE /\ report' = Joined(file) /\ seen' = count
              /\ panel' = report' /\ pc' = "published"
  /\ UNCHANGED <<file, rows, count, sink, now, at, history>>

Sleep ==
  /\ pc = "published" /\ pc' = "scan"
  /\ UNCHANGED <<evidence, now, at, history>>

\* Ctrl+C, --once, or a crash between two writes.
Leave ==
  /\ pc # "down" /\ pc' = "down"
  /\ UNCHANGED <<evidence, now, at, history>>

Tick ==
  /\ now < MaxTime /\ now' = now + 1
  /\ UNCHANGED <<evidence, pc, at, history>>

SviNext ==
  \/ Start \/ Scan \/ Evaluate \/ EvaluateRaises \/ Dies \/ Report \/ Sleep
  \/ Leave \/ Tick

SviSpec == SviInit /\ [][SviNext]_sviVars

-----------------------------------------------------------------------------
\* What the screen shows as resolved is, for every contract with a verified
\* result and every specialist, the last forecast that reached the file, in
\* this run or an earlier one, although the join is only made again when the
\* store counted another resolution (svi_resolution_count, the join, and the
\* append of the sink).  Left out: a resolution whose append broke off, which
\* this run does not count, and a file with a merged line.
ReportIsCurrent ==
  pc = "published" /\ ~unacked /\ ~merged =>
    panel.resolved = {Resolved(m) : m \in {m \in Latest(made) : Verified(m.contract)}}

\* The audit of the evidence finds nothing but placeholders without a contract,
\* and finds those only where a row had no market, whatever specialist raised
\* and however the writes ended (audit_evidence against evaluate).
EvidencePasses ==
  ~merged =>
    /\ ~Malformed(file)
    /\ \A e \in RowsOf(file) :
         EventErrors(e.body) \subseteq
           IF \E c \in e.body.candidates : c.side = "ABSTAIN"
             THEN {"MISSING_CONTRACT_ID"} ELSE {}

=============================================================================
