------------------------------ MODULE ShadowStore ------------------------------
(***************************************************************************)
(* The forward-shadow collector: ShadowStore and audit_store of            *)
(* mantis_v4/kalshi_forward/core.py, driven by the scan loop of live.py    *)
(* (run_live_shadow; ManualSignalEngine.scan makes the same calls).        *)
(*                                                                         *)
(* Each scan resolves the contracts that ended, then writes an observation *)
(* and a candidate per asset.  Memory is bounded: with a limit, both the   *)
(* identifiers that refuse a duplicate and the rows resolve_available      *)
(* reads are the newest ones of a file.  Time counts whole seconds, Second *)
(* of them to a window.  The runs and provider_health streams are appended *)
(* to in the same way and read back by nothing; they are left out.         *)
(***************************************************************************)
EXTENDS JsonlLog, FiniteSets, SequencesExt

CONSTANTS
  AssetSeq,   \* ASSETS, in scan order
  Limit,      \* recent_id_limit and recent_limit; 0 is None
  Second,     \* seconds in a window
  MaxTime,    \* bound: seconds the clock passes through
  MaxRuns,    \* bound: process starts
  MaxFaults   \* bound: appends that do not complete

Assets    == Range(AssetSeq)
Times     == 0 .. MaxTime
Window(t) == t \div Second

\* observation_id and candidate_id hash asset, window end and whole seconds
\* remaining; resolution_id hashes the contract.
Points    == [at : Times, asset : Assets]
Contracts == [win : {Window(t) : t \in Times}, asset : Assets]
Streams   == {"observations", "shadow_candidates", "resolutions"}
Contract(o) == [win |-> Window(o.at), asset |-> o.asset]

ASSUME BoundAssumption ==
  /\ Second \in Nat \ {0}
  /\ {Limit, MaxTime, MaxRuns, MaxFaults} \subseteq Nat

ASSUME BadIsNoPoint == Bad \notin Points \cup Contracts
ASSUME AssetsInOrder == AssetSeq \in Seq(Assets)

VARIABLES
  file,     \* [Streams -> File]: the directory on disk
  ids,      \* _ids
  counts,   \* _counts
  now,      \* the clock
  pc,       \* where the process is
  inst,     \* the instant this scan captured
  due,      \* lines of observations whose contract is still to be tried
  at        \* index of the asset being scanned

\* History, read by properties only.
VARIABLES
  run,      \* process starts
  faults,   \* appends that did not complete
  unacked,  \* this run went on after such an append
  lost,     \* so did some run, with the row on disk
  merged    \* some write landed on a torn tail

store   == <<file, ids, counts>>
history == <<run, faults, unacked, lost, merged>>
vars == <<store, now, pc, inst, due, at, history>>

Parsed(x) == x # Bad

\* read(): the rows of a file, the newest Limit of them with a limit.
Newest(lines) ==
  LET later(i) == {j \in i + 1 .. Len(lines) : Parsed(lines[j])}
  IN  {lines[i] : i \in {i \in DOMAIN lines :
         Parsed(lines[i]) /\ (Limit = 0 \/ Cardinality(later(i)) < Limit)}}

Init ==
  /\ file = [s \in Streams |-> EmptyFile]
  /\ ids = [s \in Streams |-> {}] /\ counts = [s \in Streams |-> 0]
  /\ now = 0 /\ pc = "down" /\ inst = 0 /\ due = {} /\ at = 1
  /\ run = 0 /\ faults = 0
  /\ unacked = FALSE /\ lost = FALSE /\ merged = FALSE

-----------------------------------------------------------------------------
\* Mutant of Open: a restart forgets the identifiers on disk.
OpenEmpty ==
  /\ pc = "down" /\ run < MaxRuns
  /\ \A s \in Streams : ~Malformed(file[s])
  /\ ids' = [s \in Streams |-> {}]
  /\ counts' = [s \in Streams |-> Len(SelectSeq(file[s].lines, Parsed))]
  /\ pc' = "idle" /\ run' = run + 1 /\ unacked' = FALSE
  /\ UNCHANGED <<file, now, inst, due, at, faults, lost, merged>>

\* ShadowStore.__init__: identifiers from the newest rows, counts from every
\* line that parses.  read() raises on a malformed file.
Open ==
  /\ pc = "down" /\ run < MaxRuns
  /\ \A s \in Streams : ~Malformed(file[s])
  /\ ids' = [s \in Streams |-> Newest(file[s].lines)]
  /\ counts' = [s \in Streams |-> Len(SelectSeq(file[s].lines, Parsed))]
  /\ pc' = "idle" /\ run' = run + 1 /\ unacked' = FALSE
  /\ UNCHANGED <<file, now, inst, due, at, faults, lost, merged>>

Merges(s) == merged' = (merged \/ (file[s].torn /\ file'[s] # file[s]))

\* The reload of append raises when the file it has just written is malformed.
Reloads(s, known) == Limit > 0 /\ Cardinality(known) > Limit
Raises(s, row) ==
  /\ row \notin ids[s] /\ Reloads(s, ids[s] \cup {row})
  /\ Malformed(Written(file[s], row, TRUE))

\* append(): a known identifier is refused; above the limit the identifiers
\* are read again from the end of the file.
Stored(s, row) ==
  IF row \in ids[s]
    THEN UNCHANGED store
    ELSE LET f     == Written(file[s], row, TRUE)
             known == ids[s] \cup {row}
         IN  /\ file' = [file EXCEPT ![s] = f]
             /\ counts' = [counts EXCEPT ![s] = @ + 1]
             /\ ids' = [ids EXCEPT ![s] =
                  IF Reloads(s, known) /\ ~Malformed(f)
                    THEN Newest(f.lines) ELSE known]

\* append() does not complete: the row may be on disk, whole or in part.
CutShort(s, row) ==
  /\ row \notin ids[s] /\ faults < MaxFaults
  /\ faults' = faults + 1
  /\ \E f \in Interrupted(file[s], row) : file' = [file EXCEPT ![s] = f]
  /\ Merges(s)
  /\ UNCHANGED <<now, inst, run>>

\* ... because of an OSError, which the loop swallows,
Swallowed(s, row) ==
  /\ CutShort(s, row)
  /\ unacked' = TRUE
  /\ lost' = (lost \/ RowsOf(file'[s]) # RowsOf(file[s]))
  /\ UNCHANGED <<ids, counts>>

Exit ==
  /\ pc' = "down" /\ due' = {} /\ at' = 1 /\ unacked' = FALSE
  /\ ids' = [s \in Streams |-> {}] /\ counts' = [s \in Streams |-> 0]

\* ... or because the process died.
Died(s, row) == CutShort(s, row) /\ Exit /\ UNCHANGED lost

-----------------------------------------------------------------------------
\* resolve_available: the first observation of each contract that ended and
\* has no resolution among the newest rows.
DueLines(t) ==
  LET lines    == file["observations"].lines
      seen     == Newest(lines)
      resolved == Newest(file["resolutions"].lines)
      recent   == {i \in DOMAIN lines : lines[i] \in seen}
  IN  {i \in recent :
         /\ \A j \in recent : Contract(lines[j]) = Contract(lines[i]) => i <= j
         /\ Contract(lines[i]) \notin resolved
         /\ Window(lines[i].at) < Window(t)}

\* The scan captures an instant and reads both files, neither malformed.
Scan ==
  /\ pc = "idle"
  /\ ~Malformed(file["observations"]) /\ ~Malformed(file["resolutions"])
  /\ inst' = now /\ due' = DueLines(now) /\ at' = 1
  /\ pc' = "resolve"
  /\ UNCHANGED <<store, now, history>>

First == CHOOSE i \in due : \A j \in due : i <= j
DueContract == Contract(file["observations"].lines[First])

\* The market has its official result: one resolution of the contract.
Resolve ==
  /\ pc = "resolve" /\ due # {}
  /\ Stored("resolutions", DueContract)
  /\ due' = due \ {First}
  /\ Merges("resolutions")
  /\ UNCHANGED <<now, pc, inst, at, run, faults, unacked, lost>>

\* No result yet, or the request failed.
NoResult ==
  /\ pc = "resolve" /\ due # {}
  /\ due' = due \ {First}
  /\ UNCHANGED <<store, now, pc, inst, at, history>>

ResolveFails ==
  /\ pc = "resolve" /\ due # {}
  /\ Swallowed("resolutions", DueContract)
  /\ due' = due \ {First} /\ UNCHANGED <<pc, at>>

ResolveDone ==
  /\ pc = "resolve" /\ due = {}
  /\ pc' = "observe"
  /\ UNCHANGED <<store, now, inst, due, at, history>>

Here == [at |-> inst, asset |-> AssetSeq[at]]
Scanning(step) == pc = step /\ at <= Len(AssetSeq)
NextAsset == pc' = "observe" /\ at' = at + 1

\* The observation of this asset and second.
Observe ==
  /\ Scanning("observe")
  /\ Stored("observations", Here)
  /\ IF Raises("observations", Here) THEN NextAsset
                                     ELSE pc' = "candidate" /\ at' = at
  /\ Merges("observations")
  /\ UNCHANGED <<now, inst, due, run, faults, unacked, lost>>

\* No market, no quote, no bars or no snapshot.
NoData ==
  /\ Scanning("observe") /\ NextAsset
  /\ UNCHANGED <<store, now, inst, due, history>>

\* Its candidate, whether or not the observation was new.
Candidate ==
  /\ Scanning("candidate")
  /\ Stored("shadow_candidates", Here)
  /\ NextAsset
  /\ Merges("shadow_candidates")
  /\ UNCHANGED <<now, inst, due, run, faults, unacked, lost>>

\* Mutant of AppendFails: the candidate follows an observation that failed.
AppendFailsOn ==
  \/ /\ Scanning("observe") /\ Swallowed("observations", Here)
     /\ pc' = "candidate" /\ UNCHANGED <<due, at>>
  \/ /\ Scanning("candidate") /\ Swallowed("shadow_candidates", Here)
     /\ NextAsset /\ UNCHANGED due

\* The except clause of the asset: the rest of it is skipped.
AppendFails ==
  /\ \/ Scanning("observe") /\ Swallowed("observations", Here)
     \/ Scanning("candidate") /\ Swallowed("shadow_candidates", Here)
  /\ NextAsset /\ UNCHANGED due

EndScan ==
  /\ pc = "observe" /\ at > Len(AssetSeq)
  /\ pc' = "idle"
  /\ UNCHANGED <<store, now, inst, due, at, history>>

\* Ctrl+C, --once, a malformed file or a failing run or health record, and a
\* crash between two appends.
Leave ==
  /\ pc # "down" /\ Exit
  /\ UNCHANGED <<file, now, inst, run, faults, lost, merged>>

Crash ==
  \/ pc = "resolve" /\ due # {} /\ Died("resolutions", DueContract)
  \/ Scanning("observe") /\ Died("observations", Here)
  \/ Scanning("candidate") /\ Died("shadow_candidates", Here)

Tick ==
  /\ now < MaxTime /\ now' = now + 1
  /\ UNCHANGED <<store, pc, inst, due, at, history>>

Next ==
  \/ Open \/ Scan \/ Resolve \/ NoResult \/ ResolveFails \/ ResolveDone
  \/ Observe \/ NoData \/ Candidate \/ AppendFails \/ EndScan
  \/ Leave \/ Crash \/ Tick

Spec == Init /\ [][Next]_vars

-----------------------------------------------------------------------------
\* The lines that parse.
Read(s) == {i \in DOMAIN file[s].lines : Parsed(file[s].lines[i])}

\* audit_store on the directory: two rows with one identifier, a resolution
\* with no observation, an observation after its window.
AuditErrors ==
  {<<"DUPLICATE_ID", s>> : s \in {s \in Streams :
      \E i, j \in Read(s) : i # j /\ file[s].lines[i] = file[s].lines[j]}}
  \cup {<<"ORPHAN_RESOLUTION", c>> : c \in RowsOf(file["resolutions"]) \
          {Contract(o) : o \in RowsOf(file["observations"])}}
  \cup {<<"FUTURE_OBSERVATION", o>> :
          o \in {o \in RowsOf(file["observations"]) : o.at > now}}

\* Among the rows read around an observation, before and after it, are those of
\* at most Limit resolved contracts.  The collector scans a window many times;
\* where it did not, Limit resolutions could follow one whose observation is
\* still among the newest.
ScannedOften ==
  LET lines == file["observations"].lines
      resolved(I) == {Contract(lines[i]) : i \in I \cap Read("observations")}
                       \cap RowsOf(file["resolutions"])
  IN  \A k \in DOMAIN lines : Cardinality(resolved(k .. k + 2 * Limit - 2)) <= Limit

\* The audit of the directory passes after any number of restarts and of
\* appends that broke off, although duplicates are refused from the newest
\* rows only: no observation twice, one resolution per contract, each with its
\* observation (__init__, append, resolve_available).
AuditPasses == ~merged /\ ~lost /\ ScannedOften => AuditErrors = {}

\* shadow_report joins a candidate to its observation, which is never missing
\* (the two appends of a scan and what an exception between them skips).
CandidatesHaveObservations ==
  ~merged => RowsOf(file["shadow_candidates"]) \subseteq RowsOf(file["observations"])

=============================================================================
