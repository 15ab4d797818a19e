--------------------------- MODULE ForwardLive_proofs ---------------------------
(***************************************************************************)
(* Proofs about ForwardLive, for every list of assets and every bound: its *)
(* types, one entry per contract, that an error ends the scanning; then    *)
(* that the scanner keeps the ledger of ContractLedger: what is in memory  *)
(* is on disk, and what is announced, shown and resolved is what was saved.*)
(***************************************************************************)
EXTENDS ForwardLive, JsonlLog_proofs

FilesWhole == \A s \in Streams : TornHasALine(file[s])

\* What the place in the program says of its locals.
Control ==
  /\ pc \in {"event", "observe", "enter", "resolve"} => todo \in DOMAIN AssetSeq
  /\ pc = "enter" => cur.side \in Sides /\ Key \notin entered
  /\ pc \in {"persist", "announce"} => pick \in Assets
  /\ failed => pc \in {"select", "persist", "announce", "stop"}
  /\ pc # "down" => run \in Runs
  /\ \A r \in errored : r <= run

\* The run can no longer reach the asset loop.
Stopped ==
  \/ pc \in {"down", "stop"}
  \/ failed
  \/ pc = "event" /\ exc = "os"

\* While it still can, the index knows every entry on disk.
EntryIndex == ~Stopped => KeysIn("entries") \subseteq entered

ErrorsStop == run \in errored => Stopped

IInv ==
  /\ TypeOK
  /\ FilesWhole
  /\ Control
  /\ OneEntryPerContract
  /\ EntryIndex
  /\ ErrorsStop

-----------------------------------------------------------------------------
(***************************************************************************)
(* What the helpers return.                                                *)
(***************************************************************************)
LEMMA AssetType ==
  ASSUME TypeOK, todo \in DOMAIN AssetSeq
  PROVE  Asset \in Assets /\ Key \in Keys
BY DEF TypeOK, LocalsTyped, Key, Asset, Keys, Assets

\* An element of a sequence is in the set the sequence is over.
LEMMA ElementOfSeq ==
  ASSUME NEW S, NEW q \in Seq(S), NEW i \in DOMAIN q
  PROVE  q[i] \in S
OBVIOUS

\* The side read back for a contract is a side or none (resolve).
LEMMA EntrySideType ==
  ASSUME TypeOK, NEW k
  PROVE  EntrySide(k) \in Sides \cup {NONE}
<1> DEFINE L == file["entries"].lines
           I == {i \in DOMAIN L : L[i] # Bad /\ L[i].key = k}
           m == CHOOSE i \in I : \A j \in I : i <= j
<1>1. L \in Seq(EntryRow \cup {Bad})
  BY DEF TypeOK, FilesTyped, Streams, RowType, File
<1>2. EntrySide(k) = IF I = {} THEN NONE ELSE L[m].side
  BY DEF EntrySide
<1>3. ASSUME I # {} PROVE L[m].side \in Sides
  <2>1. I \subseteq Nat
    BY <1>1
  <2>2. \E i \in I : \A j \in I : i <= j
    BY <1>3, <2>1, LeastElement
  <2>3. m \in I
    BY <2>2
  <2>4. m \in DOMAIN L /\ L[m] # Bad
    BY <2>3
  <2>5. L[m] \in EntryRow \cup {Bad}
    BY <1>1, <2>4, ElementOfSeq
  <2> HIDE DEF L, m, I
  <2>6. L[m] \in EntryRow
    BY <2>4, <2>5
  <2> QED BY <2>6 DEF EntryRow
<1> QED BY <1>2, <1>3

\* The selection a restart restores is an asset or none (__init__).
LEMMA SavedSelectionType ==
  ASSUME TypeOK, NEW w
  PROVE  SavedSelection(w) \in Assets \cup {NONE}
<1> DEFINE L == file["primary_selections"].lines
           I == {i \in DOMAIN L : L[i] # Bad /\ L[i].win = w}
           m == CHOOSE i \in I : \A j \in I : j <= i
<1>1. L \in Seq(SelectionRow \cup {Bad})
  BY DEF TypeOK, FilesTyped, Streams, RowType, File
<1>2. SavedSelection(w) = IF I = {} THEN NONE ELSE L[m].asset
  BY DEF SavedSelection
<1>3. ASSUME I # {} PROVE L[m].asset \in Assets
  <2>1. Len(L) \in Nat /\ I \subseteq 1 .. Len(L)
    BY <1>1
  <2>2. \E i \in I : \A j \in I : j <= i
    BY <1>3, <2>1, GreatestElement
  <2>3. m \in I
    BY <2>2
  <2>4. m \in DOMAIN L /\ L[m] # Bad
    BY <2>3
  <2>5. L[m] \in SelectionRow \cup {Bad}
    BY <1>1, <2>4, ElementOfSeq
  <2> HIDE DEF L, m, I
  <2>6. L[m] \in SelectionRow
    BY <2>4, <2>5
  <2> QED BY <2>6 DEF SelectionRow
<1> QED BY <1>2, <1>3

\* The next contract to resolve is one of those pending (main's pending loop).
LEMMA NextEndedType ==
  ASSUME TypeOK, pend # {}
  PROVE  NextEnded \in pend /\ NextEnded \in Windows
<1>1. pend \subseteq Windows /\ Windows \subseteq Nat
  BY BoundAssumption DEF TypeOK, LocalsTyped, Windows
<1>2. \E w \in pend : \A v \in pend : w <= v
  BY <1>1, LeastElement
<1> QED BY <1>1, <1>2 DEF NextEnded

\* What read() returns of a stream are rows of that stream.
LEMMA RowsType ==
  ASSUME TypeOK, NEW s \in Streams
  PROVE  RowsOf(file[s]) \subseteq RowType[s]
<1>1. file[s].lines \in Seq(RowType[s] \cup {Bad})
  BY DEF TypeOK, FilesTyped, File
<1> QED BY <1>1, ElementOfSeq DEF RowsOf

\* The row shape of each stream, one by one (FILES).
LEMMA RowTypes ==
  /\ RowType["observations"] = ObservationRow
  /\ RowType["entries"] = EntryRow
  /\ RowType["resolutions"] = ResolutionRow
  /\ RowType["window_events"] = EventRow
  /\ RowType["primary_selections"] = SelectionRow
  /\ RowType["provider_health"] = HealthRow
  /\ RowType["runs"] = RunRow
  /\ RowType["session_events"] = StopRow
BY DEF RowType

\* The keys a restart indexes are contracts (__init__).
LEMMA KeysInType ==
  ASSUME TypeOK, NEW s \in {"observations", "entries", "resolutions"}
  PROVE  KeysIn(s) \subseteq Keys
<1>1. s \in Streams
  BY DEF Streams
<1>2. RowsOf(file[s]) \subseteq RowType[s]
  BY <1>1, RowsType
<1>3. RowType[s] \in {ObservationRow, EntryRow, ResolutionRow}
  BY RowTypes
<1>4. /\ \A r \in ObservationRow : r.key \in Keys
      /\ \A r \in EntryRow : r.key \in Keys
      /\ \A r \in ResolutionRow : r.key \in Keys
  BY DEF ObservationRow, EntryRow, ResolutionRow
<1>5. \A r \in RowType[s] : r.key \in Keys
  BY <1>3, <1>4
<1> QED BY <1>2, <1>5 DEF KeysIn

-----------------------------------------------------------------------------
(***************************************************************************)
(* What a step may write.                                                  *)
(***************************************************************************)
\* The append in flight is a row of its stream, and the three streams of the
\* asset loop are written from the asset loop only.
LEMMA InFlightType ==
  ASSUME TypeOK, Control, NEW x \in InFlight
  PROVE  /\ x[1] \in Streams /\ x[2] \in RowType[x[1]]
         /\ x[1] = "entries" =>
              pc = "enter" /\ x[2] = [key |-> Key, side |-> cur.side]
         /\ x[1] \in {"observations", "entries", "resolutions"} =>
              pc \in {"observe", "enter", "resolve"}
<1>1. CASE pc = "boot"
  <2>1. x[1] = "runs" /\ x[2] \in RunRow
    BY <1>1 DEF InFlight, RunRow, Control
  <2> QED BY <1>1, <2>1, RowTypes DEF Streams
<1>2. CASE pc = "event"
  <2>1. Key \in Keys /\ status \in Statuses
    BY <1>2, AssetType DEF Control, TypeOK, LocalsTyped
  <2>2. x[1] = "window_events" /\ x[2] \in EventRow
    BY <1>2, <2>1 DEF InFlight, EventRow, EventOfStep
  <2> QED BY <1>2, <2>2, RowTypes DEF Streams
<1>3. CASE pc = "observe"
  <2>1. Key \in Keys
    BY <1>3, AssetType DEF Control
  <2>2. x[1] = "observations" /\ x[2] \in ObservationRow
    BY <1>3, <2>1 DEF InFlight, ObservationRow
  <2> QED BY <1>3, <2>2, RowTypes DEF Streams
<1>4. CASE pc = "enter"
  <2>1. Key \in Keys /\ cur.side \in Sides
    BY <1>4, AssetType DEF Control
  <2>2. x[1] = "entries" /\ x[2] = [key |-> Key, side |-> cur.side]
    BY <1>4, <2>1 DEF InFlight
  <2>3. x[2] \in EntryRow
    BY <2>1, <2>2 DEF EntryRow
  <2> QED BY <1>4, <2>2, <2>3, RowTypes DEF Streams
<1>5. CASE pc = "resolve"
  <2>1. pend # {} /\ x[1] = "resolutions"
        /\ x[2] = ResolutionOf(<<NextEnded, Asset>>)
    BY <1>5 DEF InFlight
  <2>2. <<NextEnded, Asset>> \in Keys
    BY <1>5, <2>1, AssetType, NextEndedType DEF Control, Keys
  <2>3. x[2] \in ResolutionRow
    BY <2>1, <2>2, EntrySideType DEF ResolutionOf, ResolutionRow
  <2> QED BY <1>5, <2>1, <2>3, RowTypes DEF Streams
<1>6. CASE pc = "persist"
  <2>1. x[1] = "primary_selections" /\ x[2] \in SelectionRow
    BY <1>6 DEF InFlight, SelectionRow, Control, TypeOK, LocalsTyped
  <2> QED BY <1>6, <2>1, RowTypes DEF Streams
<1>7. CASE pc = "health"
  <2>1. x[1] = "provider_health" /\ x[2] \in HealthRow
    BY <1>7 DEF InFlight, HealthRow, TypeOK, LocalsTyped
  <2> QED BY <1>7, <2>1, RowTypes DEF Streams
<1>8. CASE pc = "stop"
  <2>1. x[1] = "session_events" /\ x[2] \in StopRow
    BY <1>8 DEF InFlight, StopRow, Control, TypeOK, LocalsTyped
  <2> QED BY <1>8, <2>1, RowTypes DEF Streams
<1>9. CASE pc \notin {"boot", "event", "observe", "enter", "resolve",
                      "persist", "health", "stop"}
  BY <1>9 DEF InFlight
<1> QED BY <1>1, <1>2, <1>3, <1>4, <1>5, <1>6, <1>7, <1>8, <1>9

\* A step leaves every file alone but for one write of the append in flight.
WritesInFlight ==
  \/ file' = file
  \/ \E x \in InFlight : \E g \in Interrupted(file[x[1]], x[2]) :
       file' = [file EXCEPT ![x[1]] = g]

\* An append that returns leaves one more whole line in one stream (append).
LEMMA SaveWrites ==
  ASSUME NEW s, NEW row, <<s, row>> \in InFlight, Save(s, row)
  PROVE  WritesInFlight
<1> DEFINE x == <<s, row>>
           g == Written(file[s], row, TRUE)
<1>1. x \in InFlight /\ x[1] = s /\ x[2] = row
  OBVIOUS
<1>2. file' = [file EXCEPT ![s] = g]
  BY DEF Save
<1>3. g \in Interrupted(file[s], row)
  BY DEF Interrupted
<1> HIDE DEF x, g
<1> QED BY <1>1, <1>2, <1>3 DEF WritesInFlight

\* A step changes no file but that of the append in flight, and writes its row.
LEMMA NextWrites ==
  ASSUME [Next]_vars
  PROVE  WritesInFlight
<1>1. CASE WriteRun
  BY <1>1, SaveWrites DEF WriteRun, InFlight
<1>2. CASE Stop
  BY <1>2, SaveWrites DEF Stop, InFlight
<1>3. CASE Observe
  BY <1>3, SaveWrites DEF Observe, InFlight
<1>4. CASE Enter
  BY <1>4, SaveWrites DEF Enter, InFlight
<1>5. CASE Resolve
  BY <1>5, SaveWrites DEF Resolve, InFlight
<1>6. CASE RecordEvent
  <2>1. CASE EventOfStep \in events
    BY <1>6, <2>1 DEF RecordEvent, WritesInFlight
  <2>2. CASE EventOfStep \notin events
    <3>1. <<"window_events", EventOfStep>> \in InFlight
      BY <1>6, <2>2 DEF RecordEvent, InFlight
    <3>2. Save("window_events", EventOfStep)
      BY <1>6, <2>2 DEF RecordEvent
    <3> QED BY <3>1, <3>2, SaveWrites
  <2> QED BY <2>1, <2>2
<1>7. CASE PersistSelection
  BY <1>7, SaveWrites DEF PersistSelection, InFlight
<1>8. CASE RecordHealth
  BY <1>8, SaveWrites DEF RecordHealth, InFlight
<1>9. CASE IOError \/ Crash
  BY <1>9 DEF IOError, Crash, CutShort, LeftBy, WritesInFlight
<1>10. CASE Interrupt
  BY <1>10 DEF Interrupt, CutShort, LeftBy, Interrupted, WritesInFlight
<1>11. CASE \/ Start \/ BeginCycle \/ (\E st \in Statuses : NoData(st))
            \/ ScanRaises
            \/ (\E d \in Sides \cup {NONE}, act \in BOOLEAN : Classify(d, act))
            \/ ResolveFails \/ AssetDone \/ Select \/ Announce \/ Tick
            \/ UNCHANGED vars
  BY <1>11 DEF Start, BeginCycle, NoData, ScanRaises, Classify, ResolveFails,
               AssetDone, Select, Announce, Tick, vars, WritesInFlight
<1> QED BY <1>1, <1>2, <1>3, <1>4, <1>5, <1>6, <1>7, <1>8, <1>9, <1>10, <1>11
        DEF Next, Step

\* What such a write does to the files.
LEMMA WritesKeepFiles ==
  ASSUME TypeOK, FilesWhole, Control, WritesInFlight
  PROVE  /\ FilesTyped' /\ FilesWhole'
         /\ \/ file'["entries"] = file["entries"]
            \/ /\ pc = "enter"
               /\ AddsAtMost(file["entries"], file'["entries"],
                             [key |-> Key, side |-> cur.side])
         /\ \A s \in {"observations", "entries", "resolutions"} :
              file'[s] = file[s] \/ pc \in {"observe", "enter", "resolve"}
<1>1. CASE file' = file
  BY <1>1 DEF TypeOK, FilesTyped, FilesWhole
<1>2. CASE file' # file
  <2>0. PICK x \in InFlight : \E g \in Interrupted(file[x[1]], x[2]) :
          file' = [file EXCEPT ![x[1]] = g]
    BY <1>2 DEF WritesInFlight
  <2>1. PICK g \in Interrupted(file[x[1]], x[2]) :
          file' = [file EXCEPT ![x[1]] = g]
    BY <2>0
  <2> DEFINE s == x[1]  row == x[2]  f == file[s]
  <2>2. s \in Streams /\ row \in RowType[s]
    BY InFlightType
  <2>3. f \in File(RowType[s]) /\ TornHasALine(f)
    BY <2>2 DEF TypeOK, FilesTyped, FilesWhole
  <2>4. g \in Interrupted(f, row)
    BY <2>1
  <2>5. g \in File(RowType[s]) /\ TornHasALine(g)
    BY <2>2, <2>3, <2>4, InterruptedType
  <2>6. AddsAtMost(f, g, row)
    BY <2>3, <2>4, InterruptedLines
  <2>7. file = [t \in Streams |-> file[t]]
    BY DEF TypeOK, FilesTyped
  <2>8. /\ file' = [t \in Streams |-> file'[t]]
        /\ file'[s] = g
        /\ \A t \in Streams \ {s} : file'[t] = file[t]
    BY <2>1, <2>2, <2>7
  <2>9. s = "entries" => pc = "enter" /\ row = [key |-> Key, side |-> cur.side]
    BY InFlightType
  <2>10. s \in {"observations", "entries", "resolutions"} =>
           pc \in {"observe", "enter", "resolve"}
    BY InFlightType
  <2> HIDE DEF s, row, f
  <2>11. FilesTyped' /\ FilesWhole'
    BY <2>5, <2>8 DEF TypeOK, FilesTyped, FilesWhole
  <2>12. \/ file'["entries"] = file["entries"]
         \/ /\ pc = "enter"
            /\ AddsAtMost(file["entries"], file'["entries"],
                          [key |-> Key, side |-> cur.side])
    <3>1. CASE s = "entries"
      BY <3>1, <2>6, <2>8, <2>9 DEF f
    <3>2. CASE s # "entries"
      BY <3>2, <2>8 DEF Streams
    <3> QED BY <3>1, <3>2
  <2>13. \A t \in {"observations", "entries", "resolutions"} :
           file'[t] = file[t] \/ pc \in {"observe", "enter", "resolve"}
    BY <2>8, <2>10 DEF Streams
  <2> QED BY <2>11, <2>12, <2>13
<1> QED BY <1>1, <1>2

-----------------------------------------------------------------------------
(***************************************************************************)
(* What a step does to the memory.                                         *)
(***************************************************************************)
Memory == LocalsTyped /\ IndexesTyped /\ HistoryTyped /\ Control

\* An append notes whether it landed on a torn tail.
LEMMA SaveMerges ==
  ASSUME NEW s, NEW row, Save(s, row)
  PROVE  merged' \in BOOLEAN
BY DEF Save, NoteMerge

\* A write cut short is counted as a fault, and noted as a merge if it is one.
LEMMA CutShortCounts ==
  ASSUME TypeOK, CutShort(FALSE) \/ CutShort(TRUE)
  PROVE  merged' \in BOOLEAN /\ faults' \in 0 .. MaxFaults
<1>1. /\ faults < MaxFaults /\ faults' = faults + 1
      /\ NoteMerge
  BY DEF CutShort
<1>2. merged' \in BOOLEAN
  BY <1>1 DEF NoteMerge
<1>3. faults \in 0 .. MaxFaults
  BY DEF TypeOK, HistoryTyped
<1> QED BY <1>1, <1>2, <1>3, BoundAssumption

\* The window events a restart indexes are window events (__init__).
LEMMA EventsType ==
  ASSUME TypeOK
  PROVE  RowsOf(file["window_events"]) \subseteq EventRow
BY RowsType, RowTypes DEF Streams

\* The window event being recorded is one of this cycle's contract.
LEMMA EventType ==
  ASSUME TypeOK, todo \in DOMAIN AssetSeq
  PROVE  EventOfStep \in EventRow
BY AssetType DEF EventOfStep, EventRow, TypeOK, LocalsTyped

\* The bounds as numbers.
LEMMA Bounds ==
  /\ 1 \in Windows /\ 1 \in 1 .. Len(AssetSeq) + 1
  /\ \A i \in DOMAIN AssetSeq : i + 1 \in 1 .. Len(AssetSeq) + 1
<1>1. Len(AssetSeq) \in Nat /\ DOMAIN AssetSeq = 1 .. Len(AssetSeq)
  BY AssetAssumption
<1> QED BY <1>1, BoundAssumption DEF Windows

\* What process() hands back to the loop is well typed (Snapshot).
LEMMA SnapshotType ==
  ASSUME TypeOK, todo \in DOMAIN AssetSeq, Snapshot
  PROVE  /\ scanned' \subseteq Assets /\ actionable' \subseteq scanned'
         /\ pend' \subseteq Windows /\ pc' = "resolve"
<1>1. Asset \in Assets /\ scanned \subseteq Assets /\ actionable \subseteq
    scanned
  BY AssetType DEF TypeOK, LocalsTyped
<1>2. 1 .. inst - 1 \subseteq Windows
  BY BoundAssumption DEF Windows, TypeOK, LocalsTyped
<1> QED BY <1>1, <1>2 DEF Snapshot

\* Every step keeps the types of the locals, the indexes and the history.
LEMMA MemoryStep ==
  ASSUME TypeOK, Control, [Next]_vars
  PROVE  Memory'
<1>0. TypeOK /\ LocalsTyped /\ IndexesTyped /\ HistoryTyped /\ Control
  BY DEF TypeOK
<1>1. ASSUME NEW st \in Statuses, NoData(st) PROVE Memory'
  BY <1>0, <1>1 DEF NoData, Scanning, Memory, Control, LocalsTyped,
     IndexesTyped, HistoryTyped, index, scan, cycle, history, vars, Key, Asset
<1>2. ASSUME ScanRaises PROVE Memory'
  BY <1>0, <1>2 DEF ScanRaises, Scanning, Statuses, Memory, Control,
      LocalsTyped,
     IndexesTyped, HistoryTyped, index, scan, cycle, history, vars, Key, Asset
<1>3. ASSUME NEW d \in Sides \cup {NONE}, NEW act \in BOOLEAN, Classify(d, act)
    PROVE Memory'
  BY <1>0, <1>3 DEF Classify, Scanning, Memory, Control, LocalsTyped,
     IndexesTyped, HistoryTyped, index, scan, cycle, history, vars, Key, Asset
<1>4. ASSUME Announce PROVE Memory'
  BY <1>0, <1>4 DEF Announce, AfterSelection, Display, Memory, Control,
      LocalsTyped,
     IndexesTyped, HistoryTyped, index, scan, cycle, history, vars, Key, Asset
<1>5. ASSUME UNCHANGED vars PROVE Memory'
  BY <1>0, <1>5 DEF vars, Memory, Control, LocalsTyped,
     IndexesTyped, HistoryTyped, index, scan, cycle, history, vars, Key, Asset
<1>6. ASSUME Start PROVE Memory'
  <2>1. LocalsTyped'
    BY <1>0, <1>6, BoundAssumption
       DEF Start, LocalsTyped, Control, index, scan, cycle, history
  <2>2. IndexesTyped'
    BY <1>0, <1>6, SavedSelectionType, KeysInType, EventsType
       DEF Start, IndexesTyped, LocalsTyped, Control, index, scan, cycle,
           history
  <2>3. HistoryTyped'
    BY <1>0, <1>6
       DEF Start, HistoryTyped, LocalsTyped, Control, index, scan, cycle,
           history
  <2>4. Control'
    BY <1>0, <1>6, BoundAssumption
       DEF Start, Runs, HistoryTyped, Control, LocalsTyped, Key, Asset, index,
           scan, cycle, history
  <2> QED BY <2>1, <2>2, <2>3, <2>4 DEF Memory
<1>7. ASSUME WriteRun PROVE Memory'
  <2>1. LocalsTyped'
    BY <1>0, <1>7
       DEF WriteRun, LocalsTyped, Control, index, scan, cycle, history
  <2>2. IndexesTyped'
    BY <1>0, <1>7
       DEF WriteRun, IndexesTyped, LocalsTyped, Control, index, scan, cycle,
           history
  <2>3. HistoryTyped'
    BY <1>0, <1>7, SaveMerges
       DEF WriteRun, HistoryTyped, LocalsTyped, Control, index, scan, cycle,
           history
  <2>4. Control'
    BY <1>0, <1>7
       DEF WriteRun, Control, LocalsTyped, Key, Asset, index, scan, cycle,
           history
  <2> QED BY <2>1, <2>2, <2>3, <2>4 DEF Memory
<1>8. ASSUME Stop PROVE Memory'
  <2>1. LocalsTyped'
    BY <1>0, <1>8, Bounds
       DEF Stop, Statuses, NoDecision, Exit, DropLocals, DropCycle,
           LocalsTyped, Control, index, scan, cycle, history
  <2>2. IndexesTyped'
    BY <1>0, <1>8
       DEF Stop, Exit, DropLocals, DropCycle, NoDisplay, IndexesTyped,
           LocalsTyped, Control, index, scan, cycle, history
  <2>3. HistoryTyped'
    BY <1>0, <1>8, SaveMerges
       DEF Stop, HistoryTyped, LocalsTyped, Control, index, scan, cycle,
           history
  <2>4. Control'
    BY <1>0, <1>8
       DEF Stop, Exit, DropLocals, DropCycle, NoDisplay, Control, LocalsTyped,
           Key, Asset, index, scan, cycle, history
  <2> QED BY <2>1, <2>2, <2>3, <2>4 DEF Memory
<1>9. ASSUME BeginCycle PROVE Memory'
  <2>1. LocalsTyped'
    BY <1>0, <1>9, Bounds
       DEF BeginCycle, DropCycle, LocalsTyped, Control, index, scan, cycle,
           history
  <2>2. IndexesTyped'
    BY <1>0, <1>9
       DEF BeginCycle, IndexesTyped, LocalsTyped, Control, index, scan, cycle,
           history
  <2>3. HistoryTyped'
    BY <1>0, <1>9, BoundAssumption
       DEF BeginCycle, HistoryTyped, LocalsTyped, Control, index, scan, cycle,
           history
  <2>4. Control'
    BY <1>0, <1>9
       DEF BeginCycle, Control, LocalsTyped, Key, Asset, index, scan, cycle,
           history
  <2> QED BY <2>1, <2>2, <2>3, <2>4 DEF Memory
<1>10. ASSUME Observe PROVE Memory'
  <2>1. LocalsTyped'
    BY <1>0, <1>10, SnapshotType
       DEF Observe, LocalsTyped, Control, index, scan, cycle, history
  <2>2. IndexesTyped'
    BY <1>0, <1>10, AssetType
       DEF Observe, IndexesTyped, LocalsTyped, Control, index, scan, cycle,
           history
  <2>3. HistoryTyped'
    BY <1>0, <1>10, SaveMerges
       DEF Observe, HistoryTyped, LocalsTyped, Control, index, scan, cycle,
           history
  <2>4. Control'
    BY <1>0, <1>10
       DEF Observe, Snapshot, Control, LocalsTyped, Key, Asset, index, scan,
           cycle, history
  <2> QED BY <2>1, <2>2, <2>3, <2>4 DEF Memory
<1>11. ASSUME Enter PROVE Memory'
  <2>1. LocalsTyped'
    BY <1>0, <1>11, SnapshotType
       DEF Enter, LocalsTyped, Control, index, scan, cycle, history
  <2>2. IndexesTyped'
    BY <1>0, <1>11, AssetType
       DEF Enter, IndexesTyped, LocalsTyped, Control, index, scan, cycle,
           history
  <2>3. HistoryTyped'
    BY <1>0, <1>11, SaveMerges
       DEF Enter, HistoryTyped, LocalsTyped, Control, index, scan, cycle,
           history
  <2>4. Control'
    BY <1>0, <1>11
       DEF Enter, Snapshot, Control, LocalsTyped, Key, Asset, index, scan,
           cycle, history
  <2> QED BY <2>1, <2>2, <2>3, <2>4 DEF Memory
<1>12. ASSUME Resolve PROVE Memory'
  <2>1. LocalsTyped'
    BY <1>0, <1>12
       DEF Resolve, LocalsTyped, Control, index, scan, cycle, history
  <2>2. IndexesTyped'
    BY <1>0, <1>12, AssetType, NextEndedType
       DEF Resolve, Keys, IndexesTyped, LocalsTyped, Control, index, scan,
           cycle, history
  <2>3. HistoryTyped'
    BY <1>0, <1>12, SaveMerges
       DEF Resolve, HistoryTyped, LocalsTyped, Control, index, scan, cycle,
           history
  <2>4. Control'
    BY <1>0, <1>12
       DEF Resolve, Control, LocalsTyped, Key, Asset, index, scan, cycle,
           history
  <2> QED BY <2>1, <2>2, <2>3, <2>4 DEF Memory
<1>13. ASSUME ResolveFails PROVE Memory'
  <2>1. LocalsTyped'
    BY <1>0, <1>13
       DEF ResolveFails, Statuses, LocalsTyped, Control, index, scan, cycle,
           history
  <2>2. IndexesTyped'
    BY <1>0, <1>13
       DEF ResolveFails, IndexesTyped, LocalsTyped, Control, index, scan,
           cycle, history
  <2>3. HistoryTyped'
    BY <1>0, <1>13
       DEF ResolveFails, HistoryTyped, LocalsTyped, Control, index, scan,
           cycle, history
  <2>4. Control'
    BY <1>0, <1>13
       DEF ResolveFails, Control, LocalsTyped, Key, Asset, index, scan, cycle,
           history
  <2> QED BY <2>1, <2>2, <2>3, <2>4 DEF Memory
<1>14. ASSUME AssetDone PROVE Memory'
  <2>1. LocalsTyped'
    BY <1>0, <1>14, Bounds
       DEF AssetDone, NoDecision, DropLocals, Statuses, LocalsTyped, Control,
           index, scan, cycle, history
  <2>2. IndexesTyped'
    BY <1>0, <1>14
       DEF AssetDone, IndexesTyped, LocalsTyped, Control, index, scan, cycle,
           history
  <2>3. HistoryTyped'
    BY <1>0, <1>14
       DEF AssetDone, HistoryTyped, LocalsTyped, Control, index, scan, cycle,
           history
  <2>4. Control'
    BY <1>0, <1>14
       DEF AssetDone, DropLocals, Control, LocalsTyped, Key, Asset, index,
           scan, cycle, history
  <2> QED BY <2>1, <2>2, <2>3, <2>4 DEF Memory
<1>15. ASSUME RecordEvent PROVE Memory'
  <2>1. LocalsTyped'
    BY <1>0, <1>15, Bounds
       DEF RecordEvent, NoDecision, DropLocals, Statuses, LocalsTyped, Control,
           index, scan, cycle, history
  <2>2. IndexesTyped'
    BY <1>0, <1>15, EventType
       DEF RecordEvent, Hold, NoDisplay, IndexesTyped, LocalsTyped, Control,
           index, scan, cycle, history
  <2>3. HistoryTyped'
    BY <1>0, <1>15, SaveMerges
       DEF RecordEvent, HistoryTyped, LocalsTyped, Control, index, scan, cycle,
           history
  <2>4. Control'
    BY <1>0, <1>15
       DEF RecordEvent, DropLocals, Control, LocalsTyped, Key, Asset, index,
           scan, cycle, history
  <2> QED BY <2>1, <2>2, <2>3, <2>4 DEF Memory
<1>16. ASSUME Select PROVE Memory'
  <2>1. LocalsTyped'
    BY <1>0, <1>16
       DEF Select, AfterSelection, LocalsTyped, Control, index, scan, cycle,
           history
  <2>2. IndexesTyped'
    <3>1. inst \in Windows /\ primary[inst] \in Assets \cup {NONE}
      BY <1>0 DEF LocalsTyped, IndexesTyped
    <3>2. \A a \in actionable : a \in Assets
      BY <1>0 DEF LocalsTyped
    <3>3. \A a \in Assets \cup {NONE}, p \in BOOLEAN :
            Display(inst, a, p) \in [win : Windows \cup {NONE},
                                     asset : Assets \cup {NONE},
                                     persisted : BOOLEAN]
      BY <3>1 DEF Display
    <3>4. op' = op \/ \E a \in Assets \cup {NONE}, p \in BOOLEAN :
                        op' = Display(inst, a, p)
      BY <3>1, <3>2, <1>16 DEF Select
    <3>5. UNCHANGED index
      BY <1>16 DEF Select
    <3> QED BY <1>0, <3>3, <3>4, <3>5 DEF IndexesTyped, index
  <2>3. HistoryTyped'
    BY <1>0, <1>16
       DEF Select, HistoryTyped, LocalsTyped, Control, index, scan, cycle,
           history
  <2>4. Control'
    BY <1>0, <1>16
       DEF Select, AllScanned, AfterSelection, Control, LocalsTyped, Key,
           Asset, index, scan, cycle, history
  <2> QED BY <2>1, <2>2, <2>3, <2>4 DEF Memory
<1>17. ASSUME PersistSelection PROVE Memory'
  <2>1. LocalsTyped'
    BY <1>0, <1>17
       DEF PersistSelection, LocalsTyped, Control, index, scan, cycle, history
  <2>2. IndexesTyped'
    BY <1>0, <1>17
       DEF PersistSelection, IndexesTyped, LocalsTyped, Control, index, scan,
           cycle, history
  <2>3. HistoryTyped'
    BY <1>0, <1>17, SaveMerges
       DEF PersistSelection, HistoryTyped, LocalsTyped, Control, index, scan,
           cycle, history
  <2>4. Control'
    BY <1>0, <1>17
       DEF PersistSelection, Control, LocalsTyped, Key, Asset, index, scan,
           cycle, history
  <2> QED BY <2>1, <2>2, <2>3, <2>4 DEF Memory
<1>18. ASSUME RecordHealth PROVE Memory'
  <2>1. LocalsTyped'
    BY <1>0, <1>18
       DEF RecordHealth, DropCycle, LocalsTyped, Control, index, scan, cycle,
           history
  <2>2. IndexesTyped'
    BY <1>0, <1>18
       DEF RecordHealth, IndexesTyped, LocalsTyped, Control, index, scan,
           cycle, history
  <2>3. HistoryTyped'
    BY <1>0, <1>18, SaveMerges
       DEF RecordHealth, HistoryTyped, LocalsTyped, Control, index, scan,
           cycle, history
  <2>4. Control'
    BY <1>0, <1>18
       DEF RecordHealth, DropCycle, Control, LocalsTyped, Key, Asset, index,
           scan, cycle, history
  <2> QED BY <2>1, <2>2, <2>3, <2>4 DEF Memory
<1>19. ASSUME IOError PROVE Memory'
  <2>1. /\ UNCHANGED <<now, run, announced, cycles>>
        /\ errored' = errored \cup {run} /\ pc # "down"
    BY <1>19 DEF IOError, CutShort, InFlight
  <2>2. HistoryTyped'
    BY <1>0, <2>1, <1>19, CutShortCounts
    DEF IOError, HistoryTyped, LocalsTyped, Control
  <2>3. ASSUME Exit, safe' \in BOOLEAN
        PROVE  LocalsTyped' /\ IndexesTyped' /\ Control'
    <3>1. LocalsTyped'
      BY <1>0, <2>1, <2>3, Bounds
      DEF Exit, DropLocals, DropCycle, NoDecision, Statuses, LocalsTyped
    <3>2. IndexesTyped'
      BY <2>3 DEF Exit, NoDisplay, IndexesTyped
    <3>3. Control'
      BY <1>0, <2>1, <2>3 DEF Exit, Control, LocalsTyped
    <3> QED BY <3>1, <3>2, <3>3
  <2>4. ASSUME pc \in {"observe", "enter", "resolve", "event"}, exc' = "os",
               status' = "PROVIDER FAILURE", pc' = "event",
               UNCHANGED <<safe, op, index, cur, pend, cycle>>
        PROVE  LocalsTyped' /\ IndexesTyped' /\ Control'
    <3>1. LocalsTyped'
      BY <1>0, <2>1, <2>4 DEF LocalsTyped, Statuses, cycle
    <3>2. IndexesTyped'
      BY <1>0, <2>4 DEF IndexesTyped, index
    <3>3. todo' \in DOMAIN AssetSeq /\ failed' = FALSE
      BY <1>0, <2>4 DEF Control, LocalsTyped, cycle
    <3>4. run' \in Runs /\ \A r \in errored' : r <= run'
      BY <1>0, <2>1 DEF Control, LocalsTyped
    <3>5. Control'
      BY <2>4, <3>3, <3>4 DEF Control
    <3> QED BY <3>1, <3>2, <3>5
  <2>5. ASSUME pc' = "stop", safe' \in BOOLEAN, op' \in {op, Hold},
               UNCHANGED <<index, scan, cycle>>
        PROVE  LocalsTyped' /\ IndexesTyped' /\ Control'
    <3>1. LocalsTyped'
      BY <1>0, <2>1, <2>5 DEF LocalsTyped, scan, cycle
    <3>2. IndexesTyped'
      <4>1. Hold \in [win : Windows \cup {NONE}, asset : Assets \cup {NONE},
                      persisted : BOOLEAN]
        BY DEF Hold, NoDisplay
      <4> QED BY <1>0, <2>5, <4>1 DEF IndexesTyped, index
    <3>3. Control'
      BY <1>0, <2>1, <2>5 DEF Control, LocalsTyped, cycle
    <3> QED BY <3>1, <3>2, <3>3
  <2>6. safe \in BOOLEAN
    BY <1>0 DEF LocalsTyped
  <2>7. \/ Exit /\ safe' \in BOOLEAN
        \/ /\ pc \in {"observe", "enter", "resolve", "event"}
           /\ exc' = "os" /\ status' = "PROVIDER FAILURE" /\ pc' = "event"
           /\ UNCHANGED <<safe, op, index, cur, pend, cycle>>
        \/ /\ pc' = "stop" /\ safe' \in BOOLEAN /\ op' \in {op, Hold}
           /\ UNCHANGED <<index, scan, cycle>>
    BY <1>19, <2>6 DEF IOError
  <2> QED BY <2>2, <2>3, <2>4, <2>5, <2>7 DEF Memory
<1>20. ASSUME Crash PROVE Memory'
  <2>1. LocalsTyped'
    BY <1>0, <1>20, Bounds
       DEF Crash, Statuses, NoDecision, Exit, DropLocals, DropCycle,
           LocalsTyped, Control, index, scan, cycle, history
  <2>2. IndexesTyped'
    BY <1>0, <1>20
       DEF Crash, Exit, DropLocals, DropCycle, NoDisplay, IndexesTyped,
           LocalsTyped, Control, index, scan, cycle, history
  <2>3. HistoryTyped'
    BY <1>0, <1>20, CutShortCounts
       DEF Crash, HistoryTyped, LocalsTyped, Control, index, scan, cycle,
           history
  <2>4. Control'
    BY <1>0, <1>20
       DEF Crash, Exit, DropLocals, DropCycle, NoDisplay, Control, LocalsTyped,
           Key, Asset, index, scan, cycle, history
  <2> QED BY <2>1, <2>2, <2>3, <2>4 DEF Memory
<1>21. ASSUME Interrupt PROVE Memory'
  <2>1. LocalsTyped'
    BY <1>0, <1>21
       DEF Interrupt, LocalsTyped, Control, index, scan, cycle, history
  <2>2. IndexesTyped'
    BY <1>0, <1>21
       DEF Interrupt, IndexesTyped, LocalsTyped, Control, index, scan, cycle,
           history
  <2>3. HistoryTyped'
    BY <1>0, <1>21, CutShortCounts
       DEF Interrupt, HistoryTyped, LocalsTyped, Control, index, scan, cycle,
           history
  <2>4. Control'
    BY <1>0, <1>21
       DEF Interrupt, Control, LocalsTyped, Key, Asset, index, scan, cycle,
           history
  <2> QED BY <2>1, <2>2, <2>3, <2>4 DEF Memory
<1>22. ASSUME Tick PROVE Memory'
  <2>1. LocalsTyped'
    BY <1>0, <1>22, BoundAssumption
       DEF Tick, Windows, LocalsTyped, Control, index, scan, cycle, history
  <2>2. IndexesTyped'
    BY <1>0, <1>22
       DEF Tick, IndexesTyped, LocalsTyped, Control, index, scan, cycle,
           history
  <2>3. HistoryTyped'
    BY <1>0, <1>22
       DEF Tick, HistoryTyped, LocalsTyped, Control, index, scan, cycle,
           history
  <2>4. Control'
    BY <1>0, <1>22
       DEF Tick, Control, LocalsTyped, Key, Asset, index, scan, cycle, history
  <2> QED BY <2>1, <2>2, <2>3, <2>4 DEF Memory
<1> QED
  BY <1>1, <1>2, <1>3, <1>4, <1>5, <1>6, <1>7, <1>8, <1>9, <1>10, <1>11, <1>12,
      <1>13, <1>14, <1>15, <1>16, <1>17, <1>18, <1>19, <1>20, <1>21, <1>22
  DEF Next, Step

-----------------------------------------------------------------------------
(***************************************************************************)
(* The invariant.                                                          *)
(***************************************************************************)
LEMMA InitIInv == Init => IInv
<1> SUFFICES ASSUME Init PROVE IInv
  OBVIOUS
<1>1. FilesTyped /\ FilesWhole
  <2>1. \A s \in Streams : <<>> \in Seq(RowType[s] \cup {Bad})
    OBVIOUS
  <2>2. \A s \in Streams : file[s] = EmptyFile
    BY DEF Init
  <2>3. file = [s \in Streams |-> file[s]]
    BY DEF Init
  <2>4. \A s \in Streams : EmptyFile \in File(RowType[s])
    BY <2>1 DEF File, EmptyFile
  <2>5. TornHasALine(EmptyFile)
    BY DEF EmptyFile, TornHasALine
  <2> QED BY <2>2, <2>3, <2>4, <2>5 DEF FilesTyped, FilesWhole
<1>0. MaxCycles \in Nat /\ MaxRuns \in Nat /\ MaxFaults \in Nat
  BY BoundAssumption
<1>2. LocalsTyped
  <2>1. NoDecision \in [side : Sides \cup {NONE}, act : BOOLEAN]
    BY DEF NoDecision
  <2>2. 0 \in 0 .. MaxRuns
    BY <1>0
  <2>3. now \in Windows /\ inst \in Windows /\ run \in 0 .. MaxRuns
        /\ todo \in 1 .. Len(AssetSeq) + 1
    BY <2>2, Bounds DEF Init
  <2> QED BY <2>1, <2>3 DEF Init, LocalsTyped, Statuses
<1>3. IndexesTyped
  BY DEF Init, IndexesTyped, NoDisplay
<1>4. HistoryTyped
  <2>1. <<>> \in Seq(Assets)
    OBVIOUS
  <2>2. announced \in [Windows -> Seq(Assets)]
    BY <2>1 DEF Init
  <2>3. 0 \in 0 .. MaxFaults /\ 0 \in 0 .. MaxCycles
    BY <1>0
  <2> QED BY <2>2, <2>3 DEF Init, HistoryTyped
<1>5. Control /\ EntryIndex /\ ErrorsStop
  BY DEF Init, Control, EntryIndex, ErrorsStop, Stopped
<1>6. OneEntryPerContract
  <2>1. file["entries"].lines = <<>>
    BY DEF Init, EmptyFile, Streams
  <2> QED BY <2>1 DEF OneEntryPerContract, AtMostOneRowPerKey
<1> QED BY <1>1, <1>2, <1>3, <1>4, <1>5, <1>6 DEF IInv, TypeOK

\* Only a new start leads a stopped run back to the asset loop.
LEMMA StoppedStays ==
  ASSUME Control, Stopped, [Next]_vars, ~Start
  PROVE  Stopped'
<1> USE DEF Stopped, Control, scan, cycle
<1>1. CASE WriteRun \/ Stop \/ BeginCycle \/ \E st \in Statuses : NoData(st)
  BY <1>1 DEF WriteRun, Stop, BeginCycle, NoData, Scanning, Exit
<1>2. CASE \/ ScanRaises
           \/ \E d \in Sides \cup {NONE}, act \in BOOLEAN : Classify(d, act)
           \/ Observe \/ Enter \/ Resolve \/ ResolveFails \/ AssetDone
  BY <1>2 DEF ScanRaises, Classify, Scanning, Observe, Enter, Resolve,
              ResolveFails, AssetDone
<1>3. CASE RecordEvent
  BY <1>3 DEF RecordEvent
<1>4. CASE Select \/ PersistSelection \/ Announce \/ RecordHealth
  BY <1>4 DEF Select, AllScanned, PersistSelection, Announce, RecordHealth,
              AfterSelection
<1>5. CASE IOError \/ Crash \/ Interrupt
  BY <1>5 DEF IOError, Crash, Interrupt, Exit
<1>6. CASE Tick \/ UNCHANGED vars
  BY <1>6 DEF Tick, vars
<1> QED BY <1>1, <1>2, <1>3, <1>4, <1>5, <1>6 DEF Next, Step

\* Every step keeps: once an append of a run raised, its scan is over.
LEMMA ErrorsStopStep ==
  ASSUME IInv, [Next]_vars
  PROVE  ErrorsStop'
<1>1. CASE Start
  BY <1>1 DEF Start, IInv, Control, ErrorsStop, history, TypeOK, LocalsTyped
<1>2. CASE IOError
  BY <1>2 DEF IOError, Exit, ErrorsStop, Stopped
<1>3. CASE ~Start /\ ~IOError
  <2>1. UNCHANGED <<run, errored>>
    BY <1>3 DEF Next, Step, WriteRun, Stop, BeginCycle, NoData, ScanRaises,
       Classify, Observe, Enter, Resolve, ResolveFails, AssetDone, RecordEvent,
       Select, PersistSelection, Announce, RecordHealth, Crash, Interrupt,
       Tick, vars, history
  <2> QED BY <1>3, <2>1, StoppedStays DEF IInv, ErrorsStop
<1> QED BY <1>1, <1>2, <1>3

\* The index of entries follows the file, or the run has stopped.
LEMMA EnteredFollows ==
  ASSUME [Next]_vars, ~Start, ~Enter
  PROVE  \/ entered' = entered /\ (pc # "enter" \/ file' = file)
         \/ Stopped'
<1>1. CASE \/ WriteRun \/ BeginCycle \/ (\E st \in Statuses : NoData(st))
           \/ ScanRaises
           \/ (\E d \in Sides \cup {NONE}, act \in BOOLEAN : Classify(d, act))
           \/ Observe \/ Resolve \/ ResolveFails \/ AssetDone
  BY <1>1 DEF WriteRun, BeginCycle, NoData, ScanRaises, Classify, Scanning,
              Observe, Resolve, ResolveFails, AssetDone, index
<1>2. CASE RecordEvent \/ Select \/ PersistSelection \/ Announce \/ RecordHealth
  BY <1>2 DEF RecordEvent, Select, AllScanned, PersistSelection, Announce,
              RecordHealth, index
<1>3. CASE Stop \/ IOError \/ Crash \/ Interrupt
  BY <1>3 DEF Stop, IOError, Crash, Interrupt, Exit, Stopped
<1>4. CASE Tick \/ UNCHANGED vars
  BY <1>4 DEF Tick, vars, index
<1> QED BY <1>1, <1>2, <1>3, <1>4 DEF Next, Step

\* Every step keeps: at most one entry per contract, and the index of entries
\* covers the entries on disk until an append of the run raised.
LEMMA EntriesStep ==
  ASSUME IInv, [Next]_vars
  PROVE  OneEntryPerContract' /\ EntryIndex'
<1> DEFINE f == file["entries"]
           row == [key |-> Key, side |-> cur.side]
           Adds == pc = "enter" /\ AddsAtMost(f, f', row)
<1>1. f' = f \/ Adds
  BY NextWrites, WritesKeepFiles DEF IInv
<1>2. pc = "enter" => KeysIn("entries") \subseteq entered /\ Key \notin entered
  BY DEF IInv, Control, EntryIndex, Stopped
<1>3. \A i \in DOMAIN f.lines : f.lines[i] # Bad => f.lines[i].key \in KeysIn("entries")
  BY DEF KeysIn, RowsOf
<1>4. OneEntryPerContract'
  <2>1. CASE f' = f
    BY <2>1 DEF IInv, OneEntryPerContract, AtMostOneRowPerKey
  <2>2. CASE Adds
    <3> SUFFICES ASSUME NEW i \in DOMAIN f'.lines, NEW j \in DOMAIN f'.lines,
                        i # j, f'.lines[i] # Bad, f'.lines[j] # Bad
                 PROVE  f'.lines[i].key # f'.lines[j].key
      BY DEF OneEntryPerContract, AtMostOneRowPerKey
    <3> DEFINE Old(k) == k \in DOMAIN f.lines /\ f'.lines[k] = f.lines[k]
               New(k) == k = Len(f.lines) + 1 /\ f'.lines[k] = row
    <3>1. (Old(i) \/ New(i)) /\ (Old(j) \/ New(j))
      BY <2>2 DEF AddsAtMost
    <3>2. row.key = Key
      OBVIOUS
    <3> HIDE DEF row
    <3>3. CASE Old(i) /\ Old(j)
      BY <3>3 DEF IInv, OneEntryPerContract, AtMostOneRowPerKey
    <3>4. CASE Old(i) /\ New(j)
      BY <3>4, <3>2, <2>2, <1>2, <1>3
    <3>5. CASE New(i) /\ Old(j)
      BY <3>5, <3>2, <2>2, <1>2, <1>3
    <3> QED BY <3>1, <3>3, <3>4, <3>5
  <2> QED BY <1>1, <2>1, <2>2
<1>5. EntryIndex'
  <2> SUFFICES ASSUME ~Stopped' PROVE KeysIn("entries")' \subseteq entered'
    BY DEF EntryIndex
  <2>1. CASE Start
    BY <2>1 DEF Start, KeysIn
  <2>2. CASE ~Start
    <3>1. KeysIn("entries") \subseteq entered
      BY <2>2, StoppedStays DEF IInv, EntryIndex
    <3>2. CASE Enter
      <4>1. KeysIn("entries")' \subseteq KeysIn("entries") \cup {Key}
        <5>1. row.key = Key
          OBVIOUS
        <5> HIDE DEF row
        <5>2. \A i \in DOMAIN f'.lines : f'.lines[i] # Bad =>
                f'.lines[i].key \in KeysIn("entries") \cup {Key}
          BY <1>1, <1>3, <5>1 DEF AddsAtMost
        <5> QED BY <5>2 DEF KeysIn, RowsOf
      <4> QED BY <3>1, <3>2, <4>1 DEF Enter
    <3>3. CASE ~Enter
      <4>1. entered' = entered /\ (pc # "enter" \/ file' = file)
        BY <2>2, <3>3, EnteredFollows
      <4>2. f' = f
        BY <1>1, <4>1
      <4> QED BY <3>1, <4>1, <4>2 DEF KeysIn
    <3> QED BY <3>2, <3>3
  <2> QED BY <2>1, <2>2
<1> QED BY <1>4, <1>5

\* Every step keeps the inductive invariant.
LEMMA NextIInv == IInv /\ [Next]_vars => IInv'
<1> SUFFICES ASSUME IInv, [Next]_vars PROVE IInv'
  OBVIOUS
<1>1. TypeOK /\ FilesWhole /\ Control
  BY DEF IInv
<1>2. FilesTyped' /\ FilesWhole'
  BY <1>1, NextWrites, WritesKeepFiles
<1>3. LocalsTyped' /\ IndexesTyped' /\ HistoryTyped' /\ Control'
  BY <1>1, MemoryStep DEF Memory
<1>4. OneEntryPerContract' /\ EntryIndex'
  BY EntriesStep
<1>5. ErrorsStop'
  BY ErrorsStopStep
<1> QED BY <1>2, <1>3, <1>4, <1>5 DEF IInv, TypeOK

\* The inductive invariant holds in every behaviour.
LEMMA Invariance == Spec => []IInv
BY InitIInv, NextIInv, PTL DEF Spec

-----------------------------------------------------------------------------
\* Every variable of the scanner keeps its type, whatever the list of assets.
THEOREM TypeCorrect == Spec => []TypeOK
<1>1. IInv => TypeOK
  BY DEF IInv
<1> QED BY <1>1, Invariance, PTL

\* A contract is entered at most once per asset, over any number of restarts,
\* crashes, interruptions and writes cut short: process checks an index that,
\* while the run can still reach it, knows every entry on disk.
THEOREM OneEntry == Spec => []OneEntryPerContract
<1>1. IInv => OneEntryPerContract
  BY DEF IInv
<1> QED BY <1>1, Invariance, PTL

\* After an append of a run raised, the run writes no observation, entry or
\* resolution any more: the handler leads out of the asset loop for good.
THEOREM ErrorsEndTheScan == Spec => NoScanAfterAnError
<1> DEFINE Quiet == \A s \in {"observations", "entries", "resolutions"} :
                      run \in errored /\ run' = run => file'[s] = file[s]
<1>1. IInv /\ [Next]_vars => [Quiet]_vars
  <2> SUFFICES ASSUME IInv, [Next]_vars PROVE Quiet
    OBVIOUS
  <2>1. \A s \in {"observations", "entries", "resolutions"} :
          file'[s] = file[s] \/ pc \in {"observe", "enter", "resolve"}
    BY NextWrites, WritesKeepFiles DEF IInv
  <2>2. run \in errored => pc \notin {"observe", "enter", "resolve"}
    BY DEF IInv, ErrorsStop, Stopped, Control
  <2> QED BY <2>1, <2>2
<1> QED BY <1>1, Invariance, PTL DEF Spec, NoScanAfterAnError

-----------------------------------------------------------------------------
(***************************************************************************)
(* The scanner and its records.  The second invariant, LInv, builds on the *)
(* first.                                                                  *)
(***************************************************************************)
\* What the place in the program says of the cycle.
CycleInv ==
  /\ inst <= now
  /\ pc = "resolve" =>
       \A w \in pend : w < inst /\ <<w, Asset>> \notin resolved
  /\ pc = "persist" => primary[inst] = NONE
  /\ pc = "announce" => primary[inst] = pick
  /\ op.persisted => op.win \in Windows /\ op.asset \in Assets

\* The selections in memory are those on disk, even after an append raised.
SelectionsAgree ==
  pc \notin {"down", "stop"} =>
    \A w \in Windows : primary[w] = SavedSelection(w)

\* The contract being entered was observed, and no contract of a window that is
\* still being worked on is resolved.
LoopInStep ==
  /\ pc = "enter" => Key \in KeysIn("observations")
  /\ pc \in {"scan", "event", "observe", "enter", "resolve"} =>
       \A k \in KeysIn("resolutions") : k[1] < inst

\* A selection is published when it was not before.
PublishedInStep == pc = "announce" => announced[inst] = <<>>

LInv ==
  /\ CycleInv
  /\ MemoryAgreesWithDisk
  /\ ResolutionsTellTheTruth
  /\ AnnouncedOncePerWindow
  /\ PersistedDisplayIsOnDisk
  /\ ~merged => SelectionsAgree /\ LoopInStep /\ PublishedInStep

-----------------------------------------------------------------------------
(***************************************************************************)
(* What one more line makes of the helpers that read a stream.             *)
(***************************************************************************)
Kept(s) ==
  \/ file'[s] = file[s]
  \/ file'[s].lines = Append(file[s].lines, Bad)

Added(s, row) == file'[s].lines = Append(file[s].lines, row)

\* The lines of a stream are a sequence of its rows and of lines that do not
\* parse.
LEMMA LinesType ==
  ASSUME TypeOK, NEW s \in Streams
  PROVE  file[s].lines \in Seq(RowType[s] \cup {Bad}) /\ file[s] \in File(RowType[s])
BY DEF TypeOK, FilesTyped, File

\* A fragment is no row; a row that was added is one.
LEMMA RowsGrow ==
  ASSUME TypeOK, NEW s \in Streams
  PROVE  /\ Kept(s) => RowsOf(file'[s]) = RowsOf(file[s])
         /\ \A row \in RowType[s] :
              Added(s, row) => RowsOf(file'[s]) = RowsOf(file[s]) \cup {row}
<1>1. file[s] \in File(RowType[s])
  BY LinesType
<1>2. ASSUME file'[s].lines = Append(file[s].lines, Bad)
      PROVE  RowsOf(file'[s]) = RowsOf(file[s])
  <2>1. RowsOf(file'[s]) = RowsOf(file[s]) \cup ({Bad} \ {Bad})
    BY <1>1, <1>2, AppendRows
  <2> QED BY <2>1
<1>3. ASSUME NEW row \in RowType[s], Added(s, row)
      PROVE  RowsOf(file'[s]) = RowsOf(file[s]) \cup {row}
  <2>1. RowsOf(file'[s]) = RowsOf(file[s]) \cup ({row} \ {Bad})
    BY <1>1, <1>3, AppendRows DEF Added
  <2>2. row # Bad
    BY BadAssumption
  <2> QED BY <2>1, <2>2
<1> QED BY <1>2, <1>3 DEF Kept

\* A contract has a side exactly if it was entered.
LEMMA EnteredHasASide ==
  ASSUME TypeOK, NEW k
  PROVE  EntrySide(k) = NONE <=> k \notin KeysIn("entries")
<1> DEFINE L == file["entries"].lines
           I == {i \in DOMAIN L : L[i] # Bad /\ L[i].key = k}
           m == CHOOSE i \in I : \A j \in I : i <= j
<1>1. L \in Seq(EntryRow \cup {Bad})
  BY LinesType, RowTypes DEF Streams
<1>2. EntrySide(k) = IF I = {} THEN NONE ELSE L[m].side
  BY DEF EntrySide
<1>3. k \in KeysIn("entries") <=> I # {}
  BY DEF KeysIn, RowsOf
<1>4. ASSUME I # {} PROVE L[m].side # NONE
  <2>1. I \subseteq Nat
    BY <1>1
  <2>2. \E i \in I : \A j \in I : i <= j
    BY <1>4, <2>1, LeastElement
  <2>3. m \in DOMAIN L /\ L[m] # Bad
    BY <2>2
  <2>4. L[m] \in EntryRow \cup {Bad}
    BY <1>1, <2>3, ElementOfSeq
  <2> HIDE DEF L, m, I
  <2>5. L[m].side \in Sides
    BY <2>3, <2>4 DEF EntryRow
  <2> QED BY <2>5, NoneAssumption
<1> QED BY <1>2, <1>3, <1>4

\* The side of a contract is that of its first entry, whatever follows.
LEMMA SideAfterAppend ==
  ASSUME TypeOK, NEW x, file'["entries"].lines = Append(file["entries"].lines, x),
         NEW k
  PROVE  EntrySide(k)' = IF k \in KeysIn("entries") THEN EntrySide(k)
                         ELSE IF x # Bad /\ x.key = k THEN x.side ELSE NONE
<1> DEFINE L == file["entries"].lines
           M == file'["entries"].lines
           I == {i \in DOMAIN L : L[i] # Bad /\ L[i].key = k}
           J == {i \in DOMAIN M : M[i] # Bad /\ M[i].key = k}
           First(S) == CHOOSE i \in S : \A j \in S : i <= j
           n == Len(L) + 1
<1>1. L \in Seq(EntryRow \cup {Bad})
  BY LinesType, RowTypes DEF Streams
<1>2. /\ EntrySide(k) = IF I = {} THEN NONE ELSE L[First(I)].side
      /\ EntrySide(k)' = IF J = {} THEN NONE ELSE M[First(J)].side
  BY DEF EntrySide
<1>3. k \in KeysIn("entries") <=> I # {}
  BY DEF KeysIn, RowsOf
<1>4. /\ DOMAIN L \subseteq Nat /\ n \in Nat
      /\ DOMAIN M = DOMAIN L \cup {n} /\ M[n] = x
      /\ \A i \in DOMAIN L : M[i] = L[i] /\ i < n
  BY <1>1
<1> HIDE DEF L, M, n
<1>5. CASE I # {}
  <2>1. PICK m \in I : \A j \in I : m <= j
    BY <1>4, <1>5, LeastElement
  <2>2. m \in J /\ \A j \in J : m <= j
    BY <1>4, <2>1
  <2>3. I \subseteq Nat /\ J \subseteq Nat
    BY <1>4
  <2>4. First(I) = m /\ First(J) = m
    BY <2>1, <2>2, <2>3
  <2>5. M[m] = L[m]
    BY <1>4, <2>1
  <2> QED BY <1>2, <1>3, <1>5, <2>2, <2>4, <2>5
<1>6. CASE I = {}
  <2>1. J = IF x # Bad /\ x.key = k THEN {n} ELSE {}
    BY <1>4, <1>6
  <2>2. First({n}) = n
    BY <1>4
  <2> HIDE DEF First, I, J
  <2> QED BY <1>2, <1>3, <1>4, <1>6, <2>1, <2>2
<1> QED BY <1>5, <1>6

\* The selection of a window is that of its last row.
LEMMA SelectionAfterAppend ==
  ASSUME TypeOK, NEW x, NEW w,
         file'["primary_selections"].lines
           = Append(file["primary_selections"].lines, x)
  PROVE  SavedSelection(w)' = IF x # Bad /\ x.win = w THEN x.asset
                              ELSE SavedSelection(w)
<1> DEFINE L == file["primary_selections"].lines
           M == file'["primary_selections"].lines
           I == {i \in DOMAIN L : L[i] # Bad /\ L[i].win = w}
           J == {i \in DOMAIN M : M[i] # Bad /\ M[i].win = w}
           Last(S) == CHOOSE i \in S : \A j \in S : j <= i
           n == Len(L) + 1
<1>1. L \in Seq(SelectionRow \cup {Bad})
  BY LinesType, RowTypes DEF Streams
<1>2. /\ SavedSelection(w) = IF I = {} THEN NONE ELSE L[Last(I)].asset
      /\ SavedSelection(w)' = IF J = {} THEN NONE ELSE M[Last(J)].asset
  BY DEF SavedSelection
<1>4. /\ DOMAIN L = 1 .. Len(L) /\ Len(L) \in Nat /\ n \in Nat
      /\ DOMAIN M = DOMAIN L \cup {n} /\ M[n] = x
      /\ \A i \in DOMAIN L : i \in Nat /\ M[i] = L[i] /\ i < n
  BY <1>1
<1> HIDE DEF L, M, n
<1>5. CASE x # Bad /\ x.win = w
  <2>1. n \in J /\ \A j \in J : j \in Nat /\ j <= n
    BY <1>4, <1>5
  <2>2. Last(J) = n
    BY <1>4, <2>1
  <2> HIDE DEF Last, I, J
  <2> QED BY <1>2, <1>4, <1>5, <2>1, <2>2
<1>6. CASE ~(x # Bad /\ x.win = w)
  <2>1. J = I
    BY <1>4, <1>6
  <2>2. CASE I = {}
    BY <1>2, <1>6, <2>1, <2>2
  <2>3. CASE I # {}
    <3>1. PICK m \in I : \A j \in I : j <= m
      BY <1>4, <2>3, GreatestElement
    <3>2. Last(I) = m
      BY <1>4, <3>1
    <3>3. M[m] = L[m]
      BY <1>4, <3>1
    <3> HIDE DEF Last, I, J
    <3> QED BY <1>2, <1>6, <2>1, <2>3, <3>2, <3>3
  <2> QED BY <2>2, <2>3
<1> QED BY <1>5, <1>6

-----------------------------------------------------------------------------
(***************************************************************************)
(* What a step that damages nothing does to the records.                   *)
(***************************************************************************)
\* The note of a merge is kept.
LEMMA MergedStays ==
  ASSUME [Next]_vars, ~merged'
  PROVE  ~merged /\ \A s \in Streams : file[s].torn => file'[s] = file[s]
<1>1. (file' = file /\ merged' = merged) \/ NoteMerge
  BY DEF Next, Step, Start, WriteRun, Stop, BeginCycle, NoData, ScanRaises,
         Classify, Observe, Enter, Resolve, ResolveFails, AssetDone, RecordEvent,
         Select, PersistSelection, Announce, RecordHealth, IOError, Crash,
         Interrupt, Tick, CutShort, Save, vars, history
<1>2. CASE file' = file /\ merged' = merged
  BY <1>2
<1>3. CASE NoteMerge
  BY <1>3 DEF NoteMerge
<1> QED BY <1>1, <1>2, <1>3

\* Such a step keeps every stream, or adds the row of the append in flight.
LEMMA CleanStep ==
  ASSUME TypeOK, Control, [Next]_vars, ~merged', NEW s \in Streams
  PROVE  \/ Kept(s)
         \/ \E row \in RowType[s] : <<s, row>> \in InFlight /\ Added(s, row)
<1>1. CASE file' = file
  BY <1>1 DEF Kept
<1>2. CASE file' # file
  <2>0. PICK x \in InFlight : \E g \in Interrupted(file[x[1]], x[2]) :
          file' = [file EXCEPT ![x[1]] = g]
    BY <1>2, NextWrites DEF WritesInFlight
  <2>1. PICK g \in Interrupted(file[x[1]], x[2]) :
          file' = [file EXCEPT ![x[1]] = g]
    BY <2>0
  <2>2. file = [t \in Streams |-> file[t]]
    BY DEF TypeOK, FilesTyped
  <2>3. x[1] \in Streams /\ x[2] \in RowType[x[1]]
    BY InFlightType
  <2>4. file'[x[1]] = g /\ (s # x[1] => file'[s] = file[s])
    BY <2>1, <2>2, <2>3
  <2>5. file[x[1]].torn => g = file[x[1]]
    BY <2>3, <2>4, MergedStays
  <2>6. \/ g = file[x[1]]
        \/ g.lines = Append(file[x[1]].lines, Bad)
        \/ g.lines = Append(file[x[1]].lines, x[2])
    BY <2>5, CleanWrite
  <2>7. x = <<x[1], x[2]>>
    BY DEF InFlight
  <2> QED BY <2>3, <2>4, <2>6, <2>7 DEF Kept, Added
<1> QED BY <1>1, <1>2

\* An append that returned added its row, and touched no other stream.
LEMMA SavedWhole ==
  ASSUME TypeOK, NEW s \in Streams, NEW row \in RowType[s], Save(s, row), ~merged'
  PROVE  /\ Added(s, row)
         /\ RowsOf(file'[s]) = RowsOf(file[s]) \cup {row}
         /\ \A t \in Streams \ {s} : file'[t] = file[t]
<1>1. file = [t \in Streams |-> file[t]]
  BY DEF TypeOK, FilesTyped
<1>2. /\ file'[s] = Written(file[s], row, TRUE)
      /\ \A t \in Streams \ {s} : file'[t] = file[t]
  BY <1>1 DEF Save
<1>3. ~file'[s].torn
  <2>1. ~Written(file[s], row, TRUE).torn
    BY DEF Written
  <2> QED BY <1>2, <2>1
<1>4. ~file[s].torn
  BY <1>3 DEF Save, NoteMerge
<1>5. Added(s, row)
  BY <1>2, <1>4 DEF Written, Added
<1> QED BY <1>2, <1>5, RowsGrow

-----------------------------------------------------------------------------
\* What the streams that the ledger is made of may become.
ObservationsStep ==
  \/ KeysIn("observations")' = KeysIn("observations")
  \/ /\ pc = "observe"
     /\ KeysIn("observations")' = KeysIn("observations") \cup {Key}

EntriesGrow ==
  \/ /\ KeysIn("entries")' = KeysIn("entries")
     /\ \A k \in Keys : EntrySide(k)' = EntrySide(k)
  \/ /\ pc = "enter"
     /\ KeysIn("entries")' = KeysIn("entries") \cup {Key}
     /\ \A k \in Keys :
          EntrySide(k)' = IF k = Key /\ k \notin KeysIn("entries")
                          THEN cur.side ELSE EntrySide(k)

NextResolution == ResolutionOf(<<NextEnded, Asset>>)

ResolutionsStep ==
  \/ RowsOf(file'["resolutions"]) = RowsOf(file["resolutions"])
  \/ /\ pc = "resolve" /\ pend # {} /\ Resolvable(NextEnded)
     /\ RowsOf(file'["resolutions"])
          = RowsOf(file["resolutions"]) \cup {NextResolution}

SelectionsStep ==
  \/ \A w \in Windows : SavedSelection(w)' = SavedSelection(w)
  \/ /\ pc = "persist"
     /\ \A w \in Windows :
          SavedSelection(w)' = IF w = inst THEN pick ELSE SavedSelection(w)

\* The helpers as functions of the lines they read.
SideIn(L, k) ==
  LET I == {i \in DOMAIN L : L[i] # Bad /\ L[i].key = k}
  IN  IF I = {} THEN NONE ELSE L[CHOOSE i \in I : \A j \in I : i <= j].side

SelectionIn(L, w) ==
  LET I == {i \in DOMAIN L : L[i] # Bad /\ L[i].win = w}
  IN  IF I = {} THEN NONE ELSE L[CHOOSE i \in I : \A j \in I : j <= i].asset

\* A file that stays has the same contracts, sides and selections.
LEMMA SameFile ==
  /\ \A s \in Streams : RowsOf(file'[s]) = RowsOf(file[s]) => KeysIn(s)' = KeysIn(s)
  /\ file'["entries"] = file["entries"] => \A k : EntrySide(k)' = EntrySide(k)
  /\ file'["primary_selections"] = file["primary_selections"]
       => \A w : SavedSelection(w)' = SavedSelection(w)
<1>1. ASSUME NEW s \in Streams, RowsOf(file'[s]) = RowsOf(file[s])
      PROVE  KeysIn(s)' = KeysIn(s)
  BY <1>1 DEF KeysIn
<1>2. ASSUME file'["entries"] = file["entries"], NEW k
      PROVE  EntrySide(k)' = EntrySide(k)
  <2>1. EntrySide(k) = SideIn(file["entries"].lines, k)
    BY DEF EntrySide, SideIn
  <2>2. EntrySide(k)' = SideIn(file'["entries"].lines, k)
    BY DEF EntrySide, SideIn
  <2> QED BY <1>2, <2>1, <2>2
<1>3. ASSUME file'["primary_selections"] = file["primary_selections"], NEW w
      PROVE  SavedSelection(w)' = SavedSelection(w)
  <2>1. SavedSelection(w) = SelectionIn(file["primary_selections"].lines, w)
    BY DEF SavedSelection, SelectionIn
  <2>2. SavedSelection(w)' = SelectionIn(file'["primary_selections"].lines, w)
    BY DEF SavedSelection, SelectionIn
  <2> QED BY <1>3, <2>1, <2>2
<1> QED BY <1>1, <1>2, <1>3

\* A step that damages nothing adds to the records what is in flight, if
\* anything.
LEMMA RecordsStep ==
  ASSUME TypeOK, Control, [Next]_vars, ~merged'
  PROVE  ObservationsStep /\ EntriesGrow /\ ResolutionsStep /\ SelectionsStep
<1>1. ObservationsStep
  <2>1. "observations" \in Streams
    BY DEF Streams
  <2>2. CASE Kept("observations")
    BY <2>1, <2>2, RowsGrow, SameFile DEF ObservationsStep
  <2>3. ASSUME NEW row \in RowType["observations"],
               <<"observations", row>> \in InFlight, Added("observations", row)
        PROVE  ObservationsStep
    <3>1. pc = "observe" /\ row = [key |-> Key]
      BY <2>3 DEF InFlight
    <3>2. RowsOf(file'["observations"]) = RowsOf(file["observations"]) \cup {row}
      BY <2>1, <2>3, RowsGrow
    <3>3. row.key = Key
      BY <3>1
    <3> QED BY <3>1, <3>2, <3>3 DEF ObservationsStep, KeysIn
  <2> QED BY <2>1, <2>2, <2>3, CleanStep
<1>2. EntriesGrow
  <2>1. "entries" \in Streams
    BY DEF Streams
  <2>2. CASE Kept("entries")
    <3>1. KeysIn("entries")' = KeysIn("entries")
      BY <2>1, <2>2, RowsGrow, SameFile
    <3>2. ASSUME NEW k \in Keys PROVE EntrySide(k)' = EntrySide(k)
      <4>1. CASE file'["entries"] = file["entries"]
        BY <4>1, SameFile
      <4>2. CASE file'["entries"].lines = Append(file["entries"].lines, Bad)
        BY <4>2, SideAfterAppend, EnteredHasASide
      <4> QED BY <2>2, <4>1, <4>2 DEF Kept
    <3> QED BY <3>1, <3>2 DEF EntriesGrow
  <2>3. ASSUME NEW row \in RowType["entries"],
               <<"entries", row>> \in InFlight, Added("entries", row)
        PROVE  EntriesGrow
    <3>1. pc = "enter" /\ row = [key |-> Key, side |-> cur.side]
      BY <2>3 DEF InFlight
    <3>2. RowsOf(file'["entries"]) = RowsOf(file["entries"]) \cup {row}
      BY <2>1, <2>3, RowsGrow
    <3>3. row.key = Key /\ row.side = cur.side
      BY <3>1
    <3>4. row # Bad
      BY <2>1, BadAssumption
    <3>5. ASSUME NEW k \in Keys
          PROVE  EntrySide(k)' = IF k = Key /\ k \notin KeysIn("entries")
                                 THEN cur.side ELSE EntrySide(k)
      <4>1. file'["entries"].lines = Append(file["entries"].lines, row)
        BY <2>3 DEF Added
      <4>2. EntrySide(k)' = IF k \in KeysIn("entries") THEN EntrySide(k)
                            ELSE IF row # Bad /\ row.key = k THEN row.side ELSE NONE
        BY <4>1, SideAfterAppend
      <4> QED BY <3>3, <3>4, <4>2, EnteredHasASide
    <3>6. KeysIn("entries")' = KeysIn("entries") \cup {Key}
      BY <3>2, <3>3 DEF KeysIn
    <3> QED BY <3>1, <3>5, <3>6 DEF EntriesGrow
  <2> QED BY <2>1, <2>2, <2>3, CleanStep
<1>3. ResolutionsStep
  <2>1. "resolutions" \in Streams
    BY DEF Streams
  <2>2. CASE Kept("resolutions")
    BY <2>1, <2>2, RowsGrow DEF ResolutionsStep
  <2>3. ASSUME NEW row \in RowType["resolutions"],
               <<"resolutions", row>> \in InFlight, Added("resolutions", row)
        PROVE  ResolutionsStep
    <3>1. pc = "resolve" /\ pend # {} /\ Resolvable(NextEnded)
          /\ row = NextResolution
      BY <2>3 DEF InFlight, NextResolution
    <3> QED BY <2>1, <2>3, <3>1, RowsGrow DEF ResolutionsStep
  <2> QED BY <2>1, <2>2, <2>3, CleanStep
<1>4. SelectionsStep
  <2>1. "primary_selections" \in Streams
    BY DEF Streams
  <2>2. CASE Kept("primary_selections")
    <3>1. ASSUME NEW w \in Windows PROVE SavedSelection(w)' = SavedSelection(w)
      <4>1. CASE file'["primary_selections"] = file["primary_selections"]
        BY <4>1, SameFile
      <4>2. CASE file'["primary_selections"].lines
                   = Append(file["primary_selections"].lines, Bad)
        BY <4>2, SelectionAfterAppend
      <4> QED BY <2>2, <4>1, <4>2 DEF Kept
    <3> QED BY <3>1 DEF SelectionsStep
  <2>3. ASSUME NEW row \in RowType["primary_selections"],
               <<"primary_selections", row>> \in InFlight,
               Added("primary_selections", row)
        PROVE  SelectionsStep
    <3>1. pc = "persist" /\ row = [win |-> inst, asset |-> pick]
      BY <2>3 DEF InFlight
    <3>2. row # Bad
      BY <2>1, BadAssumption
    <3>3. row.win = inst /\ row.asset = pick
      BY <3>1
    <3>4. ASSUME NEW w \in Windows
          PROVE  SavedSelection(w)' = IF w = inst THEN pick ELSE SavedSelection(w)
      <4>1. SavedSelection(w)' = IF row # Bad /\ row.win = w THEN row.asset
                                 ELSE SavedSelection(w)
        BY <2>3, SelectionAfterAppend DEF Added
      <4> QED BY <3>2, <3>3, <4>1
    <3> QED BY <3>1, <3>4 DEF SelectionsStep
  <2> QED BY <2>1, <2>2, <2>3, CleanStep
<1> QED BY <1>1, <1>2, <1>3, <1>4

-----------------------------------------------------------------------------
(***************************************************************************)
(* What a step does to the cycle.                                          *)
(***************************************************************************)
\* In the asset loop no append of the run has raised.
LEMMA LoopIsClean ==
  ASSUME IInv, pc \in {"observe", "enter", "resolve"}
  PROVE  run \notin errored /\ todo \in DOMAIN AssetSeq
BY DEF IInv, ErrorsStop, Stopped, Control

\* What Snapshot lists are ended contracts that are not resolved.
LEMMA SnapshotPends ==
  ASSUME TypeOK, Snapshot, UNCHANGED <<resolved, inst, todo>>
  PROVE  \A w \in pend' : w < inst' /\ <<w, Asset'>> \notin resolved'
<1>1. inst \in Nat /\ Asset' = Asset
  BY BoundAssumption DEF TypeOK, LocalsTyped, Windows, Asset
<1>2. \A w \in pend' : w \in 1 .. inst - 1 /\ <<w, Asset>> \notin resolved
  BY DEF Snapshot
<1> QED BY <1>1, <1>2

\* The process at a standstill.
LEMMA ExitedCycle ==
  ASSUME TypeOK, Exit, now' = now
  PROVE  CycleInv'
<1>1. 1 <= now
  BY BoundAssumption DEF TypeOK, LocalsTyped, Windows
<1> QED BY <1>1 DEF Exit, NoDisplay, CycleInv

\* Every step keeps the cycle in order.
LEMMA CycleStep ==
  ASSUME IInv, CycleInv, [Next]_vars
  PROVE  CycleInv'
<1>0. TypeOK /\ Control
  BY DEF IInv
<1>1. CASE Stop \/ Crash
  BY <1>0, <1>1, ExitedCycle DEF Stop, Crash
<1>2. CASE \/ WriteRun \/ RecordHealth
           \/ (\E st \in Statuses : NoData(st)) \/ ScanRaises
           \/ (\E d \in Sides \cup {NONE}, act \in BOOLEAN : Classify(d, act))
  BY <1>2 DEF WriteRun, RecordHealth, NoData, ScanRaises, Classify, CycleInv,
              index, scan, cycle, history
<1>3. CASE Start
  BY <1>3 DEF Start, CycleInv, scan, cycle, history
<1>4. CASE BeginCycle
  <2>1. now <= now
    BY <1>0, BoundAssumption DEF TypeOK, LocalsTyped, Windows
  <2> QED BY <1>4, <2>1 DEF BeginCycle, CycleInv, index, scan, history
<1>5. CASE Observe \/ Enter
  <2>1. UNCHANGED <<resolved, inst, todo, op, now>>
    BY <1>5 DEF Observe, Enter
  <2>2. Snapshot \/ pc' = "enter"
    BY <1>5 DEF Observe, Enter
  <2>3. pc' \in {"enter", "resolve"}
    BY <1>5 DEF Observe, Enter, Snapshot
  <2>4. pc' = "resolve" => \A w \in pend' : w < inst' /\ <<w, Asset'>> \notin resolved'
    BY <1>0, <2>1, <2>2, SnapshotPends
  <2> HIDE <1>5
  <2> QED BY <2>1, <2>3, <2>4 DEF CycleInv
<1>6. CASE Resolve
  <2>1. /\ resolved' = resolved \cup {<<NextEnded, Asset>>}
        /\ pend' = pend \ {NextEnded} /\ pc = "resolve" /\ pc' = pc
        /\ UNCHANGED <<inst, todo, op, now>>
    BY <1>6 DEF Resolve, cycle
  <2>2. Asset' = Asset
    BY <2>1 DEF Asset
  <2> QED BY <2>1, <2>2 DEF CycleInv
<1>7. CASE ResolveFails
  <2>1. /\ pend' \subseteq pend /\ UNCHANGED <<resolved, inst, todo, op, now>>
        /\ pc = "resolve" /\ pc' \in {"resolve", "event"}
    BY <1>7 DEF ResolveFails, index, cycle
  <2>2. Asset' = Asset
    BY <2>1 DEF Asset
  <2> HIDE <1>7
  <2> QED BY <2>1, <2>2 DEF CycleInv
<1>8. CASE AssetDone \/ RecordEvent
  <2>1. /\ UNCHANGED <<inst, now, primary>> /\ op' \in {op, Hold}
        /\ pc' \in {"scan", "select"}
    BY <1>8 DEF AssetDone, RecordEvent, index, cycle
  <2> QED BY <2>1 DEF CycleInv, Hold, NoDisplay
<1>9. CASE Select
  <2>1. UNCHANGED <<inst, now, primary>>
    BY <1>9 DEF Select, index
  <2>2. inst \in Windows /\ primary[inst] \in Assets \cup {NONE}
    BY <1>0 DEF TypeOK, LocalsTyped, IndexesTyped
  <2>3. op'.persisted => op'.win \in Windows /\ op'.asset \in Assets
    <3>1. CASE primary[inst] # NONE
      BY <1>9, <2>2, <3>1 DEF Select, Display
    <3>2. CASE primary[inst] = NONE
      <4>1. op' = op \/ \E a : op' = Display(inst, a, FALSE)
        BY <1>9, <3>2 DEF Select
      <4>2. \A a : ~Display(inst, a, FALSE).persisted
        BY DEF Display
      <4> QED BY <4>1, <4>2 DEF CycleInv
    <3> QED BY <3>1, <3>2
  <2>4. pc' \in {"persist", "stop", "health"}
        /\ (pc' = "persist" => primary[inst] = NONE)
    BY <1>9 DEF Select, AfterSelection
  <2> QED BY <2>1, <2>3, <2>4 DEF CycleInv
<1>10. CASE PersistSelection
  <2>1. inst \in Windows /\ primary \in [Windows -> Assets \cup {NONE}]
    BY <1>0 DEF TypeOK, LocalsTyped, IndexesTyped
  <2> QED BY <1>10, <2>1 DEF PersistSelection, CycleInv, scan, cycle
<1>11. CASE Announce
  <2>1. inst \in Windows /\ pick \in Assets
    BY <1>0, <1>11 DEF TypeOK, LocalsTyped, Control, Announce
  <2>2. AfterSelection \in {"stop", "health"}
    BY DEF AfterSelection
  <2> QED BY <1>11, <2>1, <2>2 DEF Announce, Display, CycleInv, cycle
<1>12. CASE IOError
  <2>1. CASE Exit
    BY <1>0, <1>12, <2>1, ExitedCycle DEF IOError
  <2>2. CASE ~Exit
    <3>1. /\ pc' \in {"event", "stop"} /\ op' \in {op, Hold}
          /\ UNCHANGED <<inst, now>>
      BY <1>12, <2>2 DEF IOError, cycle
    <3> QED BY <3>1 DEF CycleInv, Hold, NoDisplay
  <2> QED BY <2>1, <2>2
<1>13. CASE Interrupt
  BY <1>13 DEF Interrupt, CycleInv, index, scan, cycle
<1>14. CASE Tick
  <2>1. inst \in Nat /\ now \in Nat
    BY <1>0, BoundAssumption DEF TypeOK, LocalsTyped, Windows
  <2>2. Asset' = Asset
    BY <1>14 DEF Tick, Asset, cycle
  <2> QED BY <1>14, <2>1, <2>2 DEF Tick, CycleInv, index, scan, cycle
<1>15. CASE UNCHANGED vars
  <2>1. Asset' = Asset
    BY <1>15 DEF vars, Asset, cycle
  <2> QED BY <1>15, <2>1 DEF vars, CycleInv, index, scan, cycle
<1> QED
  BY <1>1, <1>2, <1>3, <1>4, <1>5, <1>6, <1>7, <1>8, <1>9, <1>10, <1>11, <1>12,
     <1>13, <1>14, <1>15 DEF Next, Step

-----------------------------------------------------------------------------
(***************************************************************************)
(* The indexes and the records move together.                              *)
(***************************************************************************)
\* A step of a run that is not ending, and in which no append raises, is one
\* of the scanner's own.
LEMMA LiveStep ==
  ASSUME [Next]_vars, pc' \notin {"down", "stop"}, run' \notin errored', ~Start
  PROVE  /\ pc \notin {"down", "stop"} /\ run \notin errored
         /\ (Step /\ ~Stop) \/ Tick \/ UNCHANGED vars
<1>1. ~Stop /\ ~Crash /\ ~Interrupt
  BY DEF Stop, Crash, Interrupt, Exit
<1>2. ~IOError
  BY DEF IOError
<1>3. (Step /\ ~Stop) \/ Tick \/ UNCHANGED vars
  BY <1>1, <1>2 DEF Next
<1>4. run' = run /\ errored' = errored
  BY <1>3 DEF Step, WriteRun, BeginCycle, NoData, ScanRaises, Classify, Observe,
              Enter, Resolve, ResolveFails, AssetDone, RecordEvent, Select,
              PersistSelection, Announce, RecordHealth, Tick, vars, history
<1>5. pc \notin {"down", "stop"}
  BY <1>3, <1>1 DEF Step, WriteRun, BeginCycle, NoData, ScanRaises, Classify,
       Scanning, Observe, Enter, Resolve, ResolveFails, AssetDone, RecordEvent,
       Select, AllScanned, PersistSelection, Announce, RecordHealth, Tick, vars
<1> QED BY <1>3, <1>4, <1>5

\* Every step keeps: the indexes are what a restart would read.
LEMMA MemoryAgreesStep ==
  ASSUME IInv, MemoryAgreesWithDisk, [Next]_vars
  PROVE  MemoryAgreesWithDisk'
<1> SUFFICES ASSUME ~merged', pc' \notin {"down", "stop"}, run' \notin errored'
             PROVE  /\ observed' = KeysIn("observations")'
                    /\ entered' = KeysIn("entries")'
                    /\ resolved' = KeysIn("resolutions")'
                    /\ events' = RowsOf(file["window_events"])'
                    /\ \A w \in Windows : primary'[w] = SavedSelection(w)'
  BY DEF MemoryAgreesWithDisk
<1>0. TypeOK /\ Control
  BY DEF IInv
<1>1. CASE Start
  <2>1. file' = file
    BY <1>1 DEF Start
  <2>2. \A s \in Streams : KeysIn(s)' = KeysIn(s)
    BY <2>1, SameFile
  <2>3. \A w : SavedSelection(w)' = SavedSelection(w)
    BY <2>1, SameFile
  <2>4. primary' = [w \in Windows |-> SavedSelection(w)]
    BY <1>1 DEF Start
  <2>5. \A w \in Windows : primary'[w] = SavedSelection(w)'
    BY <2>3, <2>4
  <2> QED BY <1>1, <2>1, <2>2, <2>5 DEF Start, Streams
<1>2. CASE ~Start
  <2>1. /\ pc \notin {"down", "stop"} /\ run \notin errored
        /\ (Step /\ ~Stop) \/ Tick \/ UNCHANGED vars
    BY <1>2, LiveStep
  <2>2. ~merged
    BY MergedStays
  <2>3. /\ observed = KeysIn("observations")
        /\ entered = KeysIn("entries")
        /\ resolved = KeysIn("resolutions")
        /\ events = RowsOf(file["window_events"])
        /\ \A w \in Windows : primary[w] = SavedSelection(w)
    BY <2>1, <2>2 DEF MemoryAgreesWithDisk
  <2> DEFINE KeyStreams == {"observations", "entries", "resolutions",
                            "window_events", "primary_selections"}
  <2>4. ASSUME UNCHANGED index, \A s \in KeyStreams : file'[s] = file[s]
        PROVE  /\ observed' = KeysIn("observations")'
               /\ entered' = KeysIn("entries")'
               /\ resolved' = KeysIn("resolutions")'
               /\ events' = RowsOf(file["window_events"])'
               /\ \A w \in Windows : primary'[w] = SavedSelection(w)'
    <3>1. /\ KeysIn("observations")' = KeysIn("observations")
          /\ KeysIn("entries")' = KeysIn("entries")
          /\ KeysIn("resolutions")' = KeysIn("resolutions")
          /\ \A w : SavedSelection(w)' = SavedSelection(w)
      BY <2>4, SameFile DEF Streams
    <3> QED BY <2>3, <2>4, <3>1 DEF index
  <2>5. CASE WriteRun \/ RecordHealth
    <3>1. run \in Runs /\ inst \in Windows
      BY <1>0, <2>1 DEF Control, TypeOK, LocalsTyped
    <3>2. \E s \in {"runs", "provider_health"} : \E row \in RowType[s] : Save(s, row)
      BY <2>5, <3>1, RowTypes DEF WriteRun, RecordHealth, RunRow, HealthRow
    <3>3. \A s \in KeyStreams : file'[s] = file[s]
      BY <1>0, <3>2, SavedWhole DEF Streams
    <3> QED BY <2>4, <2>5, <3>3 DEF WriteRun, RecordHealth
  <2>6. CASE \/ BeginCycle \/ (\E st \in Statuses : NoData(st)) \/ ScanRaises
             \/ (\E d \in Sides \cup {NONE}, act \in BOOLEAN : Classify(d, act))
             \/ ResolveFails \/ AssetDone \/ Select \/ Announce \/ Tick
             \/ UNCHANGED vars
    <3>1. file' = file /\ UNCHANGED index
      BY <2>6 DEF BeginCycle, NoData, ScanRaises, Classify, ResolveFails, AssetDone,
                  Select, Announce, Tick, vars
    <3> HIDE <2>6
    <3> QED BY <2>4, <3>1
  <2>7. CASE Observe
    <3> DEFINE row == [key |-> Key]
    <3>1. row \in RowType["observations"]
      BY <1>0, <2>7, AssetType, RowTypes DEF Observe, Control, ObservationRow
    <3>2. /\ RowsOf(file'["observations"]) = RowsOf(file["observations"]) \cup {row}
          /\ \A t \in KeyStreams \ {"observations"} : file'[t] = file[t]
      BY <1>0, <2>7, <3>1, SavedWhole DEF Observe, Streams
    <3>3. KeysIn("observations")' = KeysIn("observations") \cup {Key}
      <4>1. row.key = Key
        OBVIOUS
      <4> HIDE DEF row
      <4> QED BY <3>2, <4>1 DEF KeysIn
    <3>4. /\ KeysIn("entries")' = KeysIn("entries")
          /\ KeysIn("resolutions")' = KeysIn("resolutions")
          /\ \A w : SavedSelection(w)' = SavedSelection(w)
      BY <3>2, SameFile DEF Streams
    <3> QED BY <2>3, <2>7, <3>2, <3>3, <3>4 DEF Observe
  <2>8. CASE Enter
    <3> DEFINE row == [key |-> Key, side |-> cur.side]
    <3>1. row \in RowType["entries"]
      BY <1>0, <2>8, AssetType, RowTypes DEF Enter, Control, EntryRow
    <3>2. /\ RowsOf(file'["entries"]) = RowsOf(file["entries"]) \cup {row}
          /\ \A t \in KeyStreams \ {"entries"} : file'[t] = file[t]
      BY <1>0, <2>8, <3>1, SavedWhole DEF Enter, Streams
    <3>3. KeysIn("entries")' = KeysIn("entries") \cup {Key}
      <4>1. row.key = Key
        OBVIOUS
      <4> HIDE DEF row
      <4> QED BY <3>2, <4>1 DEF KeysIn
    <3>4. /\ KeysIn("observations")' = KeysIn("observations")
          /\ KeysIn("resolutions")' = KeysIn("resolutions")
          /\ \A w : SavedSelection(w)' = SavedSelection(w)
      BY <3>2, SameFile DEF Streams
    <3> QED BY <2>3, <2>8, <3>2, <3>3, <3>4 DEF Enter
  <2>9. CASE Resolve
    <3> DEFINE k == <<NextEnded, Asset>>  row == ResolutionOf(k)
    <3>1. row \in RowType["resolutions"]
      <4>1. k \in Keys
        BY <1>0, <2>9, AssetType, NextEndedType DEF Resolve, Control, Keys
      <4> QED BY <1>0, <4>1, EntrySideType, RowTypes DEF ResolutionOf, ResolutionRow
    <3>2. /\ RowsOf(file'["resolutions"]) = RowsOf(file["resolutions"]) \cup {row}
          /\ \A t \in KeyStreams \ {"resolutions"} : file'[t] = file[t]
      BY <1>0, <2>9, <3>1, SavedWhole DEF Resolve, Streams
    <3>3. KeysIn("resolutions")' = KeysIn("resolutions") \cup {k}
      <4>1. row.key = k
        BY DEF ResolutionOf
      <4> HIDE DEF row, k
      <4> QED BY <3>2, <4>1 DEF KeysIn
    <3>4. /\ KeysIn("observations")' = KeysIn("observations")
          /\ KeysIn("entries")' = KeysIn("entries")
          /\ \A w : SavedSelection(w)' = SavedSelection(w)
      BY <3>2, SameFile DEF Streams
    <3> QED BY <2>3, <2>9, <3>2, <3>3, <3>4 DEF Resolve
  <2>10. CASE RecordEvent
    <3>1. CASE EventOfStep \in events
      <4>1. file' = file /\ UNCHANGED index
        BY <2>10, <3>1 DEF RecordEvent, index
      <4> QED BY <2>4, <4>1
    <3>2. CASE EventOfStep \notin events
      <4>1. EventOfStep \in RowType["window_events"]
        BY <1>0, <2>10, EventType, RowTypes DEF RecordEvent, Control
      <4>2. /\ RowsOf(file'["window_events"]) = RowsOf(file["window_events"]) \cup {EventOfStep}
            /\ \A t \in KeyStreams \ {"window_events"} : file'[t] = file[t]
        BY <1>0, <2>10, <3>2, <4>1, SavedWhole DEF RecordEvent, Streams
      <4>3. /\ KeysIn("observations")' = KeysIn("observations")
            /\ KeysIn("entries")' = KeysIn("entries")
            /\ KeysIn("resolutions")' = KeysIn("resolutions")
            /\ \A w : SavedSelection(w)' = SavedSelection(w)
        BY <4>2, SameFile DEF Streams
      <4> QED BY <2>3, <2>10, <3>2, <4>2, <4>3 DEF RecordEvent
    <3> QED BY <3>1, <3>2
  <2>11. CASE PersistSelection
    <3> DEFINE row == [win |-> inst, asset |-> pick]
    <3>1. row \in RowType["primary_selections"]
      BY <1>0, <2>11, RowTypes
      DEF PersistSelection, Control, TypeOK, LocalsTyped, SelectionRow
    <3>2. /\ Added("primary_selections", row)
          /\ \A t \in KeyStreams \ {"primary_selections"} : file'[t] = file[t]
      BY <1>0, <2>11, <3>1, SavedWhole DEF PersistSelection, Streams
    <3>3. row # Bad /\ row.win = inst /\ row.asset = pick
      BY <3>1, BadAssumption DEF Streams
    <3>4. \A w : SavedSelection(w)' = IF w = inst THEN pick ELSE SavedSelection(w)
      <4> HIDE DEF row
      <4> QED BY <1>0, <3>2, <3>3, SelectionAfterAppend DEF Added
    <3>5. /\ KeysIn("observations")' = KeysIn("observations")
          /\ KeysIn("entries")' = KeysIn("entries")
          /\ KeysIn("resolutions")' = KeysIn("resolutions")
      BY <3>2, SameFile DEF Streams
    <3>6. primary \in [Windows -> Assets \cup {NONE}]
      BY <1>0 DEF TypeOK, IndexesTyped
    <3>7. \A w \in Windows : primary'[w] = SavedSelection(w)'
      BY <2>3, <2>11, <3>4, <3>6 DEF PersistSelection
    <3> QED BY <2>3, <2>11, <3>2, <3>5, <3>7 DEF PersistSelection
  <2> QED BY <2>1, <2>5, <2>6, <2>7, <2>8, <2>9, <2>10, <2>11 DEF Step
<1> QED BY <1>1, <1>2

-----------------------------------------------------------------------------
(***************************************************************************)
(* The selection of a window.                                              *)
(***************************************************************************)
\* Every step keeps: the selections in memory are those on disk.
LEMMA SelectionsAgreeStep ==
  ASSUME IInv, ~merged => SelectionsAgree, [Next]_vars, ~merged'
  PROVE  SelectionsAgree'
<1> SUFFICES ASSUME pc' \notin {"down", "stop"}
             PROVE  \A w \in Windows : primary'[w] = SavedSelection(w)'
  BY DEF SelectionsAgree
<1>0. TypeOK /\ Control /\ ~merged
  BY MergedStays DEF IInv
<1>1. SelectionsStep
  BY <1>0, RecordsStep
<1>2. CASE Start
  <2>1. file' = file /\ primary' = [w \in Windows |-> SavedSelection(w)]
    BY <1>2 DEF Start
  <2>2. \A w : SavedSelection(w)' = SavedSelection(w)
    BY <2>1, SameFile
  <2> QED BY <2>1, <2>2
<1>3. CASE PersistSelection
  <2> DEFINE row == [win |-> inst, asset |-> pick]
  <2>1. row \in RowType["primary_selections"]
    BY <1>0, <1>3, RowTypes
    DEF PersistSelection, Control, TypeOK, LocalsTyped, SelectionRow
  <2>2. Added("primary_selections", row)
    BY <1>0, <1>3, <2>1, SavedWhole DEF PersistSelection, Streams
  <2>3. row # Bad /\ row.win = inst /\ row.asset = pick
    BY <2>1, BadAssumption DEF Streams
  <2>4. \A w : SavedSelection(w)' = IF w = inst THEN pick ELSE SavedSelection(w)
    <3> HIDE DEF row
    <3> QED BY <1>0, <2>2, <2>3, SelectionAfterAppend DEF Added
  <2>5. primary \in [Windows -> Assets \cup {NONE}]
    BY <1>0 DEF TypeOK, IndexesTyped
  <2>6. \A w \in Windows : primary[w] = SavedSelection(w)
    BY <1>0, <1>3 DEF PersistSelection, SelectionsAgree
  <2> QED BY <1>3, <2>4, <2>5, <2>6 DEF PersistSelection
<1>4. CASE ~Start /\ ~PersistSelection
  <2>1. pc \notin {"down", "stop"} /\ primary' = primary
        /\ (pc # "persist" \/ file' = file)
    BY <1>4 DEF Next, Step, WriteRun, Stop, BeginCycle, NoData, ScanRaises, Classify,
         Scanning, Observe, Enter, Resolve, ResolveFails, AssetDone, RecordEvent,
         Select, AllScanned, Announce, RecordHealth, IOError, CutShort, InFlight,
         Crash, Interrupt, Tick, Exit, vars, index
  <2>2. \A w \in Windows : SavedSelection(w)' = SavedSelection(w)
    BY <1>1, <2>1, SameFile DEF SelectionsStep
  <2> QED BY <1>0, <2>1, <2>2 DEF SelectionsAgree
<1> QED BY <1>2, <1>3, <1>4

\* A selection that is on disk stays.
LEMMA SavedStays ==
  ASSUME IInv, CycleInv, SelectionsAgree, [Next]_vars, ~merged',
         NEW w \in Windows, SavedSelection(w) # NONE
  PROVE  SavedSelection(w)' = SavedSelection(w)
<1>1. SelectionsStep
  BY RecordsStep DEF IInv
<1>2. pc = "persist" => inst \in Windows /\ SavedSelection(inst) = NONE
  BY DEF CycleInv, SelectionsAgree, IInv, TypeOK, LocalsTyped
<1> QED BY <1>1, <1>2 DEF SelectionsStep

\* What is announced of a window is its saved selection, once.
LEMMA AnnouncedStep ==
  ASSUME IInv, CycleInv, ~merged => SelectionsAgree /\ PublishedInStep,
         AnnouncedOncePerWindow, [Next]_vars, ~merged'
  PROVE  AnnouncedOncePerWindow' /\ PublishedInStep'
<1>0. TypeOK /\ Control /\ ~merged
  BY MergedStays DEF IInv
<1>1. \A w \in Windows :
        /\ announced[w] \in Seq(Assets) /\ Len(announced[w]) <= 1
        /\ announced[w] # <<>> => SavedSelection(w) = announced[w][1]
  BY <1>0 DEF AnnouncedOncePerWindow, TypeOK, HistoryTyped
<1>2. \A w \in Windows : announced[w] # <<>> => announced[w][1] \in Assets
  BY <1>1
<1>3. \A w \in Windows : announced[w] # <<>> => SavedSelection(w)' = announced[w][1]
  BY <1>0, <1>1, <1>2, SavedStays, NoneAssumption
<1>4. inst \in Windows /\ pick \in Assets \cup {NONE}
  BY <1>0 DEF TypeOK, LocalsTyped
<1>5. CASE Announce
  <2>1. pc = "announce" /\ announced' = [announced EXCEPT ![inst] = Append(@, pick)]
        /\ file' = file /\ pc' # "announce"
    BY <1>5 DEF Announce, AfterSelection
  <2>2. announced[inst] = <<>> /\ primary[inst] = pick /\ pick \in Assets
    BY <1>0, <2>1 DEF PublishedInStep, CycleInv, Control
  <2>3. \A w \in Windows : w = inst => SavedSelection(w)' = pick
    <3>1. SavedSelection(inst) = pick
      BY <1>0, <1>4, <2>1, <2>2 DEF SelectionsAgree
    <3>2. \A w : SavedSelection(w)' = SavedSelection(w)
      BY <2>1, SameFile
    <3> QED BY <3>1, <3>2
  <2>4. announced'[inst] = <<pick>> /\ \A w \in Windows \ {inst} : announced'[w] = announced[w]
    BY <1>0, <1>4, <2>1, <2>2 DEF TypeOK, HistoryTyped
  <2>5. \A w \in Windows :
          /\ Len(announced'[w]) <= 1
          /\ announced'[w] # <<>> => SavedSelection(w)' = announced'[w][1]
    <3>1. Len(<<pick>>) <= 1 /\ <<pick>>[1] = pick
      OBVIOUS
    <3>2. ASSUME NEW w \in Windows, w = inst
          PROVE  Len(announced'[w]) <= 1 /\ SavedSelection(w)' = announced'[w][1]
      BY <2>3, <2>4, <3>1, <3>2
    <3> QED BY <1>1, <1>3, <2>4, <3>2
  <2> QED BY <2>1, <2>5 DEF AnnouncedOncePerWindow, PublishedInStep
<1>6. CASE ~Announce
  <2>1. announced' = announced
    BY <1>6 DEF Next, Step, Start, WriteRun, Stop, BeginCycle, NoData, ScanRaises,
         Classify, Observe, Enter, Resolve, ResolveFails, AssetDone, RecordEvent,
         Select, PersistSelection, RecordHealth, IOError, Crash, Interrupt, Tick,
         vars, history
  <2>2. AnnouncedOncePerWindow'
    BY <1>1, <1>3, <2>1 DEF AnnouncedOncePerWindow
  <2>3. pc' = "announce" => pc \in {"persist", "announce"} /\ inst' = inst
    BY <1>6 DEF Next, Step, Start, WriteRun, Stop, BeginCycle, NoData, ScanRaises,
         Classify, Observe, Enter, Snapshot, Resolve, ResolveFails, AssetDone,
         RecordEvent, Select, AfterSelection, PersistSelection, RecordHealth,
         IOError, Crash, Interrupt, Tick, Exit, vars, cycle
  <2>4. pc = "persist" => announced[inst] = <<>>
    BY <1>0, <1>1, <1>2, <1>4, NoneAssumption DEF CycleInv, SelectionsAgree
  <2> QED BY <1>0, <2>1, <2>2, <2>3, <2>4 DEF PublishedInStep
<1> QED BY <1>5, <1>6

\* What is shown as persisted is on disk, and stays there.
LEMMA PersistedDisplayStep ==
  ASSUME IInv, CycleInv, ~merged => SelectionsAgree,
         PersistedDisplayIsOnDisk, [Next]_vars, ~merged'
  PROVE  PersistedDisplayIsOnDisk'
<1> SUFFICES ASSUME op'.persisted
             PROVE  SavedSelection(op.win)' = op'.asset
  BY DEF PersistedDisplayIsOnDisk
<1>0. TypeOK /\ Control /\ ~merged
  BY MergedStays DEF IInv
<1>1. inst \in Windows
  BY <1>0 DEF TypeOK, LocalsTyped
<1>2. CASE op' = op
  <2>1. SavedSelection(op.win) = op.asset /\ op.win \in Windows /\ op.asset \in Assets
    BY <1>0, <1>2 DEF PersistedDisplayIsOnDisk, CycleInv
  <2>2. \A w \in Windows : SavedSelection(w) # NONE => SavedSelection(w)' = SavedSelection(w)
    BY <1>0, SavedStays
  <2> QED BY <1>2, <2>1, <2>2, NoneAssumption
<1>3. CASE op' # op
  <2>1. \/ op' \in {Hold, NoDisplay}
        \/ \E a : op' = Display(inst, a, FALSE)
        \/ file' = file /\ op' = Display(inst, primary[inst], TRUE) /\ Select
        \/ file' = file /\ op' = Display(inst, pick, TRUE) /\ Announce
    BY <1>3 DEF Next, Step, Start, WriteRun, Stop, BeginCycle, NoData, ScanRaises,
         Classify, Observe, Enter, Resolve, ResolveFails, AssetDone, RecordEvent,
         Select, PersistSelection, Announce, RecordHealth, IOError, Crash,
         Interrupt, Tick, Exit, vars
  <2>2. op' \notin {Hold, NoDisplay} /\ ~\E a : op' = Display(inst, a, FALSE)
    BY DEF Hold, NoDisplay, Display
  <2>3. file' = file /\ op' = Display(inst, primary[inst], TRUE)
    BY <2>1, <2>2 DEF Announce, CycleInv
  <2>4. op'.win = inst /\ op'.asset = primary[inst]
    BY <2>3 DEF Display
  <2>5. pc \notin {"down", "stop"}
    BY <2>1, <2>2 DEF Select, AllScanned, Announce
  <2>6. \A w : SavedSelection(w)' = SavedSelection(w)
    BY <2>3, SameFile
  <2> QED BY <1>0, <1>1, <2>4, <2>5, <2>6 DEF SelectionsAgree
<1> QED BY <1>2, <1>3

-----------------------------------------------------------------------------
(***************************************************************************)
(* The resolutions.                                                        *)
(***************************************************************************)
\* The contract in line is an ended one.
LEMMA NextIsEnded ==
  ASSUME TypeOK, Control, CycleInv, pc = "resolve", pend # {}
  PROVE  /\ NextEnded \in Nat /\ inst \in Nat /\ NextEnded < inst
         /\ <<NextEnded, Asset>> \in Keys /\ <<NextEnded, Asset>> \notin resolved
<1>1. NextEnded \in pend /\ NextEnded \in Windows
  BY NextEndedType
<1>2. Asset \in Assets /\ inst \in Windows
  BY AssetType DEF Control, TypeOK, LocalsTyped
<1> QED BY <1>1, <1>2, BoundAssumption DEF CycleInv, Keys, Windows

\* The keys of the resolutions grow by the contract in line.
LEMMA ResolvedKeysStep ==
  ASSUME ResolutionsStep
  PROVE  \/ KeysIn("resolutions")' = KeysIn("resolutions")
         \/ /\ pc = "resolve" /\ pend # {} /\ Resolvable(NextEnded)
            /\ KeysIn("resolutions")'
                 = KeysIn("resolutions") \cup {<<NextEnded, Asset>>}
<1>1. NextResolution.key = <<NextEnded, Asset>>
  BY DEF NextResolution, ResolutionOf
<1>2. CASE RowsOf(file'["resolutions"]) = RowsOf(file["resolutions"])
  BY <1>2 DEF KeysIn
<1>3. CASE RowsOf(file'["resolutions"])
             = RowsOf(file["resolutions"]) \cup {NextResolution}
  BY <1>1, <1>3 DEF ResolutionsStep, KeysIn
<1> QED BY <1>2, <1>3 DEF ResolutionsStep

\* In a step that stays in the asset loop or enters it.
LEMMA LoopStep ==
  ASSUME [Next]_vars
  PROVE  /\ pc' \in {"scan", "event", "observe", "enter", "resolve"} =>
              \/ pc \in {"scan", "event", "observe", "enter", "resolve"} /\ inst' = inst
              \/ BeginCycle /\ inst' = now /\ file' = file /\ now' = now
         /\ pc' = "enter" =>
              \/ Observe /\ Key' = Key
              \/ pc = "enter" /\ file' = file /\ Key' = Key
BY DEF Next, Step, Start, WriteRun, Stop, BeginCycle, NoData, Scanning,
       ScanRaises, Classify, Observe, Enter, Snapshot, Resolve, ResolveFails,
       AssetDone, RecordEvent, Select, AfterSelection, PersistSelection, Announce,
       RecordHealth, IOError, Crash, Interrupt, Tick, Exit, vars, cycle, Key, Asset

\* An observation that was saved is on disk.
LEMMA ObservationSaved ==
  ASSUME TypeOK, Control, Observe, ~merged'
  PROVE  KeysIn("observations")' = KeysIn("observations") \cup {Key}
<1> DEFINE row == [key |-> Key]
<1>1. row \in RowType["observations"]
  BY AssetType, RowTypes DEF Observe, Control, ObservationRow
<1>2. RowsOf(file'["observations"]) = RowsOf(file["observations"]) \cup {row}
  BY <1>1, SavedWhole DEF Observe, Streams
<1>3. row.key = Key
  OBVIOUS
<1> HIDE DEF row
<1> QED BY <1>2, <1>3 DEF KeysIn

\* Every step keeps: no contract still being worked on is resolved.
LEMMA LoopInStepStep ==
  ASSUME IInv, CycleInv, ~merged => LoopInStep, ResolutionsTellTheTruth,
         [Next]_vars, ~merged'
  PROVE  LoopInStep'
<1>0. TypeOK /\ Control /\ ~merged
  BY MergedStays DEF IInv
<1>1. pc' = "enter" => Key' \in KeysIn("observations")'
  <2>1. CASE Observe /\ Key' = Key
    <3>1. Key \in KeysIn("observations")'
      BY <1>0, <2>1, ObservationSaved
    <3> QED BY <2>1, <3>1
  <2>2. CASE pc = "enter" /\ file' = file /\ Key' = Key
    <3>1. KeysIn("observations")' = KeysIn("observations")
      BY <2>2, SameFile DEF Streams
    <3> QED BY <1>0, <2>2, <3>1 DEF LoopInStep
  <2> QED BY <2>1, <2>2, LoopStep
<1>2. ASSUME pc' \in {"scan", "event", "observe", "enter", "resolve"},
             NEW k \in KeysIn("resolutions")'
      PROVE  k[1] < inst'
  <2>1. CASE BeginCycle /\ inst' = now /\ file' = file
    <3>1. k \in KeysIn("resolutions")
      BY <2>1, SameFile DEF Streams
    <3>2. k[1] < now
      BY <1>0, <3>1 DEF ResolutionsTellTheTruth, KeysIn
    <3> QED BY <2>1, <3>2
  <2>2. CASE pc \in {"scan", "event", "observe", "enter", "resolve"} /\ inst' = inst
    <3>1. ResolutionsStep
      BY <1>0, RecordsStep
    <3>2. CASE k \in KeysIn("resolutions")
      BY <1>0, <2>2, <3>2 DEF LoopInStep
    <3>3. CASE k \notin KeysIn("resolutions")
      <4>1. k = <<NextEnded, Asset>> /\ pc = "resolve" /\ pend # {}
        BY <1>2, <3>1, <3>3, ResolvedKeysStep
      <4>2. NextEnded < inst
        BY <1>0, <4>1, NextIsEnded
      <4> QED BY <2>2, <4>1, <4>2
    <3> QED BY <3>2, <3>3
  <2> QED BY <1>2, <2>1, <2>2, LoopStep
<1> QED BY <1>1, <1>2 DEF LoopInStep

\* Every step keeps: a resolution is of an ended, observed contract, with the
\* side it was entered on.
LEMMA ResolutionsTrueStep ==
  ASSUME IInv, CycleInv, ~merged => LoopInStep, ResolutionsTellTheTruth,
         [Next]_vars, ~merged'
  PROVE  ResolutionsTellTheTruth'
<1>0. TypeOK /\ Control /\ ~merged
  BY MergedStays DEF IInv
<1>1. ObservationsStep /\ EntriesGrow /\ ResolutionsStep
  BY <1>0, RecordsStep
<1>2. now \in Nat /\ now' \in Nat /\ now <= now'
  <2>1. now \in Nat
    BY <1>0, BoundAssumption DEF TypeOK, LocalsTyped, Windows
  <2>2. now' = now \/ now' = now + 1
    BY DEF Next, Step, Start, WriteRun, Stop, BeginCycle, NoData, ScanRaises,
         Classify, Observe, Enter, Resolve, ResolveFails, AssetDone, RecordEvent,
         Select, PersistSelection, Announce, RecordHealth, IOError, Crash,
         Interrupt, Tick, vars
  <2> QED BY <2>1, <2>2
<1>3. KeysIn("observations") \subseteq KeysIn("observations")'
  BY <1>1 DEF ObservationsStep
<1>4. ASSUME NEW r \in RowsOf(file["resolutions"])
      PROVE  /\ r.key[1] < now'
             /\ r.key \in KeysIn("observations")'
             /\ r.entry_side = EntrySide(r.key)'
  <2>1. /\ r.key[1] < now
        /\ r.key \in KeysIn("observations")
        /\ r.entry_side = EntrySide(r.key)
    BY <1>0 DEF ResolutionsTellTheTruth
  <2>2. r.key \in KeysIn("resolutions") /\ r.key \in Keys
    BY <1>0, <2>1, KeysInType DEF KeysIn
  <2>3. r.key[1] \in Nat
    BY <2>2, BoundAssumption DEF Keys, Windows
  <2>4. pc = "enter" => r.key # Key
    <3>1. pc = "enter" => r.key[1] < inst
      BY <1>0, <2>2 DEF LoopInStep
    <3>2. Key[1] = inst /\ ~(inst < inst)
      BY <1>0, BoundAssumption DEF Key, TypeOK, LocalsTyped, Windows
    <3> QED BY <3>1, <3>2
  <2>5. \A k \in Keys : k = r.key => EntrySide(k)' = EntrySide(k)
    BY <1>1, <2>4 DEF EntriesGrow
  <2> QED BY <1>2, <1>3, <2>1, <2>2, <2>3, <2>5
<1>5. ASSUME pc = "resolve", pend # {}, Resolvable(NextEnded)
      PROVE  /\ NextResolution.key[1] < now'
             /\ NextResolution.key \in KeysIn("observations")'
             /\ \A k \in Keys : k = NextResolution.key =>
                  NextResolution.entry_side = EntrySide(k)'
  <2>1. /\ NextResolution.key = <<NextEnded, Asset>>
        /\ NextResolution.entry_side = EntrySide(<<NextEnded, Asset>>)
    BY DEF NextResolution, ResolutionOf
  <2>2. NextEnded \in Nat /\ inst \in Nat /\ NextEnded < inst
    BY <1>0, <1>5, NextIsEnded
  <2>3. inst <= now
    BY DEF CycleInv
  <2>4. <<NextEnded, Asset>> \in KeysIn("observations")
    BY <1>5 DEF Resolvable
  <2>5. \A k \in Keys : EntrySide(k)' = EntrySide(k)
    BY <1>1, <1>5 DEF EntriesGrow
  <2> HIDE DEF NextResolution
  <2> QED BY <1>2, <1>3, <2>1, <2>2, <2>3, <2>4, <2>5
<1>6. ASSUME NEW r \in RowsOf(file'["resolutions"])
      PROVE  /\ r.key[1] < now'
             /\ r.key \in KeysIn("observations")'
             /\ r.entry_side = EntrySide(r.key)'
  <2>1. CASE r \in RowsOf(file["resolutions"])
    BY <1>4, <2>1
  <2>2. CASE r \notin RowsOf(file["resolutions"])
    <3>1. r = NextResolution /\ pc = "resolve" /\ pend # {} /\ Resolvable(NextEnded)
      BY <1>1, <1>6, <2>2 DEF ResolutionsStep
    <3>2. r.key \in Keys
      <4>1. <<NextEnded, Asset>> \in Keys
        BY <1>0, <3>1, NextIsEnded
      <4> QED BY <3>1, <4>1 DEF NextResolution, ResolutionOf
    <3> QED BY <1>5, <3>1, <3>2
  <2> QED BY <2>1, <2>2
<1> QED BY <1>6 DEF ResolutionsTellTheTruth

-----------------------------------------------------------------------------
(***************************************************************************)
(* The invariant.                                                          *)
(***************************************************************************)
\* An empty directory has nothing in it.
LEMMA NothingAtFirst ==
  ASSUME Init
  PROVE  /\ \A s \in Streams : file[s] = EmptyFile /\ RowsOf(file[s]) = {} /\ KeysIn(s) = {}
         /\ \A k : EntrySide(k) = NONE
         /\ \A w : SavedSelection(w) = NONE
<1>1. \A s \in Streams : file[s] = EmptyFile
  BY DEF Init
<1>2. \A s \in Streams : RowsOf(file[s]) = {} /\ KeysIn(s) = {}
  BY <1>1 DEF RowsOf, EmptyFile, KeysIn
<1>3. file["entries"].lines = <<>> /\ file["primary_selections"].lines = <<>>
  BY <1>1 DEF EmptyFile, Streams
<1>4. \A k : EntrySide(k) = NONE
  BY <1>3 DEF EntrySide
<1>5. \A w : SavedSelection(w) = NONE
  BY <1>3 DEF SavedSelection
<1> QED BY <1>1, <1>2, <1>4, <1>5

\* The invariant holds before the first start.
LEMMA InitLInv == Init => LInv
<1> SUFFICES ASSUME Init PROVE LInv
  OBVIOUS
<1>1. CycleInv /\ SelectionsAgree /\ LoopInStep /\ PublishedInStep
  <2>1. inst = 1 /\ now = 1 /\ pc = "down" /\ op = NoDisplay
    BY DEF Init
  <2>2. 1 <= 1 /\ ~NoDisplay.persisted
    BY DEF NoDisplay
  <2> QED BY <2>1, <2>2 DEF CycleInv, SelectionsAgree, LoopInStep, PublishedInStep
<1>2. MemoryAgreesWithDisk
  BY DEF Init, MemoryAgreesWithDisk
<1>3. ResolutionsTellTheTruth
  BY NothingAtFirst DEF ResolutionsTellTheTruth, Streams
<1>4. AnnouncedOncePerWindow
  <2>1. \A w \in Windows : announced[w] = <<>>
    BY DEF Init
  <2>2. Len(<<>>) <= 1
    OBVIOUS
  <2> QED BY <2>1, <2>2 DEF AnnouncedOncePerWindow
<1>5. PersistedDisplayIsOnDisk
  BY DEF Init, NoDisplay, PersistedDisplayIsOnDisk
<1> QED BY <1>1, <1>2, <1>3, <1>4, <1>5 DEF LInv

\* Every step keeps it.
LEMMA NextLInv == IInv /\ LInv /\ [Next]_vars => LInv'
<1> SUFFICES ASSUME IInv, LInv, [Next]_vars PROVE LInv'
  OBVIOUS
<1>1. CycleInv'
  BY CycleStep DEF LInv
<1>2. MemoryAgreesWithDisk'
  BY MemoryAgreesStep DEF LInv
<1>3. ResolutionsTellTheTruth'
  <2>1. CASE ~merged'
    BY <2>1, ResolutionsTrueStep DEF LInv
  <2> QED BY <2>1 DEF ResolutionsTellTheTruth
<1>4. AnnouncedOncePerWindow' /\ (~merged' => PublishedInStep')
  <2>1. CASE ~merged'
    BY <2>1, AnnouncedStep DEF LInv
  <2> QED BY <2>1 DEF AnnouncedOncePerWindow
<1>5. PersistedDisplayIsOnDisk'
  <2>1. CASE ~merged'
    BY <2>1, PersistedDisplayStep DEF LInv
  <2> QED BY <2>1 DEF PersistedDisplayIsOnDisk
<1>6. ~merged' => SelectionsAgree' /\ LoopInStep'
  BY SelectionsAgreeStep, LoopInStepStep DEF LInv
<1> QED BY <1>1, <1>2, <1>3, <1>4, <1>5, <1>6 DEF LInv

\* Both invariants hold of every behaviour of the scanner.
LEMMA LedgerInvariance == Spec => [](IInv /\ LInv)
<1>1. Init => LInv
  BY InitLInv
<1>2. IInv /\ LInv /\ [Next]_vars => LInv'
  BY NextLInv
<1>3. Spec => []IInv
  BY Invariance
<1> QED BY <1>1, <1>2, <1>3, PTL DEF Spec

-----------------------------------------------------------------------------
(***************************************************************************)
(* What follows.                                                           *)
(***************************************************************************)
\* While no append of the run raised, the indexes the scanner decides by are
\* what a restart would read back from the files (ForwardStore.append).
THEOREM MemoryAgrees == Spec => []MemoryAgreesWithDisk
<1>1. LInv => MemoryAgreesWithDisk
  BY DEF LInv
<1> QED BY <1>1, LedgerInvariance, PTL

\* A resolution is of a contract that was observed and whose window is over,
\* and its side is the one the contract was entered on (ForwardEngine.resolve).
THEOREM ResolutionsTrue == Spec => []ResolutionsTellTheTruth
<1>1. LInv => ResolutionsTellTheTruth
  BY DEF LInv
<1> QED BY <1>1, LedgerInvariance, PTL

\* A window's selection is announced at most once in all runs, and it is the
\* one on disk (main's selection block).
THEOREM AnnouncedOnce == Spec => []AnnouncedOncePerWindow
<1>1. LInv => AnnouncedOncePerWindow
  BY DEF LInv
<1> QED BY <1>1, LedgerInvariance, PTL

\* A selection shown as persisted is the one a restart restores.
THEOREM DisplayOnDisk == Spec => []PersistedDisplayIsOnDisk
<1>1. LInv => PersistedDisplayIsOnDisk
  BY DEF LInv
<1> QED BY <1>1, LedgerInvariance, PTL

\* Every entry on disk is of a contract whose observation is on disk too, over
\* crashes and restarts (ForwardEngine.process).
THEOREM EntriesObserved == Spec => []EntriesWereObserved
<1>1. Init => EntriesWereObserved
  BY NothingAtFirst DEF EntriesWereObserved, Streams
<1>2. IInv /\ LInv /\ EntriesWereObserved /\ [Next]_vars => EntriesWereObserved'
  <2> SUFFICES ASSUME IInv, LInv, EntriesWereObserved, [Next]_vars, ~merged'
               PROVE  KeysIn("entries")' \subseteq KeysIn("observations")'
    BY DEF EntriesWereObserved
  <2>1. ~merged
    BY MergedStays
  <2>2. ObservationsStep /\ EntriesGrow
    BY <2>1, RecordsStep DEF IInv
  <2>3. KeysIn("entries") \subseteq KeysIn("observations")
    BY <2>1 DEF EntriesWereObserved
  <2>4. KeysIn("observations") \subseteq KeysIn("observations")'
    BY <2>2 DEF ObservationsStep
  <2>5. pc = "enter" => Key \in KeysIn("observations")
    BY <2>1 DEF LInv, LoopInStep
  <2> QED BY <2>2, <2>3, <2>4, <2>5 DEF EntriesGrow
<1> QED BY <1>1, <1>2, LedgerInvariance, PTL DEF Spec

\* A selection on disk is never replaced, and no other one of its window is
\* shown as persisted (append, _primary_by_contract).
THEOREM SelectionStable == Spec => SelectionIsStable
<1> DEFINE Stable == \A w \in Windows :
             (SavedSelection(w) # NONE /\ ~merged' =>
               /\ SavedSelection(w)' = SavedSelection(w)
               /\ op'.win = w /\ op'.persisted => op'.asset = SavedSelection(w))
<1>1. IInv /\ LInv /\ LInv' /\ [Next]_vars => [Stable]_vars
  <2> SUFFICES ASSUME IInv, LInv, LInv', [Next]_vars,
                      NEW w \in Windows, SavedSelection(w) # NONE, ~merged'
               PROVE  /\ SavedSelection(w)' = SavedSelection(w)
                      /\ op'.win = w /\ op'.persisted => op'.asset = SavedSelection(w)
    OBVIOUS
  <2>1. CycleInv /\ SelectionsAgree
    BY MergedStays DEF LInv
  <2>2. SavedSelection(w)' = SavedSelection(w)
    BY <2>1, SavedStays
  <2>3. ASSUME op'.win = w, op'.persisted PROVE op'.asset = SavedSelection(w)
    <3>1. SavedSelection(op.win)' = op'.asset
      BY <2>3 DEF LInv, PersistedDisplayIsOnDisk
    <3>2. SavedSelection(w)' = SelectionIn(file'["primary_selections"].lines, w)
      BY DEF SavedSelection, SelectionIn
    <3>3. SavedSelection(op.win)'
            = SelectionIn(file'["primary_selections"].lines, op'.win)
      BY DEF SavedSelection, SelectionIn
    <3> QED BY <2>2, <2>3, <3>1, <3>2, <3>3
  <2> QED BY <2>2, <2>3
<1> QED BY <1>1, LedgerInvariance, PTL DEF Spec, SelectionIsStable

-----------------------------------------------------------------------------
(***************************************************************************)
(* One resolution per contract, torn tails or not.                         *)
(***************************************************************************)
\* While a run can still resolve, its index knows every resolution on disk.
ResolutionIndex == ~Stopped => KeysIn("resolutions") \subseteq resolved

\* The file of resolutions keeps its lines or gains the one in flight.
LEMMA ResolutionLines ==
  ASSUME IInv, [Next]_vars
  PROVE  \/ file'["resolutions"] = file["resolutions"]
         \/ /\ pc = "resolve" /\ pend # {}
            /\ AddsAtMost(file["resolutions"], file'["resolutions"], NextResolution)
<1>0. TypeOK /\ Control /\ FilesWhole
  BY DEF IInv
<1>1. CASE file' = file
  BY <1>1
<1>2. CASE file' # file
  <2>0. PICK x \in InFlight : \E g \in Interrupted(file[x[1]], x[2]) :
          file' = [file EXCEPT ![x[1]] = g]
    BY <1>2, NextWrites DEF WritesInFlight
  <2>1. PICK g \in Interrupted(file[x[1]], x[2]) :
          file' = [file EXCEPT ![x[1]] = g]
    BY <2>0
  <2>2. file = [t \in Streams |-> file[t]]
    BY <1>0 DEF TypeOK, FilesTyped
  <2>3. "resolutions" \in Streams
    BY DEF Streams
  <2>4. CASE x[1] # "resolutions"
    BY <2>1, <2>2, <2>3, <2>4
  <2>5. CASE x[1] = "resolutions"
    <3>1. file'["resolutions"] = g
      BY <2>1, <2>2, <2>3, <2>5
    <3>2. pc = "resolve" /\ pend # {} /\ x[2] = NextResolution
      BY <2>5 DEF InFlight, NextResolution
    <3>3. /\ file["resolutions"] \in File(RowType["resolutions"])
          /\ TornHasALine(file["resolutions"])
      BY <1>0, <2>3 DEF TypeOK, FilesTyped, FilesWhole
    <3>4. AddsAtMost(file["resolutions"], g, x[2])
      BY <2>1, <2>5, <3>3, InterruptedLines
    <3> QED BY <3>1, <3>2, <3>4
  <2> QED BY <2>4, <2>5
<1> QED BY <1>1, <1>2

\* The index of resolutions follows the file, or the run has stopped.
LEMMA ResolvedFollows ==
  ASSUME [Next]_vars, ~Start, ~Resolve
  PROVE  \/ resolved' = resolved /\ (pc # "resolve" \/ file' = file)
         \/ Stopped'
<1>1. CASE \/ WriteRun \/ BeginCycle \/ (\E st \in Statuses : NoData(st))
           \/ ScanRaises
           \/ (\E d \in Sides \cup {NONE}, act \in BOOLEAN : Classify(d, act))
           \/ Observe \/ Enter \/ ResolveFails \/ AssetDone
  BY <1>1 DEF WriteRun, BeginCycle, NoData, ScanRaises, Classify, Scanning,
              Observe, Enter, ResolveFails, AssetDone, index
<1>2. CASE RecordEvent \/ Select \/ PersistSelection \/ Announce \/ RecordHealth
  BY <1>2 DEF RecordEvent, Select, AllScanned, PersistSelection, Announce,
              RecordHealth, index
<1>3. CASE Stop \/ IOError \/ Crash \/ Interrupt
  BY <1>3 DEF Stop, IOError, Crash, Interrupt, Exit, Stopped
<1>4. CASE Tick \/ UNCHANGED vars
  BY <1>4 DEF Tick, vars, index
<1> QED BY <1>1, <1>2, <1>3, <1>4 DEF Next, Step

\* Every step keeps: at most one resolution per contract, and the index covers
\* the resolutions on disk until an append of the run raised.
LEMMA OneResolutionStep ==
  ASSUME IInv, CycleInv, OneResolutionPerContract, ResolutionIndex, [Next]_vars
  PROVE  OneResolutionPerContract' /\ ResolutionIndex'
<1> DEFINE f == file["resolutions"]
           row == NextResolution
           Adds == pc = "resolve" /\ pend # {} /\ AddsAtMost(f, f', row)
<1>0. TypeOK /\ Control
  BY DEF IInv
<1>1. f' = f \/ Adds
  BY ResolutionLines
<1>2. Adds => row.key = <<NextEnded, Asset>> /\ row.key \notin KeysIn("resolutions")
  <2>1. row.key = <<NextEnded, Asset>>
    BY DEF NextResolution, ResolutionOf
  <2>2. pc = "resolve" => ~Stopped
    BY <1>0 DEF Control, Stopped
  <2> QED BY <1>0, <2>1, <2>2, NextIsEnded DEF ResolutionIndex
<1>3. \A i \in DOMAIN f.lines : f.lines[i] # Bad => f.lines[i].key \in KeysIn("resolutions")
  BY DEF KeysIn, RowsOf
<1>4. OneResolutionPerContract'
  <2>1. CASE f' = f
    BY <2>1 DEF OneResolutionPerContract, AtMostOneRowPerKey
  <2>2. CASE Adds
    <3> SUFFICES ASSUME NEW i \in DOMAIN f'.lines, NEW j \in DOMAIN f'.lines,
                        i # j, f'.lines[i] # Bad, f'.lines[j] # Bad
                 PROVE  f'.lines[i].key # f'.lines[j].key
      BY DEF OneResolutionPerContract, AtMostOneRowPerKey
    <3> DEFINE Old(k) == k \in DOMAIN f.lines /\ f'.lines[k] = f.lines[k]
               New(k) == k = Len(f.lines) + 1 /\ f'.lines[k] = row
    <3>1. (Old(i) \/ New(i)) /\ (Old(j) \/ New(j))
      BY <2>2 DEF AddsAtMost
    <3> HIDE DEF row
    <3>2. CASE Old(i) /\ Old(j)
      BY <3>2 DEF OneResolutionPerContract, AtMostOneRowPerKey
    <3>3. CASE Old(i) /\ New(j)
      BY <3>3, <2>2, <1>2, <1>3
    <3>4. CASE New(i) /\ Old(j)
      BY <3>4, <2>2, <1>2, <1>3
    <3> QED BY <3>1, <3>2, <3>3, <3>4
  <2> QED BY <1>1, <2>1, <2>2
<1>5. ResolutionIndex'
  <2> SUFFICES ASSUME ~Stopped' PROVE KeysIn("resolutions")' \subseteq resolved'
    BY DEF ResolutionIndex
  <2>1. CASE Start
    BY <2>1 DEF Start, KeysIn
  <2>2. CASE ~Start
    <3>1. KeysIn("resolutions") \subseteq resolved
      BY <1>0, <2>2, StoppedStays DEF IInv, ResolutionIndex
    <3>2. CASE Resolve
      <4>1. KeysIn("resolutions")' \subseteq KeysIn("resolutions") \cup {<<NextEnded, Asset>>}
        <5> HIDE DEF row
        <5>1. \A i \in DOMAIN f'.lines : f'.lines[i] # Bad =>
                f'.lines[i].key \in KeysIn("resolutions") \cup {<<NextEnded, Asset>>}
          BY <1>1, <1>2, <1>3 DEF AddsAtMost
        <5> QED BY <5>1 DEF KeysIn, RowsOf
      <4> QED BY <3>1, <3>2, <4>1 DEF Resolve
    <3>3. CASE ~Resolve
      <4>1. resolved' = resolved /\ (pc # "resolve" \/ file' = file)
        BY <2>2, <3>3, ResolvedFollows
      <4>2. f' = f
        BY <1>1, <4>1
      <4> QED BY <3>1, <4>1, <4>2 DEF KeysIn
    <3> QED BY <3>2, <3>3
  <2> QED BY <2>1, <2>2
<1> QED BY <1>4, <1>5

\* An asset's contract is resolved at most once, whatever crashes, cut-off
\* writes and restarts come in between (has_resolution, unresolved_contracts).
THEOREM OneResolution == Spec => []OneResolutionPerContract
<1> DEFINE RInv == OneResolutionPerContract /\ ResolutionIndex
<1>1. Init => RInv
  <2> SUFFICES ASSUME Init PROVE RInv
    OBVIOUS
  <2>1. file["resolutions"].lines = <<>>
    BY NothingAtFirst DEF Streams, EmptyFile
  <2>2. KeysIn("resolutions") = {}
    BY NothingAtFirst DEF Streams
  <2> QED BY <2>1, <2>2
          DEF OneResolutionPerContract, AtMostOneRowPerKey, ResolutionIndex
<1>2. IInv /\ LInv /\ RInv /\ [Next]_vars => RInv'
  BY OneResolutionStep DEF LInv
<1>3. RInv => OneResolutionPerContract
  OBVIOUS
<1> QED BY <1>1, <1>2, <1>3, LedgerInvariance, PTL DEF Spec

-----------------------------------------------------------------------------
(***************************************************************************)
(* The scanner implements the ledger.                                      *)
(***************************************************************************)
\* The ledger's view of the records.
Seen == KeysIn("observations")
SideOf == [k \in Keys |-> EntrySide(k)]
Settled == KeysIn("resolutions")
Chosen == [w \in Windows |-> SavedSelection(w)]
Published == [w \in Windows |-> Len(announced[w])]

\* Of the ledger, nothing moves but what the place in the program allows.
LEMMA LedgerParts ==
  ASSUME TypeOK, Control, [Next]_vars, ~merged'
  PROVE  /\ Seen' = Seen \/ (pc = "observe" /\ Seen' = Seen \cup {Key})
         /\ \/ SideOf' = SideOf
            \/ /\ pc = "enter" /\ EntrySide(Key) = NONE
               /\ SideOf' = [SideOf EXCEPT ![Key] = cur.side]
         /\ \/ Settled' = Settled
            \/ /\ pc = "resolve" /\ pend # {} /\ Resolvable(NextEnded)
               /\ Settled' = Settled \cup {<<NextEnded, Asset>>}
         /\ \/ Chosen' = Chosen
            \/ pc = "persist" /\ Chosen' = [Chosen EXCEPT ![inst] = pick]
<1>1. ObservationsStep /\ EntriesGrow /\ ResolutionsStep /\ SelectionsStep
  BY RecordsStep
<1>2. Seen' = Seen \/ (pc = "observe" /\ Seen' = Seen \cup {Key})
  BY <1>1 DEF ObservationsStep, Seen
<1>3. \/ SideOf' = SideOf
      \/ /\ pc = "enter" /\ EntrySide(Key) = NONE
         /\ SideOf' = [SideOf EXCEPT ![Key] = cur.side]
  <2>1. SideOf' = [k \in Keys |-> EntrySide(k)']
    BY DEF SideOf
  <2>2. CASE \A k \in Keys : EntrySide(k)' = EntrySide(k)
    BY <2>1, <2>2 DEF SideOf
  <2>3. CASE /\ pc = "enter"
             /\ \A k \in Keys :
                  EntrySide(k)' = IF k = Key /\ k \notin KeysIn("entries")
                                  THEN cur.side ELSE EntrySide(k)
    <3>1. CASE Key \in KeysIn("entries")
      BY <2>1, <2>3, <3>1 DEF SideOf
    <3>2. CASE Key \notin KeysIn("entries")
      <4>1. \A k \in Keys : EntrySide(k)' = IF k = Key THEN cur.side ELSE EntrySide(k)
        BY <2>3, <3>2
      <4>2. SideOf' = [SideOf EXCEPT ![Key] = cur.side]
        BY <2>1, <4>1 DEF SideOf
      <4> QED BY <2>3, <3>2, <4>2, EnteredHasASide
    <3> QED BY <3>1, <3>2
  <2> QED BY <1>1, <2>2, <2>3 DEF EntriesGrow
<1>4. \/ Settled' = Settled
      \/ /\ pc = "resolve" /\ pend # {} /\ Resolvable(NextEnded)
         /\ Settled' = Settled \cup {<<NextEnded, Asset>>}
  BY <1>1, ResolvedKeysStep DEF Settled
<1>5. \/ Chosen' = Chosen
      \/ pc = "persist" /\ Chosen' = [Chosen EXCEPT ![inst] = pick]
  <2>1. Chosen' = [w \in Windows |-> SavedSelection(w)']
    BY DEF Chosen
  <2>2. CASE \A w \in Windows : SavedSelection(w)' = SavedSelection(w)
    BY <2>1, <2>2 DEF Chosen
  <2>3. CASE /\ pc = "persist"
             /\ \A w \in Windows :
                  SavedSelection(w)' = IF w = inst THEN pick ELSE SavedSelection(w)
    BY <2>1, <2>3 DEF Chosen
  <2> QED BY <1>1, <2>2, <2>3 DEF SelectionsStep
<1> QED BY <1>2, <1>3, <1>4, <1>5

\* Nothing of it moves with the files as they were.
LEMMA LedgerSame ==
  ASSUME file' = file
  PROVE  UNCHANGED <<Seen, SideOf, Settled, Chosen>>
<1>1. Seen' = Seen /\ Settled' = Settled
  BY SameFile DEF Seen, Settled, Streams
<1>2. SideOf' = [k \in Keys |-> EntrySide(k)'] /\ Chosen' = [w \in Windows |-> SavedSelection(w)']
  BY DEF SideOf, Chosen
<1>3. (\A k : EntrySide(k)' = EntrySide(k)) /\ (\A w : SavedSelection(w)' = SavedSelection(w))
  BY SameFile
<1> QED BY <1>1, <1>2, <1>3 DEF SideOf, Chosen

\* The clock and the announcements move in steps of their own.
LEMMA ClockParts ==
  ASSUME [Next]_vars
  PROVE  \/ Tick /\ UNCHANGED <<file, announced>>
         \/ Announce /\ UNCHANGED <<file, now>>
         \/ UNCHANGED <<now, announced>>
BY DEF Next, Step, Start, WriteRun, Stop, BeginCycle, NoData, ScanRaises,
       Classify, Observe, Enter, Resolve, ResolveFails, AssetDone, RecordEvent,
       Select, PersistSelection, Announce, RecordHealth, IOError, Crash,
       Interrupt, Tick, vars, history

\* Before the first start the ledger is empty.
LEMMA InitLedger == Init => Ledger!Init
<1> SUFFICES ASSUME Init PROVE Ledger!Init
  OBVIOUS
<1>1. Seen = {} /\ Settled = {}
  BY NothingAtFirst DEF Seen, Settled, Streams
<1>2. SideOf = [k \in Windows \X Assets |-> NONE]
  BY NothingAtFirst DEF SideOf, Keys
<1>3. Chosen = [w \in Windows |-> NONE]
  BY NothingAtFirst DEF Chosen
<1>4. Published = [w \in Windows |-> 0]
  <2>1. Len(<<>>) = 0
    OBVIOUS
  <2>2. \A w \in Windows : announced[w] = <<>>
    BY DEF Init
  <2> QED BY <2>1, <2>2 DEF Published
<1>5. now = 1 /\ (~merged) = TRUE
  BY DEF Init
<1> QED BY <1>1, <1>2, <1>3, <1>4, <1>5
        DEF Ledger!Init, Seen, Settled, SideOf, Chosen, Published

\* Every step of the scanner is a step of the ledger or none.
LEMMA NextLedger ==
  ASSUME IInv, IInv', LInv, [Next]_vars
  PROVE  [Ledger!Next]_(Ledger!lvars)
<1>0. TypeOK /\ Control /\ CycleInv
  BY DEF IInv, LInv
<1>1. CASE merged'
  BY <1>1 DEF Ledger!Next
<1>2. CASE ~merged'
  <2>1. ~merged /\ LoopInStep /\ SelectionsAgree /\ PublishedInStep
    BY <1>2, MergedStays DEF LInv
  <2>2. inst \in Windows /\ inst \in Nat /\ now \in Nat /\ inst <= now
    BY <1>0, BoundAssumption DEF TypeOK, LocalsTyped, CycleInv, Windows
  <2>3. SUFFICES Ledger!LedgerStep \/ UNCHANGED Ledger!lvars
    BY <1>2, <2>1 DEF Ledger!Next
  <2>4. /\ Ledger!Advance <=>
             now' = now + 1 /\ UNCHANGED <<Seen, SideOf, Settled, Chosen, Published>>
        /\ \A k : Ledger!Observe(k) <=>
             /\ k[1] <= now /\ Seen' = Seen \cup {k}
             /\ UNCHANGED <<now, SideOf, Settled, Chosen, Published>>
        /\ \A k, s : Ledger!Enter(k, s) <=>
             /\ k \in Seen \ Settled /\ SideOf[k] = NONE
             /\ SideOf' = [SideOf EXCEPT ![k] = s]
             /\ UNCHANGED <<now, Seen, Settled, Chosen, Published>>
        /\ \A k : Ledger!Settle(k) <=>
             /\ k \in Seen \ Settled /\ k[1] < now
             /\ Settled' = Settled \cup {k}
             /\ UNCHANGED <<now, Seen, SideOf, Chosen, Published>>
        /\ \A w, a : Ledger!Choose(w, a) <=>
             /\ Chosen[w] = NONE /\ Chosen' = [Chosen EXCEPT ![w] = a]
             /\ UNCHANGED <<now, Seen, SideOf, Settled, Published>>
        /\ \A w : Ledger!Publish(w) <=>
             /\ Chosen[w] # NONE /\ Published[w] = 0
             /\ Published' = [Published EXCEPT ![w] = 1]
             /\ UNCHANGED <<now, Seen, SideOf, Settled, Chosen>>
    BY DEF Ledger!Advance, Ledger!Observe, Ledger!Enter, Ledger!Settle,
           Ledger!Choose, Ledger!Publish, Seen, SideOf, Settled, Chosen, Published
  <2>5. CASE Tick /\ UNCHANGED <<file, announced>>
    <3>1. now' = now + 1
      BY <2>5 DEF Tick
    <3>2. UNCHANGED <<Seen, SideOf, Settled, Chosen>>
      BY <2>5, LedgerSame
    <3>3. Published' = Published
      BY <2>5 DEF Published
    <3> QED BY <2>4, <3>1, <3>2, <3>3 DEF Ledger!LedgerStep
  <2>6. CASE Announce /\ UNCHANGED <<file, now>>
    <3>1. UNCHANGED <<Seen, SideOf, Settled, Chosen>>
      BY <2>6, LedgerSame
    <3>2. /\ announced' = [announced EXCEPT ![inst] = Append(@, pick)]
          /\ announced[inst] = <<>> /\ primary[inst] = pick /\ pick \in Assets
      BY <1>0, <2>1, <2>6 DEF Announce, PublishedInStep, CycleInv, Control
    <3>3. Chosen[inst] # NONE
      BY <2>1, <2>2, <2>6, <3>2, NoneAssumption DEF Announce, SelectionsAgree, Chosen
    <3>4. Published[inst] = 0 /\ Published' = [Published EXCEPT ![inst] = 1]
      <4>1. Len(<<>>) = 0 /\ Len(Append(<<>>, pick)) = 1
        OBVIOUS
      <4>2. announced'[inst] = Append(<<>>, pick)
            /\ \A w \in Windows \ {inst} : announced'[w] = announced[w]
        BY <1>0, <2>2, <3>2 DEF TypeOK, HistoryTyped
      <4>3. Published' = [w \in Windows |-> Len(announced'[w])]
        BY DEF Published
      <4>4. Len(announced'[inst]) = 1 /\ Len(announced[inst]) = 0
        BY <3>2, <4>1, <4>2
      <4>5. \A w \in Windows : Len(announced'[w]) = IF w = inst THEN 1 ELSE Len(announced[w])
        BY <4>2, <4>4
      <4>6. Published' = [Published EXCEPT ![inst] = 1]
        BY <4>3, <4>5 DEF Published
      <4> QED BY <2>2, <4>4, <4>6 DEF Published
    <3> QED BY <2>2, <2>4, <2>6, <3>1, <3>3, <3>4 DEF Ledger!LedgerStep
  <2>7. CASE UNCHANGED <<now, announced>>
    <3>0. Published' = Published
      BY <2>7 DEF Published
    <3>1. /\ Seen' = Seen \/ (pc = "observe" /\ Seen' = Seen \cup {Key})
          /\ \/ SideOf' = SideOf
             \/ /\ pc = "enter" /\ EntrySide(Key) = NONE
                /\ SideOf' = [SideOf EXCEPT ![Key] = cur.side]
          /\ \/ Settled' = Settled
             \/ /\ pc = "resolve" /\ pend # {} /\ Resolvable(NextEnded)
                /\ Settled' = Settled \cup {<<NextEnded, Asset>>}
          /\ \/ Chosen' = Chosen
             \/ pc = "persist" /\ Chosen' = [Chosen EXCEPT ![inst] = pick]
      BY <1>0, <1>2, LedgerParts
    <3>2. CASE pc = "observe" /\ Seen' = Seen \cup {Key}
      <4>1. Key \in Windows \X Assets /\ Key[1] <= now
        BY <1>0, <2>2, <3>2, AssetType DEF Control, Keys, Key
      <4>2. UNCHANGED <<SideOf, Settled, Chosen>>
        BY <3>1, <3>2
      <4> QED BY <2>4, <2>7, <3>0, <3>2, <4>1, <4>2 DEF Ledger!LedgerStep
    <3>3. CASE /\ pc = "enter" /\ EntrySide(Key) = NONE
               /\ SideOf' = [SideOf EXCEPT ![Key] = cur.side]
      <4>1. Key \in Windows \X Assets /\ cur.side \in Sides
        BY <1>0, <3>3, AssetType DEF Control, Keys
      <4>2. UNCHANGED <<Seen, Settled, Chosen>>
        BY <3>1, <3>3
      <4>3. Key \in Seen \ Settled
        <5>1. Key[1] = inst /\ ~(inst < inst)
          BY <2>2 DEF Key
        <5> QED BY <2>1, <3>3, <5>1 DEF LoopInStep, Seen, Settled
      <4>4. SideOf[Key] = NONE
        BY <3>3, <4>1 DEF SideOf, Keys
      <4>5. Ledger!Enter(Key, cur.side)
        BY <2>4, <2>7, <3>0, <3>3, <4>2, <4>3, <4>4
      <4> QED BY <4>1, <4>5 DEF Ledger!LedgerStep
    <3>4. CASE /\ pc = "resolve" /\ pend # {} /\ Resolvable(NextEnded)
               /\ Settled' = Settled \cup {<<NextEnded, Asset>>}
      <4> DEFINE k == <<NextEnded, Asset>>
      <4>1. /\ NextEnded \in Nat /\ NextEnded < inst /\ k \in Windows \X Assets
            /\ k \notin resolved
        BY <1>0, <3>4, NextIsEnded DEF Keys
      <4>2. UNCHANGED <<Seen, SideOf, Chosen>>
        BY <3>1, <3>4
      <4>3. resolved = Settled
        BY <2>1, <3>4, LoopIsClean DEF LInv, MemoryAgreesWithDisk, Settled
      <4>4. k \in Seen
        BY <3>4 DEF Resolvable, Seen
      <4>5. k[1] < now
        BY <2>2, <4>1
      <4>6. Ledger!Settle(k)
        BY <2>4, <2>7, <3>0, <3>4, <4>1, <4>2, <4>3, <4>4, <4>5
      <4> QED BY <4>1, <4>6 DEF Ledger!LedgerStep
    <3>5. CASE pc = "persist" /\ Chosen' = [Chosen EXCEPT ![inst] = pick]
      <4>1. pick \in Assets /\ primary[inst] = NONE
        BY <1>0, <3>5 DEF Control, CycleInv
      <4>2. UNCHANGED <<Seen, SideOf, Settled>>
        BY <3>1, <3>5
      <4>3. Chosen[inst] = NONE
        BY <2>1, <2>2, <3>5, <4>1 DEF SelectionsAgree, Chosen
      <4>4. Ledger!Choose(inst, pick)
        BY <2>4, <2>7, <3>0, <3>5, <4>2, <4>3
      <4> QED BY <2>2, <4>1, <4>4 DEF Ledger!LedgerStep
    <3>6. CASE UNCHANGED <<Seen, SideOf, Settled, Chosen>>
      <4>1. merged' = merged
        BY <1>2, <2>1, <1>0 DEF IInv, TypeOK, HistoryTyped
      <4> QED BY <2>7, <3>0, <3>6, <4>1
              DEF Ledger!lvars, Seen, SideOf, Settled, Chosen, Published
    <3> QED BY <3>1, <3>2, <3>3, <3>4, <3>5, <3>6
  <2> QED BY <2>5, <2>6, <2>7, ClockParts
<1> QED BY <1>1, <1>2

\* The forward records are a ledger: a contract is observed, entered and
\* settled in that order and at most once, a window's selection is chosen once
\* and published at most once after that, and nothing is ever revised,
\* whatever crashes, errors, interrupts and restarts come in between, until a
\* write lands on a torn tail.
THEOREM ScannerKeepsTheLedger == Spec => LedgerSpec
<1>1. Init => Ledger!Init
  BY InitLedger
<1>2. IInv /\ IInv' /\ LInv /\ [Next]_vars => [Ledger!Next]_(Ledger!lvars)
  BY NextLedger
<1> QED BY <1>1, <1>2, LedgerInvariance, PTL DEF Spec, LedgerSpec, Ledger!Spec

=============================================================================
