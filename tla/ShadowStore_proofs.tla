--------------------------- MODULE ShadowStore_proofs ---------------------------
(***************************************************************************)
(* Proofs about MCShadowStore, for every set of assets, every limit of the *)
(* memory and every bound: what the candidates of the collector can be     *)
(* joined to, what the audit of its files finds, and what the studies of   *)
(* settled contracts may learn from.                                       *)
(***************************************************************************)
EXTENDS MCShadowStore, JsonlLog_proofs, FiniteSetTheorems

-----------------------------------------------------------------------------
\* The collector.

ObservationFile == file["observations"]
CandidateFile   == file["shadow_candidates"]

\* A file of the collector has the shape that its appends give it.
Wellformed(f) == f \in File(Points) /\ TornHasALine(f)

StoreTypeOK ==
  /\ DOMAIN file = Streams /\ file = [s \in DOMAIN file |-> file[s]]
  /\ DOMAIN ids = Streams /\ ids = [s \in DOMAIN ids |-> ids[s]]
  /\ Wellformed(ObservationFile) /\ Wellformed(CandidateFile)
  /\ now \in Times /\ inst \in Times /\ at \in Nat \ {0}

\* An observation that would be refused is on disk.
KnownIsOnDisk == ~merged => ids["observations"] \subseteq RowsOf(ObservationFile)

\* A scan that is about to write a candidate has its observation on disk.
ObservedFirst == ~merged /\ pc = "candidate" => Here \in RowsOf(ObservationFile)

CollectorInv ==
  /\ StoreTypeOK /\ KnownIsOnDisk /\ ObservedFirst /\ CandidatesHaveObservations

collectorVars == <<file, ids, now, pc, inst, at, merged>>

\* The points that a scan writes are those of its instant and of an asset.
LEMMA HereIsAPoint ==
  ASSUME StoreTypeOK, at <= Len(AssetSeq)
  PROVE  Here \in Points /\ Here # Bad
<1>1. AssetSeq \in Seq(Assets) /\ at \in 1 .. Len(AssetSeq)
  BY AssetsInOrder DEF StoreTypeOK
<1>2. AssetSeq[at] \in Assets
  BY <1>1
<1>3. inst \in Times
  BY DEF StoreTypeOK
<1>4. Here \in Points
  BY <1>2, <1>3 DEF Here, Points
<1> QED BY <1>4, BadIsNoPoint

\* Whatever the limit, what is read again from a file is in it.
LEMMA NewestAreRows == ASSUME NEW f PROVE Newest(f.lines) \subseteq RowsOf(f)
BY DEF Newest, RowsOf, Parsed

\* An append that completes: the file has the row as well, if it was new, and
\* what is known of the file is in it.
LEMMA StoredRows ==
  ASSUME StoreTypeOK, NEW s \in Streams, NEW row \in Points, row # Bad,
         Wellformed(file[s]), Stored(s, row), Merges(s)
  PROVE  /\ \A t \in Streams \ {s} : file'[t] = file[t] /\ ids'[t] = ids[t]
         /\ DOMAIN file' = Streams /\ file' = [t \in DOMAIN file' |-> file'[t]]
         /\ DOMAIN ids' = Streams /\ ids' = [t \in DOMAIN ids' |-> ids'[t]]
         /\ Wellformed(file'[s])
         /\ ~merged' => /\ ~merged
                        /\ \/ row \in ids[s] /\ file' = file /\ ids' = ids
                           \/ /\ RowsOf(file'[s]) = RowsOf(file[s]) \cup {row}
                              /\ \/ ids'[s] = ids[s] \cup {row}
                                 \/ ids'[s] \subseteq RowsOf(file'[s])
<1>1. CASE row \in ids[s]
  BY <1>1 DEF Stored, Merges, store, StoreTypeOK
<1>2. CASE row \notin ids[s]
  <2> DEFINE f == Written(file[s], row, TRUE)
             known == ids[s] \cup {row}
             newest == IF Reloads(s, known) /\ ~Malformed(f) THEN Newest(f.lines) ELSE known
  <2>1. file' = [file EXCEPT ![s] = f] /\ ids' = [ids EXCEPT ![s] = newest]
    BY <1>2 DEF Stored
  <2>2. file'[s] = f /\ ids'[s] = newest
    BY <2>1 DEF StoreTypeOK
  <2>3. Wellformed(f)
    BY WrittenType DEF Wellformed
  <2>4. ASSUME ~merged' PROVE ~merged /\ ~file[s].torn
    <3>1. f.torn = FALSE
      BY DEF Written
    <3> QED BY <2>4, <2>2, <3>1 DEF Merges
  <2>5. ASSUME ~merged' PROVE RowsOf(f) = RowsOf(file[s]) \cup {row}
    <3>1. file[s] \in File(Points) /\ ~file[s].torn
      BY <2>4, <2>5 DEF Wellformed
    <3>2. RowsOf(f) = RowsOf(file[s]) \cup ({row} \ {Bad})
      BY <3>1, WrittenRows
    <3> QED BY <3>2
  <2>6. newest = known \/ newest \subseteq RowsOf(f)
    BY NewestAreRows
  <2> HIDE DEF f, known, newest
  <2>7. \A t \in Streams \ {s} : file'[t] = file[t] /\ ids'[t] = ids[t]
    BY <2>1 DEF StoreTypeOK
  <2>8. /\ DOMAIN file' = Streams /\ file' = [t \in DOMAIN file' |-> file'[t]]
        /\ DOMAIN ids' = Streams /\ ids' = [t \in DOMAIN ids' |-> ids'[t]]
    BY <2>1 DEF StoreTypeOK
  <2> QED BY <2>2, <2>3, <2>4, <2>5, <2>6, <2>7, <2>8 DEF known
<1> QED BY <1>1, <1>2

\* An append that breaks off: an unmerged file loses no row, and gains at most
\* the one being written.
LEMMA CutShortRows ==
  ASSUME StoreTypeOK, NEW s \in Streams, NEW row \in Points,
         Wellformed(file[s]), CutShort(s, row)
  PROVE  /\ \A t \in Streams \ {s} : file'[t] = file[t]
         /\ DOMAIN file' = Streams /\ file' = [t \in DOMAIN file' |-> file'[t]]
         /\ Wellformed(file'[s])
         /\ ~merged' => /\ ~merged
                        /\ RowsOf(file[s]) \subseteq RowsOf(file'[s])
                        /\ RowsOf(file'[s]) \subseteq RowsOf(file[s]) \cup {row}
<1>1. PICK f \in Interrupted(file[s], row) : file' = [file EXCEPT ![s] = f]
  BY DEF CutShort
<1>2. file'[s] = f
  BY <1>1 DEF StoreTypeOK
<1>3. Wellformed(f)
  BY InterruptedType DEF Wellformed
<1>4. ASSUME ~merged' PROVE ~merged /\ (~file[s].torn \/ f = file[s])
  BY <1>4, <1>2 DEF CutShort, Merges
<1>5. ~file[s].torn => /\ RowsOf(file[s]) \subseteq RowsOf(f)
                       /\ RowsOf(f) \subseteq RowsOf(file[s]) \cup {row}
  BY InterruptedRows DEF Wellformed
<1>6. /\ \A t \in Streams \ {s} : file'[t] = file[t]
      /\ DOMAIN file' = Streams /\ file' = [t \in DOMAIN file' |-> file'[t]]
  BY <1>1 DEF StoreTypeOK
<1> QED BY <1>2, <1>3, <1>4, <1>5, <1>6

\* A step that leaves the files of observations and candidates alone, the place
\* of the scan as well, and does not come to a candidate.
LEMMA QuietStep ==
  ASSUME CollectorInv,
         DOMAIN file' = Streams, file' = [s \in DOMAIN file' |-> file'[s]],
         DOMAIN ids' = Streams, ids' = [s \in DOMAIN ids' |-> ids'[s]],
         file'["observations"] = file["observations"],
         file'["shadow_candidates"] = file["shadow_candidates"],
         ~merged' => ids'["observations"] \subseteq RowsOf(file["observations"]),
         pc' # "candidate", merged => merged',
         now' \in Times, inst' \in Times, at' \in Nat \ {0}
  PROVE  CollectorInv'
BY DEF CollectorInv, StoreTypeOK, KnownIsOnDisk, ObservedFirst, ObservationFile,
   CandidateFile, CandidatesHaveObservations

\* Restarts, scans and the clock.
LEMMA LoopKeeps ==
  ASSUME CollectorInv,
         \/ Open \/ Scan \/ NoResult \/ ResolveDone \/ NoData \/ EndScan \/ Leave
  PROVE  CollectorInv'
<1> USE DEF CollectorInv, StoreTypeOK, store, history
<1>1. CASE Open
  <2>1. ids'["observations"] = Newest(file["observations"].lines)
    BY <1>1 DEF Open, Streams
  <2>2. ids'["observations"] \subseteq RowsOf(file["observations"])
    BY <2>1, NewestAreRows
  <2>3. DOMAIN ids' = Streams /\ ids' = [s \in DOMAIN ids' |-> ids'[s]]
    BY <1>1 DEF Open
  <2> QED BY <1>1, <2>2, <2>3, QuietStep DEF Open
<1>2. CASE Leave
  <2>1. DOMAIN ids' = Streams /\ ids' = [s \in DOMAIN ids' |-> ids'[s]]
    BY <1>2 DEF Leave, Exit
  <2>2. ids'["observations"] = {}
    BY <1>2 DEF Leave, Exit, Streams
  <2>3. /\ file' = file /\ now' = now /\ inst' = inst /\ merged' = merged
        /\ at' = 1 /\ pc' = "down"
    BY <1>2 DEF Leave, Exit
  <2> QED BY <2>1, <2>2, <2>3, QuietStep
<1>3. CASE Scan
  BY <1>3, QuietStep DEF Scan, KnownIsOnDisk, ObservationFile
<1>4. CASE NoResult \/ ResolveDone \/ NoData \/ EndScan
  BY <1>4, QuietStep DEF NoResult, ResolveDone, NoData, NextAsset, EndScan,
     KnownIsOnDisk, ObservationFile
<1> QED BY <1>1, <1>2, <1>3, <1>4

\* The clock moves on, and nothing else.
LEMMA TickKeeps == ASSUME CollectorInv, Tick PROVE CollectorInv'
<1>1. now' \in Times
  <2>1. MaxTime \in Nat
    BY BoundAssumption
  <2> QED BY <2>1 DEF CollectorInv, StoreTypeOK, Tick, Times
<1> QED BY <1>1 DEF Tick, store, history, CollectorInv, StoreTypeOK, KnownIsOnDisk,
           ObservedFirst, ObservationFile, CandidateFile, CandidatesHaveObservations, Here

\* A resolution goes to another file.
LEMMA ResolutionKeeps ==
  ASSUME CollectorInv,
         \/ Resolve \/ ResolveFails
         \/ pc = "resolve" /\ due # {} /\ Died("resolutions", DueContract)
  PROVE  CollectorInv'
<1> USE DEF CollectorInv, StoreTypeOK
<1>1. /\ DOMAIN file' = Streams /\ file' = [s \in DOMAIN file' |-> file'[s]]
      /\ file'["observations"] = file["observations"]
      /\ file'["shadow_candidates"] = file["shadow_candidates"]
  <2>1. CASE Resolve
    BY <2>1 DEF Resolve, Stored, store, Streams
  <2>2. CASE \E row : CutShort("resolutions", row)
    BY <2>2 DEF CutShort, Streams
  <2> QED BY <2>1, <2>2 DEF ResolveFails, Swallowed, Died
<1>2. merged => merged'
  BY DEF Resolve, ResolveFails, Swallowed, Died, CutShort, Merges
<1>3. CASE Resolve
  <2>1. /\ DOMAIN ids' = Streams /\ ids' = [s \in DOMAIN ids' |-> ids'[s]]
        /\ ids'["observations"] = ids["observations"]
    BY <1>3 DEF Resolve, Stored, store, Streams
  <2> QED BY <1>1, <1>2, <1>3, <2>1, QuietStep DEF Resolve, KnownIsOnDisk, ObservationFile
<1>4. CASE ResolveFails
  BY <1>1, <1>2, <1>4, QuietStep
     DEF ResolveFails, Swallowed, CutShort, KnownIsOnDisk, ObservationFile
<1>5. CASE Died("resolutions", DueContract)
  <2>1. /\ DOMAIN ids' = Streams /\ ids' = [s \in DOMAIN ids' |-> ids'[s]]
        /\ ids'["observations"] = {}
    BY <1>5 DEF Died, Exit, Streams
  <2> QED BY <1>1, <1>2, <1>5, <2>1, QuietStep DEF Died, Exit, CutShort
<1> QED BY <1>3, <1>4, <1>5

\* The observation of an asset, whole or not.
LEMMA ObserveKeeps ==
  ASSUME CollectorInv, Scanning("observe"),
         \/ Observe
         \/ Swallowed("observations", Here) /\ NextAsset
         \/ Died("observations", Here)
  PROVE  CollectorInv'
<1>1. Here \in Points /\ Here # Bad
  BY HereIsAPoint DEF CollectorInv, Scanning
<1>2. StoreTypeOK /\ Wellformed(file["observations"]) /\ "observations" \in Streams
  BY DEF CollectorInv, StoreTypeOK, ObservationFile, Streams
<1>3. CASE Observe
  <2>1. Stored("observations", Here) /\ Merges("observations")
    BY <1>3 DEF Observe
  <2>2. /\ file'["shadow_candidates"] = file["shadow_candidates"]
        /\ DOMAIN file' = Streams /\ file' = [t \in DOMAIN file' |-> file'[t]]
        /\ DOMAIN ids' = Streams /\ ids' = [t \in DOMAIN ids' |-> ids'[t]]
        /\ Wellformed(file'["observations"])
    BY <1>1, <1>2, <2>1, StoredRows DEF Streams
  <2>3. ~merged' =>
          /\ ~merged
          /\ \/ /\ Here \in ids["observations"] /\ file' = file /\ ids' = ids
             \/ /\ RowsOf(file'["observations"]) = RowsOf(file["observations"]) \cup {Here}
                /\ \/ ids'["observations"] = ids["observations"] \cup {Here}
                   \/ ids'["observations"] \subseteq RowsOf(file'["observations"])
    BY <1>1, <1>2, <2>1, StoredRows
  <2>4. /\ now' = now /\ inst' = inst /\ at' \in Nat \ {0}
        /\ pc' = "candidate" => Here' = Here
    BY <1>3 DEF Observe, NextAsset, CollectorInv, StoreTypeOK, Here
  <2>5. ~merged' => /\ Here \in RowsOf(file'["observations"])
                    /\ ids'["observations"] \subseteq RowsOf(file'["observations"])
                    /\ RowsOf(file["observations"]) \subseteq RowsOf(file'["observations"])
    BY <2>3 DEF CollectorInv, KnownIsOnDisk, ObservationFile
  <2>6. StoreTypeOK'
    BY <1>2, <2>2, <2>4 DEF StoreTypeOK, ObservationFile, CandidateFile
  <2>7. (KnownIsOnDisk /\ ObservedFirst)'
    BY <2>4, <2>5 DEF KnownIsOnDisk, ObservedFirst, ObservationFile
  <2>8. CandidatesHaveObservations'
    BY <2>2, <2>3, <2>5 DEF CollectorInv, CandidatesHaveObservations
  <2> QED BY <2>6, <2>7, <2>8 DEF CollectorInv
<1>4. CASE ~Observe
  <2>1. CutShort("observations", Here)
    BY <1>4 DEF Swallowed, Died
  <2>2. /\ file'["shadow_candidates"] = file["shadow_candidates"]
        /\ DOMAIN file' = Streams /\ file' = [t \in DOMAIN file' |-> file'[t]]
        /\ Wellformed(file'["observations"])
        /\ ~merged' => ~merged /\ RowsOf(file["observations"]) \subseteq
                                    RowsOf(file'["observations"])
    BY <1>1, <1>2, <2>1, CutShortRows DEF Streams
  <2>3. /\ now' = now /\ inst' = inst /\ at' \in Nat \ {0} /\ pc' # "candidate"
        /\ DOMAIN ids' = Streams /\ ids' = [t \in DOMAIN ids' |-> ids'[t]]
        /\ ids'["observations"] \subseteq ids["observations"]
    <3>1. CASE Swallowed("observations", Here) /\ NextAsset
      BY <2>1, <3>1 DEF Swallowed, NextAsset, CutShort, CollectorInv, StoreTypeOK
    <3>2. CASE Died("observations", Here)
      BY <2>1, <3>2 DEF Died, Exit, CutShort, CollectorInv, StoreTypeOK, Streams
    <3> QED BY <1>4, <3>1, <3>2
  <2>4. StoreTypeOK'
    BY <1>2, <2>2, <2>3 DEF StoreTypeOK, ObservationFile, CandidateFile
  <2>5. (KnownIsOnDisk /\ ObservedFirst)'
    BY <2>2, <2>3 DEF CollectorInv, KnownIsOnDisk, ObservedFirst, ObservationFile
  <2>6. CandidatesHaveObservations'
    BY <2>2 DEF CollectorInv, CandidatesHaveObservations
  <2> QED BY <2>4, <2>5, <2>6 DEF CollectorInv
<1> QED BY <1>3, <1>4

\* The candidate of an asset, whole or not, is that of an observation on disk.
LEMMA CandidateKeeps ==
  ASSUME CollectorInv, Scanning("candidate"),
         \/ Candidate
         \/ Swallowed("shadow_candidates", Here) /\ NextAsset
         \/ Died("shadow_candidates", Here)
  PROVE  CollectorInv'
<1>1. Here \in Points /\ Here # Bad
  BY HereIsAPoint DEF CollectorInv, Scanning
<1>2. /\ StoreTypeOK /\ Wellformed(file["shadow_candidates"])
      /\ "shadow_candidates" \in Streams
  BY DEF CollectorInv, StoreTypeOK, CandidateFile, Streams
<1>3. /\ file'["observations"] = file["observations"]
      /\ DOMAIN file' = Streams /\ file' = [t \in DOMAIN file' |-> file'[t]]
      /\ Wellformed(file'["shadow_candidates"])
      /\ ~merged' => /\ ~merged
                     /\ RowsOf(file'["shadow_candidates"]) \subseteq
                          RowsOf(file["shadow_candidates"]) \cup {Here}
  <2>1. CASE Candidate
    <3>1. Stored("shadow_candidates", Here) /\ Merges("shadow_candidates")
      BY <2>1 DEF Candidate
    <3>2. /\ file'["observations"] = file["observations"]
          /\ DOMAIN file' = Streams /\ file' = [t \in DOMAIN file' |-> file'[t]]
          /\ Wellformed(file'["shadow_candidates"])
      BY <1>1, <1>2, <3>1, StoredRows DEF Streams
    <3>3. ~merged' => /\ ~merged
                      /\ RowsOf(file'["shadow_candidates"]) \subseteq
                           RowsOf(file["shadow_candidates"]) \cup {Here}
      BY <1>1, <1>2, <3>1, StoredRows
    <3> QED BY <3>2, <3>3
  <2>2. CASE CutShort("shadow_candidates", Here)
    BY <1>1, <1>2, <2>2, CutShortRows DEF Streams
  <2> QED BY <2>1, <2>2 DEF Swallowed, Died
<1>4. /\ now' = now /\ inst' = inst /\ at' \in Nat \ {0} /\ pc' # "candidate"
      /\ DOMAIN ids' = Streams /\ ids' = [t \in DOMAIN ids' |-> ids'[t]]
      /\ ids'["observations"] \subseteq ids["observations"]
  <2>1. CASE Candidate
    <3>1. Stored("shadow_candidates", Here) /\ Merges("shadow_candidates")
      BY <2>1 DEF Candidate
    <3>2. /\ ids'["observations"] = ids["observations"]
          /\ DOMAIN ids' = Streams /\ ids' = [t \in DOMAIN ids' |-> ids'[t]]
      BY <1>1, <1>2, <3>1, StoredRows DEF Streams
    <3> QED BY <2>1, <3>2 DEF Candidate, NextAsset, CollectorInv, StoreTypeOK
  <2>2. CASE Swallowed("shadow_candidates", Here) /\ NextAsset
    BY <2>2 DEF Swallowed, NextAsset, CutShort, CollectorInv, StoreTypeOK
  <2>3. CASE Died("shadow_candidates", Here)
    BY <2>3 DEF Died, Exit, CutShort, CollectorInv, StoreTypeOK, Streams
  <2> QED BY <2>1, <2>2, <2>3
<1>5. StoreTypeOK'
  BY <1>2, <1>3, <1>4 DEF StoreTypeOK, ObservationFile, CandidateFile
<1>6. (KnownIsOnDisk /\ ObservedFirst)'
  BY <1>3, <1>4 DEF CollectorInv, KnownIsOnDisk, ObservedFirst, ObservationFile
<1>7. CandidatesHaveObservations'
  BY <1>3 DEF CollectorInv, CandidatesHaveObservations, ObservedFirst, Scanning,
     ObservationFile
<1> QED BY <1>5, <1>6, <1>7 DEF CollectorInv

\* An empty directory has nothing that an observation is missing of.
LEMMA CollectorInit == Init => CollectorInv
<1> SUFFICES ASSUME Init PROVE CollectorInv
  OBVIOUS
<1> USE DEF Init, EmptyFile
<1>1. Wellformed(EmptyFile)
  BY DEF Wellformed, File, TornHasALine
<1>2. 0 \in Times
  <2>1. MaxTime \in Nat
    BY BoundAssumption
  <2> QED BY <2>1 DEF Times
<1>3. StoreTypeOK
  BY <1>1, <1>2 DEF StoreTypeOK, ObservationFile, CandidateFile, Streams
<1>4. RowsOf(file["shadow_candidates"]) = {} /\ ids["observations"] = {}
  BY DEF RowsOf, Streams
<1> QED BY <1>3, <1>4 DEF CollectorInv, KnownIsOnDisk, ObservedFirst,
           CandidatesHaveObservations

\* Every step of the composition keeps what the collector relies on.
LEMMA CollectorStep ==
  ASSUME CollectorInv, [ContractsNext]_<<part, vars, studyVars>>
  PROVE  CollectorInv'
<1>1. CASE UNCHANGED vars
  BY <1>1 DEF vars, store, history, CollectorInv, StoreTypeOK, KnownIsOnDisk,
     ObservedFirst, ObservationFile, CandidateFile, CandidatesHaveObservations, Here
<1>2. CASE Open \/ Scan \/ NoResult \/ ResolveDone \/ NoData \/ EndScan \/ Leave
  BY <1>2, LoopKeeps
<1>3. CASE Tick
  BY <1>3, TickKeeps
<1>4. CASE Resolve \/ ResolveFails
  BY <1>4, ResolutionKeeps
<1>5. CASE Observe
  BY <1>5, ObserveKeeps DEF Observe
<1>6. CASE Candidate
  BY <1>6, CandidateKeeps DEF Candidate
<1>7. CASE AppendFails
  BY <1>7, ObserveKeeps, CandidateKeeps DEF AppendFails
<1>8. CASE Crash
  BY <1>8, ResolutionKeeps, ObserveKeeps, CandidateKeeps DEF Crash
<1> QED BY <1>1, <1>2, <1>3, <1>4, <1>5, <1>6, <1>7, <1>8
           DEF ContractsNext, Collect, Learn

\* A candidate on disk always has the observation that a report joins it to,
\* whatever the limit of the memory, however often the collector restarts and
\* however its appends end (ShadowStore.append, run_live_shadow).
THEOREM CandidatesJoin == ContractsSpec => []CandidatesHaveObservations
<1>1. ContractsInit => CollectorInv
  BY CollectorInit DEF ContractsInit
<1>2. CollectorInv /\ [ContractsNext]_<<part, vars, studyVars>> => CollectorInv'
  BY CollectorStep
<1>3. CollectorInv => CandidatesHaveObservations
  BY DEF CollectorInv
<1> QED BY <1>1, <1>2, <1>3, PTL DEF ContractsSpec

-----------------------------------------------------------------------------
(***************************************************************************)
(* The audit of the collector.                                             *)
(***************************************************************************)
ResolutionFile == file["resolutions"]

\* The readable lines after a line, and whether it is one of the newest.
After(lines, i)  == {j \in i + 1 .. Len(lines) : lines[j] # Bad}
Recent(lines, i) == Limit = 0 \/ Cardinality(After(lines, i)) < Limit

\* What a file is like that no write has merged into, and whose rows were all
\* acknowledged: only a torn tail is no row, and no row is there twice.
TailIsBad(f) ==
  \A i \in DOMAIN f.lines : f.lines[i] = Bad => i = Len(f.lines) /\ f.torn
NoRepeat(f) ==
  \A i, j \in DOMAIN f.lines : f.lines[i] # Bad /\ f.lines[i] = f.lines[j] => i = j

\* The lines of a file, if there is one line more at most.
Grows(f, g, row) ==
  \/ g = f
  \/ ~f.torn /\ g.lines = Append(f.lines, row)
  \/ ~f.torn /\ g.lines = Append(f.lines, Bad) /\ g.torn

\* Newest, by the lines that follow.
LEMMA NewestIs ==
  ASSUME NEW lines
  PROVE  Newest(lines) = {lines[i] : i \in {i \in DOMAIN lines :
                            lines[i] # Bad /\ Recent(lines, i)}}
BY DEF Newest, Parsed, Recent, After

\* Finitely many lines follow one.
LEMMA FiniteAfter ==
  ASSUME NEW lines, Len(lines) \in Nat, NEW i \in Nat
  PROVE  IsFiniteSet(After(lines, i)) /\ Cardinality(After(lines, i)) \in Nat
<1>1. IsFiniteSet(i + 1 .. Len(lines))
  BY FS_Interval
<1>2. IsFiniteSet(After(lines, i))
  BY <1>1, FS_Subset DEF After
<1> QED BY <1>2, FS_CardinalityType

\* A line more leaves no line newer than it was.
LEMMA AppendNewest ==
  ASSUME NEW R, NEW lines \in Seq(R \cup {Bad}), NEW x
  PROVE  Newest(Append(lines, x)) \subseteq Newest(lines) \cup ({x} \ {Bad})
<1> DEFINE new == Append(lines, x)
<1>1. /\ Len(lines) \in Nat /\ DOMAIN lines = 1 .. Len(lines)
      /\ DOMAIN new = 1 .. Len(lines) + 1 /\ Len(new) = Len(lines) + 1
      /\ \A i \in 1 .. Len(lines) : new[i] = lines[i]
      /\ new[Len(lines) + 1] = x
  OBVIOUS
<1> HIDE DEF new
<1> SUFFICES ASSUME NEW i \in 1 .. Len(lines) + 1, new[i] # Bad, Recent(new, i)
             PROVE  new[i] \in Newest(lines) \cup ({x} \ {Bad})
  BY <1>1, NewestIs DEF new
<1>2. CASE i = Len(lines) + 1
  BY <1>1, <1>2
<1>3. CASE i # Len(lines) + 1
  <2>1. i \in 1 .. Len(lines) /\ i \in Nat
    BY <1>1, <1>3
  <2>2. After(lines, i) \subseteq After(new, i)
    <3> SUFFICES ASSUME NEW j \in i + 1 .. Len(lines), lines[j] # Bad
                 PROVE  j \in i + 1 .. Len(new) /\ new[j] # Bad
      BY DEF After
    <3>1. j \in 1 .. Len(lines) /\ j \in i + 1 .. Len(new)
      BY <2>1, <1>1
    <3> QED BY <3>1, <1>1
  <2>3. IsFiniteSet(After(new, i)) /\ Cardinality(After(new, i)) \in Nat
    BY <1>1, <2>1, FiniteAfter
  <2>4. IsFiniteSet(After(lines, i)) /\ Cardinality(After(lines, i)) \in Nat
    BY <1>1, <2>1, FiniteAfter
  <2>5. Cardinality(After(lines, i)) <= Cardinality(After(new, i))
    BY <2>2, <2>3, FS_Subset
  <2>6. Limit \in Nat
    BY BoundAssumption
  <2>7. Recent(lines, i)
    BY <2>3, <2>4, <2>5, <2>6 DEF Recent
  <2>8. lines[i] \in Newest(lines)
    BY <2>1, <2>7, <1>1, NewestIs
  <2> QED BY <2>1, <2>8, <1>1
<1> QED BY <1>2, <1>3

\* The rows of a file that grows.
LEMMA GrownRows ==
  ASSUME NEW R, NEW f \in File(R), NEW g, NEW row \in R, row # Bad, Grows(f, g, row)
  PROVE  /\ DOMAIN f.lines \subseteq DOMAIN g.lines
         /\ \A i \in DOMAIN f.lines : g.lines[i] = f.lines[i]
         /\ \A i \in DOMAIN g.lines :
              i \notin DOMAIN f.lines /\ g.lines[i] # Bad =>
                g.lines[i] = row /\ \A j \in DOMAIN f.lines : j < i
         /\ DOMAIN f.lines = 1 .. Len(f.lines) /\ Len(f.lines) \in Nat
         /\ \A i, j \in DOMAIN g.lines :
              i \notin DOMAIN f.lines /\ j \notin DOMAIN f.lines => i = j
<1>1. f.lines \in Seq(R \cup {Bad}) /\ DOMAIN f.lines = 1 .. Len(f.lines) /\ Len(f.lines) \in Nat
  BY DEF File
<1>2. CASE g = f
  BY <1>1, <1>2
<1>3. ASSUME NEW x \in R \cup {Bad}, x = row \/ x = Bad, g.lines = Append(f.lines, x)
      PROVE  /\ DOMAIN f.lines \subseteq DOMAIN g.lines
             /\ \A i \in DOMAIN f.lines : g.lines[i] = f.lines[i]
             /\ \A i \in DOMAIN g.lines :
                  i \notin DOMAIN f.lines /\ g.lines[i] # Bad =>
                    g.lines[i] = row /\ \A j \in DOMAIN f.lines : j < i
             /\ \A i, j \in DOMAIN g.lines :
                  i \notin DOMAIN f.lines /\ j \notin DOMAIN f.lines => i = j
  <2> DEFINE new == g.lines
  <2>1. /\ DOMAIN new = 1 .. Len(f.lines) + 1
        /\ \A i \in 1 .. Len(f.lines) : new[i] = f.lines[i]
        /\ new[Len(f.lines) + 1] = x
    BY <1>1, <1>3
  <2> HIDE DEF new
  <2>2. \A i \in 1 .. Len(f.lines) + 1 : i \notin 1 .. Len(f.lines) => i = Len(f.lines) + 1
    BY <1>1
  <2>3. \A j \in 1 .. Len(f.lines) : j < Len(f.lines) + 1 /\ j \in 1 .. Len(f.lines) + 1
    BY <1>1
  <2> QED BY <2>1, <2>2, <2>3, <1>1, <1>3 DEF new
<1> QED BY <1>1, <1>2, <1>3 DEF Grows

\* A file that gains a new row, or a fragment, is as sound as it was.
LEMMA GrownIsSound ==
  ASSUME NEW R, NEW f \in File(R), NEW g, NEW row \in R, row # Bad,
         Grows(f, g, row), g.lines = Append(f.lines, row) => row \notin RowsOf(f),
         TailIsBad(f), NoRepeat(f)
  PROVE  TailIsBad(g) /\ NoRepeat(g)
<1>1. f.lines \in Seq(R \cup {Bad}) /\ DOMAIN f.lines = 1 .. Len(f.lines) /\ Len(f.lines) \in Nat
  BY DEF File
<1>2. CASE g = f
  BY <1>2
<1>3. ASSUME NEW x \in R \cup {Bad}, x = row \/ (x = Bad /\ g.torn), ~f.torn,
             g.lines = Append(f.lines, x)
      PROVE  TailIsBad(g) /\ NoRepeat(g)
  <2> DEFINE new == g.lines
             old == f.lines
  <2>1. /\ DOMAIN new = 1 .. Len(old) + 1 /\ Len(new) = Len(old) + 1
        /\ \A i \in 1 .. Len(old) : new[i] = old[i]
        /\ new[Len(old) + 1] = x
    BY <1>1, <1>3
  <2>2. \A i \in 1 .. Len(old) : old[i] # Bad
    BY <1>1, <1>3 DEF TailIsBad
  <2>3. \A i, j \in 1 .. Len(old) : old[i] = old[j] => i = j
    BY <1>1, <2>2 DEF NoRepeat
  <2>4. x # Bad => \A i \in 1 .. Len(old) : old[i] # x
    BY <1>1, <1>3, <2>2 DEF RowsOf
  <2> HIDE DEF new, old
  <2>5. \A i \in 1 .. Len(old) + 1 : i \in 1 .. Len(old) \/ i = Len(old) + 1
    BY <1>1 DEF old
  <2>6. TailIsBad(g)
    <3> SUFFICES ASSUME NEW i \in 1 .. Len(old) + 1, new[i] = Bad
                 PROVE  i = Len(old) + 1 /\ g.torn
      BY <2>1 DEF TailIsBad, new
    <3> QED BY <2>1, <2>2, <2>5, <1>3
  <2>7. NoRepeat(g)
    <3> SUFFICES ASSUME NEW i \in 1 .. Len(old) + 1, NEW j \in 1 .. Len(old) + 1,
                        new[i] # Bad, new[i] = new[j]
                 PROVE  i = j
      BY <2>1 DEF NoRepeat, new
    <3> QED BY <2>1, <2>3, <2>4, <2>5
  <2> QED BY <2>6, <2>7
<1> QED BY <1>2, <1>3 DEF Grows

\* The files as the collector's memory knows them.
StreamIsSound(s) ==
  /\ TailIsBad(file[s]) /\ NoRepeat(file[s])
  /\ pc # "down" => Newest(file[s].lines) \subseteq ids[s]

\* A write, whole or not, lengthens a file that nothing merges into.
LEMMA WriteLines ==
  ASSUME StoreTypeOK, NEW s \in Streams, NEW R, file[s] \in File(R), TornHasALine(file[s]),
         NEW row \in R, (Stored(s, row) /\ Merges(s)) \/ CutShort(s, row)
  PROVE  /\ file'[s] \in File(R) /\ TornHasALine(file'[s])
         /\ \A t \in Streams \ {s} : file'[t] = file[t]
         /\ ~merged' => ~merged /\ Grows(file[s], file'[s], row)
<1> DEFINE f == file[s]
<1>1. CASE file' = file
  BY <1>1 DEF Merges, CutShort, Grows
<1>2. ASSUME NEW g, file' = [file EXCEPT ![s] = g], Merges(s),
             g \in Interrupted(f, row)
      PROVE  /\ file'[s] \in File(R) /\ TornHasALine(file'[s])
             /\ \A t \in Streams \ {s} : file'[t] = file[t]
             /\ ~merged' => ~merged /\ Grows(file[s], file'[s], row)
  <2>1. file'[s] = g /\ \A t \in Streams \ {s} : file'[t] = file[t]
    BY <1>2 DEF StoreTypeOK
  <2>2. g \in File(R) /\ TornHasALine(g)
    BY <1>2, InterruptedType
  <2>3. ~merged' => ~merged /\ (~f.torn \/ g = f)
    BY <1>2, <2>1 DEF Merges
  <2>4. ASSUME ~f.torn PROVE Grows(f, g, row)
    <3>1. CASE g = f
      BY <3>1 DEF Grows
    <3>2. CASE g = Written(f, Bad, FALSE)
      BY <2>4, <3>2 DEF Grows, Written
    <3>3. CASE g = Written(f, row, FALSE)
      BY <2>4, <3>3 DEF Grows, Written
    <3>4. CASE g = Written(f, row, TRUE)
      BY <2>4, <3>4 DEF Grows, Written
    <3> QED BY <1>2, <3>1, <3>2, <3>3, <3>4 DEF Interrupted
  <2>5. g = f => Grows(f, g, row)
    BY DEF Grows
  <2> QED BY <2>1, <2>2, <2>3, <2>4, <2>5
<1>3. CASE Stored(s, row) /\ Merges(s) /\ row \notin ids[s]
  BY <1>2, <1>3 DEF Stored, Interrupted
<1>4. CASE CutShort(s, row)
  BY <1>2, <1>4 DEF CutShort
<1> QED BY <1>1, <1>3, <1>4 DEF Stored, store

\* What comes of a write to a file that is still sound.
LEMMA WriteIsSound ==
  ASSUME StoreTypeOK, NEW s \in Streams, NEW R, file[s] \in File(R), TornHasALine(file[s]),
         NEW row \in R, row # Bad, StreamIsSound(s), pc # "down",
         row \notin ids[s] => row \notin RowsOf(file[s]),
         \/ Stored(s, row) /\ Merges(s)
         \/ Swallowed(s, row)
         \/ Died(s, row),
         ~merged', ~lost'
  PROVE  /\ StreamIsSound(s)'
         /\ \A t \in Streams \ {s} : pc' # "down" => ids'[t] = ids[t]
<1> DEFINE f == file[s]
           g == file'[s]
<1>1. Grows(f, g, row) /\ \A t \in Streams \ {s} : file'[t] = file[t]
  BY WriteLines DEF Swallowed, Died
<1>2. f.lines \in Seq(R \cup {Bad})
  BY DEF File
<1>3. CASE Stored(s, row) /\ row \in ids[s]
  BY <1>3 DEF Stored, store, StreamIsSound, StoreTypeOK
<1>4. CASE Stored(s, row) /\ row \notin ids[s]
  <2> DEFINE w == Written(f, row, TRUE)
             known == ids[s] \cup {row}
             newest == IF Reloads(s, known) /\ ~Malformed(w) THEN Newest(w.lines) ELSE known
  <2>1. file' = [file EXCEPT ![s] = w] /\ ids' = [ids EXCEPT ![s] = newest]
    BY <1>4 DEF Stored
  <2>2. g = w /\ ids'[s] = newest
    BY <2>1 DEF StoreTypeOK
  <2>3. w.lines = Append(f.lines, row)
    <3>1. w.torn = FALSE
      BY DEF Written
    <3>2. ~f.torn => w.lines = Append(f.lines, row)
      BY DEF Written
    <3> QED BY <1>1, <2>2, <3>1, <3>2 DEF Grows
  <2>4. Newest(w.lines) \subseteq Newest(f.lines) \cup {row}
    BY <1>2, <2>3, AppendNewest
  <2>5. Newest(w.lines) \subseteq newest
    BY <1>4, <2>4 DEF StreamIsSound
  <2>6. TailIsBad(w) /\ NoRepeat(w)
    BY <1>1, <1>4, <2>2, GrownIsSound DEF StreamIsSound
  <2>7. \A t \in Streams \ {s} : ids'[t] = ids[t]
    BY <2>1 DEF StoreTypeOK
  <2> HIDE DEF w, newest
  <2> QED BY <2>2, <2>5, <2>6, <2>7 DEF StreamIsSound
<1>5. CASE CutShort(s, row) /\ (Swallowed(s, row) \/ Died(s, row))
  <2>1. row \notin ids[s]
    BY <1>5 DEF CutShort
  <2>2. TailIsBad(g) /\ NoRepeat(g)
    BY <1>1, <2>1, GrownIsSound DEF StreamIsSound
  <2>3. CASE Died(s, row)
    <3>1. pc' = "down"
      BY <2>3 DEF Died, Exit
    <3> QED BY <2>2, <3>1 DEF StreamIsSound
  <2>4. CASE Swallowed(s, row)
    <3>1. ids' = ids /\ RowsOf(g) = RowsOf(f)
      BY <2>4 DEF Swallowed
    <3>2. g.lines # Append(f.lines, row)
      <4>1. g.lines = Append(f.lines, row) => RowsOf(g) = RowsOf(f) \cup ({row} \ {Bad})
        BY AppendRows
      <4> QED BY <3>1, <4>1, <2>1
    <3>3. Newest(g.lines) \subseteq Newest(f.lines)
      <4>1. CASE g = f
        BY <4>1
      <4>2. CASE g.lines = Append(f.lines, Bad)
        BY <1>2, <4>2, AppendNewest
      <4> QED BY <1>1, <3>2, <4>1, <4>2 DEF Grows
    <3>4. pc' # "down" => Newest(g.lines) \subseteq ids'[s]
      BY <3>1, <3>3 DEF StreamIsSound
    <3> QED BY <2>2, <3>1, <3>4 DEF StreamIsSound
  <2> QED BY <1>5, <2>3, <2>4
<1> QED BY <1>3, <1>4, <1>5 DEF Swallowed, Died

-----------------------------------------------------------------------------
\* The points of a stream are in the order of their instants, none later than
\* the last scan.
InTime(s) ==
  /\ \A i, j \in Read(s) : i < j => file[s].lines[i].at <= file[s].lines[j].at
  /\ \A i \in Read(s) : file[s].lines[i].at <= inst

\* The readable lines of a stream of points are points.
LEMMA PointIs ==
  ASSUME NEW s, file[s] \in File(Points), NEW i \in Read(s)
  PROVE  /\ file[s].lines[i] \in Points /\ file[s].lines[i] # Bad
         /\ file[s].lines[i].at \in Nat /\ file[s].lines[i].asset \in Assets
         /\ file[s].lines[i].at \in Times
         /\ i \in 1 .. Len(file[s].lines) /\ Len(file[s].lines) \in Nat
<1>1. file[s].lines \in Seq(Points \cup {Bad})
  BY DEF File
<1>2. i \in 1 .. Len(file[s].lines) /\ Len(file[s].lines) \in Nat
      /\ file[s].lines[i] \in Points \cup {Bad} /\ file[s].lines[i] # Bad
  BY <1>1 DEF Read, Parsed
<1>3. Times \subseteq Nat
  BY BoundAssumption DEF Times
<1> QED BY <1>2, <1>3 DEF Points

\* There are finitely many assets.
LEMMA FiniteAssets == IsFiniteSet(Assets)
<1>1. AssetSeq \in Seq(Assets) /\ Len(AssetSeq) \in Nat
  BY AssetsInOrder
<1>2. AssetSeq \in Surjection(1 .. Len(AssetSeq), Assets)
  BY <1>1 DEF Surjection, Assets, Range
<1>3. IsFiniteSet(1 .. Len(AssetSeq))
  BY FS_Interval
<1> QED BY <1>2, <1>3, FS_Surjection

\* The memory has room for a scan of all assets.
Room == Limit = 0 \/ Cardinality(Assets) <= Limit

\* A point that is not remembered is not on disk: the rows of its instant are of
\* other assets, and too few to have pushed it out.
LEMMA HereIsNew ==
  ASSUME Room, NEW s, file[s] \in File(Points), NoRepeat(file[s]), InTime(s),
         Newest(file[s].lines) \subseteq ids[s], Here \notin ids[s], Here # Bad
  PROVE  Here \notin RowsOf(file[s])
<1> DEFINE lines == file[s].lines
<1> SUFFICES ASSUME Here \in RowsOf(file[s]) PROVE FALSE
  OBVIOUS
<1>1. PICK i \in DOMAIN lines : lines[i] = Here
  BY DEF RowsOf
<1>2. i \in Read(s)
  BY <1>1 DEF Read, Parsed
<1>3. ~Recent(lines, i)
  BY <1>1, NewestIs
<1>4. /\ lines[i] \in Points /\ lines[i].at \in Nat /\ i \in 1 .. Len(lines)
      /\ Len(lines) \in Nat
  BY <1>2, PointIs
<1>5. Here.at = inst
  BY DEF Here
<1> DEFINE later == After(lines, i)
           others == Assets \ {lines[i].asset}
           asset == [j \in later |-> lines[j].asset]
<1>6. \A j \in later : /\ j \in Read(s) /\ i < j
                       /\ lines[j].at = inst /\ lines[j] \in Points /\ lines[j] # lines[i]
                       /\ lines[j].asset \in Assets
  <2> SUFFICES ASSUME NEW j \in later
               PROVE  /\ j \in Read(s) /\ i < j
                      /\ lines[j].at = inst /\ lines[j] \in Points /\ lines[j] # lines[i]
                      /\ lines[j].asset \in Assets
    OBVIOUS
  <2>1. j \in DOMAIN lines /\ lines[j] # Bad /\ i < j
    <3>1. lines \in Seq(Points \cup {Bad})
      BY DEF File
    <3>2. j \in i + 1 .. Len(lines) /\ lines[j] # Bad
      BY DEF After
    <3> QED BY <3>1, <3>2, <1>4
  <2>2. j \in Read(s)
    BY <2>1 DEF Read, Parsed
  <2>3. lines[j] \in Points /\ lines[j].at \in Nat /\ lines[j].asset \in Assets
    BY <2>2, PointIs
  <2>4. lines[i].at <= lines[j].at /\ lines[j].at <= inst /\ lines[i].at = inst
    BY <1>1, <1>2, <1>5, <2>1, <2>2 DEF InTime
  <2>5. lines[j].at = inst
    BY <1>4, <2>3, <2>4
  <2>6. lines[j] # lines[i]
    BY <1>4, <2>1 DEF NoRepeat
  <2> QED BY <2>1, <2>2, <2>3, <2>5, <2>6
<1>7. \A p, q \in Points : p.at = q.at /\ p.asset = q.asset => p = q
  BY DEF Points
<1> HIDE DEF later, others
<1>8. asset \in Injection(later, others)
  <2>1. \A j \in later : asset[j] \in others
    BY <1>1, <1>4, <1>5, <1>6, <1>7 DEF others
  <2>2. \A j, k \in later : asset[j] = asset[k] => j = k
    <3> SUFFICES ASSUME NEW j \in later, NEW k \in later, lines[j].asset = lines[k].asset
                 PROVE  j = k
      OBVIOUS
    <3>1. lines[j] = lines[k]
      BY <1>6, <1>7
    <3>2. j \in DOMAIN lines /\ k \in DOMAIN lines /\ lines[j] # Bad
      BY <1>6 DEF Read, Parsed
    <3> QED BY <3>1, <3>2 DEF NoRepeat
  <2> QED BY <2>1, <2>2 DEF Injection, IsInjective
<1>9. IsFiniteSet(Assets) /\ Cardinality(Assets) \in Nat
  BY FiniteAssets, FS_CardinalityType
<1>10. lines[i].asset \in Assets
  BY <1>2, PointIs
<1>11. IsFiniteSet(others) /\ Cardinality(others) = Cardinality(Assets) - 1
  BY <1>9, <1>10, FS_RemoveElement DEF others
<1>12. Cardinality(later) <= Cardinality(others)
  BY <1>8, <1>11, FS_Injection
<1>13. Cardinality(later) \in Nat
  BY <1>4, FiniteAfter DEF later
<1>14. Limit # 0 /\ ~(Cardinality(later) < Limit) /\ Limit \in Nat
  BY <1>3, BoundAssumption DEF Recent, later
<1> QED BY <1>9, <1>11, <1>12, <1>13, <1>14 DEF Room

-----------------------------------------------------------------------------
\* Later instants are of later windows.
LEMMA WindowsInOrder ==
  ASSUME NEW a \in Nat, NEW b \in Nat, a <= b
  PROVE  Window(a) \in Nat /\ Window(b) \in Nat /\ Window(a) <= Window(b)
<1>1. Second \in Nat \ {0}
  BY BoundAssumption
<1> DEFINE p == a \div Second
           q == b \div Second
<1>2. p \in Nat /\ q \in Nat
  BY <1>1
<1>3. a = Second * p + (a % Second) /\ b = Second * q + (b % Second)
  BY <1>1
<1>4. a % Second \in 0 .. Second - 1 /\ b % Second \in 0 .. Second - 1
  BY <1>1
<1>5. p <= q
  <2> SUFFICES ASSUME q < p PROVE FALSE
    BY <1>2
  <2>1. Second * (q + 1) <= Second * p
    <3> HIDE DEF p, q
    <3>1. q + 1 <= p
      BY <1>2
    <3> QED BY <1>1, <1>2, <3>1
  <2>2. Second * (q + 1) = Second * q + Second
    BY <1>1, <1>2
  <2> HIDE DEF p, q
  <2>3. Second * q \in Nat /\ Second * p \in Nat
    BY <1>1, <1>2
  <2> QED BY <1>1, <1>3, <1>4, <2>1, <2>2, <2>3
<1> QED BY <1>2, <1>5 DEF Window

\* The contract of a point is one of the program's.
LEMMA ContractIs ==
  ASSUME NEW o \in Points
  PROVE  Contract(o) \in Contracts /\ Contract(o) # Bad /\ Contract(o).win = Window(o.at)
<1>1. Contract(o) \in Contracts
  BY DEF Points, Contract, Contracts
<1> QED BY <1>1, BadIsNoPoint DEF Contract

Obs == ObservationFile.lines
Res == ResolutionFile.lines

\* The contracts with a resolution among those of the lines around one.
Around(lines, k) == {i \in k .. k + 2 * Limit - 2 : i \in DOMAIN lines /\ lines[i] # Bad}
Resolved(lines, settled, k) == {Contract(lines[i]) : i \in Around(lines, k)} \cap settled
Often(lines, settled) == \A k \in DOMAIN lines : Cardinality(Resolved(lines, settled, k)) <= Limit

\* ScannedOften, by the lines and the rows.
LEMMA OftenIs == ScannedOften <=> Often(Obs, RowsOf(ResolutionFile))
<1>1. \A k : Around(Obs, k) = (k .. k + 2 * Limit - 2) \cap Read("observations")
  BY DEF Around, Read, Parsed, Obs, ObservationFile
<1> QED BY <1>1 DEF ScannedOften, Often, Resolved, Obs, ObservationFile, ResolutionFile

\* Finitely many contracts are resolved around a line.
LEMMA FiniteResolved ==
  ASSUME NEW lines, NEW settled, NEW k \in Nat
  PROVE  /\ IsFiniteSet(Resolved(lines, settled, k))
         /\ Cardinality(Resolved(lines, settled, k)) \in Nat
<1>1. IsFiniteSet(k .. k + 2 * Limit - 2)
  <2>1. Limit \in Nat /\ k \in Int /\ k + 2 * Limit - 2 \in Int
    BY BoundAssumption
  <2> QED BY <2>1, FS_Interval
<1>2. IsFiniteSet(Around(lines, k))
  BY <1>1, FS_Subset DEF Around
<1> DEFINE T == {Contract(lines[i]) : i \in Around(lines, k)}
           c == [i \in Around(lines, k) |-> Contract(lines[i])]
<1>3. c \in Surjection(Around(lines, k), T)
  BY DEF Surjection
<1>4. IsFiniteSet(T)
  BY <1>2, <1>3, FS_Surjection
<1>5. IsFiniteSet(Resolved(lines, settled, k))
  BY <1>4, FS_Subset DEF Resolved
<1> QED BY <1>5, FS_CardinalityType

\* A file that has all the lines it had.
Extends(g, f) == /\ DOMAIN f.lines \subseteq DOMAIN g.lines
                 /\ \A i \in DOMAIN f.lines : g.lines[i] = f.lines[i]

\* Lines more leave no window scanned more often than it was.
LEMMA OftenBefore ==
  ASSUME NEW f \in File(Points), NEW g, NEW settled, NEW more, Extends(g, f),
         settled \subseteq more, Often(g.lines, more)
  PROVE  Often(f.lines, settled)
<1> SUFFICES ASSUME NEW k \in DOMAIN f.lines
             PROVE  Cardinality(Resolved(f.lines, settled, k)) <= Limit
  BY DEF Often
<1> DEFINE old == Resolved(f.lines, settled, k)
           new == Resolved(g.lines, more, k)
<1>1. k \in DOMAIN g.lines /\ k \in Nat
  <2>1. f.lines \in Seq(Points \cup {Bad})
    BY DEF File
  <2> QED BY <2>1 DEF Extends
<1>2. old \subseteq new
  <2>1. \A i \in Around(f.lines, k) : i \in Around(g.lines, k) /\ f.lines[i] = g.lines[i]
    BY DEF Around, Extends
  <2> QED BY <2>1 DEF Resolved
<1>3. IsFiniteSet(new) /\ Cardinality(new) \in Nat /\ Cardinality(old) \in Nat
  BY <1>1, FiniteResolved
<1>4. Cardinality(old) <= Cardinality(new)
  <2> HIDE DEF old, new
  <2> QED BY <1>2, <1>3, FS_Subset
<1>5. Limit \in Nat /\ Cardinality(new) <= Limit
  BY <1>1, BoundAssumption DEF Often
<1> QED BY <1>3, <1>4, <1>5

\* The clean states: nothing merged, no row in doubt, and windows scanned often.
Clean == ~merged /\ ~lost /\ ScannedOften

\* What the scan holds: types of the resolutions and of what is due.
DueIsRead ==
  /\ ResolutionFile \in File(Contracts) /\ TornHasALine(ResolutionFile)
  /\ pc = "resolve" => due \subseteq Read("observations")
  /\ inst <= now

\* A state is clean only if it was clean before a step that lengthens files.
LEMMA CleanBefore ==
  ASSUME StoreTypeOK, DueIsRead, Clean',
         merged => merged', lost => lost',
         Extends(ObservationFile', ObservationFile),
         Extends(ResolutionFile', ResolutionFile)
  PROVE  Clean
<1>1. Often(Obs', RowsOf(ResolutionFile'))
  <2>1. \A k : Around(Obs', k) = (k .. k + 2 * Limit - 2) \cap Read("observations")'
    BY DEF Around, Read, Parsed, Obs, ObservationFile
  <2>2. ScannedOften'
    BY DEF Clean
  <2> QED BY <2>1, <2>2 DEF ScannedOften, Often, Resolved, Obs, ObservationFile, ResolutionFile
<1>2. RowsOf(ResolutionFile) \subseteq RowsOf(ResolutionFile')
  BY DEF Extends, RowsOf
<1>3. Often(Obs, RowsOf(ResolutionFile))
  BY <1>1, <1>2, OftenBefore DEF Obs, StoreTypeOK, Wellformed
<1> QED BY <1>3, OftenIs DEF Clean

\* A write extends a file.
LEMMA GrowsExtends ==
  ASSUME NEW R, NEW f \in File(R), NEW g, NEW row \in R, row # Bad, Grows(f, g, row)
  PROVE  Extends(g, f)
BY GrownRows DEF Extends

\* Every resolution is of a window that is over and of an observation; between
\* the lines that two resolutions are of, the later is no further than the memory
\* before the earlier.
OfTheEnded == \A k \in Read("resolutions") : Res[k].win < Window(inst)
OfTheObserved ==
  \A k \in Read("resolutions") :
    \E q \in Read("observations") : Contract(Obs[q]) = Res[k]
NotFarBefore ==
  \A k, l \in Read("resolutions") : k < l /\ Limit # 0 =>
    \E q \in Read("observations") :
      /\ Contract(Obs[q]) = Res[l]
      /\ \A p \in Read("observations") : Contract(Obs[p]) = Res[k] => p < q + Limit

\* What is due is among the newest observations, and over.
DueIsRecent ==
  pc = "resolve" => \A i \in due : Recent(Obs, i) /\ Window(Obs[i].at) < Window(inst)

Sound ==
  /\ \A s \in Streams : StreamIsSound(s)
  /\ InTime("observations") /\ InTime("shadow_candidates")
  /\ OfTheEnded /\ OfTheObserved /\ NotFarBefore /\ DueIsRecent

AuditInv == StoreTypeOK /\ DueIsRead /\ (Clean => Sound)

\* Every line that is read is near the end of a file of which a newest line is
\* known.
LEMMA NearTheEnd ==
  ASSUME NEW f \in File(Points), TailIsBad(f), NEW q \in DOMAIN f.lines,
         Recent(f.lines, q), Limit # 0,
         NEW p \in DOMAIN f.lines, f.lines[p] # Bad
  PROVE  p < q + Limit
<1> DEFINE n == Len(f.lines)
<1>1. f.lines \in Seq(Points \cup {Bad}) /\ DOMAIN f.lines = 1 .. n /\ n \in Nat
  BY DEF File
<1>2. p \in 1 .. n /\ q \in 1 .. n /\ p \in Nat /\ q \in Nat /\ Limit \in Nat
  BY <1>1, BoundAssumption
<1>3. CASE p <= q
  BY <1>2, <1>3
<1>4. CASE q < p
  <2>1. q + 1 .. p \subseteq After(f.lines, q)
    <3> SUFFICES ASSUME NEW j \in q + 1 .. p PROVE j \in q + 1 .. n /\ f.lines[j] # Bad
      BY DEF After
    <3>1. j \in 1 .. n /\ j \in q + 1 .. n /\ j <= p
      BY <1>2
    <3>2. CASE j = p
      BY <3>1, <3>2
    <3>3. CASE j # p
      <4>1. j # n
        BY <3>1, <3>3, <1>2
      <4> QED BY <3>1, <4>1, <1>1 DEF TailIsBad
    <3> QED BY <3>2, <3>3
  <2>2. IsFiniteSet(After(f.lines, q)) /\ Cardinality(After(f.lines, q)) \in Nat
    BY <1>1, <1>2, FiniteAfter
  <2>3. Cardinality(q + 1 .. p) = p - q
    BY <1>2, <1>4, FS_Interval
  <2>4. Cardinality(q + 1 .. p) <= Cardinality(After(f.lines, q))
    <3> DEFINE A == After(f.lines, q)
               B == q + 1 .. p
    <3> HIDE DEF A, B
    <3>1. B \subseteq A /\ IsFiniteSet(A)
      BY <2>1, <2>2 DEF A, B
    <3>2. Cardinality(B) <= Cardinality(A)
      BY <3>1, FS_Subset
    <3> QED BY <3>2 DEF A, B
  <2> QED BY <1>2, <2>2, <2>3, <2>4 DEF Recent
<1> QED BY <1>2, <1>3, <1>4

\* The first of what is due.
LEMMA FirstIsDue ==
  ASSUME StoreTypeOK, DueIsRead, pc = "resolve", due # {}
  PROVE  /\ First \in due /\ First \in Read("observations")
         /\ Obs[First] \in Points /\ DueContract = Contract(Obs[First])
         /\ DueContract \in Contracts /\ DueContract # Bad
<1>1. due \subseteq Read("observations")
  BY DEF DueIsRead
<1>2. due \subseteq Nat
  <2>1. Obs \in Seq(Points \cup {Bad})
    BY DEF Obs, StoreTypeOK, Wellformed, File
  <2>2. DOMAIN Obs \subseteq Nat
    BY <2>1
  <2> QED BY <1>1, <2>2 DEF Read, Obs, ObservationFile
<1>3. \E i \in due : \A j \in due : i <= j
  BY <1>2, LeastElement
<1>4. First \in due
  BY <1>3 DEF First
<1>5. Obs[First] \in Points
  BY <1>1, <1>4, PointIs DEF Obs, ObservationFile, StoreTypeOK, Wellformed
<1> QED BY <1>1, <1>4, <1>5, ContractIs DEF DueContract, Obs, ObservationFile

\* A contract that is due and not remembered has no resolution on disk: the
\* resolutions after it would all be of observations around its own, more of
\* them than a clean state has.
LEMMA DueIsNew ==
  ASSUME AuditInv, Clean, pc = "resolve", due # {}, DueContract \notin ids["resolutions"]
  PROVE  DueContract \notin RowsOf(file["resolutions"])
<1> DEFINE c == DueContract
<1> SUFFICES ASSUME c \in RowsOf(file["resolutions"]) PROVE FALSE
  OBVIOUS
<1>1. Sound /\ StoreTypeOK /\ DueIsRead
  BY DEF AuditInv
<1>2. /\ First \in due /\ First \in Read("observations")
      /\ Obs[First] \in Points /\ c = Contract(Obs[First]) /\ c # Bad
  BY <1>1, FirstIsDue
<1>3. PICK k \in DOMAIN Res : Res[k] = c
  BY DEF RowsOf, Res, ResolutionFile
<1>4. k \in Read("resolutions")
  BY <1>2, <1>3 DEF Read, Parsed, Res, ResolutionFile
<1>5. StreamIsSound("resolutions") /\ StreamIsSound("observations")
  BY <1>1 DEF Sound, Streams
<1>6. ~Recent(Res, k)
  BY <1>2, <1>3, <1>5, NewestIs DEF StreamIsSound, Res, ResolutionFile
<1>7. Limit \in Nat \ {0} /\ ~(Cardinality(After(Res, k)) < Limit)
  BY <1>6, BoundAssumption DEF Recent
<1>8. Res \in Seq(Contracts \cup {Bad}) /\ DOMAIN Res = 1 .. Len(Res) /\ Len(Res) \in Nat
  BY <1>1 DEF DueIsRead, File, Res
<1>9. ObservationFile \in File(Points) /\ DOMAIN Obs = 1 .. Len(Obs) /\ Len(Obs) \in Nat
  BY <1>1 DEF StoreTypeOK, Wellformed, File, Obs
<1>10. First \in 1 .. Len(Obs) /\ First \in Nat
  BY <1>2, <1>9 DEF Read, Obs, ObservationFile
<1>11. TailIsBad(ObservationFile) /\ NoRepeat(ResolutionFile)
  BY <1>5 DEF StreamIsSound, ObservationFile, ResolutionFile
<1>12. Recent(Obs, First)
  BY <1>1, <1>2 DEF Sound, DueIsRecent
<1> DEFINE from == IF First < Limit THEN 1 ELSE First - Limit + 1
           later == After(Res, k)
           around == Resolved(Obs, RowsOf(ResolutionFile), from)
<1>13. from \in 1 .. Len(Obs) /\ from \in Nat
  BY <1>7, <1>10
<1>14. \A q \in Read("observations") :
         First < q + Limit /\ q < First + Limit => q \in Around(Obs, from)
  <2> SUFFICES ASSUME NEW q \in Read("observations"), First < q + Limit, q < First + Limit
               PROVE  q \in Around(Obs, from)
    OBVIOUS
  <2>1. q \in DOMAIN Obs /\ Obs[q] # Bad /\ q \in 1 .. Len(Obs)
    BY <1>9 DEF Read, Parsed, Obs, ObservationFile
  <2>2. q \in from .. from + 2 * Limit - 2
    BY <1>7, <1>10, <2>1
  <2> QED BY <2>1, <2>2 DEF Around
<1>15. \A l \in later : l \in Read("resolutions") /\ k < l
  <2> SUFFICES ASSUME NEW l \in later PROVE l \in Read("resolutions") /\ k < l
    OBVIOUS
  <2>1. l \in k + 1 .. Len(Res) /\ Res[l] # Bad /\ k \in Nat
    BY <1>8 DEF After
  <2>2. l \in DOMAIN Res /\ k < l
    BY <2>1, <1>8
  <2> QED BY <2>1, <2>2 DEF Read, Parsed, Res, ResolutionFile
<1>16. \A l \in later : Res[l] \in around \ {c}
  <2> SUFFICES ASSUME NEW l \in later PROVE Res[l] \in around \ {c}
    OBVIOUS
  <2>1. l \in Read("resolutions") /\ k < l
    BY <1>15
  <2>2. PICK q \in Read("observations") :
          /\ Contract(Obs[q]) = Res[l]
          /\ \A p \in Read("observations") : Contract(Obs[p]) = Res[k] => p < q + Limit
    BY <1>1, <1>4, <1>7, <2>1 DEF Sound, NotFarBefore
  <2>3. First < q + Limit
    BY <1>2, <1>3, <2>2
  <2>4. q \in DOMAIN ObservationFile.lines /\ ObservationFile.lines[q] # Bad
    BY DEF Read, Parsed, ObservationFile
  <2>5. q < First + Limit
    BY <1>7, <1>9, <1>10, <1>11, <1>12, <2>4, NearTheEnd DEF Obs
  <2>6. q \in Around(Obs, from)
    BY <1>14, <2>3, <2>5
  <2>7. l \in DOMAIN Res /\ Res[l] # Bad /\ Res[l] \in RowsOf(ResolutionFile)
    BY <2>1 DEF Read, Parsed, RowsOf, Res, ResolutionFile
  <2>8. Res[l] # c
    BY <1>3, <1>4, <1>8, <1>11, <2>1, <2>7 DEF NoRepeat, Res
  <2> QED BY <2>2, <2>6, <2>7, <2>8 DEF Resolved
<1>17. c \in around
  <2>1. First \in Around(Obs, from)
    BY <1>2, <1>7, <1>10, <1>14
  <2> QED BY <1>2, <2>1 DEF Resolved, ResolutionFile
<1>18. IsFiniteSet(around) /\ Cardinality(around) \in Nat
  BY <1>13, FiniteResolved
<1>19. Cardinality(around) <= Limit
  BY <1>9, <1>13, OftenIs DEF Clean, Often
<1>20. IsFiniteSet(around \ {c}) /\ Cardinality(around \ {c}) = Cardinality(around) - 1
  <2> HIDE DEF around, c
  <2> QED BY <1>17, <1>18, FS_RemoveElement
<1>21. Cardinality(later) <= Cardinality(around \ {c})
  <2> DEFINE rest == around \ {c}
             value == [l \in later |-> Res[l]]
  <2>1. \A l \in later : Res[l] \in rest
    BY <1>16
  <2>2. \A l, m \in later : Res[l] = Res[m] => l = m
    <3> SUFFICES ASSUME NEW l \in later, NEW m \in later, Res[l] = Res[m] PROVE l = m
      OBVIOUS
    <3>1. l \in DOMAIN Res /\ m \in DOMAIN Res /\ Res[l] # Bad
      BY <1>15 DEF Read, Parsed, Res, ResolutionFile
    <3> QED BY <3>1, <1>11 DEF NoRepeat, Res
  <2> HIDE DEF rest, later
  <2>3. value \in Injection(later, rest)
    BY <2>1, <2>2 DEF Injection, IsInjective
  <2>4. IsFiniteSet(rest)
    BY <1>20 DEF rest
  <2>5. Cardinality(later) <= Cardinality(rest)
    BY <2>3, <2>4, FS_Injection
  <2> QED BY <2>5 DEF rest
<1>22. Cardinality(later) \in Nat
  BY <1>8, FiniteAfter
<1> HIDE DEF around, later, c
<1>23. ~(Cardinality(later) < Limit)
  BY <1>7 DEF later
<1> QED BY <1>7, <1>18, <1>19, <1>20, <1>21, <1>22, <1>23

-----------------------------------------------------------------------------
\* The steps that write nothing.
LEMMA RestIsAudited ==
  ASSUME CollectorInv, AuditInv, file' = file, StoreTypeOK',
         merged' = merged, lost' = lost, DueIsRead',
         inst \in Nat /\ inst' \in Nat /\ inst <= inst',
         Sound => DueIsRecent',
         \A s \in Streams : StreamIsSound(s) => StreamIsSound(s)'
  PROVE  AuditInv'
<1> USE DEF Read, Parsed, Obs, Res, ObservationFile, ResolutionFile
<1> SUFFICES ASSUME Clean' PROVE Sound'
  BY DEF AuditInv
<1>1. Clean
  BY CleanBefore DEF AuditInv, Extends
<1>2. Sound
  BY <1>1 DEF AuditInv
<1>3. (InTime("observations") /\ InTime("shadow_candidates"))'
  <2>1. ASSUME NEW s \in {"observations", "shadow_candidates"} PROVE InTime(s)'
    <3>1. InTime(s) /\ file[s] \in File(Points)
      BY <1>2, <2>1 DEF Sound, AuditInv, StoreTypeOK, Wellformed, CandidateFile
    <3>2. \A i \in Read(s) : file[s].lines[i].at <= inst /\ file[s].lines[i].at \in Nat
      BY <3>1, PointIs DEF InTime
    <3>3. \A i \in Read(s) : file[s].lines[i].at <= inst'
      BY <3>2
    <3> QED BY <3>1, <3>3 DEF InTime
  <2> QED BY <2>1
<1>4. OfTheEnded'
  <2>1. Window(inst) \in Nat /\ Window(inst') \in Nat /\ Window(inst) <= Window(inst')
    BY WindowsInOrder
  <2> SUFFICES ASSUME NEW k \in Read("resolutions") PROVE Res[k].win < Window(inst')
    BY DEF OfTheEnded
  <2>2. Res[k].win < Window(inst)
    BY <1>2 DEF Sound, OfTheEnded
  <2>3. Res[k].win \in Nat
    <3>1. PICK q \in Read("observations") : Contract(Obs[q]) = Res[k]
      BY <1>2 DEF Sound, OfTheObserved
    <3>2. Obs[q] \in Points /\ Obs[q].at \in Nat
      BY PointIs DEF AuditInv, StoreTypeOK, Wellformed
    <3>3. Window(Obs[q].at) \in Nat
      BY <3>2, WindowsInOrder
    <3> QED BY <3>1, <3>2, <3>3, ContractIs
  <2> QED BY <2>1, <2>2, <2>3
<1>5. (OfTheObserved /\ NotFarBefore)'
  BY <1>2 DEF Sound, OfTheObserved, NotFarBefore
<1> QED BY <1>2, <1>3, <1>4, <1>5 DEF Sound

\* Restarts, scans and the clock.
LEMMA LoopIsAudited ==
  ASSUME CollectorInv, CollectorInv', AuditInv,
         Open \/ Scan \/ NoResult \/ ResolveDone \/ NoData \/ EndScan \/ Leave \/ Tick
  PROVE  AuditInv'
<1>1. /\ file' = file /\ merged' = merged /\ lost' = lost
  BY DEF Open, Scan, NoResult, ResolveDone, NoData, EndScan, Leave, Exit, Tick, store, history
<1>2. StoreTypeOK /\ StoreTypeOK'
  BY DEF CollectorInv
<1>3. inst \in Nat /\ inst' \in Nat /\ now \in Nat /\ now' \in Nat
  BY <1>2, BoundAssumption DEF StoreTypeOK, Times
<1>4. inst <= now /\ ResolutionFile \in File(Contracts) /\ TornHasALine(ResolutionFile)
  BY DEF AuditInv, DueIsRead
<1>5. CASE Scan
  <2>1. /\ inst' = now /\ due' = DueLines(now) /\ ids' = ids /\ now' = now /\ pc = "idle"
    BY <1>5 DEF Scan, store
  <2>2. \A i \in due' : /\ i \in DOMAIN Obs /\ Obs[i] \in Newest(Obs)
                        /\ Window(Obs[i].at) < Window(now)
    BY <2>1 DEF DueLines, Obs, ObservationFile
  <2>3. \A i \in due' : i \in Read("observations")
    BY <2>2, NewestIs DEF Read, Parsed, Obs, ObservationFile
  <2>4. DueIsRead'
    BY <1>1, <1>3, <1>4, <2>1, <2>3 DEF DueIsRead, Read, Parsed, ResolutionFile
  <2>5. ASSUME Sound PROVE DueIsRecent'
    <3> SUFFICES ASSUME NEW i \in due' PROVE Recent(Obs, i)
      BY <1>1, <2>1, <2>2 DEF DueIsRecent, Obs, ObservationFile
    <3>1. PICK j \in DOMAIN Obs : Obs[j] = Obs[i] /\ Obs[j] # Bad /\ Recent(Obs, j)
      BY <2>2, NewestIs
    <3>2. NoRepeat(ObservationFile)
      BY <2>5 DEF Sound, StreamIsSound, Streams, ObservationFile
    <3>3. i = j
      BY <2>2, <3>1, <3>2 DEF NoRepeat, Obs
    <3> QED BY <3>1, <3>3
  <2>6. \A s \in Streams : StreamIsSound(s) => StreamIsSound(s)'
    BY <1>1, <2>1 DEF StreamIsSound
  <2> QED BY <1>1, <1>2, <1>3, <1>4, <2>1, <2>4, <2>5, <2>6, RestIsAudited
<1>6. CASE ~Scan
  <2>1. inst' = inst /\ now <= now'
    BY <1>3, <1>6 DEF Open, NoResult, ResolveDone, NoData, EndScan, Leave, Exit, Tick, history
  <2>2. pc' = "resolve" => pc = "resolve" /\ due' \subseteq due
    BY <1>6 DEF Open, NoResult, ResolveDone, NoData, NextAsset, EndScan, Leave, Exit, Tick
  <2>3. DueIsRead'
    BY <1>1, <1>3, <1>4, <2>1, <2>2 DEF AuditInv, DueIsRead, Read, Parsed, ResolutionFile
  <2>4. Sound => DueIsRecent'
    BY <1>1, <2>1, <2>2 DEF Sound, DueIsRecent, Obs, ObservationFile
  <2>5. \A s \in Streams : StreamIsSound(s) => StreamIsSound(s)'
    <3>1. CASE Open
      BY <1>1, <3>1 DEF Open, StreamIsSound
    <3>2. CASE Leave
      BY <1>1, <3>2 DEF Leave, Exit, StreamIsSound
    <3>3. CASE ~Open /\ ~Leave
      <4>1. ids' = ids /\ (pc' # "down" => pc # "down")
        BY <1>6, <3>3 DEF NoResult, ResolveDone, NoData, NextAsset, EndScan, Tick, Scanning, store
      <4> QED BY <1>1, <4>1 DEF StreamIsSound
    <3> QED BY <3>1, <3>2, <3>3
  <2> QED BY <1>1, <1>2, <1>3, <2>1, <2>3, <2>4, <2>5, RestIsAudited
<1> QED BY <1>5, <1>6

\* A line that joins a stream of points is of the last scan.
LEMMA WriteInTime ==
  ASSUME NEW s, file[s] \in File(Points), InTime(s), Here \in Points, Here # Bad,
         Grows(file[s], file'[s], Here), inst' = inst
  PROVE  InTime(s)'
<1> DEFINE f == file[s].lines
           g == file'[s].lines
<1>1. /\ DOMAIN f \subseteq DOMAIN g /\ \A i \in DOMAIN f : g[i] = f[i]
      /\ \A i \in DOMAIN g : i \notin DOMAIN f /\ g[i] # Bad =>
           g[i] = Here /\ \A j \in DOMAIN f : j < i
      /\ DOMAIN f = 1 .. Len(f)
      /\ \A i, j \in DOMAIN g : i \notin DOMAIN f /\ j \notin DOMAIN f => i = j
  BY GrownRows
<1>2. Here.at = inst /\ inst \in Nat
  <2>1. MaxTime \in Nat
    BY BoundAssumption
  <2> QED BY <2>1 DEF Here, Points, Times
<1>3. \A i \in Read(s) : f[i].at <= inst /\ f[i].at \in Nat /\ i \in Nat /\ i \in DOMAIN f
  BY PointIs DEF InTime, Read
<1>4. \A i \in Read(s)' : i \in DOMAIN g /\ g[i] # Bad /\ (i \in Read(s) \/ i \notin DOMAIN f)
  BY <1>1 DEF Read, Parsed
<1>5. \A i \in Read(s)' : g[i].at <= inst
  BY <1>1, <1>2, <1>3, <1>4
<1>6. \A i, j \in Read(s)' : i < j => g[i].at <= g[j].at
  <2> SUFFICES ASSUME NEW i \in Read(s)', NEW j \in Read(s)', i < j PROVE g[i].at <= g[j].at
    OBVIOUS
  <2>1. CASE j \notin DOMAIN f
    BY <1>1, <1>2, <1>4, <1>5, <2>1
  <2>2. CASE j \in DOMAIN f
    <3>1. j \in Read(s) /\ j \in Nat
      BY <1>3, <1>4, <2>2
    <3>2. i \in Read(s)
      <4> SUFFICES ASSUME i \notin DOMAIN f PROVE FALSE
        BY <1>4
      <4>1. j < i /\ i \in DOMAIN g
        BY <1>1, <1>4, <2>2
      <4>2. i = Len(f) + 1 \/ i \in Nat
        <5>1. f \in Seq(Points \cup {Bad}) /\ Len(f) \in Nat
          BY DEF File
        <5>2. g = f \/ g = Append(f, Here) \/ g = Append(f, Bad)
          BY DEF Grows
        <5> HIDE DEF f, g
        <5>3. DOMAIN g \subseteq Nat
          BY <5>1, <5>2
        <5> QED BY <4>1, <5>3
      <4> QED BY <3>1, <4>1, <4>2, <2>2
    <3> QED BY <1>1, <1>3, <1>4, <2>2, <3>1, <3>2 DEF InTime
  <2> QED BY <2>1, <2>2
<1> QED BY <1>5, <1>6 DEF InTime

\* A write to a stream of points, whole or not.
LEMMA PointIsAudited ==
  ASSUME Room, StoreTypeOK, StoreTypeOK', AuditInv,
         NEW s \in {"observations", "shadow_candidates"}, at <= Len(AssetSeq),
         pc # "down", pc' # "resolve", inst' = inst, now' = now,
         \/ Stored(s, Here) /\ Merges(s) /\ lost' = lost
         \/ Swallowed(s, Here)
         \/ Died(s, Here)
  PROVE  AuditInv'
<1>1. Here \in Points /\ Here # Bad
  BY HereIsAPoint
<1>2. s \in Streams /\ file[s] \in File(Points) /\ TornHasALine(file[s]) /\ "resolutions" # s
  BY DEF Streams, StoreTypeOK, Wellformed, ObservationFile, CandidateFile
<1>3. /\ \A t \in Streams \ {s} : file'[t] = file[t]
      /\ ~merged' => ~merged /\ Grows(file[s], file'[s], Here)
  BY <1>1, <1>2, WriteLines DEF Swallowed, Died
<1>4. ResolutionFile' = ResolutionFile
  BY <1>2, <1>3 DEF ResolutionFile, Streams
<1>5. DueIsRead'
  BY <1>4 DEF AuditInv, DueIsRead
<1>6. lost => lost'
  BY DEF Swallowed, Died
<1> SUFFICES ASSUME Clean' PROVE Sound'
  BY <1>5 DEF AuditInv
<1>7. ~merged' /\ ~lost' /\ ~merged /\ Grows(file[s], file'[s], Here)
  BY <1>3 DEF Clean
<1>8. Extends(file'[s], file[s])
  BY <1>1, <1>2, <1>7, GrowsExtends
<1>9. Extends(ObservationFile', ObservationFile) /\ Extends(ResolutionFile', ResolutionFile)
  BY <1>3, <1>4, <1>8 DEF Extends, ObservationFile, Streams
<1>10. Clean /\ Sound
  BY <1>6, <1>7, <1>9, CleanBefore DEF AuditInv
<1>11. StreamIsSound(s) /\ InTime(s)
  BY <1>2, <1>10 DEF Sound
<1>12. Here \notin ids[s] => Here \notin RowsOf(file[s])
  BY <1>1, <1>2, <1>11, HereIsNew DEF StreamIsSound
<1>13. StreamIsSound(s)' /\ \A t \in Streams \ {s} : pc' # "down" => ids'[t] = ids[t]
  BY <1>1, <1>2, <1>7, <1>11, <1>12, WriteIsSound
<1>14. \A t \in Streams : StreamIsSound(t)'
  BY <1>3, <1>10, <1>13 DEF Sound, StreamIsSound
<1>15. InTime(s)'
  BY <1>1, <1>2, <1>7, <1>11, WriteInTime
<1>16. \A t \in {"observations", "shadow_candidates"} : InTime(t)'
  <2> SUFFICES ASSUME NEW t \in {"observations", "shadow_candidates"}, t # s PROVE InTime(t)'
    BY <1>15
  <2>1. file'[t] = file[t] /\ InTime(t)
    BY <1>3, <1>10 DEF Streams, Sound
  <2> QED BY <2>1 DEF InTime, Read
<1>17. Read("resolutions")' = Read("resolutions") /\ Res' = Res
  BY <1>4 DEF Read, Res, ResolutionFile
<1>18. OfTheEnded'
  BY <1>10, <1>17 DEF Sound, OfTheEnded
<1>19. \A q \in Read("observations") : q \in Read("observations")' /\ Obs'[q] = Obs[q]
  BY <1>9 DEF Extends, Read, Parsed, Obs, ObservationFile
<1>20. OfTheObserved'
  BY <1>10, <1>17, <1>19 DEF Sound, OfTheObserved
<1>21. \A q \in Read("observations")' : q \notin Read("observations") => Obs'[q] = Here
  <2>1. CASE s = "observations"
    <3>1. \A i \in DOMAIN file'[s].lines :
            i \notin DOMAIN file[s].lines /\ file'[s].lines[i] # Bad => file'[s].lines[i] = Here
      BY <1>1, <1>2, <1>7, GrownRows
    <3> QED BY <2>1, <3>1, <1>8 DEF Extends, Read, Parsed, Obs, ObservationFile
  <2>2. CASE s # "observations"
    <3>1. file'["observations"] = file["observations"]
      BY <1>3, <2>2 DEF Streams
    <3> QED BY <3>1 DEF Read
  <2> QED BY <2>1, <2>2
<1>22. \A k \in Read("resolutions") : Res[k] # Contract(Here)
  <2> SUFFICES ASSUME NEW k \in Read("resolutions"), Res[k] = Contract(Here) PROVE FALSE
    OBVIOUS
  <2>1. Res[k].win < Window(inst)
    BY <1>10 DEF Sound, OfTheEnded
  <2>2. Res[k].win = Window(inst)
    BY <1>1, ContractIs DEF Here
  <2>3. inst \in Nat
    BY BoundAssumption DEF StoreTypeOK, Times
  <2>4. Window(inst) \in Nat
    BY <2>3, WindowsInOrder
  <2> QED BY <2>1, <2>2, <2>4
<1>23. NotFarBefore'
  <2> SUFFICES ASSUME NEW k \in Read("resolutions"), NEW l \in Read("resolutions"),
                      k < l, Limit # 0
               PROVE  \E q \in Read("observations")' :
                        /\ Contract(Obs'[q]) = Res[l]
                        /\ \A p \in Read("observations")' :
                             Contract(Obs'[p]) = Res[k] => p < q + Limit
    BY <1>17 DEF NotFarBefore
  <2>1. PICK q \in Read("observations") :
          /\ Contract(Obs[q]) = Res[l]
          /\ \A p \in Read("observations") : Contract(Obs[p]) = Res[k] => p < q + Limit
    BY <1>10 DEF Sound, NotFarBefore
  <2>2. \A p \in Read("observations")' : Contract(Obs'[p]) = Res[k] => p < q + Limit
    BY <1>19, <1>21, <1>22, <2>1
  <2> QED BY <1>19, <2>1, <2>2
<1>24. DueIsRecent'
  BY DEF DueIsRecent
<1> QED BY <1>14, <1>16, <1>18, <1>20, <1>23, <1>24 DEF Sound

\* A resolution, whole or not.
LEMMA ResolutionIsAudited ==
  ASSUME StoreTypeOK, StoreTypeOK', AuditInv, pc = "resolve", due # {},
         inst' = inst, now' = now, pc' = "resolve" => due' \subseteq due,
         \/ Stored("resolutions", DueContract) /\ Merges("resolutions") /\ lost' = lost
         \/ Swallowed("resolutions", DueContract)
         \/ Died("resolutions", DueContract)
  PROVE  AuditInv'
<1> DEFINE s == "resolutions"
           row == DueContract
<1>1. DueIsRead /\ s \in Streams /\ file[s] \in File(Contracts) /\ TornHasALine(file[s])
  BY DEF Streams, AuditInv, DueIsRead, ResolutionFile
<1>2. /\ First \in due /\ First \in Read("observations")
      /\ Obs[First] \in Points /\ row = Contract(Obs[First])
      /\ row \in Contracts /\ row # Bad
  BY <1>1, FirstIsDue
<1> HIDE DEF row
<1>3. /\ file'[s] \in File(Contracts) /\ TornHasALine(file'[s])
      /\ \A t \in Streams \ {s} : file'[t] = file[t]
      /\ ~merged' => ~merged /\ Grows(file[s], file'[s], row)
  BY <1>1, <1>2, WriteLines DEF Swallowed, Died, row
<1>4. ObservationFile' = ObservationFile /\ CandidateFile' = CandidateFile
  BY <1>3 DEF ObservationFile, CandidateFile, Streams
<1>5. /\ Read("observations")' = Read("observations") /\ Obs' = Obs
      /\ Read("shadow_candidates")' = Read("shadow_candidates")
  BY <1>4 DEF Read, Obs, ObservationFile, CandidateFile
<1>6. DueIsRead'
  BY <1>1, <1>3, <1>5 DEF DueIsRead, ResolutionFile
<1>7. lost => lost'
  BY DEF Swallowed, Died
<1> SUFFICES ASSUME Clean' PROVE Sound'
  BY <1>6 DEF AuditInv
<1>8. ~merged' /\ ~lost' /\ ~merged /\ Grows(file[s], file'[s], row)
  BY <1>3 DEF Clean
<1>9. Extends(file'[s], file[s])
  BY <1>1, <1>2, <1>8, GrowsExtends
<1>10. Extends(ObservationFile', ObservationFile) /\ Extends(ResolutionFile', ResolutionFile)
  BY <1>4, <1>9 DEF Extends, ResolutionFile
<1>11. Clean /\ Sound
  BY <1>1, <1>7, <1>8, <1>10, CleanBefore DEF AuditInv
<1>12. row \notin ids[s] => row \notin RowsOf(file[s])
  BY <1>11, DueIsNew DEF row
<1>13. StreamIsSound(s)' /\ \A t \in Streams \ {s} : pc' # "down" => ids'[t] = ids[t]
  <2>1. StreamIsSound(s)
    BY <1>1, <1>11 DEF Sound
  <2> QED BY <1>1, <1>2, <1>8, <1>12, <2>1, WriteIsSound DEF row
<1>14. \A t \in Streams : StreamIsSound(t)'
  BY <1>3, <1>11, <1>13 DEF Sound, StreamIsSound
<1>15. (InTime("observations") /\ InTime("shadow_candidates"))'
  BY <1>4, <1>5, <1>11 DEF Sound, InTime, ObservationFile, CandidateFile
<1>16. \A l \in Read(s) : l \in Read(s)' /\ Res'[l] = Res[l]
  BY <1>9 DEF Extends, Read, Parsed, Res, ResolutionFile
<1>17. \A l \in Read(s)' : l \notin Read(s) => Res'[l] = row /\ \A k \in Read(s) : k < l
  <2>1. \A i \in DOMAIN file'[s].lines :
          i \notin DOMAIN file[s].lines /\ file'[s].lines[i] # Bad =>
            file'[s].lines[i] = row /\ \A j \in DOMAIN file[s].lines : j < i
    BY <1>1, <1>2, <1>8, GrownRows
  <2> QED BY <2>1, <1>9 DEF Extends, Read, Parsed, Res, ResolutionFile
<1>18. \A k, l \in Read(s)' : k \notin Read(s) /\ l \notin Read(s) => k = l
  <2>1. \A i, j \in DOMAIN file'[s].lines :
          i \notin DOMAIN file[s].lines /\ j \notin DOMAIN file[s].lines => i = j
    BY <1>1, <1>2, <1>8, GrownRows
  <2> QED BY <2>1, <1>9 DEF Extends, Read, Parsed
<1>19. OfTheEnded'
  <2>1. row.win < Window(inst)
    BY <1>2, <1>11, ContractIs DEF Sound, DueIsRecent
  <2> QED BY <1>11, <1>16, <1>17, <2>1 DEF Sound, OfTheEnded
<1>20. OfTheObserved'
  BY <1>2, <1>5, <1>11, <1>16, <1>17 DEF Sound, OfTheObserved
<1>21. NotFarBefore'
  <2> SUFFICES ASSUME NEW k \in Read(s)', NEW l \in Read(s)', k < l, Limit # 0
               PROVE  \E q \in Read("observations") :
                        /\ Contract(Obs[q]) = Res'[l]
                        /\ \A p \in Read("observations") :
                             Contract(Obs[p]) = Res'[k] => p < q + Limit
    BY <1>5 DEF NotFarBefore
  <2>1. k \in Nat /\ l \in Nat
    <3>1. DOMAIN file'[s].lines \subseteq Nat
      <4>1. file'[s].lines \in Seq(Contracts \cup {Bad})
        BY <1>3 DEF File
      <4> QED BY <4>1
    <3> QED BY <3>1 DEF Read
  <2>2. k \in Read(s)
    BY <1>17, <1>18, <2>1
  <2>3. CASE l \in Read(s)
    BY <1>11, <1>16, <2>2, <2>3 DEF Sound, NotFarBefore
  <2>4. CASE l \notin Read(s)
    <3>1. Contract(Obs[First]) = Res'[l]
      BY <1>2, <1>17, <2>4
    <3>2. ASSUME NEW p \in Read("observations") PROVE p < First + Limit
      <4>1. TailIsBad(ObservationFile)
        BY <1>11 DEF Sound, StreamIsSound, Streams, ObservationFile
      <4>2. Recent(Obs, First)
        BY <1>2, <1>11 DEF Sound, DueIsRecent
      <4>3. /\ p \in DOMAIN ObservationFile.lines /\ ObservationFile.lines[p] # Bad
            /\ First \in DOMAIN ObservationFile.lines /\ ObservationFile \in File(Points)
        BY <1>2, <3>2 DEF Read, Parsed, ObservationFile, StoreTypeOK, Wellformed
      <4> QED BY <4>1, <4>2, <4>3, NearTheEnd DEF Obs
    <3> QED BY <1>2, <3>1, <3>2
  <2> QED BY <2>3, <2>4
<1>22. DueIsRecent'
  BY <1>5, <1>11 DEF Sound, DueIsRecent
<1> QED BY <1>14, <1>15, <1>19, <1>20, <1>21, <1>22 DEF Sound

\* An empty directory.
LEMMA AuditBegins == Init => AuditInv
<1> SUFFICES ASSUME Init PROVE AuditInv
  OBVIOUS
<1>1. StoreTypeOK
  BY CollectorInit DEF CollectorInv
<1>2. \A s \in Streams : file[s] = EmptyFile /\ DOMAIN file[s].lines = {} /\ Read(s) = {}
  BY DEF Init, EmptyFile, Read
<1>3. EmptyFile \in File(Contracts) /\ TornHasALine(EmptyFile)
  BY DEF EmptyFile, File, TornHasALine
<1>4. DueIsRead
  BY <1>2, <1>3 DEF Init, DueIsRead, ResolutionFile, Streams
<1>5. \A s \in Streams : StreamIsSound(s)
  BY <1>2 DEF Init, StreamIsSound, TailIsBad, NoRepeat
<1>6. Sound
  BY <1>2, <1>5 DEF Init, Sound, InTime, OfTheEnded, OfTheObserved, NotFarBefore,
     DueIsRecent, Streams
<1> QED BY <1>1, <1>4, <1>6 DEF AuditInv

\* Every step of the composition keeps what the audit relies on.
LEMMA AuditStep ==
  ASSUME Room, CollectorInv, CollectorInv', AuditInv,
         [ContractsNext]_<<part, vars, studyVars>>
  PROVE  AuditInv'
<1>1. StoreTypeOK /\ StoreTypeOK'
  BY DEF CollectorInv
<1>2. CASE UNCHANGED vars
  <2>1. /\ file' = file /\ ids' = ids /\ now' = now /\ pc' = pc /\ inst' = inst /\ due' = due
        /\ merged' = merged /\ lost' = lost
    BY <1>2 DEF vars, store, history
  <2>2. inst \in Nat
    BY <1>1, BoundAssumption DEF StoreTypeOK, Times
  <2>3. DueIsRead'
    BY <2>1 DEF AuditInv, DueIsRead, Read, ResolutionFile
  <2>4. Sound => DueIsRecent'
    BY <2>1 DEF Sound, DueIsRecent, Obs, ObservationFile
  <2>5. \A s \in Streams : StreamIsSound(s) => StreamIsSound(s)'
    BY <2>1 DEF StreamIsSound
  <2> QED BY <1>1, <2>1, <2>2, <2>3, <2>4, <2>5, RestIsAudited
<1>3. CASE Open \/ Scan \/ NoResult \/ ResolveDone \/ NoData \/ EndScan \/ Leave \/ Tick
  BY <1>3, LoopIsAudited
<1>4. CASE Resolve \/ ResolveFails
  BY <1>1, <1>4, ResolutionIsAudited DEF Resolve, ResolveFails, Swallowed, CutShort
<1>5. CASE Observe
  BY <1>1, <1>5, PointIsAudited DEF Observe, Scanning, NextAsset
<1>6. CASE Candidate
  BY <1>1, <1>6, PointIsAudited DEF Candidate, Scanning, NextAsset
<1>7. CASE AppendFails
  BY <1>1, <1>7, PointIsAudited DEF AppendFails, Scanning, NextAsset, Swallowed, CutShort
<1>8. CASE Crash
  <2>1. CASE pc = "resolve" /\ due # {} /\ Died("resolutions", DueContract)
    BY <1>1, <2>1, ResolutionIsAudited DEF Died, Exit, CutShort
  <2>2. CASE Scanning("observe") /\ Died("observations", Here)
    BY <1>1, <2>2, PointIsAudited DEF Died, Exit, CutShort, Scanning
  <2>3. CASE Scanning("candidate") /\ Died("shadow_candidates", Here)
    BY <1>1, <2>3, PointIsAudited DEF Died, Exit, CutShort, Scanning
  <2> QED BY <1>8, <2>1, <2>2, <2>3 DEF Crash
<1> QED BY <1>2, <1>3, <1>4, <1>5, <1>6, <1>7, <1>8 DEF ContractsNext, Collect, Learn

\* The audit of the directory finds no identifier twice, no resolution without
\* its observation and no observation of the future, after any number of
\* restarts and of appends that broke off, as long as the memory has room for
\* one scan of the assets (ShadowStore.append, resolve_available, audit_store).
THEOREM AuditAlwaysPasses == ASSUME Room PROVE ContractsSpec => []AuditPasses
<1>1. ContractsInit => CollectorInv /\ AuditInv
  BY CollectorInit, AuditBegins DEF ContractsInit
<1>2. CollectorInv /\ AuditInv /\ [ContractsNext]_<<part, vars, studyVars>> =>
        (CollectorInv /\ AuditInv)'
  BY CollectorStep, AuditStep
<1>3. AuditInv => AuditPasses
  <2> SUFFICES ASSUME AuditInv, ~merged, ~lost, ScannedOften PROVE AuditErrors = {}
    BY DEF AuditPasses
  <2>1. Sound /\ inst <= now /\ inst \in Nat /\ now \in Nat
    BY BoundAssumption DEF AuditInv, Clean, DueIsRead, StoreTypeOK, Times
  <2>2. ASSUME NEW s \in Streams, NEW i \in Read(s), NEW j \in Read(s),
               file[s].lines[i] = file[s].lines[j]
        PROVE  i = j
    BY <2>1, <2>2 DEF Sound, StreamIsSound, NoRepeat, Read, Parsed
  <2>3. ASSUME NEW c \in RowsOf(file["resolutions"])
        PROVE  \E o \in RowsOf(file["observations"]) : Contract(o) = c
    <3>1. PICK k \in Read("resolutions") : Res[k] = c
      BY <2>3 DEF RowsOf, Read, Parsed, Res, ResolutionFile
    <3>2. PICK q \in Read("observations") : Contract(Obs[q]) = c
      BY <2>1, <3>1 DEF Sound, OfTheObserved
    <3> QED BY <3>2 DEF RowsOf, Read, Parsed, Obs, ObservationFile
  <2>4. ASSUME NEW o \in RowsOf(file["observations"]) PROVE ~(o.at > now)
    <3>1. PICK i \in Read("observations") : file["observations"].lines[i] = o
      BY <2>4 DEF RowsOf, Read, Parsed
    <3>2. o.at \in Nat
      BY <3>1, PointIs DEF AuditInv, StoreTypeOK, Wellformed, ObservationFile
    <3>3. o.at <= inst
      BY <2>1, <3>1 DEF Sound, InTime
    <3> QED BY <2>1, <3>2, <3>3
  <2> QED BY <2>2, <2>3, <2>4 DEF AuditErrors
<1> QED BY <1>1, <1>2, <1>3, PTL DEF ContractsSpec

-----------------------------------------------------------------------------
\* The studies.

\* Counting in an instance is counting.
LEMMA StudyCounts ==
  ASSUME NEW S
  PROVE  Ks!Cardinality(S) = Cardinality(S) /\ Ks!IsFiniteSet(S) = IsFiniteSet(S)
<1>1. Ks!Cardinality(S) = Cardinality(S)
  BY DEF Ks!Cardinality, Cardinality
<1>2. Ks!IsFiniteSet(S) = IsFiniteSet(S)
  BY DEF Ks!IsFiniteSet, IsFiniteSet
<1> QED BY <1>1, <1>2

\* A finite set of contracts.
IsContracts(cs) == cs \subseteq Nat \X StudyAssets /\ IsFiniteSet(cs)

\* Some of finitely many contracts are finitely many.
LEMMA SomeContracts ==
  ASSUME NEW cs, IsContracts(cs), NEW ds \in SUBSET cs
  PROVE  IsContracts(ds)
BY FS_Subset DEF IsContracts

\* Finitely many contracts have finitely many windows.
LEMMA FiniteWindows ==
  ASSUME NEW cs, IsContracts(cs)
  PROVE  Ks!WindowsOf(cs) \subseteq Nat /\ IsFiniteSet(Ks!WindowsOf(cs))
<1> DEFINE W == Ks!WindowsOf(cs)
           f == [c \in cs |-> c[1]]
<1>1. f \in [cs -> W] /\ \A w \in W : \E c \in cs : f[c] = w
  BY DEF Ks!WindowsOf
<1>2. f \in Surjection(cs, W)
  BY <1>1 DEF Surjection
<1>3. IsFiniteSet(W)
  BY <1>2, FS_Surjection DEF IsContracts
<1>4. W \subseteq Nat
  BY DEF Ks!WindowsOf, IsContracts
<1> QED BY <1>3, <1>4

\* What is listed of finitely many windows is a finite set of contracts.
LEMMA FiniteListing ==
  ASSUME NEW windows, windows \subseteq Nat, IsFiniteSet(windows)
  PROVE  IsContracts(Ks!Contracts(windows))
<1>1. IsFiniteSet(StudyAssets)
  BY StudyAssumption, StudyCounts DEF Ks!StudyConstants
<1>2. IsFiniteSet(windows \X StudyAssets)
  BY <1>1, FS_Product
<1> QED BY <1>2 DEF IsContracts, Ks!Contracts

\* The first windows are those up to one of them.
LEMMA FirstIsDownward ==
  ASSUME NEW windows, windows \subseteq Nat, IsFiniteSet(windows), NEW n \in Int,
         NEW w \in Ks!First(n, windows), NEW v \in windows, v <= w
  PROVE  v \in Ks!First(n, windows)
<1> DEFINE upTo(x) == {u \in windows : u <= x}
<1>1. upTo(v) \subseteq upTo(w)
  <2> SUFFICES ASSUME NEW u \in windows, u <= v PROVE u <= w
    OBVIOUS
  <2>1. u \in Nat /\ v \in Nat /\ w \in Nat
    BY DEF Ks!First
  <2> QED BY <2>1
<1>2. IsFiniteSet(upTo(w)) /\ IsFiniteSet(upTo(v))
  BY FS_Subset
<1>3. Cardinality(upTo(v)) <= Cardinality(upTo(w))
  BY <1>1, <1>2, FS_Subset
<1>4. Cardinality(upTo(w)) <= n
  BY StudyCounts DEF Ks!First
<1>5. Cardinality(upTo(v)) \in Nat /\ Cardinality(upTo(w)) \in Nat
  BY <1>2, FS_CardinalityType
<1> HIDE DEF upTo
<1>6. Cardinality(upTo(v)) <= n
  BY <1>3, <1>4, <1>5
<1> QED BY <1>6, StudyCounts DEF Ks!First, upTo

\* The parts of a split follow one another, window by window.
LEMMA SplitIsChronological ==
  ASSUME NEW cs, IsContracts(cs)
  PROVE  LET split == Ks!Split(cs)
         IN  /\ split.development \subseteq cs /\ split.validation \subseteq cs
             /\ split.sealed_holdout \subseteq cs
             /\ Ks!Before(split.development, split.validation)
             /\ Ks!Before(split.development, split.sealed_holdout)
             /\ Ks!Before(split.validation, split.sealed_holdout)
<1> DEFINE W == Ks!WindowsOf(cs)
           n == Cardinality(W)
           a == (6 * n) \div 10
           b == (8 * n) \div 10
           dev == Ks!First(a, W)
           val == Ks!First(b, W) \ dev
           split == Ks!Split(cs)
<1>1. W \subseteq Nat /\ IsFiniteSet(W)
  BY FiniteWindows
<1>2. n \in Nat
  BY <1>1, FS_CardinalityType
<1>3. a \in Int /\ b \in Int
  BY <1>2
<1>4. /\ split.development = Ks!OfWindows(cs, dev)
      /\ split.validation = Ks!OfWindows(cs, val)
      /\ split.sealed_holdout = Ks!OfWindows(cs, W \ (dev \cup val))
  BY StudyCounts DEF Ks!Split
<1> HIDE DEF a, b, n, split
<1>5. \A x \in dev, y \in W \ dev : x < y
  <2> SUFFICES ASSUME NEW x \in dev, NEW y \in W, y \notin dev PROVE x < y
    OBVIOUS
  <2>1. x \in Nat /\ y \in Nat
    BY <1>1 DEF Ks!First
  <2>2. ~(y <= x)
    BY <1>1, <1>3, FirstIsDownward
  <2> QED BY <2>1, <2>2
<1>6. \A x \in Ks!First(b, W), y \in W \ Ks!First(b, W) : x < y
  <2> SUFFICES ASSUME NEW x \in Ks!First(b, W), NEW y \in W, y \notin Ks!First(b, W)
               PROVE  x < y
    OBVIOUS
  <2>1. x \in Nat /\ y \in Nat
    BY <1>1 DEF Ks!First
  <2>2. ~(y <= x)
    BY <1>1, <1>3, FirstIsDownward
  <2> QED BY <2>1, <2>2
<1>7. \A c \in cs : c[1] \in W
  BY DEF Ks!WindowsOf
<1>8. Ks!Before(split.development, split.validation)
  BY <1>4, <1>5, <1>7 DEF Ks!Before, Ks!OfWindows
<1>9. Ks!Before(split.development, split.sealed_holdout)
  BY <1>4, <1>5, <1>7 DEF Ks!Before, Ks!OfWindows
<1>10. Ks!Before(split.validation, split.sealed_holdout)
  <2>1. \A x \in val, y \in W \ (dev \cup val) : x < y
    BY <1>6
  <2> QED BY <1>4, <1>7, <2>1 DEF Ks!Before, Ks!OfWindows
<1>11. /\ split.development \subseteq cs /\ split.validation \subseteq cs
       /\ split.sealed_holdout \subseteq cs
  BY <1>4 DEF Ks!OfWindows
<1> QED BY <1>8, <1>9, <1>10, <1>11 DEF split

\* What a description tells of the windows it starts with.
LEMMA DescribedStart ==
  ASSUME NEW cs, IsContracts(cs)
  PROVE  /\ Ks!Description(cs).rows = 0 <=> cs = {}
         /\ \A c \in cs : Ks!Description(cs).start <= c[1]
         /\ cs # {} => \E c \in cs : Ks!Description(cs).start = c[1]
<1> DEFINE W == Ks!WindowsOf(cs)
<1>1. Ks!Description(cs).rows = Cardinality(cs)
  BY StudyCounts DEF Ks!Description
<1>2. Cardinality(cs) = 0 <=> cs = {}
  BY FS_EmptySet DEF IsContracts
<1>3. ASSUME cs # {}
      PROVE  /\ Ks!Description(cs).start \in W
             /\ \A w \in W : Ks!Description(cs).start <= w
  <2>1. W \subseteq Nat /\ W # {}
    BY <1>3, FiniteWindows DEF Ks!WindowsOf
  <2>2. \E w \in W : \A v \in W : w <= v
    BY <2>1, LeastElement
  <2>3. Ks!Description(cs).start = CHOOSE w \in W : \A v \in W : w <= v
    BY DEF Ks!Description, Ks!Min
  <2> HIDE DEF W
  <2> QED BY <2>2, <2>3
<1>4. \A c \in cs : c[1] \in W
  BY DEF Ks!WindowsOf
<1>5. \A w \in W : \E c \in cs : w = c[1]
  BY DEF Ks!WindowsOf
<1> QED BY <1>1, <1>2, <1>3, <1>4, <1>5

-----------------------------------------------------------------------------
\* Between two studies nothing is remembered; within one, the place is that of
\* one of its steps.
PlaceOK ==
  /\ study = NONE => place = 1 /\ scores = {}
  /\ study # NONE => study \in Ks!Studies /\ place \in 1 .. Len(Ks!Steps(study))

\* Lists and histories are those of finitely many contracts.
ContractsOK ==
  /\ IsContracts(listed) /\ IsContracts(rows)
  /\ markets # NONE => IsContracts(markets)

\* A study that splits its rows has judged nothing before it read them.
Unscored == study # "step4" /\ place <= 3 => scores = {}

\* Step 5 opens the holdout with the model that it fitted itself, before it, and
\* with a manifest of that model.
FittedHere ==
  study = "step5" =>
    /\ place >= 4 => \E c \in Candidates : picked = Ks!Final(c)
    /\ place >= 5 => model = picked
    /\ place >= 7 => manifest.whole /\ manifest.model = model

\* Step 6 compares the model of the manifest.
VouchedFor ==
  study = "step6" =>
    /\ place <= 5 => scores = {}
    /\ place >= 5 => manifest.whole /\ picked = manifest.model

\* What a manifest's model learned came before the holdout the manifest tells of.
ManifestIsSealed ==
  LET holdout == manifest.splits.sealed_holdout
  IN  manifest.whole /\ holdout.rows # 0 =>
        \A c \in manifest.model.learned : c[1] \in Nat /\ c[1] < holdout.start

\* What the scores of a study owe to the windows they are of.
Sealed(s) ==
  s.of # "start gap" =>
    /\ Ks!Before(s.learned \cup s.chosenBy, s.judged \cap Ks!Splits.sealed_holdout)
    /\ s.of # "frozen" => Ks!Before(s.learned, s.judged \cap Ks!Splits.validation)

ScoresAreSealed == study # "step4" => \A s \in scores : Sealed(s)

StudyInv ==
  /\ PlaceOK /\ ContractsOK /\ Unscored /\ FittedHere /\ VouchedFor
  /\ ManifestIsSealed /\ ScoresAreSealed

\* Where each step of each study is.
LEMMA PlacesOfSteps ==
  /\ Ks!Steps("step4") = <<"contracts", "list", "history", "replay", "summary4">>
  /\ Ks!Steps("step5") = <<"contracts", "history", "choose", "model", "hash",
                           "manifest", "open", "summary5">>
  /\ Ks!Steps("step6") = <<"contracts", "history", "hash", "verify", "compare",
                           "summary6">>
  /\ Ks!Steps("step7") = <<"contracts", "history", "measure", "hash", "summary7",
                           "provenance7">>
  /\ Ks!Steps("step8") = <<"contracts", "history", "bound", "summary8">>
BY DEF Ks!Steps

\* Each study has at least four steps.
LEMMA StepCounts ==
  ASSUME NEW s \in Ks!Studies
  PROVE  Len(Ks!Steps(s)) \in Nat /\ Len(Ks!Steps(s)) >= 4
<1>1. CASE s = "step4"
  <2>1. Len(Ks!Steps(s)) = 5
    BY <1>1, PlacesOfSteps
  <2> QED BY <2>1
<1>2. CASE s = "step5"
  <2>1. Len(Ks!Steps(s)) = 8
    BY <1>2, PlacesOfSteps
  <2> QED BY <2>1
<1>3. CASE s = "step6"
  <2>1. Len(Ks!Steps(s)) = 6
    BY <1>3, PlacesOfSteps
  <2> QED BY <2>1
<1>4. CASE s = "step7"
  <2>1. Len(Ks!Steps(s)) = 6
    BY <1>4, PlacesOfSteps
  <2> QED BY <2>1
<1>5. CASE s = "step8"
  <2>1. Len(Ks!Steps(s)) = 4
    BY <1>5, PlacesOfSteps
  <2> QED BY <2>1
<1> QED BY <1>1, <1>2, <1>3, <1>4, <1>5 DEF Ks!Studies

\* A step that is none of the last ones has another after it.
LEMMA PlaceOfStep ==
  ASSUME PlaceOK, NEW step, Ks!At(step)
  PROVE  /\ study \in Ks!Studies /\ place \in Nat
         /\ place + 1 \in 1 .. Len(Ks!Steps(study))
              \/ step \in {"summary4", "summary5", "summary6", "provenance7", "summary8"}
         /\ step = "contracts" => place = 1
         /\ step = "history" => place = IF study = "step4" THEN 3 ELSE 2
         /\ step = "list" => place = 2 /\ study = "step4"
         /\ step = "choose" => place = 3
         /\ step = "model" => place = 4
         /\ step = "manifest" => place = 6
         /\ step = "open" => place = 7
         /\ step = "hash" /\ study = "step5" => place = 5
         /\ step = "hash" /\ study = "step6" => place = 3
         /\ step = "hash" => study # "step4" /\ place >= 3
         /\ step = "verify" => place = 4
         /\ step = "compare" => place = 5
         /\ step \in {"measure", "bound"} => place = 3
         /\ step = "replay" => place = 4 /\ study = "step4"
         /\ step = "summary7" => place = 5 /\ study = "step7"
         /\ step = "summary5" => place = 8 /\ study = "step5"
<1>1. study # NONE /\ study \in Ks!Studies /\ place \in 1 .. Len(Ks!Steps(study))
  BY DEF PlaceOK, Ks!At
<1>2. Ks!Steps(study)[place] = step
  BY DEF Ks!At
<1>3. CASE study = "step4"
  <2>1. Ks!Steps(study) = Ks!Steps("step4")
    BY <1>3
  <2>2. Len(Ks!Steps(study)) = 5
    BY <2>1, PlacesOfSteps
  <2>3. place \in 1 .. 5
    BY <1>1, <2>2
  <2>4. place \in {1, 2, 3, 4, 5}
    BY <2>3
  <2>5. place = 1 => step = "contracts"
    BY <1>2, <2>1, PlacesOfSteps
  <2>6. place = 2 => step = "list"
    BY <1>2, <2>1, PlacesOfSteps
  <2>7. place = 3 => step = "history"
    BY <1>2, <2>1, PlacesOfSteps
  <2>8. place = 4 => step = "replay"
    BY <1>2, <2>1, PlacesOfSteps
  <2>9. place = 5 => step = "summary4"
    BY <1>2, <2>1, PlacesOfSteps
  <2> QED BY <1>1, <1>3, <2>2, <2>4, <2>5, <2>6, <2>7, <2>8, <2>9
<1>4. CASE study = "step5"
  <2>1. Ks!Steps(study) = Ks!Steps("step5")
    BY <1>4
  <2>2. Len(Ks!Steps(study)) = 8
    BY <2>1, PlacesOfSteps
  <2>3. place \in 1 .. 8
    BY <1>1, <2>2
  <2>4. place \in {1, 2, 3, 4, 5, 6, 7, 8}
    BY <2>3
  <2>5. place = 1 => step = "contracts"
    BY <1>2, <2>1, PlacesOfSteps
  <2>6. place = 2 => step = "history"
    BY <1>2, <2>1, PlacesOfSteps
  <2>7. place = 3 => step = "choose"
    BY <1>2, <2>1, PlacesOfSteps
  <2>8. place = 4 => step = "model"
    BY <1>2, <2>1, PlacesOfSteps
  <2>9. place = 5 => step = "hash"
    BY <1>2, <2>1, PlacesOfSteps
  <2>10. place = 6 => step = "manifest"
    BY <1>2, <2>1, PlacesOfSteps
  <2>11. place = 7 => step = "open"
    BY <1>2, <2>1, PlacesOfSteps
  <2>12. place = 8 => step = "summary5"
    BY <1>2, <2>1, PlacesOfSteps
  <2> QED BY <1>1, <1>4, <2>2, <2>4, <2>5, <2>6, <2>7, <2>8, <2>9, <2>10, <2>11, <2>12
<1>5. CASE study = "step6"
  <2>1. Ks!Steps(study) = Ks!Steps("step6")
    BY <1>5
  <2>2. Len(Ks!Steps(study)) = 6
    BY <2>1, PlacesOfSteps
  <2>3. place \in 1 .. 6
    BY <1>1, <2>2
  <2>4. place \in {1, 2, 3, 4, 5, 6}
    BY <2>3
  <2>5. place = 1 => step = "contracts"
    BY <1>2, <2>1, PlacesOfSteps
  <2>6. place = 2 => step = "history"
    BY <1>2, <2>1, PlacesOfSteps
  <2>7. place = 3 => step = "hash"
    BY <1>2, <2>1, PlacesOfSteps
  <2>8. place = 4 => step = "verify"
    BY <1>2, <2>1, PlacesOfSteps
  <2>9. place = 5 => step = "compare"
    BY <1>2, <2>1, PlacesOfSteps
  <2>10. place = 6 => step = "summary6"
    BY <1>2, <2>1, PlacesOfSteps
  <2> QED BY <1>1, <1>5, <2>2, <2>4, <2>5, <2>6, <2>7, <2>8, <2>9, <2>10
<1>6. CASE study = "step7"
  <2>1. Ks!Steps(study) = Ks!Steps("step7")
    BY <1>6
  <2>2. Len(Ks!Steps(study)) = 6
    BY <2>1, PlacesOfSteps
  <2>3. place \in 1 .. 6
    BY <1>1, <2>2
  <2>4. place \in {1, 2, 3, 4, 5, 6}
    BY <2>3
  <2>5. place = 1 => step = "contracts"
    BY <1>2, <2>1, PlacesOfSteps
  <2>6. place = 2 => step = "history"
    BY <1>2, <2>1, PlacesOfSteps
  <2>7. place = 3 => step = "measure"
    BY <1>2, <2>1, PlacesOfSteps
  <2>8. place = 4 => step = "hash"
    BY <1>2, <2>1, PlacesOfSteps
  <2>9. place = 5 => step = "summary7"
    BY <1>2, <2>1, PlacesOfSteps
  <2>10. place = 6 => step = "provenance7"
    BY <1>2, <2>1, PlacesOfSteps
  <2> QED BY <1>1, <1>6, <2>2, <2>4, <2>5, <2>6, <2>7, <2>8, <2>9, <2>10
<1>7. CASE study = "step8"
  <2>1. Ks!Steps(study) = Ks!Steps("step8")
    BY <1>7
  <2>2. Len(Ks!Steps(study)) = 4
    BY <2>1, PlacesOfSteps
  <2>3. place \in 1 .. 4
    BY <1>1, <2>2
  <2>4. place \in {1, 2, 3, 4}
    BY <2>3
  <2>5. place = 1 => step = "contracts"
    BY <1>2, <2>1, PlacesOfSteps
  <2>6. place = 2 => step = "history"
    BY <1>2, <2>1, PlacesOfSteps
  <2>7. place = 3 => step = "bound"
    BY <1>2, <2>1, PlacesOfSteps
  <2>8. place = 4 => step = "summary8"
    BY <1>2, <2>1, PlacesOfSteps
  <2> QED BY <1>1, <1>7, <2>2, <2>4, <2>5, <2>6, <2>7, <2>8
<1> QED BY <1>1, <1>3, <1>4, <1>5, <1>6, <1>7 DEF Ks!Studies

\* A report comes last, but for the first one of step 7.
LEMMA PlaceOfReport ==
  ASSUME PlaceOK, NEW report \in Ks!Reports, Ks!At(report)
  PROVE  place = Len(Ks!Steps(study)) \/ (place = 5 /\ study = "step7")
<1>1. study # NONE /\ study \in Ks!Studies /\ place \in 1 .. Len(Ks!Steps(study))
  BY DEF PlaceOK, Ks!At
<1>2. Ks!Steps(study)[place] = report
  BY DEF Ks!At
<1>3. CASE study = "step4"
  <2>1. Ks!Steps(study) = Ks!Steps("step4") /\ Len(Ks!Steps(study)) = 5
    BY <1>3, PlacesOfSteps
  <2>2. place \in 1 .. 5
    BY <1>1, <2>1
  <2>3. place # 1
    BY <1>2, <2>1, PlacesOfSteps DEF Ks!Reports
  <2>4. place # 2
    BY <1>2, <2>1, PlacesOfSteps DEF Ks!Reports
  <2>5. place # 3
    BY <1>2, <2>1, PlacesOfSteps DEF Ks!Reports
  <2>6. place # 4
    BY <1>2, <2>1, PlacesOfSteps DEF Ks!Reports
  <2>7. place = 5
    BY <2>2, <2>3, <2>4, <2>5, <2>6
  <2> QED BY <1>3, <2>1, <2>7
<1>4. CASE study = "step5"
  <2>1. Ks!Steps(study) = Ks!Steps("step5") /\ Len(Ks!Steps(study)) = 8
    BY <1>4, PlacesOfSteps
  <2>2. place \in 1 .. 8
    BY <1>1, <2>1
  <2>3. place # 1
    BY <1>2, <2>1, PlacesOfSteps DEF Ks!Reports
  <2>4. place # 2
    BY <1>2, <2>1, PlacesOfSteps DEF Ks!Reports
  <2>5. place # 3
    BY <1>2, <2>1, PlacesOfSteps DEF Ks!Reports
  <2>6. place # 4
    BY <1>2, <2>1, PlacesOfSteps DEF Ks!Reports
  <2>7. place # 5
    BY <1>2, <2>1, PlacesOfSteps DEF Ks!Reports
  <2>8. place # 6
    BY <1>2, <2>1, PlacesOfSteps DEF Ks!Reports
  <2>9. place # 7
    BY <1>2, <2>1, PlacesOfSteps DEF Ks!Reports
  <2>10. place = 8
    BY <2>2, <2>3, <2>4, <2>5, <2>6, <2>7, <2>8, <2>9
  <2> QED BY <1>4, <2>1, <2>10
<1>5. CASE study = "step6"
  <2>1. Ks!Steps(study) = Ks!Steps("step6") /\ Len(Ks!Steps(study)) = 6
    BY <1>5, PlacesOfSteps
  <2>2. place \in 1 .. 6
    BY <1>1, <2>1
  <2>3. place # 1
    BY <1>2, <2>1, PlacesOfSteps DEF Ks!Reports
  <2>4. place # 2
    BY <1>2, <2>1, PlacesOfSteps DEF Ks!Reports
  <2>5. place # 3
    BY <1>2, <2>1, PlacesOfSteps DEF Ks!Reports
  <2>6. place # 4
    BY <1>2, <2>1, PlacesOfSteps DEF Ks!Reports
  <2>7. place # 5
    BY <1>2, <2>1, PlacesOfSteps DEF Ks!Reports
  <2>8. place = 6
    BY <2>2, <2>3, <2>4, <2>5, <2>6, <2>7
  <2> QED BY <1>5, <2>1, <2>8
<1>6. CASE study = "step7"
  <2>1. Ks!Steps(study) = Ks!Steps("step7") /\ Len(Ks!Steps(study)) = 6
    BY <1>6, PlacesOfSteps
  <2>2. place \in 1 .. 6
    BY <1>1, <2>1
  <2>3. place # 1
    BY <1>2, <2>1, PlacesOfSteps DEF Ks!Reports
  <2>4. place # 2
    BY <1>2, <2>1, PlacesOfSteps DEF Ks!Reports
  <2>5. place # 3
    BY <1>2, <2>1, PlacesOfSteps DEF Ks!Reports
  <2>6. place # 4
    BY <1>2, <2>1, PlacesOfSteps DEF Ks!Reports
  <2>7. place = 5 \/ place = 6
    BY <2>2, <2>3, <2>4, <2>5, <2>6
  <2> QED BY <1>6, <2>1, <2>7
<1>7. CASE study = "step8"
  <2>1. Ks!Steps(study) = Ks!Steps("step8") /\ Len(Ks!Steps(study)) = 4
    BY <1>7, PlacesOfSteps
  <2>2. place \in 1 .. 4
    BY <1>1, <2>1
  <2>3. place # 1
    BY <1>2, <2>1, PlacesOfSteps DEF Ks!Reports
  <2>4. place # 2
    BY <1>2, <2>1, PlacesOfSteps DEF Ks!Reports
  <2>5. place # 3
    BY <1>2, <2>1, PlacesOfSteps DEF Ks!Reports
  <2>6. place = 4
    BY <2>2, <2>3, <2>4, <2>5
  <2> QED BY <1>7, <2>1, <2>6
<1> QED BY <1>1, <1>3, <1>4, <1>5, <1>6, <1>7 DEF Ks!Studies

\* What the studies rely on is about none of the other variables.
LEMMA StudyUnchanged ==
  ASSUME StudyInv,
         UNCHANGED <<markets, model, manifest, study, place, listed, rows, picked, scores>>
  PROVE  StudyInv'
BY DEF StudyInv, PlaceOK, ContractsOK, Unscored, FittedHere, VouchedFor,
   ManifestIsSealed, ScoresAreSealed, Sealed, Ks!Splits, Ks!Final

\* A study that ends leaves what it put on disk.
LEMMA ForgetKeeps ==
  ASSUME Ks!Forget, markets' # NONE => IsContracts(markets'), ManifestIsSealed'
  PROVE  StudyInv'
<1>1. IsContracts({})
  BY FS_EmptySet DEF IsContracts
<1>2. place' = 1 /\ scores' = {} /\ listed' = {} /\ rows' = {} /\ study' = NONE
  BY DEF Ks!Forget
<1>3. PlaceOK' /\ ContractsOK'
  BY <1>1, <1>2 DEF PlaceOK, ContractsOK
<1>4. Unscored' /\ FittedHere' /\ VouchedFor' /\ ScoresAreSealed'
  BY <1>2 DEF Unscored, FittedHere, VouchedFor, ScoresAreSealed
<1> QED BY <1>3, <1>4 DEF StudyInv

\* A step that is not the last one comes to the next place.
LEMMA AdvancePlace ==
  ASSUME PlaceOK, NEW step, Ks!At(step), Ks!Advance, step \notin Ks!Reports
  PROVE  PlaceOK' /\ study' = study /\ place' = place + 1
<1>1. study \in Ks!Studies /\ place + 1 \in 1 .. Len(Ks!Steps(study)) /\ study # NONE
  BY PlaceOfStep DEF Ks!Reports, Ks!At
<1> QED BY <1>1 DEF Ks!Advance, PlaceOK

\* A study starts at its first step, with nothing judged.
LEMMA StartKeeps == ASSUME StudyInv, Ks!Start PROVE StudyInv'
<1>1. study = NONE /\ place = 1 /\ scores = {}
  BY DEF Ks!Start, StudyInv, PlaceOK
<1>2. place' = 1 /\ scores' = {} /\ study' \in Ks!Studies
  BY <1>1 DEF Ks!Start, Ks!localVars
<1>3. Len(Ks!Steps(study')) >= 1 /\ Len(Ks!Steps(study')) \in Nat
  BY <1>2, StepCounts
<1>4. PlaceOK'
  BY <1>2, <1>3 DEF PlaceOK
<1>5. ContractsOK' /\ ManifestIsSealed'
  BY DEF Ks!Start, Ks!localVars, Ks!diskVars, StudyInv, ContractsOK, ManifestIsSealed
<1>6. Unscored' /\ FittedHere' /\ VouchedFor' /\ ScoresAreSealed'
  BY <1>2 DEF Unscored, FittedHere, VouchedFor, ScoresAreSealed
<1> QED BY <1>4, <1>5, <1>6 DEF StudyInv

\* Reading the contracts comes before anything is judged.
LEMMA ReadContractsKeeps == ASSUME StudyInv, Ks!ReadContracts PROVE StudyInv'
<1>1. Ks!At("contracts") /\ PlaceOK
  BY DEF Ks!ReadContracts, StudyInv
<1>2. study \in Ks!Studies /\ study # NONE /\ place = 1
  BY <1>1, PlaceOfStep DEF Ks!At
<1>3. study # "step4" => scores = {}
  BY <1>2 DEF StudyInv, Unscored
<1>4. study' = study /\ scores' = scores /\ place' \in {2, 3} /\ (place' = 3 => study = "step4")
  BY <1>2 DEF Ks!ReadContracts
<1>5. Len(Ks!Steps(study)) >= 3 /\ Len(Ks!Steps(study)) \in Nat
  BY <1>2, StepCounts
<1>6. PlaceOK'
  BY <1>2, <1>4, <1>5 DEF PlaceOK
<1>7. IsContracts(listed')
  <2>1. CASE markets # NONE /\ listed' = markets
    BY <2>1 DEF StudyInv, ContractsOK
  <2>2. CASE \E windows \in Listings : listed' = Ks!Contracts(windows)
    <3>1. PICK windows \in Listings : listed' = Ks!Contracts(windows)
      BY <2>2
    <3>2. windows \subseteq Nat /\ IsFiniteSet(windows)
      BY StudyAssumption, StudyCounts DEF Ks!StudyConstants
    <3> QED BY <3>1, <3>2, FiniteListing
  <2> QED BY <2>1, <2>2 DEF Ks!ReadContracts
<1>8. ContractsOK' /\ ManifestIsSealed'
  BY <1>7 DEF Ks!ReadContracts, Ks!diskVars, StudyInv, ContractsOK, ManifestIsSealed
<1>9. Unscored' /\ FittedHere' /\ VouchedFor' /\ ScoresAreSealed'
  BY <1>3, <1>4 DEF Unscored, FittedHere, VouchedFor, ScoresAreSealed
<1> QED BY <1>6, <1>8, <1>9 DEF StudyInv

\* ... and so does joining them with history.
LEMMA ReadHistoryKeeps == ASSUME StudyInv, Ks!ReadHistory PROVE StudyInv'
<1>1. Ks!At("history") /\ PlaceOK /\ Ks!Advance
  BY DEF Ks!ReadHistory, StudyInv
<1>2. study \in Ks!Studies /\ place \in {2, 3} /\ (study # "step4" => place = 2)
  BY <1>1, PlaceOfStep
<1>3. study # "step4" => scores = {}
  BY <1>2 DEF StudyInv, Unscored
<1>4. PlaceOK' /\ study' = study /\ place' = place + 1
  BY <1>1, AdvancePlace DEF Ks!Reports
<1>5. IsContracts(rows')
  BY SomeContracts DEF Ks!ReadHistory, Ks!Joined, StudyInv, ContractsOK
<1>6. ContractsOK' /\ ManifestIsSealed'
  BY <1>5 DEF Ks!ReadHistory, Ks!diskVars, StudyInv, ContractsOK, ManifestIsSealed
<1>7. scores' = scores
  BY DEF Ks!ReadHistory
<1>8. Unscored' /\ FittedHere' /\ VouchedFor' /\ ScoresAreSealed'
  BY <1>2, <1>3, <1>4, <1>7 DEF Unscored, FittedHere, VouchedFor, ScoresAreSealed
<1> QED BY <1>4, <1>6, <1>8 DEF StudyInv

\* Hashing the files judges nothing.
LEMMA HashDataKeeps == ASSUME StudyInv, Ks!HashData PROVE StudyInv'
<1>1. Ks!At("hash") /\ PlaceOK /\ Ks!Advance
  BY DEF Ks!HashData, StudyInv
<1>2. /\ study \in Ks!Studies /\ place \in Nat /\ study # "step4" /\ place >= 3
      /\ study = "step5" => place = 5
      /\ study = "step6" => place = 3
  BY <1>1, PlaceOfStep
<1>3. PlaceOK' /\ study' = study /\ place' = place + 1
  BY <1>1, AdvancePlace DEF Ks!Reports
<1>4. /\ markets' = markets /\ model' = model /\ manifest' = manifest
      /\ listed' = listed /\ rows' = rows /\ picked' = picked /\ scores' = scores
  BY DEF Ks!HashData, Ks!diskVars
<1>5. ContractsOK' /\ ManifestIsSealed'
  BY <1>4 DEF StudyInv, ContractsOK, ManifestIsSealed
<1>6. Unscored' /\ FittedHere' /\ VouchedFor'
  BY <1>2, <1>3, <1>4 DEF StudyInv, Unscored, FittedHere, VouchedFor, Ks!Final, Ks!Splits
<1>7. ScoresAreSealed'
  BY <1>3, <1>4 DEF StudyInv, ScoresAreSealed, Sealed, Ks!Splits
<1> QED BY <1>3, <1>5, <1>6, <1>7 DEF StudyInv

\* A report is written after everything it tells of was judged.
LEMMA SaveReportKeeps ==
  ASSUME StudyInv, NEW report \in Ks!Reports, Ks!SaveReport(report)
  PROVE  StudyInv'
<1>1. Ks!At(report) /\ PlaceOK
  BY DEF Ks!SaveReport, StudyInv
<1>2. /\ study \in Ks!Studies /\ study # NONE
      /\ place = Len(Ks!Steps(study)) \/ (place = 5 /\ study = "step7")
  BY <1>1, PlaceOfStep, PlaceOfReport DEF Ks!At
<1>3. markets' = markets /\ model' = model /\ manifest' = manifest
  BY DEF Ks!SaveReport
<1>4. ManifestIsSealed' /\ (markets' # NONE => IsContracts(markets'))
  BY <1>3 DEF StudyInv, ManifestIsSealed, ContractsOK
<1>5. CASE Ks!Forget
  BY <1>4, <1>5, ForgetKeeps
<1>6. CASE ~Ks!Forget
  <2>1. /\ place # Len(Ks!Steps(study)) /\ Ks!Advance
        /\ listed' = listed /\ rows' = rows /\ picked' = picked /\ scores' = scores
    BY <1>6 DEF Ks!SaveReport, Ks!localVars
  <2>2. study = "step7" /\ place = 5 /\ Len(Ks!Steps(study)) = 6
    BY <1>2, <2>1, PlacesOfSteps
  <2>3. study' = study /\ place' = 6
    BY <2>1, <2>2 DEF Ks!Advance
  <2>4. PlaceOK'
    BY <1>2, <2>2, <2>3 DEF PlaceOK
  <2>5. ContractsOK'
    BY <1>4, <2>1 DEF StudyInv, ContractsOK
  <2>6. Unscored' /\ FittedHere' /\ VouchedFor'
    BY <2>2, <2>3 DEF Unscored, FittedHere, VouchedFor
  <2>7. ScoresAreSealed'
    BY <2>1, <2>3 DEF StudyInv, ScoresAreSealed, Sealed, Ks!Splits
  <2> QED BY <1>4, <2>4, <2>5, <2>6, <2>7 DEF StudyInv
<1> QED BY <1>5, <1>6

\* Step 4 judges nothing that it calls a holdout; its list is one of contracts.
LEMMA SaveListKeeps == ASSUME StudyInv, Ks!SaveList PROVE StudyInv'
<1>1. Ks!At("list") /\ PlaceOK /\ study = "step4"
  BY DEF Ks!SaveList, Ks!In, StudyInv
<1>2. ManifestIsSealed'
  BY DEF Ks!SaveList, StudyInv, ManifestIsSealed
<1>3. CASE Ks!Forget
  <2>1. IsContracts(markets')
    <3>1. \A windows : Ks!OfWindows(listed, windows) \subseteq listed
      BY DEF Ks!OfWindows
    <3>2. markets' \subseteq listed
      BY <3>1 DEF Ks!SaveList
    <3> QED BY <3>2, SomeContracts DEF StudyInv, ContractsOK
  <2> QED BY <1>2, <1>3, <2>1, ForgetKeeps
<1>4. CASE markets' = listed /\ Ks!Advance /\ UNCHANGED Ks!localVars
  <2>1. PlaceOK' /\ study' = study
    BY <1>1, <1>4, AdvancePlace DEF Ks!Reports
  <2>2. ContractsOK'
    BY <1>4 DEF Ks!localVars, StudyInv, ContractsOK
  <2>3. Unscored' /\ FittedHere' /\ VouchedFor' /\ ScoresAreSealed'
    BY <1>1, <2>1 DEF Unscored, FittedHere, VouchedFor, ScoresAreSealed
  <2> QED BY <1>2, <2>1, <2>2, <2>3 DEF StudyInv
<1> QED BY <1>3, <1>4 DEF Ks!SaveList

\* The transferred policy of step 4 learns nothing.
LEMMA ReplayPolicyKeeps == ASSUME StudyInv, Ks!ReplayPolicy PROVE StudyInv'
<1>1. Ks!At("replay") /\ PlaceOK /\ study = "step4" /\ Ks!Advance
  BY DEF Ks!ReplayPolicy, Ks!In, StudyInv
<1>2. PlaceOK' /\ study' = study
  BY <1>1, AdvancePlace DEF Ks!Reports
<1>3. ContractsOK' /\ ManifestIsSealed'
  BY DEF Ks!ReplayPolicy, Ks!diskVars, StudyInv, ContractsOK, ManifestIsSealed
<1>4. Unscored' /\ FittedHere' /\ VouchedFor' /\ ScoresAreSealed'
  BY <1>1, <1>2 DEF Unscored, FittedHere, VouchedFor, ScoresAreSealed
<1> QED BY <1>2, <1>3, <1>4 DEF StudyInv

-----------------------------------------------------------------------------
\* The rows that are split, and what it is to have learned from part of them.
Chronological ==
  /\ Ks!Splits.development \subseteq rows /\ Ks!Splits.validation \subseteq rows
  /\ Ks!Splits.sealed_holdout \subseteq rows
  /\ Ks!Before(Ks!Splits.development, Ks!Splits.validation)
  /\ Ks!Before(Ks!Splits.development, Ks!Splits.sealed_holdout)
  /\ Ks!Before(Ks!Splits.validation, Ks!Splits.sealed_holdout)

\* The rows that are joined are always such.
LEMMA RowsAreChronological == ASSUME StudyInv PROVE Chronological
BY SplitIsChronological DEF StudyInv, ContractsOK, Chronological, Ks!Splits

\* What learned from development alone may be judged on anything.
LEMMA LearnedOnDevelopment ==
  ASSUME Chronological, NEW of, NEW learned, learned \subseteq Ks!Splits.development,
         NEW chosenBy \in SUBSET Ks!Splits.validation, NEW judged
  PROVE  Sealed(Ks!Score(of, learned, chosenBy, judged))
<1> DEFINE s == Ks!Score(of, learned, chosenBy, judged)
<1>1. s.learned = learned /\ s.chosenBy = chosenBy /\ s.judged = judged
  BY DEF Ks!Score
<1>2. Ks!Before(learned \cup chosenBy, judged \cap Ks!Splits.sealed_holdout)
  BY DEF Chronological, Ks!Before
<1>3. Ks!Before(learned, judged \cap Ks!Splits.validation)
  BY DEF Chronological, Ks!Before
<1> QED BY <1>1, <1>2, <1>3 DEF Sealed

\* A frozen model that learned before the holdout may be judged on anything.
LEMMA LearnedBeforeHoldout ==
  ASSUME Chronological, NEW learned, NEW judged,
         Ks!Before(learned, Ks!Splits.sealed_holdout)
  PROVE  Sealed(Ks!Score("frozen", learned, Ks!Splits.validation, judged))
<1> DEFINE s == Ks!Score("frozen", learned, Ks!Splits.validation, judged)
<1>1. /\ s.of = "frozen" /\ s.learned = learned /\ s.chosenBy = Ks!Splits.validation
      /\ s.judged = judged
  BY DEF Ks!Score
<1>2. Ks!Before(learned \cup Ks!Splits.validation, judged \cap Ks!Splits.sealed_holdout)
  BY DEF Chronological, Ks!Before
<1> QED BY <1>1, <1>2 DEF Sealed

\* The final recipe learns from development and validation.
LEMMA FinalLearns ==
  ASSUME Chronological, NEW c
  PROVE  /\ Ks!Final(c).learned \subseteq rows
         /\ Ks!Before(Ks!Final(c).learned, Ks!Splits.sealed_holdout)
<1>1. Ks!Final(c).learned \subseteq Ks!Splits.development \cup Ks!Splits.validation
  BY DEF Ks!Final, Ks!Fit
<1> QED BY <1>1 DEF Chronological, Ks!Before

\* What a step that only judges leaves to show.
LEMMA JudgingStep ==
  ASSUME StudyInv, NEW step, Ks!At(step), Ks!Advance, step \notin Ks!Reports,
         UNCHANGED <<markets, model, manifest, listed, rows>>,
         Unscored', FittedHere', VouchedFor', \A s \in scores' : Sealed(s)
  PROVE  StudyInv'
<1>1. PlaceOK'
  BY AdvancePlace DEF StudyInv
<1>2. ContractsOK' /\ ManifestIsSealed'
  BY DEF StudyInv, ContractsOK, ManifestIsSealed
<1>3. Ks!Splits' = Ks!Splits
  BY DEF Ks!Splits
<1>4. ScoresAreSealed'
  BY <1>3 DEF ScoresAreSealed, Sealed
<1> QED BY <1>1, <1>2, <1>4 DEF StudyInv

\* Inside development the candidates learn, and on validation they are judged.
LEMMA ChooseKeeps == ASSUME StudyInv, Ks!Choose PROVE StudyInv'
<1>1. Ks!At("choose") /\ PlaceOK /\ study = "step5" /\ Ks!Advance
  BY DEF Ks!Choose, Ks!In, StudyInv
<1>2. place' = 4 /\ study' = study
  BY <1>1, PlaceOfStep DEF Ks!Advance
<1>3. Chronological
  BY RowsAreChronological
<1>4. UNCHANGED <<markets, model, manifest, listed, rows>>
  BY DEF Ks!Choose, Ks!diskVars
<1> DEFINE inside == Ks!Internal(Ks!Splits.development)
<1>5. inside.fit \subseteq Ks!Splits.development /\ inside.cal \subseteq Ks!Splits.development
  BY DEF Ks!Internal, Ks!OfWindows
<1>6. \A c \in Candidates :
        Ks!Fit(c, inside.fit, inside.cal).learned \subseteq Ks!Splits.development
  BY <1>5 DEF Ks!Fit
<1>7. \A s \in scores' : Sealed(s)
  <2> SUFFICES ASSUME NEW s \in scores' PROVE Sealed(s)
    OBVIOUS
  <2>1. PICK c \in Candidates :
          s = Ks!Score("candidate", Ks!Fit(c, inside.fit, inside.cal).learned, {},
                       Ks!Splits.validation)
    BY DEF Ks!Choose
  <2> QED BY <1>3, <1>6, <2>1, LearnedOnDevelopment
<1>8. FittedHere'
  <2>1. PICK c \in Candidates : picked' = Ks!Final(c)
    BY DEF Ks!Choose
  <2>2. Ks!Final(c)' = Ks!Final(c)
    BY <1>4 DEF Ks!Final, Ks!Splits
  <2> QED BY <1>2, <2>1, <2>2 DEF FittedHere, Ks!Final
<1>9. Unscored' /\ VouchedFor'
  BY <1>1, <1>2 DEF Unscored, VouchedFor
<1> QED BY <1>1, <1>4, <1>7, <1>8, <1>9, JudgingStep DEF Ks!Reports

\* The model on disk is the one that was fitted, or none that parses.
LEMMA SaveModelKeeps == ASSUME StudyInv, Ks!SaveModel PROVE StudyInv'
<1>1. Ks!At("model") /\ PlaceOK /\ study = "step5" /\ place = 4
  BY PlaceOfStep DEF Ks!SaveModel, Ks!In, StudyInv
<1>2. markets' = markets /\ manifest' = manifest
  BY DEF Ks!SaveModel
<1>3. ManifestIsSealed'
  BY <1>2 DEF StudyInv, ManifestIsSealed
<1>4. CASE Ks!Forget
  BY <1>2, <1>3, <1>4, ForgetKeeps DEF StudyInv, ContractsOK
<1>5. CASE model' = picked /\ Ks!Advance /\ UNCHANGED Ks!localVars
  <2>1. PlaceOK' /\ study' = study /\ place' = 5
    BY <1>1, <1>5, AdvancePlace DEF Ks!Reports
  <2>2. /\ listed' = listed /\ rows' = rows /\ picked' = picked /\ scores' = scores
    BY <1>5 DEF Ks!localVars
  <2>3. ContractsOK'
    BY <1>2, <2>2 DEF StudyInv, ContractsOK
  <2>4. FittedHere'
    BY <1>1, <1>5, <2>1, <2>2 DEF StudyInv, FittedHere, Ks!Final, Ks!Splits
  <2>5. Unscored' /\ VouchedFor'
    BY <1>1, <2>1 DEF Unscored, VouchedFor
  <2>6. ScoresAreSealed'
    BY <2>1, <2>2 DEF StudyInv, ScoresAreSealed, Sealed, Ks!Splits
  <2> QED BY <1>3, <2>1, <2>3, <2>4, <2>5, <2>6 DEF StudyInv
<1> QED BY <1>4, <1>5 DEF Ks!SaveModel

\* What a manifest tells of the holdout bounds what its model learned.
LEMMA ManifestOfSplits ==
  ASSUME StudyInv, NEW learned \in SUBSET rows,
         Ks!Before(learned, Ks!Splits.sealed_holdout), NEW told,
         told = Ks!Descriptions(Ks!Splits), told.sealed_holdout.rows # 0
  PROVE  \A c \in learned : c[1] \in Nat /\ c[1] < told.sealed_holdout.start
<1>1. IsContracts(Ks!Splits.sealed_holdout)
  BY RowsAreChronological, SomeContracts DEF Chronological, StudyInv, ContractsOK
<1>2. told.sealed_holdout = Ks!Description(Ks!Splits.sealed_holdout)
  BY DEF Ks!Descriptions, Ks!Splits, Ks!Split
<1>3. PICK d \in Ks!Splits.sealed_holdout : told.sealed_holdout.start = d[1]
  BY <1>1, <1>2, DescribedStart
<1>4. \A c \in learned : c[1] \in Nat
  BY DEF StudyInv, ContractsOK, IsContracts
<1> QED BY <1>3, <1>4 DEF Ks!Before

\* The manifest is that of the model which was fitted on these rows.
LEMMA SaveManifestKeeps == ASSUME StudyInv, Ks!SaveManifest PROVE StudyInv'
<1>1. Ks!At("manifest") /\ PlaceOK /\ study = "step5" /\ place = 6
  BY PlaceOfStep DEF Ks!SaveManifest, Ks!In, StudyInv
<1>2. markets' = markets /\ model' = model
  BY DEF Ks!SaveManifest
<1>3. PICK c \in Candidates : picked = Ks!Final(c)
  BY <1>1 DEF StudyInv, FittedHere
<1>4. CASE Ks!Forget /\ manifest' = Ks!Unread
  <2>1. ManifestIsSealed'
    BY <1>4 DEF ManifestIsSealed, Ks!Unread
  <2> QED BY <1>2, <1>4, <2>1, ForgetKeeps DEF StudyInv, ContractsOK
<1>5. CASE /\ manifest' = [whole |-> TRUE, model |-> picked, data |-> hash,
                           splits |-> Ks!Descriptions(Ks!Splits)]
           /\ Ks!Advance /\ UNCHANGED Ks!localVars
  <2>1. PlaceOK' /\ study' = study /\ place' = 7
    BY <1>1, <1>5, AdvancePlace DEF Ks!Reports
  <2>2. listed' = listed /\ rows' = rows /\ picked' = picked /\ scores' = scores
    BY <1>5 DEF Ks!localVars
  <2>3. /\ manifest'.whole /\ manifest'.model = picked
        /\ manifest'.splits = Ks!Descriptions(Ks!Splits)
    BY <1>5
  <2>4. picked.learned \subseteq rows /\ Ks!Before(picked.learned, Ks!Splits.sealed_holdout)
    BY <1>3, FinalLearns, RowsAreChronological
  <2>5. ManifestIsSealed'
    <3>1. manifest'.splits.sealed_holdout.rows # 0 =>
            \A d \in picked.learned :
              d[1] \in Nat /\ d[1] < manifest'.splits.sealed_holdout.start
      BY <2>3, <2>4, ManifestOfSplits
    <3> QED BY <2>3, <3>1 DEF ManifestIsSealed
  <2>6. ContractsOK'
    BY <1>2, <2>2 DEF StudyInv, ContractsOK
  <2>7. FittedHere'
    BY <1>1, <1>2, <2>1, <2>2, <2>3 DEF StudyInv, FittedHere, Ks!Final, Ks!Splits
  <2>8. Unscored' /\ VouchedFor'
    BY <1>1, <2>1 DEF Unscored, VouchedFor
  <2>9. ScoresAreSealed'
    BY <2>1, <2>2 DEF StudyInv, ScoresAreSealed, Sealed, Ks!Splits
  <2> QED BY <2>1, <2>5, <2>6, <2>7, <2>8, <2>9 DEF StudyInv
<1> QED BY <1>4, <1>5 DEF Ks!SaveManifest

\* The holdout is opened with the model that development and validation gave.
LEMMA OpenHoldoutKeeps == ASSUME StudyInv, Ks!OpenHoldout PROVE StudyInv'
<1>1. Ks!At("open") /\ PlaceOK /\ study = "step5" /\ place = 7 /\ Ks!Advance
  BY PlaceOfStep DEF Ks!OpenHoldout, Ks!In, StudyInv
<1>2. UNCHANGED <<markets, model, manifest, listed, rows, picked>>
  BY DEF Ks!OpenHoldout, Ks!diskVars
<1>3. PICK c \in Candidates : picked = Ks!Final(c)
  BY <1>1 DEF StudyInv, FittedHere
<1>4. model = picked
  BY <1>1 DEF StudyInv, FittedHere
<1>5. Ks!Before(model.learned, Ks!Splits.sealed_holdout) /\ Chronological
  BY <1>3, <1>4, FinalLearns, RowsAreChronological
<1>6. \A s \in scores' : Sealed(s)
  <2> SUFFICES ASSUME NEW s \in scores' PROVE Sealed(s)
    OBVIOUS
  <2>1. CASE s \in scores
    BY <1>1, <2>1 DEF StudyInv, ScoresAreSealed
  <2>2. CASE s \notin scores
    <3>1. PICK judged : s = Ks!Score("frozen", model.learned, Ks!Splits.validation, judged)
      BY <2>2 DEF Ks!OpenHoldout
    <3> QED BY <1>5, <3>1, LearnedBeforeHoldout
  <2> QED BY <2>1, <2>2
<1>7. study' = study /\ place' = 8
  BY <1>1 DEF Ks!Advance
<1>8. FittedHere'
  BY <1>1, <1>2, <1>7 DEF StudyInv, FittedHere, Ks!Final, Ks!Splits
<1>9. Unscored' /\ VouchedFor'
  BY <1>1, <1>7 DEF Unscored, VouchedFor
<1> QED BY <1>1, <1>2, <1>6, <1>8, <1>9, JudgingStep DEF Ks!Reports

\* The model that step 6 loads is that of the manifest.
LEMMA VerifyKeeps == ASSUME StudyInv, Ks!Verify PROVE StudyInv'
<1>1. Ks!At("verify") /\ PlaceOK /\ study = "step6" /\ place = 4 /\ Ks!Advance
  BY PlaceOfStep DEF Ks!Verify, Ks!In, StudyInv
<1>2. UNCHANGED <<markets, model, manifest, listed, rows, scores>> /\ picked' = model
  BY DEF Ks!Verify, Ks!diskVars
<1>3. manifest.whole /\ manifest.model = model
  BY DEF Ks!Verify
<1>4. study' = study /\ place' = 5
  BY <1>1 DEF Ks!Advance
<1>5. scores = {}
  BY <1>1 DEF StudyInv, VouchedFor
<1>6. Unscored' /\ FittedHere' /\ VouchedFor' /\ \A s \in scores' : Sealed(s)
  BY <1>1, <1>2, <1>3, <1>4, <1>5 DEF Unscored, FittedHere, VouchedFor
<1> QED BY <1>1, <1>2, <1>6, JudgingStep DEF Ks!Reports

\* It learned before the holdout of the manifest, which is the one found now.
LEMMA CompareKeeps == ASSUME StudyInv, Ks!Compare PROVE StudyInv'
<1>1. Ks!At("compare") /\ PlaceOK /\ study = "step6" /\ place = 5 /\ Ks!Advance
  BY PlaceOfStep DEF Ks!Compare, Ks!In, StudyInv
<1>2. UNCHANGED <<markets, model, manifest, listed, rows, picked>>
  BY DEF Ks!Compare, Ks!diskVars
<1>3. manifest.whole /\ picked = manifest.model
  BY <1>1 DEF StudyInv, VouchedFor
<1>4. Chronological
  BY RowsAreChronological
<1>5. Ks!Before(picked.learned, Ks!Splits.sealed_holdout)
  <2> DEFINE holdout == Ks!Splits.sealed_holdout
  <2>1. manifest.splits.sealed_holdout = Ks!Description(holdout)
    BY DEF Ks!Compare, Ks!SplitsReproduced, Ks!Descriptions, Ks!Splits, Ks!Split
  <2>2. IsContracts(holdout)
    BY <1>4, SomeContracts DEF Chronological, StudyInv, ContractsOK
  <2> HIDE DEF holdout
  <2> SUFFICES ASSUME NEW c \in picked.learned, NEW d \in holdout
               PROVE  c[1] < d[1]
    BY DEF Ks!Before, holdout
  <2>3. Ks!Description(holdout).rows # 0
    BY <2>2, DescribedStart
  <2>4. c[1] \in Nat /\ c[1] < Ks!Description(holdout).start
    BY <1>3, <2>1, <2>3 DEF StudyInv, ManifestIsSealed
  <2>5. Ks!Description(holdout).start <= d[1]
    BY <2>2, DescribedStart
  <2>6. d[1] \in Nat /\ Ks!Description(holdout).start \in Nat
    <3>1. PICK e \in holdout : Ks!Description(holdout).start = e[1]
      BY <2>2, DescribedStart
    <3> QED BY <2>2, <3>1 DEF IsContracts
  <2> QED BY <2>4, <2>5, <2>6
<1>6. \A s \in scores' : Sealed(s)
  <2> SUFFICES ASSUME NEW s \in scores' PROVE Sealed(s)
    OBVIOUS
  <2>1. CASE s \in {Ks!Regimes, Ks!Increment}
    BY <1>4, <2>1, LearnedOnDevelopment DEF Ks!Regimes, Ks!Increment
  <2>2. CASE \E cs : s = Ks!Analyzed(cs)
    BY <1>4, <1>5, <2>2, LearnedBeforeHoldout DEF Ks!Analyzed
  <2> QED BY <2>1, <2>2 DEF Ks!Compare
<1>7. study' = study /\ place' = 6
  BY <1>1 DEF Ks!Advance
<1>8. Unscored' /\ FittedHere' /\ VouchedFor'
  BY <1>1, <1>2, <1>3, <1>7 DEF Unscored, FittedHere, VouchedFor
<1> QED BY <1>1, <1>2, <1>6, <1>8, JudgingStep DEF Ks!Reports

\* The gaps of the proxy are nobody's forecast, and are learned as they come.
LEMMA MeasureKeeps == ASSUME StudyInv, Ks!Measure PROVE StudyInv'
<1>1. Ks!At("measure") /\ PlaceOK /\ study = "step7" /\ place = 3 /\ Ks!Advance
  BY PlaceOfStep DEF Ks!Measure, Ks!In, StudyInv
<1>2. UNCHANGED <<markets, model, manifest, listed, rows, picked>>
  BY DEF Ks!Measure, Ks!diskVars
<1>3. Chronological
  BY RowsAreChronological
<1>4. \A s \in scores' : Sealed(s)
  <2> SUFFICES ASSUME NEW s \in scores' PROVE Sealed(s)
    OBVIOUS
  <2> DEFINE entries == Ks!EntryMask(Ks!Splits.sealed_holdout)
  <2>1. CASE s = Ks!Score("start gap", rows, {}, entries)
    BY <2>1 DEF Ks!Score, Sealed
  <2>2. CASE s = Ks!Score("gaps", {}, {}, rows)
    BY <1>3, <2>2, LearnedOnDevelopment
  <2>3. CASE s = Ks!Score("volatility", Ks!Splits.development, {}, rows)
    BY <1>3, <2>3, LearnedOnDevelopment
  <2>4. CASE s = Ks!Score("fixed bounds", {}, {}, entries)
    BY <1>3, <2>4, LearnedOnDevelopment
  <2> QED BY <2>1, <2>2, <2>3, <2>4 DEF Ks!Measure
<1>5. study' = study /\ place' = 4
  BY <1>1 DEF Ks!Advance
<1>6. Unscored' /\ FittedHere' /\ VouchedFor'
  BY <1>1, <1>5 DEF Unscored, FittedHere, VouchedFor
<1> QED BY <1>1, <1>2, <1>4, <1>6, JudgingStep DEF Ks!Reports

\* The bounds that step 8 judges are those of development.
LEMMA BoundKeeps == ASSUME StudyInv, Ks!Bound PROVE StudyInv'
<1>1. Ks!At("bound") /\ PlaceOK /\ study = "step8" /\ place = 3 /\ Ks!Advance
  BY PlaceOfStep DEF Ks!Bound, Ks!In, StudyInv
<1>2. UNCHANGED <<markets, model, manifest, listed, rows, picked>>
  BY DEF Ks!Bound, Ks!diskVars
<1>3. Chronological
  BY RowsAreChronological
<1>4. \A s \in scores' : Sealed(s)
  <2> SUFFICES ASSUME NEW s \in scores' PROVE Sealed(s)
    OBVIOUS
  <2>1. PICK name \in DOMAIN Ks!Splits :
          \/ s = Ks!Score("bounds", Ks!Splits.development, {}, Ks!EntryMask(Ks!Splits[name]))
          \/ s = Ks!Score("fixed bounds", {}, {}, Ks!EntryMask(Ks!Splits[name]))
    BY DEF Ks!Bound
  <2> QED BY <1>3, <2>1, LearnedOnDevelopment
<1>5. study' = study /\ place' = 4
  BY <1>1 DEF Ks!Advance
<1>6. Unscored' /\ FittedHere' /\ VouchedFor'
  BY <1>1, <1>5 DEF Unscored, FittedHere, VouchedFor
<1> QED BY <1>1, <1>2, <1>4, <1>6, JudgingStep DEF Ks!Reports

\* Before the first study nothing is listed, fitted or judged.
LEMMA StudyBegins == Ks!StudyInit => StudyInv
<1> SUFFICES ASSUME Ks!StudyInit PROVE StudyInv
  OBVIOUS
<1>1. IsContracts({})
  BY FS_EmptySet DEF IsContracts
<1>2. PlaceOK /\ ContractsOK
  BY <1>1 DEF Ks!StudyInit, PlaceOK, ContractsOK
<1>3. Unscored /\ FittedHere /\ VouchedFor /\ ScoresAreSealed
  BY DEF Ks!StudyInit, Unscored, FittedHere, VouchedFor, ScoresAreSealed
<1>4. ManifestIsSealed
  BY DEF Ks!StudyInit, ManifestIsSealed, Ks!Unread
<1> QED BY <1>2, <1>3, <1>4 DEF StudyInv

\* Every step of the composition keeps what the studies rely on.
LEMMA StudyStep ==
  ASSUME StudyInv, [ContractsNext]_<<part, vars, studyVars>>
  PROVE  StudyInv'
<1>1. CASE UNCHANGED studyVars
  BY <1>1, StudyUnchanged DEF studyVars
<1>2. CASE \E a \in StudyAssets, k \in DOMAIN ChunkOf : Ks!Download(a, k)
  BY <1>2, StudyUnchanged DEF Ks!Download, Ks!localVars
<1>3. CASE \E report \in Ks!Reports : Ks!SaveReport(report)
  BY <1>3, SaveReportKeeps
<1>4. CASE Ks!End
  <2>1. Ks!Forget /\ markets' = markets /\ manifest' = manifest
    BY <1>4 DEF Ks!End, Ks!diskVars
  <2>2. ManifestIsSealed' /\ (markets' # NONE => IsContracts(markets'))
    BY <2>1 DEF StudyInv, ManifestIsSealed, ContractsOK
  <2> QED BY <2>1, <2>2, ForgetKeeps
<1>5. CASE Ks!Start \/ Ks!ReadContracts \/ Ks!ReadHistory \/ Ks!HashData
  BY <1>5, StartKeeps, ReadContractsKeeps, ReadHistoryKeeps, HashDataKeeps
<1>6. CASE Ks!SaveList \/ Ks!ReplayPolicy \/ Ks!Choose \/ Ks!SaveModel
  BY <1>6, SaveListKeeps, ReplayPolicyKeeps, ChooseKeeps, SaveModelKeeps
<1>7. CASE \/ Ks!SaveManifest \/ Ks!OpenHoldout \/ Ks!Verify \/ Ks!Compare
           \/ Ks!Measure \/ Ks!Bound
  BY <1>7, SaveManifestKeeps, OpenHoldoutKeeps, VerifyKeeps, CompareKeeps,
     MeasureKeeps, BoundKeeps
<1> QED BY <1>1, <1>2, <1>3, <1>4, <1>5, <1>6, <1>7
           DEF ContractsNext, Collect, Learn

\* Whatever lists, chunks of history and days of download the studies mix, and
\* wherever they die: what they judge on a holdout was learned from and chosen by
\* earlier windows, what they judge on a validation that is not the frozen
\* model's own as well, and step 5 opens the holdout once the manifest of that
\* very model is on disk (scripts/kalshi_*_study.py).
THEOREM HoldoutIsSealed == ContractsSpec => []HoldoutStaysSealed
<1>1. ContractsInit => StudyInv
  BY StudyBegins DEF ContractsInit
<1>2. StudyInv /\ [ContractsNext]_<<part, vars, studyVars>> => StudyInv'
  BY StudyStep
<1>3. StudyInv => HoldoutStaysSealed
  <2> SUFFICES ASSUME StudyInv PROVE HoldoutStaysSealed
    OBVIOUS
  <2>1. ASSUME Ks!In("step5", "summary5")
        PROVE  manifest.whole /\ manifest.model = model
    <3>1. study = "step5" /\ place = 8
      BY <2>1, PlaceOfStep DEF Ks!In, StudyInv
    <3> QED BY <3>1 DEF StudyInv, FittedHere
  <2>2. ASSUME NEW s \in scores, study # "step4", s.of # "start gap"
        PROVE  /\ Ks!Before(s.learned \cup s.chosenBy,
                            s.judged \cap Ks!Splits.sealed_holdout)
               /\ s.of # "frozen" =>
                    Ks!Before(s.learned, s.judged \cap Ks!Splits.validation)
    BY <2>2 DEF StudyInv, ScoresAreSealed, Sealed
  <2> QED BY <2>1, <2>2 DEF HoldoutStaysSealed, Ks!HoldoutStaysSealed
<1> QED BY <1>1, <1>2, <1>3, PTL DEF ContractsSpec

=============================================================================
