------------------------ MODULE PolicyTelemetry_proofs ------------------------
(***************************************************************************)
(* Proofs about PolicyTelemetry, for every number of assets and policies,  *)
(* every size of the memory and of the tail that a start reads, and every  *)
(* bound: the types; how far apart a completion and its repetition are;    *)
(* that completions are true; and that none is missing.                    *)
(***************************************************************************)
EXTENDS PolicyTelemetry, JsonlLog_proofs, FiniteSetTheorems
\* Two readable rows are of different windows or policies.
Differ(a, b) == a.win # b.win \/ a.pol # b.pol

\* What the file holds the memory holds, and not much further from its end: the
\* write onto a torn tail is the only one that lengthens memory alone.
MemoryCovers ==
  pc # "down" =>
    \A i \in DOMAIN done.lines : done.lines[i] # Bad =>
      \E k \in DOMAIN log :
        /\ log[k] # Bad /\ ~Differ(done.lines[i], log[k])
        /\ Len(log) - k <= (Len(done.lines) - i) + (IF done.torn THEN 0 ELSE 1)

\* A scan has its window; a torn file has the line that is torn.
TypeInv ==
  /\ TypeOK
  /\ TornHasALine(obs) /\ TornHasALine(done)
  /\ pc \in {"complete", "observe"} => cur # NONE

IInv == TypeInv /\ MemoryCovers /\ RepeatsAreFar

-----------------------------------------------------------------------------
\* A set of positions of a sequence is finite.
LEMMA PositionsFinite ==
  ASSUME NEW S, NEW s \in Seq(S), NEW P, P \subseteq DOMAIN s
  PROVE  IsFiniteSet(P) /\ Cardinality(P) \in Nat
<1>1. DOMAIN s = 1 .. Len(s) /\ Len(s) \in Nat
  OBVIOUS
<1>2. IsFiniteSet(1 .. Len(s))
  BY <1>1, FS_Interval
<1>3. P \in SUBSET (1 .. Len(s))
  BY <1>1
<1>4. IsFiniteSet(P)
  BY <1>2, <1>3, FS_Subset
<1> QED BY <1>4, FS_CardinalityType

\* The first signal among some rows is an asset or none (_first).
LEMMA FirstType ==
  ASSUME NEW lines \in Seq(ObservationRows \cup {Bad}),
         NEW P, P \subseteq DOMAIN lines, \A i \in P : lines[i] # Bad,
         NEW w, NEW p
  PROVE  FirstAmong(lines, P, w, p) \in Assets \cup {NONE}
<1> DEFINE hits == {i \in P : lines[i].win = w /\ lines[i].pol = p /\ lines[i].sel}
<1>1. CASE hits = {}
  BY <1>1 DEF FirstAmong
<1>2. CASE hits # {}
  <2>1. hits \subseteq Nat
    OBVIOUS
  <2>2. \E i \in hits : \A j \in hits : i <= j
    BY <1>2, <2>1, LeastElement
  <2> DEFINE m == CHOOSE i \in hits : \A j \in hits : i <= j
  <2>3. m \in hits
    BY <2>2
  <2>4. lines[m] \in ObservationRows
    BY <2>3
  <2>5. lines[m].asset \in Assets
    BY <2>4 DEF ObservationRows
  <2> QED BY <1>2, <2>5 DEF FirstAmong
<1> QED BY <1>1, <1>2

\* The parts of memory that a start reads back have their types (__init__).
LEMMA LoadTypes ==
  ASSUME TypeOK
  PROVE  /\ LoadObserved \subseteq Windows
         /\ LoadFirst \in [Windows -> [Policies -> Assets \cup {NONE}]]
         /\ LoadCounts \in [Policies -> [yes : Nat, no : Nat]]
<1>1. obs.lines \in Seq(ObservationRows \cup {Bad})
      /\ done.lines \in Seq(CompletionRows \cup {Bad})
  BY DEF TypeOK, File
<1> DEFINE P == Newest(obs.lines, Reload)
<1>2. P \subseteq DOMAIN obs.lines /\ \A i \in P : obs.lines[i] # Bad
  BY DEF Newest
<1>3. LoadObserved \subseteq Windows
  BY <1>1, <1>2 DEF LoadObserved, ObservationRows
<1>4. \A w \in Windows, p \in Policies :
        FirstAmong(obs.lines, P, w, p) \in Assets \cup {NONE}
  BY <1>1, <1>2, FirstType
<1>5. LoadFirst \in [Windows -> [Policies -> Assets \cup {NONE}]]
  BY <1>4 DEF LoadFirst
<1>6. ASSUME NEW p \in Policies, NEW b \in BOOLEAN
      PROVE  CountIn(done.lines, p, b) \in Nat
  <2> DEFINE Q == {i \in DOMAIN done.lines : /\ done.lines[i] # Bad
                                             /\ done.lines[i].pol = p
                                             /\ (done.lines[i].asset # NONE) = b}
  <2>1. Q \subseteq DOMAIN done.lines
    OBVIOUS
  <2>2. Cardinality(Q) \in Nat
    <3> HIDE DEF Q
    <3> QED BY <1>1, <2>1, PositionsFinite
  <2> QED BY <2>2 DEF CountIn
<1>7. LoadCounts \in [Policies -> [yes : Nat, no : Nat]]
  BY <1>6 DEF LoadCounts
<1> QED BY <1>3, <1>5, <1>7

-----------------------------------------------------------------------------
\* The types hold of empty files.
LEMMA InitTypes == Init => TypeInv
<1> SUFFICES ASSUME Init PROVE TypeInv
  OBVIOUS
<1>1. EmptyFile.lines = <<>> /\ EmptyFile.torn = FALSE
  BY DEF EmptyFile
<1>2. EmptyFile \in File(ObservationRows) /\ EmptyFile \in File(CompletionRows)
  BY DEF File, EmptyFile
<1>3. 1 \in Windows /\ 0 \in 0 .. MaxRuns /\ 0 \in 0 .. MaxScans
      /\ 0 \in 0 .. MaxFaults
  BY BoundAssumption DEF Windows
<1>4. /\ NoSignals \in [Windows -> [Policies -> Assets \cup {NONE}]]
      /\ NoCounts \in [Policies -> [yes : Nat, no : Nat]]
      /\ [p \in Policies |-> NONE] \in [Policies -> Assets \cup {NONE}]
      /\ <<>> \in Seq(CompletionRows \cup {Bad})
  BY DEF NoSignals, NoCounts
<1>5. TypeOK
  BY <1>2, <1>3, <1>4 DEF Init, TypeOK
<1> QED BY <1>1, <1>5 DEF Init, TypeInv, TornHasALine

\* Memory that went has its types (the finally block).
LEMMA ExitTypes ==
  ASSUME TypeInv, Exit, UNCHANGED <<now, run, scans>>,
         obs' \in File(ObservationRows), TornHasALine(obs'),
         done' \in File(CompletionRows), TornHasALine(done'),
         faults' \in 0 .. MaxFaults, merged' \in BOOLEAN
  PROVE  TypeInv'
<1>1. /\ NoSignals \in [Windows -> [Policies -> Assets \cup {NONE}]]
      /\ NoCounts \in [Policies -> [yes : Nat, no : Nat]]
      /\ [p \in Policies |-> NONE] \in [Policies -> Assets \cup {NONE}]
      /\ <<>> \in Seq(CompletionRows \cup {Bad})
  BY DEF NoSignals, NoCounts
<1>2. TypeOK'
  BY <1>1 DEF Exit, TypeInv, TypeOK
<1> QED BY <1>2 DEF Exit, TypeInv, TornHasALine

\* What a scan appends are rows of their files.
LEMMA RowTypes ==
  ASSUME TypeOK
  PROVE  /\ \A a \in Windows \X Policies : Completion(a) \in CompletionRows
         /\ pc = "observe" /\ cur # NONE =>
              \A a \in Assets \X Policies : Observation(a) \in ObservationRows
<1>1. ASSUME NEW a \in Windows \X Policies PROVE Completion(a) \in CompletionRows
  <2>1. a[1] \in Windows /\ a[2] \in Policies
    OBVIOUS
  <2>2. first[a[1]][a[2]] \in Assets \cup {NONE}
    BY <2>1 DEF TypeOK
  <2> QED BY <2>1, <2>2 DEF Completion, CompletionRows
<1>2. ASSUME cur # NONE, NEW a \in Assets \X Policies
      PROVE  Observation(a) \in ObservationRows
  <2>1. a[1] \in Assets /\ a[2] \in Policies /\ cur \in Windows
    BY <1>2 DEF TypeOK
  <2>2. (chosen[a[2]] = a[1]) \in BOOLEAN
    OBVIOUS
  <2> QED BY <2>1, <2>2 DEF Observation, ObservationRows
<1> QED BY <1>1, <1>2

\* Every step keeps the types.
LEMMA NextTypes == TypeInv /\ [Next]_vars => TypeInv'
<1> SUFFICES ASSUME TypeInv, [Next]_vars PROVE TypeInv'
  OBVIOUS
<1>1. TypeOK /\ TornHasALine(obs) /\ TornHasALine(done)
  BY DEF TypeInv
<1>2. CASE Start
  <2>1. /\ UNCHANGED <<obs, done, now, scans, cur, todo, grid, chosen, faults,
                       merged>>
        /\ run < MaxRuns /\ run' = run + 1 /\ pc' = "idle"
        /\ log' = done.lines /\ observed' = LoadObserved
        /\ first' = LoadFirst /\ counts' = LoadCounts
    BY <1>2 DEF Start, StartWith, files
  <2>2. run' \in 0 .. MaxRuns
    BY <1>1, <2>1, BoundAssumption DEF TypeOK
  <2>3. done.lines \in Seq(CompletionRows \cup {Bad})
    BY <1>1 DEF TypeOK, File
  <2>4. TypeOK'
    BY <1>1, <2>1, <2>2, <2>3, LoadTypes DEF TypeOK
  <2> QED BY <1>1, <2>1, <2>4 DEF TypeInv, TornHasALine
<1>3. CASE BeginScan
  <2>1. /\ UNCHANGED <<obs, done, now, run, grid, chosen, log, observed, first,
                       counts, faults, merged>>
        /\ scans < MaxScans /\ scans' = scans + 1 /\ cur' = now
        /\ todo' = Due(now) \X Policies /\ pc' = "complete"
    BY <1>3 DEF BeginScan, files, memory
  <2>2. scans' \in 0 .. MaxScans
    BY <1>1, <2>1, BoundAssumption DEF TypeOK
  <2>3. todo' \subseteq Windows \X Policies
    BY <1>1, <2>1 DEF Due, TypeOK
  <2>4. TypeOK'
    BY <1>1, <2>1, <2>2, <2>3 DEF TypeOK
  <2>5. cur' # NONE
    BY <1>1, <2>1, NoneAssumption DEF TypeOK
  <2> QED BY <1>1, <2>1, <2>4, <2>5 DEF TypeInv, TornHasALine
<1>4. CASE Evaluate
  <2>1. /\ UNCHANGED <<obs, done, now, run, scans, cur, log, observed, first,
                       counts, faults, merged>>
        /\ todo' = {} /\ grid' = Assets \X Policies
        /\ chosen' \in [Policies -> Assets \cup {NONE}]
        /\ pc = "complete" /\ pc' = "observe"
    BY <1>4 DEF Evaluate, files, memory
  <2>2. TypeOK'
    BY <1>1, <2>1 DEF TypeOK
  <2> QED BY <1>1, <2>1, <2>2 DEF TypeInv, TornHasALine
<1>5. CASE Leave
  BY <1>1, <1>5, ExitTypes DEF Leave, files, TypeOK
<1>6. CASE Tick \/ UNCHANGED vars
  <2>1. /\ UNCHANGED <<obs, done, run, scans, pc, cur, todo, grid, chosen, log,
                       observed, first, counts, faults, merged>>
        /\ now' = now \/ (now < MaxWindow /\ now' = now + 1)
    BY <1>6 DEF Tick, vars, files, memory
  <2>2. now' \in Windows
    BY <1>1, <2>1, BoundAssumption DEF TypeOK, Windows
  <2>3. TypeOK'
    BY <1>1, <2>1, <2>2 DEF TypeOK
  <2> QED BY <1>1, <2>1, <2>3 DEF TypeInv, TornHasALine
<1>7. ASSUME NEW a \in Windows \X Policies, Complete(a) PROVE TypeInv'
  <2> DEFINE c == Completion(a)
  <2>1. /\ UNCHANGED <<obs, now, run, scans, pc, cur, grid, chosen, observed,
                       first, faults>>
        /\ done' = Written(done, c, TRUE) /\ merged' = (merged \/ done.torn)
        /\ log' = Append(log, c)
        /\ counts' = IF c.asset # NONE THEN [counts EXCEPT ![a[2]].yes = @ + 1]
                                       ELSE [counts EXCEPT ![a[2]].no = @ + 1]
        /\ todo' \subseteq todo
    BY <1>7 DEF Complete
  <2>2. c \in CompletionRows /\ a[2] \in Policies
    BY <1>1, RowTypes
  <2> HIDE DEF c
  <2>3. done' \in File(CompletionRows) /\ TornHasALine(done')
    <3>1. done \in File(CompletionRows) /\ c \in CompletionRows \cup {Bad}
      BY <1>1, <2>2 DEF TypeOK
    <3>2. /\ Written(done, c, TRUE) \in File(CompletionRows)
          /\ TornHasALine(Written(done, c, TRUE))
      BY <1>1, <3>1, WrittenType
    <3> QED BY <2>1, <3>2
  <2>4. log' \in Seq(CompletionRows \cup {Bad})
    BY <1>1, <2>1, <2>2 DEF TypeOK
  <2>5. counts' \in [Policies -> [yes : Nat, no : Nat]]
    <3>1. counts \in [Policies -> [yes : Nat, no : Nat]]
      BY <1>1 DEF TypeOK
    <3>2. counts[a[2]] \in [yes : Nat, no : Nat]
      BY <2>2, <3>1
    <3> QED BY <2>1, <2>2, <3>1, <3>2
  <2>6. merged' \in BOOLEAN
    BY <1>1, <2>1 DEF TypeOK, File
  <2>7. TypeOK'
    BY <1>1, <2>1, <2>3, <2>4, <2>5, <2>6 DEF TypeOK
  <2> QED BY <1>1, <2>1, <2>3, <2>7 DEF TypeInv, TornHasALine
<1>8. ASSUME NEW a \in Assets \X Policies, Observe(a) PROVE TypeInv'
  <2> DEFINE o == Observation(a)
  <2>1. /\ UNCHANGED <<done, now, run, scans, cur, todo, chosen, log, counts,
                       faults>>
        /\ pc = "observe"
        /\ obs' = Written(obs, o, TRUE) /\ merged' = (merged \/ obs.torn)
        /\ observed' = observed \cup {cur}
        /\ \/ first' = first
           \/ first' = [first EXCEPT ![cur][a[2]] = a[1]]
        /\ grid' = grid \ {a}
        /\ pc' = "idle" \/ pc' = "observe"
    BY <1>8 DEF Observe
  <2>2. cur # NONE /\ cur \in Windows /\ a[1] \in Assets /\ a[2] \in Policies
    BY <1>1, <2>1 DEF TypeInv, TypeOK
  <2>3. o \in ObservationRows
    BY <1>1, <2>1, <2>2, RowTypes
  <2> HIDE DEF o
  <2>4. obs' \in File(ObservationRows) /\ TornHasALine(obs')
    <3>1. obs \in File(ObservationRows) /\ o \in ObservationRows \cup {Bad}
      BY <1>1, <2>3 DEF TypeOK
    <3>2. /\ Written(obs, o, TRUE) \in File(ObservationRows)
          /\ TornHasALine(Written(obs, o, TRUE))
      BY <1>1, <3>1, WrittenType
    <3> QED BY <2>1, <3>2
  <2>5. first' \in [Windows -> [Policies -> Assets \cup {NONE}]]
    <3>1. first \in [Windows -> [Policies -> Assets \cup {NONE}]]
      BY <1>1 DEF TypeOK
    <3>2. [first EXCEPT ![cur][a[2]] = a[1]]
            \in [Windows -> [Policies -> Assets \cup {NONE}]]
      BY <2>2, <3>1
    <3> QED BY <2>1, <3>1, <3>2
  <2>6. merged' \in BOOLEAN /\ observed' \subseteq Windows
    BY <1>1, <2>1, <2>2 DEF TypeOK, File
  <2>7. TypeOK'
    BY <1>1, <2>1, <2>4, <2>5, <2>6 DEF TypeOK
  <2> QED BY <1>1, <2>1, <2>2, <2>4, <2>7 DEF TypeInv, TornHasALine
<1>9. ASSUME NEW a \in Windows \X Policies, CompleteCutShort(a) PROVE TypeInv'
  <2>1. Completion(a) \in CompletionRows
    BY <1>1, RowTypes
  <2>2. done' \in File(CompletionRows) /\ TornHasALine(done')
    BY <1>1, <1>9, <2>1, InterruptedType DEF CompleteCutShort, TypeOK
  <2>3. faults' \in 0 .. MaxFaults /\ merged' \in BOOLEAN
    BY <1>1, <1>9, BoundAssumption DEF CompleteCutShort, TypeOK, File
  <2> QED BY <1>1, <1>9, <2>2, <2>3, ExitTypes DEF CompleteCutShort, TypeOK
<1>10. ASSUME NEW a \in Assets \X Policies, ObserveCutShort(a) PROVE TypeInv'
  <2>1. Observation(a) \in ObservationRows
    BY <1>1, <1>10, RowTypes DEF ObserveCutShort, TypeInv
  <2>2. obs' \in File(ObservationRows) /\ TornHasALine(obs')
    BY <1>1, <1>10, <2>1, InterruptedType DEF ObserveCutShort, TypeOK
  <2>3. faults' \in 0 .. MaxFaults /\ merged' \in BOOLEAN
    BY <1>1, <1>10, BoundAssumption DEF ObserveCutShort, TypeOK, File
  <2> QED BY <1>1, <1>10, <2>2, <2>3, ExitTypes DEF ObserveCutShort, TypeOK
<1> QED BY <1>2, <1>3, <1>4, <1>5, <1>6, <1>7, <1>8, <1>9, <1>10 DEF Next

-----------------------------------------------------------------------------
\* A completion in memory that is no longer remembered has at least as many lines
\* after it as the memory holds (the deque of RECENT_IDS).
LEMMA EvictedIsFar ==
  ASSUME TypeOK, NEW k \in DOMAIN log, log[k] # Bad,
         <<log[k].win, log[k].pol>> \notin Remembered
  PROVE  Cap <= Len(log) - k
<1> DEFINE J == {j \in DOMAIN log : j > k /\ log[j] # Bad}
           n == Len(log)
<1>1. /\ DOMAIN log = 1 .. n /\ n \in Nat /\ k \in 1 .. n
      /\ Cap \in Nat
  BY BoundAssumption DEF TypeOK
<1>2. ~(Cardinality(J) < Cap)
  BY DEF Remembered, Newest
<1>3. /\ IsFiniteSet((k + 1) .. n)
      /\ Cardinality((k + 1) .. n) = IF k + 1 > n THEN 0 ELSE n - (k + 1) + 1
  <2>1. k + 1 \in Int /\ n \in Int
    BY <1>1
  <2> HIDE DEF n
  <2> QED BY <2>1, FS_Interval
<1>4. J \subseteq (k + 1) .. n
  BY <1>1
<1>5. Cardinality(J) \in Nat /\ Cardinality(J) <= Cardinality((k + 1) .. n)
  <2> HIDE DEF J, n
  <2> QED BY <1>3, <1>4, FS_Subset, FS_CardinalityType
<1> HIDE DEF J, n
<1>6. Cap <= n - k
  BY <1>1, <1>2, <1>3, <1>5
<1> QED BY <1>6 DEF n

\* A completion that is due, and on disk already, lies Cap lines before the end.
LEMMA DueIsFar ==
  ASSUME TypeInv, MemoryCovers, pc # "down", ~done.torn,
         NEW a \in Windows \X Policies, a \in NextDue,
         NEW i \in DOMAIN done.lines, done.lines[i] # Bad,
         ~Differ(done.lines[i], Completion(a))
  PROVE  Cap <= (Len(done.lines) + 1) - i
<1>1. PICK k \in DOMAIN log :
        /\ log[k] # Bad /\ ~Differ(done.lines[i], log[k])
        /\ Len(log) - k <= (Len(done.lines) - i) + 1
  BY DEF MemoryCovers
<1>2. <<log[k].win, log[k].pol>> = a
  BY <1>1 DEF Completion, Differ
<1>3. a \notin Remembered
  BY DEF NextDue, IsNext
<1>4. Cap <= Len(log) - k
  BY <1>1, <1>2, <1>3, EvictedIsFar DEF TypeInv
<1>5. Len(done.lines) \in Nat /\ i \in Nat /\ Len(log) \in Nat /\ k \in Nat
      /\ Cap \in Nat
  <2>1. /\ done.lines \in Seq(CompletionRows \cup {Bad})
        /\ log \in Seq(CompletionRows \cup {Bad})
    BY DEF TypeInv, TypeOK, File
  <2> QED BY <2>1, BoundAssumption
<1> QED BY <1>1, <1>4, <1>5

\* A row written far from the ones it repeats, whole, in part, or on a torn tail,
\* keeps repetitions far (_append).
LEMMA AppendKeepsFar ==
  ASSUME TypeInv, RepeatsAreFar, NEW c \in CompletionRows,
         ~done.torn => \A i \in DOMAIN done.lines :
           done.lines[i] # Bad /\ ~Differ(done.lines[i], c)
             => Cap <= (Len(done.lines) + 1) - i,
         done' = Written(done, c, TRUE) \/ done' \in Interrupted(done, c)
  PROVE  RepeatsAreFar'
<1>1. done \in File(CompletionRows) /\ TornHasALine(done)
  BY DEF TypeInv, TypeOK
<1>2. AddsAtMost(done, done', c) /\ done' \in File(CompletionRows)
  <2>1. CASE done' = Written(done, c, TRUE)
    <3>1. AddsAtMost(done, Written(done, c, TRUE), c)
      BY <1>1, WrittenLines
    <3>2. Written(done, c, TRUE) \in File(CompletionRows)
      BY <1>1, WrittenType
    <3> QED BY <2>1, <3>1, <3>2
  <2>2. CASE done' \in Interrupted(done, c)
    BY <1>1, <2>2, InterruptedLines, InterruptedType
  <2> QED BY <2>1, <2>2
<1>3. ASSUME NEW i \in DOMAIN done'.lines, NEW j \in DOMAIN done'.lines, i < j,
             done'.lines[i] # Bad, done'.lines[j] # Bad,
             ~Differ(done'.lines[i], done'.lines[j])
      PROVE  j - i >= Cap
  <2>1. /\ \/ i \in DOMAIN done.lines /\ done'.lines[i] = done.lines[i]
           \/ ~done.torn /\ i = Len(done.lines) + 1 /\ done'.lines[i] = c
        /\ \/ j \in DOMAIN done.lines /\ done'.lines[j] = done.lines[j]
           \/ ~done.torn /\ j = Len(done.lines) + 1 /\ done'.lines[j] = c
    BY <1>2, <1>3 DEF AddsAtMost
  <2>2. i \in Nat /\ j \in Nat /\ Len(done.lines) \in Nat /\ Cap \in Nat
        /\ DOMAIN done.lines = 1 .. Len(done.lines)
    BY <1>1, <1>2, BoundAssumption DEF File
  <2>3. CASE j \in DOMAIN done.lines
    <3>1. j # Len(done.lines) + 1 /\ i # Len(done.lines) + 1
      BY <1>3, <2>2, <2>3
    <3>2. /\ i \in DOMAIN done.lines /\ done'.lines[i] = done.lines[i]
          /\ done'.lines[j] = done.lines[j]
      BY <2>1, <3>1
    <3> QED BY <1>3, <2>3, <3>2 DEF RepeatsAreFar, Differ
  <2>4. CASE ~done.torn /\ j = Len(done.lines) + 1 /\ done'.lines[j] = c
    <3>1. i \in DOMAIN done.lines /\ done'.lines[i] = done.lines[i]
      BY <1>3, <2>1, <2>2, <2>4
    <3>2. Cap <= (Len(done.lines) + 1) - i
      BY <1>3, <2>4, <3>1
    <3> QED BY <2>2, <2>4, <3>2
  <2> QED BY <2>1, <2>3, <2>4
<1> QED BY <1>3 DEF RepeatsAreFar, Differ

\* One more completion, in memory and in the file (complete_window).
LEMMA CompleteCovers ==
  ASSUME TypeInv, MemoryCovers, NEW a \in Windows \X Policies, Complete(a)
  PROVE  MemoryCovers'
<1> DEFINE c == Completion(a)
<1>1. pc # "down" /\ done' = Written(done, c, TRUE) /\ log' = Append(log, c)
  BY DEF Complete
<1>2. c \in CompletionRows /\ c # Bad
  BY RowTypes, BadAssumption DEF TypeInv
<1> HIDE DEF c
<1>3. /\ done.lines \in Seq(CompletionRows \cup {Bad}) /\ done.torn \in BOOLEAN
      /\ log \in Seq(CompletionRows \cup {Bad})
      /\ done.torn => Len(done.lines) > 0
  BY DEF TypeInv, TypeOK, File, TornHasALine
<1> DEFINE m == Len(done.lines)
           n == Len(log)
<1>4. /\ m \in Nat /\ n \in Nat /\ DOMAIN done.lines = 1 .. m
      /\ DOMAIN log = 1 .. n
  BY <1>3
<1>5. /\ DOMAIN log' = 1 .. n + 1 /\ Len(log') = n + 1
      /\ \A k \in 1 .. n : log'[k] = log[k]
      /\ log'[n + 1] = c
  BY <1>1, <1>3
<1>6. done'.torn = FALSE
  BY <1>1 DEF Written
<1>7. ASSUME NEW i \in DOMAIN done'.lines, done'.lines[i] # Bad
      PROVE  \E k \in DOMAIN log' :
               /\ log'[k] # Bad /\ ~Differ(done'.lines[i], log'[k])
               /\ Len(log') - k <= (Len(done'.lines) - i) + 1
  <2>1. CASE i \in DOMAIN done.lines /\ done'.lines[i] = done.lines[i]
             /\ Len(done'.lines) = IF done.torn THEN m ELSE m + 1
    <3>1. PICK k \in DOMAIN log :
            /\ log[k] # Bad /\ ~Differ(done.lines[i], log[k])
            /\ n - k <= (m - i) + (IF done.torn THEN 0 ELSE 1)
      BY <1>1, <1>7, <2>1 DEF MemoryCovers
    <3>2. k \in 1 .. n + 1 /\ log'[k] = log[k] /\ i \in Nat /\ k \in Nat
      BY <1>4, <1>5, <2>1, <3>1
    <3> HIDE DEF m, n
    <3>3. (n + 1) - k <= (Len(done'.lines) - i) + 1
      BY <1>4, <2>1, <3>1, <3>2
    <3> QED BY <1>5, <2>1, <3>1, <3>2, <3>3
  <2>2. CASE done.torn
    <3>1. done'.lines = [done.lines EXCEPT ![m] = Bad]
      BY <1>1, <2>2 DEF Written
    <3>2. DOMAIN done'.lines = DOMAIN done.lines /\ Len(done'.lines) = m
      BY <1>3, <3>1
    <3>3. done'.lines[i] = done.lines[i]
      BY <1>3, <1>7, <3>1, <3>2
    <3> QED BY <1>7, <2>1, <2>2, <3>2, <3>3
  <2>3. CASE ~done.torn
    <3>1. done'.lines = Append(done.lines, c)
      BY <1>1, <2>3 DEF Written
    <3>2. /\ DOMAIN done'.lines = 1 .. m + 1 /\ Len(done'.lines) = m + 1
          /\ \A j \in 1 .. m : done'.lines[j] = done.lines[j]
          /\ done'.lines[m + 1] = c
      BY <1>3, <3>1
    <3>3. CASE i = m + 1
      <4>1. n + 1 \in DOMAIN log' /\ ~Differ(done'.lines[i], log'[n + 1])
        BY <1>4, <1>5, <3>2, <3>3 DEF Differ
      <4>2. Len(log') - (n + 1) <= (Len(done'.lines) - i) + 1
        <5> HIDE DEF m, n
        <5> QED BY <1>4, <1>5, <3>2, <3>3
      <4> QED BY <1>2, <1>5, <4>1, <4>2
    <3>4. CASE i \in 1 .. m
      BY <1>4, <2>1, <2>3, <3>2, <3>4
    <3> QED BY <1>4, <1>7, <3>2, <3>3, <3>4
  <2> QED BY <2>2, <2>3
<1> QED BY <1>6, <1>7 DEF MemoryCovers

\* Every step keeps memory covering the file and repetitions far.
LEMMA NextFar ==
  ASSUME IInv, [Next]_vars
  PROVE  MemoryCovers' /\ RepeatsAreFar'
<1>1. TypeInv /\ TypeOK /\ MemoryCovers /\ RepeatsAreFar
  BY DEF IInv, TypeInv
<1>2. CASE UNCHANGED <<done, log, pc>>
  BY <1>1, <1>2 DEF MemoryCovers, RepeatsAreFar
<1>3. CASE Start
  <2>1. log' = done.lines /\ done' = done
    BY <1>3 DEF Start, StartWith, files
  <2>2. MemoryCovers'
    <3>1. done.lines \in Seq(CompletionRows \cup {Bad})
      BY <1>1 DEF TypeOK, File
    <3>2. ASSUME NEW i \in DOMAIN done.lines
          PROVE  /\ ~Differ(done.lines[i], done.lines[i])
                 /\ Len(done.lines) - i <=
                      (Len(done.lines) - i) + (IF done.torn THEN 0 ELSE 1)
      BY <3>1 DEF Differ
    <3> QED BY <2>1, <3>2 DEF MemoryCovers
  <2> QED BY <1>1, <2>1, <2>2 DEF RepeatsAreFar
<1>4. CASE UNCHANGED <<done, log>> /\ pc # "down"
  BY <1>1, <1>4 DEF MemoryCovers, RepeatsAreFar
<1>5. ASSUME Exit, RepeatsAreFar' PROVE MemoryCovers'
  BY <1>5 DEF Exit, MemoryCovers
<1>6. CASE Leave
  <2>1. RepeatsAreFar'
    BY <1>1, <1>6 DEF Leave, files, RepeatsAreFar
  <2> QED BY <1>5, <1>6, <2>1 DEF Leave
<1>7. ASSUME NEW a \in Windows \X Policies,
             CompleteCutShort(a) \/ Complete(a)
      PROVE  RepeatsAreFar'
  <2>1. Completion(a) \in CompletionRows
    BY <1>1, RowTypes
  <2>2. /\ pc # "down" /\ a \in NextDue
        /\ \/ done' = Written(done, Completion(a), TRUE)
           \/ done' \in Interrupted(done, Completion(a))
    BY <1>7 DEF CompleteCutShort, Complete
  <2>3. ~done.torn => \A i \in DOMAIN done.lines :
          done.lines[i] # Bad /\ ~Differ(done.lines[i], Completion(a))
            => Cap <= (Len(done.lines) + 1) - i
    BY <1>1, <2>2, DueIsFar
  <2> QED BY <1>1, <2>1, <2>2, <2>3, AppendKeepsFar
<1>8. ASSUME NEW a \in Windows \X Policies, CompleteCutShort(a)
      PROVE  MemoryCovers' /\ RepeatsAreFar'
  BY <1>5, <1>7, <1>8 DEF CompleteCutShort
<1>9. ASSUME NEW a \in Windows \X Policies, Complete(a)
      PROVE  MemoryCovers' /\ RepeatsAreFar'
  BY <1>1, <1>7, <1>9, CompleteCovers
<1>10. ASSUME NEW a \in Assets \X Policies, ObserveCutShort(a)
       PROVE  MemoryCovers' /\ RepeatsAreFar'
  <2>1. RepeatsAreFar' /\ Exit
    BY <1>1, <1>10 DEF ObserveCutShort, RepeatsAreFar
  <2> QED BY <1>5, <2>1
<1>11. ASSUME NEW a \in Assets \X Policies, Observe(a)
       PROVE  UNCHANGED <<done, log>> /\ pc # "down"
  BY <1>11 DEF Observe
<1>12. CASE BeginScan \/ Evaluate
  BY <1>4, <1>12 DEF BeginScan, Evaluate, files, memory
<1>13. CASE Tick \/ UNCHANGED vars
  BY <1>2, <1>13 DEF Tick, vars, files, memory
<1> QED BY <1>3, <1>4, <1>6, <1>8, <1>9, <1>10, <1>11, <1>12, <1>13 DEF Next

-----------------------------------------------------------------------------
\* Every variable keeps its type (PolicyTelemetryStore).
THEOREM TypeCorrect == Spec => []TypeOK
<1>1. TypeInv => TypeOK
  BY DEF TypeInv
<1> QED BY <1>1, InitTypes, NextTypes, PTL DEF Spec

\* A run of any length, over restarts, broken appends and torn tails, with a memory
\* of any size and whatever it has evicted, repeats the completion of a window and
\* policy no sooner than that many lines after it (complete_window).
THEOREM RepeatsFar == Spec => []RepeatsAreFar
<1>1. Init => IInv
  <2>1. Init => MemoryCovers /\ RepeatsAreFar
    BY DEF Init, EmptyFile, MemoryCovers, RepeatsAreFar
  <2> QED BY <2>1, InitTypes DEF IInv
<1>2. IInv /\ [Next]_vars => IInv'
  BY NextTypes, NextFar DEF IInv
<1>3. IInv => RepeatsAreFar
  BY DEF IInv
<1> QED BY <1>1, <1>2, <1>3, PTL DEF Spec

-----------------------------------------------------------------------------
(***************************************************************************)
(* Truth and completeness of the completions, though a start reads only    *)
(* the tail of the observations.  Rows lie in the order of their windows,  *)
(* and a window earlier than the latest with a row has been completed: of  *)
(* what a start did not read, only the latest window is still to be told,  *)
(* and its rows are the last of the file.                                  *)
(***************************************************************************)
FirstOf(w, p) == FirstAmong(obs.lines, Readable(obs.lines), w, p)
Done(w, p) == \E c \in RowsOf(done) : c.win = w /\ c.pol = p

\* No observation is of a later window.
Latest(w) == \A r \in RowsOf(obs) : r.win <= w

\* The process is in a scan.
Scans == pc \in {"complete", "observe"}

\* A scan is of a window that has begun, and visits observed windows before it.
ScanInTime ==
  /\ Scans => cur <= now
  /\ pc = "complete" => \A a \in todo : a[1] < cur /\ a[1] \in observed

\* Observations are of windows that have begun, and lie in their order.
RowsInTime ==
  ~merged => \A r \in RowsOf(obs) : r.win <= now /\ (Scans => r.win <= cur)
RowsInOrder ==
  ~merged => \A i, j \in Readable(obs.lines) :
               i < j => obs.lines[i].win <= obs.lines[j].win

\* Completions are of windows that are over.
CompletionsAreOld ==
  ~merged => \A r \in RowsOf(done) : r.win < now /\ (Scans => r.win < cur)

\* Of the windows with an observation all but the latest are completed.
EarlierDone ==
  ~merged => \A r \in RowsOf(obs) :
               Latest(r.win) \/ \A p \in Policies : Done(r.win, p)

\* A signal remembered is on disk.
SignalsOnDisk ==
  \A w \in Windows, p \in Policies : first[w][p] # NONE =>
    \E r \in RowsOf(obs) :
      r.win = w /\ r.pol = p /\ r.asset = first[w][p] /\ r.sel

\* Memory is the file of completions; of the observations it knows what is true,
\* and of the latest window all, unless its rows are more than a start reads.
MemoryKnows ==
  ~merged /\ pc # "down" =>
    /\ log = done.lines
    /\ \A w \in observed : \E r \in RowsOf(obs) : r.win = w
    /\ \A r \in RowsOf(obs) : Latest(r.win) => r.win \in observed
    /\ \A w \in Windows, p \in Policies :
         Latest(w) /\ Fits(w) => first[w][p] = FirstOf(w, p)
    /\ SignalsOnDisk

\* What a scan has not completed it will still visit.
VisitInStep ==
  ~merged /\ pc = "complete" =>
    \A w \in observed, p \in Policies :
      w < cur => <<w, p>> \in todo \/ Done(w, p)

\* What is said of the observations; of the completions; and of memory.
ObsInv  == RowsInTime /\ RowsInOrder /\ EarlierDone
DoneInv == CompletionsAreOld /\ CompletionsTellTheTruth
ScanInv == MemoryKnows /\ VisitInStep /\ ExpiredAreCompleted

CInv == TypeInv /\ ScanInTime /\ ObsInv /\ DoneInv /\ ScanInv

-----------------------------------------------------------------------------
\* What one more line does to the first signal of a policy in a window.
LEMMA FirstAfter ==
  ASSUME NEW lines \in Seq(ObservationRows \cup {Bad}),
         NEW x \in ObservationRows \cup {Bad}, NEW w, NEW p,
         NEW more, more = Append(lines, x)
  PROVE  FirstAmong(more, Readable(more), w, p) =
           IF FirstAmong(lines, Readable(lines), w, p) # NONE
             THEN FirstAmong(lines, Readable(lines), w, p)
           ELSE IF x # Bad /\ x.win = w /\ x.pol = p /\ x.sel THEN x.asset
           ELSE NONE
<1> DEFINE n == Len(lines) + 1
           hits == {i \in Readable(lines) :
                      lines[i].win = w /\ lines[i].pol = p /\ lines[i].sel}
           more_hits == {i \in Readable(more) :
                           more[i].win = w /\ more[i].pol = p /\ more[i].sel}
           fits == x # Bad /\ x.win = w /\ x.pol = p /\ x.sel
           Least(I) == CHOOSE i \in I : \A j \in I : i <= j
<1>1. /\ DOMAIN more = DOMAIN lines \cup {n} /\ n \notin DOMAIN lines
      /\ DOMAIN lines \subseteq Nat /\ \A i \in DOMAIN lines : i < n
      /\ \A i \in DOMAIN lines : more[i] = lines[i]
      /\ more[n] = x
  OBVIOUS
<1>2. more_hits = hits \cup (IF fits THEN {n} ELSE {})
  <2>1. \A i \in DOMAIN lines : i \in more_hits <=> i \in hits
    BY <1>1 DEF Readable
  <2>2. n \in more_hits <=> fits
    BY <1>1 DEF Readable
  <2>3. more_hits \subseteq DOMAIN lines \cup {n} /\ hits \subseteq DOMAIN lines
    BY <1>1 DEF Readable
  <2> HIDE DEF more_hits, hits, fits
  <2> QED BY <1>1, <2>1, <2>2, <2>3
<1>3. hits \subseteq DOMAIN lines
  BY DEF Readable
<1>4. FirstAmong(lines, Readable(lines), w, p) =
        IF hits = {} THEN NONE ELSE lines[Least(hits)].asset
  BY DEF FirstAmong
<1>5. FirstAmong(more, Readable(more), w, p) =
        IF more_hits = {} THEN NONE ELSE more[Least(more_hits)].asset
  BY DEF FirstAmong
<1>6. CASE hits = {}
  <2>1. CASE fits
    <3>1. more_hits = {n}
      BY <1>2, <1>6, <2>1
    <3>2. n <= n
      BY DEF n
    <3> HIDE DEF more_hits, hits, fits, n
    <3>3. Least(more_hits) = n
      BY <3>1, <3>2
    <3> QED BY <1>1, <1>4, <1>5, <1>6, <2>1, <3>1, <3>3 DEF fits
  <2>2. CASE ~fits
    <3>1. more_hits = {}
      BY <1>2, <1>6, <2>2
    <3> HIDE DEF more_hits, hits, fits, n
    <3> QED BY <1>4, <1>5, <1>6, <2>2, <3>1 DEF fits
  <2> QED BY <2>1, <2>2
<1>7. CASE hits # {}
  <2> DEFINE m == Least(hits)
  <2>1. \E i \in hits : \A j \in hits : i <= j
    <3> HIDE DEF hits
    <3> QED BY <1>1, <1>3, <1>7, LeastElement
  <2>2. m \in hits /\ \A j \in hits : m <= j
    BY <2>1
  <2>3. lines[m].asset \in Assets /\ lines[m].asset # NONE
    <3> HIDE DEF m
    <3>1. m \in DOMAIN lines /\ lines[m] # Bad
      BY <2>2 DEF Readable
    <3>2. lines[m] \in ObservationRows
      BY <3>1
    <3> QED BY <3>2, NoneAssumption DEF ObservationRows
  <2> HIDE DEF m, hits, fits, more_hits, n
  <2>4. m \in more_hits /\ \A j \in more_hits : m <= j
    BY <1>1, <1>2, <1>3, <2>2
  <2>5. more_hits \subseteq Nat
    BY <1>1, <1>2, <1>3
  <2>6. ASSUME NEW k \in more_hits, \A j \in more_hits : k <= j PROVE k = m
    BY <2>4, <2>5, <2>6
  <2>7. Least(more_hits) = m
    BY <2>4, <2>6
  <2>8. more[m] = lines[m]
    BY <1>1, <1>3, <2>2
  <2> QED BY <1>4, <1>5, <1>7, <2>3, <2>4, <2>7, <2>8 DEF m
<1> QED BY <1>6, <1>7

\* When no completion is due, every pair of the visit is remembered.
LEMMA VisitOver ==
  ASSUME TypeOK, NextDue = {}
  PROVE  todo \subseteq Remembered
<1> DEFINE D == todo \ Remembered
<1>1. \A a \in D : /\ a \in todo /\ a = <<a[1], a[2]>>
                   /\ a[1] \in Nat /\ a[2] \in Nat
  BY DEF TypeOK, Windows, Policies
<1> SUFFICES ASSUME D # {} PROVE FALSE
  OBVIOUS
<1>2. D \subseteq todo
  OBVIOUS
<1>3. \A a \in D : ~IsNext(a, D)
  BY DEF NextDue
<1> HIDE DEF D
<1> DEFINE W == {a[1] : a \in D}
<1>4. PICK w \in W : \A v \in W : w <= v
  <2>1. W \subseteq Nat /\ W # {}
    BY <1>1
  <2> HIDE DEF W
  <2> QED BY <2>1, LeastElement
<1> DEFINE Q == {a[2] : a \in {b \in D : b[1] = w}}
<1>5. PICK p \in Q : \A q \in Q : p <= q
  <2>1. Q \subseteq Nat /\ Q # {}
    BY <1>1, <1>4
  <2> HIDE DEF Q
  <2> QED BY <2>1, LeastElement
<1>6. PICK a \in D : a[1] = w /\ a[2] = p
  BY <1>5
<1>7. ASSUME NEW b \in D \ {a} PROVE Earlier(a, b)
  <2>1. w \in Nat /\ p \in Nat /\ b[1] \in Nat /\ b[2] \in Nat
    BY <1>1, <1>6
  <2>2. w <= b[1]
    BY <1>4
  <2>3. b[1] = w => p <= b[2]
    BY <1>5
  <2>4. b[1] # w \/ b[2] # p
    BY <1>1, <1>6
  <2> QED BY <1>6, <2>1, <2>2, <2>3, <2>4 DEF Earlier
<1> QED BY <1>3, <1>6, <1>7 DEF IsNext

\* What memory remembers is done, when its log is the file.
LEMMA RememberedIsDone ==
  ASSUME log = done.lines, NEW w, NEW p, <<w, p>> \in Remembered
  PROVE  Done(w, p)
<1>1. PICK i \in Newest(log, Cap) : log[i].win = w /\ log[i].pol = p
  BY DEF Remembered
<1>2. i \in DOMAIN done.lines /\ done.lines[i] # Bad
  BY <1>1 DEF Newest
<1>3. done.lines[i] \in RowsOf(done)
  BY <1>2 DEF RowsOf
<1> QED BY <1>1, <1>3 DEF Done

-----------------------------------------------------------------------------
\* A row on one more line, and what it changes of the observations.
LEMMA OneMore ==
  ASSUME NEW R, NEW lines \in Seq(R), NEW x, NEW more, more = Append(lines, x)
  PROVE  /\ DOMAIN more = DOMAIN lines \cup {Len(lines) + 1}
         /\ \A i \in DOMAIN lines : i \in Nat /\ i < Len(lines) + 1
         /\ \A i \in DOMAIN lines : more[i] = lines[i]
         /\ more[Len(lines) + 1] = x
OBVIOUS

\* The readable rows of a window.
RowsIn(lines, w) == {i \in Readable(lines) : lines[i].win = w}

\* A window that fits after a row is added did so before.
LEMMA FitsBefore ==
  ASSUME NEW R, NEW lines \in Seq(R), NEW x, NEW more, more = Append(lines, x),
         NEW w, NEW n \in Nat, Cardinality(RowsIn(more, w)) <= n
  PROVE  Cardinality(RowsIn(lines, w)) <= n
<1> DEFINE S == RowsIn(lines, w)
           T == RowsIn(more, w)
<1>1. S \subseteq T
  BY OneMore DEF Readable, RowsIn
<1>2. IsFiniteSet(T) /\ Cardinality(T) \in Nat
  <2>1. T \subseteq DOMAIN more
    BY DEF Readable, RowsIn
  <2>2. more \in Seq(R \cup {x})
    OBVIOUS
  <2> HIDE DEF T
  <2> QED BY <2>1, <2>2, PositionsFinite
<1>3. Cardinality(S) \in Nat /\ Cardinality(S) <= Cardinality(T)
  <2> HIDE DEF S, T
  <2> QED BY <1>1, <1>2, FS_Subset, FS_CardinalityType
<1>4. Cardinality(T) <= n
  OBVIOUS
<1> HIDE DEF S, T
<1>5. Cardinality(S) <= n
  BY <1>2, <1>3, <1>4
<1> QED BY <1>5 DEF S

\* The rows of the latest window are the newest of the file: when it fits, a start
\* reads all of them (__init__).
LEMMA LatestIsRead ==
  ASSUME TypeInv, RowsInOrder, ~merged, NEW w \in Windows, Latest(w), Fits(w),
         NEW i \in Readable(obs.lines), obs.lines[i].win = w
  PROVE  i \in Newest(obs.lines, Reload)
<1> DEFINE S == {k \in Readable(obs.lines) : obs.lines[k].win = w}
           J == {j \in DOMAIN obs.lines : j > i /\ obs.lines[j] # Bad}
<1>1. /\ obs.lines \in Seq(ObservationRows \cup {Bad}) /\ i \in DOMAIN obs.lines
      /\ obs.lines[i] # Bad /\ DOMAIN obs.lines \subseteq Nat
      /\ Reload \in Nat
  BY BoundAssumption DEF TypeInv, TypeOK, File, Readable
<1>2. S \subseteq DOMAIN obs.lines /\ i \in S /\ J \subseteq DOMAIN obs.lines
  BY DEF Readable
<1>3. ASSUME NEW j \in J PROVE j \in S \ {i}
  <2>1. j \in Readable(obs.lines) /\ i < j /\ j # i
    BY <1>1 DEF Readable
  <2>2. w <= obs.lines[j].win
    BY <2>1 DEF RowsInOrder
  <2>3. obs.lines[j] \in RowsOf(obs) /\ obs.lines[j] \in ObservationRows
    BY <1>1, <2>1 DEF RowsOf, Readable
  <2>4. obs.lines[j].win <= w
    BY <2>3 DEF Latest
  <2>5. obs.lines[j].win \in Nat /\ w \in Nat
    BY <2>3 DEF ObservationRows, Windows
  <2> QED BY <2>1, <2>2, <2>4, <2>5
<1>4. Cardinality(S) <= Reload
  BY DEF Fits
<1> HIDE DEF S, J
<1>5. IsFiniteSet(S) /\ Cardinality(S) \in Nat
  BY <1>1, <1>2, PositionsFinite
<1>6. IsFiniteSet(S \ {i}) /\ Cardinality(S \ {i}) = Cardinality(S) - 1
  BY <1>2, <1>5, FS_RemoveElement
<1>7. J \subseteq S \ {i}
  BY <1>3
<1>8. Cardinality(J) \in Nat /\ Cardinality(J) <= Cardinality(S \ {i})
  BY <1>6, <1>7, FS_Subset, FS_CardinalityType
<1>9. Cardinality(J) < Reload
  BY <1>1, <1>4, <1>5, <1>6, <1>8
<1> QED BY <1>1, <1>9 DEF Newest, J

\* A start reads the last row of the file, however short the tail (__init__).
LEMMA LastIsRead ==
  ASSUME TypeInv, RowsInOrder, ~merged,
         NEW r \in RowsOf(obs), Latest(r.win)
  PROVE  r.win \in LoadObserved
<1> DEFINE I == Readable(obs.lines)
           n == Len(obs.lines)
<1>1. /\ obs.lines \in Seq(ObservationRows \cup {Bad})
      /\ n \in Nat /\ DOMAIN obs.lines = 1 .. n /\ Reload \in Nat \ {0}
  BY BoundAssumption DEF TypeInv, TypeOK, File
<1>2. PICK k \in DOMAIN obs.lines : obs.lines[k] = r /\ r # Bad
  BY DEF RowsOf
<1>3. k \in I /\ I \subseteq 1 .. n /\ I # {}
  BY <1>1, <1>2 DEF Readable
<1>4. PICK m \in I : \A j \in I : j <= m
  <2> HIDE DEF I, n
  <2> QED BY <1>1, <1>3, GreatestElement
<1>5. {j \in DOMAIN obs.lines : j > m /\ obs.lines[j] # Bad} = {}
  <2> SUFFICES ASSUME NEW j \in DOMAIN obs.lines, j > m, obs.lines[j] # Bad
               PROVE  FALSE
    OBVIOUS
  <2>1. j \in I /\ m \in 1 .. n
    BY <1>3, <1>4 DEF Readable
  <2>2. j <= m
    BY <1>4, <2>1
  <2> QED BY <1>1, <2>1, <2>2
<1>6. m \in Newest(obs.lines, Reload)
  <2>1. Cardinality({}) = 0 /\ 0 < Reload
    BY <1>1, FS_EmptySet
  <2>2. m \in DOMAIN obs.lines /\ obs.lines[m] # Bad
    BY <1>4 DEF Readable
  <2> QED BY <1>5, <2>1, <2>2 DEF Newest
<1>7. obs.lines[m].win = r.win
  <2>1. obs.lines[m] \in RowsOf(obs) /\ obs.lines[m] \in ObservationRows
        /\ r \in ObservationRows
    BY <1>1, <1>2, <1>4 DEF RowsOf, Readable
  <2>2. obs.lines[m].win <= r.win
    BY <2>1 DEF Latest
  <2>3. r.win <= obs.lines[m].win
    <3>1. CASE k = m
      BY <1>2, <2>1, <3>1 DEF ObservationRows, Windows
    <3>2. CASE k # m
      <4>1. k <= m /\ k \in Nat /\ m \in Nat
        BY <1>1, <1>3, <1>4
      <4>2. k < m
        BY <3>2, <4>1
      <4> QED BY <1>2, <1>3, <1>4, <4>2 DEF RowsInOrder
    <3> QED BY <3>1, <3>2
  <2>4. obs.lines[m].win \in Nat /\ r.win \in Nat
    BY <2>1 DEF ObservationRows, Windows
  <2> QED BY <2>2, <2>3, <2>4
<1> QED BY <1>6, <1>7 DEF LoadObserved

\* What a start reads back of the signals: what is on disk, and of the latest
\* window all when it fits (__init__).
LEMMA LoadSignals ==
  ASSUME TypeInv, RowsInOrder, ~merged, NEW w \in Windows, NEW p \in Policies
  PROVE  /\ Latest(w) /\ Fits(w) => LoadFirst[w][p] = FirstOf(w, p)
         /\ LoadFirst[w][p] # NONE => \E r \in RowsOf(obs) :
              r.win = w /\ r.pol = p /\ r.asset = LoadFirst[w][p] /\ r.sel
<1> DEFINE lines == obs.lines
           N == Newest(lines, Reload)
           hits == {i \in N : lines[i].win = w /\ lines[i].pol = p /\ lines[i].sel}
<1>1. LoadFirst[w][p] = FirstAmong(lines, N, w, p)
  BY DEF LoadFirst
<1>2. N \subseteq Readable(lines) /\ N \subseteq Nat
  <2>1. lines \in Seq(ObservationRows \cup {Bad})
    BY DEF TypeInv, TypeOK, File
  <2>2. DOMAIN lines \subseteq Nat
    <3> HIDE DEF lines
    <3> QED BY <2>1
  <2>3. N \subseteq Readable(lines) /\ Readable(lines) \subseteq DOMAIN lines
    BY DEF Newest, Readable
  <2> QED BY <2>2, <2>3
<1>3. ASSUME Latest(w), Fits(w) PROVE LoadFirst[w][p] = FirstOf(w, p)
  <2>1. hits = {i \in Readable(lines) :
                  lines[i].win = w /\ lines[i].pol = p /\ lines[i].sel}
    <3>1. \A i \in Readable(lines) : lines[i].win = w => i \in N
      BY <1>3, LatestIsRead
    <3> HIDE DEF N, lines
    <3> QED BY <1>2, <3>1
  <2> QED BY <1>1, <2>1 DEF FirstOf, FirstAmong
<1>4. ASSUME LoadFirst[w][p] # NONE
      PROVE  \E r \in RowsOf(obs) :
               r.win = w /\ r.pol = p /\ r.asset = LoadFirst[w][p] /\ r.sel
  <2> DEFINE m == CHOOSE i \in hits : \A j \in hits : i <= j
  <2>1. hits # {} /\ LoadFirst[w][p] = lines[m].asset
    BY <1>1, <1>4 DEF FirstAmong
  <2>2. \E i \in hits : \A j \in hits : i <= j
    <3>1. hits \subseteq Nat
      BY <1>2
    <3> HIDE DEF hits
    <3> QED BY <2>1, <3>1, LeastElement
  <2>3. m \in hits
    <3> HIDE DEF hits
    <3> QED BY <2>2
  <2>4. lines[m] \in RowsOf(obs)
    <3> HIDE DEF m
    <3> QED BY <1>2, <2>3 DEF RowsOf, Readable
  <2> HIDE DEF m
  <2> QED BY <2>1, <2>3, <2>4
<1> QED BY <1>3, <1>4

\* A scan stays in its window, and the window in the past of the clock.
LEMMA NextInTime == TypeInv /\ ScanInTime /\ [Next]_vars => ScanInTime'
<1> SUFFICES ASSUME TypeInv, ScanInTime, [Next]_vars PROVE ScanInTime'
  OBVIOUS
<1>1. TypeOK /\ (Scans => cur \in Windows) /\ now \in Windows
  BY DEF TypeInv, TypeOK, Scans
<1>2. Windows \subseteq Nat
  BY DEF Windows
<1>3. CASE pc' \notin {"complete", "observe"}
  BY <1>3 DEF ScanInTime, Scans
<1>4. CASE BeginScan
  <2>1. /\ cur' = now /\ UNCHANGED <<now, observed>>
        /\ todo' = Due(now) \X Policies
    BY <1>4 DEF BeginScan, memory
  <2>2. \A a \in todo' : a[1] < cur' /\ a[1] \in observed'
    BY <2>1 DEF Due
  <2> QED BY <1>1, <1>2, <2>1, <2>2 DEF ScanInTime
<1>5. CASE /\ Scans /\ cur' = cur /\ now' = now
           /\ pc' = "complete" =>
                pc = "complete" /\ todo' \subseteq todo /\ observed' = observed
  BY <1>5 DEF ScanInTime
<1>6. CASE Tick
  <2>1. now' = now + 1 /\ UNCHANGED <<pc, cur, todo, observed>>
    BY <1>6 DEF Tick, memory
  <2>2. Scans => cur <= now + 1
    <3>1. Scans => cur \in Nat /\ now \in Nat /\ cur <= now
      BY <1>1, <1>2 DEF ScanInTime
    <3> QED BY <3>1
  <2> QED BY <2>1, <2>2 DEF ScanInTime, Scans
<1>7. CASE UNCHANGED vars
  BY <1>7 DEF vars, memory, ScanInTime, Scans
<1>8. CASE \/ Start \/ Leave
           \/ \E a \in Windows \X Policies : CompleteCutShort(a)
           \/ \E b \in Assets \X Policies : ObserveCutShort(b)
  BY <1>3, <1>8 DEF Start, StartWith, Leave, CompleteCutShort, ObserveCutShort, Exit
<1>9. CASE Evaluate
  BY <1>5, <1>9 DEF Evaluate, Scans
<1>10. CASE \E a \in Windows \X Policies : Complete(a)
  BY <1>5, <1>10 DEF Complete, Scans
<1>11. CASE \E a \in Assets \X Policies : Observe(a)
  BY <1>3, <1>5, <1>11 DEF Observe, Scans
<1>12. \/ Start \/ BeginScan \/ Evaluate \/ Leave \/ Tick \/ UNCHANGED vars
       \/ \E a \in Windows \X Policies : Complete(a)
       \/ \E a \in Windows \X Policies : CompleteCutShort(a)
       \/ \E a \in Assets \X Policies : Observe(a)
       \/ \E a \in Assets \X Policies : ObserveCutShort(a)
  BY DEF Next
<1> QED BY <1>4, <1>6, <1>7, <1>8, <1>9, <1>10, <1>11, <1>12

-----------------------------------------------------------------------------
\* The readable rows have windows, which are numbers.
LEMMA RowWindows ==
  ASSUME TypeInv
  PROVE  /\ \A r \in RowsOf(obs) : r \in ObservationRows /\ r.win \in Nat
         /\ \A r \in RowsOf(done) : r \in CompletionRows /\ r.win \in Nat
         /\ now \in Nat /\ now \in Windows
         /\ Scans => cur \in Nat /\ cur \in Windows
<1>1. /\ obs.lines \in Seq(ObservationRows \cup {Bad})
      /\ done.lines \in Seq(CompletionRows \cup {Bad})
  BY DEF TypeInv, TypeOK, File
<1>2. \A r \in RowsOf(obs) : r \in ObservationRows
  BY <1>1 DEF RowsOf
<1>3. \A r \in RowsOf(done) : r \in CompletionRows
  BY <1>1 DEF RowsOf
<1>4. Windows \subseteq Nat
  BY DEF Windows
<1>5. now \in Windows /\ (Scans => cur \in Windows)
  BY DEF TypeInv, TypeOK, Scans
<1> QED BY <1>2, <1>3, <1>4, <1>5 DEF ObservationRows, CompletionRows

\* What is said of the observations while their file stays, the clock moves on,
\* and completions are only added.
LEMMA ObsStay ==
  ASSUME TypeInv, ObsInv, ~merged, obs' = obs, now' \in Nat, now <= now',
         ~Scans' \/ (Scans /\ cur' = cur),
         RowsOf(done) \subseteq RowsOf(done')
  PROVE  ObsInv'
<1>1. RowsInTime'
  <2> SUFFICES ASSUME NEW r \in RowsOf(obs)
               PROVE  r.win <= now' /\ (Scans' => r.win <= cur')
    BY DEF RowsInTime
  <2>1. r.win <= now /\ (Scans => r.win <= cur)
    BY DEF ObsInv, RowsInTime
  <2>2. r.win \in Nat /\ now \in Nat
    BY RowWindows
  <2> QED BY <2>1, <2>2
<1>2. RowsInOrder'
  BY DEF ObsInv, RowsInOrder
<1>3. EarlierDone'
  <2>1. \A w, p : Done(w, p) => Done(w, p)'
    BY DEF Done
  <2>2. \A r \in RowsOf(obs) : Latest(r.win) \/ \A p \in Policies : Done(r.win, p)
    BY DEF ObsInv, EarlierDone
  <2>3. \A w : Latest(w) => Latest(w)'
    BY DEF Latest
  <2> QED BY <2>1, <2>2, <2>3 DEF EarlierDone
<1> QED BY <1>1, <1>2, <1>3 DEF ObsInv

\* What is said of completions while the files stay.
LEMMA DoneStay ==
  ASSUME TypeInv, DoneInv, ~merged, UNCHANGED files, now' \in Nat, now <= now',
         ~Scans' \/ (Scans /\ cur' = cur)
  PROVE  DoneInv'
<1>1. CompletionsTellTheTruth'
  BY DEF DoneInv, CompletionsTellTheTruth, files, Readable, IsFirst, Fits
<1>2. ASSUME NEW r \in RowsOf(done)
      PROVE  r.win < now' /\ (Scans' => r.win < cur')
  <2>1. r.win < now /\ (Scans => r.win < cur)
    BY DEF DoneInv, CompletionsAreOld
  <2>2. r.win \in Nat /\ now \in Nat
    BY RowWindows
  <2> QED BY <2>1, <2>2
<1>3. CompletionsAreOld'
  BY <1>2 DEF CompletionsAreOld, files
<1> QED BY <1>1, <1>3 DEF DoneInv

\* A step that leaves no process and no scan behind.
LEMMA DownIsQuiet ==
  ASSUME Exit
  PROVE  ScanInv' /\ ~Scans'
BY DEF Exit, ScanInv, MemoryKnows, VisitInStep, ExpiredAreCompleted, Scans

\* A completion that is due is of a window that is over; its signal is on disk; and
\* when it is the first of its kind it says what the observations say.
LEMMA DueIsTrue ==
  ASSUME CInv, ~merged, pc = "complete",
         NEW a \in Windows \X Policies, a \in NextDue
  PROVE  /\ Completion(a).win = a[1] /\ Completion(a).pol = a[2]
         /\ a[1] < cur /\ a[1] < now
         /\ Completion(a).asset # NONE => \E r \in RowsOf(obs) :
              /\ r.win = a[1] /\ r.pol = a[2]
              /\ r.asset = Completion(a).asset /\ r.sel
         /\ ~Done(a[1], a[2]) /\ Fits(a[1]) =>
              Completion(a).asset = FirstOf(a[1], a[2])
<1>1. a[1] \in Windows /\ a[2] \in Policies /\ a \in todo
  BY DEF NextDue
<1>2. Completion(a).asset = first[a[1]][a[2]]
  BY DEF Completion
<1>3. a[1] < cur /\ cur <= now /\ a[1] \in observed
  BY <1>1 DEF CInv, ScanInTime, Scans
<1>4. cur \in Nat /\ now \in Nat /\ a[1] \in Nat
  BY <1>1, RowWindows DEF CInv, Scans, Windows
<1>5. a[1] < now
  BY <1>3, <1>4
<1>6. SignalsOnDisk
  BY DEF CInv, ScanInv, MemoryKnows
<1>7. ASSUME ~Done(a[1], a[2]), Fits(a[1])
      PROVE  first[a[1]][a[2]] = FirstOf(a[1], a[2])
  <2>1. PICK r \in RowsOf(obs) : r.win = a[1]
    BY <1>3 DEF CInv, ScanInv, MemoryKnows
  <2>2. Latest(a[1])
    BY <1>1, <1>7, <2>1 DEF CInv, ObsInv, EarlierDone
  <2> QED BY <1>1, <1>7, <2>2 DEF CInv, ScanInv, MemoryKnows
<1>8. Completion(a).win = a[1] /\ Completion(a).pol = a[2]
  BY DEF Completion
<1>9. Completion(a).asset # NONE => \E r \in RowsOf(obs) :
        /\ r.win = a[1] /\ r.pol = a[2]
        /\ r.asset = Completion(a).asset /\ r.sel
  BY <1>1, <1>2, <1>6 DEF SignalsOnDisk
<1> QED BY <1>2, <1>3, <1>5, <1>7, <1>8, <1>9

\* complete_window, whole or broken: what may have landed is true.
LEMMA CompletedTrue ==
  ASSUME CInv, ~merged, pc = "complete", UNCHANGED <<obs, now>>,
         NEW a \in Windows \X Policies, a \in NextDue,
         \/ done' = done \/ done'.lines = Append(done.lines, Bad)
         \/ done'.lines = Append(done.lines, Completion(a)),
         ~Scans' \/ cur' = cur
  PROVE  DoneInv' /\ ObsInv'
<1> DEFINE c == Completion(a)
           m == Len(done.lines)
<1>1. c \in CompletionRows /\ c # Bad
  BY RowTypes, BadAssumption DEF CInv, TypeInv
<1>2. /\ c.win = a[1] /\ c.pol = a[2] /\ a[1] < cur /\ a[1] < now
      /\ c.asset # NONE => \E r \in RowsOf(obs) :
           r.win = a[1] /\ r.pol = a[2] /\ r.asset = c.asset /\ r.sel
      /\ ~Done(a[1], a[2]) /\ Fits(a[1]) => c.asset = FirstOf(a[1], a[2])
  BY DueIsTrue
<1>3. \/ done' = done \/ done'.lines = Append(done.lines, Bad)
      \/ done'.lines = Append(done.lines, c)
  OBVIOUS
<1> HIDE DEF c
<1>4. /\ done \in File(CompletionRows) /\ m \in Nat
      /\ done.lines \in Seq(CompletionRows \cup {Bad}) /\ DOMAIN done.lines = 1 .. m
  BY DEF CInv, TypeInv, TypeOK, File
<1>5. /\ RowsOf(done) \subseteq RowsOf(done')
      /\ RowsOf(done') \subseteq RowsOf(done) \cup {c}
  <2>1. CASE done' = done
    BY <2>1
  <2>2. CASE done'.lines = Append(done.lines, Bad)
    <3>1. RowsOf(done') = RowsOf(done) \cup ({Bad} \ {Bad})
      BY <1>4, <2>2, AppendRows
    <3> QED BY <3>1
  <2>3. CASE done'.lines = Append(done.lines, c)
    <3>1. RowsOf(done') = RowsOf(done) \cup ({c} \ {Bad})
      BY <1>4, <2>3, AppendRows
    <3> QED BY <3>1
  <2> QED BY <1>3, <2>1, <2>2, <2>3
<1>6. /\ \A w, p : FirstOf(w, p)' = FirstOf(w, p)
      /\ \A w : Fits(w)' <=> Fits(w)
      /\ RowsOf(obs') = RowsOf(obs)
  BY DEF FirstOf, Fits, RowsOf, Readable
<1>7. CompletionsAreOld'
  <2>1. \A r \in RowsOf(done) : r.win < now /\ r.win < cur
    BY DEF CInv, DoneInv, CompletionsAreOld, Scans
  <2> QED BY <1>2, <1>5, <2>1 DEF CompletionsAreOld
<1>8. /\ DOMAIN done.lines \subseteq DOMAIN done'.lines
      /\ \A i \in 1 .. m : done'.lines[i] = done.lines[i]
      /\ \A i \in DOMAIN done'.lines :
           i \in 1 .. m \/ (i = m + 1 /\ done'.lines[i] \in {Bad, c})
  <2>1. CASE done' = done
    BY <1>4, <2>1
  <2>2. ASSUME NEW x \in {Bad, c}, done'.lines = Append(done.lines, x)
        PROVE  /\ DOMAIN done.lines \subseteq DOMAIN done'.lines
               /\ \A i \in 1 .. m : done'.lines[i] = done.lines[i]
               /\ \A i \in DOMAIN done'.lines :
                    i \in 1 .. m \/ (i = m + 1 /\ done'.lines[i] \in {Bad, c})
    BY <1>4, <2>2, OneMore
  <2> QED BY <1>3, <2>1, <2>2
<1>9. ASSUME NEW i \in Readable(done'.lines)
      PROVE  LET d == done'.lines[i]
             IN  /\ d.asset # NONE => \E r \in RowsOf(obs) :
                      r.win = d.win /\ r.pol = d.pol /\ r.asset = d.asset /\ r.sel
                 /\ IsFirst(i)' /\ Fits(d.win) => d.asset = FirstOf(d.win, d.pol)
  <2>1. i \in DOMAIN done'.lines /\ done'.lines[i] # Bad
    BY DEF Readable
  <2>2. CASE i \in 1 .. m
    <3>1. done'.lines[i] = done.lines[i] /\ i \in Readable(done.lines)
      BY <1>4, <1>8, <2>1, <2>2 DEF Readable
    <3>2. \A j \in 1 .. i - 1 : done'.lines[j] = done.lines[j]
      BY <1>4, <1>8, <2>2
    <3>3. IsFirst(i)' => IsFirst(i)
      BY <3>1, <3>2 DEF IsFirst
    <3> QED BY <3>1, <3>3 DEF CInv, DoneInv, CompletionsTellTheTruth, FirstOf
  <2>3. CASE i = m + 1 /\ done'.lines[i] = c
    <3>1. IsFirst(i)' => ~Done(a[1], a[2])
      <4> SUFFICES ASSUME IsFirst(i)', NEW r \in RowsOf(done),
                          r.win = a[1], r.pol = a[2]
                   PROVE  FALSE
        BY DEF Done
      <4>1. PICK j \in DOMAIN done.lines : done.lines[j] = r /\ r # Bad
        BY DEF RowsOf
      <4>2. j \in 1 .. i - 1 /\ done'.lines[j] = r
        BY <1>4, <1>8, <2>3, <4>1
      <4> QED BY <1>2, <2>3, <4>1, <4>2 DEF IsFirst
    <3> QED BY <1>2, <2>3, <3>1
  <2> QED BY <1>8, <2>1, <2>2, <2>3
<1>10. CompletionsTellTheTruth'
  BY <1>6, <1>9 DEF CompletionsTellTheTruth, FirstOf
<1>11. ObsInv'
  <2>1. now \in Nat
    BY RowWindows DEF CInv
  <2> QED BY <1>5, <2>1, ObsStay DEF CInv, Scans
<1> QED BY <1>7, <1>10, <1>11 DEF DoneInv

\* append_scan, whole or broken: its row is of the scan's window, after all others;
\* the windows completed are before it, and so are those no longer the latest.
LEMMA ObservedElsewhere ==
  ASSUME CInv, ~merged, pc = "observe", UNCHANGED <<done, now>>,
         NEW a \in Assets \X Policies,
         \/ obs' = obs \/ obs'.lines = Append(obs.lines, Bad)
         \/ obs'.lines = Append(obs.lines, Observation(a)),
         ~Scans' \/ cur' = cur
  PROVE  /\ DoneInv' /\ ObsInv'
         /\ \A w : Fits(w)' => Fits(w)
         /\ RowsOf(obs) \subseteq RowsOf(obs')
<1> DEFINE o == Observation(a)
<1>1. o \in ObservationRows /\ o.win = cur
  BY RowTypes DEF CInv, TypeInv, Observation
<1>2. \/ obs' = obs
      \/ \E x \in {Bad, o} : obs'.lines = Append(obs.lines, x)
  OBVIOUS
<1> HIDE DEF o
<1>3. /\ obs \in File(ObservationRows) /\ Reload \in Nat
      /\ obs.lines \in Seq(ObservationRows \cup {Bad})
  BY BoundAssumption DEF CInv, TypeInv, TypeOK, File
<1>4. /\ now \in Nat /\ cur \in Nat /\ cur <= now /\ Scans
      /\ \A r \in RowsOf(obs) : r.win \in Nat /\ r.win <= cur
  BY RowWindows DEF CInv, ScanInTime, ObsInv, RowsInTime, Scans
<1>5. RowsOf(obs) \subseteq RowsOf(obs') /\ RowsOf(obs') \subseteq RowsOf(obs) \cup {o}
  <2>1. CASE obs' = obs
    BY <2>1
  <2>2. ASSUME NEW x \in {Bad, o}, obs'.lines = Append(obs.lines, x)
        PROVE  /\ RowsOf(obs) \subseteq RowsOf(obs')
               /\ RowsOf(obs') \subseteq RowsOf(obs) \cup {o}
    <3>1. RowsOf(obs') = RowsOf(obs) \cup ({x} \ {Bad})
      BY <1>3, <2>2, AppendRows
    <3> QED BY <3>1
  <2> QED BY <1>2, <2>1, <2>2
<1>6. \A r \in RowsOf(obs') : r.win \in Nat /\ r.win <= cur
  BY <1>1, <1>4, <1>5
<1>7. RowsInTime'
  <2>1. \A r \in RowsOf(obs') : r.win <= now
    BY <1>4, <1>6
  <2> QED BY <1>6, <2>1 DEF RowsInTime
<1>8. RowsInOrder'
  <2>1. CASE obs' = obs
    BY <2>1 DEF CInv, ObsInv, RowsInOrder
  <2>2. ASSUME NEW x \in {Bad, o}, obs'.lines = Append(obs.lines, x),
               NEW i \in Readable(obs'.lines), NEW j \in Readable(obs'.lines), i < j
        PROVE  obs'.lines[i].win <= obs'.lines[j].win
    <3> DEFINE n == Len(obs.lines) + 1
    <3>1. /\ DOMAIN obs'.lines = DOMAIN obs.lines \cup {n}
          /\ \A k \in DOMAIN obs.lines : k \in Nat /\ k < n
          /\ \A k \in DOMAIN obs.lines : obs'.lines[k] = obs.lines[k]
          /\ obs'.lines[n] = x
      BY <1>3, <2>2, OneMore
    <3>2. i \in DOMAIN obs.lines
      <4>1. n \in Nat
        BY <1>3
      <4> HIDE DEF n
      <4> QED BY <2>2, <3>1, <4>1 DEF Readable
    <3>3. i \in Readable(obs.lines) /\ obs'.lines[i] = obs.lines[i]
      BY <2>2, <3>1, <3>2 DEF Readable
    <3>4. CASE j \in DOMAIN obs.lines
      <4>1. j \in Readable(obs.lines) /\ obs'.lines[j] = obs.lines[j]
        BY <2>2, <3>1, <3>4 DEF Readable
      <4> QED BY <2>2, <3>3, <4>1 DEF CInv, ObsInv, RowsInOrder
    <3>5. CASE j = n
      <4>1. obs'.lines[j] = x /\ x # Bad
        BY <2>2, <3>1, <3>5 DEF Readable
      <4>2. obs'.lines[j].win = cur
        BY <1>1, <4>1
      <4>3. obs'.lines[i] \in RowsOf(obs)
        BY <3>2, <3>3 DEF RowsOf, Readable
      <4> QED BY <1>4, <4>2, <4>3
    <3>6. j \in DOMAIN obs.lines \/ j = n
      BY <2>2, <3>1 DEF Readable
    <3> QED BY <3>4, <3>5, <3>6
  <2> QED BY <1>2, <2>1, <2>2 DEF RowsInOrder
<1>9. EarlierDone'
  <2> SUFFICES ASSUME NEW r \in RowsOf(obs')
               PROVE  Latest(r.win)' \/ \A p \in Policies : Done(r.win, p)'
    BY DEF EarlierDone
  <2>1. CASE r.win = cur
    BY <1>6, <2>1 DEF Latest
  <2>2. CASE r.win < cur
    <3>1. r \in RowsOf(obs)
      BY <1>1, <1>4, <1>5, <2>2
    <3>2. \A p \in Policies : Done(r.win, p)
      BY <2>2, <3>1 DEF CInv, ScanInv, ExpiredAreCompleted, Done
    <3>3. \A w, p : Done(w, p) => Done(w, p)'
      BY DEF Done
    <3> QED BY <3>2, <3>3
  <2>3. r.win \in Nat /\ r.win <= cur
    BY <1>6
  <2> QED BY <1>4, <2>1, <2>2, <2>3
<1>10. \A w : Fits(w)' => Fits(w)
  <2>1. CASE obs' = obs
    BY <2>1 DEF Fits
  <2>2. ASSUME NEW x \in {Bad, o}, obs'.lines = Append(obs.lines, x), NEW w, Fits(w)'
        PROVE  Fits(w)
    <3> DEFINE more == obs'.lines
               lines == obs.lines
    <3>1. Cardinality(RowsIn(more, w)) <= Reload
      BY <2>2 DEF Fits, RowsIn
    <3>2. more = Append(lines, x)
      BY <2>2
    <3>3. lines \in Seq(ObservationRows \cup {Bad}) /\ Reload \in Nat
      BY <1>3
    <3> HIDE DEF more, lines
    <3>4. Cardinality(RowsIn(lines, w)) <= Reload
      BY <3>1, <3>2, <3>3, FitsBefore
    <3> QED BY <3>4 DEF Fits, RowsIn, lines
  <2> QED BY <1>2, <2>1, <2>2
<1>11. ASSUME NEW w, w < cur, w \in Nat, NEW p PROVE FirstOf(w, p)' = FirstOf(w, p)
  <2>1. CASE obs' = obs
    BY <2>1 DEF FirstOf
  <2>2. ASSUME NEW x \in {Bad, o}, obs'.lines = Append(obs.lines, x)
        PROVE  FirstOf(w, p)' = FirstOf(w, p)
    <3> DEFINE more == obs'.lines
               lines == obs.lines
    <3>1. x \in ObservationRows \cup {Bad}
      BY <1>1
    <3>2. x # Bad => x.win # w
      BY <1>1, <1>4, <1>11
    <3>3. more = Append(lines, x)
      BY <2>2
    <3>4. lines \in Seq(ObservationRows \cup {Bad})
      BY <1>3
    <3> HIDE DEF more, lines
    <3> DEFINE new == FirstAmong(more, Readable(more), w, p)
               old == FirstAmong(lines, Readable(lines), w, p)
    <3>5. new = IF old # NONE THEN old
                ELSE IF x # Bad /\ x.win = w /\ x.pol = p /\ x.sel THEN x.asset
                ELSE NONE
      BY <3>1, <3>3, <3>4, FirstAfter
    <3>6. ~(x # Bad /\ x.win = w /\ x.pol = p /\ x.sel)
      BY <3>2
    <3> HIDE DEF new, old
    <3>7. new = old
      BY <3>5, <3>6
    <3> QED BY <3>7 DEF FirstOf, more, lines, new, old
  <2> QED BY <1>2, <2>1, <2>2
<1>12. CompletionsAreOld'
  BY DEF CInv, DoneInv, CompletionsAreOld, Scans
<1>13. ASSUME NEW i \in Readable(done.lines)
       PROVE  LET d == done.lines[i]
              IN  /\ d.asset # NONE => \E r \in RowsOf(obs') :
                       r.win = d.win /\ r.pol = d.pol /\ r.asset = d.asset /\ r.sel
                  /\ IsFirst(i)' /\ Fits(d.win)' => d.asset = FirstOf(d.win, d.pol)'
  <2> DEFINE d == done.lines[i]
  <2>1. d \in RowsOf(done)
    BY DEF RowsOf, Readable
  <2>2. d.win \in Nat /\ d.win < cur
    BY <1>4, <2>1, RowWindows DEF CInv, DoneInv, CompletionsAreOld
  <2>3. /\ d.asset # NONE => \E r \in RowsOf(obs) :
             r.win = d.win /\ r.pol = d.pol /\ r.asset = d.asset /\ r.sel
        /\ IsFirst(i) /\ Fits(d.win) => d.asset = FirstOf(d.win, d.pol)
    BY DEF CInv, DoneInv, CompletionsTellTheTruth, FirstOf
  <2>4. FirstOf(d.win, d.pol)' = FirstOf(d.win, d.pol)
    <3>1. \A w, p : w < cur /\ w \in Nat => FirstOf(w, p)' = FirstOf(w, p)
      BY <1>11
    <3> QED BY <2>2, <3>1
  <2>5. IsFirst(i)' => IsFirst(i)
    BY DEF IsFirst
  <2> QED BY <1>5, <1>10, <2>3, <2>4, <2>5
<1>14. CompletionsTellTheTruth'
  BY <1>13 DEF CompletionsTellTheTruth, FirstOf
<1> QED BY <1>5, <1>7, <1>8, <1>9, <1>10, <1>12, <1>14 DEF DoneInv, ObsInv

\* complete_window, one row: true, due, and in memory as on disk.
LEMMA CompleteStep ==
  ASSUME CInv, ~merged', NEW a \in Windows \X Policies, Complete(a)
  PROVE  DoneInv' /\ ObsInv' /\ ScanInv'
<1> DEFINE c == Completion(a)
<1>1. /\ UNCHANGED <<obs, now, scans, pc, cur, observed, first>>
      /\ pc = "complete" /\ a \in NextDue /\ ~merged /\ ~done.torn
      /\ done' = Written(done, c, TRUE) /\ log' = Append(log, c)
      /\ todo' = {b \in todo : Earlier(a, b)}
  BY DEF Complete
<1>2. c \in CompletionRows /\ c # Bad
  BY RowTypes, BadAssumption DEF CInv, TypeInv
<1>3. c.win = a[1] /\ c.pol = a[2]
  BY DEF Completion
<1>4. done'.lines = Append(done.lines, c)
  BY <1>1 DEF Written
<1>5. DoneInv' /\ ObsInv'
  BY <1>1, <1>4, CompletedTrue
<1> HIDE DEF c
<1>6. RowsOf(done') = RowsOf(done) \cup {c}
  <2>1. done \in File(CompletionRows)
    BY DEF CInv, TypeInv, TypeOK
  <2>2. RowsOf(done') = RowsOf(done) \cup ({c} \ {Bad})
    BY <1>4, <2>1, AppendRows
  <2> QED BY <1>2, <2>2
<1>7. MemoryKnows'
  <2>1. /\ \A w, p : FirstOf(w, p)' = FirstOf(w, p)
        /\ \A w : (Fits(w)' <=> Fits(w)) /\ (Latest(w)' <=> Latest(w))
        /\ SignalsOnDisk' <=> SignalsOnDisk
    BY <1>1 DEF FirstOf, Fits, Latest, SignalsOnDisk
  <2>2. log' = done'.lines
    BY <1>1, <1>4 DEF CInv, ScanInv, MemoryKnows
  <2> QED BY <1>1, <2>1, <2>2 DEF CInv, ScanInv, MemoryKnows
<1>8. VisitInStep'
  <2> SUFFICES ASSUME NEW w \in observed, NEW p \in Policies, w < cur
               PROVE  <<w, p>> \in todo' \/ Done(w, p)'
    BY <1>1 DEF VisitInStep
  <2>1. Done(w, p) => Done(w, p)'
    BY <1>6 DEF Done
  <2>2. CASE Done(w, p)
    BY <2>1, <2>2
  <2>3. CASE <<w, p>> = a
    BY <1>3, <1>6, <2>3 DEF Done
  <2>4. CASE <<w, p>> \in Remembered
    <3>1. log = done.lines
      BY <1>1 DEF CInv, ScanInv, MemoryKnows
    <3> QED BY <2>1, <2>4, <3>1, RememberedIsDone
  <2>5. CASE <<w, p>> \in (todo \ Remembered) \ {a}
    <3>1. Earlier(a, <<w, p>>)
      BY <1>1, <2>5 DEF NextDue, IsNext
    <3> QED BY <1>1, <2>5, <3>1
  <2>6. <<w, p>> \in todo \/ Done(w, p)
    BY <1>1 DEF CInv, ScanInv, VisitInStep
  <2> QED BY <2>2, <2>3, <2>4, <2>5, <2>6
<1>9. ExpiredAreCompleted'
  BY <1>1 DEF ExpiredAreCompleted
<1> QED BY <1>5, <1>7, <1>8, <1>9 DEF ScanInv

\* append_scan, one row: of the window of the scan memory learns what a reader
\* would; no other window becomes the latest.
LEMMA ObserveStep ==
  ASSUME CInv, ~merged', NEW a \in Assets \X Policies, Observe(a)
  PROVE  DoneInv' /\ ObsInv' /\ ScanInv'
<1> DEFINE o == Observation(a)
<1>1. /\ UNCHANGED <<done, now, scans, cur, log>>
      /\ pc = "observe" /\ pc' \in {"observe", "idle"} /\ ~merged /\ ~obs.torn
      /\ obs' = Written(obs, o, TRUE)
      /\ observed' = observed \cup {cur}
      /\ first' = IF o.sel /\ first[cur][a[2]] = NONE
                    THEN [first EXCEPT ![cur][a[2]] = a[1]] ELSE first
  BY DEF Observe
<1>2. /\ o \in ObservationRows /\ o # Bad
      /\ o.win = cur /\ o.pol = a[2] /\ o.asset = a[1]
  BY <1>1, RowTypes, BadAssumption DEF CInv, TypeInv, Observation
<1>3. obs'.lines = Append(obs.lines, o)
  BY <1>1 DEF Written
<1>4. /\ DoneInv' /\ ObsInv'
      /\ \A w : Fits(w)' => Fits(w)
  BY <1>1, <1>3, ObservedElsewhere
<1> HIDE DEF o
<1>5. RowsOf(obs') = RowsOf(obs) \cup {o}
  <2>1. obs \in File(ObservationRows)
    BY DEF CInv, TypeInv, TypeOK
  <2>2. RowsOf(obs') = RowsOf(obs) \cup ({o} \ {Bad})
    BY <1>3, <2>1, AppendRows
  <2> QED BY <1>2, <2>2
<1>6. cur \in Windows /\ a[1] \in Assets /\ a[2] \in Policies
  BY <1>1 DEF CInv, TypeInv, TypeOK
<1>7. first \in [Windows -> [Policies -> Assets \cup {NONE}]]
  BY DEF CInv, TypeInv, TypeOK
<1>8. \A w : Latest(w)' => Latest(w)
  BY <1>5 DEF Latest
<1>9. MemoryKnows => SignalsOnDisk /\ log = done.lines
  BY <1>1 DEF MemoryKnows
<1>10. ASSUME NEW w \in Windows, NEW p \in Policies
       PROVE  first'[w][p] =
                IF o.sel /\ first[cur][a[2]] = NONE /\ w = cur /\ p = a[2]
                  THEN a[1] ELSE first[w][p]
  BY <1>1, <1>6, <1>7
<1>11. ASSUME NEW w \in Windows, NEW p \in Policies, Latest(w)', Fits(w)'
       PROVE  first'[w][p] = FirstOf(w, p)'
  <2>1. obs.lines \in Seq(ObservationRows \cup {Bad})
    BY DEF CInv, TypeInv, TypeOK, File
  <2>2. first[w][p] = FirstOf(w, p)
    <3>1. Latest(w) /\ Fits(w)
      BY <1>4, <1>8, <1>11
    <3> QED BY <1>1, <3>1 DEF CInv, ScanInv, MemoryKnows
  <2> DEFINE more == obs'.lines
  <2>3. more = Append(obs.lines, o)
    BY <1>3
  <2> HIDE DEF more
  <2>4. FirstAmong(more, Readable(more), w, p) =
          IF FirstAmong(obs.lines, Readable(obs.lines), w, p) # NONE
            THEN FirstAmong(obs.lines, Readable(obs.lines), w, p)
          ELSE IF o # Bad /\ o.win = w /\ o.pol = p /\ o.sel THEN o.asset
          ELSE NONE
    BY <1>2, <2>1, <2>3, FirstAfter
  <2>5. FirstOf(w, p)' = IF FirstOf(w, p) # NONE THEN FirstOf(w, p)
                         ELSE IF o # Bad /\ o.win = w /\ o.pol = p /\ o.sel
                           THEN o.asset ELSE NONE
    BY <2>4 DEF FirstOf, more
  <2>6. CASE o.sel /\ first[cur][a[2]] = NONE
    BY <1>2, <1>10, <2>2, <2>5, <2>6
  <2>7. CASE ~(o.sel /\ first[cur][a[2]] = NONE)
    BY <1>2, <1>10, <2>2, <2>5, <2>7
  <2> QED BY <2>6, <2>7
<1>12. SignalsOnDisk'
  <2> SUFFICES ASSUME NEW w \in Windows, NEW p \in Policies, first'[w][p] # NONE
               PROVE  \E r \in RowsOf(obs') :
                        r.win = w /\ r.pol = p /\ r.asset = first'[w][p] /\ r.sel
    BY DEF SignalsOnDisk
  <2>1. CASE o.sel /\ first[cur][a[2]] = NONE /\ w = cur /\ p = a[2]
    BY <1>2, <1>5, <1>10, <2>1
  <2>2. CASE ~(o.sel /\ first[cur][a[2]] = NONE /\ w = cur /\ p = a[2])
    <3>1. first'[w][p] = first[w][p]
      BY <1>10, <2>2
    <3>2. SignalsOnDisk
      BY <1>1, <1>9 DEF CInv, ScanInv
    <3>3. \E r \in RowsOf(obs) :
            r.win = w /\ r.pol = p /\ r.asset = first[w][p] /\ r.sel
      BY <3>1, <3>2 DEF SignalsOnDisk
    <3> QED BY <1>5, <3>1, <3>3
  <2> QED BY <2>1, <2>2
<1>13. MemoryKnows'
  <2>1. log' = done'.lines
    BY <1>1, <1>9 DEF CInv, ScanInv
  <2>2. \A w \in observed' : \E r \in RowsOf(obs') : r.win = w
    <3>1. \A w \in observed : \E r \in RowsOf(obs) : r.win = w
      BY <1>1 DEF CInv, ScanInv, MemoryKnows
    <3> QED BY <1>1, <1>2, <1>5, <3>1
  <2>3. \A r \in RowsOf(obs') : Latest(r.win)' => r.win \in observed'
    <3>1. \A r \in RowsOf(obs) : Latest(r.win) => r.win \in observed
      BY <1>1 DEF CInv, ScanInv, MemoryKnows
    <3> QED BY <1>1, <1>2, <1>5, <1>8, <3>1
  <2> QED BY <1>11, <1>12, <2>1, <2>2, <2>3 DEF MemoryKnows
<1>14. ExpiredAreCompleted'
  <2> SUFFICES ASSUME NEW r \in RowsOf(obs'), r.win < cur, NEW p \in Policies
               PROVE  \E d \in RowsOf(done) : d.win = r.win /\ d.pol = p
    BY <1>1 DEF ExpiredAreCompleted
  <2>1. r \in RowsOf(obs)
    <3>1. cur \in Nat
      BY <1>6 DEF Windows
    <3>2. r # o
      BY <1>2, <3>1
    <3> QED BY <1>5, <3>2
  <2> QED BY <1>1, <2>1 DEF CInv, ScanInv, ExpiredAreCompleted
<1>15. VisitInStep'
  BY <1>1 DEF VisitInStep
<1> QED BY <1>4, <1>13, <1>14, <1>15 DEF ScanInv

\* The end of the visit: what it did not complete now was completed before, and
\* what a start did not read was too.
LEMMA EvaluateStep ==
  ASSUME CInv, ~merged', Evaluate
  PROVE  DoneInv' /\ ObsInv' /\ ScanInv'
<1>1. /\ UNCHANGED <<obs, done, now, scans, cur, log, observed, first, merged>>
      /\ UNCHANGED files
      /\ pc = "complete" /\ pc' = "observe" /\ NextDue = {} /\ ~merged
  BY DEF Evaluate, files, memory
<1>2. DoneInv' /\ ObsInv'
  <2>1. now \in Nat
    BY RowWindows DEF CInv
  <2> QED BY <1>1, <2>1, ObsStay, DoneStay DEF CInv, Scans
<1>3. MemoryKnows'
  <2>1. /\ \A w, p : FirstOf(w, p)' = FirstOf(w, p)
        /\ \A w : (Fits(w)' <=> Fits(w)) /\ (Latest(w)' <=> Latest(w))
        /\ SignalsOnDisk' <=> SignalsOnDisk
    BY <1>1 DEF FirstOf, Fits, Latest, SignalsOnDisk
  <2> QED BY <1>1, <2>1 DEF CInv, ScanInv, MemoryKnows
<1>4. VisitInStep'
  BY <1>1 DEF VisitInStep
<1>5. ExpiredAreCompleted'
  <2> SUFFICES ASSUME NEW r \in RowsOf(obs), r.win < cur, NEW p \in Policies
               PROVE  \E c \in RowsOf(done) : c.win = r.win /\ c.pol = p
    BY <1>1 DEF ExpiredAreCompleted
  <2>1. CASE Latest(r.win)
    <3>1. r.win \in observed /\ log = done.lines
      BY <1>1, <2>1 DEF CInv, ScanInv, MemoryKnows
    <3>2. <<r.win, p>> \in todo \/ Done(r.win, p)
      BY <1>1, <3>1 DEF CInv, ScanInv, VisitInStep
    <3>3. todo \subseteq Remembered
      BY <1>1, VisitOver DEF CInv, TypeInv
    <3>4. Done(r.win, p)
      BY <3>1, <3>2, <3>3, RememberedIsDone
    <3> QED BY <3>4 DEF Done
  <2>2. CASE ~Latest(r.win)
    BY <1>1, <2>2 DEF CInv, ObsInv, EarlierDone, Done
  <2> QED BY <2>1, <2>2
<1> QED BY <1>2, <1>3, <1>4, <1>5 DEF ScanInv

\* A start: what the tail says is true, and it is enough (__init__).
LEMMA StartStep ==
  ASSUME CInv, ~merged', Start
  PROVE  DoneInv' /\ ObsInv' /\ ScanInv'
<1>1. /\ UNCHANGED <<obs, done, now, scans>> /\ UNCHANGED files
      /\ ~merged /\ pc = "down" /\ pc' = "idle"
      /\ log' = done.lines /\ observed' = LoadObserved /\ first' = LoadFirst
  BY DEF Start, StartWith, files
<1>2. DoneInv' /\ ObsInv'
  <2>1. now \in Nat
    BY RowWindows DEF CInv
  <2> QED BY <1>1, <2>1, ObsStay, DoneStay DEF CInv, Scans
<1>3. TypeInv /\ RowsInOrder
  BY DEF CInv, ObsInv
<1>4. \A w \in LoadObserved : \E r \in RowsOf(obs) : r.win = w
  BY DEF LoadObserved, Newest, RowsOf
<1>5. \A r \in RowsOf(obs) : Latest(r.win) => r.win \in LoadObserved
  BY <1>1, <1>3, LastIsRead
<1>6. \A w \in Windows, p \in Policies :
        /\ Latest(w) /\ Fits(w) => LoadFirst[w][p] = FirstOf(w, p)
        /\ LoadFirst[w][p] # NONE => \E r \in RowsOf(obs) :
             r.win = w /\ r.pol = p /\ r.asset = LoadFirst[w][p] /\ r.sel
  BY <1>1, <1>3, LoadSignals
<1>7. MemoryKnows'
  <2>1. /\ \A w, p : FirstOf(w, p)' = FirstOf(w, p)
        /\ \A w : (Fits(w)' <=> Fits(w)) /\ (Latest(w)' <=> Latest(w))
    BY <1>1 DEF FirstOf, Fits, Latest
  <2>2. SignalsOnDisk'
    BY <1>1, <1>6 DEF SignalsOnDisk
  <2> QED BY <1>1, <1>4, <1>5, <1>6, <2>1, <2>2 DEF MemoryKnows
<1> QED BY <1>1, <1>2, <1>7 DEF ScanInv, VisitInStep, ExpiredAreCompleted

\* Every step keeps the completions true and the expired windows completed.
LEMMA NextTrue ==
  ASSUME CInv, [Next]_vars
  PROVE  DoneInv' /\ ObsInv' /\ ScanInv'
<1>1. CASE merged'
  BY <1>1 DEF DoneInv, ObsInv, ScanInv, MemoryKnows, CompletionsAreOld, VisitInStep,
              CompletionsTellTheTruth, ExpiredAreCompleted, RowsInTime, RowsInOrder,
              EarlierDone
<1> SUFFICES ASSUME ~merged' PROVE DoneInv' /\ ObsInv' /\ ScanInv'
  BY <1>1
<1>2. now \in Nat /\ TypeInv /\ ObsInv /\ DoneInv
  BY RowWindows DEF CInv
<1>3. CASE Start
  BY <1>3, StartStep
<1>4. CASE BeginScan
  <2>1. /\ UNCHANGED <<obs, done, now, log, first, observed>> /\ ~merged
        /\ pc = "idle" /\ pc' = "complete"
        /\ cur' = now /\ todo' = Due(now) \X Policies
    BY <1>4 DEF BeginScan, files, memory
  <2>2. MemoryKnows'
    <3>1. /\ \A w, p : FirstOf(w, p)' = FirstOf(w, p)
          /\ \A w : (Fits(w)' <=> Fits(w)) /\ (Latest(w)' <=> Latest(w))
          /\ SignalsOnDisk' <=> SignalsOnDisk
      BY <2>1 DEF FirstOf, Fits, Latest, SignalsOnDisk
    <3> QED BY <2>1, <3>1 DEF CInv, ScanInv, MemoryKnows
  <2>3. DoneInv'
    <3>1. CompletionsTellTheTruth'
      BY <2>1 DEF CInv, DoneInv, CompletionsTellTheTruth, IsFirst, Fits
    <3>2. CompletionsAreOld'
      BY <2>1 DEF CInv, DoneInv, CompletionsAreOld
    <3> QED BY <3>1, <3>2 DEF DoneInv
  <2>4. ObsInv'
    <3>1. RowsInTime' /\ RowsInOrder'
      BY <2>1 DEF CInv, ObsInv, RowsInTime, RowsInOrder
    <3>2. EarlierDone'
      BY <2>1 DEF CInv, ObsInv, EarlierDone, Latest, Done
    <3> QED BY <3>1, <3>2 DEF ObsInv
  <2>5. VisitInStep' /\ ExpiredAreCompleted'
    BY <2>1 DEF VisitInStep, Due, ExpiredAreCompleted
  <2> QED BY <2>2, <2>3, <2>4, <2>5 DEF ScanInv
<1>5. CASE Leave
  <2>1. UNCHANGED files /\ UNCHANGED <<obs, done, now>> /\ ~merged /\ Exit
    BY <1>5 DEF Leave, files
  <2> QED BY <1>2, <2>1, DownIsQuiet, ObsStay, DoneStay
<1>6. CASE Tick \/ UNCHANGED vars
  <2>1. /\ UNCHANGED <<obs, done, scans, pc, cur, todo, log, observed, first>>
        /\ UNCHANGED files /\ ~merged
        /\ now' = now + 1 \/ now' = now
    BY <1>6 DEF Tick, vars, files, memory
  <2>2. now' \in Nat /\ now <= now'
    BY <1>2, <2>1
  <2>3. ~Scans' \/ (Scans /\ cur' = cur)
    BY <2>1 DEF Scans
  <2>4. DoneInv' /\ ObsInv'
    BY <1>2, <2>1, <2>2, <2>3, ObsStay, DoneStay
  <2>5. MemoryKnows'
    <3>1. /\ \A w, p : FirstOf(w, p)' = FirstOf(w, p)
          /\ \A w : (Fits(w)' <=> Fits(w)) /\ (Latest(w)' <=> Latest(w))
          /\ SignalsOnDisk' <=> SignalsOnDisk
      BY <2>1 DEF FirstOf, Fits, Latest, SignalsOnDisk
    <3> QED BY <2>1, <3>1 DEF CInv, ScanInv, MemoryKnows
  <2>6. VisitInStep' /\ ExpiredAreCompleted'
    BY <2>1 DEF CInv, ScanInv, VisitInStep, ExpiredAreCompleted, Done
  <2> QED BY <2>4, <2>5, <2>6 DEF ScanInv
<1>7. CASE \E a \in Assets \X Policies : ObserveCutShort(a)
  <2>1. PICK a \in Assets \X Policies : ObserveCutShort(a)
    BY <1>7
  <2>2. /\ UNCHANGED <<done, now>> /\ pc = "observe" /\ ~merged /\ Exit
        /\ obs' \in Interrupted(obs, Observation(a))
        /\ obs.torn => obs' = obs
    BY <2>1 DEF ObserveCutShort
  <2>3. \/ obs' = obs \/ obs'.lines = Append(obs.lines, Bad)
        \/ obs'.lines = Append(obs.lines, Observation(a))
    BY <2>2, CleanWrite
  <2> QED BY <2>2, <2>3, DownIsQuiet, ObservedElsewhere
<1>8. CASE \E a \in Windows \X Policies : CompleteCutShort(a)
  <2>1. PICK a \in Windows \X Policies : CompleteCutShort(a)
    BY <1>8
  <2>2. /\ UNCHANGED <<obs, now>> /\ pc = "complete" /\ a \in NextDue
        /\ ~merged /\ Exit
        /\ done' \in Interrupted(done, Completion(a))
        /\ done.torn => done' = done
    BY <2>1 DEF CompleteCutShort
  <2>3. \/ done' = done \/ done'.lines = Append(done.lines, Bad)
        \/ done'.lines = Append(done.lines, Completion(a))
    BY <2>2, CleanWrite
  <2> QED BY <2>2, <2>3, DownIsQuiet, CompletedTrue
<1>9. CASE Evaluate
  BY <1>9, EvaluateStep
<1>10. CASE \E a \in Windows \X Policies : Complete(a)
  BY <1>10, CompleteStep
<1>11. CASE \E a \in Assets \X Policies : Observe(a)
  BY <1>11, ObserveStep
<1>12. \/ Start \/ BeginScan \/ Evaluate \/ Leave \/ Tick \/ UNCHANGED vars
       \/ \E a \in Windows \X Policies : Complete(a)
       \/ \E a \in Windows \X Policies : CompleteCutShort(a)
       \/ \E a \in Assets \X Policies : Observe(a)
       \/ \E a \in Assets \X Policies : ObserveCutShort(a)
  BY DEF Next
<1> QED BY <1>3, <1>4, <1>5, <1>6, <1>7, <1>8, <1>9, <1>10, <1>11, <1>12

\* The strengthened invariant, from the empty files on.
LEMMA CInvHolds == Spec => []CInv
<1>1. Init => CInv
  <2> SUFFICES ASSUME Init PROVE CInv
    OBVIOUS
  <2>1. obs.lines = <<>> /\ done.lines = <<>> /\ pc = "down"
    BY DEF Init, EmptyFile
  <2>2. RowsOf(done) = {} /\ RowsOf(obs) = {}
    BY <2>1 DEF RowsOf
  <2>3. Readable(obs.lines) = {} /\ Readable(done.lines) = {}
    BY <2>1 DEF Readable
  <2>4. ScanInTime /\ ScanInv
    BY <2>1 DEF ScanInTime, ScanInv, MemoryKnows, VisitInStep, ExpiredAreCompleted,
                Scans
  <2>5. ObsInv
    BY <2>2, <2>3 DEF ObsInv, RowsInTime, RowsInOrder, EarlierDone
  <2>6. DoneInv
    BY <2>2, <2>3 DEF DoneInv, CompletionsAreOld, CompletionsTellTheTruth
  <2> QED BY <2>4, <2>5, <2>6, InitTypes DEF CInv
<1>2. CInv /\ [Next]_vars => CInv'
  BY NextTypes, NextInTime, NextTrue DEF CInv
<1> QED BY <1>1, <1>2, PTL DEF Spec

\* A completion never claims a signal that no observation on disk holds, and the
\* first of its window and policy says what they all say, unless the window alone
\* has more observations than a start reads: over any number of restarts, broken
\* appends and tails of any length (complete_window, __init__).
THEOREM CompletionsTrue == Spec => []CompletionsTellTheTruth
<1>1. CInv => CompletionsTellTheTruth
  BY DEF CInv, DoneInv
<1> QED BY <1>1, CInvHolds, PTL

\* No observed window that is over is left incomplete when a scan begins to record,
\* however short the tail that a start reads (complete_before, __init__).
THEOREM ExpiredCompleted == Spec => []ExpiredAreCompleted
<1>1. CInv => ExpiredAreCompleted
  BY DEF CInv, ScanInv
<1> QED BY <1>1, CInvHolds, PTL

=============================================================================
