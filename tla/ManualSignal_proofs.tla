-------------------------- MODULE ManualSignal_proofs --------------------------
(***************************************************************************)
(* Proofs about ManualSignal, for every set of assets and sides, every     *)
(* size of the identifier memory and every bound: one signal per window,   *)
(* shown and spoken only once it is in the ledger, and windows counted as  *)
(* the ledger has them.  And about ManualScan: whose market a quote is of. *)
(***************************************************************************)
EXTENDS ManualSignal, ManualScan, JsonlLog_proofs, FiniteSetTheorems

\* The signals on the readable lines.
Line(i) == file.lines[i]

\* A ledger no write has merged into has no rejected line but a torn tail; its
\* windows increase, and none is ahead of the clock.
LedgerInOrder ==
  ~merged =>
    /\ \A i \in DOMAIN file.lines :
         Line(i) = Bad => i = Len(file.lines) /\ file.torn
    /\ \A i, j \in DOMAIN file.lines :
         i < j /\ Line(j) # Bad => Line(i).win < Line(j).win
    /\ \A i \in DOMAIN file.lines : Line(i) # Bad => Line(i).win <= now

\* What the process that has the ledger open remembers of it.
MemoryInStep ==
  ~merged /\ pc # "down" =>
    /\ \A i \in DOMAIN file.lines : Line(i) # Bad
    /\ latest = LastOf(file.lines)
    /\ ids \subseteq RowsOf(file)
    /\ win # NONE => win <= now /\ \A i \in DOMAIN file.lines : Line(i).win <= win

\* A window without a saved signal has none in the ledger; a lock is of the
\* window scanned, and saved once the append is over.
LockInStep ==
  ~merged /\ pc # "down" =>
    /\ win = NONE => locked = NONE
    /\ locked # NONE => locked.win = win
    /\ win # NONE /\ (locked = NONE \/ pc = "append")
         => \A i \in DOMAIN file.lines : Line(i).win < win
    /\ locked # NONE /\ pc # "append" => locked \in RowsOf(file)

\* The program counter tells which of the scan's locals are set.
Control ==
  /\ pc = "down" =>
       win = NONE /\ locked = NONE /\ shown = NONE /\ pending = NONE /\ ~saved
  /\ pc \notin {"down", "idle"} => win # NONE
  /\ pc = "append" => locked # NONE

\* What is still to be spoken is saved and has not been spoken.
SpeechInStep ==
  ~merged =>
    /\ pending # NONE => /\ pending \in RowsOf(file)
                         /\ \A i \in DOMAIN spoken : spoken[i].win # pending.win
    /\ pc = "publish" /\ saved =>
         locked # NONE /\ \A i \in DOMAIN spoken : spoken[i].win # locked.win

IInv ==
  /\ TypeOK
  /\ TornHasALine(file)
  /\ Control
  /\ LedgerInOrder /\ MemoryInStep /\ LockInStep
  /\ ShownIsSaved
  /\ SpeechInStep /\ SpokenOnceAndSaved

-----------------------------------------------------------------------------
\* The inductive invariant holds of an empty ledger.
LEMMA InitIInv == Init => IInv
<1> SUFFICES ASSUME Init PROVE IInv
  OBVIOUS
<1>1. file.lines = <<>> /\ file.torn = FALSE
  BY DEF Init, EmptyFile
<1>2. TypeOK
  <2>1. <<>> \in Seq(Signals \cup {Bad}) /\ <<>> \in Seq(Signals)
    OBVIOUS
  <2>2. EmptyFile \in File(Signals)
    BY <2>1 DEF File, EmptyFile
  <2>3. 1 \in Windows /\ 0 \in 0 .. MaxRuns /\ 0 \in 0 .. MaxFaults
    BY BoundAssumption DEF Windows
  <2>4. file \in File(Signals)
    BY <2>2 DEF Init
  <2>5. {0} \subseteq Nat
    OBVIOUS
  <2> QED BY <2>1, <2>3, <2>4, <2>5 DEF Init, TypeOK, MaybeSignal
<1>3. TornHasALine(file) /\ LedgerInOrder /\ Control
  BY <1>1 DEF TornHasALine, LedgerInOrder, Control, Init
<1>4. MemoryInStep /\ LockInStep
  BY DEF MemoryInStep, LockInStep, Init
<1>5. ShownIsSaved /\ SpeechInStep /\ SpokenOnceAndSaved
  BY DEF ShownIsSaved, SpeechInStep, SpokenOnceAndSaved, Init
<1> QED BY <1>2, <1>3, <1>4, <1>5 DEF IInv

-----------------------------------------------------------------------------
\* The signals read back are signals of the file's type (read).
LEMMA RowsAreSignals == ASSUME TypeOK PROVE RowsOf(file) \subseteq Signals
<1>1. file.lines \in Seq(Signals \cup {Bad})
  BY DEF TypeOK, File
<1> QED BY <1>1 DEF RowsOf

\* What the ledger loads of the identifiers are rows of the file (__init__).
LEMMA LoadedAreRows ==
  ASSUME TypeOK, \A i \in DOMAIN file.lines : file.lines[i] # Bad
  PROVE  LoadedIds(file) \subseteq RowsOf(file)
<1>1. Recent(file.lines) \subseteq RowsOf(file)
  BY DEF Recent, RowsOf
<1> QED BY <1>1 DEF LoadedIds

\* The newest record is NONE or a signal (locked_for_window).
LEMMA LastType ==
  ASSUME TypeOK, \A i \in DOMAIN file.lines : file.lines[i] # Bad
  PROVE  LastOf(file.lines) \in MaybeSignal
<1>1. file.lines \in Seq(Signals \cup {Bad})
  BY DEF TypeOK, File
<1>2. CASE file.lines = <<>>
  BY <1>2 DEF LastOf, MaybeSignal
<1>3. CASE file.lines # <<>>
  <2>1. Len(file.lines) \in DOMAIN file.lines
    BY <1>1, <1>3
  <2>2. file.lines[Len(file.lines)] \in Signals
    BY <1>1, <2>1
  <2> QED BY <1>3, <2>2 DEF LastOf, MaybeSignal
<1> QED BY <1>2, <1>3

\* A write leaves the file alone, merges, or appends one line; a fragment is
\* left torn (append).
LEMMA LedgerWrites ==
  ASSUME TypeOK, TornHasALine(file), NEW s \in Signals,
         file' = Written(file, s, TRUE) \/ file' \in Interrupted(file, s),
         merged' = (merged \/ (file.torn /\ file' # file))
  PROVE  \/ merged'
         \/ UNCHANGED file
         \/ \E x \in {s, Bad} :
              /\ ~file.torn /\ file'.lines = Append(file.lines, x)
              /\ x = Bad => file'.torn
<1>1. \/ UNCHANGED file
      \/ \E x \in {s, Bad}, nl \in BOOLEAN :
           file' = Written(file, x, nl) /\ (x = Bad => ~nl)
  BY BadAssumption DEF Interrupted
<1>2. ASSUME NEW x \in {s, Bad}, NEW nl \in BOOLEAN,
             file' = Written(file, x, nl), x = Bad => ~nl, ~file.torn
      PROVE  file'.lines = Append(file.lines, x) /\ (x = Bad => file'.torn)
  BY <1>2 DEF Written
<1> QED BY <1>1, <1>2

\* A line of a window later than all others keeps the ledger in order.
LEMMA LedgerGrows ==
  ASSUME TypeOK, LedgerInOrder, ~merged, ~file.torn,
         NEW s \in Signals, s.win <= now, now' = now,
         \A i \in DOMAIN file.lines : Line(i).win < s.win,
         NEW x \in {s, Bad},
         file'.lines = Append(file.lines, x), x = Bad => file'.torn
  PROVE  /\ LedgerInOrder'
         /\ RowsOf(file) \subseteq RowsOf(file')
         /\ RowsOf(file') \subseteq RowsOf(file) \cup {s}
         /\ x = s => s \in RowsOf(file')
<1> DEFINE n == Len(file.lines)
<1>1. file.lines \in Seq(Signals \cup {Bad})
  BY DEF TypeOK, File
<1>2. /\ DOMAIN file'.lines = DOMAIN file.lines \cup {n + 1}
      /\ Len(file'.lines) = n + 1 /\ n \in Nat
      /\ \A i \in DOMAIN file.lines : file'.lines[i] = file.lines[i]
      /\ file'.lines[n + 1] = x
      /\ DOMAIN file.lines = 1 .. n
  BY <1>1
<1>3. s # Bad
  BY BadAssumption
<1>4. \A i \in DOMAIN file.lines : file.lines[i] # Bad
  BY DEF LedgerInOrder, Line
<1>5. LedgerInOrder'
  BY <1>2, <1>3, <1>4 DEF LedgerInOrder, Line
<1>6. /\ RowsOf(file) \subseteq RowsOf(file')
      /\ RowsOf(file') \subseteq RowsOf(file) \cup {s}
      /\ x = s => s \in RowsOf(file')
  BY <1>2, <1>3 DEF RowsOf
<1> QED BY <1>5, <1>6

-----------------------------------------------------------------------------
\* The end of the process forgets everything but the file.
LEMMA ExitForgets ==
  ASSUME IInv, Exit, UNCHANGED <<now, run, spoken>>, LedgerInOrder',
         file' \in File(Signals), TornHasALine(file'),
         faults' \in 0 .. MaxFaults, merged' \in BOOLEAN,
         merged => merged',
         ~merged' => RowsOf(file) \subseteq RowsOf(file')
  PROVE  IInv'
<1>1. TypeOK'
  <2>1. {} \subseteq Signals /\ {} \subseteq Windows /\ {0} \subseteq Nat
    OBVIOUS
  <2> QED BY <2>1 DEF Exit, IInv, TypeOK, MaybeSignal
<1>2. TornHasALine(file)' /\ Control'
  BY DEF Exit, Control, TornHasALine
<1>3. MemoryInStep' /\ LockInStep'
  BY DEF Exit, MemoryInStep, LockInStep
<1>4. ShownIsSaved' /\ SpeechInStep' /\ SpokenOnceAndSaved'
  BY DEF Exit, IInv, ShownIsSaved, SpeechInStep, SpokenOnceAndSaved
<1> QED BY <1>1, <1>2, <1>3, <1>4 DEF IInv

\* Start keeps the inductive invariant: memory is what the file says.
LEMMA StartStep == IInv /\ Start => IInv'
<1> SUFFICES ASSUME IInv, Start PROVE IInv'
  OBVIOUS
<1>1. UNCHANGED <<file, now, win, locked, shown, saved, pending, spoken, faults,
                  merged, had, hits, misses, closed>> /\ pc = "down" /\ pc' = "idle"
  BY DEF Start, count, history
<1>2. LoadedIds(file) \subseteq RowsOf(file) /\ RowsOf(file) \subseteq Signals
      /\ LastOf(file.lines) \in MaybeSignal
  BY LoadedAreRows, LastType, RowsAreSignals DEF IInv, Start
<1>3. TypeOK'
  BY <1>1, <1>2, BoundAssumption DEF Start, IInv, TypeOK
<1>4. TornHasALine(file)' /\ Control' /\ LedgerInOrder'
  BY <1>1 DEF IInv, Control, TornHasALine, LedgerInOrder, Line
<1>5. ShownIsSaved' /\ SpeechInStep' /\ SpokenOnceAndSaved'
  BY <1>1 DEF IInv, ShownIsSaved, SpeechInStep, SpokenOnceAndSaved
<1>6. MemoryInStep' /\ LockInStep'
  BY <1>1, <1>2 DEF IInv, Start, Control, MemoryInStep, LockInStep, Line
<1> QED BY <1>3, <1>4, <1>5, <1>6 DEF IInv

\* The steps that touch neither the ledger nor the lock.
LEMMA QuietSteps ==
  IInv /\ (Arm \/ SameWindow \/ KeepLock \/ Tick \/ UNCHANGED vars) => IInv'
<1> SUFFICES ASSUME IInv, Arm \/ SameWindow \/ KeepLock \/ Tick \/ UNCHANGED vars
             PROVE  IInv'
  OBVIOUS
<1> DEFINE Moves ==
      \/ pc' = pc /\ saved' = saved
      \/ pc = "idle" /\ pc' = "select" /\ saved' = saved /\ win # NONE
      \/ pc = "select" /\ pc' = "publish" /\ ~saved'
<1>a. UNCHANGED <<file, ids, latest, win, locked, shown, pending, spoken, merged,
                  run, had, hits, misses, closed, faults>>
  BY DEF Arm, SameWindow, KeepLock, Tick, vars, ledger, count, history
<1>b. now' \in Windows /\ now <= now'
  <2>1. now \in Windows /\ MaxWindow \in Nat
    BY BoundAssumption DEF IInv, TypeOK
  <2>2. now' = now \/ (now < MaxWindow /\ now' = now + 1)
    BY DEF Arm, SameWindow, KeepLock, Tick, vars
  <2> QED BY <2>1, <2>2 DEF Windows
<1>c. saved' \in BOOLEAN /\ ready' \in BOOLEAN
  BY DEF IInv, TypeOK, Arm, SameWindow, KeepLock, Tick, vars
<1>d. Moves
  <2>1. CASE SameWindow
    <3>1. win # NONE
      BY <2>1, NoneAssumption DEF SameWindow, IInv, TypeOK
    <3> QED BY <2>1, <3>1 DEF SameWindow
  <2>2. CASE KeepLock
    BY <2>2 DEF KeepLock
  <2>3. CASE Arm \/ Tick \/ UNCHANGED vars
    BY <2>3 DEF Arm, Tick, vars
  <2> QED BY <2>1, <2>2, <2>3
<1>1. /\ UNCHANGED <<file, ids, latest, win, locked, shown, pending, spoken,
                     merged, run, had, hits, misses, closed, faults>>
      /\ now' \in Windows /\ now <= now'
      /\ saved' \in BOOLEAN /\ ready' \in BOOLEAN
      /\ Moves
  BY <1>a, <1>b, <1>c, <1>d
<1>2. now \in Nat /\ now' \in Nat /\ (win # NONE => win \in Nat)
      /\ \A i \in DOMAIN file.lines : Line(i) # Bad => Line(i).win \in Nat
  <2>1. file.lines \in Seq(Signals \cup {Bad})
    BY DEF IInv, TypeOK, File
  <2> QED BY <1>1, <2>1 DEF IInv, TypeOK, Windows, Signals, Line
<1>3. TypeOK' /\ TornHasALine(file)'
  BY <1>1 DEF IInv, TypeOK, TornHasALine, MaybeSignal
<1>4. Control'
  BY <1>1 DEF IInv, Control
<1>5. LedgerInOrder'
  BY <1>1, <1>2 DEF IInv, LedgerInOrder, Line
<1>6. MemoryInStep'
  BY <1>1, <1>2 DEF IInv, MemoryInStep, Line
<1>7. LockInStep'
  BY <1>1 DEF IInv, LockInStep, Line
<1>8. ShownIsSaved' /\ SpeechInStep' /\ SpokenOnceAndSaved'
  BY <1>1 DEF IInv, ShownIsSaved, SpeechInStep, SpokenOnceAndSaved
<1> QED BY <1>3, <1>4, <1>5, <1>6, <1>7, <1>8 DEF IInv

\* A new window takes its lock from the ledger: the newest record is of this
\* window, or the ledger has none of it.
LEMMA NewWindowStep == IInv /\ NewWindow => IInv'
<1> SUFFICES ASSUME IInv, NewWindow PROVE IInv'
  OBVIOUS
<1> DEFINE L == file.lines
<1>1. /\ UNCHANGED <<file, ids, latest, now, run, shown, saved, pending, ready,
                     spoken, faults, merged>>
      /\ pc = "idle" /\ pc' = "select" /\ win' = now
      /\ locked' = LockedFor(now) /\ had' \in BOOLEAN
  BY DEF NewWindow, ledger, history
<1>2. L \in Seq(Signals \cup {Bad}) /\ latest \in MaybeSignal /\ now \in Windows
  BY DEF IInv, TypeOK, File
<1>3. LockedFor(now) \in MaybeSignal
      /\ (LockedFor(now) # NONE => LockedFor(now).win = now)
  BY <1>2 DEF LockedFor, MaybeSignal
<1>4. TypeOK' /\ TornHasALine(file)'
  <2>1. hits' \in Nat /\ misses' \in Nat /\ closed' \subseteq Windows
    BY DEF NewWindow, IInv, TypeOK
  <2> QED BY <1>1, <1>2, <1>3, <2>1 DEF IInv, TypeOK, TornHasALine
<1>5. Control' /\ LedgerInOrder'
  BY <1>1, <1>2, NoneAssumption DEF IInv, Control, LedgerInOrder, Line
<1>6. MemoryInStep'
  BY <1>1, <1>2 DEF IInv, MemoryInStep, LedgerInOrder, Line, Windows
<1>7. ASSUME ~merged
      PROVE  /\ LockedFor(now) = NONE => \A i \in DOMAIN L : Line(i).win < now
             /\ LockedFor(now) # NONE => LockedFor(now) \in RowsOf(file)
  <2>1. latest = LastOf(L) /\ \A i \in DOMAIN L : L[i] # Bad /\ L[i] \in Signals
    BY <1>1, <1>2, <1>7 DEF IInv, MemoryInStep, Line
  <2>2. CASE L = <<>>
    BY <2>1, <2>2 DEF LastOf, LockedFor
  <2>3. CASE L # <<>>
    <3>1. Len(L) \in DOMAIN L /\ latest = L[Len(L)] /\ latest # NONE
      BY <1>2, <2>1, <2>3, NoneAssumption DEF LastOf
    <3>2. latest \in RowsOf(file)
      BY <3>1, <2>1 DEF RowsOf
    <3>3. ASSUME NEW i \in DOMAIN L, i # Len(L)
          PROVE  L[i].win < latest.win
      <4>1. i < Len(L) /\ Len(L) \in DOMAIN L /\ L[Len(L)] # Bad
        <5>1. DOMAIN L = 1 .. Len(L) /\ Len(L) \in Nat
          BY <1>2
        <5>2. i \in 1 .. Len(L) /\ i # Len(L)
          BY <5>1, <3>3
        <5>3. i < Len(L)
          BY <5>1, <5>2
        <5>4. L[Len(L)] # Bad
          BY <3>1, <2>1
        <5> QED BY <5>3, <5>4, <3>1
      <4> QED BY <1>7, <4>1, <3>1 DEF IInv, LedgerInOrder, Line
    <3>4. latest.win <= now
      BY <1>7, <3>1, <2>1 DEF IInv, LedgerInOrder, Line
    <3>5. \A i \in DOMAIN L : L[i].win \in Nat
      BY <2>1 DEF Signals, Windows
    <3>6. CASE latest.win = now
      BY <3>1, <3>2, <3>6 DEF LockedFor
    <3>7. CASE latest.win # now
      <4>1. LockedFor(now) = NONE
        BY <3>7 DEF LockedFor
      <4>2. latest.win < now /\ latest.win \in Nat
        BY <1>2, <3>1, <3>4, <3>5, <3>7 DEF Windows
      <4>3. \A i \in DOMAIN L : L[i].win <= latest.win
        BY <3>1, <3>3, <3>5, <4>2
      <4> QED BY <1>2, <3>5, <4>1, <4>2, <4>3 DEF Line, Windows
    <3> QED BY <3>6, <3>7
  <2> QED BY <2>2, <2>3
<1>8. LockInStep'
  BY <1>1, <1>2, <1>3, <1>7, NoneAssumption DEF LockInStep, Line
<1>9. ShownIsSaved' /\ SpeechInStep' /\ SpokenOnceAndSaved'
  BY <1>1 DEF IInv, ShownIsSaved, SpeechInStep, SpokenOnceAndSaved
<1> QED BY <1>4, <1>5, <1>6, <1>8, <1>9 DEF IInv

\* Lock and Publish move what is in memory only.
LEMMA LockStep == ASSUME IInv, NEW s \in Signals, Lock(s) PROVE IInv'
<1>1. /\ UNCHANGED <<file, ids, latest, now, run, win, shown, saved, pending,
                     ready, spoken, faults, merged, hits, misses, closed>>
      /\ pc = "select" /\ pc' = "append" /\ locked = NONE
      /\ locked' = s /\ s.win = win /\ had' = TRUE /\ s # NONE
  BY NoneAssumption DEF Lock, ledger, history
<1>2. TypeOK' /\ TornHasALine(file)'
  BY <1>1 DEF IInv, TypeOK, TornHasALine, MaybeSignal
<1>3. Control' /\ LedgerInOrder' /\ MemoryInStep'
  BY <1>1 DEF IInv, Control, LedgerInOrder, MemoryInStep, Line
<1>4. LockInStep'
  BY <1>1 DEF IInv, Control, LockInStep, Line
<1>5. ShownIsSaved' /\ SpeechInStep' /\ SpokenOnceAndSaved'
  BY <1>1 DEF IInv, ShownIsSaved, SpeechInStep, SpokenOnceAndSaved
<1> QED BY <1>2, <1>3, <1>4, <1>5 DEF IInv

\* Publish shows the lock, which is saved, and keeps it for speech if new.
LEMMA PublishStep == IInv /\ Publish => IInv'
<1> SUFFICES ASSUME IInv, Publish PROVE IInv'
  OBVIOUS
<1>1. /\ UNCHANGED <<file, ids, latest, now, run, win, locked, saved, ready,
                     spoken, faults, merged, had, hits, misses, closed>>
      /\ pc = "publish" /\ pc' = "speak" /\ shown' = locked
      /\ pending' = IF saved THEN locked ELSE pending
  BY DEF Publish, ledger, history, count
<1>2. TypeOK' /\ TornHasALine(file)'
  BY <1>1 DEF IInv, TypeOK, TornHasALine
<1>3. Control' /\ LedgerInOrder' /\ MemoryInStep' /\ LockInStep'
  BY <1>1 DEF IInv, Control, LedgerInOrder, MemoryInStep, LockInStep, Line
<1>4. ShownIsSaved' /\ SpeechInStep' /\ SpokenOnceAndSaved'
  BY <1>1 DEF IInv, ShownIsSaved, SpeechInStep, SpokenOnceAndSaved, LockInStep
<1> QED BY <1>2, <1>3, <1>4 DEF IInv

\* Speak hands over a saved signal that was not spoken before.
LEMMA SpeakStep == IInv /\ Speak => IInv'
<1> SUFFICES ASSUME IInv, Speak PROVE IInv'
  OBVIOUS
<1>1. /\ UNCHANGED <<file, ids, latest, now, run, win, locked, shown, saved,
                     ready, faults, merged, had, hits, misses, closed>>
      /\ pc = "speak" /\ pc' = "idle"
  BY DEF Speak, ledger, count
<1>2. spoken \in Seq(Signals)
  BY DEF IInv, TypeOK
<1>3. CASE UNCHANGED <<spoken, pending>>
  <2>1. TypeOK' /\ TornHasALine(file)'
    BY <1>1, <1>3 DEF IInv, TypeOK, TornHasALine
  <2>2. Control' /\ LedgerInOrder' /\ MemoryInStep' /\ LockInStep'
    BY <1>1, <1>3
       DEF IInv, Control, LedgerInOrder, MemoryInStep, LockInStep, Line
  <2>3. ShownIsSaved' /\ SpeechInStep' /\ SpokenOnceAndSaved'
    BY <1>1, <1>3 DEF IInv, ShownIsSaved, SpeechInStep, SpokenOnceAndSaved
  <2> QED BY <2>1, <2>2, <2>3 DEF IInv
<1>4. CASE pending # NONE /\ spoken' = Append(spoken, pending) /\ pending' = NONE
  <2>1. pending \in Signals
    BY <1>4 DEF IInv, TypeOK, MaybeSignal
  <2>2. /\ DOMAIN spoken' = DOMAIN spoken \cup {Len(spoken) + 1}
        /\ \A i \in DOMAIN spoken : spoken'[i] = spoken[i]
        /\ spoken'[Len(spoken) + 1] = pending
        /\ spoken' \in Seq(Signals)
    BY <1>2, <1>4, <2>1
  <2>3. TypeOK' /\ TornHasALine(file)'
    BY <1>1, <1>4, <2>2 DEF IInv, TypeOK, TornHasALine, MaybeSignal
  <2>4. Control' /\ LedgerInOrder' /\ MemoryInStep' /\ LockInStep'
    BY <1>1, <1>4
       DEF IInv, Control, LedgerInOrder, MemoryInStep, LockInStep, Line
  <2>5. ShownIsSaved' /\ SpeechInStep'
    BY <1>1, <1>4 DEF IInv, ShownIsSaved, SpeechInStep
  <2>6. SpokenOnceAndSaved'
    BY <1>1, <1>4, <2>2 DEF IInv, SpeechInStep, SpokenOnceAndSaved
  <2> QED BY <2>3, <2>4, <2>5, <2>6 DEF IInv
<1> QED BY <1>3, <1>4 DEF Speak

-----------------------------------------------------------------------------
\* An append, complete or cut short, keeps the ledger in order: the lock is of
\* a window the ledger has no signal of.
LEMMA AppendKeepsOrder ==
  ASSUME IInv, pc = "append", UNCHANGED now,
         file' = Written(file, locked, TRUE) \/ file' \in Interrupted(file, locked),
         Merges
  PROVE  /\ file' \in File(Signals) /\ TornHasALine(file')
         /\ merged' \in BOOLEAN /\ (merged => merged')
         /\ LedgerInOrder'
         /\ ~merged' => RowsOf(file) \subseteq RowsOf(file')
<1>1. locked \in Signals /\ locked # NONE /\ win # NONE
  BY DEF IInv, TypeOK, Control, MaybeSignal
<1>2. file' \in File(Signals) /\ TornHasALine(file')
  <2>1. file \in File(Signals) /\ TornHasALine(file)
    BY DEF IInv, TypeOK
  <2>2. locked \in Signals \cup {Bad} /\ TRUE \in BOOLEAN
    BY <1>1
  <2>3. CASE file' = Written(file, locked, TRUE)
    <3>1. /\ Written(file, locked, TRUE) \in File(Signals)
          /\ TornHasALine(Written(file, locked, TRUE))
      BY <2>1, <2>2, WrittenType
    <3> QED BY <2>3, <3>1
  <2>4. CASE file' \in Interrupted(file, locked)
    BY <1>1, <2>1, <2>4, InterruptedType
  <2> QED BY <2>3, <2>4
<1>3. merged' \in BOOLEAN /\ (merged => merged')
  BY DEF Merges, IInv, TypeOK
<1>4. ASSUME ~merged'
      PROVE  LedgerInOrder' /\ RowsOf(file) \subseteq RowsOf(file')
  <2>1. ~merged
    BY <1>3, <1>4
  <2>2. \/ UNCHANGED file
        \/ \E x \in {locked, Bad} :
             /\ ~file.torn /\ file'.lines = Append(file.lines, x)
             /\ x = Bad => file'.torn
    BY <1>1, <1>4, LedgerWrites DEF IInv, Merges
  <2>3. CASE UNCHANGED file
    BY <2>1, <1>4, <2>3 DEF IInv, LedgerInOrder, Line
  <2>4. ASSUME NEW x \in {locked, Bad}, ~file.torn,
               file'.lines = Append(file.lines, x), x = Bad => file'.torn
        PROVE  LedgerInOrder' /\ RowsOf(file) \subseteq RowsOf(file')
    <3>1. locked.win = win /\ win <= now
      BY <1>1, <2>1 DEF IInv, LockInStep, MemoryInStep
    <3>2. \A i \in DOMAIN file.lines : Line(i).win < locked.win
      BY <1>1, <2>1, <3>1 DEF IInv, LockInStep
    <3>3. TypeOK /\ LedgerInOrder /\ now' = now /\ locked.win <= now
      BY <3>1 DEF IInv
    <3> QED BY <1>1, <2>1, <2>4, <3>2, <3>3, LedgerGrows
  <2> QED BY <2>2, <2>3, <2>4
<1>5. merged' => LedgerInOrder'
  BY DEF LedgerInOrder
<1> QED BY <1>2, <1>3, <1>4, <1>5

\* An append that breaks off ends the process.
LEMMA SaveCutShortStep == IInv /\ SaveCutShort => IInv'
<1> SUFFICES ASSUME IInv, SaveCutShort PROVE IInv'
  OBVIOUS
<1>1. pc = "append" /\ UNCHANGED <<now, run, spoken>> /\ Exit /\ Merges
      /\ file' \in Interrupted(file, locked)
  BY DEF SaveCutShort
<1>2. faults' \in 0 .. MaxFaults
  BY BoundAssumption DEF SaveCutShort, IInv, TypeOK
<1> QED BY <1>1, <1>2, AppendKeepsOrder, ExitForgets

\* A process that ends outside an append leaves the file as it is.
LEMMA LeaveStep == IInv /\ Leave => IInv'
<1> SUFFICES ASSUME IInv, Leave PROVE IInv'
  OBVIOUS
<1>1. UNCHANGED <<file, now, run, spoken, faults, merged>> /\ Exit
  BY DEF Leave, history
<1>2. LedgerInOrder'
  BY <1>1 DEF IInv, LedgerInOrder, Line
<1> QED BY <1>1, <1>2, ExitForgets DEF IInv, TypeOK

\* A signal the ledger knows already is in it, so this is never a new one.
LEMMA LockedIsNew == IInv /\ ~merged /\ pc = "append" => locked \notin ids
<1> SUFFICES ASSUME IInv, ~merged, pc = "append", locked \in ids PROVE FALSE
  OBVIOUS
<1>1. locked \in RowsOf(file) /\ locked # NONE /\ win # NONE /\ locked.win = win
  BY DEF IInv, Control, MemoryInStep, LockInStep
<1>2. PICK i \in DOMAIN file.lines : file.lines[i] = locked
  BY <1>1 DEF RowsOf
<1>3. locked.win < win
  BY <1>1, <1>2 DEF IInv, LockInStep, Line
<1>4. win \in Nat
  BY <1>1 DEF IInv, TypeOK, Windows
<1> QED BY <1>1, <1>3, <1>4

\* A complete append puts the lock into the ledger and into its memory.
LEMMA SaveSignalStep == IInv /\ SaveSignal => IInv'
<1> SUFFICES ASSUME IInv, SaveSignal PROVE IInv'
  OBVIOUS
<1>1. /\ UNCHANGED <<now, run, win, locked, had, hits, misses, closed, shown,
                     pending, ready, spoken, faults>>
      /\ pc = "append" /\ pc' = "publish" /\ Merges
  BY DEF SaveSignal, count
<1>2. locked \in Signals /\ locked # NONE /\ win # NONE
  BY <1>1 DEF IInv, TypeOK, Control, MaybeSignal
<1>3. CASE locked \in ids
  <2>1. UNCHANGED <<file, ids, latest>> /\ ~saved' /\ saved' \in BOOLEAN
    BY <1>3 DEF SaveSignal, ledger
  <2>2. merged /\ merged' = merged
    BY <1>1, <1>3, <2>1, LockedIsNew DEF Merges, IInv, TypeOK
  <2>3. TypeOK' /\ TornHasALine(file)' /\ Control'
    BY <1>1, <2>1, <2>2 DEF IInv, TypeOK, TornHasALine, Control
  <2>4. /\ LedgerInOrder' /\ MemoryInStep' /\ LockInStep'
        /\ ShownIsSaved' /\ SpeechInStep' /\ SpokenOnceAndSaved'
    BY <2>2 DEF LedgerInOrder, MemoryInStep, LockInStep, ShownIsSaved,
      SpeechInStep, SpokenOnceAndSaved
  <2> QED BY <2>3, <2>4 DEF IInv
<1>4. CASE locked \notin ids
  <2>1. /\ file' = Written(file, locked, TRUE)
        /\ latest' = locked /\ saved' = TRUE
        /\ ids' \subseteq ids \cup {locked}
    BY <1>4 DEF SaveSignal
  <2>2. /\ file' \in File(Signals) /\ TornHasALine(file')
        /\ merged' \in BOOLEAN /\ (merged => merged')
        /\ LedgerInOrder'
        /\ ~merged' => RowsOf(file) \subseteq RowsOf(file')
    BY <1>1, <2>1, AppendKeepsOrder
  <2>3. TypeOK'
    BY <1>1, <1>2, <2>1, <2>2 DEF IInv, TypeOK, MaybeSignal
  <2>4. Control'
    BY <1>1, <1>2 DEF Control
  <2>5. ASSUME ~merged'
        PROVE  /\ MemoryInStep' /\ LockInStep'
               /\ ShownIsSaved' /\ SpeechInStep' /\ SpokenOnceAndSaved'
    <3>1. ~merged /\ ~file.torn
      <4>1. ~merged
        BY <2>2, <2>5
      <4>2. pc # "down" => \A i \in DOMAIN file.lines : file.lines[i] # Bad
        BY <4>1 DEF IInv, MemoryInStep, Line
      <4>3. file'.torn = FALSE
        BY <2>1 DEF Written
      <4>4. file.torn \in BOOLEAN
        BY DEF IInv, TypeOK, File
      <4>5. file.torn => file' # file
        BY <4>3, <4>4
      <4> QED BY <1>1, <2>5, <4>1, <4>5 DEF Merges
    <3>2. /\ file'.lines = Append(file.lines, locked)
          /\ file.lines \in Seq(Signals \cup {Bad})
      BY <2>1, <3>1 DEF Written, IInv, TypeOK, File
    <3>3. /\ DOMAIN file'.lines = DOMAIN file.lines \cup {Len(file.lines) + 1}
          /\ Len(file'.lines) = Len(file.lines) + 1
          /\ \A i \in DOMAIN file.lines : file'.lines[i] = file.lines[i]
          /\ file'.lines[Len(file.lines) + 1] = locked
          /\ file'.lines # <<>>
      BY <3>2
    <3>4. /\ locked # Bad /\ locked.win = win /\ win <= now /\ win \in Nat
          /\ \A i \in DOMAIN file.lines : Line(i) # Bad /\ Line(i).win < win
                                           /\ Line(i) \in Signals
      BY <1>1, <1>2, <3>1, <3>2, BadAssumption
         DEF IInv, TypeOK, Windows, MemoryInStep, LockInStep, Line
    <3>5. locked \in RowsOf(file') /\ RowsOf(file) \subseteq RowsOf(file')
          /\ ids \subseteq RowsOf(file)
      BY <1>1, <2>2, <2>5, <3>1, <3>3, <3>4 DEF RowsOf, IInv, MemoryInStep
    <3>6. MemoryInStep'
      <4>1. \A i \in DOMAIN file.lines : Line(i).win <= win
        BY <3>4 DEF Signals, Windows
      <4>2. latest' = LastOf(file'.lines)
        BY <2>1, <3>3 DEF LastOf
      <4>3. \A i \in DOMAIN file'.lines :
              file'.lines[i] # Bad /\ file'.lines[i].win <= win
        BY <3>3, <3>4, <4>1 DEF Line
      <4>4. ids' \subseteq RowsOf(file')
        BY <2>1, <3>5
      <4> QED BY <1>1, <3>4, <4>2, <4>3, <4>4 DEF MemoryInStep, Line
    <3>7. LockInStep'
      BY <1>1, <1>2, <3>4, <3>5 DEF LockInStep
    <3>8. \A i \in DOMAIN spoken : spoken[i].win # locked.win
      <4>1. ASSUME NEW i \in DOMAIN spoken PROVE spoken[i].win # locked.win
        <5>1. spoken[i] \in RowsOf(file)
          BY <3>1 DEF IInv, SpokenOnceAndSaved
        <5>2. PICK j \in DOMAIN file.lines : file.lines[j] = spoken[i]
          BY <5>1 DEF RowsOf
        <5>3. spoken[i].win < win /\ spoken[i].win \in Nat
          BY <3>4, <5>2 DEF Line, Signals, Windows
        <5> QED BY <3>4, <5>3
      <4> QED BY <4>1
    <3>9. SpeechInStep'
      BY <1>1, <1>2, <3>1, <3>5, <3>8 DEF IInv, SpeechInStep
    <3>10. ShownIsSaved' /\ SpokenOnceAndSaved'
      BY <1>1, <3>1, <3>5 DEF IInv, ShownIsSaved, SpokenOnceAndSaved
    <3> QED BY <3>6, <3>7, <3>9, <3>10
  <2>6. merged' => /\ MemoryInStep' /\ LockInStep'
                   /\ ShownIsSaved' /\ SpeechInStep' /\ SpokenOnceAndSaved'
    BY DEF MemoryInStep, LockInStep, ShownIsSaved, SpeechInStep,
      SpokenOnceAndSaved
  <2> QED BY <2>2, <2>3, <2>4, <2>5, <2>6 DEF IInv
<1> QED BY <1>3, <1>4

-----------------------------------------------------------------------------
\* Every step keeps the inductive invariant.
LEMMA NextIInv == IInv /\ [Next]_vars => IInv'
<1> SUFFICES ASSUME IInv, [Next]_vars PROVE IInv'
  OBVIOUS
<1>1. CASE Start
  BY <1>1, StartStep
<1>2. CASE Arm \/ SameWindow \/ KeepLock \/ Tick \/ UNCHANGED vars
  BY <1>2, QuietSteps
<1>3. CASE NewWindow
  BY <1>3, NewWindowStep
<1>4. ASSUME NEW s \in Signals, Lock(s) PROVE IInv'
  BY <1>4, LockStep
<1>5. CASE SaveSignal
  BY <1>5, SaveSignalStep
<1>6. CASE SaveCutShort
  BY <1>6, SaveCutShortStep
<1>7. CASE Publish
  BY <1>7, PublishStep
<1>8. CASE Speak
  BY <1>8, SpeakStep
<1>9. CASE Leave
  BY <1>9, LeaveStep
<1> QED BY <1>1, <1>2, <1>3, <1>4, <1>5, <1>6, <1>7, <1>8, <1>9 DEF Next, Scan

\* The inductive invariant holds in every reachable state.
LEMMA Invariance == Spec => []IInv
<1> QED BY InitIInv, NextIInv, PTL DEF Spec

\* Every variable keeps its type (_run_kalshi_manual_signals).
THEOREM TypeCorrect == Spec => []TypeOK
<1>1. IInv => TypeOK
  BY DEF IInv
<1> QED BY <1>1, Invariance, PTL

\* Windows that increase along the ledger occur once in it.
LEMMA OrderedIsOnce == IInv => OneSignalPerWindow
<1> SUFFICES ASSUME IInv PROVE OneSignalPerWindow
  OBVIOUS
<1>1. SUFFICES ASSUME ~merged,
                      NEW i \in DOMAIN file.lines, NEW j \in DOMAIN file.lines,
                      i # j, Bad \notin {file.lines[i], file.lines[j]}
               PROVE  file.lines[i].win # file.lines[j].win
  BY DEF OneSignalPerWindow
<1>2. file.lines \in Seq(Signals \cup {Bad})
  BY <1>1 DEF IInv, TypeOK, File
<1>3. /\ file.lines[i].win \in Nat /\ file.lines[j].win \in Nat
      /\ i \in Nat /\ j \in Nat
  BY <1>1, <1>2 DEF Signals, Windows
<1>4. CASE i < j
  <2>1. file.lines[i].win < file.lines[j].win
    BY <1>1, <1>4 DEF IInv, LedgerInOrder, Line
  <2> QED BY <1>3, <2>1
<1>5. CASE j < i
  <2>1. file.lines[j].win < file.lines[i].win
    BY <1>1, <1>5 DEF IInv, LedgerInOrder, Line
  <2> QED BY <1>3, <2>1
<1> QED BY <1>1, <1>3, <1>4, <1>5

\* The ledger holds one signal per window, whatever restarts and broken
\* appends come between (apply_signal_lock, locked_for_window).
THEOREM OneSignal == Spec => []OneSignalPerWindow
<1> QED BY OrderedIsOnce, Invariance, PTL

\* What the operator sees is in the ledger (scan appends before it returns).
THEOREM ShownSaved == Spec => []ShownIsSaved
<1>1. IInv => ShownIsSaved
  BY DEF IInv
<1> QED BY <1>1, Invariance, PTL

\* A signal is spoken at most once over all runs, and only once saved
\* (persisted, pending).
THEOREM SpokenOnce == Spec => []SpokenOnceAndSaved
<1>1. IInv => SpokenOnceAndSaved
  BY DEF IInv
<1> QED BY <1>1, Invariance, PTL

\* Within a window the operator never sees one signal replaced by another: the
\* old and the new one are both in the ledger, which has one per window.
THEOREM SignalStable == Spec => SignalIsStable
<1> DEFINE Stable ==
      shown # NONE /\ shown' # NONE /\ shown.win = shown'.win /\ ~merged'
        => shown' = shown
<1>1. ASSUME IInv, [Next]_vars PROVE Stable
  <2>1. shown' = shown \/ shown' = NONE \/ Publish
    BY <1>1 DEF Next, Scan, Start, Arm, SameWindow, NewWindow, KeepLock, Lock,
      SaveSignal, Speak, SaveCutShort, Leave, Tick, Exit, vars
  <2>2. CASE Publish
    <3>1. SUFFICES ASSUME shown # NONE, shown' # NONE, shown.win = shown'.win,
                          ~merged'
                   PROVE  shown' = shown
      OBVIOUS
    <3>2. shown' = locked /\ ~merged /\ pc = "publish"
      BY <2>2, <3>1 DEF Publish, history
    <3>3. shown \in RowsOf(file) /\ shown' \in RowsOf(file)
      BY <1>1, <3>1, <3>2 DEF IInv, ShownIsSaved, LockInStep
    <3>4. PICK i \in DOMAIN file.lines : file.lines[i] = shown /\ shown # Bad
      BY <3>3 DEF RowsOf
    <3>5. PICK j \in DOMAIN file.lines : file.lines[j] = shown' /\ shown' # Bad
      BY <3>3 DEF RowsOf
    <3>6. OneSignalPerWindow
      BY <1>1, OrderedIsOnce
    <3> QED BY <3>1, <3>2, <3>4, <3>5, <3>6 DEF OneSignalPerWindow
  <2> QED BY <2>1, <2>2
<1> QED BY <1>1, Invariance, PTL DEF Spec, SignalIsStable

-----------------------------------------------------------------------------
(***************************************************************************)
(* The frequency of signals.                                               *)
(***************************************************************************)
\* A window the ledger has a signal of.
HasSignal(w) == \E s \in RowsOf(file) : s.win = w

With == {w \in closed : HasSignal(w)}

\* The window is counted by its lock, and the windows left are behind it.
CountInStep ==
  /\ had = (locked # NONE)
  /\ ~merged => (win = NONE => closed = {}) /\ \A w \in closed : w < win

FInv == CountInStep /\ FrequencyMatchesLedger

\* Whether the ledger has a signal of the window is whether one is locked,
\* except while it is being appended (locked_for_window).
LEMMA LockedHasSignal ==
  ASSUME IInv, ~merged, pc \notin {"down", "append"}, win # NONE
  PROVE  locked # NONE <=> HasSignal(win)
<1>1. CASE locked # NONE
  BY <1>1 DEF IInv, LockInStep, HasSignal
<1>2. CASE locked = NONE
  <2>1. \A i \in DOMAIN file.lines : Line(i).win < win
    BY <1>2 DEF IInv, LockInStep
  <2>2. ~(win < win)
    BY DEF IInv, TypeOK, Windows
  <2> QED BY <1>2, <2>1, <2>2 DEF HasSignal, RowsOf, Line
<1> QED BY <1>1, <1>2

\* The windows left with a signal, and those without, are finite sets.
LEMMA ClosedFinite ==
  ASSUME TypeOK
  PROVE  /\ IsFiniteSet(closed)
         /\ IsFiniteSet(With) /\ Cardinality(With) \in Nat
         /\ IsFiniteSet(closed \ With) /\ Cardinality(closed \ With) \in Nat
<1>1. MaxWindow \in Nat /\ closed \in SUBSET Windows
  BY BoundAssumption DEF TypeOK
<1>2. IsFiniteSet(Windows)
  BY <1>1, FS_Interval DEF Windows
<1>3. IsFiniteSet(closed)
  BY <1>1, <1>2, FS_Subset
<1>4. With \in SUBSET closed /\ closed \ With \in SUBSET closed
  BY DEF With
<1>5. IsFiniteSet(With) /\ IsFiniteSet(closed \ With)
  BY <1>3, <1>4, FS_Subset
<1> QED BY <1>3, <1>5, FS_CardinalityType

\* The counts are right of no windows.
LEMMA CountsOfNone ==
  ASSUME closed' = {}, hits' = 0, misses' = 0
  PROVE  FrequencyMatchesLedger'
<1>1. Cardinality({}) = 0
  BY FS_EmptySet
<1>2. {w \in closed' : \E s \in RowsOf(file') : s.win = w} = {}
      /\ closed' \ {} = {}
  OBVIOUS
<1> QED BY <1>1, <1>2 DEF FrequencyMatchesLedger

\* They stay right while the ledger says the same of the windows left.
LEMMA CountsStay ==
  ASSUME FrequencyMatchesLedger, UNCHANGED <<closed, hits, misses>>, ~merged,
         \A w \in closed : HasSignal(w)' = HasSignal(w)
  PROVE  FrequencyMatchesLedger'
<1>1. With' = With
  BY DEF With
<1>2. hits = Cardinality(With) /\ misses = Cardinality(closed \ With)
  BY DEF FrequencyMatchesLedger, With, HasSignal
<1> QED BY <1>1, <1>2 DEF FrequencyMatchesLedger, With, HasSignal

\* A ledger that is not merged grows by the lock alone.
LEMMA OtherWindowsStay ==
  ASSUME IInv, ~merged', pc = "append", now' = now,
         file' = Written(file, locked, TRUE) \/ file' \in Interrupted(file, locked),
         Merges, NEW w, w # win
  PROVE  HasSignal(w)' = HasSignal(w)
<1>1. locked \in Signals /\ locked # NONE /\ ~merged
  BY DEF IInv, TypeOK, Control, MaybeSignal, Merges
<1>2. locked.win = win
  BY <1>1 DEF IInv, LockInStep
<1>3. file \in File(Signals)
  BY DEF IInv, TypeOK
<1>4. \/ UNCHANGED file
      \/ \E x \in {locked, Bad} : file'.lines = Append(file.lines, x)
  BY <1>1, LedgerWrites DEF IInv, Merges
<1>5. CASE UNCHANGED file
  BY <1>5 DEF HasSignal
<1>6. ASSUME NEW x \in {locked, Bad}, file'.lines = Append(file.lines, x)
      PROVE  HasSignal(w)' = HasSignal(w)
  <2>1. RowsOf(file') = RowsOf(file) \cup ({x} \ {Bad})
    BY <1>3, <1>6, AppendRows
  <2> QED BY <1>2, <1>6, <2>1 DEF HasSignal
<1> QED BY <1>4, <1>5, <1>6

\* Every step keeps the counts.
LEMMA NextFInv == IInv /\ FInv /\ [Next]_vars => FInv'
<1> SUFFICES ASSUME IInv, FInv, [Next]_vars PROVE FInv'
  OBVIOUS
<1>0. TypeOK /\ Control /\ now \in Nat
  BY DEF IInv, TypeOK, Windows
<1>1. CASE Start \/ Arm \/ SameWindow \/ KeepLock \/ Publish \/ Speak \/ Tick
           \/ UNCHANGED vars
  <2>1. UNCHANGED <<file, win, locked, had, hits, misses, closed, merged>>
    BY <1>1 DEF Start, Arm, SameWindow, KeepLock, Publish, Speak, Tick, vars,
                ledger, count, history
  <2> HIDE <1>1
  <2> QED BY <2>1 DEF FInv, CountInStep, FrequencyMatchesLedger
<1>2. CASE SaveCutShort \/ Leave
  <2>1. closed' = {} /\ hits' = 0 /\ misses' = 0 /\ had' = FALSE /\ locked' = NONE
    BY <1>2 DEF SaveCutShort, Leave, Exit
  <2>2. FrequencyMatchesLedger'
    BY <2>1, CountsOfNone
  <2> QED BY <2>1, <2>2 DEF FInv, CountInStep
<1>3. ASSUME NEW s \in Signals, Lock(s) PROVE FInv'
  <2>1. /\ UNCHANGED <<file, win, hits, misses, closed, merged>>
        /\ had' = TRUE /\ locked' = s /\ s # NONE
    BY <1>3, NoneAssumption DEF Lock, ledger, history
  <2> QED BY <2>1 DEF FInv, CountInStep, FrequencyMatchesLedger
<1>4. CASE SaveSignal
  <2>1. UNCHANGED <<win, locked, had, hits, misses, closed, now>>
        /\ Merges /\ pc = "append"
    BY <1>4 DEF SaveSignal, count
  <2>2. merged \in BOOLEAN /\ (merged => merged')
    BY <1>0, <2>1 DEF TypeOK, Merges
  <2>3. CountInStep'
    BY <2>1, <2>2 DEF FInv, CountInStep
  <2>4. ASSUME ~merged' PROVE FrequencyMatchesLedger'
    <3>1. locked \notin ids /\ file' = Written(file, locked, TRUE)
      BY <1>4, <2>1, <2>2, <2>4, LockedIsNew DEF SaveSignal
    <3>2. \A w \in closed : w # win
      <4>1. win \in Windows
        BY <1>0, <2>1 DEF TypeOK, Control
      <4>2. ~(win < win)
        BY <4>1 DEF Windows
      <4> QED BY <2>2, <2>4, <4>2 DEF FInv, CountInStep
    <3>3. \A w \in closed : HasSignal(w)' = HasSignal(w)
      BY <2>1, <2>4, <3>1, <3>2, OtherWindowsStay
    <3> QED BY <2>1, <2>2, <2>4, <3>3, CountsStay DEF FInv
  <2>5. merged' => FrequencyMatchesLedger'
    BY DEF FrequencyMatchesLedger
  <2> QED BY <2>3, <2>4, <2>5 DEF FInv
<1>5. CASE NewWindow
  <2>1. /\ UNCHANGED <<file, merged>> /\ pc = "idle" /\ win # now /\ win' = now
        /\ locked' = LockedFor(now) /\ had' = (LockedFor(now) # NONE)
    BY <1>5 DEF NewWindow, ledger, history
  <2>2. CASE win = NONE
    <3>1. UNCHANGED <<hits, misses, closed>>
      BY <1>5, <2>2 DEF NewWindow
    <3> QED BY <2>1, <2>2, <3>1 DEF FInv, CountInStep, FrequencyMatchesLedger
  <2>3. CASE win # NONE
    <3>1. /\ hits' = IF had THEN hits + 1 ELSE hits
          /\ misses' = IF had THEN misses ELSE misses + 1
          /\ closed' = closed \cup {win}
      BY <1>5, <2>3 DEF NewWindow
    <3>2. win \in Windows /\ win \in Nat
      BY <1>0, <2>3 DEF TypeOK, Windows
    <3>3. CASE merged
      <4>1. merged'
        BY <2>1, <3>3
      <4> QED BY <2>1, <4>1 DEF FInv, CountInStep, FrequencyMatchesLedger
    <3>4. CASE ~merged
      <4>1. win < now
        BY <1>0, <2>1, <2>3, <3>2, <3>4 DEF IInv, MemoryInStep
      <4>2. \A w \in closed : w \in Nat /\ w < win
        BY <1>0, <3>4 DEF FInv, CountInStep, TypeOK, Windows
      <4>3. CountInStep'
        <5>1. had' = (locked' # NONE)
          BY <2>1
        <5>2. win' # NONE
          BY <1>0, <2>1, NoneAssumption DEF TypeOK
        <5>3. \A w \in closed' : w < win'
          BY <1>0, <2>1, <3>1, <3>2, <4>1, <4>2
        <5> QED BY <5>1, <5>2, <5>3 DEF CountInStep
      <4>4. win \notin closed
        BY <3>2, <4>2
      <4>5. had <=> HasSignal(win)
        BY <2>1, <2>3, <3>4, LockedHasSignal DEF FInv, CountInStep
      <4>6. hits = Cardinality(With) /\ misses = Cardinality(closed \ With)
        BY <3>4 DEF FInv, FrequencyMatchesLedger, With, HasSignal
      <4>7. With' = {w \in closed \cup {win} : HasSignal(w)}
        BY <2>1, <3>1 DEF With, HasSignal
      <4>8. hits' = Cardinality(With') /\ misses' = Cardinality(closed' \ With')
        <5>1. CASE had
          <6>1. With' = With \cup {win} /\ win \notin With
                /\ closed' \ With' = closed \ With
            BY <3>1, <4>4, <4>5, <4>7, <5>1 DEF With
          <6> QED BY <1>0, <3>1, <4>6, <5>1, <6>1, ClosedFinite, FS_AddElement
        <5>2. CASE ~had
          <6>1. With' = With /\ closed' \ With' = (closed \ With) \cup {win}
                /\ win \notin closed \ With
            BY <3>1, <4>4, <4>5, <4>7, <5>2 DEF With
          <6> QED BY <1>0, <3>1, <4>6, <5>2, <6>1, ClosedFinite, FS_AddElement
        <5> QED BY <5>1, <5>2
      <4> QED BY <4>3, <4>8 DEF FInv, FrequencyMatchesLedger, With, HasSignal
    <3> QED BY <3>3, <3>4
  <2> QED BY <2>2, <2>3
<1> QED BY <1>1, <1>2, <1>3, <1>4, <1>5 DEF Next, Scan

\* The windows a run left are counted as with or without a signal exactly as
\* the ledger has them (frequency_summary).
THEOREM FrequencyMatches == Spec => []FrequencyMatchesLedger
<1>1. Init => FInv
  <2>1. Cardinality({}) = 0
    BY FS_EmptySet
  <2>2. ASSUME Init PROVE FInv
    <3>1. closed = {} /\ hits = 0 /\ misses = 0 /\ had = FALSE /\ locked = NONE
      BY <2>2 DEF Init
    <3>2. {w \in closed : \E s \in RowsOf(file) : s.win = w} = {} /\ closed \ {} = {}
      BY <3>1
    <3> QED BY <2>1, <3>1, <3>2 DEF FInv, CountInStep, FrequencyMatchesLedger
  <2> QED BY <2>2
<1>2. FInv => FrequencyMatchesLedger
  BY DEF FInv
<1> QED BY <1>1, <1>2, NextFInv, Invariance, PTL DEF Spec

-----------------------------------------------------------------------------
(***************************************************************************)
(* The scan that chooses the signal (ManualScan): every quote it judges is *)
(* of a market that was open.                                              *)
(***************************************************************************)

\* Later instants are of no earlier windows.
LEMMA WindowsFollow ==
  ASSUME NEW t \in Nat, NEW u \in Nat, t <= u
  PROVE  Window(t) \in Nat /\ Window(u) \in Nat /\ Window(t) <= Window(u)
<1> DEFINE a == t \div Slots
           b == u \div Slots
<1>1. Slots \in Nat \ {0}
  BY ScanAssumption
<1>2. /\ a \in Nat /\ a * Slots <= t /\ t < (a + 1) * Slots
      /\ b \in Nat /\ b * Slots <= u /\ u < (b + 1) * Slots
  BY <1>1
<1>3. Window(t) = a /\ Window(u) = b
  BY DEF Window
<1> HIDE DEF a, b
<1>4. a <= b
  <2> SUFFICES ASSUME ~(a <= b) PROVE FALSE
    OBVIOUS
  <2>1. a - (b + 1) \in Nat /\ a = (b + 1) + (a - (b + 1))
    BY <1>2
  <2>2. PICK k \in Nat : a = (b + 1) + k
    BY <2>1
  <2>3. a * Slots = (b + 1) * Slots + k * Slots
    BY <1>1, <1>2, <2>2
  <2>4. k * Slots \in Nat /\ a * Slots \in Nat /\ (b + 1) * Slots \in Nat
    BY <1>1, <1>2, <2>2
  <2> QED BY <1>2, <2>3, <2>4
<1> QED BY <1>2, <1>3, <1>4

ScanTypes ==
  /\ clock \in Nat /\ inst \in Nat /\ inst <= clock
  /\ market \in [EventAssets -> {"absent", "initialized", "active", "closed"}]
  /\ closedAt \in [EventAssets -> Nat \cup {None}]
  /\ ctx = [a \in EventAssets |-> ctx[a]] /\ asked \in EventAssets
  /\ stage \in {"idle", "asset", "quote", "fee", "down"} /\ at \in Nat \ {0}

\* The provider is only at work while the scan waits for a quote, and what it
\* answers is of the asset the scan is at.
ProviderInStep ==
  /\ stage # "quote" => step = "none"
  /\ stage \in {"quote", "fee"} => at <= Len(AssetSeq) /\ asked = Scanned
  /\ stage = "idle" => ctx = NoContext

\* The market was open at some moment since the scan began.
WasOpen(a) == market[a] = "active" \/ closedAt[a] >= inst
WindowGoesOn == Window(inst) = Window(clock)

\* No book is asked for, no quote is returned and no context is kept otherwise.
BookIsOfAnOpenMarket ==
  WindowGoesOn /\ step \in {"book", "age"} => WasOpen(asked)
AnswerIsOfAnOpenMarket ==
  /\ WindowGoesOn /\ stage \in {"quote", "fee"} /\ step = "none"
  /\ answer.status = "READY"
  => WasOpen(asked)

ScanInv ==
  /\ ScanTypes /\ ProviderInStep
  /\ BookIsOfAnOpenMarket /\ AnswerIsOfAnOpenMarket /\ QuoteIsOfAnOpenMarket

\* The asset the scan is at is an asset.
LEMMA ScannedIsAnAsset ==
  ASSUME ScanInv, at <= Len(AssetSeq)
  PROVE  Scanned \in EventAssets
<1>1. AssetSeq \in Seq(EventAssets) /\ at \in 1 .. Len(AssetSeq)
  BY ScanAssumption DEF ScanInv, ScanTypes
<1> QED BY <1>1 DEF Scanned

\* Before the first scan nothing was asked.
LEMMA ScanInitially == ScanInit => ScanInv
<1> SUFFICES ASSUME ScanInit PROVE ScanInv
  OBVIOUS
<1> USE DEF ScanInit, ProviderInit
<1>1. ScanTypes
  BY DEF ScanTypes, Listings, NoContext
<1>2. ProviderInStep /\ BookIsOfAnOpenMarket /\ AnswerIsOfAnOpenMarket
  BY DEF ProviderInStep, BookIsOfAnOpenMarket, AnswerIsOfAnOpenMarket
<1>3. QuoteIsOfAnOpenMarket
  BY DEF QuoteIsOfAnOpenMarket, NoContext
<1> QED BY <1>1, <1>2, <1>3 DEF ScanInv

\* A market that closes was open until now; one that opens is open now; and
\* when the window ends, what was quoted of it no longer counts.
LEMMA ExchangeKeeps == ScanInv /\ Exchange => ScanInv'
<1> SUFFICES ASSUME ScanInv, Exchange PROVE ScanInv'
  OBVIOUS
<1>1. UNCHANGED <<inst, asked, step, answer, stage, at, ctx>>
  BY DEF Exchange, Opens, Closes, ClockTicks, provider, scan
<1>2. /\ clock' \in Nat /\ clock <= clock'
      /\ market' \in [EventAssets -> {"absent", "initialized", "active", "closed"}]
      /\ closedAt' \in [EventAssets -> Nat \cup {None}]
      /\ WindowGoesOn' => /\ WindowGoesOn
                        /\ \A a \in EventAssets : WasOpen(a) => WasOpen(a)'
  <2>1. CASE \E a \in Moody : Opens(a)
    BY <2>1 DEF Opens, ScanInv, ScanTypes, WindowGoesOn, WasOpen
  <2>2. CASE \E a \in Moody : Closes(a)
    <3>1. PICK a \in Moody : Closes(a)
      BY <2>2
    <3>2. /\ market' = [market EXCEPT ![a] = "closed"]
          /\ closedAt' = [closedAt EXCEPT ![a] = clock] /\ clock' = clock /\ inst' = inst
      BY <3>1 DEF Closes
    <3>3. ScanTypes
      BY DEF ScanInv
    <3>4. /\ market' \in [EventAssets -> {"absent", "initialized", "active", "closed"}]
          /\ closedAt' \in [EventAssets -> Nat \cup {None}]
      BY <3>2, <3>3 DEF ScanTypes
    <3>5. ASSUME NEW b \in EventAssets, WasOpen(b) PROVE WasOpen(b)'
      <4>1. CASE b = a
        <5>1. closedAt'[b] = clock
          BY <3>2, <3>3, <4>1 DEF ScanTypes
        <5> QED BY <3>2, <3>3, <5>1 DEF ScanTypes, WasOpen
      <4>2. CASE b # a
        <5>1. market'[b] = market[b] /\ closedAt'[b] = closedAt[b]
          BY <3>2, <3>3, <4>2 DEF ScanTypes
        <5> QED BY <3>2, <3>5, <5>1 DEF WasOpen
      <4> QED BY <4>1, <4>2
    <3> QED BY <3>2, <3>3, <3>4, <3>5 DEF WindowGoesOn, ScanTypes
  <2>3. CASE ClockTicks
    <3>1. clock \in Nat /\ inst \in Nat /\ inst <= clock /\ clock' = clock + 1
      BY <2>3 DEF ClockTicks, ScanInv, ScanTypes
    <3>2. /\ Window(inst) \in Nat /\ Window(clock) \in Nat /\ Window(clock') \in Nat
          /\ Window(inst) <= Window(clock) /\ Window(clock) <= Window(clock')
      BY <3>1, WindowsFollow
    <3>3. CASE Window(clock') = Window(clock)
      BY <1>1, <2>3, <3>1, <3>3 DEF ClockTicks, ScanInv, ScanTypes, WindowGoesOn, WasOpen
    <3>4. CASE Window(clock') # Window(clock)
      <4>1. /\ market' \in Listings /\ closedAt' = [a \in EventAssets |-> None]
        BY <2>3, <3>4 DEF ClockTicks
      <4>2. Window(inst)' # Window(clock)'
        BY <1>1, <3>2, <3>4 DEF Window
      <4> QED BY <3>1, <4>1, <4>2 DEF Listings, WindowGoesOn
    <3> QED BY <3>3, <3>4
  <2> QED BY <2>1, <2>2, <2>3 DEF Exchange
<1>3. ScanTypes'
  BY <1>1, <1>2 DEF ScanInv, ScanTypes
<1>4. ProviderInStep'
  BY <1>1 DEF ScanInv, ProviderInStep, Scanned
<1>5. BookIsOfAnOpenMarket' /\ AnswerIsOfAnOpenMarket'
  BY <1>1, <1>2 DEF ScanInv, ScanTypes, BookIsOfAnOpenMarket, AnswerIsOfAnOpenMarket
<1>6. QuoteIsOfAnOpenMarket'
  <2>1. ASSUME NEW a \in EventAssets, ctx'[a] # None, ctx'[a].answer.status = "READY",
               WindowGoesOn'
        PROVE  WasOpen(a)'
    BY <1>1, <1>2, <2>1 DEF ScanInv, QuoteIsOfAnOpenMarket, WindowGoesOn, WasOpen
  <2> QED BY <2>1 DEF QuoteIsOfAnOpenMarket, WindowGoesOn, WasOpen
<1> QED BY <1>3, <1>4, <1>5, <1>6 DEF ScanInv

\* A request of the provider: it comes to the book only by way of an open
\* market, and what it returns without the book is no quote.
LEMMA ProviderKeeps == ScanInv /\ (Fetch \/ FetchFails) => ScanInv'
<1> SUFFICES ASSUME ScanInv, Fetch \/ FetchFails PROVE ScanInv'
  OBVIOUS
<1>1. /\ UNCHANGED <<clock, market, inst, closedAt, stage, at, ctx, asked>>
      /\ stage = "quote"
  BY DEF Fetch, FetchFails, Answered, Refused, scan, SeriesReply, MarketsReply,
         MarketReply, EventReply, StatusReply, BookReply, Quoted, Raises, Ambiguous
<1>2. asked \in EventAssets
  BY DEF ScanInv, ScanTypes
<1>3. /\ WindowGoesOn /\ step' \in {"book", "age"} => WasOpen(asked)
      /\ WindowGoesOn /\ step' = "none" /\ answer'.status = "READY" => WasOpen(asked)
  <2>1. CASE SeriesReply
    BY <2>1 DEF SeriesReply
  <2>2. CASE MarketsReply
    BY <2>2 DEF MarketsReply, Return, NotOpen
  <2>3. CASE MarketReply
    BY <2>3 DEF MarketReply
  <2>4. CASE EventReply
    BY <2>4 DEF EventReply, Return
  <2>5. CASE StatusReply
    BY <2>5 DEF StatusReply, Return, NotOpen, Status, WindowGoesOn, WasOpen
  <2>6. CASE BookReply
    BY <2>6 DEF BookReply, ScanInv, BookIsOfAnOpenMarket
  <2>7. CASE Quoted
    BY <2>7 DEF Quoted, Return, ScanInv, BookIsOfAnOpenMarket
  <2>8. CASE Raises \/ Ambiguous
    BY <2>8 DEF Raises, Ambiguous, Return
  <2> QED BY <2>1, <2>2, <2>3, <2>4, <2>5, <2>6, <2>7, <2>8
       DEF Fetch, FetchFails, Answered, Refused
<1>4. ScanTypes'
  BY <1>1 DEF ScanInv, ScanTypes
<1>5. ProviderInStep'
  BY <1>1 DEF ScanInv, ProviderInStep, Scanned
<1>6. BookIsOfAnOpenMarket' /\ AnswerIsOfAnOpenMarket'
  BY <1>1, <1>3 DEF BookIsOfAnOpenMarket, AnswerIsOfAnOpenMarket, WindowGoesOn, WasOpen
<1>7. QuoteIsOfAnOpenMarket'
  BY <1>1 DEF ScanInv, QuoteIsOfAnOpenMarket
<1> QED BY <1>4, <1>5, <1>6, <1>7 DEF ScanInv

\* A scan begins with nothing quoted.
LEMMA BeginScanKeeps == ScanInv /\ BeginScan => ScanInv'
<1> SUFFICES ASSUME ScanInv, BeginScan PROVE ScanInv'
  OBVIOUS
<1>1. /\ UNCHANGED <<clock, market, closedAt, step, asked, answer, ctx>>
      /\ stage = "idle" /\ stage' = "asset" /\ at' = 1 /\ inst' = clock
  BY DEF BeginScan, provider
<1>2. ScanTypes' /\ ProviderInStep'
  BY <1>1 DEF ScanInv, ScanTypes, ProviderInStep
<1>3. BookIsOfAnOpenMarket' /\ AnswerIsOfAnOpenMarket'
  BY <1>1 DEF ScanInv, ProviderInStep, BookIsOfAnOpenMarket, AnswerIsOfAnOpenMarket
<1>4. QuoteIsOfAnOpenMarket'
  BY <1>1 DEF ScanInv, ProviderInStep, QuoteIsOfAnOpenMarket, NoContext
<1> QED BY <1>2, <1>3, <1>4 DEF ScanInv

\* The next asset's quote is asked for from the start.
LEMMA AskQuoteKeeps == ScanInv /\ AskQuote => ScanInv'
<1> SUFFICES ASSUME ScanInv, AskQuote PROVE ScanInv'
  OBVIOUS
<1>1. /\ UNCHANGED <<clock, market, inst, closedAt, at, ctx>>
      /\ at <= Len(AssetSeq) /\ stage' = "quote" /\ asked' = Scanned
      /\ step' \in {"status", "markets", "series"}
  BY DEF AskQuote, Ask
<1>2. Scanned \in EventAssets
  BY <1>1, ScannedIsAnAsset
<1>3. ScanTypes' /\ ProviderInStep'
  BY <1>1, <1>2 DEF ScanInv, ScanTypes, ProviderInStep, Scanned
<1>4. BookIsOfAnOpenMarket' /\ AnswerIsOfAnOpenMarket' /\ QuoteIsOfAnOpenMarket'
  BY <1>1 DEF ScanInv, BookIsOfAnOpenMarket, AnswerIsOfAnOpenMarket, QuoteIsOfAnOpenMarket
<1> QED BY <1>3, <1>4 DEF ScanInv

\* A context is kept of the asset whose quote was returned.
LEMMA ContextKeeps ==
  ASSUME ScanInv, stage \in {"quote", "fee"}, step = "none",
         NEW s, NEW fee, Done(s, fee), UNCHANGED <<clock, market, inst, closedAt>>
  PROVE  ScanInv'
<1>1. /\ UNCHANGED <<step, asked>> /\ stage' = "asset" /\ at' = at + 1
      /\ ctx' = [ctx EXCEPT ![Scanned] = [answer |-> answer, snap |-> s, fee |-> fee]]
  BY DEF Done, DoneTo
<1>2. asked = Scanned /\ asked \in EventAssets
  BY DEF ScanInv, ScanTypes, ProviderInStep
<1>3. ScanTypes'
  BY <1>1 DEF ScanInv, ScanTypes
<1>4. ProviderInStep' /\ BookIsOfAnOpenMarket' /\ AnswerIsOfAnOpenMarket'
  BY <1>1 DEF ProviderInStep, BookIsOfAnOpenMarket, AnswerIsOfAnOpenMarket
<1>5. QuoteIsOfAnOpenMarket'
  <2> SUFFICES ASSUME NEW a \in EventAssets, ctx'[a] # None,
                      ctx'[a].answer.status = "READY", WindowGoesOn
               PROVE  WasOpen(a)
    BY DEF QuoteIsOfAnOpenMarket, WindowGoesOn, WasOpen
  <2>1. CASE a = Scanned
    <3>1. ctx'[a].answer = answer
      BY <1>1, <2>1 DEF ScanInv, ScanTypes
    <3> QED BY <1>2, <2>1, <3>1 DEF ScanInv, AnswerIsOfAnOpenMarket
  <2>2. CASE a # Scanned
    <3>1. ctx'[a] = ctx[a]
      BY <1>1, <2>2 DEF ScanInv, ScanTypes
    <3> QED BY <3>1 DEF ScanInv, QuoteIsOfAnOpenMarket, WindowGoesOn, WasOpen
  <2> QED BY <2>1, <2>2
<1> QED BY <1>3, <1>4, <1>5 DEF ScanInv

\* Every step of a scan keeps the invariant.
LEMMA ScanNextKeeps == ScanInv /\ [ScanNext]_scanVars => ScanInv'
<1> SUFFICES ASSUME ScanInv, [ScanNext]_scanVars PROVE ScanInv'
  OBVIOUS
<1>1. CASE Unmapped \/ NoSnapshot
  <2>1. step = "none" /\ stage = "quote" /\ Done(None, "unknown")
    BY <1>1 DEF Unmapped, NoSnapshot
  <2>2. UNCHANGED <<clock, market, inst, closedAt>>
    BY <1>1 DEF Unmapped, NoSnapshot
  <2> QED BY <2>1, <2>2, ContextKeeps
<1>2. CASE VerifyFee \/ FeeFails
  <2>1. /\ stage = "fee" /\ UNCHANGED <<clock, market, inst, closedAt>>
        /\ \E fee : Done(snap, fee)
    BY <1>2 DEF VerifyFee, FeeFails
  <2>2. step = "none"
    BY <2>1 DEF ScanInv, ProviderInStep
  <2> QED BY <2>1, <2>2, ContextKeeps
<1>3. CASE Snapshot
  <2>1. /\ UNCHANGED <<clock, market, inst, closedAt, step, asked, answer, at, ctx>>
        /\ stage = "quote" /\ step = "none" /\ stage' = "fee"
    BY <1>3 DEF Snapshot, provider
  <2> QED BY <2>1 DEF ScanInv, ScanTypes, ProviderInStep, BookIsOfAnOpenMarket,
                      AnswerIsOfAnOpenMarket, QuoteIsOfAnOpenMarket, WindowGoesOn,
                      WasOpen, Scanned
<1>4. CASE Select
  <2>1. /\ UNCHANGED <<clock, market, inst, closedAt, step, asked, answer, at>>
        /\ stage = "asset" /\ stage' = "idle" /\ ctx' = NoContext
    BY <1>4 DEF Select
  <2>2. ScanTypes' /\ ProviderInStep' /\ BookIsOfAnOpenMarket' /\ AnswerIsOfAnOpenMarket'
    BY <2>1 DEF ScanInv, ScanTypes, ProviderInStep, BookIsOfAnOpenMarket,
                AnswerIsOfAnOpenMarket, NoContext
  <2>3. QuoteIsOfAnOpenMarket'
    BY <2>1 DEF QuoteIsOfAnOpenMarket, NoContext
  <2> QED BY <2>2, <2>3 DEF ScanInv
<1>5. CASE Escape
  <2>1. /\ UNCHANGED <<clock, market, inst, closedAt, asked, answer, at, ctx>>
        /\ stage' = "down" /\ step' = "none"
    BY <1>5 DEF Escape
  <2> QED BY <2>1 DEF ScanInv, ScanTypes, ProviderInStep, BookIsOfAnOpenMarket,
                      AnswerIsOfAnOpenMarket, QuoteIsOfAnOpenMarket
<1>6. CASE UNCHANGED scanVars
  BY <1>6 DEF scanVars, scan, provider, ScanInv, ScanTypes, ProviderInStep,
              BookIsOfAnOpenMarket, AnswerIsOfAnOpenMarket, QuoteIsOfAnOpenMarket,
              WindowGoesOn, WasOpen, Scanned
<1> QED BY <1>1, <1>2, <1>3, <1>4, <1>5, <1>6, ExchangeKeeps, ProviderKeeps,
           BeginScanKeeps, AskQuoteKeeps DEF ScanNext, ScanStep

\* A candidate is never judged on a quote of a market that closed before the
\* scan began, whatever mapping was cached and whenever the market closes.
THEOREM QuotedOpen == ScanSpec => []QuoteIsOfAnOpenMarket
<1>1. ScanInv => QuoteIsOfAnOpenMarket
  BY DEF ScanInv
<1> QED BY <1>1, ScanInitially, ScanNextKeeps, PTL DEF ScanSpec

=============================================================================
