-------------------------- MODULE ForwardStore_proofs --------------------------
(***************************************************************************)
(* Proofs about the forward store, for every set of identifiers and keys   *)
(* and every bound: its types, what an acknowledged row and the indexes    *)
(* can be relied on for (ForwardStore), what the SVI report and the audit  *)
(* make of the evidence (MCForwardStore, SVIEvidence), and what puts a     *)
(* specialist forward (SVIResearch).                                       *)
(*                                                                         *)
(* And about the programs that learn from a history (Backtest, Phases):    *)
(* what they read of it, what comes before what in the rows they learn     *)
(* from and judge on, and the order of the files they leave.  They are     *)
(* here because the two share what is known of finite sets and files.      *)
(***************************************************************************)
EXTENDS MCForwardStore, MCBacktest, JsonlLog_proofs, FiniteSetTheorems, SequenceTheorems

\* A file that no write has merged into has no rejected line but a torn tail.
OnlyTheTailIsBad ==
  ~merged => \A i \in DOMAIN file.lines :
               file.lines[i] = Bad => i = Len(file.lines) /\ file.torn

\* The indexes know every readable row, but those whose append raised.
IndexCoversDisk ==
  up => IdsOf(RowsOf(file)) \subseteq ids \cup doubted

\* The other half of IndexAgreesWithDisk.
IndexIsOnDisk ==
  up /\ ~merged => /\ ids \subseteq IdsOf(RowsOf(file))
                   /\ keys \subseteq KeysOf(RowsOf(file))

IInv ==
  /\ TypeOK
  /\ TornHasALine(file)
  /\ OnlyTheTailIsBad
  /\ AckedReadable
  /\ IndexCoversDisk
  /\ IndexIsOnDisk
  /\ DuplicatesNeedARetry

\* The inductive invariant holds of an empty directory.
LEMMA InitIInv == Init => IInv
<1> SUFFICES ASSUME Init PROVE IInv
  OBVIOUS
<1> USE DEF Init, EmptyFile
<1>1. TypeOK
  <2>1. <<>> \in Seq(Rows \cup {Bad})
    OBVIOUS
  <2>2. EmptyFile \in File(Rows)
    BY <2>1 DEF File
  <2>3. file \in File(Rows)
    BY <2>2
  <2> QED BY <2>3 DEF TypeOK
<1>2. TornHasALine(file)
  BY DEF TornHasALine
<1>3. OnlyTheTailIsBad /\ DuplicatesNeedARetry
  BY DEF OnlyTheTailIsBad, DuplicatesNeedARetry
<1>4. AckedReadable
  BY DEF AckedReadable
<1>5. IndexCoversDisk /\ IndexIsOnDisk
  BY DEF IndexCoversDisk, IndexIsOnDisk
<1> QED BY <1>1, <1>2, <1>3, <1>4, <1>5 DEF IInv

\* What the four writing steps have in common: the file as it was, or a write
\* of one row r, whole or cut short.
WriteOf(r) == file' = Written(file, r, TRUE) \/ file' \in Interrupted(file, r)

\* A write, whole or cut short, yields a well-typed file.
LEMMA WriteKeepsFile ==
  ASSUME IInv, NEW r \in Rows, WriteOf(r), merged' = (merged \/ Merges)
  PROVE  /\ file' \in File(Rows) /\ TornHasALine(file')
         /\ ~merged' => \/ file' = file
                        \/ ~file.torn /\ RowsOf(file) \subseteq RowsOf(file')
         /\ RowsOf(file') \subseteq RowsOf(file) \cup {r}
<1>1. file \in File(Rows) /\ TornHasALine(file)
  BY DEF IInv, TypeOK
<1>2. file' \in Interrupted(file, r)
  BY DEF WriteOf, Interrupted
<1>3. file' \in File(Rows) /\ TornHasALine(file')
  BY <1>1, <1>2, InterruptedType
<1>4. ~merged' => \/ file' = file
                  \/ ~file.torn /\ RowsOf(file) \subseteq RowsOf(file')
  <2>1. CASE file.torn
    BY <2>1 DEF Merges
  <2>2. CASE ~file.torn
    BY <2>2, <1>1, <1>2, InterruptedRows
  <2> QED BY <2>1, <2>2
<1>5. RowsOf(file') \subseteq RowsOf(file) \cup {r}
  <2> SUFFICES ASSUME NEW i \in DOMAIN file'.lines, file'.lines[i] # Bad
               PROVE  file'.lines[i] \in RowsOf(file) \cup {r}
    BY DEF RowsOf
  <2>1. \/ i \in DOMAIN file.lines /\ file'.lines[i] = file.lines[i]
        \/ file'.lines[i] = r
    BY <1>1, <1>2, InterruptedLines DEF AddsAtMost
  <2> QED BY <2>1 DEF RowsOf
<1> QED BY <1>3, <1>4, <1>5

\* Rejected lines stay where they are unless a write merges.
LEMMA WriteKeepsTail ==
  ASSUME IInv, NEW r \in Rows, WriteOf(r), merged' = (merged \/ Merges)
  PROVE  OnlyTheTailIsBad'
<1> SUFFICES ASSUME ~merged', NEW i \in DOMAIN file'.lines,
                    file'.lines[i] = Bad
             PROVE  i = Len(file'.lines) /\ file'.torn
  BY DEF OnlyTheTailIsBad
<1>1. file \in File(Rows) /\ ~merged
  BY DEF IInv, TypeOK
<1>2. r # Bad
  BY BadIsNoRow DEF Rows
<1>3. CASE file' = file
  BY <1>1, <1>3 DEF IInv, OnlyTheTailIsBad
<1>4. CASE ~file.torn /\ file' # file
  <2>1. \A j \in DOMAIN file.lines : file.lines[j] # Bad
    BY <1>1, <1>4 DEF IInv, OnlyTheTailIsBad
  <2>2. file.lines \in Seq(Rows \cup {Bad})
    BY <1>1 DEF File
  <2>3. PICK x \in {r, Bad}, nl \in BOOLEAN :
          /\ file' = [lines |-> Append(file.lines, x), torn |-> ~nl]
          /\ x = Bad => ~nl
    BY <1>4, <1>2 DEF WriteOf, Interrupted, Written
  <2>4. file'.lines = Append(file.lines, x) /\ (file'.torn <=> ~nl)
    BY <2>3
  <2>5. i = Len(file.lines) + 1
    BY <2>1, <2>2, <2>4
  <2>6. x = Bad
    BY <2>2, <2>4, <2>5
  <2>7. Len(file'.lines) = Len(file.lines) + 1
    BY <2>2, <2>4
  <2>8. ~nl
    BY <2>3, <2>6
  <2> QED BY <2>4, <2>5, <2>7, <2>8
<1>5. CASE file.torn /\ file' # file
  BY <1>5 DEF Merges
<1> QED BY <1>3, <1>4, <1>5

\* Two lines get equal identifiers only as DuplicatesNeedARetry allows.
LEMMA WriteKeepsIds ==
  ASSUME IInv, NEW r \in Rows, WriteOf(r), up, r.id \notin ids,
         doubted \subseteq doubted'
  PROVE  DuplicatesNeedARetry'
<1> SUFFICES ASSUME NEW i \in DOMAIN file'.lines, NEW j \in DOMAIN file'.lines,
                    i # j, file'.lines[i] # Bad, file'.lines[j] # Bad,
                    file'.lines[i].id = file'.lines[j].id
             PROVE  file'.lines[i].id \in doubted
  BY DEF DuplicatesNeedARetry
<1>1. file \in File(Rows) /\ TornHasALine(file)
  BY DEF IInv, TypeOK
<1>2. file' \in Interrupted(file, r)
  BY DEF WriteOf, Interrupted
<1> DEFINE Old(k) == k \in DOMAIN file.lines /\ file'.lines[k] = file.lines[k]
           New(k) == k = Len(file.lines) + 1 /\ file'.lines[k] = r
<1>3. Old(i) \/ New(i)
  BY <1>1, <1>2, InterruptedLines DEF AddsAtMost
<1>4. Old(j) \/ New(j)
  BY <1>1, <1>2, InterruptedLines DEF AddsAtMost
<1>5. \A k \in DOMAIN file.lines :
        file.lines[k] # Bad /\ file.lines[k].id = r.id => r.id \in doubted
  BY DEF IInv, IndexCoversDisk, IdsOf, RowsOf
<1>6. CASE Old(i) /\ Old(j)
  BY <1>6 DEF IInv, DuplicatesNeedARetry
<1>7. CASE Old(i) /\ New(j)
  BY <1>5, <1>7
<1>8. CASE New(i) /\ Old(j)
  BY <1>5, <1>8
<1> QED BY <1>3, <1>4, <1>6, <1>7, <1>8

-----------------------------------------------------------------------------
\* Every step of the store keeps the inductive invariant.
LEMMA NextIInv == IInv /\ [Next]_vars => IInv'
<1> SUFFICES ASSUME IInv, [Next]_vars PROVE IInv'
  OBVIOUS
<1>1. CASE Open
  <2> USE <1>1 DEF Open
  <2>1. TypeOK'
    BY DEF IInv, TypeOK, IdsOf, KeysOf, RowsOf, Rows, File
  <2>2. IndexCoversDisk' /\ IndexIsOnDisk'
    BY DEF IndexCoversDisk, IndexIsOnDisk
  <2>3. (TornHasALine(file) /\ OnlyTheTailIsBad /\ AckedReadable
          /\ DuplicatesNeedARetry)'
    BY DEF IInv, TornHasALine, OnlyTheTailIsBad, AckedReadable,
           DuplicatesNeedARetry
  <2> QED BY <2>1, <2>2, <2>3 DEF IInv
<1>2. ASSUME NEW r \in Rows, AppendRow(r) PROVE IInv'
  <2> USE <1>2 DEF AppendRow
  <2>1. WriteOf(r)
    BY DEF WriteOf
  <2>2. /\ file' \in File(Rows) /\ TornHasALine(file')
        /\ ~merged' => \/ file' = file
                       \/ ~file.torn /\ RowsOf(file) \subseteq RowsOf(file')
        /\ RowsOf(file') \subseteq RowsOf(file) \cup {r}
    BY <2>1, WriteKeepsFile
  <2>3. ~merged' => ~file.torn /\ RowsOf(file') = RowsOf(file) \cup {r}
    <3>0. file'.torn = FALSE
      BY DEF Written
    <3>1. file' # file \/ ~file.torn
      BY <3>0
    <3>2. r # Bad /\ file \in File(Rows)
      BY BadIsNoRow DEF Rows, IInv, TypeOK
    <3>3. ~file.torn => RowsOf(file') = RowsOf(file) \cup ({r} \ {Bad})
      BY <3>2, WrittenRows
    <3> QED BY <3>1, <3>2, <3>3 DEF Merges
  <2>4. r.id \in Ids /\ r.key \in Keys
    BY DEF Rows
  <2>5. TypeOK'
    BY <2>2, <2>4 DEF IInv, TypeOK
  <2>6. AckedReadable' /\ IndexIsOnDisk'
    BY <2>3 DEF IInv, AckedReadable, IndexIsOnDisk, IdsOf, KeysOf
  <2>7. IndexCoversDisk'
    BY <2>2 DEF IInv, IndexCoversDisk, IdsOf
  <2>8. OnlyTheTailIsBad' /\ DuplicatesNeedARetry'
    BY <2>1, WriteKeepsTail, WriteKeepsIds
  <2> QED BY <2>2, <2>5, <2>6, <2>7, <2>8 DEF IInv
<1>3. ASSUME NEW r \in Rows, AppendError(r) PROVE IInv'
  <2> USE <1>3 DEF AppendError
  <2>1. WriteOf(r) /\ doubted \subseteq doubted'
    BY DEF WriteOf
  <2>2. /\ file' \in File(Rows) /\ TornHasALine(file')
        /\ ~merged' => \/ file' = file
                       \/ ~file.torn /\ RowsOf(file) \subseteq RowsOf(file')
        /\ RowsOf(file') \subseteq RowsOf(file) \cup {r}
    BY <2>1, WriteKeepsFile
  <2>3. r.id \in Ids
    BY DEF Rows
  <2>4. TypeOK'
    BY <2>2, <2>3 DEF IInv, TypeOK
  <2>5. AckedReadable' /\ IndexIsOnDisk'
    BY <2>2 DEF IInv, AckedReadable, IndexIsOnDisk, IdsOf, KeysOf
  <2>6. IndexCoversDisk'
    BY <2>2 DEF IInv, IndexCoversDisk, IdsOf
  <2>7. OnlyTheTailIsBad' /\ DuplicatesNeedARetry'
    BY <2>1, WriteKeepsTail, WriteKeepsIds
  <2> QED BY <2>2, <2>4, <2>5, <2>6, <2>7 DEF IInv
<1>4. CASE Crash
  <2> USE <1>4 DEF Crash
  <2>1. CASE file' = file
    <3>1. TypeOK'
      BY <2>1 DEF IInv, TypeOK, Merges
    <3> QED BY <2>1, <3>1
      DEF IInv, TornHasALine, OnlyTheTailIsBad, AckedReadable, IndexCoversDisk,
          IndexIsOnDisk, DuplicatesNeedARetry, Merges
  <2>2. CASE file' # file
    <3>1. PICK r \in Rows : r.id \notin ids /\ file' \in Interrupted(file, r)
      BY <2>2
    <3>2. WriteOf(r)
      BY <3>1 DEF WriteOf
    <3>3. /\ file' \in File(Rows) /\ TornHasALine(file')
          /\ ~merged' => \/ file' = file
                         \/ ~file.torn /\ RowsOf(file) \subseteq RowsOf(file')
      BY <3>2, WriteKeepsFile
    <3>4. TypeOK'
      BY <3>3 DEF IInv, TypeOK
    <3>5. AckedReadable'
      BY <3>3 DEF IInv, AckedReadable
    <3>6. IndexCoversDisk' /\ IndexIsOnDisk'
      BY DEF IndexCoversDisk, IndexIsOnDisk
    <3>7. OnlyTheTailIsBad' /\ DuplicatesNeedARetry'
      BY <3>1, <3>2, WriteKeepsTail, WriteKeepsIds
    <3> QED BY <3>3, <3>4, <3>5, <3>6, <3>7 DEF IInv
  <2> QED BY <2>1, <2>2
<1>5. CASE UNCHANGED vars
  BY <1>5 DEF vars, IInv, TypeOK, TornHasALine, OnlyTheTailIsBad, AckedReadable,
    IndexCoversDisk, IndexIsOnDisk, DuplicatesNeedARetry
<1> QED BY <1>1, <1>2, <1>3, <1>4, <1>5 DEF Next

\* The inductive invariant holds in every behaviour.
LEMMA Invariance == Spec => []IInv
BY InitIInv, NextIInv, PTL DEF Spec

-----------------------------------------------------------------------------
\* The values of the variables stay in their ranges.
THEOREM TypeCorrect == Spec => []TypeOK
<1>1. IInv => TypeOK
  BY DEF IInv
<1> QED BY <1>1, Invariance, PTL

\* A row whose append returned True stays readable, across crashes, restarts
\* and failed appends, until a write lands on a torn tail.
THEOREM Durability == Spec => []AckedReadable
<1>1. IInv => AckedReadable
  BY DEF IInv
<1> QED BY <1>1, Invariance, PTL

\* The indexes in memory agree with what a restart would load.
THEOREM IndexAgreement == Spec => []IndexAgreesWithDisk
<1>1. IInv => IndexAgreesWithDisk
  BY DEF IInv, IndexAgreesWithDisk, IndexCoversDisk, IndexIsOnDisk
<1> QED BY <1>1, Invariance, PTL

\* Restarts and crashes alone never duplicate an identifier.
THEOREM NoDuplicates == Spec => []DuplicatesNeedARetry
<1>1. IInv => DuplicatesNeedARetry
  BY DEF IInv
<1> QED BY <1>1, Invariance, PTL

\* The store can be opened as long as no write has landed on a torn tail.
THEOREM Openable == Spec => []MalformedNeedsAMerge
<1>1. ASSUME IInv PROVE MalformedNeedsAMerge
  <2>1. file.lines \in Seq(Rows \cup {Bad})
    BY <1>1 DEF IInv, TypeOK, File
  <2> SUFFICES ASSUME NEW i \in 1 .. Len(file.lines) - 1, file.lines[i] = Bad
               PROVE  merged
    BY DEF MalformedNeedsAMerge, Malformed
  <2>2. i \in DOMAIN file.lines /\ i # Len(file.lines)
    BY <2>1
  <2> QED BY <1>1, <2>2 DEF IInv, OnlyTheTailIsBad
<1> QED BY <1>1, Invariance, PTL

\* No step removes a readable row, except a write onto a torn tail.
THEOREM RowsNeverLeave == Spec => RowsStay
<1>1. IInv /\ [Next]_vars => [RowsOf(file) \subseteq RowsOf(file') \/ file.torn]_vars
  <2> SUFFICES ASSUME IInv, Next, ~file.torn
               PROVE  RowsOf(file) \subseteq RowsOf(file')
    OBVIOUS
  <2>1. file \in File(Rows)
    BY DEF IInv, TypeOK
  <2>2. CASE file' = file
    BY <2>2
  <2>3. CASE \E r \in Rows : file' \in Interrupted(file, r)
    BY <2>1, <2>3, InterruptedRows
  <2>4. \/ file' = file
        \/ \E r \in Rows : file' \in Interrupted(file, r)
    BY DEF Next, Open, AppendRow, AppendError, Crash, Interrupted
  <2> QED BY <2>2, <2>3, <2>4
<1> QED BY <1>1, Invariance, PTL DEF Spec, RowsStay

-----------------------------------------------------------------------------
\* The evidence of SVI: what an event may hold.

\* The evidence file is written and read as any other.
LEMMA SameLog ==
  /\ \A f, x, nl : Evidence!Written(f, x, nl) = Written(f, x, nl)
  /\ \A f, row : Evidence!Interrupted(f, row) = Interrupted(f, row)
  /\ \A f : Evidence!RowsOf(f) = RowsOf(f) /\ Evidence!Malformed(f) = Malformed(f)
<1>1. \A f, x, nl : Evidence!Written(f, x, nl) = Written(f, x, nl)
  BY DEF Evidence!Written, Written
<1>2. \A f, row : Evidence!Interrupted(f, row) = Interrupted(f, row)
  BY <1>1 DEF Evidence!Interrupted, Interrupted
<1>3. \A f : Evidence!RowsOf(f) = RowsOf(f) /\ Evidence!Malformed(f) = Malformed(f)
  BY DEF Evidence!RowsOf, RowsOf, Evidence!Malformed, Malformed
<1> QED BY <1>1, <1>2, <1>3

\* Window is a number to divide by.
LEMMA WindowIsPositive == Window \in Nat \ {0} /\ MaxTime \in Nat
<1>1. Window \in Nat /\ Window > 0 /\ MaxTime \in Nat
  BY EvidenceAssumption DEF Evidence!EvidenceBounds
<1> QED BY <1>1

\* Later instants are of no earlier windows.
LEMMA WindowsFollow ==
  ASSUME NEW t \in Nat, NEW u \in Nat, t <= u
  PROVE  t \div Window \in Nat /\ u \div Window \in Nat /\ t \div Window <= u \div Window
<1> DEFINE a == t \div Window
           b == u \div Window
<1>1. Window \in Nat \ {0}
  BY WindowIsPositive
<1>2. /\ a \in Nat /\ a * Window <= t /\ t < (a + 1) * Window
      /\ b \in Nat /\ b * Window <= u /\ u < (b + 1) * Window
  BY <1>1
<1> HIDE DEF a, b
<1>3. a <= b
  <2> SUFFICES ASSUME ~(a <= b) PROVE FALSE
    OBVIOUS
  <2>1. PICK k \in Nat : a = (b + 1) + k
    <3>1. a - (b + 1) \in Nat /\ a = (b + 1) + (a - (b + 1))
      BY <1>2
    <3> QED BY <3>1
  <2>2. a * Window = (b + 1) * Window + k * Window
    BY <1>1, <1>2, <2>1
  <2>3. k * Window \in Nat /\ a * Window \in Nat /\ (b + 1) * Window \in Nat
    BY <1>1, <1>2, <2>1
  <2> QED BY <1>2, <2>2, <2>3
<1> QED BY <1>2, <1>3 DEF a, b

\* A candidate is of a row; one without a contract is of a placeholder, and
\* abstains.
LEMMA CandidatesOfRows ==
  ASSUME NEW R, NEW failing, NEW c \in Evidence!Evaluation(R, failing).candidates,
         \A r \in R : r.contract = NONE => r.side = NONE /\ r.book = NONE
  PROVE  /\ \E r \in R : c.contract = r.contract
         /\ c.contract = NONE => c.side = "ABSTAIN"
         /\ c.role = "SHADOW" => c.rank = NONE /\ c.disposition = "SHADOW_ONLY"
         /\ c.role = "BENCHMARK" => c.rank = NONE /\ c.disposition = "BENCHMARK_ONLY"
<1> DEFINE given == UNION {Evidence!Analyzed(a, R) : a \in Evidence!Agents \ failing}
           advisory == {d \in given : Evidence!Roles[d.agent] = "ADVISORY"}
           entry(d) ==
             CASE Evidence!Roles[d.agent] = "BENCHMARK" ->
                    Evidence!Entry(d, "BENCHMARK", NONE, "BENCHMARK_ONLY")
               [] Evidence!Roles[d.agent] = "SHADOW" ->
                    Evidence!Entry(d, "SHADOW", NONE, "SHADOW_ONLY")
               [] OTHER ->
                    Evidence!Entry(d, "ADVISORY", Evidence!Rank(d, advisory),
                                   IF Evidence!Allowed(d) THEN "ALLOW_REVIEW" ELSE "BLOCK")
<1>1. Evidence!Evaluation(R, failing).candidates = {entry(d) : d \in given}
  BY DEF Evidence!Evaluation
<1>2. PICK d \in given : c = entry(d)
  BY <1>1
<1>3. /\ c.contract = d.contract /\ c.side = d.side
      /\ c.role = "SHADOW" => c.rank = NONE /\ c.disposition = "SHADOW_ONLY"
      /\ c.role = "BENCHMARK" => c.rank = NONE /\ c.disposition = "BENCHMARK_ONLY"
  BY <1>2 DEF Evidence!Entry
<1>4. PICK a \in Evidence!Agents \ failing : d \in Evidence!Analyzed(a, R)
  OBVIOUS
<1>5. /\ \E r \in R : d.contract = r.contract
      /\ d.contract = NONE => d.side = "ABSTAIN"
  <2>1. CASE d \in Evidence!Mantis(R)
    <3>1. PICK r \in R : d = Evidence!Candidate("MANTIS", r,
                               IF r.side = NONE THEN "ABSTAIN" ELSE r.side,
                               Evidence!Known(r.p), Evidence!Known(r.lcb), r.ask, r.valid)
      BY <2>1 DEF Evidence!Mantis
    <3> QED BY <3>1 DEF Evidence!Candidate
  <2>2. CASE d \in Evidence!Benchmark(R)
    <3>1. PICK r \in R : /\ r.book # NONE
                         /\ d = Evidence!Likelier("KALSHI_MARKET_IMPLIED", r,
                                                  Evidence!Midpoint(r.book), TRUE)
      BY <2>2 DEF Evidence!Benchmark
    <3> QED BY <3>1 DEF Evidence!Likelier, Evidence!Candidate
  <2>3. CASE d \in Evidence!Shadow(R)
    <3>1. PICK r \in R : /\ r.contract # NONE
                         /\ d = Evidence!Likelier("REFERENCE_DISTANCE_SHADOW", r,
                                                  Evidence!Logistic(r.distance), FALSE)
      BY <2>3 DEF Evidence!Shadow
    <3> QED BY <3>1 DEF Evidence!Likelier, Evidence!Candidate
  <2> QED BY <1>4, <2>1, <2>2, <2>3 DEF Evidence!Analyzed
<1> QED BY <1>3, <1>5

\* What is summarised is of advisory specialists.
LEMMA ConsensusIsAdvisory ==
  ASSUME NEW R, NEW failing, NEW s \in Evidence!Evaluation(R, failing).consensus
  PROVE  /\ s.actionable = FALSE
         /\ \A a \in s.agents : Evidence!Roles[a] = "ADVISORY"
<1>1. \E d : Evidence!Roles[d.agent] = "ADVISORY" /\ s = Evidence!Summary(d)
  BY DEF Evidence!Evaluation
<1> QED BY <1>1 DEF Evidence!Summary

\* The window of an instant has a contract of each asset.
LEMMA ContractOf ==
  ASSUME NEW t \in 0 .. MaxTime, NEW a \in Evidence!Assets
  PROVE  /\ [asset |-> a, win |-> t \div Window] \in Evidence!Contracts
         /\ [asset |-> a, win |-> t \div Window] # NONE
<1>1. t \in Nat /\ t <= MaxTime /\ MaxTime \in Nat
  BY WindowIsPositive
<1>2. /\ t \div Window \in Nat /\ MaxTime \div Window \in Nat
      /\ t \div Window <= MaxTime \div Window
  BY <1>1, WindowsFollow
<1>3. t \div Window \in 0 .. MaxTime \div Window
  BY <1>2
<1>4. [asset |-> a, win |-> t \div Window] \in Evidence!Contracts
  BY <1>3 DEF Evidence!Contracts
<1> QED BY <1>4, EvidenceAssumption DEF Evidence!EvidenceBounds

\* The rows of an event: a row without a contract is a placeholder.
LEMMA RowsOfEvents ==
  ASSUME NEW t \in 0 .. MaxTime, NEW pass \in Passes, NEW a \in Evidence!Assets
  PROVE  LET r == Evidence!Row(t, a, pass.selection[a])
         IN  /\ r.contract = NONE => r.side = NONE /\ r.book = NONE
             /\ r.contract # NONE => r.contract = [asset |-> a, win |-> t \div Window]
<1>1. [asset |-> a, win |-> t \div Window] # NONE
  BY ContractOf
<1>2. pass.selection[a].side = NONE => pass.selection[a].book = NONE
  BY PassesAssumption DEF Evidence!PassesAreReal
<1> QED BY <1>1, <1>2 DEF Evidence!Row

\* What is on file of a pass is an evaluation of such rows.
LEMMA EventOfRows ==
  ASSUME NEW e \in Evidence!Events
  PROVE  /\ e # Bad
         /\ \E t \in 0 .. MaxTime, pass \in Passes :
              LET R == {Evidence!Row(t, a, pass.selection[a]) : a \in Evidence!Assets}
              IN  /\ e = [at |-> t, body |-> Evidence!Evaluation(R, pass.failing)]
                  /\ \A r \in R :
                       /\ r.contract = NONE => r.side = NONE /\ r.book = NONE
                       /\ r.contract # NONE => r.contract.win = t \div Window
<1>1. PICK t \in 0 .. MaxTime, pass \in Passes : e = Evidence!Event(t, pass)
  BY DEF Evidence!Events
<1> DEFINE R == {Evidence!Row(t, a, pass.selection[a]) : a \in Evidence!Assets}
<1>2. e = [at |-> t, body |-> Evidence!Evaluation(R, pass.failing)]
  BY <1>1 DEF Evidence!Event
<1>3. ASSUME NEW r \in R
      PROVE  /\ r.contract = NONE => r.side = NONE /\ r.book = NONE
             /\ r.contract # NONE => r.contract.win = t \div Window
  <2>1. PICK a \in Evidence!Assets : r = Evidence!Row(t, a, pass.selection[a])
    OBVIOUS
  <2>2. /\ r.contract = NONE => r.side = NONE /\ r.book = NONE
        /\ r.contract # NONE => r.contract = [asset |-> a, win |-> t \div Window]
    BY <2>1, RowsOfEvents
  <2>3. [asset |-> a, win |-> t \div Window].win = t \div Window
    OBVIOUS
  <2> HIDE DEF R
  <2> QED BY <2>2, <2>3
<1>4. e # Bad
  BY PassesAssumption DEF Evidence!PassesAreReal
<1> QED BY <1>2, <1>3, <1>4

\* The audit of such an event finds at most the placeholders.
LEMMA EventsPass ==
  ASSUME NEW e \in Evidence!Events
  PROVE  Evidence!EventErrors(e.body) \subseteq
           IF \E c \in e.body.candidates : c.side = "ABSTAIN"
             THEN {"MISSING_CONTRACT_ID"} ELSE {}
<1>1. PICK t \in 0 .. MaxTime, pass \in Passes :
        LET R == {Evidence!Row(t, a, pass.selection[a]) : a \in Evidence!Assets}
        IN  /\ e = [at |-> t, body |-> Evidence!Evaluation(R, pass.failing)]
            /\ \A r \in R : r.contract = NONE => r.side = NONE /\ r.book = NONE
  BY EventOfRows
<1> DEFINE R == {Evidence!Row(t, a, pass.selection[a]) : a \in Evidence!Assets}
           body == Evidence!Evaluation(R, pass.failing)
<1>2. e.body = body /\ \A r \in R : r.contract = NONE => r.side = NONE /\ r.book = NONE
  BY <1>1
<1> HIDE DEF R
<1>3. \A c \in body.candidates :
        /\ c.contract = NONE => c.side = "ABSTAIN"
        /\ c.role = "SHADOW" => c.rank = NONE /\ c.disposition = "SHADOW_ONLY"
        /\ c.role = "BENCHMARK" => c.rank = NONE /\ c.disposition = "BENCHMARK_ONLY"
  BY <1>2, CandidatesOfRows
<1>4. \A s \in body.consensus :
        s.actionable = FALSE /\ \A a \in s.agents : Evidence!Roles[a] = "ADVISORY"
  BY ConsensusIsAdvisory
<1> HIDE DEF body
<1> SUFFICES ASSUME NEW x \in Evidence!EventErrors(body)
             PROVE  x = "MISSING_CONTRACT_ID" /\ \E c \in body.candidates : c.side = "ABSTAIN"
  BY <1>2
<1>5. x # "CONSENSUS_MUST_BE_NON_ACTIONABLE"
  BY <1>4 DEF Evidence!EventErrors
<1>6. x # "BENCHMARK_INCLUDED_IN_CONSENSUS" /\ x # "SHADOW_INCLUDED_IN_CONSENSUS"
  BY <1>4 DEF Evidence!EventErrors
<1>7. x # "SHADOW_MUST_BE_UNRANKED"
  BY <1>3 DEF Evidence!EventErrors
<1>8. x # "BENCHMARK_MUST_BE_UNRANKED"
  BY <1>3 DEF Evidence!EventErrors
<1>9. x = "MISSING_CONTRACT_ID"
  BY <1>5, <1>6, <1>7, <1>8 DEF Evidence!EventErrors
<1>10. \E c \in body.candidates : c.contract = NONE
  BY <1>9 DEF Evidence!EventErrors
<1> QED BY <1>3, <1>9, <1>10

-----------------------------------------------------------------------------
\* The evidence of SVI: what the report rests on.

\* The forecasts of verified contracts in some lines, the latest of each kind.
ResolvedOf(lines) ==
  {Evidence!Resolved(m) : m \in {m \in Evidence!Latest(lines) : Evidence!Verified(m.contract)}}

EvidenceTypeOK ==
  /\ events \in File(Evidence!Events) /\ TornHasALine(events) /\ made \in Seq(Evidence!Events)
  /\ IsFiniteSet(rows) /\ \A r \in rows : r.contract \in Evidence!Contracts
  /\ count \in Nat /\ seen \in Int /\ seen <= count
  /\ now \in 0 .. MaxTime /\ at \in 0 .. MaxTime /\ at <= now

\* Until a line is merged, the file is what was made, and perhaps a torn rest.
FileIsMade ==
  ~joined => \/ events.lines = made
             \/ events.torn /\ events.lines = Append(made, Bad)

\* What is resolved had ended when the scan began.
ResolvedHadEnded == \A r \in rows : r.contract.win < at \div Window

\* The report that is kept is the one that would be made now.
ReportIsKept ==
  ~unacked /\ ~joined /\ seen = count => report.resolved = ResolvedOf(made)

\* The screen has the report.
PanelHasReport == pc = "published" => panel = report /\ seen = count

EvidenceInv ==
  EvidenceTypeOK /\ FileIsMade /\ ResolvedHadEnded /\ ReportIsKept /\ PanelHasReport

\* A new line that speaks of no verified contract changes nothing in the report.
LEMMA UnresolvedLine ==
  ASSUME NEW S, NEW lines \in Seq(S), NEW x,
         \A n \in Evidence!Forecasts(x) : ~Evidence!Verified(n.contract)
  PROVE  ResolvedOf(Append(lines, x)) = ResolvedOf(lines)
<1> DEFINE more == Append(lines, x)
           last(s, i, m) == \A j \in i + 1 .. Len(s) : \A n \in Evidence!Forecasts(s[j]) :
                              Evidence!Key(n) = Evidence!Key(m) => n.at < m.at
           told(s) == {m \in Evidence!Latest(s) : Evidence!Verified(m.contract)}
<1>1. /\ Len(more) = Len(lines) + 1 /\ Len(lines) \in Nat
      /\ DOMAIN lines = 1 .. Len(lines) /\ DOMAIN more = 1 .. Len(more)
      /\ \A i \in 1 .. Len(lines) : more[i] = lines[i]
      /\ more[Len(more)] = x
  BY AppendProperties
<1>2. \A s : \A m : m \in Evidence!Latest(s) <=>
               \E i \in DOMAIN s : m \in Evidence!Forecasts(s[i]) /\ last(s, i, m)
  BY DEF Evidence!Latest
<1>3. \A m, n : Evidence!Key(n) = Evidence!Key(m) => n.contract = m.contract
  BY DEF Evidence!Key
<1> HIDE DEF more
<1>4. ASSUME NEW m, m \in told(lines) PROVE m \in told(more)
  <2>1. PICK i \in 1 .. Len(lines) : m \in Evidence!Forecasts(lines[i]) /\ last(lines, i, m)
    BY <1>1, <1>2, <1>4
  <2>2. i \in DOMAIN more /\ m \in Evidence!Forecasts(more[i])
    BY <1>1, <2>1
  <2>3. last(more, i, m)
    <3> SUFFICES ASSUME NEW j \in i + 1 .. Len(more), NEW n \in Evidence!Forecasts(more[j]),
                        Evidence!Key(n) = Evidence!Key(m)
                 PROVE  n.at < m.at
      OBVIOUS
    <3>1. CASE j = Len(more)
      BY <1>1, <1>3, <1>4, <3>1
    <3>2. CASE j # Len(more)
      <4>1. j \in i + 1 .. Len(lines) /\ more[j] = lines[j]
        BY <1>1, <3>2
      <4> QED BY <2>1, <4>1
    <3> QED BY <3>1, <3>2
  <2>4. m \in Evidence!Latest(more)
    BY <1>2, <2>2, <2>3
  <2> QED BY <1>4, <2>4
<1>5. ASSUME NEW m, m \in told(more) PROVE m \in told(lines)
  <2>1. PICK i \in 1 .. Len(more) : m \in Evidence!Forecasts(more[i]) /\ last(more, i, m)
    BY <1>1, <1>2, <1>5
  <2>2. i # Len(more)
    BY <1>1, <1>5, <2>1
  <2>3. i \in 1 .. Len(lines) /\ m \in Evidence!Forecasts(lines[i])
    BY <1>1, <2>1, <2>2
  <2>4. last(lines, i, m)
    <3> SUFFICES ASSUME NEW j \in i + 1 .. Len(lines), NEW n \in Evidence!Forecasts(lines[j]),
                        Evidence!Key(n) = Evidence!Key(m)
                 PROVE  n.at < m.at
      OBVIOUS
    <3>1. j \in i + 1 .. Len(more) /\ more[j] = lines[j]
      BY <1>1, <2>3
    <3> QED BY <2>1, <3>1
  <2>5. m \in Evidence!Latest(lines)
    BY <1>1, <1>2, <2>3, <2>4
  <2> QED BY <1>5, <2>5
<1>6. told(more) = told(lines)
  BY <1>4, <1>5
<1> QED BY <1>6 DEF ResolvedOf, more

\* What the sums and counts of the evidence are made of is finite.
LEMMA FiniteContracts == IsFiniteSet(Evidence!Contracts)
<1> DEFINE A == Evidence!Assets
           W == 0 .. MaxTime \div Window
           place == [i \in 1 .. Len(Scanned) |-> Scanned[i]]
           pair == [p \in A \X W |-> [asset |-> p[1], win |-> p[2]]]
<1>1. Scanned \in Seq(A) /\ Len(Scanned) \in Nat /\ DOMAIN Scanned = 1 .. Len(Scanned)
  BY EvidenceAssumption DEF Evidence!EvidenceBounds
<1>2. A = {Scanned[i] : i \in 1 .. Len(Scanned)}
  BY <1>1 DEF Evidence!Assets, Evidence!Range
<1>3. IsFiniteSet(A)
  <2>1. IsFiniteSet(1 .. Len(Scanned))
    BY <1>1, FS_Interval
  <2>2. place \in Surjection(1 .. Len(Scanned), A)
    BY <1>2 DEF Surjection
  <2> QED BY <2>1, <2>2, FS_Surjection
<1>4. MaxTime \div Window \in Nat
  BY WindowIsPositive, WindowsFollow
<1>5. IsFiniteSet(W)
  BY <1>4, FS_Interval
<1>6. IsFiniteSet(A \X W)
  BY <1>3, <1>5, FS_Product
<1>7. Evidence!Contracts = [asset : A, win : W]
  BY DEF Evidence!Contracts
<1>8. pair \in Surjection(A \X W, Evidence!Contracts)
  <2> HIDE DEF A, W
  <2>1. pair \in [A \X W -> Evidence!Contracts]
    BY <1>7
  <2>2. ASSUME NEW c \in Evidence!Contracts PROVE \E p \in A \X W : pair[p] = c
    <3>1. <<c.asset, c.win>> \in A \X W /\ c = [asset |-> c.asset, win |-> c.win]
      BY <1>7
    <3>2. pair[<<c.asset, c.win>>] = c
      BY <3>1
    <3> QED BY <3>1, <3>2
  <2> QED BY <2>1, <2>2 DEF Surjection
<1> QED BY <1>6, <1>8, FS_Surjection

\* A forecast is of the window in which its event was made.
LEMMA ForecastsOfEvents ==
  ASSUME NEW e \in Evidence!Events, NEW n \in Evidence!Forecasts(e)
  PROVE  n.contract.win = e.at \div Window
<1>1. PICK t \in 0 .. MaxTime, pass \in Passes :
        LET R == {Evidence!Row(t, a, pass.selection[a]) : a \in Evidence!Assets}
        IN  /\ e = [at |-> t, body |-> Evidence!Evaluation(R, pass.failing)]
            /\ \A r \in R :
                 /\ r.contract = NONE => r.side = NONE /\ r.book = NONE
                 /\ r.contract # NONE => r.contract.win = t \div Window
  BY EventOfRows
<1> DEFINE R == {Evidence!Row(t, a, pass.selection[a]) : a \in Evidence!Assets}
           body == Evidence!Evaluation(R, pass.failing)
<1>2. /\ e = [at |-> t, body |-> body]
      /\ \A r \in R : /\ r.contract = NONE => r.side = NONE /\ r.book = NONE
                      /\ r.contract # NONE => r.contract.win = t \div Window
  BY <1>1
<1> HIDE DEF R
<1>3. \A c \in body.candidates : \E r \in R : c.contract = r.contract
  BY <1>2, CandidatesOfRows
<1> HIDE DEF body
<1>4. e # Bad /\ e.at = t /\ e.body = body
  BY <1>2, EventOfRows
<1>5. PICK c \in body.candidates : c.contract # NONE /\ n.contract = c.contract
  BY <1>4 DEF Evidence!Forecasts
<1>6. PICK r \in R : c.contract = r.contract
  BY <1>3
<1> QED BY <1>2, <1>4, <1>5, <1>6

\* Nothing that is made during a scan has been resolved.
LEMMA NothingYetResolved ==
  ASSUME EvidenceTypeOK, ResolvedHadEnded, NEW e \in Evidence!Events, e.at = at
  PROVE  \A n \in Evidence!Forecasts(e) : ~Evidence!Verified(n.contract)
<1> SUFFICES ASSUME NEW n \in Evidence!Forecasts(e), NEW r \in rows, r.contract = n.contract
             PROVE  FALSE
  BY DEF Evidence!Verified
<1>1. n.contract.win = at \div Window
  BY ForecastsOfEvents
<1>2. r.contract.win < at \div Window
  BY DEF ResolvedHadEnded
<1>3. at \div Window \in Nat
  BY WindowIsPositive, WindowsFollow DEF EvidenceTypeOK
<1> QED BY <1>1, <1>2, <1>3

\* A rejected line says nothing.
LEMMA BadSaysNothing ==
  ASSUME NEW S, NEW lines \in Seq(S)
  PROVE  ResolvedOf(Append(lines, Bad)) = ResolvedOf(lines)
<1>1. Evidence!Forecasts(Bad) = {}
  BY DEF Evidence!Forecasts
<1> QED BY <1>1, UnresolvedLine

\* The report depends on the resolutions and the lines alone.
LEMMA SameResolutions ==
  ASSUME rows' = rows
  PROVE  ResolvedOf(made)' = ResolvedOf(made')
<1>1. \A c : Evidence!Verified(c)' <=> Evidence!Verified(c)
  BY DEF Evidence!Verified
<1>2. \A c : Evidence!Outcome(c)' = Evidence!Outcome(c)
  BY DEF Evidence!Outcome
<1>3. \A m : Evidence!Resolved(m)' = Evidence!Resolved(m)
  BY <1>2 DEF Evidence!Resolved
<1> QED BY <1>1, <1>3 DEF ResolvedOf, Evidence!Latest

\* Nothing of the evidence is there at the first start.
LEMMA EvidenceInitially == Evidence!SviInit => EvidenceInv
<1> SUFFICES ASSUME Evidence!SviInit PROVE EvidenceInv
  OBVIOUS
<1> USE DEF Evidence!SviInit, Evidence!EmptyFile
<1>1. EvidenceTypeOK
  <2>1. events \in File(Evidence!Events) /\ TornHasALine(events)
    BY DEF File, TornHasALine
  <2>2. IsFiniteSet(rows) /\ \A r \in rows : r.contract \in Evidence!Contracts
    BY FS_EmptySet
  <2>3. now \in 0 .. MaxTime /\ at \in 0 .. MaxTime /\ at <= now
    BY WindowIsPositive
  <2> QED BY <2>1, <2>2, <2>3 DEF EvidenceTypeOK
<1>2. FileIsMade /\ ResolvedHadEnded /\ ReportIsKept /\ PanelHasReport
  BY DEF FileIsMade, ResolvedHadEnded, ReportIsKept, PanelHasReport
<1> QED BY <1>1, <1>2 DEF EvidenceInv

\* A write of an event, whole or cut short, keeps the file what was made, and
\* what was made tells no more of what has been resolved.
LEMMA EventIsKept ==
  ASSUME EvidenceTypeOK, FileIsMade, ResolvedHadEnded,
         NEW e \in Evidence!Events, e.at = at,
         NEW f \in Evidence!Interrupted(events, e), Evidence!Appended(e, f)
  PROVE  /\ events' \in File(Evidence!Events) /\ TornHasALine(events')
         /\ made' \in Seq(Evidence!Events)
         /\ FileIsMade'
         /\ ~joined' => ~joined
         /\ ResolvedOf(made') = ResolvedOf(made)
<1>1. f \in Interrupted(events, e) /\ events \in File(Evidence!Events)
  BY SameLog DEF EvidenceTypeOK
<1>2. events' = f /\ joined' = (joined \/ (events.torn /\ f # events))
  BY DEF Evidence!Appended
<1>3. made' = IF Len(f.lines) > Len(events.lines) /\ f.lines[Len(f.lines)] = e
                THEN Append(made, e) ELSE made
  BY DEF Evidence!Appended
<1>4. f \in File(Evidence!Events) /\ TornHasALine(f)
  BY <1>1, InterruptedType DEF EvidenceTypeOK
<1>5. made \in Seq(Evidence!Events)
  BY DEF EvidenceTypeOK
<1>6. made' \in Seq(Evidence!Events)
  BY <1>3, <1>5
<1>7. ResolvedOf(made') = ResolvedOf(made)
  <2>1. ResolvedOf(Append(made, e)) = ResolvedOf(made)
    BY <1>5, NothingYetResolved, UnresolvedLine
  <2> QED BY <1>3, <2>1
<1>8. events.lines \in Seq(Evidence!Events \cup {Bad}) /\ Len(events.lines) \in Nat
  BY <1>1 DEF File
<1>9. FileIsMade'
  <2> SUFFICES ASSUME ~joined'
               PROVE  \/ f.lines = made'
                      \/ f.torn /\ f.lines = Append(made', Bad)
    BY <1>2 DEF FileIsMade
  <2>1. ~joined /\ (f = events \/ ~events.torn)
    BY <1>2
  <2>2. CASE f = events
    <3>1. made' = made
      BY <1>3, <1>8, <2>2
    <3> QED BY <2>1, <2>2, <3>1 DEF FileIsMade
  <2>3. CASE ~events.torn /\ f # events
    <3>1. events.lines = made
      BY <2>1, <2>3 DEF FileIsMade
    <3>2. \/ f.torn /\ f.lines = Append(made, Bad)
          \/ f.lines = Append(made, e)
      <4>1. PICK x \in {e, Bad}, nl \in BOOLEAN :
              /\ f = [lines |-> Append(events.lines, x), torn |-> ~nl]
              /\ x = Bad => ~nl \/ e = Bad
        BY <1>1, <2>3 DEF Interrupted, Written
      <4>2. f.lines = Append(events.lines, x) /\ (f.torn <=> ~nl)
        BY <4>1
      <4> QED BY <3>1, <4>1, <4>2
    <3>3. e # Bad
      BY EventOfRows
    <3>4. ASSUME NEW x, f.lines = Append(made, x)
          PROVE  Len(f.lines) = Len(made) + 1 /\ f.lines[Len(f.lines)] = x
      <4>1. made \in Seq(Evidence!Events \cup {x})
        BY <1>5
      <4> QED BY <3>4, <4>1, AppendProperties
    <3>5. CASE f.torn /\ f.lines = Append(made, Bad)
      <4>1. f.lines[Len(f.lines)] # e
        BY <3>3, <3>4, <3>5
      <4>2. made' = made
        BY <1>3, <4>1
      <4> QED BY <3>5, <4>2
    <3>6. CASE f.lines = Append(made, e)
      <4>1. Len(f.lines) = Len(made) + 1 /\ f.lines[Len(f.lines)] = e
        BY <3>4, <3>6
      <4>2. Len(made) \in Nat
        BY <1>5
      <4>3. made' = Append(made, e)
        BY <1>3, <3>1, <4>1, <4>2
      <4> QED BY <3>6, <4>3
    <3> QED BY <3>2, <3>5, <3>6
  <2> QED BY <2>1, <2>2, <2>3
<1> QED BY <1>2, <1>4, <1>6, <1>7, <1>9

\* What a step of the evaluation keeps, whole or cut short.
LEMMA EvaluationKeeps ==
  ASSUME EvidenceInv, NEW p \in Passes,
         NEW f \in Evidence!Interrupted(events, Evidence!Event(at, p)),
         Evidence!Appended(Evidence!Event(at, p), f), pc' # "published",
         UNCHANGED <<rows, count, seen, report, now, at, unacked>>
  PROVE  EvidenceInv'
<1> DEFINE e == Evidence!Event(at, p)
<1>0. EvidenceTypeOK /\ FileIsMade /\ ResolvedHadEnded
  BY DEF EvidenceInv
<1>1. e \in Evidence!Events
  BY <1>0 DEF Evidence!Events, EvidenceTypeOK
<1>2. e.at = at
  BY DEF Evidence!Event
<1> HIDE DEF e
<1>3. Evidence!Appended(e, f) /\ f \in Evidence!Interrupted(events, e)
  BY DEF e
<1>4. /\ events' \in File(Evidence!Events) /\ TornHasALine(events')
      /\ made' \in Seq(Evidence!Events)
      /\ FileIsMade'
      /\ ~joined' => ~joined
      /\ ResolvedOf(made') = ResolvedOf(made)
  BY <1>0, <1>1, <1>2, <1>3, EventIsKept
<1>5. EvidenceTypeOK'
  BY <1>0, <1>4 DEF EvidenceTypeOK
<1>6. ResolvedHadEnded'
  BY <1>0 DEF ResolvedHadEnded
<1>7. ReportIsKept'
  BY <1>4, SameResolutions DEF EvidenceInv, ReportIsKept
<1>8. PanelHasReport'
  BY DEF PanelHasReport
<1> QED BY <1>4, <1>5, <1>6, <1>7, <1>8 DEF EvidenceInv

\* An append that completed is one of the ways in which it may end.
LEMMA EvaluateKeeps == EvidenceInv /\ Evidence!Evaluate => EvidenceInv'
<1> SUFFICES ASSUME EvidenceInv, Evidence!Evaluate PROVE EvidenceInv'
  OBVIOUS
<1>1. UNCHANGED <<rows, count, sink, seen, report, now, at, unacked>> /\ pc' = "report"
  BY DEF Evidence!Evaluate
<1>2. PICK p \in Passes :
        IF sink = "file"
          THEN LET e == Evidence!Event(at, p)
               IN  Evidence!Appended(e, Evidence!Written(events, e, TRUE))
          ELSE UNCHANGED <<events, joined, made>>
  BY DEF Evidence!Evaluate
<1>3. CASE sink = "file"
  <2>1. Evidence!Written(events, Evidence!Event(at, p), TRUE)
          \in Evidence!Interrupted(events, Evidence!Event(at, p))
    BY DEF Evidence!Interrupted
  <2> QED BY <1>1, <1>2, <1>3, <2>1, EvaluationKeeps
<1>4. CASE sink # "file"
  <2>1. UNCHANGED <<events, joined, made>>
    BY <1>2, <1>4
  <2>2. EvidenceTypeOK' /\ FileIsMade' /\ ResolvedHadEnded'
    BY <1>1, <2>1 DEF EvidenceInv, EvidenceTypeOK, FileIsMade, ResolvedHadEnded
  <2>3. ReportIsKept'
    BY <1>1, <2>1, SameResolutions DEF EvidenceInv, ReportIsKept
  <2>4. PanelHasReport'
    BY <1>1 DEF PanelHasReport
  <2> QED BY <2>2, <2>3, <2>4 DEF EvidenceInv
<1> QED BY <1>3, <1>4

\* So does one that raises, or that the process does not survive.
LEMMA CutShortKeeps ==
  EvidenceInv /\ (Evidence!EvaluateRaises \/ Evidence!Dies) => EvidenceInv'
<1> SUFFICES ASSUME EvidenceInv, Evidence!EvaluateRaises \/ Evidence!Dies
             PROVE  EvidenceInv'
  OBVIOUS
<1>1. /\ UNCHANGED <<rows, count, sink, seen, report, now, at, unacked>>
      /\ pc' # "published" /\ Evidence!CutShort
  BY DEF Evidence!EvaluateRaises, Evidence!Dies
<1>2. PICK p \in Passes : \E f \in Evidence!Interrupted(events, Evidence!Event(at, p)) :
                            Evidence!Appended(Evidence!Event(at, p), f)
  BY <1>1 DEF Evidence!CutShort
<1> QED BY <1>1, <1>2, EvaluationKeeps

\* What a scan resolves is of windows that ended; the store counts it, or does
\* not know of it.
LEMMA ScanKeeps == EvidenceInv /\ Evidence!Scan => EvidenceInv'
<1> SUFFICES ASSUME EvidenceInv, Evidence!Scan PROVE EvidenceInv'
  OBVIOUS
<1>0. EvidenceTypeOK /\ FileIsMade /\ ResolvedHadEnded /\ ReportIsKept
  BY DEF EvidenceInv
<1>1. /\ at' = now /\ pc' = "evaluate"
      /\ UNCHANGED <<events, seen, report, now, made, joined>>
  BY DEF Evidence!Scan
<1>2. PICK resolved \in SUBSET Evidence!Due :
        \E answer \in [resolved -> Evidence!Verdicts] :
          /\ rows' = rows \cup {Evidence!Resolution(c, answer[c]) : c \in resolved}
          /\ \/ count' = count + Evidence!Cardinality(resolved) /\ unacked' = unacked
             \/ /\ Evidence!Cardinality(resolved) = 1
                /\ unacked' = TRUE /\ count' = count
  BY DEF Evidence!Scan
<1>15. PICK answer \in [resolved -> Evidence!Verdicts] :
         /\ rows' = rows \cup {Evidence!Resolution(c, answer[c]) : c \in resolved}
         /\ \/ count' = count + Evidence!Cardinality(resolved) /\ unacked' = unacked
            \/ Evidence!Cardinality(resolved) = 1 /\ unacked' = TRUE /\ count' = count
  BY <1>2
<1> DEFINE new == {Evidence!Resolution(c, answer[c]) : c \in resolved}
           f == [c \in resolved |-> Evidence!Resolution(c, answer[c])]
<1>3. \A c \in resolved : c \in Evidence!Contracts /\ c.win < now \div Window
  BY <1>2 DEF Evidence!Due
<1>4. IsFiniteSet(resolved)
  BY <1>3, FiniteContracts, FS_Subset
<1>5. IsFiniteSet(new)
  <2>1. f \in Surjection(resolved, new)
    BY DEF Surjection
  <2> QED BY <1>4, <2>1, FS_Surjection
<1>6. \A r \in new : r.contract \in resolved
  BY DEF Evidence!Resolution
<1>7. Evidence!Cardinality(resolved) = Cardinality(resolved)
  BY DEF Evidence!Cardinality, Cardinality
<1>8. Cardinality(resolved) \in Nat /\ (Cardinality(resolved) = 0 <=> resolved = {})
  BY <1>4, FS_CardinalityType, FS_EmptySet
<1>9. rows' = rows \cup new
  BY <1>15
<1>10. resolved = {} => new = {}
  OBVIOUS
<1> HIDE DEF new
<1>11. EvidenceTypeOK'
  <2>1. IsFiniteSet(rows') /\ \A r \in rows' : r.contract \in Evidence!Contracts
    BY <1>0, <1>3, <1>5, <1>6, <1>9, FS_Union DEF EvidenceTypeOK
  <2>2. count' \in Nat /\ seen' \in Int /\ seen' <= count'
    BY <1>0, <1>1, <1>15, <1>7, <1>8 DEF EvidenceTypeOK
  <2>3. now' \in 0 .. MaxTime /\ at' \in 0 .. MaxTime /\ at' <= now'
    BY <1>0, <1>1 DEF EvidenceTypeOK
  <2> QED BY <1>0, <1>1, <2>1, <2>2, <2>3 DEF EvidenceTypeOK
<1>12. ResolvedHadEnded'
  <2>1. now \in Nat /\ at \in Nat /\ at <= now
    BY <1>0, WindowIsPositive DEF EvidenceTypeOK
  <2>2. /\ at \div Window \in Nat /\ now \div Window \in Nat
        /\ at \div Window <= now \div Window
    BY <2>1, WindowsFollow
  <2> SUFFICES ASSUME NEW r \in rows' PROVE r.contract.win < now \div Window
    BY <1>1 DEF ResolvedHadEnded
  <2>3. CASE r \in rows
    <3>1. r.contract.win < at \div Window
      BY <1>0, <2>3 DEF ResolvedHadEnded
    <3>2. r.contract.win \in Int
      BY <1>0, <2>3 DEF EvidenceTypeOK, Evidence!Contracts
    <3> QED BY <2>2, <3>1, <3>2
  <2>4. CASE r \in new
    BY <1>3, <1>6, <2>4
  <2> QED BY <1>9, <2>3, <2>4
<1>13. ReportIsKept'
  <2> SUFFICES ASSUME ~unacked', ~joined', seen' = count'
               PROVE  report' = report /\ ResolvedOf(made)' = report.resolved
    BY DEF ReportIsKept
  <2>1. count' = count + Cardinality(resolved) /\ ~unacked
    BY <1>15, <1>7
  <2>2. Cardinality(resolved) = 0
    <3>1. count \in Nat /\ seen \in Int /\ seen <= count
      BY <1>0 DEF EvidenceTypeOK
    <3>2. seen = count + Cardinality(resolved)
      BY <1>1, <2>1
    <3> QED BY <1>8, <3>1, <3>2
  <2>3. rows' = rows /\ count' = count
    BY <1>0, <1>8, <1>9, <1>10, <2>1, <2>2 DEF EvidenceTypeOK
  <2> QED BY <1>0, <1>1, <2>1, <2>3, SameResolutions DEF ReportIsKept
<1>14. FileIsMade' /\ PanelHasReport'
  BY <1>0, <1>1 DEF FileIsMade, PanelHasReport
<1> QED BY <1>11, <1>12, <1>13, <1>14 DEF EvidenceInv

\* A report that is made again is made of what reached the file.
LEMMA ReportKeeps == EvidenceInv /\ Evidence!Report => EvidenceInv'
<1> SUFFICES ASSUME EvidenceInv, Evidence!Report PROVE EvidenceInv'
  OBVIOUS
<1>0. EvidenceTypeOK /\ FileIsMade /\ ResolvedHadEnded /\ ReportIsKept
  BY DEF EvidenceInv
<1>1. UNCHANGED <<events, rows, count, now, at, made, unacked, joined>>
  BY DEF Evidence!Report, Evidence!history
<1>2. FileIsMade' /\ ResolvedHadEnded'
  BY <1>0, <1>1 DEF FileIsMade, ResolvedHadEnded
<1>3. CASE seen' = seen /\ report' = report
  <2>1. EvidenceTypeOK'
    BY <1>0, <1>1, <1>3 DEF EvidenceTypeOK
  <2>2. ReportIsKept'
    BY <1>0, <1>1, <1>3, SameResolutions DEF ReportIsKept
  <2>3. PanelHasReport'
    BY <1>1, <1>3 DEF Evidence!Report, PanelHasReport
  <2> QED BY <1>2, <2>1, <2>2, <2>3 DEF EvidenceInv
<1>4. CASE report' = Evidence!Joined(events) /\ seen' = count /\ panel' = report'
  <2>1. EvidenceTypeOK'
    BY <1>0, <1>1, <1>4 DEF EvidenceTypeOK
  <2>2. report'.resolved = ResolvedOf(events.lines)
    BY <1>4 DEF Evidence!Joined, ResolvedOf
  <2>3. ~joined => ResolvedOf(events.lines) = ResolvedOf(made)
    BY <1>0, BadSaysNothing DEF FileIsMade, EvidenceTypeOK
  <2>4. ResolvedOf(made)' = ResolvedOf(made)
    BY <1>1, SameResolutions
  <2>5. ReportIsKept'
    BY <1>1, <2>2, <2>3, <2>4 DEF ReportIsKept
  <2>6. PanelHasReport'
    BY <1>1, <1>4 DEF PanelHasReport
  <2> QED BY <1>2, <2>1, <2>5, <2>6 DEF EvidenceInv
<1> QED BY <1>3, <1>4 DEF Evidence!Report

\* A start counts the rows there are, and remembers no report.
LEMMA StartKeeps == EvidenceInv /\ Evidence!Start => EvidenceInv'
<1> SUFFICES ASSUME EvidenceInv, Evidence!Start PROVE EvidenceInv'
  OBVIOUS
<1>0. EvidenceTypeOK /\ FileIsMade /\ ResolvedHadEnded
  BY DEF EvidenceInv
<1>1. /\ UNCHANGED <<events, rows, now, at, made, joined>>
      /\ count' = Evidence!Cardinality(rows) /\ seen' = -1 /\ pc' = "scan"
  BY DEF Evidence!Start
<1>2. count' \in Nat
  <2>1. Evidence!Cardinality(rows) = Cardinality(rows)
    BY DEF Evidence!Cardinality, Cardinality
  <2> QED BY <1>0, <1>1, <2>1, FS_CardinalityType DEF EvidenceTypeOK
<1>3. seen' \in Int /\ seen' <= count' /\ seen' # count'
  BY <1>1, <1>2
<1>4. EvidenceTypeOK'
  BY <1>0, <1>1, <1>2, <1>3 DEF EvidenceTypeOK
<1>5. FileIsMade' /\ ResolvedHadEnded'
  BY <1>0, <1>1 DEF FileIsMade, ResolvedHadEnded
<1>6. ReportIsKept' /\ PanelHasReport'
  BY <1>1, <1>3 DEF ReportIsKept, PanelHasReport
<1> QED BY <1>4, <1>5, <1>6 DEF EvidenceInv

\* The other steps change neither the files nor the report.
LEMMA QuietKeeps ==
  ASSUME EvidenceInv, now' \in 0 .. MaxTime, now <= now', pc' = "published" => pc = "published",
         UNCHANGED <<events, rows, count, seen, report, panel, at, made, unacked, joined>>
  PROVE  EvidenceInv'
<1>1. EvidenceTypeOK'
  BY WindowIsPositive DEF EvidenceInv, EvidenceTypeOK
<1>2. FileIsMade' /\ ResolvedHadEnded' /\ PanelHasReport'
  BY DEF EvidenceInv, FileIsMade, ResolvedHadEnded, PanelHasReport
<1>3. ReportIsKept'
  BY SameResolutions DEF EvidenceInv, ReportIsKept
<1> QED BY <1>1, <1>2, <1>3 DEF EvidenceInv

\* Every step of the evidence, and of what is beside it, keeps the invariant.
LEMMA EvidenceNext ==
  EvidenceInv /\ [AllNext]_<<part, vars, sviVars, cases>> => EvidenceInv'
<1> SUFFICES ASSUME EvidenceInv, [AllNext]_<<part, vars, sviVars, cases>>
             PROVE  EvidenceInv'
  OBVIOUS
<1>1. now \in 0 .. MaxTime /\ now \in Nat /\ MaxTime \in Nat
  BY WindowIsPositive DEF EvidenceInv, EvidenceTypeOK
<1>2. CASE UNCHANGED sviVars
  BY <1>1, <1>2, QuietKeeps DEF sviVars
<1>3. CASE Evidence!Sleep \/ Evidence!Leave \/ Evidence!Tick
  <2>1. /\ UNCHANGED <<events, rows, count, seen, report, panel, at, made, unacked, joined>>
        /\ pc' = "published" => pc = "published"
        /\ now' = now \/ (now < MaxTime /\ now' = now + 1)
    BY <1>3 DEF Evidence!Sleep, Evidence!Leave, Evidence!Tick, Evidence!evidence,
                Evidence!history
  <2>2. now' \in 0 .. MaxTime /\ now <= now'
    BY <1>1, <2>1
  <2> QED BY <2>1, <2>2, QuietKeeps
<1> QED BY <1>2, <1>3, StartKeeps, ScanKeeps, EvaluateKeeps, CutShortKeeps, ReportKeeps
     DEF AllNext, Store, Svi, Assess

\* The invariant holds in every behaviour of the composition.
LEMMA EvidenceInvariance == AllSpec => []EvidenceInv
<1>1. AllInit => EvidenceInv
  BY EvidenceInitially DEF AllInit
<1> QED BY <1>1, EvidenceNext, PTL DEF AllSpec

\* What the screen shows as resolved is what the file and the resolutions say,
\* across scans without a new resolution, restarts and failed appends.
THEOREM ScreenIsCurrent == AllSpec => []ReportIsCurrent
<1>1. ASSUME EvidenceInv PROVE ReportIsCurrent
  BY <1>1 DEF EvidenceInv, ReportIsKept, PanelHasReport, ResolvedOf, ReportIsCurrent,
              Evidence!ReportIsCurrent
<1> QED BY <1>1, EvidenceInvariance, PTL

\* The evidence passes its audit, whatever was scanned, whichever specialist
\* raised and however the writes ended.
THEOREM AuditFindsPlaceholders == AllSpec => []EvidencePasses
<1>1. ASSUME EvidenceInv PROVE EvidencePasses
  <2> SUFFICES ASSUME ~joined
               PROVE  /\ ~Malformed(events)
                      /\ \A e \in RowsOf(events) :
                           Evidence!EventErrors(e.body) \subseteq
                             IF \E c \in e.body.candidates : c.side = "ABSTAIN"
                               THEN {"MISSING_CONTRACT_ID"} ELSE {}
    BY SameLog DEF EvidencePasses, Evidence!EvidencePasses
  <2>1. /\ events.lines \in Seq(Evidence!Events \cup {Bad})
        /\ made \in Seq(Evidence!Events) /\ Len(made) \in Nat
    BY <1>1 DEF EvidenceInv, EvidenceTypeOK, File
  <2>2. \A i \in 1 .. Len(made) : made[i] # Bad
    BY <2>1, EventOfRows
  <2>3. events.lines = made \/ events.lines = Append(made, Bad)
    BY <1>1 DEF EvidenceInv, FileIsMade
  <2>4. \A i \in 1 .. Len(events.lines) - 1 : events.lines[i] # Bad
    BY <2>1, <2>2, <2>3
  <2>5. RowsOf(events) \subseteq Evidence!Events
    BY <2>1 DEF RowsOf
  <2> QED BY <2>4, <2>5, EventsPass DEF Malformed
<1> QED BY <1>1, EvidenceInvariance, PTL

-----------------------------------------------------------------------------
(***************************************************************************)
(* The record of the shadow specialist: sums over its cases.               *)
(***************************************************************************)
\* Counting up from 0: what goes on from each number to the next holds to the
\* end.
LEMMA StepsToEnd ==
  ASSUME NEW N \in Nat, NEW S, 0 \in S,
         \A n \in 1 .. N : n - 1 \in S => n \in S
  PROVE  0 .. N \subseteq S
<1> SUFFICES ASSUME ~(0 .. N \subseteq S) PROVE FALSE
  OBVIOUS
<1> DEFINE I == {n \in 0 .. N : n \notin S}
<1>1. I \subseteq Nat /\ I # {}
  OBVIOUS
<1>2. PICK i \in I : \A j \in I : i <= j
  BY <1>1, LeastElement
<1>3. i \in 1 .. N /\ i - 1 \in 0 .. N /\ ~(i <= i - 1)
  BY <1>2
<1>4. i - 1 \in S
  BY <1>2, <1>3
<1> QED BY <1>2, <1>3, <1>4

\* A value carried from each position to the next.
Carries(f, V, base, move, N) ==
  /\ f \in [0 .. N -> V] /\ f[0] = base
  /\ \A n \in 1 .. N : f[n] = move[<<n, f[n - 1]>>]

\* A value can be carried from its base through N places.
LEMMA Carried ==
  ASSUME NEW V, NEW base \in V, NEW move \in [Nat \X V -> V], NEW N \in Nat
  PROVE  \E f : Carries(f, V, base, move, N)
<1> DEFINE To(f, n) == f[0] = base /\ \A k \in 1 .. n : f[k] = move[<<k, f[k - 1]>>]
           S == {n \in Nat : \E f \in [0 .. n -> V] : To(f, n)}
<1>1. 0 \in S
  <2>1. [k \in 0 .. 0 |-> base] \in [0 .. 0 -> V]
    OBVIOUS
  <2>2. To([k \in 0 .. 0 |-> base], 0)
    OBVIOUS
  <2> QED BY <2>1, <2>2
<1>2. ASSUME NEW n \in 1 .. N, n - 1 \in S PROVE n \in S
  <2>1. PICK f \in [0 .. n - 1 -> V] : To(f, n - 1)
    BY <1>2
  <2>2. n \in Nat /\ n - 1 \in Nat /\ n - 1 \in 0 .. n - 1 /\ 0 \in 0 .. n - 1
    OBVIOUS
  <2> DEFINE next == move[<<n, f[n - 1]>>]
             g == [k \in 0 .. n |-> IF k = n THEN next ELSE f[k]]
  <2>3. next \in V
    BY <2>2
  <2>4. \A k \in 0 .. n : k # n => k \in 0 .. n - 1
    OBVIOUS
  <2>5. g \in [0 .. n -> V]
    BY <2>3, <2>4
  <2>6. \A k \in 0 .. n - 1 : g[k] = f[k]
    OBVIOUS
  <2>7. g[n] = move[<<n, g[n - 1]>>]
    <3>1. g[n] = next
      BY <2>2
    <3> QED BY <3>1, <2>2, <2>6
  <2>8. \A k \in 1 .. n : k # n => k \in 1 .. n - 1 /\ k \in 0 .. n - 1 /\ k - 1 \in 0 .. n - 1
    OBVIOUS
  <2> HIDE DEF g, next
  <2>9. To(g, n)
    <3>1. g[0] = base
      BY <2>1, <2>2, <2>6
    <3>2. ASSUME NEW k \in 1 .. n PROVE g[k] = move[<<k, g[k - 1]>>]
      <4>1. CASE k = n
        BY <4>1, <2>7
      <4>2. CASE k # n
        BY <4>2, <2>1, <2>6, <2>8
      <4> QED BY <4>1, <4>2
    <3> QED BY <3>1, <3>2
  <2> HIDE DEF To
  <2> QED BY <2>2, <2>5, <2>9
<1> HIDE DEF S
<1>3. 0 .. N \subseteq S
  BY <1>1, <1>2, StepsToEnd
<1>4. N \in S
  BY <1>3
<1> QED BY <1>4 DEF S, Carries

\* A sum is reached value by value.
Sums(f, v) ==
  /\ f \in [0 .. Len(v) -> Int] /\ f[0] = 0
  /\ \A n \in 1 .. Len(v) : f[n] = f[n - 1] + v[n]

\* Total adds the values one by one, from the first.
LEMMA TotalIs ==
  ASSUME NEW v \in Seq(Int)
  PROVE  \E f : Sums(f, v) /\ Research!Total(v) = f[Len(v)]
<1> DEFINE N == Len(v)
           move == [p \in Nat \X Int |-> IF p[1] \in 1 .. N THEN p[2] + v[p[1]] ELSE p[2]]
           Filled(f) == [n \in 0 .. N |-> IF n = 0 THEN 0 ELSE f[n - 1] + v[n]]
           sum == CHOOSE f : f = Filled(f)
<1>1. N \in Nat /\ \A n \in 1 .. N : v[n] \in Int
  OBVIOUS
<1> HIDE DEF N
<1>2. move \in [Nat \X Int -> Int]
  BY <1>1
<1>3. \A n \in 1 .. N, x \in Int : move[<<n, x>>] = x + v[n]
  <2> SUFFICES ASSUME NEW n \in 1 .. N, NEW x \in Int PROVE move[<<n, x>>] = x + v[n]
    OBVIOUS
  <2>1. <<n, x>> \in Nat \X Int /\ <<n, x>>[1] = n /\ <<n, x>>[2] = x
    BY <1>1
  <2> QED BY <2>1
<1> HIDE DEF move
<1>4. PICK f : Carries(f, Int, 0, move, N)
  <2>1. 0 \in Int
    OBVIOUS
  <2> QED BY <1>1, <1>2, <2>1, Carried
<1>5. \A n \in 0 .. N : n # 0 => n \in 1 .. N /\ n - 1 \in 0 .. N
  BY <1>1
<1>6. \A n \in 1 .. N : n - 1 \in 0 .. N /\ n \in 0 .. N /\ n # 0
  BY <1>1
<1>7. \A n \in 1 .. N : f[n] = f[n - 1] + v[n]
  BY <1>3, <1>4, <1>6 DEF Carries
<1>8. f = Filled(f)
  BY <1>4, <1>5, <1>7 DEF Carries
<1>9. sum = Filled(sum)
  BY <1>8
<1>10. Research!Total(v) = sum[N]
  BY DEF Research!Total, N
<1> HIDE DEF sum
<1>11. DOMAIN sum = 0 .. N /\ sum = [n \in 0 .. N |-> sum[n]]
  BY <1>9
<1>12. sum[0] = 0 /\ \A n \in 1 .. N : sum[n] = sum[n - 1] + v[n]
  BY <1>9, <1>1, <1>6
<1>13. \A n \in 0 .. N : sum[n] \in Int
  <2> DEFINE S == {n \in 0 .. N : sum[n] \in Int}
  <2>1. 0 \in S
    BY <1>1, <1>12
  <2>2. ASSUME NEW n \in 1 .. N, n - 1 \in S PROVE n \in S
    <3>1. sum[n - 1] \in Int /\ v[n] \in Int /\ n \in 0 .. N
      BY <1>1, <1>6, <2>2
    <3>2. sum[n] = sum[n - 1] + v[n]
      BY <1>12
    <3>3. sum[n] \in Int
      BY <3>1, <3>2
    <3> QED BY <3>1, <3>3
  <2> HIDE DEF S
  <2>3. 0 .. N \subseteq S
    BY <1>1, <2>1, <2>2, StepsToEnd
  <2> QED BY <2>3 DEF S
<1> QED BY <1>10, <1>11, <1>12, <1>13 DEF Sums, N

\* A sum of values that are not negative is no less than one of them.
LEMMA TotalCovers ==
  ASSUME NEW v \in Seq(Nat), NEW i \in DOMAIN v
  PROVE  Research!Total(v) >= v[i]
<1>1. v \in Seq(Int) /\ Len(v) \in Nat /\ i \in 1 .. Len(v) /\ \A n \in 1 .. Len(v) : v[n] \in Nat
  OBVIOUS
<1>2. PICK f : Sums(f, v) /\ Research!Total(v) = f[Len(v)]
  BY <1>1, TotalIs
<1> DEFINE N == Len(v)
           S == {n \in 0 .. N : f[n] >= 0 /\ (n >= i => f[n] >= v[i])}
<1> HIDE DEF N
<1>3. N \in Nat /\ i \in 1 .. N /\ \A n \in 1 .. N : v[n] \in Nat
  BY <1>1 DEF N
<1>4. /\ f[0] = 0 /\ \A n \in 0 .. N : f[n] \in Int
      /\ \A n \in 1 .. N : f[n] = f[n - 1] + v[n]
  BY <1>2 DEF Sums, N
<1>5. 0 \in S
  BY <1>3, <1>4
<1>6. ASSUME NEW n \in 1 .. N, n - 1 \in S PROVE n \in S
  <2>1. n \in 0 .. N /\ n - 1 \in 0 .. N /\ n \in Int /\ i \in Int /\ v[i] \in Nat /\ v[n] \in Nat
    BY <1>3
  <2>2. f[n - 1] \in Int /\ f[n] \in Int /\ f[n - 1] >= 0 /\ f[n] = f[n - 1] + v[n]
    BY <1>4, <1>6, <2>1
  <2>3. n >= i => n = i \/ n - 1 >= i
    BY <2>1
  <2>4. n - 1 >= i => f[n - 1] >= v[i]
    BY <1>6
  <2> HIDE DEF S
  <2>5. n >= i => f[n] >= v[i]
    BY <2>1, <2>2, <2>3, <2>4
  <2>6. f[n] >= 0
    BY <2>1, <2>2
  <2> QED BY <2>1, <2>5, <2>6 DEF S
<1> HIDE DEF S
<1>7. 0 .. N \subseteq S
  BY <1>3, <1>5, <1>6, StepsToEnd
<1>8. N \in S /\ N >= i
  BY <1>3, <1>7
<1> QED BY <1>2, <1>8 DEF S, N

\* What is left of a sequence without one of its elements.
LEMMA WithoutIs ==
  ASSUME NEW T, NEW v \in Seq(T), NEW i \in DOMAIN v
  PROVE  /\ Research!Without(v, i) \in Seq(T)
         /\ Len(Research!Without(v, i)) = Len(v) - 1
         /\ \A k \in 1 .. Len(v) - 1 :
              Research!Without(v, i)[k] = IF k < i THEN v[k] ELSE v[k + 1]
<1>1. Len(v) \in Nat /\ i \in 1 .. Len(v)
  OBVIOUS
<1> DEFINE a == SubSeq(v, 1, i - 1)
           b == SubSeq(v, i + 1, Len(v))
<1>2. a \in Seq(T) /\ Len(a) = i - 1 /\ \A k \in 1 .. i - 1 : a[k] = v[k]
  BY <1>1
<1>3. b \in Seq(T) /\ Len(b) = Len(v) - i /\ \A k \in 1 .. Len(v) - i : b[k] = v[i + k]
  <2>1. i + 1 \in Nat /\ i + 1 - 1 = i /\ i + 1 >= 1
    BY <1>1
  <2> QED BY <1>1, <2>1
<1>4. Research!Without(v, i) = a \o b
  BY DEF Research!Without
<1> HIDE DEF a, b
<1>5. a \o b \in Seq(T) /\ Len(a \o b) = Len(v) - 1
  BY <1>1, <1>2, <1>3
<1>6. ASSUME NEW k \in 1 .. Len(v) - 1
      PROVE  (a \o b)[k] = IF k < i THEN v[k] ELSE v[k + 1]
  <2>1. CASE k < i
    <3>1. k \in 1 .. i - 1 /\ k \in 1 .. Len(a)
      BY <1>1, <1>2, <2>1
    <3>2. (a \o b)[k] = a[k]
      BY <3>1, <1>2, <1>3
    <3> QED BY <3>1, <3>2, <1>2, <2>1
  <2>2. CASE ~(k < i)
    <3>1. /\ k \in 1 .. Len(a) + Len(b) /\ ~(k <= Len(a))
          /\ k - Len(a) \in 1 .. Len(v) - i /\ i + (k - Len(a)) = k + 1
      <4>1. Len(a) = i - 1 /\ Len(b) = Len(v) - i
        BY <1>2, <1>3
      <4>2. k \in Nat /\ i \in Nat /\ k >= i /\ k <= Len(v) - 1
        BY <1>1, <2>2
      <4> QED BY <4>1, <4>2, <1>1
    <3>2. (a \o b)[k] = b[k - Len(a)]
      BY <3>1, <1>2, <1>3
    <3> QED BY <3>1, <3>2, <1>3, <2>2
  <2> QED BY <2>1, <2>2
<1> QED BY <1>4, <1>5, <1>6

\* Without a value a sum is less by it.
LEMMA TotalWithout ==
  ASSUME NEW v \in Seq(Int), NEW i \in DOMAIN v
  PROVE  Research!Total(Research!Without(v, i)) = Research!Total(v) - v[i]
<1> DEFINE w == Research!Without(v, i)
           N == Len(v)
<1>1. N \in Nat /\ i \in 1 .. N /\ \A n \in 1 .. N : v[n] \in Int
  OBVIOUS
<1>2. w \in Seq(Int) /\ Len(w) = N - 1
      /\ \A k \in 1 .. N - 1 : w[k] = IF k < i THEN v[k] ELSE v[k + 1]
  BY WithoutIs
<1>3. PICK f : Sums(f, v) /\ Research!Total(v) = f[N]
  BY TotalIs
<1> HIDE DEF w
<1>4. PICK g : Sums(g, w) /\ Research!Total(w) = g[N - 1]
  BY <1>2, TotalIs
<1> HIDE DEF N
<1>5. /\ f[0] = 0 /\ \A n \in 0 .. N : f[n] \in Int
      /\ \A n \in 1 .. N : f[n] = f[n - 1] + v[n]
  BY <1>3 DEF Sums, N
<1>6. /\ g[0] = 0 /\ \A n \in 0 .. N - 1 : g[n] \in Int
      /\ \A n \in 1 .. N - 1 : g[n] = g[n - 1] + w[n]
  BY <1>2, <1>4 DEF Sums
<1> DEFINE S == {n \in 0 .. N - 1 : /\ n < i => g[n] = f[n]
                                    /\ n >= i => g[n] = f[n + 1] - v[i]}
<1>7. 0 \in S
  BY <1>1, <1>5, <1>6
<1>8. ASSUME NEW n \in 1 .. N - 1, n - 1 \in S PROVE n \in S
  <2>1. /\ n \in Nat /\ n \in 0 .. N - 1 /\ n \in 0 .. N /\ n \in 1 .. N /\ n + 1 \in 1 .. N
        /\ n - 1 \in 0 .. N /\ n - 1 \in 0 .. N - 1 /\ n + 1 \in 0 .. N /\ i \in Nat
        /\ n + 1 - 1 = n /\ n - 1 + 1 = n
    BY <1>1
  <2>2. g[n] = g[n - 1] + w[n] /\ g[n - 1] \in Int
    BY <1>6, <2>1
  <2>3. f[n] = f[n - 1] + v[n] /\ f[n + 1] = f[n] + v[n + 1]
    BY <1>5, <2>1
  <2>4. f[n] \in Int /\ f[n - 1] \in Int /\ f[n + 1] \in Int /\ v[n] \in Int /\ v[n + 1] \in Int /\ v[i] \in Int
    BY <1>1, <1>5, <2>1
  <2>5. w[n] = IF n < i THEN v[n] ELSE v[n + 1]
    BY <1>2
  <2>6. /\ n - 1 < i => g[n - 1] = f[n - 1]
        /\ n - 1 >= i => g[n - 1] = f[n] - v[i]
    BY <1>8, <2>1
  <2> HIDE DEF S
  <2>7. n < i => g[n] = f[n]
    BY <2>1, <2>2, <2>3, <2>4, <2>5, <2>6
  <2>8. n = i => g[n] = f[n + 1] - v[i]
    <3> SUFFICES ASSUME n = i PROVE g[n] = f[n + 1] - v[n]
      OBVIOUS
    <3>1. n - 1 < i /\ ~(n < i)
      BY <2>1
    <3>2. g[n] = f[n - 1] + v[n + 1]
      BY <2>2, <2>5, <2>6, <3>1
    <3>3. \A p, q, r \in Int : p + r = ((p + q) + r) - q
      OBVIOUS
    <3>4. f[n + 1] - v[n] = ((f[n - 1] + v[n]) + v[n + 1]) - v[n]
      BY <2>3
    <3> QED BY <3>2, <3>3, <3>4, <2>4
  <2>9. n > i => g[n] = f[n + 1] - v[i]
    BY <2>1, <2>2, <2>3, <2>4, <2>5, <2>6
  <2> QED BY <2>1, <2>7, <2>8, <2>9 DEF S
<1> HIDE DEF S
<1>9. N - 1 \in Nat /\ N - 1 \in 0 .. N - 1 /\ N - 1 + 1 = N /\ N \in 1 .. N /\ N \in 0 .. N
  BY <1>1
<1>10. 0 .. N - 1 \subseteq S
  BY <1>7, <1>8, <1>9, StepsToEnd
<1>11. N - 1 \in S
  BY <1>9, <1>10
<1>12. CASE N - 1 >= i
  BY <1>3, <1>4, <1>9, <1>11, <1>12 DEF S, w
<1>13. CASE N - 1 < i
  <2>1. i = N /\ g[N - 1] = f[N - 1]
    BY <1>1, <1>11, <1>13 DEF S
  <2>2. f[N] = f[N - 1] + v[N] /\ f[N] \in Int /\ f[N - 1] \in Int /\ v[N] \in Int
    BY <1>1, <1>5, <1>9
  <2>3. g[N - 1] = f[N] - v[i]
    BY <2>1, <2>2
  <2> QED BY <2>3, <1>3, <1>4 DEF w
<1> QED BY <1>1, <1>9, <1>12, <1>13

\* What is kept of a sequence is of the set.
LEMMA KeptIs ==
  ASSUME NEW T, NEW v \in Seq(T), NEW set
  PROVE  Research!Kept(v, set) \in Seq(T \cap set)
<1> DEFINE N == Len(v)
           V == Seq(T \cap set)
           move == [p \in Nat \X V |->
                      IF p[1] \in 1 .. N /\ v[p[1]] \in set THEN Append(p[2], v[p[1]]) ELSE p[2]]
           Filled(f) == [n \in 0 .. N |-> IF n = 0 THEN <<>>
                          ELSE IF v[n] \in set THEN Append(f[n - 1], v[n]) ELSE f[n - 1]]
           kept == CHOOSE f : f = Filled(f)
<1>1. N \in Nat /\ \A n \in 1 .. N : v[n] \in T
  OBVIOUS
<1> HIDE DEF N
<1>2. <<>> \in V /\ \A s \in V, x \in T \cap set : Append(s, x) \in V
  OBVIOUS
<1> HIDE DEF V
<1>3. ASSUME NEW p \in Nat \X V
      PROVE  (IF p[1] \in 1 .. N /\ v[p[1]] \in set THEN Append(p[2], v[p[1]]) ELSE p[2]) \in V
  <2>1. p[2] \in V
    OBVIOUS
  <2> QED BY <2>1, <1>1, <1>2
<1>4. move \in [Nat \X V -> V]
  BY <1>3
<1>5. \A n \in 1 .. N, x \in V :
        move[<<n, x>>] = IF v[n] \in set THEN Append(x, v[n]) ELSE x
  <2> SUFFICES ASSUME NEW n \in 1 .. N, NEW x \in V
               PROVE  move[<<n, x>>] = IF v[n] \in set THEN Append(x, v[n]) ELSE x
    OBVIOUS
  <2>1. <<n, x>> \in Nat \X V /\ <<n, x>>[1] = n /\ <<n, x>>[2] = x
    BY <1>1
  <2> QED BY <2>1
<1> HIDE DEF move
<1>6. PICK f : Carries(f, V, <<>>, move, N)
  BY <1>1, <1>2, <1>4, Carried
<1>7. \A n \in 0 .. N : n # 0 => n \in 1 .. N /\ n - 1 \in 0 .. N
  BY <1>1
<1>8. \A n \in 1 .. N : n - 1 \in 0 .. N /\ n \in 0 .. N /\ n # 0
  BY <1>1
<1>9. \A n \in 1 .. N :
        f[n] = IF v[n] \in set THEN Append(f[n - 1], v[n]) ELSE f[n - 1]
  BY <1>5, <1>6, <1>8 DEF Carries
<1>10. f = Filled(f)
  BY <1>6, <1>7, <1>9 DEF Carries
<1>11. kept = Filled(kept)
  BY <1>10
<1>12. Research!Kept(v, set) = kept[N]
  BY DEF Research!Kept, N
<1> HIDE DEF kept
<1>13. kept[0] = <<>> /\ \A n \in 1 .. N :
         kept[n] = IF v[n] \in set THEN Append(kept[n - 1], v[n]) ELSE kept[n - 1]
  <2>1. \A n \in 0 .. N : kept[n] = Filled(kept)[n]
    BY <1>11
  <2>2. 0 \in 0 .. N
    BY <1>1
  <2>3. kept[0] = <<>>
    BY <2>1, <2>2
  <2> QED BY <2>1, <2>3, <1>8
<1> DEFINE S == {n \in 0 .. N : kept[n] \in V}
<1>14. 0 \in S
  BY <1>1, <1>2, <1>13
<1>15. ASSUME NEW n \in 1 .. N, n - 1 \in S PROVE n \in S
  <2>1. kept[n - 1] \in V /\ v[n] \in T /\ n \in 0 .. N
    BY <1>1, <1>8, <1>15
  <2>2. kept[n] = IF v[n] \in set THEN Append(kept[n - 1], v[n]) ELSE kept[n - 1]
    BY <1>13
  <2>3. kept[n] \in V
    BY <2>1, <2>2, <1>2
  <2> QED BY <2>1, <2>3
<1> HIDE DEF S
<1>16. 0 .. N \subseteq S
  BY <1>1, <1>14, <1>15, StepsToEnd
<1>17. N \in S
  BY <1>1, <1>16
<1> QED BY <1>12, <1>17 DEF S, V

\* A square is not negative, and grows with what is squared.
LEMMA SquareIs == \A x \in Int : x * x \in Nat
<1> TAKE x \in Int
<1>1. CASE x >= 0
  BY <1>1
<1>2. CASE x < 0
  BY <1>2
<1> QED BY <1>1, <1>2

\* A mean that exceeds 1.96 standard errors does not hang on one value: the
\* largest alone would make the deviation too large.
LEMMA NoValueDecides ==
  ASSUME NEW v \in Seq(Int), Research!LowerPositive(v), NEW i \in DOMAIN v
  PROVE  Research!Total(v) - v[i] > 0
<1> DEFINE squares == [k \in DOMAIN v |-> v[k] * v[k]]
           n == Len(v)
           t == Research!Total(v)
           q == Research!Total(squares)
           x == v[i]
<1>1. n \in Nat /\ x \in Int /\ DOMAIN v = 1 .. n /\ \A k \in 1 .. n : v[k] \in Int
  OBVIOUS
<1>2. squares \in Seq(Nat) /\ squares[i] = x * x /\ i \in DOMAIN squares
  <2>1. \A k \in 1 .. n : v[k] * v[k] \in Nat
    BY <1>1, SquareIs
  <2> QED BY <1>1, <2>1
<1>3. n > 1 /\ t > 0 /\ 625 * t * t * (n - 1) > 2401 * (n * q - t * t)
  BY DEF Research!LowerPositive
<1>4. squares \in Seq(Int)
  BY <1>2
<1> HIDE DEF squares, n, x
<1>5. q >= x * x
  BY <1>2, TotalCovers
<1>6. t \in Int /\ q \in Int
  <2>1. PICK f : Sums(f, v) /\ t = f[Len(v)]
    BY TotalIs
  <2>2. PICK g : Sums(g, squares) /\ q = g[Len(squares)]
    BY <1>4, TotalIs
  <2>3. Len(v) \in 0 .. Len(v) /\ Len(squares) \in 0 .. Len(squares)
    BY <1>4
  <2> QED BY <2>1, <2>2, <2>3 DEF Sums
<1> HIDE DEF t, q
<1> SUFFICES ASSUME x >= t PROVE FALSE
  BY <1>1, <1>6 DEF t, x
<1>7. x * x >= t * t /\ t * t > 0 /\ t * t \in Int /\ x * x \in Int
  <2>1. t > 0 /\ x >= t /\ t \in Int /\ x \in Int
    BY <1>1, <1>3, <1>6
  <2>2. x * x >= x * t /\ x * t >= t * t /\ t * t > 0
    BY <2>1
  <2> QED BY <2>1, <2>2
<1> DEFINE T == t * t
           m == n - 1
<1>8. T \in Int /\ m \in Nat /\ m > 0 /\ T > 0 /\ q >= T /\ n = m + 1
  BY <1>1, <1>3, <1>5, <1>6, <1>7
<1>9. 625 * t * t * (n - 1) = 625 * (T * m)
  BY <1>1, <1>6
<1> HIDE DEF T, m
<1>10. n * q >= n * T /\ n * q \in Int /\ n * T \in Int
  BY <1>1, <1>6, <1>8
<1>11. n * T = T * m + T
  BY <1>8
<1>12. T * m > 0 /\ T * m \in Int
  BY <1>8
<1>13. n * q - t * t >= T * m
  BY <1>8, <1>10, <1>11, <1>12 DEF T
<1>14. 625 * (T * m) > 2401 * (n * q - t * t) /\ t * t \in Int
  BY <1>3, <1>7, <1>9
<1> DEFINE a == T * m
           b == n * q - t * t
<1>15. a \in Int /\ b \in Int /\ a > 0 /\ b >= a /\ 625 * a > 2401 * b
  BY <1>10, <1>12, <1>13, <1>14
<1> HIDE DEF a, b
<1> QED BY <1>15

\* Without any one of its rows, a comparison whose lower bound is positive
\* still has a positive sum.
LEMMA NoRowDecides ==
  ASSUME NEW J, NEW v \in Seq(J), \A c \in J : Research!BrierDelta(c) \in Int,
         Research!LowerPositive([k \in DOMAIN v |-> Research!BrierDelta(v[k])]),
         NEW i \in DOMAIN v
  PROVE  LET w == Research!Without(v, i)
         IN  Research!Total([k \in DOMAIN w |-> Research!BrierDelta(w[k])]) > 0
<1> DEFINE d == [k \in DOMAIN v |-> Research!BrierDelta(v[k])]
           w == Research!Without(v, i)
           e == [k \in DOMAIN w |-> Research!BrierDelta(w[k])]
           x == Research!Without(d, i)
<1>1. Len(v) \in Nat /\ DOMAIN v = 1 .. Len(v) /\ i \in 1 .. Len(v)
  OBVIOUS
<1>2. d \in Seq(Int) /\ Len(d) = Len(v) /\ DOMAIN d = DOMAIN v
      /\ \A k \in 1 .. Len(v) : d[k] = Research!BrierDelta(v[k])
  <2>1. \A k \in 1 .. Len(v) : Research!BrierDelta(v[k]) \in Int
    OBVIOUS
  <2> QED BY <1>1, <2>1
<1>3. w \in Seq(J) /\ Len(w) = Len(v) - 1
      /\ \A k \in 1 .. Len(v) - 1 : w[k] = IF k < i THEN v[k] ELSE v[k + 1]
  BY WithoutIs
<1>4. Research!LowerPositive(d)
  OBVIOUS
<1> HIDE DEF d, w
<1>5. x \in Seq(Int) /\ Len(x) = Len(v) - 1
      /\ \A k \in 1 .. Len(v) - 1 : x[k] = IF k < i THEN d[k] ELSE d[k + 1]
  <2>1. i \in DOMAIN d
    BY <1>1, <1>2
  <2> QED BY <1>2, <2>1, WithoutIs
<1>6. Research!Total(x) > 0
  BY <1>1, <1>2, <1>4, NoValueDecides, TotalWithout
<1>7. \A k \in 1 .. Len(v) - 1 :
        k \in 1 .. Len(v) /\ k + 1 \in 1 .. Len(v)
  BY <1>1
<1> HIDE DEF x
<1>8. \A k \in 1 .. Len(v) - 1 : x[k] = Research!BrierDelta(w[k])
  BY <1>2, <1>3, <1>5, <1>7
<1>9. DOMAIN w = 1 .. Len(v) - 1 /\ DOMAIN x = 1 .. Len(v) - 1
      /\ x = [k \in DOMAIN x |-> x[k]]
  BY <1>3, <1>5
<1>10. x = e
  BY <1>8, <1>9
<1> QED BY <1>6, <1>10 DEF w

\* A case is a contract's: what was said of it is a probability or nothing.
CasesAre ==
  /\ cases \in Seq({cases[k] : k \in DOMAIN cases})
  /\ \A k \in DOMAIN cases :
       /\ {cases[k].m, cases[k].b, cases[k].s} \subseteq Research!Spoken
       /\ cases[k].yes \in BOOLEAN

\* A resolved contract adds one of the cases.
LEMMA ResolveKeeps == CasesAre /\ Research!Resolve => CasesAre'
<1> SUFFICES ASSUME CasesAre, Research!Resolve PROVE CasesAre'
  OBVIOUS
<1> USE DEF CasesAre
<1>1. PICK c \in Cases :
        cases' = Append(cases,
          [asset |-> Judged[(Len(cases) % Len(Judged)) + 1],
           m |-> c.m, b |-> c.b, s |-> c.s, yes |-> c.yes])
  BY DEF Research!Resolve
<1> DEFINE x == [asset |-> Judged[(Len(cases) % Len(Judged)) + 1],
                 m |-> c.m, b |-> c.b, s |-> c.s, yes |-> c.yes]
<1>2. c \in [m : Research!Spoken, b : Research!Spoken, s : Research!Spoken, yes : BOOLEAN]
  BY ResearchAssumption DEF Research!ResearchBounds
<1>3. {x.m, x.b, x.s} \subseteq Research!Spoken /\ x.yes \in BOOLEAN
  BY <1>2
<1>4. cases' = Append(cases, x)
  BY <1>1
<1> HIDE DEF x
<1>5. Len(cases) \in Nat /\ DOMAIN cases = 1 .. Len(cases)
  OBVIOUS
<1>6. /\ DOMAIN cases' = 1 .. Len(cases) + 1
      /\ \A k \in 1 .. Len(cases) : cases'[k] = cases[k]
      /\ cases'[Len(cases) + 1] = x
      /\ cases' \in Seq({cases[k] : k \in DOMAIN cases} \cup {x})
  <2>1. cases \in Seq({cases[k] : k \in DOMAIN cases})
    OBVIOUS
  <2> HIDE DEF CasesAre
  <2> QED BY <1>4, <1>5, <2>1
<1>7. \A k \in 1 .. Len(cases) + 1 : k \in 1 .. Len(cases) \/ k = Len(cases) + 1
  BY <1>5
<1>8. cases' \in Seq({cases'[k] : k \in DOMAIN cases'})
  <2> DEFINE own == {cases'[k] : k \in DOMAIN cases'}
  <2>1. \A k \in DOMAIN cases' : cases'[k] \in own
    OBVIOUS
  <2>2. cases' = [k \in DOMAIN cases' |-> cases'[k]]
    BY <1>6
  <2> HIDE DEF own
  <2>3. cases' \in [1 .. Len(cases) + 1 -> own] /\ Len(cases) + 1 \in Nat
    BY <1>5, <1>6, <2>1, <2>2
  <2>4. cases' \in Seq(own)
    BY <2>3
  <2> QED BY <2>4 DEF own
<1>9. \A k \in DOMAIN cases' :
        /\ {cases'[k].m, cases'[k].b, cases'[k].s} \subseteq Research!Spoken
        /\ cases'[k].yes \in BOOLEAN
  <2> SUFFICES ASSUME NEW k \in 1 .. Len(cases) + 1
               PROVE  /\ {cases'[k].m, cases'[k].b, cases'[k].s} \subseteq Research!Spoken
                      /\ cases'[k].yes \in BOOLEAN
    BY <1>6
  <2>1. CASE k \in 1 .. Len(cases)
    BY <2>1, <1>5, <1>6
  <2>2. CASE k = Len(cases) + 1
    BY <2>2, <1>3, <1>6
  <2> QED BY <1>7, <2>1, <2>2
<1> QED BY <1>8, <1>9

\* Every case on record is one of the cases.
LEMMA CasesAlwaysAre == AllSpec => []CasesAre
<1>1. AllInit => CasesAre
  BY DEF AllInit, Research!ResearchInit, CasesAre
<1>2. ASSUME CasesAre, [AllNext]_<<part, vars, sviVars, cases>> PROVE CasesAre'
  <2>1. CASE cases' = cases
    BY <1>2, <2>1 DEF CasesAre
  <2>2. CASE Research!Resolve
    BY <1>2, <2>2, ResolveKeeps
  <2> QED BY <1>2, <2>1, <2>2 DEF AllNext, Store, Svi, Assess
<1> QED BY <1>1, <1>2, PTL DEF AllSpec

\* No single contract puts a specialist forward, for any cases and any number of
\* them: what is put forward passed the bound on the mean, in all and in every
\* asset with a sample.
THEOREM NoCaseIsDecisive == AllSpec => []NoCaseDecides
<1>1. ASSUME CasesAre PROVE NoCaseDecides
  <2> DEFINE R == {cases[k] : k \in DOMAIN cases}
             J == {c \in R : c.b \in 0 .. 10 /\ c.s \in 0 .. 10 /\ c.yes \in BOOLEAN}
             both == Research!Overlap(cases)
             c == Research!Comparison(cases)
  <2>1. \A x \in J : Research!BrierDelta(x) \in Int
    <3> SUFFICES ASSUME NEW x \in J PROVE Research!BrierDelta(x) \in Int
      OBVIOUS
    <3>1. x.b \in Int /\ x.s \in Int
      OBVIOUS
    <3>2. ASSUME NEW p \in Int, NEW yes PROVE Research!Brier(p, yes) \in Int
      <4>1. 10 - p \in Int /\ (10 - p) * (10 - p) \in Int /\ p * p \in Int
        OBVIOUS
      <4> QED BY <4>1 DEF Research!Brier
    <3>3. \A m, n \in Int : m - n \in Int
      OBVIOUS
    <3> QED BY <3>1, <3>2, <3>3 DEF Research!BrierDelta
  <2>2. both \in Seq(J)
    <3> DEFINE set == {x \in Research!Range(cases) : x.s # NONE /\ x.b # NONE}
    <3>1. cases \in Seq(R)
      BY <1>1 DEF CasesAre
    <3>2. both \in Seq(R \cap set)
      <4>1. both = Research!Kept(cases, set)
        BY DEF Research!Overlap
      <4> HIDE DEF set, R, both
      <4> QED BY <3>1, <4>1, KeptIs
    <3>3. R \cap set \subseteq J
      BY <1>1 DEF CasesAre, Research!Spoken
    <3> HIDE DEF R, set, J
    <3> QED BY <3>2, <3>3
  <2>3. \A a : Research!OfAsset(both, a) \in Seq(J)
    <3> SUFFICES ASSUME NEW a PROVE Research!OfAsset(both, a) \in Seq(J)
      OBVIOUS
    <3> DEFINE set == {x \in Research!Range(both) : x.asset = a}
    <3> HIDE DEF J, both
    <3>1. Research!OfAsset(both, a) = Research!Kept(both, set)
      BY DEF Research!OfAsset
    <3> HIDE DEF set
    <3>2. Research!OfAsset(both, a) \in Seq(J \cap set)
      BY <2>2, <3>1, KeptIs
    <3> QED BY <3>2
  <2> HIDE DEF R, J
  <2> SUFFICES ASSUME Research!LifecycleState(cases) = "ELIGIBLE_FOR_HUMAN_REVIEW"
               PROVE  /\ \A i \in DOMAIN both :
                           Research!Total(Research!Each(Research!BrierDelta, Research!Without(both, i))) > 0
                      /\ \A a \in Research!Qualified(both) :
                           \A i \in DOMAIN Research!OfAsset(both, a) :
                             Research!Total(Research!Each(Research!BrierDelta,
                               Research!Without(Research!OfAsset(both, a), i))) > 0
    BY DEF NoCaseDecides, Research!NoCaseDecides
  <2>4. Research!Decision(cases) = {}
    BY DEF Research!LifecycleState
  <2>5. c.brierLower /\ c.worst
    <3> HIDE DEF c
    <3>1. ASSUME NEW verified, NEW k, NEW stable, NEW complementary,
                 Research!AdmissionReasons(verified, k, stable, complementary) = {}
          PROVE  k.brierLower /\ k.worst
      <4>1. /\ "BRIER_IMPROVEMENT_NOT_STATISTICALLY_ESTABLISHED"
                  \notin Research!AdmissionReasons(verified, k, stable, complementary)
            /\ "CROSS_ASSET_ROBUSTNESS_NOT_ESTABLISHED"
                  \notin Research!AdmissionReasons(verified, k, stable, complementary)
        BY <3>1
      <4> QED BY <4>1 DEF Research!AdmissionReasons
    <3> QED BY <2>4, <3>1 DEF Research!Decision, c
  <2>6. Research!LowerPositive(Research!Each(Research!BrierDelta, both))
    BY <2>5 DEF Research!Comparison
  <2>7. \A a \in Research!Qualified(both) :
          Research!LowerPositive(Research!Each(Research!BrierDelta, Research!OfAsset(both, a)))
    BY <2>5 DEF Research!Comparison
  <2> HIDE DEF both, c
  <2>8. ASSUME NEW v \in Seq(J), NEW i \in DOMAIN v,
               Research!LowerPositive(Research!Each(Research!BrierDelta, v))
        PROVE  Research!Total(Research!Each(Research!BrierDelta, Research!Without(v, i))) > 0
    BY <2>1, <2>8, NoRowDecides DEF Research!Each
  <2> QED BY <2>2, <2>3, <2>6, <2>7, <2>8
<1> QED BY <1>1, CasesAlwaysAre, PTL

-----------------------------------------------------------------------------
\* The programs that learn from history (Backtest, Phases, WalkForward, Replay).

-----------------------------------------------------------------------------
\* Numbers and finite sets.

\* A part of a finite set has fewer members than the set, or is the set.
LEMMA PartIsFewer ==
  ASSUME NEW S, IsFiniteSet(S), NEW A, A \subseteq S
  PROVE  /\ IsFiniteSet(A) /\ Cardinality(A) \in Nat /\ Cardinality(S) \in Nat
         /\ Cardinality(A) <= Cardinality(S)
         /\ A # S => Cardinality(A) < Cardinality(S)
BY FS_Subset, FS_CardinalityType

\* What a function makes of a finite set is finite.
LEMMA ImageIsFinite ==
  ASSUME NEW S, IsFiniteSet(S), NEW f
  PROVE  IsFiniteSet({f[x] : x \in S})
<1> DEFINE T == {f[x] : x \in S}
           g == [x \in S |-> f[x]]
<1>1. g \in Surjection(S, T)
  BY DEF Surjection
<1> QED BY <1>1, FS_Surjection

\* A non-empty set of numbers has a least one, and Min finds it.
LEMMA MinIs ==
  ASSUME NEW S, S \subseteq Nat, S # {}
  PROVE  Min(S) \in S /\ \A y \in S : Min(S) <= y
<1> DEFINE R == {x \in Nat \X Nat : x[1] < x[2]}
<1>1. IsWellFoundedOn(R, Nat)
  BY NatLessThanWellFounded DEF OpToRel
<1>2. PICK i \in S : \A j \in S : <<j, i>> \notin R
  BY <1>1, WFMin
<1>3. \A j \in S : ~(j < i)
  BY <1>2
<1>4. \A j \in S : j \in Nat
  OBVIOUS
<1>5. i \in S /\ \A j \in S : i <= j
  BY <1>2, <1>3, <1>4
<1> QED BY <1>5 DEF Min

\* A non-empty finite one has a greatest, and Max finds it: the least of the
\* numbers with no more above than any other has.
LEMMA MaxIs ==
  ASSUME NEW S, S \subseteq Nat, S # {}, IsFiniteSet(S)
  PROVE  Max(S) \in S /\ \A y \in S : Max(S) >= y
<1> DEFINE Above(x) == {y \in S : y > x}
           N == {Cardinality(Above(x)) : x \in S}
<1>1. \A x \in S : Cardinality(Above(x)) \in Nat
  BY PartIsFewer
<1>2. N \subseteq Nat /\ N # {}
  BY <1>1
<1>3. Min(N) \in N /\ \A n \in N : Min(N) <= n
  BY <1>2, MinIs
<1>4. PICK x \in S : Min(N) = Cardinality(Above(x))
  BY <1>3
<1>0. \A y \in S : y \in Nat
  OBVIOUS
<1>5. \A y \in S : x >= y
  <2> SUFFICES ASSUME NEW y \in S, y > x PROVE FALSE
    BY <1>0
  <2>0. x \in Nat /\ y \in Nat
    BY <1>0
  <2>1. Above(y) \subseteq Above(x) /\ y \in Above(x) /\ y \notin Above(y)
    <3>1. \A z \in S : z > y => z > x
      <4> TAKE z \in S
      <4>1. z \in Nat
        BY <1>0
      <4> QED BY <4>1, <2>0
    <3>2. ~(y > y)
      BY <2>0
    <3> QED BY <3>1, <3>2
  <2>2. IsFiniteSet(Above(x))
    BY PartIsFewer
  <2>3. Cardinality(Above(y)) < Cardinality(Above(x))
    BY <2>1, <2>2, PartIsFewer
  <2>4. Cardinality(Above(y)) \in N
    OBVIOUS
  <2>5. Cardinality(Above(x)) <= Cardinality(Above(y))
    BY <2>4, <1>3, <1>4
  <2>6. Cardinality(Above(x)) \in Nat /\ Cardinality(Above(y)) \in Nat
    BY <1>1
  <2> HIDE DEF Above
  <2> QED BY <2>3, <2>5, <2>6
<1> QED BY <1>5 DEF Max

\* Places are apart that differ in a leading digit, or in a last one.
LEMMA LeadingDigit ==
  ASSUME NEW n \in Nat, NEW a \in Nat, NEW b \in Nat,
         NEW i \in Nat, NEW j \in Nat, i < n, a < b
  PROVE  a * n + i < b * n + j
<1>1. PICK c \in Nat : b = a + 1 + c
  <2>1. b - a - 1 \in Nat
    OBVIOUS
  <2> QED BY <2>1
<1>2. b * n = a * n + n + c * n
  BY <1>1
<1>3. a * n \in Nat /\ c * n \in Nat
  BY <1>1
<1> QED BY <1>2, <1>3

-----------------------------------------------------------------------------
\* Sets in order (WalkForward).

\* The members of S that their numbers put before x.
Under(S, key, x) == {y \in S : key[y] < key[x]}

\* A set whose members have different numbers is listed whole, in their order.
LEMMA ListedIs ==
  ASSUME NEW S, IsFiniteSet(S), NEW key \in [S -> Nat],
         \A x, y \in S : key[x] = key[y] => x = y
  PROVE  /\ Cardinality(S) \in Nat
         /\ DOMAIN Listed(S, key) = 1 .. Cardinality(S)
         /\ \A k \in 1 .. Cardinality(S) :
              /\ Listed(S, key)[k] \in S
              /\ Cardinality(Under(S, key, Listed(S, key)[k])) = k - 1
         /\ \A j, k \in 1 .. Cardinality(S) :
              j < k => key[Listed(S, key)[j]] < key[Listed(S, key)[k]]
<1> DEFINE L == Listed(S, key)
           n == Cardinality(S)
           Below(x) == {y \in S : key[y] < key[x]}
           rank == [x \in S |-> Cardinality(Below(x))]
<1>1. n \in Nat
  BY FS_CardinalityType
<1>2. \A x \in S : Cardinality(Below(x)) \in 0 .. n - 1
  <2> TAKE x \in S
  <2>1. Below(x) \subseteq S /\ x \notin Below(x)
    OBVIOUS
  <2> QED BY <2>1, PartIsFewer
<1>0. \A x \in S : key[x] \in Nat
  OBVIOUS
<1>3. \A x, y \in S : key[x] < key[y] => Cardinality(Below(x)) < Cardinality(Below(y))
  <2> SUFFICES ASSUME NEW x \in S, NEW y \in S, key[x] < key[y]
               PROVE  Cardinality(Below(x)) < Cardinality(Below(y))
    OBVIOUS
  <2>1. Below(x) \subseteq Below(y) /\ x \in Below(y) /\ x \notin Below(x)
    OBVIOUS
  <2>2. IsFiniteSet(Below(y))
    BY PartIsFewer
  <2> QED BY <2>1, <2>2, PartIsFewer
<1>4. rank \in Injection(S, 0 .. n - 1)
  <2>1. rank \in [S -> 0 .. n - 1]
    BY <1>2
  <2>2. \A x, y \in S : rank[x] = rank[y] => x = y
    <3> SUFFICES ASSUME NEW x \in S, NEW y \in S, rank[x] = rank[y] PROVE x = y
      OBVIOUS
    <3>1. Cardinality(Below(x)) = Cardinality(Below(y))
      OBVIOUS
    <3>3. ~(Cardinality(Below(x)) < Cardinality(Below(y)))
          /\ ~(Cardinality(Below(y)) < Cardinality(Below(x)))
      BY <3>1, <1>2
    <3>4. ~(key[x] < key[y]) /\ ~(key[y] < key[x])
      BY <3>3, <1>3
    <3>2. key[x] = key[y]
      BY <3>4, <1>0
    <3> QED BY <3>2
  <2> QED BY <2>1, <2>2 DEF Injection, IsInjective
<1>5. IsFiniteSet(0 .. n - 1) /\ Cardinality(0 .. n - 1) = n
  BY <1>1, FS_Interval
<1>6. rank \in Surjection(S, 0 .. n - 1)
  BY <1>4, <1>5, FS_Injection
<1>7. \A k \in 1 .. n : \E x \in S : Cardinality(Below(x)) = k - 1
  <2> TAKE k \in 1 .. n
  <2>1. k - 1 \in 0 .. n - 1
    BY <1>1
  <2> QED BY <2>1, <1>6 DEF Surjection
<1>8. DOMAIN L = 1 .. n
  BY DEF Listed
<1>9. \A k \in 1 .. n : L[k] \in S /\ Cardinality(Below(L[k])) = k - 1
  <2> TAKE k \in 1 .. n
  <2>1. L[k] = CHOOSE x \in S : Cardinality(Below(x)) = k - 1
    BY DEF Listed
  <2> HIDE DEF L
  <2> QED BY <2>1, <1>7
<1> HIDE DEF L
<1>10. \A j, k \in 1 .. n : j < k => key[L[j]] < key[L[k]]
  <2> SUFFICES ASSUME NEW j \in 1 .. n, NEW k \in 1 .. n, j < k
               PROVE  key[L[j]] < key[L[k]]
    OBVIOUS
  <2>1. L[j] \in S /\ L[k] \in S
    BY <1>9
  <2>2. Cardinality(Below(L[j])) < Cardinality(Below(L[k]))
    BY <1>9, <1>1
  <2>3. ~(key[L[k]] < key[L[j]])
    <3>1. ~(Cardinality(Below(L[k])) < Cardinality(Below(L[j])))
      BY <2>1, <2>2, <1>2
    <3> QED BY <3>1, <2>1, <1>3
  <2>4. key[L[j]] # key[L[k]]
    <3>2. Cardinality(Below(L[j])) \in Nat
      BY <2>1, <1>2
    <3>3. Cardinality(Below(L[j])) # Cardinality(Below(L[k]))
      BY <3>2, <2>2
    <3>1. L[j] # L[k]
      BY <3>3
    <3> QED BY <3>1, <2>1
  <2> QED BY <2>1, <2>3, <2>4, <1>0
<1> QED BY <1>1, <1>8, <1>9, <1>10 DEF L, Under

\* Numbers in order.
LEMMA AscendingIs ==
  ASSUME NEW S, S \subseteq Nat, IsFiniteSet(S)
  PROVE  /\ DOMAIN Ascending(S) = 1 .. Cardinality(S) /\ Cardinality(S) \in Nat
         /\ \A k \in 1 .. Cardinality(S) : Ascending(S)[k] \in S
<1> DEFINE key == [x \in S |-> x]
<1>1. key \in [S -> Nat] /\ \A x, y \in S : key[x] = key[y] => x = y
  OBVIOUS
<1> HIDE DEF key
<1>2. Ascending(S) = Listed(S, key)
  BY DEF Ascending, key
<1> QED BY <1>1, <1>2, ListedIs

\* The members of a set of numbers up to one.
UpTo(S, x) == {y \in S : y <= x}

\* Each number of members up to some of a set is reached by one of them.
LEMMA RankIsReached ==
  ASSUME NEW S, S \subseteq Nat, IsFiniteSet(S), NEW k \in 1 .. Cardinality(S)
  PROVE  \E x \in S : Cardinality(UpTo(S, x)) = k
<1> DEFINE key == [x \in S |-> x]
           x == Listed(S, key)[k]
           B == Under(S, key, x)
<1>1. key \in [S -> Nat] /\ \A a, b \in S : key[a] = key[b] => a = b
  OBVIOUS
<1> HIDE DEF key
<1>2. x \in S /\ Cardinality(B) = k - 1 /\ Cardinality(S) \in Nat
  BY <1>1, ListedIs
<1>6. \A y \in S : key[y] = y /\ y \in Nat
  BY DEF key
<1> HIDE DEF x
<1>7. x \in Nat /\ key[x] = x
  BY <1>2, <1>6
<1>3. UpTo(S, x) = B \cup {x} /\ x \notin B
  <2>1. \A y \in S : y <= x <=> (key[y] < key[x] \/ y = x)
    <3> TAKE y \in S
    <3>1. y \in Nat /\ key[y] = y
      BY <1>6
    <3> QED BY <3>1, <1>7
  <2>2. ~(key[x] < key[x])
    BY <1>7
  <2> QED BY <2>1, <2>2, <1>2 DEF Under, UpTo
<1>4. IsFiniteSet(B)
  BY PartIsFewer DEF Under
<1>5. Cardinality(B \cup {x}) = Cardinality(B) + 1
  BY <1>3, <1>4, FS_AddElement
<1>8. Cardinality(UpTo(S, x)) = k
  BY <1>2, <1>3, <1>5
<1> QED BY <1>2, <1>8

\* Fewer members up to one than up to another: the one is less.
LEMMA RankOrders ==
  ASSUME NEW S, S \subseteq Nat, IsFiniteSet(S), NEW v \in S, NEW w \in S,
         Cardinality(UpTo(S, v)) < Cardinality(UpTo(S, w))
  PROVE  v < w
<1>0. \A y \in S : y \in Nat
  OBVIOUS
<1> SUFFICES ASSUME w <= v PROVE FALSE
  BY <1>0
<1>1. UpTo(S, w) \subseteq UpTo(S, v)
  <2>1. \A y \in S : y <= w => y <= v
    <3> TAKE y \in S
    <3>1. y \in Nat /\ w \in Nat /\ v \in Nat
      BY <1>0
    <3> QED BY <3>1
  <2> QED BY <2>1 DEF UpTo
<1>2. IsFiniteSet(UpTo(S, v))
  BY PartIsFewer DEF UpTo
<1> QED BY <1>1, <1>2, PartIsFewer

\* The members of a set of numbers that are above one.
Over(S, x) == {y \in S : y > x}

\* What Latest leaves out comes before what it takes.
LEMMA LatestIsLater ==
  ASSUME NEW S, S \subseteq Nat, IsFiniteSet(S), NEW n \in Int,
         NEW v \in S, NEW w \in S,
         ~(Cardinality(Over(S, v)) < n), Cardinality(Over(S, w)) < n
  PROVE  v < w
<1>0. \A y \in S : y \in Nat
  OBVIOUS
<1> SUFFICES ASSUME w <= v PROVE FALSE
  BY <1>0
<1>1. Over(S, v) \subseteq Over(S, w)
  <2>1. \A y \in S : y > v => y > w
    <3> TAKE y \in S
    <3>1. y \in Nat /\ w \in Nat /\ v \in Nat
      BY <1>0
    <3> QED BY <3>1
  <2> QED BY <2>1 DEF Over
<1>2. IsFiniteSet(Over(S, w)) /\ IsFiniteSet(Over(S, v))
  BY PartIsFewer DEF Over
<1>3. Cardinality(Over(S, v)) <= Cardinality(Over(S, w))
  BY <1>1, <1>2, PartIsFewer
<1> QED BY <1>2, <1>3, PartIsFewer

-----------------------------------------------------------------------------
\* Tables and their windows (WalkForward).

\* A table whose rows have windows.
IsTable(tab) ==
  Len(tab) \in Nat /\ \A i \in 1 .. Len(tab) : tab[i].window \in Nat

\* The windows of some rows of a table are finitely many numbers.
LEMMA WindowsAreNumbers ==
  ASSUME NEW tab, IsTable(tab), NEW R, R \subseteq 1 .. Len(tab)
  PROVE  /\ IsFiniteSet(R)
         /\ WindowsOf(tab, R) \subseteq Nat /\ IsFiniteSet(WindowsOf(tab, R))
         /\ Cardinality(WindowsOf(tab, R)) \in Nat
         /\ \A i \in R : tab[i].window \in WindowsOf(tab, R)
<1> DEFINE f == [i \in R |-> tab[i].window]
<1>1. IsFiniteSet(R)
  <2>1. 1 \in Int /\ Len(tab) \in Int
    BY DEF IsTable
  <2>2. IsFiniteSet(1 .. Len(tab))
    BY <2>1, FS_Interval
  <2> QED BY <2>2, PartIsFewer
<1>2. WindowsOf(tab, R) = {f[i] : i \in R}
  BY DEF WindowsOf
<1>3. \A i \in R : f[i] \in Nat
  BY DEF IsTable
<1> HIDE DEF f
<1>4. WindowsOf(tab, R) \subseteq Nat /\ IsFiniteSet(WindowsOf(tab, R))
  <2>1. IsFiniteSet({f[i] : i \in R})
    BY <1>1, ImageIsFinite
  <2>2. {f[i] : i \in R} \subseteq Nat
    BY <1>3
  <2> QED BY <1>2, <2>1, <2>2
<1> QED BY <1>1, <1>4, FS_CardinalityType DEF WindowsOf

\* What rounding gives is a number.
LEMMA RoundedIs ==
  ASSUME NEW n \in Nat, NEW d \in Nat \ {0}
  PROVE  Rounded(n, d) \in Int
<1> DEFINE q == n \div d
<1>1. q \in Int
  OBVIOUS
<1> HIDE DEF q
<1>2. Rounded(n, d) = q \/ Rounded(n, d) = q + 1
  BY DEF Rounded, q
<1> QED BY <1>1, <1>2

\* Rows of the last windows follow the others.
LEMMA LatestFollow ==
  ASSUME NEW S, S \subseteq Nat, IsFiniteSet(S), NEW every \in Nat \ {0}
  PROVE  /\ Latest(S, every) \subseteq S
         /\ \A v \in S \ Latest(S, every), w \in Latest(S, every) : v < w
<1> DEFINE r == Rounded(Cardinality(S), every)
           n == IF r = 0 THEN 1 ELSE r
<1>1. r \in Int
  BY RoundedIs, FS_CardinalityType
<1>2. n \in Int
  BY <1>1
<1> HIDE DEF r
<1>3. Latest(S, every) = {w \in S : Cardinality(Over(S, w)) < n}
  BY DEF Latest, Over, r
<1> HIDE DEF n
<1>4. \A v \in S, w \in S :
        ~(Cardinality(Over(S, v)) < n) /\ Cardinality(Over(S, w)) < n
          => v < w
  <2> SUFFICES ASSUME NEW v \in S, NEW w \in S,
                      ~(Cardinality(Over(S, v)) < n),
                      Cardinality(Over(S, w)) < n
               PROVE  v < w
    OBVIOUS
  <2> QED BY <1>2, LatestIsLater
<1> QED BY <1>3, <1>4

\* The rows held out follow the others.
LEMMA HoldoutFollows ==
  ASSUME NEW tab, IsTable(tab), HoldoutEvery \in Nat \ {0}
  PROVE  /\ Holdout(tab) \subseteq 1 .. Len(tab)
         /\ \A i \in (1 .. Len(tab)) \ Holdout(tab), j \in Holdout(tab) :
              tab[i].window < tab[j].window
<1> DEFINE W == WindowsOf(tab, 1 .. Len(tab))
<1>1. W \subseteq Nat /\ IsFiniteSet(W)
      /\ \A i \in 1 .. Len(tab) : tab[i].window \in W
  BY WindowsAreNumbers
<1> HIDE DEF W
<1>2. \A v \in W \ Latest(W, HoldoutEvery), w \in Latest(W, HoldoutEvery) : v < w
  BY <1>1, LatestFollow
<1>3. Holdout(tab) = {i \in 1 .. Len(tab) : tab[i].window \in Latest(W, HoldoutEvery)}
  BY DEF Holdout, Positions, W
<1> QED BY <1>1, <1>2, <1>3

\* The rows that calibrate follow those that fit.
LEMMA CalibrationFollows ==
  ASSUME NEW tab, IsTable(tab), CalEvery \in Nat \ {0},
         NEW train, train \subseteq 1 .. Len(tab)
  PROVE  /\ Calibration(tab, train) \subseteq train
         /\ \A i \in train \ Calibration(tab, train), j \in Calibration(tab, train) :
              tab[i].window < tab[j].window
<1> DEFINE W == WindowsOf(tab, train)
<1>1. W \subseteq Nat /\ IsFiniteSet(W) /\ \A i \in train : tab[i].window \in W
  BY WindowsAreNumbers
<1>2. CASE Cardinality(W) < MinCalGroups
  BY <1>2 DEF Calibration
<1>3. CASE ~(Cardinality(W) < MinCalGroups)
  <2>1. Calibration(tab, train) = {i \in train : tab[i].window \in Latest(W, CalEvery)}
    BY <1>3 DEF Calibration
  <2> HIDE DEF W
  <2>2. \A v \in W \ Latest(W, CalEvery), w \in Latest(W, CalEvery) : v < w
    BY <1>1, LatestFollow
  <2> QED BY <1>1, <2>1, <2>2
<1> QED BY <1>2, <1>3

\* The number of items of a block, and where a block of items starts.
LEMMA BlocksFollow ==
  ASSUME NEW n \in Nat, NEW folds \in Nat \ {0}, NEW fold \in Nat
  PROVE  /\ n \div folds \in Nat /\ fold * (n \div folds) \in Nat
         /\ n \div folds # 0 /\ fold < folds =>
              /\ fold * (n \div folds) + 1 <= n
              /\ fold * (n \div folds) + 1 <= (fold + 1) * (n \div folds)
<1> DEFINE q == n \div folds
<1>1. q \in Nat /\ folds * q <= n
  OBVIOUS
<1> HIDE DEF q
<1>2. fold * q \in Nat
  BY <1>1
<1>3. ASSUME q # 0, fold < folds
      PROVE  fold * q + 1 <= n /\ fold * q + 1 <= (fold + 1) * q
  <2>1. (fold + 1) * q = fold * q + q
    BY <1>1
  <2>2. PICK d \in Nat : folds = fold + 1 + d
    <3>1. folds - fold - 1 \in Nat
      BY <1>3
    <3> QED BY <3>1
  <2>3. folds * q = fold * q + q + d * q /\ d * q \in Nat
    BY <1>1, <2>2
  <2> QED BY <1>1, <1>2, <1>3, <2>1, <2>3
<1> QED BY <1>1, <1>2, <1>3 DEF q

\* Rows whose windows are among the first m come before those whose are not.
LEMMA FirstWindowsFirst ==
  ASSUME NEW tab, IsTable(tab), NEW dev, dev \subseteq 1 .. Len(tab),
         NEW m \in Nat, NEW i \in dev, NEW j \in dev,
         Cardinality(UpTo(WindowsOf(tab, dev), tab[i].window)) <= m,
         Cardinality(UpTo(WindowsOf(tab, dev), tab[j].window)) >= m + 1
  PROVE  tab[i].window < tab[j].window
<1> DEFINE W == WindowsOf(tab, dev)
           v == tab[i].window
           w == tab[j].window
<1>1. W \subseteq Nat /\ IsFiniteSet(W) /\ v \in W /\ w \in W
  BY WindowsAreNumbers
<1> HIDE DEF W, v, w
<1>2. Cardinality(UpTo(W, v)) \in Nat /\ Cardinality(UpTo(W, w)) \in Nat
  BY <1>1, PartIsFewer DEF UpTo
<1>3. Cardinality(UpTo(W, v)) <= m /\ Cardinality(UpTo(W, w)) >= m + 1
  BY DEF W, v, w
<1>4. Cardinality(UpTo(W, v)) < Cardinality(UpTo(W, w))
  BY <1>2, <1>3
<1>5. v < w
  BY <1>1, <1>4, RankOrders
<1> QED BY <1>5 DEF v, w

\* The rows of a fold: what it trains on comes before what it tests.
LEMMA GroupedFollows ==
  ASSUME NEW tab, IsTable(tab), NEW dev, dev \subseteq 1 .. Len(tab),
         Folds \in Nat \ {0}, NEW fold \in Nat
  PROVE  /\ GroupedFold(tab, dev, fold).train \subseteq dev
         /\ GroupedFold(tab, dev, fold).test \subseteq dev
         /\ \A i \in GroupedFold(tab, dev, fold).train,
               j \in GroupedFold(tab, dev, fold).test :
              tab[i].window < tab[j].window
<1> DEFINE W == WindowsOf(tab, dev)
           q == Cardinality(W) \div Folds
           s == GroupedFold(tab, dev, fold)
           to == IF fold = Folds - 1 THEN Cardinality(W) ELSE (fold + 1) * q
<1>1. Cardinality(W) \in Nat
  BY WindowsAreNumbers
<1>2. fold * q \in Nat
  BY <1>1, BlocksFollow
<1>3. Block(Cardinality(W), fold) = fold * q + 1 .. to
  BY DEF Block
<1>4. /\ s.train \subseteq dev
      /\ \A i \in s.train : Cardinality(UpTo(W, tab[i].window)) <= fold * q
  BY DEF GroupedFold, UpTo
<1>5. /\ s.test \subseteq dev
      /\ \A i \in s.test : Cardinality(UpTo(W, tab[i].window)) \in fold * q + 1 .. to
  BY <1>3 DEF GroupedFold, UpTo
<1> HIDE DEF q, to, s
<1>6. \A i \in s.test : Cardinality(UpTo(W, tab[i].window)) >= fold * q + 1
  BY <1>2, <1>5
<1>7. \A i \in s.train, j \in s.test : tab[i].window < tab[j].window
  BY <1>2, <1>4, <1>5, <1>6, FirstWindowsFirst
<1> QED BY <1>4, <1>5, <1>7 DEF s

-----------------------------------------------------------------------------
\* The research programs (Phases).

\* Their tables are divided by the same operators.
LEMMA SameTables ==
  /\ \A S : Ph!Cardinality(S) = Cardinality(S) /\ Ph!Min(S) = Min(S)
  /\ \A tab : Ph!Positions(tab) = 1 .. Len(tab)
  /\ \A tab, R : Ph!WindowsOf(tab, R) = WindowsOf(tab, R)
  /\ \A tab : Ph!Holdout(tab) = Holdout(tab)
  /\ \A tab, R : Ph!Calibration(tab, R) = Calibration(tab, R)
<1>5. \A S : Ph!Cardinality(S) = Cardinality(S) /\ Ph!Min(S) = Min(S)
  BY DEF Ph!Cardinality, Cardinality, Ph!Min, Min
<1>1. \A tab : Ph!Positions(tab) = 1 .. Len(tab)
  BY DEF Ph!Positions
<1>2. \A tab, R : Ph!WindowsOf(tab, R) = WindowsOf(tab, R)
  BY DEF Ph!WindowsOf, WindowsOf
<1>3. \A tab : Ph!Holdout(tab) = Holdout(tab)
  BY DEF Ph!Holdout, Ph!Positions, Ph!WindowsOf, Ph!Latest, Ph!Rounded,
         Ph!Cardinality, Holdout, Positions, WindowsOf, Latest, Rounded, Cardinality
<1>4. \A tab, R : Ph!Calibration(tab, R) = Calibration(tab, R)
  BY DEF Ph!Calibration, Ph!WindowsOf, Ph!Latest, Ph!Rounded,
         Ph!Cardinality, Calibration, WindowsOf, Latest, Rounded, Cardinality
<1> QED BY <1>1, <1>2, <1>3, <1>4, <1>5

\* A fold of theirs trains on what comes before what it tests.
LEMMA PhaseFoldFollows ==
  ASSUME NEW tab, IsTable(tab), NEW dev, dev \subseteq 1 .. Len(tab),
         PhaseFolds \in Nat \ {0}, NEW fold \in Nat
  PROVE  /\ Ph!GroupedFold(tab, dev, fold).train \subseteq dev
         /\ Ph!GroupedFold(tab, dev, fold).test \subseteq dev
         /\ \A i \in Ph!GroupedFold(tab, dev, fold).train,
               j \in Ph!GroupedFold(tab, dev, fold).test :
              tab[i].window < tab[j].window
<1> DEFINE W == WindowsOf(tab, dev)
           q == Cardinality(W) \div PhaseFolds
           s == Ph!GroupedFold(tab, dev, fold)
           to == IF fold = PhaseFolds - 1 THEN Cardinality(W) ELSE (fold + 1) * q
<1>1. Cardinality(W) \in Nat /\ W = Ph!WindowsOf(tab, dev)
  BY WindowsAreNumbers, SameTables
<1>2. fold * q \in Nat
  BY <1>1, BlocksFollow
<1>3. Ph!Block(Cardinality(W), fold) = fold * q + 1 .. to
  BY DEF Ph!Block
<1>4. /\ s.train \subseteq dev
      /\ \A i \in s.train : Cardinality(UpTo(W, tab[i].window)) <= fold * q
  BY <1>1, SameTables DEF Ph!GroupedFold, UpTo
<1>5. /\ s.test \subseteq dev
      /\ \A i \in s.test : Cardinality(UpTo(W, tab[i].window)) \in fold * q + 1 .. to
  BY <1>1, <1>3, SameTables DEF Ph!GroupedFold, UpTo
<1> HIDE DEF q, to, s
<1>6. \A i \in s.test : Cardinality(UpTo(W, tab[i].window)) >= fold * q + 1
  BY <1>2, <1>5
<1>7. \A i \in s.train, j \in s.test : tab[i].window < tab[j].window
  BY <1>2, <1>4, <1>5, <1>6, FirstWindowsFirst
<1> QED BY <1>4, <1>5, <1>7 DEF s

\* It tests at least one row.
LEMMA PhaseFoldTests ==
  ASSUME NEW tab, IsTable(tab), NEW dev, dev \subseteq 1 .. Len(tab),
         PhaseFolds \in Nat \ {0}, NEW fold \in 1 .. PhaseFolds - 1,
         Cardinality(WindowsOf(tab, dev)) \div PhaseFolds # 0
  PROVE  Ph!GroupedFold(tab, dev, fold).test # {}
<1> DEFINE W == WindowsOf(tab, dev)
           n == Cardinality(W)
           q == n \div PhaseFolds
           k == fold * q + 1
<1>1. n \in Nat /\ W = Ph!WindowsOf(tab, dev) /\ W \subseteq Nat /\ IsFiniteSet(W)
  BY WindowsAreNumbers, SameTables
<1>2. fold * q \in Nat /\ k <= n /\ k <= (fold + 1) * q
  <2>1. fold \in Nat /\ fold < PhaseFolds
    OBVIOUS
  <2> HIDE DEF n
  <2> QED BY <1>1, <2>1, BlocksFollow DEF n
<1>3. k \in Ph!Block(n, fold)
  <2>1. k \in Int /\ (fold + 1) * q \in Int
    BY <1>1, <1>2
  <2> QED BY <1>1, <1>2, <2>1 DEF Ph!Block
<1>4. k \in 1 .. n
  BY <1>1, <1>2
<1> HIDE DEF k
<1>5. PICK w \in W : Cardinality(UpTo(W, w)) = k
  BY <1>1, <1>4, RankIsReached
<1>6. PICK i \in dev : tab[i].window = w
  BY <1>5 DEF WindowsOf
<1>7. i \in Ph!GroupedFold(tab, dev, fold).test
  BY <1>1, <1>3, <1>5, <1>6, SameTables DEF Ph!GroupedFold, UpTo
<1> QED BY <1>7

\* A table the programs read is one.
LEMMA TablesAreTables ==
  ASSUME NEW t \in Tables
  PROVE  IsTable(t) /\ \A i \in 1 .. Len(t) : t[i] \in Ph!RowType
<1>1. t \in Seq(Ph!RowType)
  BY PhaseAssumption DEF Ph!PhaseConstants
<1>2. Len(t) \in Nat /\ \A i \in 1 .. Len(t) : t[i] \in Ph!RowType
  BY <1>1
<1> QED BY <1>2 DEF IsTable, Ph!RowType

\* What the research programs assume of their constants.
LEMMA PhaseNumbers ==
  /\ PhaseFolds \in Nat \ {0} /\ HoldoutEvery \in Nat \ {0} /\ CalEvery \in Nat \ {0}
  /\ None \notin Ph!Programs /\ Ph!Normal \notin Ph!Models
  /\ DOMAIN Challengers \subseteq Nat
BY PhaseAssumption DEF Ph!PhaseConstants, Ph!SplitConstants

\* A row comes before another when its window does.
Earlier(t, tab, later) == \A i \in tab, j \in later : t[i].window < t[j].window

\* Rows held out follow those of development.
LEMMA DevFirst ==
  ASSUME table \in Tables
  PROVE  /\ Ph!Dev \subseteq 1 .. Len(table) /\ Ph!Dev \cap Holdout(table) = {}
         /\ Holdout(table) \subseteq 1 .. Len(table)
         /\ Earlier(table, Ph!Dev, Holdout(table))
<1>1. Ph!Dev = (1 .. Len(table)) \ Holdout(table)
  BY SameTables DEF Ph!Dev
<1>2. /\ Holdout(table) \subseteq 1 .. Len(table)
      /\ \A i \in (1 .. Len(table)) \ Holdout(table), j \in Holdout(table) :
           table[i].window < table[j].window
  BY TablesAreTables, HoldoutFollows, PhaseNumbers
<1> QED BY <1>1, <1>2 DEF Earlier

\* Each fold is of development rows, and tests some that follow those it trains on.
LEMMA SplitsFollow ==
  ASSUME table \in Tables
  PROVE  \A s \in Ph!Splits : /\ s.train \subseteq Ph!Dev /\ s.test \subseteq Ph!Dev
                              /\ s.test # {} /\ Earlier(table, s.train, s.test)
<1> DEFINE dev == Ph!Dev
<1>1. IsTable(table) /\ dev \subseteq 1 .. Len(table)
  BY TablesAreTables, DevFirst
<1> HIDE DEF dev
<1> SUFFICES ASSUME NEW s \in Ph!GroupedWalkForward(table, dev)
             PROVE  /\ s.train \subseteq dev /\ s.test \subseteq dev
                    /\ s.test # {} /\ Earlier(table, s.train, s.test)
  BY DEF Ph!Splits, dev
<1>2. Cardinality(WindowsOf(table, dev)) \div PhaseFolds # 0
  BY SameTables DEF Ph!GroupedWalkForward
<1>3. PICK fold \in 1 .. PhaseFolds - 1 : s = Ph!GroupedFold(table, dev, fold)
  BY <1>2, SameTables DEF Ph!GroupedWalkForward
<1>4. fold \in Nat
  OBVIOUS
<1>5. s.test # {}
  BY <1>1, <1>2, <1>3, PhaseFoldTests, PhaseNumbers
<1>6. /\ s.train \subseteq dev /\ s.test \subseteq dev
      /\ \A i \in s.train, j \in s.test : table[i].window < table[j].window
  BY <1>1, <1>3, <1>4, PhaseFoldFollows, PhaseNumbers
<1> QED BY <1>5, <1>6 DEF Earlier

\* What is tested is of development rows.
LEMMA TestsAreDev ==
  ASSUME table \in Tables
  PROVE  Ph!TestRows \subseteq Ph!Dev
BY SplitsFollow DEF Ph!TestRows

\* The block that phase 5 fits on comes before all that any fold tests.
LEMMA FitBlockFirst ==
  ASSUME table \in Tables, Ph!Splits # {}
  PROVE  Ph!FitBlock \subseteq Ph!Dev /\ Earlier(table, Ph!FitBlock, Ph!TestRows)
<1> DEFINE First(s) == Min(WindowsOf(table, s.test))
           F == {First(s) : s \in Ph!Splits}
           b == CHOOSE s \in Ph!Splits : \A t \in Ph!Splits : First(s) <= First(t)
<1>1. \A s \in Ph!Splits :
        /\ First(s) \in Nat
        /\ \E j \in s.test : table[j].window = First(s)
        /\ \A j \in s.test : First(s) <= table[j].window /\ table[j].window \in Nat
  <2> TAKE s \in Ph!Splits
  <2>1. s.test \subseteq 1 .. Len(table) /\ s.test # {} /\ IsTable(table)
    BY SplitsFollow, DevFirst, TablesAreTables
  <2> DEFINE W == WindowsOf(table, s.test)
  <2>2. W \subseteq Nat /\ \A j \in s.test : table[j].window \in W
    BY <2>1, WindowsAreNumbers
  <2>3. W # {}
    BY <2>1, <2>2
  <2>4. Min(W) \in W /\ \A y \in W : Min(W) <= y
    BY <2>2, <2>3, MinIs
  <2>5. \E j \in s.test : table[j].window = Min(W)
    BY <2>4 DEF WindowsOf
  <2> HIDE DEF W
  <2>6. Min(W) \in Nat /\ \A j \in s.test : Min(W) <= table[j].window /\ table[j].window \in Nat
    BY <2>2, <2>4
  <2> QED BY <2>5, <2>6 DEF W
<1>2. Ph!FitBlock = b.train
  BY SameTables DEF Ph!FitBlock
<1> HIDE DEF First
<1>3. F \subseteq Nat /\ F # {}
  BY <1>1
<1>4. Min(F) \in F /\ \A y \in F : Min(F) <= y
  BY <1>3, MinIs
<1>5. \E s \in Ph!Splits : \A t \in Ph!Splits : First(s) <= First(t)
  BY <1>4
<1>6. b \in Ph!Splits /\ \A t \in Ph!Splits : First(b) <= First(t)
  BY <1>5
<1> HIDE DEF b
<1>7. b.train \subseteq Ph!Dev /\ Earlier(table, b.train, b.test)
  BY <1>6, SplitsFollow
<1>8. ASSUME NEW i \in b.train, NEW j \in Ph!TestRows
      PROVE  table[i].window < table[j].window
  <2>1. PICK t \in Ph!Splits : j \in t.test
    BY DEF Ph!TestRows
  <2>2. PICK k \in b.test : table[k].window = First(b)
    BY <1>1, <1>6
  <2>3. table[i].window < First(b)
    BY <1>7, <2>2 DEF Earlier
  <2>4. First(b) <= First(t) /\ First(t) <= table[j].window
    BY <1>1, <1>6, <2>1
  <2>5. First(b) \in Nat /\ First(t) \in Nat /\ table[j].window \in Nat
    BY <1>1, <1>6, <2>1
  <2>6. table[i].window \in Nat
    BY <1>7, DevFirst, TablesAreTables DEF IsTable
  <2> QED BY <2>3, <2>4, <2>5, <2>6
<1> QED BY <1>2, <1>7, <1>8 DEF Earlier

\* What a judgement must be: it learned from rows before those it judged, and,
\* if it is not one the rows held out were asked for, was chosen on rows before
\* those held out.
IsSound(t, s) ==
  /\ Earlier(t, s.learned, s.judged)
  /\ s.of \notin Ph!OfTheHoldout /\ s.judged \cap Holdout(t) # {} =>
       Earlier(t, s.chosenBy, s.judged)

\* What a thing fitted or chosen must be: of development rows, and of what it has
\* seen of their values, with the exceptions the property names.
IsKept(m) ==
  /\ m.what \notin Ph!OfTheHoldout => m.from \subseteq Ph!Dev
  /\ m.what \notin Ph!OfTheHoldout \cup Ph!OfTheFeatures => m.seen \subseteq Ph!Dev

Exempt == {"monte_carlo", "agreement"}

PhaseTypes ==
  /\ program \in Ph!Programs \cup {None} /\ step \in Nat /\ begun \in Nat
  /\ program # None => table \in Tables /\ step \in 1 .. Len(Ph!Steps(program))
  /\ program = "phase4" => chosen \in Ph!Models \cup {Ph!Normal}

RowsApart ==
  /\ program = None => scores = {} /\ fitted = {}
  /\ \A s \in scores : s.of \notin Exempt \/ program = "phase4" => IsSound(table, s)
  /\ program = "phase4" /\ step <= 5 =>
       \A s \in scores : s.judged \cap Holdout(table) = {}
  /\ program # None => \A m \in fitted : IsKept(m)

\* Where each program is, by the name of its step.
LEMMA StepsAre ==
  /\ Len(Ph!Steps("phase4")) = 9 /\ Len(Ph!Steps("phase5")) = 8
  /\ Len(Ph!Steps("phase6")) = 7
  /\ \A k \in 1 .. 9 :
       /\ Ph!Steps("phase4")[k] = "walk" => k = 1
       /\ Ph!Steps("phase4")[k] = "pair" => k = 2
       /\ Ph!Steps("phase4")[k] = "ablate" => k = 3
       /\ Ph!Steps("phase4")[k] = "choose" => k = 4
       /\ Ph!Steps("phase4")[k] = "slice" => k = 5
       /\ Ph!Steps("phase4")[k] = "final" => k = 6
       /\ Ph!Steps("phase4")[k] = "model" => k = 7
       /\ Ph!Steps("phase4")[k] = "coefficients" => k = 8
       /\ Ph!Steps("phase4")[k] = "summary4" => k = 9
  /\ \A k \in 1 .. 8 :
       /\ Ph!Steps("phase5")[k] \in {"pools", "paths", "channels", "agree",
                                     "fragility", "volatility"} => k < 7
       /\ Ph!Steps("phase5")[k] = "summary5" => k = 7
       /\ Ph!Steps("phase5")[k] = "report5" => k = 8
  /\ \A k \in 1 .. 7 :
       /\ Ph!Steps("phase6")[k] \in {"select", "score"} => k < 3
       /\ Ph!Steps("phase6")[k] = "entries" => k = 3
       /\ Ph!Steps("phase6")[k] = "frontier" => k = 4
       /\ Ph!Steps("phase6")[k] = "candidates" => k = 5
       /\ Ph!Steps("phase6")[k] = "summary6" => k = 6
       /\ Ph!Steps("phase6")[k] = "reports6" => k = 7
<1> DEFINE a == Ph!Steps("phase4")
           b == Ph!Steps("phase5")
           c == Ph!Steps("phase6")
<1>1. /\ Len(a) = 9 /\ a[1] = "walk" /\ a[2] = "pair" /\ a[3] = "ablate"
      /\ a[4] = "choose" /\ a[5] = "slice" /\ a[6] = "final" /\ a[7] = "model"
      /\ a[8] = "coefficients" /\ a[9] = "summary4"
  BY DEF Ph!Steps
<1>2. /\ Len(b) = 8 /\ b[1] = "pools" /\ b[2] = "paths" /\ b[3] = "channels"
      /\ b[4] = "agree" /\ b[5] = "fragility" /\ b[6] = "volatility"
      /\ b[7] = "summary5" /\ b[8] = "report5"
  BY DEF Ph!Steps
<1>3. /\ Len(c) = 7 /\ c[1] = "select" /\ c[2] = "score" /\ c[3] = "entries"
      /\ c[4] = "frontier" /\ c[5] = "candidates" /\ c[6] = "summary6"
      /\ c[7] = "reports6"
  BY DEF Ph!Steps
<1>4. /\ 1 .. 9 = {1, 2, 3, 4, 5, 6, 7, 8, 9} /\ 1 .. 8 = {1, 2, 3, 4, 5, 6, 7, 8}
      /\ 1 .. 7 = {1, 2, 3, 4, 5, 6, 7}
  OBVIOUS
<1> HIDE DEF a, b, c
<1>5. \A k \in 1 .. 9 :
       /\ a[k] = "walk" => k = 1
       /\ a[k] = "pair" => k = 2
       /\ a[k] = "ablate" => k = 3
       /\ a[k] = "choose" => k = 4
       /\ a[k] = "slice" => k = 5
       /\ a[k] = "final" => k = 6
       /\ a[k] = "model" => k = 7
       /\ a[k] = "coefficients" => k = 8
       /\ a[k] = "summary4" => k = 9
  BY <1>1, <1>4
<1>6. \A k \in 1 .. 8 :
       /\ b[k] \in {"pools", "paths", "channels", "agree",
                    "fragility", "volatility"} => k < 7
       /\ b[k] = "summary5" => k = 7
       /\ b[k] = "report5" => k = 8
  BY <1>2, <1>4
<1>7. \A k \in 1 .. 7 :
       /\ c[k] \in {"select", "score"} => k < 3
       /\ c[k] = "entries" => k = 3
       /\ c[k] = "frontier" => k = 4
       /\ c[k] = "candidates" => k = 5
       /\ c[k] = "summary6" => k = 6
       /\ c[k] = "reports6" => k = 7
  BY <1>3, <1>4
<1> QED BY <1>1, <1>2, <1>3, <1>5, <1>6, <1>7 DEF a, b, c

\* A step that only judges: where it is, and that the program goes on.
LEMMA JudgingAdvances ==
  ASSUME PhaseTypes,
         \/ Ph!WalkModels \/ Ph!Pair \/ Ph!Ablate \/ Ph!Choose \/ Ph!Slice \/ Ph!Final
         \/ Ph!BuildPools \/ Ph!SimulatePaths \/ Ph!CompareChannels \/ Ph!Agree
         \/ Ph!CompareFragility \/ Ph!CompareVolatility
         \/ Ph!SelectPolicies \/ Ph!ScoreHoldout
  PROVE  /\ program \in Ph!Programs /\ Ph!Advance /\ disk' = disk
         /\ step < Len(Ph!Steps(program))
         /\ program = "phase4" => step <= 6 /\ chosen' \in Ph!Models \cup {Ph!Normal}
         /\ program = "phase5" => step < 7
         /\ program = "phase6" => step < 3
<1>0. /\ program \in Ph!Programs \cup {None} /\ step \in Nat
      /\ program # None => table \in Tables /\ step \in 1 .. Len(Ph!Steps(program))
      /\ program = "phase4" => chosen \in Ph!Models \cup {Ph!Normal}
      /\ None # "phase4" /\ None # "phase5" /\ None # "phase6"
  BY PhaseNumbers DEF PhaseTypes, Ph!Programs
<1>1. ASSUME Ph!At("phase4", "walk") \/ Ph!At("phase4", "pair") \/ Ph!At("phase4", "ablate")
             \/ Ph!At("phase4", "choose") \/ Ph!At("phase4", "slice") \/ Ph!At("phase4", "final")
      PROVE  program = "phase4" /\ step <= 6 /\ step < Len(Ph!Steps(program))
  <2>1. program = "phase4" /\ Ph!Steps("phase4")[step]
          \in {"walk", "pair", "ablate", "choose", "slice", "final"}
    BY <1>1 DEF Ph!At
  <2>2. Len(Ph!Steps("phase4")) = 9 /\ step \in 1 .. 9
    BY <1>0, <2>1, StepsAre
  <2>3. step \in {1, 2, 3, 4, 5, 6}
    BY <2>1, <2>2, StepsAre
  <2>4. Len(Ph!Steps(program)) = 9
    BY <2>1, <2>2
  <2>5. step <= 6 /\ step < 9
    BY <2>3
  <2> QED BY <2>1, <2>4, <2>5
<1>2. ASSUME Ph!At("phase5", "pools") \/ Ph!At("phase5", "paths") \/ Ph!At("phase5", "channels")
             \/ Ph!At("phase5", "agree") \/ Ph!At("phase5", "fragility")
             \/ Ph!At("phase5", "volatility")
      PROVE  program = "phase5" /\ step < 7 /\ step < Len(Ph!Steps(program))
  BY <1>0, <1>2, StepsAre DEF Ph!At
<1>3. ASSUME Ph!At("phase6", "select") \/ Ph!At("phase6", "score")
      PROVE  program = "phase6" /\ step < 3 /\ step < Len(Ph!Steps(program))
  BY <1>0, <1>3, StepsAre DEF Ph!At
<1>4. CASE Ph!WalkModels \/ Ph!Pair \/ Ph!Ablate \/ Ph!Slice \/ Ph!Final
  BY <1>0, <1>1, <1>4 DEF Ph!WalkModels, Ph!Pair, Ph!Ablate, Ph!Slice, Ph!Final, Ph!Programs
<1>5. CASE Ph!Choose
  <2> DEFINE winners == {k \in DOMAIN Challengers : verdict[Challengers[k]] = "better"}
  <2>1. chosen' = IF winners = {} THEN Ph!Normal ELSE Challengers[Ph!Min(winners)]
    BY <1>5 DEF Ph!Choose
  <2>2. winners # {} => Ph!Min(winners) \in DOMAIN Challengers
    <3>1. winners \subseteq Nat
      BY PhaseNumbers
    <3> QED BY <3>1, MinIs, SameTables
  <2> HIDE DEF winners
  <2>3. chosen' \in Ph!Models \cup {Ph!Normal}
    BY <2>1, <2>2 DEF Ph!Models
  <2> QED BY <1>0, <1>1, <1>5, <2>3 DEF Ph!Choose, Ph!Programs
<1>6. CASE \/ Ph!BuildPools \/ Ph!SimulatePaths \/ Ph!CompareChannels \/ Ph!Agree
           \/ Ph!CompareFragility \/ Ph!CompareVolatility
  BY <1>0, <1>2, <1>6 DEF Ph!BuildPools, Ph!SimulatePaths, Ph!CompareChannels, Ph!Agree,
     Ph!CompareFragility, Ph!CompareVolatility, Ph!Programs
<1>7. CASE Ph!SelectPolicies \/ Ph!ScoreHoldout
  BY <1>0, <1>3, <1>7 DEF Ph!SelectPolicies, Ph!ScoreHoldout, Ph!Programs
<1> QED BY <1>4, <1>5, <1>6, <1>7

\* A step that writes a file: where it is; then the program goes on, or ends.
LEMMA SavingIs ==
  ASSUME PhaseTypes,
         \/ Ph!SaveModel \/ Ph!SaveCoefficients \/ Ph!SaveSummary4
         \/ Ph!SaveSummary5 \/ Ph!SaveReport5
         \/ Ph!SaveEntries \/ Ph!SaveFrontier \/ Ph!SaveCandidates
         \/ Ph!SaveSummary6 \/ Ph!SaveReports6
  PROVE  \/ /\ program \in Ph!Programs /\ Ph!Advance
            /\ step < Len(Ph!Steps(program)) /\ (program = "phase4" => step > 6)
            /\ chosen' = chosen /\ (UNCHANGED <<scores, fitted>> \/ Ph!SaveSummary6)
         \/ Ph!Forget
<1>1. program \in Ph!Programs
  BY DEF Ph!SaveModel, Ph!SaveCoefficients, Ph!SaveSummary4, Ph!SaveSummary5,
     Ph!SaveReport5, Ph!SaveEntries, Ph!SaveFrontier, Ph!SaveCandidates,
     Ph!SaveSummary6, Ph!SaveReports6, Ph!At, Ph!Programs
<1>2. step \in Nat /\ step \in 1 .. Len(Ph!Steps(program))
  BY <1>1, PhaseNumbers DEF PhaseTypes
<1>3. /\ Len(Ph!Steps("phase4")) = 9 /\ Len(Ph!Steps("phase5")) = 8
      /\ Len(Ph!Steps("phase6")) = 7
  BY StepsAre
<1>4. ASSUME NEW f, Ph!Write(f), program = "phase4" => step > 6
      PROVE  \/ /\ program \in Ph!Programs /\ Ph!Advance
                /\ step < Len(Ph!Steps(program)) /\ (program = "phase4" => step > 6)
                /\ UNCHANGED <<scores, fitted, chosen>>
             \/ Ph!Forget
  <2>1. CASE step = Len(Ph!Steps(program))
    BY <1>4, <2>1 DEF Ph!Write
  <2>2. CASE step # Len(Ph!Steps(program))
    <3>1. Ph!Advance /\ UNCHANGED <<scores, fitted, verdict, chosen>>
      BY <1>4, <2>2 DEF Ph!Write
    <3>2. step < Len(Ph!Steps(program))
      BY <1>1, <1>2, <1>3, <2>2 DEF Ph!Programs
    <3> QED BY <1>1, <1>4, <3>1, <3>2
  <2> QED BY <2>1, <2>2
<1>5. ASSUME Ph!At("phase4", "model") \/ Ph!At("phase4", "coefficients")
             \/ Ph!At("phase4", "summary4")
      PROVE  program = "phase4" /\ step > 6
  <2>1. program = "phase4" /\ Ph!Steps("phase4")[step] \in {"model", "coefficients", "summary4"}
    BY <1>5 DEF Ph!At
  <2>2. step \in 1 .. 9
    BY <1>2, <1>3, <2>1
  <2> QED BY <2>1, <2>2, StepsAre
<1>6. CASE Ph!SaveModel \/ Ph!SaveSummary4
  BY <1>4, <1>5, <1>6 DEF Ph!SaveModel, Ph!SaveSummary4
<1>7. CASE Ph!SaveCoefficients
  <2>1. program = "phase4" /\ step > 6 /\ Ph!Steps("phase4")[step] = "coefficients"
    BY <1>5, <1>7 DEF Ph!SaveCoefficients, Ph!At
  <2>2. step = 8
    BY <1>2, <1>3, <2>1, StepsAre
  <2>3. CASE chosen = Ph!Normal
    <3>1. Len(Ph!Steps(program)) = 9
      BY <1>3, <2>1
    <3>2. Ph!Advance /\ UNCHANGED <<scores, fitted, verdict, chosen, disk>>
      BY <1>7, <2>3 DEF Ph!SaveCoefficients
    <3>3. step < Len(Ph!Steps(program))
      BY <2>2, <3>1
    <3> QED BY <1>1, <2>1, <3>2, <3>3
  <2>4. CASE chosen # Ph!Normal
    BY <1>4, <1>7, <2>1, <2>4 DEF Ph!SaveCoefficients
  <2> QED BY <2>3, <2>4
<1>8. CASE Ph!SaveSummary5 \/ Ph!SaveReport5
  BY <1>4, <1>8 DEF Ph!SaveSummary5, Ph!SaveReport5, Ph!At
<1>9. CASE Ph!SaveEntries \/ Ph!SaveFrontier \/ Ph!SaveCandidates \/ Ph!SaveReports6
  BY <1>4, <1>9 DEF Ph!SaveEntries, Ph!SaveFrontier, Ph!SaveCandidates,
     Ph!SaveReports6, Ph!At
<1>10. CASE Ph!SaveSummary6
  <2>1. program = "phase6" /\ Ph!Steps("phase6")[step] = "summary6"
    BY <1>10 DEF Ph!SaveSummary6, Ph!At
  <2>2. step = 6
    BY <1>2, <1>3, <2>1, StepsAre
  <2>3. step < Len(Ph!Steps(program))
    <3>1. Len(Ph!Steps(program)) = 7
      BY <1>3, <2>1
    <3> QED BY <2>2, <3>1
  <2>4. Ph!Advance /\ chosen' = chosen
    BY <1>10 DEF Ph!SaveSummary6
  <2> QED BY <1>1, <1>10, <2>1, <2>3, <2>4
<1> QED BY <1>6, <1>7, <1>8, <1>9, <1>10

\* Every step keeps a program on one of its steps.
LEMMA PhaseTypesKept ==
  ASSUME PhaseTypes, Ph!PhaseNext
  PROVE  PhaseTypes'
<1>1. /\ Len(Ph!Steps("phase4")) = 9 /\ Len(Ph!Steps("phase5")) = 8
      /\ Len(Ph!Steps("phase6")) = 7
  BY StepsAre
<1>2. None # "phase4" /\ None \notin Ph!Programs
  BY PhaseNumbers DEF Ph!Programs
<1>3. CASE Ph!Start
  <2>1. /\ program' \in Ph!Programs /\ table' \in Tables /\ step' = 1
        /\ begun' = begun + 1 /\ chosen' = Ph!Normal
    BY <1>3 DEF Ph!Start
  <2>3. \A p \in Ph!Programs : Len(Ph!Steps(p)) \in {7, 8, 9}
    BY <1>1 DEF Ph!Programs
  <2>4. \A n \in {7, 8, 9} : 1 \in 1 .. n
    OBVIOUS
  <2>2. 1 \in 1 .. Len(Ph!Steps(program'))
    BY <2>1, <2>3, <2>4
  <2> QED BY <2>1, <2>2 DEF PhaseTypes
<1>4. CASE Ph!Forget
  BY <1>2, <1>4 DEF PhaseTypes, Ph!Forget
<1>5. CASE /\ program \in Ph!Programs /\ Ph!Advance
           /\ step < Len(Ph!Steps(program))
           /\ program = "phase4" => chosen' \in Ph!Models \cup {Ph!Normal}
  <2>1. /\ program' = program /\ begun' = begun /\ table' = table /\ step' = step + 1
    BY <1>5 DEF Ph!Advance
  <2>2. step \in Nat /\ Len(Ph!Steps(program)) \in Nat
    BY <1>1, <1>5 DEF PhaseTypes, Ph!Programs
  <2>3. step + 1 \in 1 .. Len(Ph!Steps(program))
    BY <1>5, <2>2
  <2> QED BY <1>2, <1>5, <2>1, <2>2, <2>3 DEF PhaseTypes
<1>6. CASE Ph!End
  BY <1>4, <1>6 DEF Ph!End
<1>7. CASE \/ Ph!WalkModels \/ Ph!Pair \/ Ph!Ablate \/ Ph!Choose \/ Ph!Slice \/ Ph!Final
           \/ Ph!BuildPools \/ Ph!SimulatePaths \/ Ph!CompareChannels \/ Ph!Agree
           \/ Ph!CompareFragility \/ Ph!CompareVolatility
           \/ Ph!SelectPolicies \/ Ph!ScoreHoldout
  BY <1>5, <1>7, JudgingAdvances
<1>8. CASE \/ Ph!SaveModel \/ Ph!SaveCoefficients \/ Ph!SaveSummary4
           \/ Ph!SaveSummary5 \/ Ph!SaveReport5
           \/ Ph!SaveEntries \/ Ph!SaveFrontier \/ Ph!SaveCandidates
           \/ Ph!SaveSummary6 \/ Ph!SaveReports6
  <2>1. \/ /\ program \in Ph!Programs /\ Ph!Advance
           /\ step < Len(Ph!Steps(program)) /\ chosen' = chosen
        \/ Ph!Forget
    BY <1>8, SavingIs
  <2>2. program = "phase4" => chosen \in Ph!Models \cup {Ph!Normal}
    BY DEF PhaseTypes
  <2> QED BY <1>4, <1>5, <2>1, <2>2
<1> QED BY <1>3, <1>6, <1>7, <1>8 DEF Ph!PhaseNext

\* Rows that are part of others come no later than they do.
LEMMA EarlierParts ==
  ASSUME NEW t, NEW a, NEW b, Earlier(t, a, b),
         NEW c, c \subseteq a, NEW d, d \subseteq b
  PROVE  Earlier(t, c, d)
BY DEF Earlier

\* What is learned on development rows is sound of rows held out, if it was
\* chosen on development rows too.
LEMMA SoundOfHoldout ==
  ASSUME table \in Tables, NEW s, s.learned \subseteq Ph!Dev, s.chosenBy \subseteq Ph!Dev,
         s.judged \subseteq Holdout(table)
  PROVE  IsSound(table, s)
BY DevFirst, EarlierParts DEF IsSound

\* What is learned on rows before those it judges, all of development, is sound.
LEMMA SoundOfDev ==
  ASSUME table \in Tables, NEW s, Earlier(table, s.learned, s.judged),
         s.judged \subseteq Ph!Dev
  PROVE  IsSound(table, s) /\ s.judged \cap Holdout(table) = {}
BY DevFirst DEF IsSound

\* What a model learns of the rows it is trained on.
LEMMA LearnedIsTrained ==
  ASSUME table \in Tables, NEW m, NEW train, train \subseteq Ph!Dev
  PROVE  /\ Ph!Learned(m, train) \subseteq train
         /\ Ph!FitRows(m, train) \subseteq train /\ Ph!CalRows(m, train) \subseteq train
<1>1. train \subseteq 1 .. Len(table)
  BY DevFirst
<1>2. Ph!Calibration(table, train) \subseteq train
  BY <1>1, CalibrationFollows, TablesAreTables, PhaseNumbers, SameTables
<1>3. Ph!FitRows(m, train) \subseteq train
  BY DEF Ph!FitRows, Ph!Fitted
<1>4. Ph!CalRows(m, train) \subseteq train
  BY <1>2 DEF Ph!CalRows, Ph!Calibrated
<1> QED BY <1>3, <1>4 DEF Ph!Learned

\* A walk forward judges each model on rows after those it learned from.
LEMMA WalkIsSound ==
  ASSUME table \in Tables, NEW m, NEW s \in Ph!RunWalkForward(m)
  PROVE  IsSound(table, s) /\ s.judged \cap Holdout(table) = {}
<1>1. PICK p \in Ph!Splits : s = Ph!Score(m, Ph!Learned(m, p.train), Ph!Columns(m), {}, p.test)
  BY DEF Ph!RunWalkForward
<1>2. /\ p.train \subseteq Ph!Dev /\ p.test \subseteq Ph!Dev
      /\ Earlier(table, p.train, p.test)
  BY SplitsFollow
<1>3. s.learned = Ph!Learned(m, p.train) /\ s.judged = p.test
  BY <1>1 DEF Ph!Score
<1>4. Earlier(table, s.learned, s.judged)
  BY <1>2, <1>3, LearnedIsTrained, EarlierParts
<1> QED BY <1>2, <1>3, <1>4, SoundOfDev

\* A score of some of the rows another was judged on.
LEMMA SlicedIs ==
  ASSUME NEW of, NEW score, NEW chosenBy, NEW slices,
         NEW s \in Ph!Sliced(of, score, chosenBy, slices)
  PROVE  /\ s.of = of /\ s.learned = score.learned /\ s.chosenBy = chosenBy
         /\ s.judged \in slices
BY DEF Ph!Sliced, Ph!Score

\* The slices of rows are parts of them.
LEMMA SlicesAreParts ==
  ASSUME NEW tab,
         NEW p \in Ph!SelectivePrediction(tab) \cup Ph!ReliabilityTable(tab)
                     \cup Ph!ByEntryTime(tab)
  PROVE  p \subseteq tab
BY DEF Ph!SelectivePrediction, Ph!ReliabilityTable, Ph!ByEntryTime

\* A step of a program keeps rows apart if what it adds does.
LEMMA AddedApart ==
  ASSUME PhaseTypes, RowsApart, program \in Ph!Programs, Ph!Advance,
         \A s \in scores' : \/ s \in scores
                            \/ s.of \notin Exempt \/ program = "phase4" => IsSound(table, s),
         program = "phase4" /\ step < 5 =>
           \A s \in scores' : s \in scores \/ s.judged \cap Holdout(table) = {},
         \A m \in fitted' : m \in fitted \/ IsKept(m)
  PROVE  RowsApart'
<1>1. program' = program /\ table' = table /\ step' = step + 1 /\ program # None
  BY PhaseNumbers DEF Ph!Advance
<1>2. Ph!Dev' = Ph!Dev
  BY <1>1 DEF Ph!Dev
<1>3. step \in Nat
  BY DEF PhaseTypes
<1>4. \A s \in scores' : s.of \notin Exempt \/ program = "phase4" => IsSound(table, s)
  BY DEF RowsApart
<1>5. program = "phase4" /\ step + 1 <= 5 =>
        \A s \in scores' : s.judged \cap Holdout(table) = {}
  BY <1>3 DEF RowsApart
<1>6. \A m \in fitted' : IsKept(m)
  BY <1>1 DEF RowsApart
<1>7. \A m \in fitted' : IsKept(m)'
  BY <1>2, <1>6 DEF IsKept
<1> QED BY <1>1, <1>2, <1>4, <1>5, <1>7 DEF RowsApart, IsSound

\* Phase 4.
LEMMA Phase4Apart ==
  ASSUME PhaseTypes, RowsApart,
         \/ Ph!WalkModels \/ Ph!Pair \/ Ph!Ablate \/ Ph!Choose \/ Ph!Slice \/ Ph!Final
  PROVE  RowsApart'
<1>1. program \in Ph!Programs /\ Ph!Advance
  BY JudgingAdvances
<1>2. program = "phase4" /\ step \in Nat /\ table \in Tables
  <2>1. program = "phase4"
    BY DEF Ph!WalkModels, Ph!Pair, Ph!Ablate, Ph!Choose, Ph!Slice, Ph!Final, Ph!At
  <2> QED BY <1>1, <2>1, PhaseNumbers DEF PhaseTypes
<1>3. \A s \in scores : IsSound(table, s)
  BY <1>2 DEF RowsApart
<1>4. CASE Ph!Pair \/ Ph!Choose
  <2>1. /\ scores' = scores
        /\ \A m \in fitted' : \/ m \in fitted
                              \/ m = Ph!Made("choice", Ph!TestRows, Ph!Positions(table))
    BY <1>4 DEF Ph!Pair, Ph!Choose
  <2>2. \A m \in fitted' : m \in fitted \/ IsKept(m)
    BY <1>2, <2>1, TestsAreDev DEF Ph!Made, IsKept, Ph!OfTheFeatures
  <2> QED BY <1>1, <2>1, <2>2, AddedApart
<1>5. CASE Ph!WalkModels \/ Ph!Ablate
  <2>1. fitted' = fitted
    BY <1>5 DEF Ph!WalkModels, Ph!Ablate
  <2>2. \A s \in scores' : s \in scores \/ \E m : s \in Ph!RunWalkForward(m)
    BY <1>5 DEF Ph!WalkModels, Ph!Ablate
  <2>3. \A s \in scores' : s \in scores \/ (IsSound(table, s) /\ s.judged \cap Holdout(table) = {})
    BY <1>2, <2>2, WalkIsSound
  <2> QED BY <1>1, <2>1, <2>3, AddedApart
<1>6. CASE Ph!Slice
  <2>1. fitted' = fitted
    BY <1>6 DEF Ph!Slice
  <2>2. step = 5
    <3>1. program = "phase4" /\ Ph!Steps("phase4")[step] = "slice"
      BY <1>6 DEF Ph!Slice, Ph!At
    <3>2. step \in 1 .. 9
      BY <1>1, <3>1, StepsAre, PhaseNumbers DEF PhaseTypes
    <3> QED BY <3>1, <3>2, StepsAre
  <2>3. ASSUME NEW s \in scores', s \notin scores PROVE IsSound(table, s)
    <3>1. PICK z \in scores :
            s \in Ph!Sliced("slices", z, Ph!TestRows,
                    Ph!SelectivePrediction(z.judged) \cup Ph!ByEntryTime(z.judged))
      BY <1>6, <2>3 DEF Ph!Slice
    <3>2. s.learned = z.learned /\ s.judged \subseteq z.judged
      BY <3>1, SlicedIs, SlicesAreParts
    <3>3. Earlier(table, z.learned, z.judged)
      BY <1>3 DEF IsSound
    <3>4. z.judged \cap Holdout(table) = {}
      BY <1>2, <2>2 DEF RowsApart
    <3>5. Earlier(table, s.learned, s.judged)
      BY <3>2, <3>3, EarlierParts
    <3> QED BY <3>2, <3>4, <3>5 DEF IsSound
  <2> QED BY <1>1, <1>2, <2>1, <2>2, <2>3, AddedApart
<1>7. CASE Ph!Final
  <2> DEFINE columns == Ph!Columns(chosen)
             final == Ph!Score("final", Ph!Learned(chosen, Ph!FinalRows), columns, Ph!TestRows,
                               Ph!Holdout(table))
             base  == Ph!Score("baseline", {}, {}, {}, Ph!Holdout(table))
  <2>1. \A m \in fitted' :
          \/ m \in fitted
          \/ m = Ph!Made("model", Ph!FitRows(chosen, Ph!FinalRows), columns)
          \/ m = Ph!Made("calibrator", Ph!CalRows(chosen, Ph!FinalRows), columns)
    BY <1>7 DEF Ph!Final
  <2>2. Ph!FinalRows = Ph!Dev
    BY DEF Ph!FinalRows
  <2>3. /\ Ph!Learned(chosen, Ph!FinalRows) \subseteq Ph!Dev
        /\ Ph!FitRows(chosen, Ph!FinalRows) \subseteq Ph!Dev
        /\ Ph!CalRows(chosen, Ph!FinalRows) \subseteq Ph!Dev
    BY <1>2, <2>2, LearnedIsTrained
  <2>4. \A m \in fitted' : m \in fitted \/ IsKept(m)
    BY <2>1, <2>3 DEF Ph!Made, IsKept, Ph!OfTheFeatures
  <2>5. ASSUME NEW s \in scores', s \notin scores PROVE IsSound(table, s)
    <3>1. \/ s = final \/ s = base
          \/ s \in Ph!Sliced("final", final, Ph!TestRows,
                   Ph!ReliabilityTable(Ph!Holdout(table))
                     \cup Ph!SelectivePrediction(Ph!Holdout(table)))
      BY <1>7, <2>5 DEF Ph!Final
    <3>2. /\ final.learned \subseteq Ph!Dev /\ final.chosenBy = Ph!TestRows
          /\ final.judged = Holdout(table)
          /\ base.learned = {} /\ base.chosenBy = {} /\ base.judged = Holdout(table)
      BY <2>3, SameTables DEF Ph!Score
    <3> HIDE DEF final, base
    <3>3. /\ s.learned \subseteq Ph!Dev /\ s.chosenBy \subseteq Ph!TestRows
          /\ s.judged \subseteq Holdout(table)
      <4>1. CASE s = final \/ s = base
        BY <3>2, <4>1
      <4>2. CASE s \in Ph!Sliced("final", final, Ph!TestRows,
                   Ph!ReliabilityTable(Ph!Holdout(table))
                     \cup Ph!SelectivePrediction(Ph!Holdout(table)))
        <5>1. /\ s.learned = final.learned /\ s.chosenBy = Ph!TestRows
              /\ s.judged \in Ph!ReliabilityTable(Ph!Holdout(table))
                     \cup Ph!SelectivePrediction(Ph!Holdout(table))
          BY <4>2, SlicedIs
        <5>2. s.judged \subseteq Ph!Holdout(table)
          BY <5>1, SlicesAreParts
        <5> QED BY <3>2, <5>1, <5>2, SameTables
      <4> QED BY <3>1, <4>1, <4>2
    <3>4. s.chosenBy \subseteq Ph!Dev
      BY <1>2, <3>3, TestsAreDev
    <3> QED BY <1>2, <3>3, <3>4, SoundOfHoldout
  <2>6. step = 6
    <3>1. program = "phase4" /\ Ph!Steps("phase4")[step] = "final"
      BY <1>7 DEF Ph!Final, Ph!At
    <3>2. step \in 1 .. 9
      BY <1>1, <3>1, StepsAre, PhaseNumbers DEF PhaseTypes
    <3> QED BY <3>1, <3>2, StepsAre
  <2> QED BY <1>1, <2>4, <2>5, <2>6, AddedApart
<1> QED BY <1>4, <1>5, <1>6, <1>7

\* What learned nothing, and was not chosen, is sound.
LEMMA SoundOfNothing ==
  ASSUME NEW t, NEW s, s.learned = {}, s.chosenBy = {}
  PROVE  IsSound(t, s)
BY DEF IsSound, Earlier

\* The pools of phase 5 are parts of the block it fits on.
LEMMA PoolsAreParts ==
  ASSUME NEW i
  PROVE  Ph!EmpiricalPool(i) \subseteq Ph!FitBlock /\ Ph!BootstrapPool(i) \subseteq Ph!FitBlock
<1>1. Ph!EmpiricalPool(i) \subseteq Ph!FitBlock
  BY DEF Ph!EmpiricalPool
<1>2. \A level : Ph!PoolAt(i, level) \subseteq Ph!FitBlock
  BY DEF Ph!PoolAt
<1>3. Ph!BootstrapPool(i) \subseteq Ph!FitBlock
  BY <1>2 DEF Ph!BootstrapPool
<1> QED BY <1>1, <1>3

\* Phase 5.
LEMMA Phase5Apart ==
  ASSUME PhaseTypes, RowsApart,
         \/ Ph!BuildPools \/ Ph!SimulatePaths \/ Ph!CompareChannels \/ Ph!Agree
         \/ Ph!CompareFragility \/ Ph!CompareVolatility
  PROVE  RowsApart'
<1>1. program \in Ph!Programs /\ Ph!Advance
  BY JudgingAdvances
<1>2. program = "phase5" /\ program # "phase4" /\ table \in Tables
  <2>1. program = "phase5"
    BY DEF Ph!BuildPools, Ph!SimulatePaths, Ph!CompareChannels, Ph!Agree,
       Ph!CompareFragility, Ph!CompareVolatility, Ph!At
  <2> QED BY <1>1, <2>1, PhaseNumbers DEF PhaseTypes
<1>3. Ph!TestRows \subseteq Ph!Dev
  BY <1>2, TestsAreDev
<1>4. CASE Ph!CompareChannels
  <2>1. scores' = scores /\ fitted' = fitted
    BY <1>4 DEF Ph!CompareChannels
  <2> QED BY <1>1, <1>2, <2>1, AddedApart
<1>5. CASE Ph!SimulatePaths
  <2>1. fitted' = fitted
    BY <1>5 DEF Ph!SimulatePaths
  <2>2. \E tab : scores' = scores \cup {Ph!Score("monte_carlo", Ph!Positions(table), {}, {}, tab)}
    BY <1>5 DEF Ph!SimulatePaths
  <2>3. \A s \in scores' : s \in scores \/ s.of = "monte_carlo"
    BY <2>2 DEF Ph!Score
  <2> QED BY <1>1, <1>2, <2>1, <2>3, AddedApart DEF Exempt
<1>6. CASE Ph!Agree
  <2>1. fitted' = fitted
    BY <1>6 DEF Ph!Agree
  <2>2. \A s \in scores' : s \in scores \/ \E learned, judged :
                             s = Ph!Score("agreement", learned, {}, {}, judged)
    BY <1>6 DEF Ph!Agree
  <2>3. \A s \in scores' : s \in scores \/ s.of = "agreement"
    BY <2>2 DEF Ph!Score
  <2> QED BY <1>1, <1>2, <2>1, <2>3, AddedApart DEF Exempt
<1>7. CASE Ph!CompareFragility \/ Ph!CompareVolatility
  <2>1. \A m \in fitted' : m \in fitted \/ m = Ph!Made("scales", {}, Ph!TestRows)
    BY <1>7 DEF Ph!CompareFragility, Ph!CompareVolatility
  <2>2. \A m \in fitted' : m \in fitted \/ IsKept(m)
    BY <1>3, <2>1 DEF Ph!Made, IsKept
  <2>3. \A s \in scores' : s \in scores \/ \E of, vals, tab : s = Ph!Score(of, {}, vals, {}, tab)
    BY <1>7 DEF Ph!CompareFragility, Ph!CompareVolatility
  <2>4. \A s \in scores' : s \in scores \/ IsSound(table, s)
    <3>1. \A s \in scores' : s \in scores \/ (s.learned = {} /\ s.chosenBy = {})
      BY <2>3 DEF Ph!Score
    <3> QED BY <3>1, SoundOfNothing
  <2> QED BY <1>1, <1>2, <2>2, <2>4, AddedApart
<1>8. CASE Ph!BuildPools
  <2>1. Ph!FitBlock \subseteq Ph!Dev /\ Earlier(table, Ph!FitBlock, Ph!TestRows)
    BY <1>2, <1>8, FitBlockFirst DEF Ph!BuildPools
  <2>2. \A m \in fitted' : m \in fitted \/ \E what : m = Ph!Made(what, Ph!FitBlock, {})
    BY <1>8 DEF Ph!BuildPools
  <2>3. \A m \in fitted' : m \in fitted \/ IsKept(m)
    BY <2>1, <2>2 DEF Ph!Made, IsKept
  <2>4. ASSUME NEW s \in scores' PROVE IsSound(table, s)
    <3>1. \/ s = Ph!Score("gaussian", {}, {}, {}, Ph!TestRows)
          \/ s = Ph!Score("student_t", Ph!FitBlock, {}, {}, Ph!TestRows)
          \/ \E i \in Ph!TestRows : s = Ph!Score("empirical", Ph!EmpiricalPool(i), {}, {}, {i})
          \/ \E i \in Ph!Bootstrapped :
               s = Ph!Score("bootstrap", Ph!BootstrapPool(i) \cup Ph!FitBlock, {}, {}, {i})
      BY <1>8, <2>4 DEF Ph!BuildPools
    <3>2. Ph!Bootstrapped \subseteq Ph!TestRows
      BY DEF Ph!Bootstrapped
    <3>3. s.learned \subseteq Ph!FitBlock /\ s.judged \subseteq Ph!TestRows
      <4>1. CASE s = Ph!Score("gaussian", {}, {}, {}, Ph!TestRows)
        BY <4>1 DEF Ph!Score
      <4>2. CASE s = Ph!Score("student_t", Ph!FitBlock, {}, {}, Ph!TestRows)
        BY <4>2 DEF Ph!Score
      <4>3. ASSUME NEW i \in Ph!TestRows,
                   \/ s = Ph!Score("empirical", Ph!EmpiricalPool(i), {}, {}, {i})
                   \/ s = Ph!Score("bootstrap", Ph!BootstrapPool(i) \cup Ph!FitBlock, {}, {}, {i})
            PROVE  s.learned \subseteq Ph!FitBlock /\ s.judged \subseteq Ph!TestRows
        BY <4>3, PoolsAreParts DEF Ph!Score
      <4> QED BY <3>1, <3>2, <4>1, <4>2, <4>3
    <3>4. Earlier(table, s.learned, s.judged)
      BY <2>1, <3>3, EarlierParts
    <3> QED BY <1>2, <1>3, <3>3, <3>4, SoundOfDev
  <2> QED BY <1>1, <1>2, <2>3, <2>4, AddedApart
<1> QED BY <1>4, <1>5, <1>6, <1>7, <1>8

\* Phase 6.
LEMMA Phase6Apart ==
  ASSUME PhaseTypes, RowsApart, Ph!SelectPolicies \/ Ph!ScoreHoldout
  PROVE  RowsApart'
<1>1. program \in Ph!Programs /\ Ph!Advance
  BY JudgingAdvances
<1>2. program = "phase6" /\ program # "phase4" /\ program # None /\ table \in Tables
  <2>1. program = "phase6"
    BY DEF Ph!SelectPolicies, Ph!ScoreHoldout, Ph!At
  <2> QED BY <1>1, <2>1, PhaseNumbers DEF PhaseTypes
<1>3. CASE Ph!SelectPolicies
  <2>1. /\ scores' = scores
        /\ \A m \in fitted' : \/ m \in fitted
                              \/ \E f : m = Ph!Made(f, Ph!ValidationRows,
                                         IF f \in Steadfast THEN Ph!Dev ELSE {})
    BY <1>3 DEF Ph!SelectPolicies
  <2>2. Ph!ValidationRows \subseteq Ph!Dev
    BY DEF Ph!ValidationRows
  <2>3. \A m \in fitted' : m \in fitted \/ IsKept(m)
    BY <2>1, <2>2 DEF Ph!Made, IsKept
  <2> QED BY <1>1, <1>2, <2>1, <2>3, AddedApart
<1>4. CASE Ph!ScoreHoldout
  <2>1. fitted' = fitted
    BY <1>4 DEF Ph!ScoreHoldout
  <2>2. ASSUME NEW s \in scores' PROVE IsSound(table, s)
    <3>1. PICK f \in Families, vals \in {Ph!Holdout(table), {}} :
            s = Ph!Score(f, {}, vals, Ph!ValidationRows, Ph!Traded(f))
      BY <1>4, <2>2 DEF Ph!ScoreHoldout
    <3>2. Ph!Traded(f) \subseteq Holdout(table)
      BY SameTables DEF Ph!Traded, Ph!Entered
    <3>3. Ph!ValidationRows \subseteq Ph!Dev
      BY DEF Ph!ValidationRows
    <3>4. s.learned = {} /\ s.chosenBy = Ph!ValidationRows /\ s.judged \subseteq Holdout(table)
      BY <3>1, <3>2 DEF Ph!Score
    <3> QED BY <1>2, <3>3, <3>4, SoundOfHoldout
  <2> QED BY <1>1, <1>2, <2>1, <2>2, AddedApart
<1> QED BY <1>3, <1>4

\* The summary of phase 6 adds only what the property leaves out.
LEMMA SummaryApart ==
  ASSUME PhaseTypes, RowsApart, Ph!SaveSummary6
  PROVE  RowsApart'
<1>1. program = "phase6" /\ program # "phase4" /\ program \in Ph!Programs /\ Ph!Advance
  BY DEF Ph!SaveSummary6, Ph!At, Ph!Programs
<1>2. \A m \in fitted' : m \in fitted \/ m.what \in {"recommended", "frontier"}
  BY DEF Ph!SaveSummary6, Ph!ByTheHoldout, Ph!Made
<1>3. \A s \in scores' : s \in scores \/ (s.of = "recommended" /\ s.learned = {})
  BY DEF Ph!SaveSummary6, Ph!Score
<1>4. \A m \in fitted' : m \in fitted \/ IsKept(m)
  BY <1>2 DEF IsKept, Ph!OfTheHoldout
<1>5. \A s \in scores' : s \in scores \/ IsSound(table, s)
  BY <1>3 DEF IsSound, Earlier, Ph!OfTheHoldout
<1> QED BY <1>1, <1>4, <1>5, AddedApart

\* Every step of the programs keeps rows apart.
LEMMA RowsApartKept ==
  ASSUME PhaseTypes, RowsApart, Ph!PhaseNext
  PROVE  RowsApart'
<1>1. CASE Ph!Start
  <2>1. /\ scores' = {} /\ program' # None
        /\ \A m \in fitted' : m.what = "columns" /\ m.from = {}
    BY <1>1, PhaseNumbers DEF Ph!Start, Ph!Made, Ph!Programs
  <2>2. \A m \in fitted' : IsKept(m)'
    BY <2>1 DEF IsKept, Ph!OfTheFeatures
  <2> QED BY <2>1, <2>2 DEF RowsApart
<1>2. CASE Ph!Forget
  <2>1. scores' = {} /\ fitted' = {}
    BY <1>2 DEF Ph!Forget
  <2> QED BY <2>1 DEF RowsApart
<1>3. CASE Ph!End
  BY <1>2, <1>3 DEF Ph!End
<1>4. CASE \/ Ph!SaveModel \/ Ph!SaveCoefficients \/ Ph!SaveSummary4
           \/ Ph!SaveSummary5 \/ Ph!SaveReport5
           \/ Ph!SaveEntries \/ Ph!SaveFrontier \/ Ph!SaveCandidates
           \/ Ph!SaveSummary6 \/ Ph!SaveReports6
  <2>1. \/ /\ program \in Ph!Programs /\ Ph!Advance /\ scores' = scores /\ fitted' = fitted
        \/ Ph!SaveSummary6
        \/ Ph!Forget
    BY <1>4, SavingIs
  <2> QED BY <1>2, <2>1, AddedApart, SummaryApart
<1> QED BY <1>1, <1>3, <1>4, Phase4Apart, Phase5Apart, Phase6Apart DEF Ph!PhaseNext

-----------------------------------------------------------------------------
\* The files of the research programs.

Names == Ph!Models \cup {Ph!Normal}
Told  == Names \cup Families

\* No file is of a run that has not begun.
FilesType ==
  /\ disk \in [Ph!Files -> [run : Nat, of : Told]]
  /\ \A f \in Ph!Files : disk[f].run <= begun

Saved(name) == disk[<<name, Ph!Normal>>].run = begun

\* A program that has come past a step has written the file of that step.
WrittenSoFar ==
  /\ program = "phase4" /\ step > 7 => disk[<<"model", chosen>>].run = begun
  /\ program = "phase4" /\ step > 8 /\ chosen # Ph!Normal =>
       disk[<<"coefficients", chosen>>].run = begun
  /\ program = "phase5" /\ step > 7 => Saved("summary5")
  /\ program = "phase6" /\ step > 3 => Saved("entries")
  /\ program = "phase6" /\ step > 4 => Saved("frontier")
  /\ program = "phase6" /\ step > 5 => Saved("candidates")
  /\ program = "phase6" /\ step > 6 => Saved("summary6")

\* The files there are.
LEMMA FilesAre ==
  /\ \A n \in {"summary4", "summary5", "report5", "entries", "frontier", "candidates",
               "summary6", "reports6"} : <<n, Ph!Normal>> \in Ph!Files
  /\ \A m \in Names : <<"model", m>> \in Ph!Files
  /\ \A m : <<"coefficients", m>> \in Ph!Files <=> m \in Ph!Models
  /\ \A m \in Ph!Models : <<"coefficients", m>> \in Ph!Files
BY DEF Ph!Files, Names

\* Which file must be older than which.
LEMMA PairsAre ==
  \A p \in Ph!WrittenAfter :
    /\ <<p[1], Ph!Normal>> \in Ph!Files /\ <<p[2], Ph!Normal>> \in Ph!Files
    /\ p[1] # p[2] /\ p[1] \notin {"model", "coefficients", "summary4"}
    /\ p[2] \notin {"model", "coefficients", "summary4", "summary5", "entries"}
    /\ p[2] = "report5" => p[1] = "summary5"
    /\ p[2] = "frontier" => p[1] = "entries"
    /\ p[2] = "candidates" => p[1] = "frontier"
    /\ p[2] = "summary6" => p[1] = "candidates"
    /\ p[2] = "reports6" => p[1] = "summary6"
BY FilesAre DEF Ph!WrittenAfter

\* Writing a file keeps the order of files if those it comes after are written.
LEMMA WriteInOrder ==
  ASSUME FilesType, Ph!ReportedIsSaved, begun \in Nat, begun' = begun,
         NEW f \in Ph!Files, NEW o \in Told,
         disk' = [disk EXCEPT ![f] = [run |-> begun, of |-> o]],
         \A p \in Ph!WrittenAfter : f = <<p[2], Ph!Normal>> => Saved(p[1]),
         f = <<"summary4", Ph!Normal>> =>
           \A g \in {"model", "coefficients"} :
             <<g, o>> \in Ph!Files => disk[<<g, o>>].run = begun
  PROVE  FilesType' /\ (Ph!ReportedIsSaved)'
<1>1. /\ disk \in [Ph!Files -> [run : Nat, of : Told]]
      /\ \A x \in Ph!Files : disk[x].run \in Nat /\ disk[x].run <= begun
  BY DEF FilesType
<1>2. /\ disk'[f].run = begun /\ disk'[f].of = o
      /\ \A x \in Ph!Files : x # f => disk'[x] = disk[x]
  BY <1>1
<1>3. disk' \in [Ph!Files -> [run : Nat, of : Told]]
  BY <1>1
<1>4. \A x \in Ph!Files : disk'[x].run \in Nat /\ disk'[x].run <= begun
                          /\ disk[x].run <= disk'[x].run
  BY <1>1, <1>2
<1>5. ASSUME NEW p \in Ph!WrittenAfter
      PROVE  disk'[<<p[2], Ph!Normal>>].run <= disk'[<<p[1], Ph!Normal>>].run
  <2> DEFINE a == <<p[1], Ph!Normal>>
             b == <<p[2], Ph!Normal>>
  <2>1. a \in Ph!Files /\ b \in Ph!Files /\ a # b
    BY PairsAre
  <2>2. disk[b].run <= disk[a].run
    BY DEF Ph!ReportedIsSaved
  <2>3. b = f => disk[a].run = begun
    BY DEF Saved
  <2> HIDE DEF a, b
  <2>4. disk'[b].run <= disk'[a].run
    <3>1. CASE b = f
      BY <1>2, <2>1, <2>3, <3>1, <1>4
    <3>2. CASE b # f
      <4>1. disk'[b].run = disk[b].run /\ disk[a].run <= disk'[a].run
        BY <1>2, <1>4, <2>1, <3>2
      <4> QED BY <1>1, <1>4, <2>1, <2>2, <4>1
    <3> QED BY <3>1, <3>2
  <2> QED BY <2>4 DEF a, b
<1>6. ASSUME NEW g \in {"model", "coefficients"},
             <<g, disk'[<<"summary4", Ph!Normal>>].of>> \in Ph!Files
      PROVE  disk'[<<"summary4", Ph!Normal>>].run
               <= disk'[<<g, disk'[<<"summary4", Ph!Normal>>].of>>].run
  <2> DEFINE t == <<"summary4", Ph!Normal>>
             x == <<g, disk'[t].of>>
  <2>1. t \in Ph!Files /\ x \in Ph!Files /\ x # t
    BY <1>6, FilesAre
  <2>2. CASE t = f
    <3>1. disk'[t].run = begun /\ x = <<g, o>>
      BY <1>2, <2>2
    <3>2. disk[x].run = begun
      BY <2>1, <2>2, <3>1
    <3>3. disk'[x] = disk[x]
      BY <1>2, <2>1, <2>2
    <3> QED BY <1>1, <3>1, <3>2, <3>3
  <2>3. CASE t # f
    <3>1. disk'[t] = disk[t] /\ x = <<g, disk[t].of>>
      BY <1>2, <2>1, <2>3
    <3>2. disk[t].run <= disk[x].run
      BY <2>1, <3>1 DEF Ph!ReportedIsSaved
    <3>3. disk[x].run <= disk'[x].run
      BY <1>4, <2>1
    <3>4. disk[t].run \in Nat /\ disk[x].run \in Nat /\ disk'[x].run \in Nat
      BY <1>1, <1>4, <2>1
    <3>5. disk'[t].run <= disk'[x].run
      <4> HIDE DEF x, t
      <4> QED BY <3>1, <3>2, <3>3, <3>4
    <3> QED BY <3>5
  <2> QED BY <2>2, <2>3
<1>7. FilesType'
  BY <1>3, <1>4 DEF FilesType
<1> QED BY <1>5, <1>6, <1>7 DEF Ph!ReportedIsSaved

\* A program that has ended has nothing left to write.
LEMMA EndedHasWritten ==
  ASSUME program' = None
  PROVE  WrittenSoFar'
BY PhaseNumbers DEF WrittenSoFar, Ph!Programs

\* Where each of the files of phases 5 and 6 is written.
IsStepOf(n) ==
  /\ n = "summary5" => program = "phase5" /\ step = 7
  /\ n = "report5" => program = "phase5" /\ step = 8
  /\ n = "entries" => program = "phase6" /\ step = 3
  /\ n = "frontier" => program = "phase6" /\ step = 4
  /\ n = "candidates" => program = "phase6" /\ step = 5
  /\ n = "summary6" => program = "phase6" /\ step = 6
  /\ n = "reports6" => program = "phase6" /\ step = 7

LaterFiles == {"summary5", "report5", "entries", "frontier", "candidates",
               "summary6", "reports6"}

\* The file before it is written by then.
LEMMA EarlierIsSaved ==
  ASSUME WrittenSoFar, NEW n \in LaterFiles, IsStepOf(n),
         NEW p \in Ph!WrittenAfter, p[2] = n
  PROVE  Saved(p[1])
<1>1. CASE n = "report5"
  <2>1. p[1] = "summary5"
    BY <1>1, PairsAre
  <2>2. Saved("summary5")
    BY <1>1 DEF WrittenSoFar, IsStepOf
  <2> QED BY <2>1, <2>2
<1>2. CASE n = "frontier"
  <2>1. p[1] = "entries"
    BY <1>2, PairsAre
  <2>2. Saved("entries")
    BY <1>2 DEF WrittenSoFar, IsStepOf
  <2> QED BY <2>1, <2>2
<1>3. CASE n = "candidates"
  <2>1. p[1] = "frontier"
    BY <1>3, PairsAre
  <2>2. Saved("frontier")
    BY <1>3 DEF WrittenSoFar, IsStepOf
  <2> QED BY <2>1, <2>2
<1>4. CASE n = "summary6"
  <2>1. p[1] = "candidates"
    BY <1>4, PairsAre
  <2>2. Saved("candidates")
    BY <1>4 DEF WrittenSoFar, IsStepOf
  <2> QED BY <2>1, <2>2
<1>5. CASE n = "reports6"
  <2>1. p[1] = "summary6"
    BY <1>5, PairsAre
  <2>2. Saved("summary6")
    BY <1>5 DEF WrittenSoFar, IsStepOf
  <2> QED BY <2>1, <2>2
<1>6. n \notin {"summary5", "entries"}
  BY PairsAre
<1> QED BY <1>1, <1>2, <1>3, <1>4, <1>5, <1>6 DEF LaterFiles

\* One that goes on has written what it had, and the file of the step.
LEMMA GoingOnHasWritten ==
  ASSUME WrittenSoFar, FilesType, step \in Nat, begun' = begun,
         NEW n \in LaterFiles, IsStepOf(n), program # "phase4",
         program' = program, step' = step + 1,
         disk'[<<n, Ph!Normal>>].run = begun,
         \A x \in Ph!Files : x # <<n, Ph!Normal>> => disk'[x] = disk[x]
  PROVE  WrittenSoFar'
<1>2. \A m \in LaterFiles : disk[<<m, Ph!Normal>>].run = begun =>
                              disk'[<<m, Ph!Normal>>].run = begun
  BY FilesAre DEF LaterFiles
<1>3. program = "phase5" /\ step + 1 > 7 => disk'[<<"summary5", Ph!Normal>>].run = begun
  BY <1>2 DEF WrittenSoFar, Saved, IsStepOf, LaterFiles
<1>4. program = "phase6" /\ step + 1 > 3 => disk'[<<"entries", Ph!Normal>>].run = begun
  BY <1>2 DEF WrittenSoFar, Saved, IsStepOf, LaterFiles
<1>5. program = "phase6" /\ step + 1 > 4 => disk'[<<"frontier", Ph!Normal>>].run = begun
  BY <1>2 DEF WrittenSoFar, Saved, IsStepOf, LaterFiles
<1>6. program = "phase6" /\ step + 1 > 5 => disk'[<<"candidates", Ph!Normal>>].run = begun
  BY <1>2 DEF WrittenSoFar, Saved, IsStepOf, LaterFiles
<1>7. program = "phase6" /\ step + 1 > 6 => disk'[<<"summary6", Ph!Normal>>].run = begun
  BY <1>2 DEF WrittenSoFar, Saved, IsStepOf, LaterFiles
<1> QED BY <1>3, <1>4, <1>5, <1>6, <1>7 DEF WrittenSoFar, Saved

\* A file of phase 5 or 6 is written in its place.
LEMMA OneWritten ==
  ASSUME FilesType, WrittenSoFar, Ph!ReportedIsSaved, begun \in Nat, step \in Nat,
         program # "phase4", begun' = begun, Ph!Forget \/ Ph!Advance,
         NEW n \in LaterFiles, IsStepOf(n), NEW o \in Told, Ph!Put(<<n, Ph!Normal>>, o)
  PROVE  FilesType' /\ WrittenSoFar' /\ (Ph!ReportedIsSaved)'
<1>1. disk' = [disk EXCEPT ![<<n, Ph!Normal>>] = [run |-> begun, of |-> o]]
  BY DEF Ph!Put
<1>2. <<n, Ph!Normal>> \in Ph!Files /\ <<n, Ph!Normal>> # <<"summary4", Ph!Normal>>
  BY FilesAre DEF LaterFiles
<1>3. \A p \in Ph!WrittenAfter : <<n, Ph!Normal>> = <<p[2], Ph!Normal>> => Saved(p[1])
  BY EarlierIsSaved
<1>4. FilesType' /\ (Ph!ReportedIsSaved)'
  BY <1>1, <1>2, <1>3, WriteInOrder
<1>5. /\ disk'[<<n, Ph!Normal>>].run = begun
      /\ \A x \in Ph!Files : x # <<n, Ph!Normal>> => disk'[x] = disk[x]
  BY <1>1, <1>2 DEF FilesType
<1>6. CASE Ph!Forget
  <2>1. program' = None
    BY <1>6 DEF Ph!Forget
  <2> QED BY <1>4, <2>1, EndedHasWritten
<1>7. CASE Ph!Advance
  <2>1. program' = program /\ step' = step + 1
    BY <1>7 DEF Ph!Advance
  <2> QED BY <1>4, <1>5, <2>1, GoingOnHasWritten
<1> QED BY <1>6, <1>7

\* A step that writes a file keeps the files in order.
LEMMA FilesKept ==
  ASSUME PhaseTypes, FilesType, WrittenSoFar, Ph!ReportedIsSaved,
         \/ Ph!SaveModel \/ Ph!SaveCoefficients \/ Ph!SaveSummary4
         \/ Ph!SaveSummary5 \/ Ph!SaveReport5
         \/ Ph!SaveEntries \/ Ph!SaveFrontier \/ Ph!SaveCandidates
         \/ Ph!SaveSummary6 \/ Ph!SaveReports6
  PROVE  FilesType' /\ WrittenSoFar' /\ (Ph!ReportedIsSaved)'
<1>1. /\ begun \in Nat /\ step \in Nat
      /\ program = "phase4" => step \in 1 .. 9 /\ chosen \in Names
      /\ program = "phase5" => step \in 1 .. 8
      /\ program = "phase6" => step \in 1 .. 7
      /\ None \notin {"phase4", "phase5", "phase6"} /\ Names \subseteq Told
      /\ Ph!Normal \in Names
  BY StepsAre, PhaseNumbers DEF PhaseTypes, Names, Told, Ph!Programs
<1>2. ASSUME NEW f \in Ph!Files, Ph!Write(f)
      PROVE  /\ begun' = begun
             /\ disk' = [disk EXCEPT ![f] = [run |-> begun,
                           of |-> IF program = "phase4" THEN chosen ELSE Ph!Normal]]
             /\ disk'[f].run = begun
             /\ \A x \in Ph!Files : x # f => disk'[x] = disk[x]
             /\ \/ program' = None
                \/ program' = program /\ step' = step + 1 /\ chosen' = chosen
  <2>1. begun' = begun
    BY <1>2 DEF Ph!Write, Ph!Forget, Ph!Advance
  <2>2. disk' = [disk EXCEPT ![f] = [run |-> begun,
                   of |-> IF program = "phase4" THEN chosen ELSE Ph!Normal]]
    BY <1>2 DEF Ph!Write, Ph!Put
  <2>3. disk'[f].run = begun /\ \A x \in Ph!Files : x # f => disk'[x] = disk[x]
    BY <2>2 DEF FilesType
  <2>4. \/ program' = None
        \/ program' = program /\ step' = step + 1 /\ chosen' = chosen
    BY <1>2 DEF Ph!Write, Ph!Forget, Ph!Advance
  <2> QED BY <2>1, <2>2, <2>3, <2>4
<1>3. CASE Ph!SaveModel
  <2> DEFINE f == <<"model", chosen>>
  <2>1. program = "phase4" /\ Ph!Steps("phase4")[step] = "model" /\ Ph!Write(f)
    BY <1>3 DEF Ph!SaveModel, Ph!At
  <2>2. step = 7 /\ f \in Ph!Files
    BY <1>1, <2>1, StepsAre, FilesAre
  <2>3. FilesType' /\ (Ph!ReportedIsSaved)'
    <3>1. f # <<"summary4", Ph!Normal>>
          /\ \A p \in Ph!WrittenAfter : f # <<p[2], Ph!Normal>>
      BY PairsAre
    <3> QED BY <1>1, <1>2, <2>1, <2>2, <3>1, WriteInOrder
  <2>4. WrittenSoFar'
    BY <1>1, <1>2, <2>1, <2>2 DEF WrittenSoFar
  <2> QED BY <2>3, <2>4
<1>4. CASE Ph!SaveCoefficients
  <2> DEFINE f == <<"coefficients", chosen>>
  <2>1. program = "phase4" /\ Ph!Steps("phase4")[step] = "coefficients"
    BY <1>4 DEF Ph!SaveCoefficients, Ph!At
  <2>2. step = 8 /\ chosen \in Names
    BY <1>1, <2>1, StepsAre
  <2>3. disk[<<"model", chosen>>].run = begun
    BY <2>1, <2>2 DEF WrittenSoFar
  <2>4. CASE chosen = Ph!Normal
    <3>1. /\ disk' = disk /\ begun' = begun /\ chosen' = chosen
          /\ program' = program /\ step' = 9
      BY <1>4, <2>2, <2>4 DEF Ph!SaveCoefficients, Ph!Advance
    <3>2. FilesType' /\ (Ph!ReportedIsSaved)'
      BY <3>1 DEF FilesType, Ph!ReportedIsSaved
    <3>3. WrittenSoFar'
      BY <2>1, <2>3, <2>4, <3>1 DEF WrittenSoFar
    <3> QED BY <3>2, <3>3
  <2>5. CASE chosen # Ph!Normal
    <3>1. Ph!Write(f) /\ f \in Ph!Files
      BY <1>4, <2>2, <2>5, FilesAre DEF Ph!SaveCoefficients, Names
    <3>2. f # <<"summary4", Ph!Normal>>
          /\ \A p \in Ph!WrittenAfter : f # <<p[2], Ph!Normal>>
      BY PairsAre
    <3>3. FilesType' /\ (Ph!ReportedIsSaved)'
      BY <1>1, <1>2, <2>1, <3>1, <3>2, WriteInOrder
    <3>4. <<"model", chosen>> \in Ph!Files /\ <<"model", chosen>> # f
      BY <2>2, FilesAre
    <3>5. WrittenSoFar'
      BY <1>1, <1>2, <2>1, <2>2, <2>3, <3>1, <3>4 DEF WrittenSoFar
    <3> QED BY <3>3, <3>5
  <2> QED BY <2>4, <2>5
<1>5. CASE Ph!SaveSummary4
  <2> DEFINE f == <<"summary4", Ph!Normal>>
  <2>1. program = "phase4" /\ Ph!Steps("phase4")[step] = "summary4" /\ Ph!Write(f)
    BY <1>5 DEF Ph!SaveSummary4, Ph!At
  <2>2. step = 9 /\ f \in Ph!Files /\ chosen \in Names
    BY <1>1, <2>1, StepsAre, FilesAre
  <2>3. /\ disk[<<"model", chosen>>].run = begun
        /\ chosen # Ph!Normal => disk[<<"coefficients", chosen>>].run = begun
    BY <2>1, <2>2 DEF WrittenSoFar
  <2>4. \A g \in {"model", "coefficients"} :
          <<g, chosen>> \in Ph!Files => disk[<<g, chosen>>].run = begun
    BY <2>3, FilesAre, PhaseNumbers
  <2>5. \A p \in Ph!WrittenAfter : f # <<p[2], Ph!Normal>>
    BY PairsAre
  <2>6. FilesType' /\ (Ph!ReportedIsSaved)'
    BY <1>1, <1>2, <2>1, <2>2, <2>4, <2>5, WriteInOrder
  <2>7. program' = None
    <3>1. step = Len(Ph!Steps(program))
      BY <2>1, <2>2, StepsAre
    <3> QED BY <2>1, <3>1 DEF Ph!Write, Ph!Forget
  <2>8. WrittenSoFar'
    BY <1>1, <2>7 DEF WrittenSoFar
  <2> QED BY <2>6, <2>8
<1>6. ASSUME NEW n \in LaterFiles, IsStepOf(n), Ph!Write(<<n, Ph!Normal>>),
             program # "phase4"
      PROVE  FilesType' /\ WrittenSoFar' /\ (Ph!ReportedIsSaved)'
  <2>1. Ph!Put(<<n, Ph!Normal>>, Ph!Normal) /\ (Ph!Forget \/ Ph!Advance)
    BY <1>6 DEF Ph!Write
  <2>2. begun' = begun
    BY <2>1 DEF Ph!Forget, Ph!Advance
  <2> QED BY <1>1, <1>6, <2>1, <2>2, OneWritten
<1>7. CASE Ph!SaveSummary5 \/ Ph!SaveReport5
  <2>1. CASE Ph!SaveSummary5
    BY <1>1, <1>6, <2>1, StepsAre DEF Ph!SaveSummary5, Ph!At, IsStepOf, LaterFiles
  <2>2. CASE Ph!SaveReport5
    BY <1>1, <1>6, <2>2, StepsAre DEF Ph!SaveReport5, Ph!At, IsStepOf, LaterFiles
  <2> QED BY <1>7, <2>1, <2>2
<1>8. CASE Ph!SaveEntries \/ Ph!SaveFrontier \/ Ph!SaveCandidates
  <2>1. CASE Ph!SaveEntries
    BY <1>1, <1>6, <2>1, StepsAre DEF Ph!SaveEntries, Ph!At, IsStepOf, LaterFiles
  <2>2. CASE Ph!SaveFrontier
    BY <1>1, <1>6, <2>2, StepsAre DEF Ph!SaveFrontier, Ph!At, IsStepOf, LaterFiles
  <2>3. CASE Ph!SaveCandidates
    BY <1>1, <1>6, <2>3, StepsAre DEF Ph!SaveCandidates, Ph!At, IsStepOf, LaterFiles
  <2> QED BY <1>8, <2>1, <2>2, <2>3
<1>9. CASE Ph!SaveSummary6 \/ Ph!SaveReports6
  <2>1. CASE Ph!SaveSummary6
    <3>1. program = "phase6" /\ Ph!Steps("phase6")[step] = "summary6" /\ Ph!Advance
      BY <2>1 DEF Ph!SaveSummary6, Ph!At
    <3>2. PICK best \in Ph!Qualified : Ph!Put(<<"summary6", Ph!Normal>>, best)
      BY <2>1 DEF Ph!SaveSummary6
    <3>3. best \in Told
      BY DEF Ph!Qualified, Told
    <3>4. step = 6 /\ begun' = begun
      BY <1>1, <3>1, StepsAre DEF Ph!Advance
    <3>5. IsStepOf("summary6") /\ "summary6" \in LaterFiles /\ program # "phase4"
      BY <3>1, <3>4 DEF IsStepOf, LaterFiles
    <3> QED BY <1>1, <3>1, <3>2, <3>3, <3>4, <3>5, OneWritten
  <2>2. CASE Ph!SaveReports6
    BY <1>1, <1>6, <2>2, StepsAre DEF Ph!SaveReports6, Ph!At, IsStepOf, LaterFiles
  <2> QED BY <1>9, <2>1, <2>2
<1> QED BY <1>3, <1>4, <1>5, <1>7, <1>8, <1>9

\* Where the programs judge and have not begun to write.
JudgingStep ==
  /\ program = "phase4" => step <= 6
  /\ program = "phase5" => step < 7
  /\ program = "phase6" => step < 3

\* A step that writes no file keeps them, and their order.
LEMMA FilesUnmoved ==
  ASSUME PhaseTypes, FilesType, WrittenSoFar, Ph!ReportedIsSaved,
         disk' = disk,
         \/ begun' = begun + 1 /\ step' = 1
         \/ begun' = begun /\ program' = None
         \/ begun' = begun /\ program' = program /\ step' = step + 1 /\ JudgingStep
  PROVE  FilesType' /\ WrittenSoFar' /\ (Ph!ReportedIsSaved)'
<1>1. begun \in Nat /\ (program \in Ph!Programs => step \in Nat)
  BY StepsAre DEF PhaseTypes, Ph!Programs
<1>2. FilesType'
  <2>1. \A f \in Ph!Files : disk[f].run \in Nat /\ disk[f].run <= begun
    BY DEF FilesType
  <2>2. \A f \in Ph!Files : disk[f].run <= begun'
    BY <1>1, <2>1
  <2> QED BY <2>2 DEF FilesType
<1>3. (Ph!ReportedIsSaved)'
  BY DEF Ph!ReportedIsSaved
<1>4. CASE step' = 1
  <2>1. WrittenSoFar'
    BY <1>4 DEF WrittenSoFar
  <2> QED BY <1>2, <1>3, <2>1
<1>5. CASE program' = None
  BY <1>2, <1>3, <1>5, EndedHasWritten
<1>6. CASE program' = program /\ step' = step + 1 /\ JudgingStep
  <2>1. ~(program = "phase4" /\ step + 1 > 7) /\ ~(program = "phase5" /\ step + 1 > 7)
        /\ ~(program = "phase6" /\ step + 1 > 3)
    BY <1>1, <1>6 DEF JudgingStep, Ph!Programs
  <2>2. WrittenSoFar'
    <3>1. program = "phase4" \/ program = "phase5" \/ program = "phase6" => step \in Nat
      BY <1>1 DEF Ph!Programs
    <3> QED BY <1>6, <2>1, <3>1 DEF WrittenSoFar
  <2> QED BY <1>2, <1>3, <2>2
<1> QED BY <1>2, <1>3, <1>4, <1>5, <1>6

\* Every step of the programs keeps the files and their order.
LEMMA FilesAlwaysKept ==
  ASSUME PhaseTypes, FilesType, WrittenSoFar, Ph!ReportedIsSaved, Ph!PhaseNext
  PROVE  FilesType' /\ WrittenSoFar' /\ (Ph!ReportedIsSaved)'
<1>1. CASE Ph!Start
  BY <1>1, FilesUnmoved DEF Ph!Start
<1>2. CASE Ph!End
  BY <1>2, FilesUnmoved DEF Ph!End, Ph!Forget
<1>3. CASE \/ Ph!WalkModels \/ Ph!Pair \/ Ph!Ablate \/ Ph!Choose \/ Ph!Slice \/ Ph!Final
           \/ Ph!BuildPools \/ Ph!SimulatePaths \/ Ph!CompareChannels \/ Ph!Agree
           \/ Ph!CompareFragility \/ Ph!CompareVolatility
           \/ Ph!SelectPolicies \/ Ph!ScoreHoldout
  <2>1. /\ program \in Ph!Programs /\ Ph!Advance /\ disk' = disk
        /\ JudgingStep
    BY <1>3, JudgingAdvances DEF JudgingStep
  <2>2. begun' = begun /\ program' = program /\ step' = step + 1
    BY <2>1 DEF Ph!Advance
  <2> QED BY <2>1, <2>2, FilesUnmoved
<1>4. CASE \/ Ph!SaveModel \/ Ph!SaveCoefficients \/ Ph!SaveSummary4
           \/ Ph!SaveSummary5 \/ Ph!SaveReport5
           \/ Ph!SaveEntries \/ Ph!SaveFrontier \/ Ph!SaveCandidates
           \/ Ph!SaveSummary6 \/ Ph!SaveReports6
  BY <1>4, FilesKept
<1> QED BY <1>1, <1>2, <1>3, <1>4 DEF Ph!PhaseNext

-----------------------------------------------------------------------------
\* The theorems of the research programs.

PhaseInv == PhaseTypes /\ RowsApart /\ FilesType /\ WrittenSoFar /\ Ph!ReportedIsSaved

\* At the start no file is written and nothing is fitted.
LEMMA PhaseBegins ==
  ASSUME Ph!PhaseInit
  PROVE  PhaseInv
<1>1. /\ program = None /\ step = 1 /\ begun = 0 /\ scores = {} /\ fitted = {}
      /\ chosen = Ph!Normal /\ disk = [x \in Ph!Files |-> [run |-> 0, of |-> Ph!Normal]]
  BY DEF Ph!PhaseInit
<1>2. None # "phase4" /\ None # "phase5" /\ None # "phase6"
  BY PhaseNumbers DEF Ph!Programs
<1>3. PhaseTypes
  BY <1>1, <1>2 DEF PhaseTypes
<1>4. RowsApart
  BY <1>1, <1>2 DEF RowsApart
<1>5. FilesType
  <2>1. Ph!Normal \in Told
    BY DEF Names, Told
  <2> QED BY <1>1, <2>1 DEF FilesType
<1>6. WrittenSoFar
  BY <1>1, <1>2 DEF WrittenSoFar
<1>7. Ph!ReportedIsSaved
  <2>1. \A f \in Ph!Files : disk[f].run = 0
    BY <1>1
  <2>2. \A p \in Ph!WrittenAfter : disk[<<p[2], Ph!Normal>>].run <= disk[<<p[1], Ph!Normal>>].run
    BY <2>1, PairsAre
  <2>3. disk[<<"summary4", Ph!Normal>>].run = 0
    BY <2>1, FilesAre
  <2> QED BY <2>1, <2>2, <2>3 DEF Ph!ReportedIsSaved
<1> QED BY <1>3, <1>4, <1>5, <1>6, <1>7 DEF PhaseInv

\* Every step of a phase keeps what the phases rely on.
LEMMA PhaseGoesOn ==
  ASSUME PhaseInv, Ph!PhaseNext
  PROVE  PhaseInv'
<1>1. PhaseTypes' /\ RowsApart'
  BY PhaseTypesKept, RowsApartKept DEF PhaseInv
<1>2. FilesType' /\ WrittenSoFar' /\ (Ph!ReportedIsSaved)'
  BY FilesAlwaysKept DEF PhaseInv
<1> QED BY <1>1, <1>2 DEF PhaseInv

\* A step of another program leaves the phases where they are.
LEMMA PhaseRests ==
  ASSUME PhaseInv, UNCHANGED phaseVars
  PROVE  PhaseInv'
<1>1. /\ program' = program /\ step' = step /\ begun' = begun /\ table' = table
      /\ scores' = scores /\ fitted' = fitted /\ chosen' = chosen /\ disk' = disk
  BY DEF phaseVars
<1>2. PhaseTypes'
  BY <1>1 DEF PhaseInv, PhaseTypes
<1>3. RowsApart'
  BY <1>1 DEF PhaseInv, RowsApart, IsSound, IsKept, Ph!Dev
<1>4. FilesType' /\ WrittenSoFar' /\ (Ph!ReportedIsSaved)'
  BY <1>1 DEF PhaseInv, FilesType, WrittenSoFar, Saved, Ph!ReportedIsSaved
<1> QED BY <1>2, <1>3, <1>4 DEF PhaseInv

\* Every reachable state has the invariant of the phases.
LEMMA PhaseInvAlways == ResearchSpec => []PhaseInv
<1>1. ResearchInit => PhaseInv
  BY PhaseBegins DEF ResearchInit
<1>2. PhaseInv /\ [ResearchNext]_<<mover, studyVars, phaseVars>> => PhaseInv'
  <2> SUFFICES ASSUME PhaseInv, [ResearchNext]_<<mover, studyVars, phaseVars>>
               PROVE  PhaseInv'
    OBVIOUS
  <2>1. \/ UNCHANGED phaseVars
        \/ Ph!PhaseNext
    BY DEF ResearchNext, Live, Learn, Ph!PhaseNext
  <2> QED BY <2>1, PhaseGoesOn, PhaseRests
<1> QED BY <1>1, <1>2, PTL DEF ResearchSpec

\* What PhaseInv says of rows is what the property asks of them.
LEMMA RowsApartIsJudged ==
  ASSUME PhaseInv
  PROVE  JudgedByTheFuture
<1>1. ASSUME NEW s \in scores, s.of \notin Exempt
      PROVE  /\ Ph!Before(s.learned, s.judged)
             /\ s.of \notin Ph!OfTheHoldout /\ s.judged \cap Holdout(table) # {} =>
                  Ph!Before(s.chosenBy, s.judged)
  BY <1>1 DEF PhaseInv, RowsApart, IsSound, Earlier, Ph!Before
<1>2. ASSUME NEW m \in fitted
      PROVE  /\ m.what \notin Ph!OfTheHoldout => m.from \cap Holdout(table) = {}
             /\ m.what \notin Ph!OfTheHoldout \cup Ph!OfTheFeatures =>
                  m.seen \cap Holdout(table) = {}
  <2>1. IsKept(m)
    BY DEF PhaseInv, RowsApart
  <2>2. Ph!Dev \cap Holdout(table) = {}
    BY SameTables DEF Ph!Dev
  <2> QED BY <2>1, <2>2 DEF IsKept
<1>3. Ph!Holdout(table) = Holdout(table)
  BY SameTables
<1> QED BY <1>1, <1>2, <1>3 DEF JudgedByTheFuture, Ph!JudgedByTheFuture, Exempt

\* Nothing that a research program reports but the drawn paths, and how far they
\* are from the rest, is judged on rows that did not come after all whose outcomes
\* it learned; what it fits or chooses rests on no outcome of a row held out, but for
\* the policies phase 6 recommends by them, and on none of their values, but for
\* the features and what is fitted to them in phase 4 (mantis_v4_phase4.py,
\* mantis_v4_phase5.py and mantis_v4_phase6.py).
THEOREM JudgesTheFuture == ResearchSpec => []JudgedByTheFuture
<1>1. PhaseInv => JudgedByTheFuture
  BY RowsApartIsJudged
<1> QED BY <1>1, PhaseInvAlways, PTL

\* However its runs end, a research program leaves no summary, report or table of
\* a run whose earlier files are not on disk.
THEOREM ReportsWhatIsSaved == ResearchSpec => []ReportedIsSaved
<1>1. PhaseInv => ReportedIsSaved
  BY DEF PhaseInv, ReportedIsSaved
<1> QED BY <1>1, PhaseInvAlways, PTL

-----------------------------------------------------------------------------
\* The replayed contracts (WalkForward).

\* A function on the first n numbers is a sequence of length n.
LEMMA LengthIs ==
  ASSUME NEW n \in Nat, NEW s, NEW S, s \in [1 .. n -> S]
  PROVE  Len(s) = n /\ s \in Seq(S) /\ DOMAIN s = 1 .. n
OBVIOUS

\* The positions of a table by window: all of them, in an order that never puts
\* a window before an earlier one.
LEMMA ByWindowIs ==
  ASSUME NEW tab, IsTable(tab)
  PROVE  /\ Len(ByWindow(tab)) = Len(tab)
         /\ \A k \in 1 .. Len(tab) : ByWindow(tab)[k] \in 1 .. Len(tab)
         /\ \A j, k \in 1 .. Len(tab) :
              j < k => tab[ByWindow(tab)[j]].window <= tab[ByWindow(tab)[k]].window
<1> DEFINE n == Len(tab)
           P == 1 .. n
           key == [i \in P |-> tab[i].window * (n + 1) + i]
           order == Listed(P, key)
<1>1. /\ n \in Nat /\ IsFiniteSet(P) /\ Cardinality(P) = n
      /\ \A i \in P : tab[i].window \in Nat /\ i \in Nat /\ i < n + 1
  <2>1. n \in Nat /\ \A i \in P : tab[i].window \in Nat
    BY DEF IsTable
  <2>2. IsFiniteSet(P) /\ Cardinality(P) = n
    <3>1. 1 \in Int /\ n \in Int
      BY <2>1
    <3>2. IsFiniteSet(1 .. n) /\ Cardinality(1 .. n) = IF 1 > n THEN 0 ELSE n - 1 + 1
      BY <3>1, FS_Interval
    <3>3. 1 > n => n = 0
      BY <2>1
    <3>4. n - 1 + 1 = n
      BY <2>1
    <3> QED BY <3>2, <3>3, <3>4
  <2>3. \A i \in P : i \in Nat /\ i < n + 1
    BY <2>1
  <2> QED BY <2>1, <2>2, <2>3
<1>2. ASSUME NEW i \in P, NEW j \in P, tab[i].window < tab[j].window
      PROVE  key[i] < key[j]
  <2>1. tab[i].window * (n + 1) + i < tab[j].window * (n + 1) + j
    <3>1. n + 1 \in Nat /\ tab[i].window \in Nat /\ tab[j].window \in Nat
          /\ i \in Nat /\ j \in Nat /\ i < n + 1
      BY <1>1
    <3> QED BY <1>2, <3>1, LeadingDigit
  <2> QED BY <2>1
<1>3. key \in [P -> Nat]
  <2>1. \A i \in P : tab[i].window * (n + 1) \in Nat
    BY <1>1
  <2>2. \A i \in P : tab[i].window * (n + 1) + i \in Nat
    BY <1>1, <2>1
  <2> QED BY <2>2
<1>4. ASSUME NEW i \in P, NEW j \in P, key[i] = key[j]
      PROVE  i = j
  <2>1. ~(key[i] < key[j]) /\ ~(key[j] < key[i])
    BY <1>3, <1>4
  <2>2. ~(tab[i].window < tab[j].window) /\ ~(tab[j].window < tab[i].window)
    BY <1>2, <2>1
  <2>3. tab[i].window = tab[j].window
    BY <1>1, <2>2
  <2>4. tab[i].window * (n + 1) \in Nat
    BY <1>1
  <2>5. tab[i].window * (n + 1) + i = tab[i].window * (n + 1) + j
    BY <1>4, <2>3
  <2> QED BY <1>1, <2>4, <2>5
<1>5. ByWindow(tab) = order
  BY DEF ByWindow, Positions
<1> HIDE DEF key
<1>6. /\ DOMAIN order = P
      /\ \A k \in P : order[k] \in P
      /\ \A j, k \in P : j < k => key[order[j]] < key[order[k]]
  BY <1>1, <1>3, <1>4, ListedIs
<1>7. order \in [P -> P]
  BY <1>6 DEF Listed
<1>8. Len(order) = n
  BY <1>1, <1>7, LengthIs
<1>9. ASSUME NEW j \in P, NEW k \in P, j < k
      PROVE  tab[order[j]].window <= tab[order[k]].window
  <2>1. order[j] \in P /\ order[k] \in P /\ key[order[j]] < key[order[k]]
    BY <1>6, <1>9
  <2>2. ~(key[order[k]] < key[order[j]])
    BY <1>3, <2>1
  <2>3. ~(tab[order[k]].window < tab[order[j]].window)
    BY <1>2, <2>1, <2>2
  <2> QED BY <1>1, <2>1, <2>3
<1> QED BY <1>5, <1>6, <1>8, <1>9

\* What a fold of the contracts trains on comes before what it tests.
LEMMA PurgedFollows ==
  ASSUME NEW tab, IsTable(tab), Folds \in Nat \ {0}, NEW fold \in Nat, fold < Folds
  PROVE  \A i \in PurgedFold(tab, fold).train, j \in PurgedFold(tab, fold).test :
           tab[i].window < tab[j].window
<1> DEFINE n == Len(tab)
           q == n \div Folds
           order == ByWindow(tab)
           test == {order[k] : k \in Block(n, fold)}
           span == WindowsOf(tab, test)
           to == IF fold = Folds - 1 THEN n ELSE (fold + 1) * q
<1>1. n \in Nat /\ q \in Nat /\ fold * q \in Nat /\ Folds * q <= n
  <2>1. n \in Nat
    BY DEF IsTable
  <2>2. q \in Nat /\ fold * q \in Nat
    BY <2>1, BlocksFollow
  <2>3. Folds * q <= n
    BY <2>1
  <2> QED BY <2>1, <2>2, <2>3
<1>2. /\ Len(order) = n /\ \A k \in 1 .. n : order[k] \in 1 .. n
      /\ \A j, k \in 1 .. n : j < k => tab[order[j]].window <= tab[order[k]].window
  BY ByWindowIs
<1>3. Block(n, fold) = fold * q + 1 .. to
  BY DEF Block
<1>4. fold * q <= n /\ to \in Nat /\ to <= n
  <2>1. PICK d \in Nat : Folds = fold + 1 + d
    <3>1. Folds - fold - 1 \in Nat
      OBVIOUS
    <3> QED BY <3>1
  <2> HIDE DEF q
  <2>2. Folds * q = fold * q + q + d * q /\ d * q \in Nat /\ (fold + 1) * q = fold * q + q
    BY <1>1, <2>1
  <2> QED BY <1>1, <2>2 DEF to
<1> HIDE DEF q, to
<1>5. Block(n, fold) \subseteq 1 .. n /\ \A k \in Block(n, fold) : k > fold * q
  BY <1>1, <1>3, <1>4
<1> HIDE DEF order
<1>6. test \subseteq 1 .. n
  BY <1>2, <1>5
<1>7. /\ PurgedFold(tab, fold).test = test
      /\ PurgedFold(tab, fold).train =
           {order[k] : k \in {k \in 1 .. fold * q : Kept(tab[order[k]].window, span)}}
  BY <1>2 DEF PurgedFold, order, q
<1> HIDE DEF test
<1>8. IsFiniteSet(span) /\ span \subseteq Nat /\ \A j \in test : tab[j].window \in span
  BY <1>6, WindowsAreNumbers
<1> HIDE DEF span
<1>9. ASSUME NEW w \in span
      PROVE  ~Kept(w, span)
  <2>1. /\ Min(span) \in span /\ Min(span) <= w
        /\ Max(span) \in span /\ Max(span) >= w
    BY <1>8, MinIs, MaxIs
  <2>2. w \in Nat /\ Min(span) \in Nat /\ Max(span) \in Nat
    BY <1>8, <2>1
  <2> QED BY <2>1, <2>2 DEF Kept, Overlaps
<1>10. ASSUME NEW i \in PurgedFold(tab, fold).train, NEW j \in PurgedFold(tab, fold).test
       PROVE  tab[i].window < tab[j].window
  <2>1. PICK k \in 1 .. fold * q : i = order[k] /\ Kept(tab[order[k]].window, span)
    BY <1>7
  <2>2. PICK m \in Block(n, fold) : j = order[m]
    BY <1>7 DEF test
  <2>3. k \in 1 .. n /\ m \in 1 .. n /\ k < m
    BY <1>1, <1>4, <1>5
  <2>4. tab[i].window <= tab[j].window
    BY <1>2, <2>1, <2>2, <2>3
  <2>5. tab[i].window # tab[j].window
    BY <1>7, <1>8, <1>9, <2>1
  <2>6. tab[i].window \in Nat /\ tab[j].window \in Nat
    BY <1>2, <2>1, <2>2, <2>3 DEF IsTable
  <2> QED BY <2>4, <2>5, <2>6
<1> QED BY <1>10

\* What fits, what calibrates and what tests follow one another.
LEMMA FitsFollow ==
  ASSUME NEW tab, IsTable(tab), Folds \in Nat \ {0}, HoldoutEvery \in Nat \ {0},
         CalEvery \in Nat \ {0}, NEW p \in Fits(tab),
         NEW i \in 1 .. Len(tab), NEW j \in 1 .. Len(tab),
         (i \in p.fit /\ j \in p.cal) \/ (i \in p.fit \cup p.cal /\ j \in p.test)
  PROVE  tab[i].window < tab[j].window
<1> DEFINE dev == Positions(tab) \ Holdout(tab)
<1>1. dev \subseteq 1 .. Len(tab)
  BY DEF Positions
<1>2. PICK train, test : /\ p = Pools(tab, train, test) /\ train \subseteq dev
                         /\ \A a \in train, b \in test : tab[a].window < tab[b].window
  <2>1. CASE p = Pools(tab, dev, Holdout(tab))
    <3>1. \A a \in dev, b \in Holdout(tab) : tab[a].window < tab[b].window
      BY HoldoutFollows DEF Positions
    <3> QED BY <2>1, <3>1
  <2>2. CASE \E s \in GroupedWalkForward(tab, dev) : p = Pools(tab, s.train, s.test)
    <3>1. PICK s \in GroupedWalkForward(tab, dev) : p = Pools(tab, s.train, s.test)
      BY <2>2
    <3>2. PICK fold \in 1 .. Folds - 1 : s = GroupedFold(tab, dev, fold)
      BY <3>1 DEF GroupedWalkForward
    <3>3. fold \in Nat
      BY <3>2
    <3> HIDE DEF dev
    <3>4. s.train \subseteq dev /\ \A a \in s.train, b \in s.test : tab[a].window < tab[b].window
      BY <1>1, <3>2, <3>3, GroupedFollows
    <3> QED BY <3>1, <3>4
  <2> QED BY <2>1, <2>2 DEF Fits
<1>3. train \subseteq 1 .. Len(tab)
  BY <1>1, <1>2
<1>4. /\ Calibration(tab, train) \subseteq train
      /\ \A a \in train \ Calibration(tab, train), b \in Calibration(tab, train) :
           tab[a].window < tab[b].window
  BY <1>3, CalibrationFollows
<1>5. p.fit = train \ Calibration(tab, train) /\ p.cal = Calibration(tab, train)
      /\ p.test = test
  BY <1>2 DEF Pools
<1> QED BY <1>2, <1>4, <1>5

-----------------------------------------------------------------------------
\* The history and what is derived from it (Backtest).

\* What the programs assume of their constants.
LEMMA StudyNumbers ==
  /\ AssetSeq \in Seq(Assets) /\ WindowBars \in Nat \ {0} /\ Horizon \in Nat
  /\ Folds \in Nat \ {0} /\ HoldoutEvery \in Nat \ {0} /\ CalEvery \in Nat \ {0}
BY BacktestAssumption DEF ReplayConstants, SplitConstants

\* The assets are finitely many, each in a place of its own.
LEMMA PlacesAre ==
  /\ IsFiniteSet(Assets)
  /\ \A a \in Assets : Place(a) \in Nat
  /\ \A a, b \in Assets : Place(a) = Place(b) => a = b
<1>1. DOMAIN AssetSeq = 1 .. Len(AssetSeq) /\ Len(AssetSeq) \in Nat
  BY StudyNumbers
<1>2. Assets = {AssetSeq[k] : k \in 1 .. Len(AssetSeq)}
  BY <1>1 DEF Assets, Range
<1>3. IsFiniteSet(1 .. Len(AssetSeq))
  <2>1. 1 \in Int /\ Len(AssetSeq) \in Int
    BY <1>1
  <2> QED BY <2>1, FS_Interval
<1>4. IsFiniteSet(Assets)
  BY <1>2, <1>3, ImageIsFinite
<1>5. \A a \in Assets : Place(a) \in 1 .. Len(AssetSeq) /\ AssetSeq[Place(a)] = a
  BY <1>1, <1>2 DEF Place
<1>6. \A a \in Assets : Place(a) \in Nat
  BY <1>5
<1> QED BY <1>4, <1>5, <1>6

\* The moments of InTurn are listed whole, each with an asset and one of its times.
LEMMA InTurnIs ==
  ASSUME NEW times, \A a \in Assets : times[a] \subseteq 0 .. Horizon
  PROVE  /\ Len(InTurn(times)) \in Nat /\ DOMAIN InTurn(times) = 1 .. Len(InTurn(times))
         /\ \A k \in 1 .. Len(InTurn(times)) :
              /\ InTurn(times)[k].asset \in Assets
              /\ InTurn(times)[k].at \in times[InTurn(times)[k].asset]
<1> DEFINE moments == UNION {{[asset |-> a, at |-> t] : t \in times[a]} : a \in Assets}
           key == [m \in moments |-> Place(m.asset) * (Horizon + 1) + m.at]
           n == Cardinality(moments)
           all == Assets \X (0 .. Horizon)
           f == [x \in all |-> [asset |-> x[1], at |-> x[2]]]
<1>1. \A m \in moments : m.asset \in Assets /\ m.at \in times[m.asset]
                         /\ m = [asset |-> m.asset, at |-> m.at]
  OBVIOUS
<1>2. IsFiniteSet(moments)
  <2>1. IsFiniteSet(0 .. Horizon)
    <3>1. 0 \in Int /\ Horizon \in Int
      BY StudyNumbers
    <3> QED BY <3>1, FS_Interval
  <2>2. IsFiniteSet(all)
    BY <2>1, PlacesAre, FS_Product
  <2>3. moments \subseteq {f[x] : x \in all}
    <3> SUFFICES ASSUME NEW m \in moments PROVE \E x \in all : m = f[x]
      OBVIOUS
    <3>1. <<m.asset, m.at>> \in all
      BY <1>1
    <3>2. m = f[<<m.asset, m.at>>]
      BY <1>1, <3>1
    <3> QED BY <3>1, <3>2
  <2> HIDE DEF moments, f, all
  <2>4. IsFiniteSet({f[x] : x \in all})
    BY <2>2, ImageIsFinite
  <2> QED BY <2>3, <2>4, FS_Subset
<1> HIDE DEF moments
<1>3. \A m \in moments : /\ m.at \in Nat /\ m.at < Horizon + 1
                         /\ Place(m.asset) \in Nat /\ Horizon + 1 \in Nat
  <2> TAKE m \in moments
  <2>1. m.asset \in Assets /\ m.at \in 0 .. Horizon /\ Horizon \in Nat
    BY <1>1, StudyNumbers
  <2> QED BY <2>1, PlacesAre
<1>4. key \in [moments -> Nat]
  <2>1. \A m \in moments : Place(m.asset) * (Horizon + 1) \in Nat
    BY <1>3
  <2>2. \A m \in moments : Place(m.asset) * (Horizon + 1) + m.at \in Nat
    BY <1>3, <2>1
  <2> QED BY <2>2
<1>5. ASSUME NEW x \in moments, NEW y \in moments, Place(x.asset) < Place(y.asset)
      PROVE  key[x] < key[y]
  <2>1. Place(x.asset) * (Horizon + 1) + x.at < Place(y.asset) * (Horizon + 1) + y.at
    BY <1>3, <1>5, LeadingDigit
  <2> QED BY <2>1
<1>6. ASSUME NEW x \in moments, NEW y \in moments, key[x] = key[y]
      PROVE  x = y
  <2>1. ~(key[x] < key[y]) /\ ~(key[y] < key[x])
    BY <1>4, <1>6
  <2>2. ~(Place(x.asset) < Place(y.asset)) /\ ~(Place(y.asset) < Place(x.asset))
    BY <1>5, <2>1
  <2>3. Place(x.asset) = Place(y.asset)
    BY <1>3, <2>2
  <2>4. x.asset = y.asset
    BY <1>1, <2>3, PlacesAre
  <2>5. Place(x.asset) * (Horizon + 1) + x.at = Place(x.asset) * (Horizon + 1) + y.at
    BY <1>6, <2>3
  <2>6. x.at = y.at
    <3>1. Place(x.asset) * (Horizon + 1) \in Nat
      BY <1>3
    <3> QED BY <1>3, <2>5, <3>1
  <2> QED BY <1>1, <2>4, <2>6
<1>7. InTurn(times) = Listed(moments, key)
  BY DEF InTurn, moments
<1> HIDE DEF key
<1>8. /\ n \in Nat /\ DOMAIN Listed(moments, key) = 1 .. n
      /\ \A k \in 1 .. n : Listed(moments, key)[k] \in moments
  BY <1>2, <1>4, <1>6, ListedIs
<1>9. Listed(moments, key) \in [1 .. n -> moments]
  BY <1>8 DEF Listed
<1>10. Len(InTurn(times)) = n
  BY <1>7, <1>8, <1>9, LengthIs
<1> QED BY <1>1, <1>7, <1>8, <1>10

\* A frame of bars up to minute m.
IsFrame(f, m) ==
  /\ f = [b \in DOMAIN f |-> f[b]]
  /\ DOMAIN f \subseteq 0 .. m
  /\ \A b \in DOMAIN f : f[b] = [open |-> f[b].open, close |-> f[b].close]

\* What is in a frame has a last bar.
LEMMA LastIs ==
  ASSUME NEW m \in Nat, NEW S, S \subseteq 0 .. m, S # {}
  PROVE  Max(S) \in S /\ Min(S) \in S /\ IsFiniteSet(S)
         /\ \A b \in S : b <= Max(S) /\ Min(S) <= b
<1>1. IsFiniteSet(0 .. m)
  <2>1. 0 \in Int /\ m \in Int
    OBVIOUS
  <2> QED BY <2>1, FS_Interval
<1>2. S \subseteq Nat /\ IsFiniteSet(S)
  <2>1. S \subseteq Nat
    OBVIOUS
  <2> QED BY <1>1, <2>1, FS_Subset
<1>3. Max(S) \in S /\ \A b \in S : Max(S) >= b
  BY <1>2, MaxIs
<1>4. Min(S) \in S /\ \A b \in S : Min(S) <= b
  BY <1>2, MinIs
<1> QED BY <1>2, <1>3, <1>4

\* A window is replayed once it has ended.
LEMMA WindowsEnded ==
  ASSUME NEW m \in Nat, NEW f, DOMAIN f \subseteq 0 .. m, NEW w \in WindowsFor(f)
  PROVE  w \in 0 .. m /\ EndOf(w) <= 2 * m
<1> DEFINE usable == {b \in DOMAIN f : Cardinality({c \in DOMAIN f : c < b}) >= Warmup}
<1>1. usable \subseteq 0 .. m
  OBVIOUS
<1>2. usable # {} /\ w \in 0 .. Max(usable) /\ EndOf(w) <= Bar * Max(usable)
  BY DEF WindowsFor
<1> HIDE DEF usable
<1>3. Max(usable) \in 0 .. m
  BY <1>1, <1>2, LastIs
<1>4. w \in 0 .. m
  BY <1>2, <1>3
<1>5. EndOf(w) \in Nat
  <2>1. w + 1 \in Nat /\ WindowBars \in Nat
    BY <1>4, StudyNumbers
  <2>2. 2 * WindowBars \in Nat
    BY <2>1
  <2>3. (2 * WindowBars) * (w + 1) \in Nat
    BY <2>1, <2>2
  <2> QED BY <2>3 DEF EndOf, StartOf, Bar
<1> QED BY <1>2, <1>3, <1>4, <1>5 DEF Bar

\* The scans of a window.
LEMMA ScansOf ==
  ASSUME NEW w \in Nat, NEW t \in ScanTimes(w)
  PROVE  t \in Nat /\ t < EndOf(w) /\ WindowAt(t) = w
<1> DEFINE n == 2 * WindowBars
<1>1. n \in Nat \ {0}
  BY StudyNumbers
<1>2. StartOf(w) = n * w /\ EndOf(w) = n * (w + 1) /\ WindowAt(t) = t \div n
  BY DEF StartOf, EndOf, WindowAt, Bar
<1> HIDE DEF n
<1>3. n * w \in Nat /\ n * (w + 1) = n * w + n
  BY <1>1
<1>4. t \in n * w .. n * w + n - 1
  <2>1. t \in StartOf(w) .. EndOf(w) - 1
    BY DEF ScanTimes
  <2>2. EndOf(w) = n * w + n
    BY <1>2, <1>3
  <2>3. StartOf(w) = n * w
    BY <1>2
  <2> QED BY <1>1, <1>3, <2>1, <2>2, <2>3
<1>5. t \in Nat /\ t < n * (w + 1)
  BY <1>1, <1>3, <1>4
<1>6. t \div n = w
  <2>1. PICK r \in 0 .. n - 1 : t = n * w + r
    <3>1. t - n * w \in 0 .. n - 1
      BY <1>1, <1>3, <1>4
    <3> QED BY <3>1, <1>3, <1>4
  <2>2. t \div n \in Nat /\ n * (t \div n) <= t /\ t < n * (t \div n) + n
    BY <1>1, <1>5
  <2> DEFINE d == t \div n
  <2> HIDE DEF d
  <2>3. d \in Nat /\ n * d \in Nat /\ n * d < n * w + n /\ n * w < n * d + n
    BY <1>1, <1>3, <2>1, <2>2 DEF d
  <2>4. ~(d < w)
    <3> SUFFICES ASSUME d < w PROVE FALSE
      OBVIOUS
    <3>1. PICK e \in Nat : w = d + 1 + e
      <4>1. w - d - 1 \in Nat
        BY <2>3
      <4> QED BY <4>1, <2>3
    <3>2. n * w = n * d + n + n * e /\ n * e \in Nat
      BY <1>1, <2>3, <3>1
    <3> QED BY <1>1, <2>3, <3>2
  <2>5. ~(w < d)
    <3> SUFFICES ASSUME w < d PROVE FALSE
      OBVIOUS
    <3>1. PICK e \in Nat : d = w + 1 + e
      <4>1. d - w - 1 \in Nat
        BY <2>3
      <4> QED BY <4>1, <2>3
    <3>2. n * d = n * w + n + n * e /\ n * e \in Nat
      BY <1>1, <2>3, <3>1
    <3> QED BY <1>1, <1>3, <2>3, <3>2
  <2>6. d = w
    BY <2>3, <2>4, <2>5
  <2> QED BY <2>6 DEF d
<1> QED BY <1>2, <1>5, <1>6

-----------------------------------------------------------------------------
\* What the programs derive.

\* The frames of the history hold the bars printed so far.
FramesAre ==
  /\ clock \in 0 .. Horizon
  /\ frames = [a \in Assets |-> frames[a]]
  /\ \A a \in Assets : IsFrame(frames[a], clock \div Bar)

\* A number of minutes printed.
LEMMA MinutesAre ==
  ASSUME FramesAre
  PROVE  clock \div Bar \in Nat /\ 2 * (clock \div Bar) <= clock /\ clock \in Nat
         /\ clock <= Horizon /\ clock \div Bar <= Horizon
<1>1. clock \in Nat /\ clock <= Horizon /\ Horizon \in Nat
  BY StudyNumbers DEF FramesAre
<1>2. clock \div 2 \in Nat /\ 2 * (clock \div 2) <= clock /\ clock \div 2 <= clock
  BY <1>1
<1> QED BY <1>1, <1>2 DEF Bar

\* A replay is of an asset, and of a window that has ended.
LEMMA ReplaysAre ==
  ASSUME FramesAre
  PROVE  /\ Len(Replays(frames)) \in Nat
         /\ DOMAIN Replays(frames) = 1 .. Len(Replays(frames))
         /\ \A k \in 1 .. Len(Replays(frames)) :
              /\ Replays(frames)[k].asset \in Assets
              /\ Replays(frames)[k].window \in Nat
              /\ EndOf(Replays(frames)[k].window) <= clock
<1> DEFINE times == [a \in Assets |-> WindowsFor(frames[a])]
           order == InTurn(times)
           n == Len(order)
<1>1. ASSUME NEW a \in Assets, NEW w \in times[a]
      PROVE  w \in Nat /\ w <= Horizon /\ EndOf(w) <= clock
  <2> DEFINE m == clock \div Bar
  <2>1. m \in Nat /\ 2 * m <= clock /\ m <= Horizon /\ clock \in Nat /\ Horizon \in Nat
    BY MinutesAre, StudyNumbers
  <2>2. DOMAIN frames[a] \subseteq 0 .. m /\ w \in WindowsFor(frames[a])
    BY DEF FramesAre, IsFrame
  <2> HIDE DEF m
  <2>3. w \in 0 .. m /\ EndOf(w) <= 2 * m
    BY <2>1, <2>2, WindowsEnded
  <2>4. EndOf(w) \in Nat
    <3>1. w + 1 \in Nat /\ 2 * WindowBars \in Nat
      BY <2>3, StudyNumbers
    <3>2. (2 * WindowBars) * (w + 1) \in Nat
      BY <3>1
    <3> QED BY <3>2 DEF EndOf, StartOf, Bar
  <2> QED BY <2>1, <2>3, <2>4
<1>2. \A a \in Assets : times[a] \subseteq 0 .. Horizon
  BY <1>1, StudyNumbers
<1>3. /\ n \in Nat /\ DOMAIN order = 1 .. n
      /\ \A k \in 1 .. n : order[k].asset \in Assets /\ order[k].at \in times[order[k].asset]
  <2> HIDE DEF times
  <2> QED BY <1>2, InTurnIs
<1>4. Replays(frames) = [k \in 1 .. n |-> [asset |-> order[k].asset, window |-> order[k].at]]
  BY <1>3 DEF Replays
<1> HIDE DEF order
<1>5. Len(Replays(frames)) = n
  <2> DEFINE g == [k \in 1 .. n |-> [asset |-> order[k].asset, window |-> order[k].at]]
  <2>1. g \in [1 .. n -> {g[k] : k \in 1 .. n}]
    OBVIOUS
  <2> HIDE DEF g
  <2>2. Len(g) = n
    BY <1>3, <2>1, LengthIs
  <2> QED BY <1>4, <2>2 DEF g
<1>6. \A k \in 1 .. n : /\ order[k].at \in Nat /\ EndOf(order[k].at) <= clock
  BY <1>1, <1>3
<1>7. \A k \in 1 .. n : /\ Replays(frames)[k].asset = order[k].asset
                       /\ Replays(frames)[k].window = order[k].at
  BY <1>4
<1>8. DOMAIN Replays(frames) = 1 .. n
  BY <1>4
<1> QED BY <1>3, <1>5, <1>6, <1>7, <1>8

\* A row of the table is of an asset and a scan that has been, and of its window.
LEMMA TableIs ==
  ASSUME FramesAre
  PROVE  /\ Len(Table(frames)) \in Nat
         /\ DOMAIN Table(frames) = 1 .. Len(Table(frames))
         /\ \A k \in 1 .. Len(Table(frames)) :
              LET r == Table(frames)[k]
              IN  /\ r.asset \in Assets /\ r.window \in Nat /\ r.scan \in 0 .. clock
                  /\ r.row = BuildRow(frames, r.asset, WindowAt(r.scan), r.scan)
<1> DEFINE times == [a \in Assets |-> HasRow(frames, a)]
           order == InTurn(times)
           n == Len(order)
<1>1. ASSUME NEW a \in Assets, NEW t \in times[a]
      PROVE  t \in 0 .. clock /\ t \in 0 .. Horizon /\ WindowAt(t) \in Nat
  <2> DEFINE m == clock \div Bar
  <2>1. m \in Nat /\ 2 * m <= clock /\ clock \in Nat /\ Horizon \in Nat /\ clock <= Horizon
    BY MinutesAre, StudyNumbers
  <2>2. DOMAIN frames[a] \subseteq 0 .. m
    BY DEF FramesAre, IsFrame
  <2>3. PICK w \in WindowsFor(frames[a]) : t \in ScanTimes(w)
    BY DEF HasRow, Labelled
  <2> HIDE DEF m
  <2>4. w \in 0 .. m /\ EndOf(w) <= 2 * m
    BY <2>1, <2>2, WindowsEnded
  <2>5. w \in Nat
    BY <2>4
  <2>6. t \in Nat /\ t < EndOf(w) /\ WindowAt(t) = w
    BY <2>3, <2>5, ScansOf
  <2>7. EndOf(w) \in Nat
    <3>1. w + 1 \in Nat /\ 2 * WindowBars \in Nat
      BY <2>5, StudyNumbers
    <3>2. (2 * WindowBars) * (w + 1) \in Nat
      BY <3>1
    <3> QED BY <3>2 DEF EndOf, StartOf, Bar
  <2> QED BY <2>1, <2>4, <2>5, <2>6, <2>7
<1>2. \A a \in Assets : times[a] \subseteq 0 .. Horizon
  BY <1>1
<1>3. /\ n \in Nat /\ DOMAIN order = 1 .. n
      /\ \A k \in 1 .. n : order[k].asset \in Assets /\ order[k].at \in times[order[k].asset]
  <2> HIDE DEF times
  <2> QED BY <1>2, InTurnIs
<1>4. Table(frames) = [k \in 1 .. n |->
         RowAt(frames, order[k].asset, WindowAt(order[k].at), order[k].at)]
  BY <1>3 DEF Table
<1> HIDE DEF order
<1>5. Len(Table(frames)) = n
  <2> DEFINE g == [k \in 1 .. n |->
                     RowAt(frames, order[k].asset, WindowAt(order[k].at), order[k].at)]
  <2>1. g \in [1 .. n -> {g[k] : k \in 1 .. n}]
    OBVIOUS
  <2> HIDE DEF g
  <2>2. Len(g) = n
    BY <1>3, <2>1, LengthIs
  <2> QED BY <1>4, <2>2 DEF g
<1>6. \A k \in 1 .. n : order[k].at \in 0 .. clock /\ WindowAt(order[k].at) \in Nat
  BY <1>1, <1>3
<1>7. \A a, w, t : /\ RowAt(frames, a, w, t).asset = a
                   /\ RowAt(frames, a, w, t).window = w
                   /\ RowAt(frames, a, w, t).scan = t
                   /\ RowAt(frames, a, w, t).row = BuildRow(frames, a, w, t)
  BY DEF RowAt
<1>8. DOMAIN Table(frames) = 1 .. n
  BY <1>4
<1>9. ASSUME NEW k \in 1 .. n
      PROVE  LET r == Table(frames)[k]
             IN  /\ r.asset \in Assets /\ r.window \in Nat /\ r.scan \in 0 .. clock
                 /\ r.row = BuildRow(frames, r.asset, WindowAt(r.scan), r.scan)
  <2>1. Table(frames)[k] = RowAt(frames, order[k].asset, WindowAt(order[k].at), order[k].at)
    BY <1>4
  <2>2. /\ Table(frames)[k].asset = order[k].asset
        /\ Table(frames)[k].window = WindowAt(order[k].at)
        /\ Table(frames)[k].scan = order[k].at
        /\ Table(frames)[k].row =
             BuildRow(frames, order[k].asset, WindowAt(order[k].at), order[k].at)
    BY <1>7, <2>1
  <2>3. /\ order[k].asset \in Assets /\ order[k].at \in 0 .. clock
        /\ WindowAt(order[k].at) \in Nat
    BY <1>3, <1>6
  <2> QED BY <2>2, <2>3
<1> QED BY <1>3, <1>5, <1>8, <1>9

\* The rows that are left when the incomplete go have windows too.
LEMMA CleanedIs ==
  ASSUME NEW tab, IsTable(tab), NEW features
  PROVE  /\ IsTable(DropIncomplete(tab, features))
         /\ DOMAIN DropIncomplete(tab, features) = 1 .. Len(DropIncomplete(tab, features))
<1> DEFINE S == {i \in Positions(tab) : tab[i].missing \cap features = {}}
           n == Cardinality(S)
           whole == Ascending(S)
<1>1. S \subseteq Nat /\ S \subseteq 1 .. Len(tab)
  BY DEF Positions
<1>2. IsFiniteSet(S)
  BY <1>1, WindowsAreNumbers
<1> HIDE DEF S
<1>3. n \in Nat /\ DOMAIN whole = 1 .. n /\ \A k \in 1 .. n : whole[k] \in S
  BY <1>1, <1>2, AscendingIs
<1> DEFINE g == [k \in 1 .. n |-> tab[whole[k]]]
<1>4. DropIncomplete(tab, features) = g
  BY <1>3 DEF DropIncomplete, S
<1>5. g \in [1 .. n -> {g[k] : k \in 1 .. n}]
  OBVIOUS
<1>6. \A k \in 1 .. n : g[k].window \in Nat
  BY <1>1, <1>3 DEF IsTable
<1> HIDE DEF g
<1>7. Len(g) = n
  BY <1>3, <1>5, LengthIs
<1>8. DOMAIN g = 1 .. n
  BY DEF g
<1> QED BY <1>3, <1>4, <1>6, <1>7, <1>8 DEF IsTable

\* What a study derives trains on the past.
LEMMA StudyTrainsOnThePast ==
  ASSUME FramesAre, Study
  PROVE  TrainsOnThePast'
<1> DEFINE rs == Replays(frames)
           clean == Cleaned(Table(frames))
<1>1. /\ derived'.replays = rs /\ derived'.clean = clean
      /\ derived'.splits = PurgedWalkForward(rs)
      /\ derived'.fits = IF clean = << >> THEN {} ELSE Fits(clean)
  BY DEF Study
<1>2. IsTable(rs) /\ DOMAIN rs = 1 .. Len(rs)
  BY ReplaysAre DEF IsTable
<1>3. IsTable(clean) /\ DOMAIN clean = 1 .. Len(clean)
  <2>1. IsTable(Table(frames))
    BY TableIs DEF IsTable
  <2> QED BY <2>1, CleanedIs DEF Cleaned
<1> HIDE DEF rs, clean
<1>5. ASSUME NEW s \in PurgedWalkForward(rs), NEW i \in s.train, NEW j \in s.test
      PROVE  rs[i].window < rs[j].window
  <2>1. PICK fold \in 1 .. Folds - 1 : s = PurgedFold(rs, fold)
    BY DEF PurgedWalkForward
  <2>2. fold \in Nat /\ fold < Folds
    BY StudyNumbers
  <2> QED BY <1>2, <2>1, <2>2, PurgedFollows, StudyNumbers
<1>6. ASSUME NEW p \in Fits(clean), NEW i \in DOMAIN clean, NEW j \in DOMAIN clean,
             (i \in p.fit /\ j \in p.cal) \/ (i \in p.fit \cup p.cal /\ j \in p.test)
      PROVE  clean[i].window < clean[j].window
  BY <1>3, <1>6, FitsFollow, StudyNumbers
<1> QED BY <1>1, <1>5, <1>6 DEF TrainsOnThePast

-----------------------------------------------------------------------------
\* What a scan reads does not change as the market prints on.

\* Frame g is frame f after minute b has begun: its bar may be there, and the one
\* before it may have closed.
Grown(f, g, b) ==
  /\ DOMAIN f \subseteq 0 .. b - 1 /\ DOMAIN g \subseteq 0 .. b
  /\ \A c \in 0 .. b - 1 : c \in DOMAIN f <=> c \in DOMAIN g
  /\ \A c \in DOMAIN f : g[c].open = f[c].open
  /\ \A c \in DOMAIN f : c < b - 1 => g[c] = f[c]

\* The two agree up to a bar.
Agree(f, g, p) ==
  /\ RowsUpTo(f, p) = RowsUpTo(g, p)
  /\ RowsUpTo(f, p) \subseteq 0 .. p
  /\ \A c \in RowsUpTo(f, p) : f[c] = g[c]

\* Bars that are complete at a scan are there, and the same, in both.
LEMMA SeesTheSame ==
  ASSUME NEW b \in Nat \ {0}, NEW f, NEW g, Grown(f, g, b), NEW t \in Nat, t < 2 * b
  PROVE  /\ Visible(f, t) = Visible(g, t) /\ Visible(f, t) \subseteq DOMAIN f
         /\ Visible(f, t) \subseteq 0 .. b - 1
         /\ \A c \in Visible(f, t) : c \in Nat /\ c < b - 1
<1>1. \A c \in 0 .. b : 2 * c + 2 <= t => c < b - 1
  OBVIOUS
<1>2. ASSUME NEW c
      PROVE  c \in Visible(f, t) <=> c \in Visible(g, t)
  <2>1. c \in Visible(f, t) <=> c \in DOMAIN f /\ 2 * c + 2 <= t
    BY DEF Visible, Bar
  <2>2. c \in Visible(g, t) <=> c \in DOMAIN g /\ 2 * c + 2 <= t
    BY DEF Visible, Bar
  <2>3. c \in DOMAIN f \/ c \in DOMAIN g => c \in 0 .. b
    BY DEF Grown
  <2>4. c \in 0 .. b /\ 2 * c + 2 <= t => c \in 0 .. b - 1
    BY <1>1
  <2> QED BY <2>1, <2>2, <2>3, <2>4 DEF Grown
<1>3. Visible(f, t) \subseteq DOMAIN f /\ \A c \in Visible(f, t) : 2 * c + 2 <= t
  BY DEF Visible, Bar
<1>4. DOMAIN f \subseteq 0 .. b - 1
  BY DEF Grown
<1>5. \A c \in Visible(f, t) : c \in Nat /\ c < b - 1
  <2> TAKE c \in Visible(f, t)
  <2>1. c \in 0 .. b - 1 /\ c \in 0 .. b /\ 2 * c + 2 <= t
    BY <1>3, <1>4
  <2> QED BY <1>1, <2>1
<1>6. Visible(f, t) = Visible(g, t)
  BY <1>2
<1> QED BY <1>3, <1>4, <1>5, <1>6

\* So they agree up to such a bar.
LEMMA GrownAgree ==
  ASSUME NEW b \in Nat \ {0}, NEW f, NEW g, Grown(f, g, b), NEW p \in Nat, p < b - 1
  PROVE  Agree(f, g, p) /\ (p \in DOMAIN f <=> p \in DOMAIN g)
<1>1. ASSUME NEW c
      PROVE  /\ c \in RowsUpTo(f, p) <=> c \in RowsUpTo(g, p)
             /\ c \in RowsUpTo(f, p) => c \in 0 .. p /\ f[c] = g[c]
  <2>1. c \in RowsUpTo(f, p) <=> c \in DOMAIN f /\ c <= p
    BY DEF RowsUpTo
  <2>2. c \in RowsUpTo(g, p) <=> c \in DOMAIN g /\ c <= p
    BY DEF RowsUpTo
  <2>3. c \in DOMAIN f \/ c \in DOMAIN g => c \in 0 .. b
    BY DEF Grown
  <2>4. c \in 0 .. b /\ c <= p => c \in 0 .. b - 1 /\ c < b - 1 /\ c \in 0 .. p
    OBVIOUS
  <2>5. c \in 0 .. b - 1 => (c \in DOMAIN f <=> c \in DOMAIN g)
    BY DEF Grown
  <2>6. c \in DOMAIN f /\ c < b - 1 => f[c] = g[c]
    BY DEF Grown
  <2> QED BY <2>1, <2>2, <2>3, <2>4, <2>5, <2>6
<1>2. p \in 0 .. b - 1
  OBVIOUS
<1>3. p \in DOMAIN f <=> p \in DOMAIN g
  BY <1>2 DEF Grown
<1> QED BY <1>1, <1>3 DEF Agree

\* And so do the indicators of that bar.
LEMMA IndicatorsAgree ==
  ASSUME NEW p \in Nat, NEW f, NEW g, Agree(f, g, p), p \in DOMAIN f, p \in DOMAIN g
  PROVE  /\ Momentum(f, p) = Momentum(g, p)
         /\ Volatility(f, p) = Volatility(g, p)
         /\ \A w, r : Path(f, w, p, r) = Path(g, w, p, r)
<1> DEFINE R == RowsUpTo(f, p)
           before == R \ {p}
<1>1. R = RowsUpTo(g, p) /\ R \subseteq 0 .. p /\ \A c \in R : f[c] = g[c]
  BY DEF Agree
<1>2. p \in R
  BY DEF RowsUpTo
<1>3. R \subseteq DOMAIN f /\ R \subseteq DOMAIN g
  BY <1>1 DEF RowsUpTo
<1>4. \A c \in DOMAIN f : c <= p => c \in R
  BY DEF RowsUpTo
<1>5. \A c \in DOMAIN g : c <= p => c \in R
  BY <1>1 DEF RowsUpTo
<1>6. Momentum(f, p) = Momentum(g, p)
  <2>1. Momentum(f, p) = IF before = {} THEN None ELSE <<f[Max(before)].close, f[p].close>>
    BY DEF Momentum
  <2>2. Momentum(g, p) = IF before = {} THEN None ELSE <<g[Max(before)].close, g[p].close>>
    BY <1>1 DEF Momentum
  <2>3. before # {} => Max(before) \in R
    <3>1. before \subseteq 0 .. p
      BY <1>1
    <3> QED BY <3>1, LastIs
  <2> HIDE DEF before, R
  <2> QED BY <1>1, <1>2, <2>1, <2>2, <2>3
<1>7. Volatility(f, p) = Volatility(g, p)
  <2>1. Adjacent(f, p) = {c \in R : c > 0 /\ c - 1 \in DOMAIN f}
    BY DEF Adjacent
  <2>2. Adjacent(g, p) = {c \in R : c > 0 /\ c - 1 \in DOMAIN g}
    BY <1>1 DEF Adjacent
  <2> HIDE DEF R
  <2>3. \A c \in R : c > 0 => /\ c - 1 \in DOMAIN f <=> c - 1 \in DOMAIN g
                              /\ c - 1 \in DOMAIN f => c - 1 \in R
    <3> SUFFICES ASSUME NEW c \in R, c > 0
                 PROVE  /\ c - 1 \in DOMAIN f <=> c - 1 \in DOMAIN g
                        /\ c - 1 \in DOMAIN f => c - 1 \in R
      OBVIOUS
    <3>1. c - 1 <= p
      BY <1>1
    <3> QED BY <1>3, <1>4, <1>5, <3>1
  <2>4. Adjacent(f, p) = Adjacent(g, p)
    BY <2>1, <2>2, <2>3
  <2>5. \A c \in Adjacent(f, p) : f[c] = g[c] /\ f[c - 1] = g[c - 1]
    BY <1>1, <2>1, <2>3
  <2>6. {c \in Adjacent(f, p) : f[c].close # f[c - 1].close}
          = {c \in Adjacent(g, p) : g[c].close # g[c - 1].close}
    BY <2>4, <2>5
  <2> QED BY <2>6 DEF Volatility
<1>8. ASSUME NEW w, NEW r
      PROVE  Path(f, w, p, r) = Path(g, w, p, r)
  <2> HIDE DEF R
  <2> DEFINE D == {c \in R : Bar * c >= StartOf(w)}
  <2>1. Path(f, w, p, r) = [c \in D |-> f[c].close > r.price]
    BY DEF Path, R
  <2>2. Path(g, w, p, r) = [c \in D |-> g[c].close > r.price]
    BY <1>1 DEF Path
  <2>3. \A c \in D : f[c] = g[c]
    BY <1>1
  <2> QED BY <2>1, <2>2, <2>3
<1> QED BY <1>6, <1>7, <1>8

\* A reference that is available is the same.
LEMMA ReferencesAgree ==
  ASSUME NEW b \in Nat \ {0}, NEW f, NEW g, Grown(f, g, b),
         NEW t \in Nat, t < 2 * b, NEW w
  PROVE  /\ AvailableAt(DeriveReference(f, w), t) <=> AvailableAt(DeriveReference(g, w), t)
         /\ AvailableAt(DeriveReference(f, w), t) =>
              DeriveReference(f, w) = DeriveReference(g, w)
<1> DEFINE I == {c \in DOMAIN f : Bar * c \in ScanTimes(w)}
           J == {c \in DOMAIN g : Bar * c \in ScanTimes(w)}
<1>1. /\ I \subseteq 0 .. b - 1 /\ J \subseteq 0 .. b /\ I \subseteq DOMAIN f
      /\ \A c \in 0 .. b - 1 : c \in I <=> c \in J
  BY DEF Grown
<1>2. /\ DeriveReference(f, w) = IF I = {} THEN None
                                 ELSE [bar |-> Min(I), price |-> f[Min(I)].open]
      /\ DeriveReference(g, w) = IF J = {} THEN None
                                 ELSE [bar |-> Min(J), price |-> g[Min(J)].open]
  BY DEF DeriveReference
<1> HIDE DEF I, J
<1>3. CASE I = {}
  <2>1. ~AvailableAt(DeriveReference(f, w), t)
    BY <1>2, <1>3 DEF AvailableAt
  <2>2. CASE J = {}
    BY <1>2, <2>1, <2>2 DEF AvailableAt
  <2>3. CASE J # {}
    <3>1. \A c \in J : c = b
      BY <1>1, <1>3
    <3>2. Min(J) \in J
      BY <1>1, <2>3, LastIs
    <3>3. DeriveReference(g, w).bar = b
      BY <1>2, <2>3, <3>1, <3>2
    <3>4. ~(t >= 2 * b)
      OBVIOUS
    <3>5. ~AvailableAt(DeriveReference(g, w), t)
      BY <3>3, <3>4 DEF AvailableAt, Bar
    <3> QED BY <2>1, <3>5
  <2> QED BY <2>2, <2>3
<1>4. CASE I # {}
  <2>1. b - 1 \in Nat
    OBVIOUS
  <2>2. Min(I) \in I /\ \A c \in I : Min(I) <= c
    BY <1>1, <1>4, <2>1, LastIs
  <2>3. J # {}
    BY <1>1, <2>2
  <2>4. Min(J) \in J /\ \A c \in J : Min(J) <= c
    BY <1>1, <2>3, LastIs
  <2>5. Min(I) \in 0 .. b - 1 /\ Min(J) \in 0 .. b /\ Min(J) <= Min(I)
    BY <1>1, <2>2, <2>4
  <2>6. Min(J) \in 0 .. b - 1
    BY <2>5
  <2>7. Min(J) \in I
    BY <1>1, <2>4, <2>6
  <2>8. Min(I) = Min(J)
    BY <2>2, <2>5, <2>7
  <2>9. f[Min(I)].open = g[Min(J)].open
    BY <1>1, <2>2, <2>8 DEF Grown
  <2>10. DeriveReference(f, w) = DeriveReference(g, w)
    BY <1>2, <1>4, <2>3, <2>8, <2>9
  <2> QED BY <2>10
<1> QED BY <1>3, <1>4

\* What the code makes of a history at a scan is what it makes of a longer one.
LEMMA ScansAgree ==
  ASSUME NEW b \in Nat \ {0}, NEW F, NEW G, \A a \in Assets : Grown(F[a], G[a], b),
         NEW t \in Nat, t < 2 * b
  PROVE  Scan(F, t) = Scan(G, t)
<1>1. ASSUME NEW a \in Assets, NEW w
      PROVE  /\ ComputeFeatures(F, a, w, t) = ComputeFeatures(G, a, w, t)
             /\ BuildRow(F, a, w, t) = BuildRow(G, a, w, t)
  <2> DEFINE f == F[a]
             g == G[a]
             shown == Visible(f, t)
             p == Max(shown)
             ref == DeriveReference(f, w)
             ref2 == DeriveReference(g, w)
  <2>1. Grown(f, g, b)
    OBVIOUS
  <2>2. /\ shown = Visible(g, t) /\ shown \subseteq DOMAIN f /\ shown \subseteq 0 .. b - 1
        /\ \A c \in shown : c \in Nat /\ c < b - 1
    BY <2>1, SeesTheSame
  <2>3. /\ AvailableAt(ref, t) <=> AvailableAt(ref2, t)
        /\ AvailableAt(ref, t) => ref = ref2
    BY <2>1, ReferencesAgree
  <2>4. CASE shown = {}
    BY <2>2, <2>4 DEF ComputeFeatures, BuildRow
  <2>5. CASE shown # {}
    <3> HIDE DEF f, g, ref, ref2, shown
    <3>1. p \in shown
      <4>1. b - 1 \in Nat
        OBVIOUS
      <4> QED BY <2>2, <2>5, <4>1, LastIs
    <3>2. p \in Nat /\ p < b - 1 /\ p \in DOMAIN f
      BY <2>2, <3>1
    <3> HIDE DEF p
    <3>3. Agree(f, g, p) /\ p \in DOMAIN g
      BY <2>1, <3>2, GrownAgree
    <3>4. /\ Momentum(f, p) = Momentum(g, p) /\ Volatility(f, p) = Volatility(g, p)
          /\ \A v, r : Path(f, v, p, r) = Path(g, v, p, r)
      BY <3>2, <3>3, IndicatorsAgree
    <3>5. f[p] = g[p]
      <4>1. p \in RowsUpTo(f, p)
        BY <3>2 DEF RowsUpTo
      <4> QED BY <3>3, <4>1 DEF Agree
    <3>6. Panel(F, p) = Panel(G, p)
      <4>1. \A c \in Assets : p \in DOMAIN F[c] <=> p \in DOMAIN G[c]
        BY <3>2, GrownAgree
      <4>2. \A c \in Assets : p \in DOMAIN F[c] => Momentum(F[c], p) = Momentum(G[c], p)
        <5> SUFFICES ASSUME NEW c \in Assets, p \in DOMAIN F[c]
                     PROVE  Momentum(F[c], p) = Momentum(G[c], p)
          OBVIOUS
        <5>1. Agree(F[c], G[c], p) /\ p \in DOMAIN G[c]
          BY <3>2, GrownAgree
        <5> QED BY <3>2, <5>1, IndicatorsAgree
      <4>3. {c \in Assets : p \in DOMAIN F[c]} = {c \in Assets : p \in DOMAIN G[c]}
        BY <4>1
      <4> QED BY <4>2, <4>3 DEF Panel
    <3>7. ComputeFeatures(F, a, w, t) = ComputeFeatures(G, a, w, t)
      <4>1. ComputeFeatures(F, a, w, t) =
              IF shown = {} \/ Cardinality(shown) < MinBars THEN None
              ELSE [spot |-> f[p].close, visible |-> Cardinality(shown),
                    momentum |-> Momentum(f, p), volatility |-> Volatility(f, p),
                    reference |-> IF AvailableAt(ref, t) THEN ref.price ELSE None]
        BY DEF ComputeFeatures, f, shown, p, ref
      <4>2. ComputeFeatures(G, a, w, t) =
              IF shown = {} \/ Cardinality(shown) < MinBars THEN None
              ELSE [spot |-> g[p].close, visible |-> Cardinality(shown),
                    momentum |-> Momentum(g, p), volatility |-> Volatility(g, p),
                    reference |-> IF AvailableAt(ref2, t) THEN ref2.price ELSE None]
        BY <2>2 DEF ComputeFeatures, g, p, ref2
      <4> QED BY <2>3, <3>4, <3>5, <4>1, <4>2
    <3>8. BuildRow(F, a, w, t) = BuildRow(G, a, w, t)
      <4>1. BuildRow(F, a, w, t) =
              IF \/ shown = {} \/ Cardinality(shown) < MinBars
                 \/ ~AvailableAt(ref, t) \/ Volatility(f, p) = 0
              THEN None
              ELSE [spot |-> f[p].close, reference |-> ref.price,
                    momentum |-> Momentum(f, p), volatility |-> Volatility(f, p),
                    path |-> Path(f, w, p, ref), panel |-> Panel(F, p)]
        BY DEF BuildRow, f, shown, p, ref
      <4>2. BuildRow(G, a, w, t) =
              IF \/ shown = {} \/ Cardinality(shown) < MinBars
                 \/ ~AvailableAt(ref2, t) \/ Volatility(g, p) = 0
              THEN None
              ELSE [spot |-> g[p].close, reference |-> ref2.price,
                    momentum |-> Momentum(g, p), volatility |-> Volatility(g, p),
                    path |-> Path(g, w, p, ref2), panel |-> Panel(G, p)]
        BY <2>2 DEF BuildRow, g, p, ref2
      <4> QED BY <2>3, <3>4, <3>5, <3>6, <4>1, <4>2
    <3> QED BY <3>7, <3>8
  <2> QED BY <2>4, <2>5
<1> QED BY <1>1 DEF Scan

-----------------------------------------------------------------------------
\* The history goes on, and is studied.

\* The observer's record is what the history would give at each scan.
LivedIsSeen ==
  /\ DOMAIN lived = 0 .. clock
  /\ \A t \in 0 .. clock : lived[t] = Scan(frames, t)

StudyInv == FramesAre /\ LivedIsSeen /\ TrainsOnThePast /\ AsLived

\* A bar that opens extends a frame by itself.
LEMMA OpenedIs ==
  ASSUME NEW f, NEW b \in Nat, IsFrame(f, b - 1) \/ DOMAIN f = {}
  PROVE  /\ IsFrame(Opened(f, b), b) /\ DOMAIN Opened(f, b) = DOMAIN f \cup {b}
         /\ \A c \in DOMAIN f : Opened(f, b)[c] = f[c]
<1> DEFINE price == IF f = << >> THEN 1 ELSE f[Max(DOMAIN f)].close
           g == [c \in DOMAIN f \cup {b} |->
                   IF c = b THEN [open |-> price, close |-> price] ELSE f[c]]
<1>1. Opened(f, b) = g
  BY DEF Opened
<1> HIDE DEF price
<1>2. b \notin DOMAIN f /\ DOMAIN f \subseteq 0 .. b
  BY DEF IsFrame
<1>3. \A c \in DOMAIN f : g[c] = f[c]
  BY <1>2
<1>4. g[b] = [open |-> price, close |-> price] /\ DOMAIN g = DOMAIN f \cup {b}
  OBVIOUS
<1>5. g = [c \in DOMAIN g |-> g[c]]
  OBVIOUS
<1>6. \A c \in DOMAIN f : f[c] = [open |-> f[c].open, close |-> f[c].close]
  BY DEF IsFrame
<1> HIDE DEF g
<1>7. \A c \in DOMAIN g : g[c] = [open |-> g[c].open, close |-> g[c].close]
  BY <1>3, <1>4, <1>6
<1>8. DOMAIN g \subseteq 0 .. b
  BY <1>2, <1>4
<1> QED BY <1>1, <1>3, <1>4, <1>5, <1>7, <1>8 DEF IsFrame

\* A bar that closes keeps the frame and its opening prices.
LEMMA ClosedIs ==
  ASSUME NEW f, NEW b \in Nat \ {0}, IsFrame(f, b - 1), NEW price
  PROVE  /\ IsFrame(Closed(f, b, price), b - 1)
         /\ DOMAIN Closed(f, b, price) = DOMAIN f
         /\ \A c \in DOMAIN f : Closed(f, b, price)[c].open = f[c].open
         /\ \A c \in DOMAIN f : c < b - 1 => Closed(f, b, price)[c] = f[c]
<1>1. CASE ~(b > 0 /\ b - 1 \in DOMAIN f)
  <2>1. Closed(f, b, price) = f
    BY <1>1 DEF Closed
  <2> QED BY <2>1
<1>2. CASE b > 0 /\ b - 1 \in DOMAIN f
  <2> DEFINE g == [f EXCEPT ![b - 1].close = price]
  <2>1. Closed(f, b, price) = g
    BY <1>2 DEF Closed
  <2>2. /\ f = [c \in DOMAIN f |-> f[c]] /\ DOMAIN f \subseteq 0 .. b - 1
        /\ \A c \in DOMAIN f : f[c] = [open |-> f[c].open, close |-> f[c].close]
    BY DEF IsFrame
  <2>3. DOMAIN g = DOMAIN f /\ g = [c \in DOMAIN g |-> g[c]]
        /\ \A c \in DOMAIN f : c # b - 1 => g[c] = f[c]
    BY <1>2
  <2>4. g[b - 1] = [f[b - 1] EXCEPT !.close = price]
    BY <1>2
  <2>5. f[b - 1] = [open |-> f[b - 1].open, close |-> f[b - 1].close]
    BY <1>2, <2>2
  <2> HIDE DEF g
  <2>6. g[b - 1] = [open |-> f[b - 1].open, close |-> price]
    BY <2>4, <2>5
  <2>7. \A c \in DOMAIN f : g[c].open = f[c].open
    BY <2>3, <2>6
  <2>8. \A c \in DOMAIN f : c < b - 1 => g[c] = f[c]
    BY <2>2, <2>3
  <2>9. \A c \in DOMAIN f : g[c] = [open |-> g[c].open, close |-> g[c].close]
    BY <2>2, <2>3, <2>6
  <2>10. IsFrame(g, b - 1)
    BY <2>2, <2>3, <2>9 DEF IsFrame
  <2> QED BY <2>1, <2>3, <2>7, <2>8, <2>10
<1> QED BY <1>1, <1>2

\* A minute that begins makes each frame grow.
LEMMA MinuteGrows ==
  ASSUME FramesAre, NEW b \in Nat \ {0}, Minute(b),
         \A a \in Assets : IsFrame(frames[a], b - 1)
  PROVE  /\ frames' = [a \in Assets |-> frames'[a]]
         /\ \A a \in Assets : IsFrame(frames'[a], b) /\ Grown(frames[a], frames'[a], b)
<1>1. PICK close \in [Assets -> Prices], gap \in SUBSET Assets :
        frames' = [a \in Assets |-> IF a \in gap THEN Closed(frames[a], b, close[a])
                                    ELSE Opened(Closed(frames[a], b, close[a]), b)]
  BY DEF Minute
<1>2. frames' = [a \in Assets |-> frames'[a]]
  BY <1>1
<1>3. ASSUME NEW a \in Assets
      PROVE  IsFrame(frames'[a], b) /\ Grown(frames[a], frames'[a], b)
  <2> DEFINE f == frames[a]
             p == close[a]
             c == Closed(f, b, p)
             g == frames'[a]
  <2>1. IsFrame(f, b - 1)
    OBVIOUS
  <2>2. g = c \/ g = Opened(c, b)
    BY <1>1
  <2> HIDE DEF f, g, p
  <2>3. /\ IsFrame(c, b - 1) /\ DOMAIN c = DOMAIN f
        /\ \A x \in DOMAIN f : c[x].open = f[x].open
        /\ \A x \in DOMAIN f : x < b - 1 => c[x] = f[x]
    BY <2>1, ClosedIs
  <2> HIDE DEF c
  <2>4. DOMAIN f \subseteq 0 .. b - 1
    BY <2>1 DEF IsFrame
  <2>5. CASE g = c
    <3>1. IsFrame(g, b)
      BY <2>3, <2>5 DEF IsFrame
    <3>2. Grown(f, g, b)
      BY <2>3, <2>4, <2>5 DEF Grown
    <3> QED BY <3>1, <3>2 DEF f, g
  <2>6. CASE g = Opened(c, b)
    <3>1. /\ IsFrame(g, b) /\ DOMAIN g = DOMAIN f \cup {b}
          /\ \A x \in DOMAIN f : g[x] = c[x]
      BY <2>3, <2>6, OpenedIs
    <3>2. \A x \in 0 .. b - 1 : x \in DOMAIN f <=> x \in DOMAIN g
      BY <3>1
    <3>3. \A x \in DOMAIN f : g[x].open = f[x].open /\ (x < b - 1 => g[x] = f[x])
      BY <2>3, <3>1
    <3>4. DOMAIN g \subseteq 0 .. b
      BY <3>1 DEF IsFrame
    <3>5. Grown(f, g, b)
      BY <2>4, <3>2, <3>3, <3>4 DEF Grown
    <3> QED BY <3>1, <3>5 DEF f, g
  <2> QED BY <2>2, <2>5, <2>6
<1> QED BY <1>2, <1>3

\* Before the clock moves no bar is known and nothing is learned or judged.
LEMMA StudyBegins ==
  ASSUME StudyInit
  PROVE  StudyInv
<1>1. /\ clock = 0 /\ derived = None /\ lived = [t \in {0} |-> Scan(frames, 0)]
      /\ frames = [a \in Assets |-> Opened(<< >>, 0)]
  BY DEF StudyInit
<1>2. IsFrame(Opened(<< >>, 0), 0)
  <2>1. DOMAIN << >> = {}
    OBVIOUS
  <2> QED BY <2>1, OpenedIs
<1>3. FramesAre
  <2>1. clock \div Bar = 0 /\ clock \in 0 .. Horizon
    BY <1>1, StudyNumbers DEF Bar
  <2>2. frames = [a \in Assets |-> frames[a]] /\ \A a \in Assets : frames[a] = Opened(<< >>, 0)
    BY <1>1
  <2> QED BY <1>2, <2>1, <2>2 DEF FramesAre
<1>4. LivedIsSeen
  <2>1. 0 .. clock = {0}
    BY <1>1
  <2>2. DOMAIN lived = {0} /\ lived[0] = Scan(frames, 0)
    BY <1>1
  <2> QED BY <2>1, <2>2 DEF LivedIsSeen
<1>5. TrainsOnThePast /\ AsLived
  BY <1>1 DEF TrainsOnThePast, AsLived, ReplayedAsLived, RowsAsLived
<1> QED BY <1>3, <1>4, <1>5 DEF StudyInv

\* Half a minute more keeps what was seen.
LEMMA ElapseKeeps ==
  ASSUME FramesAre, LivedIsSeen, Elapse
  PROVE  StudyInv'
<1>1. /\ derived = None /\ derived' = None /\ clock < Horizon /\ clock' = clock + 1
      /\ lived' = [t \in 0 .. clock + 1 |-> IF t <= clock THEN lived[t] ELSE Scan(frames', t)]
      /\ IF (clock + 1) % Bar = 0 THEN Minute((clock + 1) \div Bar) ELSE UNCHANGED frames
  BY DEF Elapse
<1>2. clock \in Nat /\ Horizon \in Nat /\ clock + 1 \in 0 .. Horizon
  BY <1>1, MinutesAre, StudyNumbers
<1>3. /\ frames' = [a \in Assets |-> frames'[a]]
      /\ \A a \in Assets : IsFrame(frames'[a], (clock + 1) \div Bar)
      /\ \A t \in 0 .. clock : Scan(frames', t) = Scan(frames, t)
  <2>1. CASE (clock + 1) % Bar = 0
    <3> DEFINE b == (clock + 1) \div Bar
    <3>1. b \in Nat \ {0} /\ b - 1 = clock \div Bar /\ clock < 2 * b
      <4>1. (clock + 1) % 2 = 0
        BY <2>1 DEF Bar
      <4>2. LET d == (clock + 1) \div 2
            IN  d \in Nat \ {0} /\ d - 1 = clock \div 2 /\ clock < 2 * d
        BY <1>2, <4>1
      <4> QED BY <4>2 DEF Bar
    <3>2. Minute(b)
      BY <1>1, <2>1
    <3>3. \A a \in Assets : IsFrame(frames[a], b - 1)
      BY <3>1 DEF FramesAre
    <3> HIDE DEF b
    <3>4. /\ frames' = [a \in Assets |-> frames'[a]]
          /\ \A a \in Assets : IsFrame(frames'[a], b) /\ Grown(frames[a], frames'[a], b)
      BY <3>1, <3>2, <3>3, MinuteGrows
    <3>5. \A t \in 0 .. clock : t \in Nat /\ t < 2 * b
      BY <1>2, <3>1
    <3>6. \A t \in 0 .. clock : Scan(frames, t) = Scan(frames', t)
      BY <3>1, <3>4, <3>5, ScansAgree
    <3> QED BY <3>4, <3>6 DEF b
  <2>2. CASE (clock + 1) % Bar # 0
    <3>1. frames' = frames
      BY <1>1, <2>2
    <3>2. (clock + 1) \div Bar = clock \div Bar
      BY <1>2, <2>2 DEF Bar
    <3> QED BY <3>1, <3>2 DEF FramesAre
  <2> QED BY <2>1, <2>2
<1>4. FramesAre'
  BY <1>1, <1>2, <1>3 DEF FramesAre
<1>5. LivedIsSeen'
  <2>1. DOMAIN lived' = 0 .. clock'
    BY <1>1
  <2>2. ASSUME NEW t \in 0 .. clock + 1 PROVE lived'[t] = Scan(frames', t)
    <3>1. CASE t <= clock
      <4>1. t \in 0 .. clock
        BY <3>1
      <4> QED BY <1>1, <1>3, <3>1, <4>1 DEF LivedIsSeen
    <3>2. CASE ~(t <= clock)
      BY <1>1, <3>2
    <3> QED BY <3>1, <3>2
  <2> QED BY <1>1, <2>1, <2>2 DEF LivedIsSeen
<1>6. TrainsOnThePast' /\ AsLived'
  BY <1>1 DEF TrainsOnThePast, AsLived, ReplayedAsLived, RowsAsLived
<1> QED BY <1>4, <1>5, <1>6 DEF StudyInv

\* What a study reads of the history is what was seen as it went by.
LEMMA StudyIsAsLived ==
  ASSUME FramesAre, LivedIsSeen, Study
  PROVE  AsLived'
<1>1. /\ derived'.replays = Replays(frames) /\ derived'.table = Table(frames)
      /\ frames' = frames /\ lived' = lived /\ clock' = clock
  BY DEF Study
<1>2. ASSUME NEW k \in DOMAIN Replays(frames), NEW strategy \in Strategies
      PROVE  LET a == Replays(frames)[k].asset
                 w == Replays(frames)[k].window
             IN  ReplayContract(frames, a, w, strategy) =
                   FirstDecision(strategy, [t \in ScanTimes(w) |-> lived[t][a].features], w)
  <2> DEFINE a == Replays(frames)[k].asset
             w == Replays(frames)[k].window
  <2>1. a \in Assets /\ w \in Nat /\ EndOf(w) <= clock
    BY ReplaysAre
  <2> HIDE DEF a, w
  <2>2. \A t \in ScanTimes(w) : t \in 0 .. clock /\ WindowAt(t) = w
    <3> TAKE t \in ScanTimes(w)
    <3>1. t \in Nat /\ t < EndOf(w) /\ WindowAt(t) = w
      BY <2>1, ScansOf
    <3>2. EndOf(w) \in Nat
      <4>1. w + 1 \in Nat /\ 2 * WindowBars \in Nat
        BY <2>1, StudyNumbers
      <4>2. (2 * WindowBars) * (w + 1) \in Nat
        BY <4>1
      <4> QED BY <4>2 DEF EndOf, StartOf, Bar
    <3>3. clock \in Nat
      BY MinutesAre
    <3> QED BY <2>1, <3>1, <3>2, <3>3
  <2>3. \A t \in ScanTimes(w) : ComputeFeatures(frames, a, w, t) = lived[t][a].features
    BY <2>1, <2>2 DEF LivedIsSeen, Scan
  <2>4. [t \in ScanTimes(w) |-> ComputeFeatures(frames, a, w, t)]
          = [t \in ScanTimes(w) |-> lived[t][a].features]
    BY <2>3
  <2>5. ReplayContract(frames, a, w, strategy) =
          FirstDecision(strategy, [t \in ScanTimes(w) |-> lived[t][a].features], w)
    BY <2>4 DEF ReplayContract
  <2> QED BY <2>5 DEF a, w
<1>3. ASSUME NEW k \in DOMAIN Table(frames)
      PROVE  LET r == Table(frames)[k] IN r.row = lived[r.scan][r.asset].row
  <2> DEFINE r == Table(frames)[k]
  <2>1. /\ r.asset \in Assets /\ r.scan \in 0 .. clock
        /\ r.row = BuildRow(frames, r.asset, WindowAt(r.scan), r.scan)
    BY TableIs
  <2> HIDE DEF r
  <2>2. lived[r.scan][r.asset].row = BuildRow(frames, r.asset, WindowAt(r.scan), r.scan)
    BY <2>1 DEF LivedIsSeen, Scan
  <2> QED BY <2>1, <2>2 DEF r
<1>4. ReplayedAsLived'
  BY <1>1, <1>2 DEF ReplayedAsLived
<1>5. RowsAsLived'
  BY <1>1, <1>3 DEF RowsAsLived
<1> QED BY <1>4, <1>5 DEF AsLived

\* Every step of the composition keeps what the studies rely on.
LEMMA StudyInvKept ==
  ASSUME StudyInv, [StudyNext]_studyVars
  PROVE  StudyInv'
<1>1. CASE Elapse
  BY <1>1, ElapseKeeps DEF StudyInv
<1>2. CASE Study
  <2>1. frames' = frames /\ lived' = lived /\ clock' = clock
    BY <1>2 DEF Study
  <2>2. FramesAre' /\ LivedIsSeen'
    BY <2>1 DEF StudyInv, FramesAre, LivedIsSeen
  <2>3. TrainsOnThePast' /\ AsLived'
    BY <1>2, StudyTrainsOnThePast, StudyIsAsLived DEF StudyInv
  <2> QED BY <2>2, <2>3 DEF StudyInv
<1>3. CASE UNCHANGED studyVars
  <2>1. frames' = frames /\ lived' = lived /\ clock' = clock /\ derived' = derived
    BY <1>3 DEF studyVars
  <2>2. FramesAre' /\ LivedIsSeen'
    BY <2>1 DEF StudyInv, FramesAre, LivedIsSeen
  <2>3. TrainsOnThePast' /\ AsLived'
    BY <2>1 DEF StudyInv, TrainsOnThePast, AsLived, ReplayedAsLived, RowsAsLived
  <2> QED BY <2>2, <2>3 DEF StudyInv
<1> QED BY <1>1, <1>2, <1>3 DEF StudyNext

\* Every reachable state has the invariant of the studies.
LEMMA StudyInvAlways == ResearchSpec => []StudyInv
<1>1. ResearchInit => StudyInv
  BY StudyBegins DEF ResearchInit
<1>2. StudyInv /\ [ResearchNext]_<<mover, studyVars, phaseVars>> => StudyInv'
  <2> SUFFICES ASSUME StudyInv, [ResearchNext]_<<mover, studyVars, phaseVars>>
               PROVE  StudyInv'
    OBVIOUS
  <2>1. [StudyNext]_studyVars
    BY DEF ResearchNext, Live, Learn, StudyNext
  <2> QED BY <2>1, StudyInvKept
<1> QED BY <1>1, <1>2, PTL DEF ResearchSpec

\* What the programs read back from a finished history, in a replay and in each
\* row of the modelling table, is what could be seen as it went by
\* (backtest/view.py, features.py, replay.py, models/dataset_builder.py).
THEOREM ReadsAsLived == ResearchSpec => []AsLived
<1>1. StudyInv => AsLived
  BY DEF StudyInv
<1> QED BY <1>1, StudyInvAlways, PTL

\* Contracts a fold trains on have ended before any it tests begins, and what
\* fits a model, what calibrates it and what tests it follow one another by
\* window (backtest/splits.py, models/splits.py, models/pipeline.py).
THEOREM LearnsFromThePast == ResearchSpec => []TrainsOnThePast
<1>1. StudyInv => TrainsOnThePast
  BY DEF StudyInv
<1> QED BY <1>1, StudyInvAlways, PTL

=============================================================================
