----------------------------- MODULE ForwardStore -----------------------------
(***************************************************************************)
(* One stream of mantis_v4/forward/store.py: a JSONL file, the process     *)
(* that has it open, and the identifier and key indexes that process keeps *)
(* in memory.  The streams share nothing but a lock, and every operation   *)
(* holds that lock from its first read to its last write, so one stream is *)
(* the whole story and each operation is one step.                         *)
(*                                                                         *)
(* The callers are unconstrained: they append any row, and may go on after *)
(* an append that raised.  ForwardLive composes the store with the caller  *)
(* the program really has.                                                 *)
(***************************************************************************)
EXTENDS JsonlLog

CONSTANTS Ids,       \* record identifiers (observation_id, entry_id, ...)
          Keys,      \* (contract_id, asset) pairs
          MaxLines   \* bound: lines the file may grow to

ASSUME BoundAssumption == MaxLines \in Nat \ {0}
ASSUME BadIsNoRow == Bad \notin [id : Ids, key : Keys]

Rows == [id : Ids, key : Keys]

VARIABLES
  file,      \* the file on disk
  up,        \* a process has constructed a ForwardStore over it
  ids,       \* _ids[name] of that process
  keys,      \* _entry_keys / _resolved_keys of that process
  acked,     \* history: rows whose append returned True
  doubted,   \* history: identifiers whose append raised once the row was whole
  merged     \* history: some write landed on a torn tail

vars == <<file, up, ids, keys, acked, doubted, merged>>

IdsOf(R)  == {r.id : r \in R}
KeysOf(R) == {r.key : r \in R}

Init ==
  /\ file = EmptyFile
  /\ up = FALSE
  /\ ids = {} /\ keys = {}
  /\ acked = {} /\ doubted = {} /\ merged = FALSE

\* A write changed what was a torn tail.
Merges == file.torn /\ file' # file

\* Mutant of Open: the indexes start empty.
OpenEmpty ==
  /\ ~up /\ ~Malformed(file)
  /\ up' = TRUE
  /\ ids' = {} /\ keys' = {}
  /\ UNCHANGED <<file, acked, doubted, merged>>

\* __init__: read the file and rebuild both indexes.  A malformed interior
\* line raises, and the store cannot be opened at all.
Open ==
  /\ ~up /\ ~Malformed(file)
  /\ up' = TRUE
  /\ ids' = IdsOf(RowsOf(file))
  /\ keys' = KeysOf(RowsOf(file))
  /\ UNCHANGED <<file, acked, doubted, merged>>

\* Mutants of AppendRow: the key index is fed the identifier; the file is
\* opened for writing instead of appending.
AppendRowWrongKey(r) ==
  /\ up /\ r.id \notin ids
  /\ Len(file.lines) < MaxLines
  /\ file' = Written(file, r, TRUE)
  /\ ids' = ids \cup {r.id}
  /\ keys' = keys \cup {r.id}
  /\ acked' = acked \cup {r}
  /\ merged' = (merged \/ Merges)
  /\ UNCHANGED <<up, doubted>>

AppendRowTruncates(r) ==
  /\ up /\ r.id \notin ids
  /\ Len(file.lines) < MaxLines
  /\ file' = Written(EmptyFile, r, TRUE)
  /\ ids' = ids \cup {r.id}
  /\ keys' = keys \cup {r.key}
  /\ acked' = acked \cup {r}
  /\ merged' = (merged \/ Merges)
  /\ UNCHANGED <<up, doubted>>

\* append() of a fresh identifier: the line is durable before any index knows
\* it.  (Of a known identifier it returns False and changes nothing.)
AppendRow(r) ==
  /\ up /\ r.id \notin ids
  /\ Len(file.lines) < MaxLines
  /\ file' = Written(file, r, TRUE)
  /\ ids' = ids \cup {r.id}
  /\ keys' = keys \cup {r.key}
  /\ acked' = acked \cup {r}
  /\ merged' = (merged \/ Merges)
  /\ UNCHANGED <<up, doubted>>

\* Mutants of AppendError: the error is swallowed and the row reported as
\* appended; the index is updated before the write.
AppendErrorReported(r) ==
  /\ up /\ r.id \notin ids
  /\ Len(file.lines) < MaxLines
  /\ file' \in Interrupted(file, r)
  /\ acked' = acked \cup {r}
  /\ doubted' = IF r \in RowsOf(file') THEN doubted \cup {r.id} ELSE doubted
  /\ merged' = (merged \/ Merges)
  /\ UNCHANGED <<up, ids, keys>>

AppendErrorIndexed(r) ==
  /\ up /\ r.id \notin ids
  /\ Len(file.lines) < MaxLines
  /\ file' \in Interrupted(file, r)
  /\ ids' = ids \cup {r.id} /\ keys' = keys \cup {r.key}
  /\ doubted' = IF r \in RowsOf(file') THEN doubted \cup {r.id} ELSE doubted
  /\ merged' = (merged \/ Merges)
  /\ UNCHANGED <<up, acked>>

\* append() raises OSError from write, flush or fsync: no index is updated,
\* whatever reached the disk.
AppendError(r) ==
  /\ up /\ r.id \notin ids
  /\ Len(file.lines) < MaxLines
  /\ file' \in Interrupted(file, r)
  /\ doubted' = IF r \in RowsOf(file') THEN doubted \cup {r.id} ELSE doubted
  /\ merged' = (merged \/ Merges)
  /\ UNCHANGED <<up, ids, keys, acked>>

\* The process ends, idle or inside an append.
Crash ==
  /\ up
  /\ up' = FALSE
  /\ \/ UNCHANGED file
     \/ \E r \in Rows :
          /\ r.id \notin ids
          /\ Len(file.lines) < MaxLines
          /\ file' \in Interrupted(file, r)
  /\ ids' = {} /\ keys' = {}
  /\ merged' = (merged \/ Merges)
  /\ UNCHANGED <<acked, doubted>>

Next ==
  \/ Open
  \/ \E r \in Rows : AppendRow(r) \/ AppendError(r)
  \/ Crash

Spec == Init /\ [][Next]_vars

-----------------------------------------------------------------------------
TypeOK ==
  /\ file \in File(Rows)
  /\ up \in BOOLEAN
  /\ ids \subseteq Ids
  /\ keys \subseteq Keys
  /\ acked \subseteq Rows
  /\ doubted \subseteq Ids
  /\ merged \in BOOLEAN

\* A row whose append returned True is on disk and parses, in the process
\* that wrote it and after any number of crashes, as long as no write has
\* landed on a torn tail (append, read).
AckedReadable == ~merged => acked \subseteq RowsOf(file)

\* The identifiers in memory are the ones a restart would load, up to the
\* appends that raised after their row was whole (append updates the index
\* last; __init__ reloads it).
IndexAgreesWithDisk ==
  up /\ ~merged =>
    /\ ids \subseteq IdsOf(RowsOf(file))
    /\ IdsOf(RowsOf(file)) \subseteq ids \cup doubted
    /\ keys \subseteq KeysOf(RowsOf(file))

\* Two lines carry one identifier only when an append of it raised after the
\* row had reached the disk and the caller tried again: restarts and crashes
\* alone never duplicate a record.
DuplicatesNeedARetry ==
  \A i, j \in DOMAIN file.lines :
    /\ i # j
    /\ Bad \notin {file.lines[i], file.lines[j]}
    /\ file.lines[i].id = file.lines[j].id
    => file.lines[i].id \in doubted

\* The file becomes unopenable only after a write landed on a torn tail.
MalformedNeedsAMerge == Malformed(file) => merged

\* No step takes a readable row out of the file, except a write onto a torn
\* tail.
RowsStay == [][RowsOf(file) \subseteq RowsOf(file') \/ file.torn]_vars

=============================================================================
