----------------------------- MODULE KalshiStudies -----------------------------
(***************************************************************************)
(* The studies of Kalshi's settled contracts under scripts/: the reference *)
(* study (step 4), the fit of a frozen model (step 5), its comparison with *)
(* the statistical one (step 6) and the two studies of the reference       *)
(* (steps 7 and 8).  They work on files that other programs write, each at *)
(* its own time: the list of contracts and the chunks of cached history    *)
(* (mantis_v4/backtest/history.py), and the frozen model with its          *)
(* manifest.  A file is written in place, and what its writer leaves when  *)
(* it dies is read by the next program.  What is modelled is which         *)
(* contracts each number was learned from, chosen by and judged on.  The   *)
(* operator runs one study at a time; a download of history may be going   *)
(* on beside it.                                                           *)
(***************************************************************************)
EXTENDS Naturals, Sequences, FiniteSetsExt

CONSTANTS
  NONE,
  Torn,         \* a file cut short that does not parse
  Assets,
  ChunkOf,      \* of a chunk of history, the windows it covers
  Cuts,         \* the last window that a chunk or list cut short still holds
  Listings,     \* the windows whose contracts the exchange may list: a fetch
                \* is bounded in pages
  Least,        \* the 5 windows below which step 5 does not split
  MinBars,      \* min_bars of load_universe, in windows
  MinComplete,  \* min_completeness, in hundredths
  MinBounds,    \* the 20 contracts of an asset below which no bound is fitted
  Entering,     \* the contracts on which the transferred policy enters
  Entries,      \* the 1377 entries, and
  Eligible,     \* the 2111 contracts of the frozen holdout
  Candidates,   \* kinds of model and of calibration
  Frozen,       \* the candidate that step 6 expects
  Runs          \* studies run

StudyConstants ==
  /\ {Least, MinBars, MinComplete, MinBounds, Entries, Eligible, Runs} \subseteq Nat
  /\ Least >= 5 /\ Frozen \in Candidates
  /\ Entering \subseteq Nat \X Assets /\ Cuts \cup UNION Listings \subseteq Nat \ {0}
  /\ IsFiniteSet(Assets) /\ \A windows \in Listings : IsFiniteSet(windows)

VARIABLES
  chunks,    \* of an asset and a chunk, the windows in its file, or NONE
  markets,   \* the contracts in the list on disk, or NONE
  model,     \* the model on disk, Torn or NONE
  manifest,  \* its manifest on disk, Unread without a whole one
  reports,   \* of each report, NONE, Torn or "saved"
  study,     \* the study that runs, or NONE
  at,        \* the position of its next step
  runs,      \* studies begun
  listed,    \* the contracts it read
  rows,      \* those it could join with history
  picked,    \* the model it fitted or loaded, or NONE
  hash,      \* what it hashed: the files as they were then
  scores     \* what it judged

studyVars == <<chunks, markets, model, manifest, reports, study, at, runs, listed,
               rows, picked, hash, scores>>

localVars == <<listed, rows, picked, hash, scores>>

\* What a manifest that is missing, or does not parse, tells.
Unread == [whole |-> FALSE]

Reports == {"summary4", "summary5", "summary6", "summary7", "provenance7", "summary8"}

Steps(s) ==
  CASE s = "step4" -> <<"contracts", "list", "history", "replay", "summary4">>
    [] s = "step5" -> <<"contracts", "history", "choose", "model", "hash", "manifest",
                        "open", "summary5">>
    [] s = "step6" -> <<"contracts", "history", "hash", "verify", "compare", "summary6">>
    [] s = "step7" -> <<"contracts", "history", "measure", "hash", "summary7",
                        "provenance7">>
    [] s = "step8" -> <<"contracts", "history", "bound", "summary8">>

Studies  == {"step4", "step5", "step6", "step7", "step8"}
At(step) == study # NONE /\ Steps(study)[at] = step
In(s, step) == study = s /\ At(step)
Advance  == at' = at + 1 /\ UNCHANGED <<study, runs>>

Forget ==
  /\ study' = NONE /\ at' = 1 /\ UNCHANGED runs
  /\ listed' = {} /\ rows' = {} /\ picked' = NONE /\ hash' = << >> /\ scores' = {}

diskVars == <<chunks, markets, model, manifest, reports>>

-----------------------------------------------------------------------------
\* Contracts and their splits.  A contract is a window of an asset.

Contracts(windows)  == windows \X Assets
WindowsOf(cs)       == {c[1] : c \in cs}
First(n, windows)   == {w \in windows : Cardinality({v \in windows : v <= w}) <= n}
OfWindows(cs, windows) == {c \in cs : c[1] \in windows}

\* chronological_group_split of steps 5 to 8: contracts of one window stay
\* together.
Split(cs) ==
  LET windows == WindowsOf(cs)
      n   == Cardinality(windows)
      dev == First((6 * n) \div 10, windows)
      val == First((8 * n) \div 10, windows) \ dev
  IN  [development |-> OfWindows(cs, dev), validation |-> OfWindows(cs, val),
       sealed_holdout |-> OfWindows(cs, windows \ (dev \cup val))]

Splits == Split(rows)

\* chronological_three_way_split of step 4, which splits any number of windows.
ReferenceSplit(cs) ==
  LET windows == WindowsOf(cs)
      n   == Cardinality(windows)
      d   == Max({1, (6 * n) \div 10})
      v   == Max({d + 1, (8 * n) \div 10})
      dev == First(d, windows)
      val == First(IF n > 2 THEN Min({v, n - 1}) ELSE n, windows) \ dev
  IN  {OfWindows(cs, dev), OfWindows(cs, val), OfWindows(cs, windows \ (dev \cup val))}

\* internal_development_masks.
Internal(dev) ==
  LET windows == WindowsOf(dev)
      fit     == First((75 * Cardinality(windows)) \div 100, windows)
  IN  [fit |-> OfWindows(dev, fit), cal |-> OfWindows(dev, windows \ fit)]

\* split_description: what a manifest keeps of a split.
Description(cs) ==
  [rows |-> Cardinality(cs), windows |-> Cardinality(WindowsOf(cs)),
   start |-> Min(WindowsOf(cs)), end |-> Max(WindowsOf(cs))]

Descriptions(split) == [name \in DOMAIN split |-> Description(split[name])]

-----------------------------------------------------------------------------
\* The cache of history.

\* What is left of some windows when a writer dies: those up to a cut.
CutShort(windows) == {{w \in windows : w <= cut} : cut \in Cuts}

\* A chunk that is there is not asked for again, unless nothing is in it.
ToFetch(a, k) == chunks[a, k] \in {NONE, {}}

\* A chunk is downloaded by whichever program needs it; a write that fails, or is
\* cut short, leaves what was written.  A download that fails leaves nothing.
Download(a, k) ==
  /\ ToFetch(a, k)
  /\ \E part \in {ChunkOf[k]} \cup CutShort(ChunkOf[k]) :
       chunks' = [chunks EXCEPT ![<<a, k>>] = part]
  /\ UNCHANGED <<markets, model, manifest, reports, study, at, runs, localVars>>

\* cached_frames: all the files of an asset.
Frames(a) == UNION {chunks[a, k] : k \in {k \in DOMAIN ChunkOf : chunks[a, k] # NONE}}

\* A file without a line cannot be read, and an asset without a file is missed.
Readable ==
  \A a \in Assets : /\ \E k \in DOMAIN ChunkOf : chunks[a, k] # NONE
                    /\ \A k \in DOMAIN ChunkOf : chunks[a, k] # {}

\* load_universe leaves out an asset with too few bars or too many gaps.
Loaded(a) ==
  LET windows == Frames(a)
  IN  /\ Cardinality(windows) >= MinBars
      /\ 100 * Cardinality(windows) >= MinComplete * (Max(windows) - Min(windows) + 1)

Joined == {c \in listed : Loaded(c[2]) /\ c[1] \in Frames(c[2])}

-----------------------------------------------------------------------------
\* What is learned from what.

Score(of, learned, chosenBy, judged) ==
  [of |-> of, learned |-> learned, chosenBy |-> chosenBy, judged |-> judged]

\* fit_frozen_model: the statistical model has nothing to fit, and the identity
\* nothing to calibrate.
Fit(candidate, fit, cal) ==
  [candidate |-> candidate,
   learned |-> (IF candidate[1] = "statistical" THEN {} ELSE fit) \cup
               (IF candidate[2] = "identity" THEN {} ELSE cal)]

\* entry_mask: the contracts the transferred policy enters on.
EntryMask(cs) == cs \cap Entering

\* The cohort that the studies after step 5 insist on, by its counts.
CohortReproduced ==
  /\ Cardinality(EntryMask(Splits.sealed_holdout)) = Entries
  /\ Cardinality(Splits.sealed_holdout) = Eligible

-----------------------------------------------------------------------------
\* Steps that the studies share.

\* Step 4 fetches the contracts and goes on to save them, or reads those it has
\* if asked to; the other studies read them.
ReadContracts ==
  /\ At("contracts")
  /\ \/ /\ markets \notin {NONE, {}} /\ listed' = markets
        /\ at' = IF study = "step4" THEN at + 2 ELSE at + 1
     \/ /\ study = "step4" /\ \E windows \in Listings : listed' = Contracts(windows)
        /\ at' = at + 1
  /\ UNCHANGED <<diskVars, study, runs, rows, picked, hash, scores>>

ReadHistory ==
  /\ At("history") /\ Readable
  /\ rows' = Joined
  /\ study # "step4" => Cardinality(WindowsOf(Joined)) >= Least
  /\ Advance /\ UNCHANGED <<diskVars, listed, picked, hash, scores>>

\* file_set_hash: of the files as they are now.
HashData ==
  /\ At("hash") /\ hash' = <<markets, chunks>>
  /\ Advance /\ UNCHANGED <<diskVars, listed, rows, picked, scores>>

\* A report is written whole, or the study dies while it does.
SaveReport(report) ==
  /\ At(report)
  /\ \/ /\ reports' = [reports EXCEPT ![report] = "saved"]
        /\ IF at = Len(Steps(study)) THEN Forget ELSE Advance /\ UNCHANGED localVars
     \/ reports' = [reports EXCEPT ![report] = Torn] /\ Forget
  /\ UNCHANGED <<chunks, markets, model, manifest>>

-----------------------------------------------------------------------------
\* Step 4.

\* The list is written in place, before the study knows that history is there.
SaveList ==
  /\ In("step4", "list")
  /\ \/ markets' = listed /\ Advance /\ UNCHANGED localVars
     \/ /\ \E windows \in CutShort(WindowsOf(listed)) :
             markets' = OfWindows(listed, windows)
        /\ Forget
  /\ UNCHANGED <<chunks, model, manifest, reports>>

\* The transferred policy on each split; nothing is fitted.  Entries in one window
\* have no interval, and the summary does not take its NaN.
ReplayPolicy ==
  /\ In("step4", "replay") /\ rows # {}
  /\ \A cs \in ReferenceSplit(rows) : Cardinality(WindowsOf(EntryMask(cs))) # 1
  /\ scores' = {Score("transferred", {}, {}, EntryMask(cs)) : cs \in ReferenceSplit(rows)}
  /\ Advance /\ UNCHANGED <<diskVars, listed, rows, picked, hash>>

-----------------------------------------------------------------------------
\* Step 5.

\* The final recipe: the base on development, the calibrator on validation.
Final(candidate) == Fit(candidate, Splits.development, Splits.validation)

\* The candidates are fitted and calibrated inside development and compared on
\* validation; any of them may win.
Choose ==
  /\ In("step5", "choose")
  /\ LET inside == Internal(Splits.development)
     IN  scores' = {Score("candidate", Fit(c, inside.fit, inside.cal).learned, {},
                          Splits.validation) : c \in Candidates}
  /\ \E c \in Candidates : picked' = Final(c)
  /\ Advance /\ UNCHANGED <<diskVars, listed, rows, hash>>

SaveModel ==
  /\ In("step5", "model")
  /\ \/ model' = picked /\ Advance /\ UNCHANGED localVars
     \/ model' = Torn /\ Forget
  /\ UNCHANGED <<chunks, markets, manifest, reports>>

SaveManifest ==
  /\ In("step5", "manifest")
  /\ \/ /\ manifest' = [whole |-> TRUE, model |-> picked, data |-> hash,
                       splits |-> Descriptions(Splits)]
        /\ Advance /\ UNCHANGED localVars
     \/ manifest' = Unread /\ Forget
  /\ UNCHANGED <<chunks, markets, model, reports>>

\* The holdout is scored by the model as it was saved; a change of accuracy among
\* the entries needs an entry.
OpenHoldout ==
  /\ In("step5", "open") /\ model \notin {NONE, Torn}
  /\ EntryMask(Splits.sealed_holdout) # {}
  /\ scores' = scores \cup {Score("frozen", model.learned, Splits.validation, cs) :
                 cs \in {Splits.sealed_holdout, EntryMask(Splits.sealed_holdout)}}
  /\ Advance /\ UNCHANGED <<diskVars, listed, rows, picked, hash>>

-----------------------------------------------------------------------------
\* Step 6.

\* (A mutant: the splits are taken to be those of the manifest.)
AnySplits == TRUE

\* The splits found now are those the manifest tells of.
SplitsReproduced == Descriptions(Splits) = manifest.splits

\* verify_frozen_artifacts, and the model it vouches for.
Verify ==
  /\ In("step6", "verify")
  /\ model \notin {NONE, Torn} /\ manifest.whole
  /\ manifest.model = model /\ manifest.data = hash /\ model.candidate = Frozen
  /\ picked' = model
  /\ Advance /\ UNCHANGED <<diskVars, listed, rows, hash, scores>>

\* analyze_split: every table that sets the frozen model beside the statistical one.
Analyzed(cs) == Score("frozen", picked.learned, Splits.validation, cs)

\* The thirds of volatility and of the gap of the reference that rows are put in.
Regimes == Score("regimes", Splits.development, {}, rows)

\* What the frozen model tells of the errors of the other one.
Increment == Score("increment", Splits.development, {}, Splits.validation)

\* Both models on every split, those the frozen one has learned from included, and
\* on its entries.
Compare ==
  /\ In("step6", "compare") /\ SplitsReproduced /\ CohortReproduced
  /\ \A name \in DOMAIN Splits : EntryMask(Splits[name]) # {}
  /\ scores' = {Regimes, Increment} \cup
       UNION {{Analyzed(Splits[name]), Analyzed(EntryMask(Splits[name]))} :
                name \in DOMAIN Splits}
  /\ Advance /\ UNCHANGED <<diskVars, listed, rows, picked, hash>>

-----------------------------------------------------------------------------
\* Steps 7 and 8, which look for neither model nor manifest.

\* Gaps of the proxy at the start and the end of each contract, by volatility as
\* learned on development; entries of the holdout are put to fixed bounds, and
\* to the gaps of all contracts.
Measure ==
  /\ In("step7", "measure") /\ CohortReproduced
  /\ scores' =
       {Score("gaps", {}, {}, rows), Score("volatility", Splits.development, {}, rows),
        Score("fixed bounds", {}, {}, EntryMask(Splits.sealed_holdout)),
        Score("start gap", rows, {}, EntryMask(Splits.sealed_holdout))}
  /\ Advance /\ UNCHANGED <<diskVars, listed, rows, picked, hash>>

\* fit_empirical_bounds raises for an asset with few contracts in development.
Bounded(a) == Cardinality({c \in Splits.development : c[2] = a}) >= MinBounds

\* Bounds learned on development, of every asset, judged on the entries of each
\* split; the report quotes the summary of step 7 as it is.
Bound ==
  /\ In("step8", "bound") /\ CohortReproduced
  /\ \A a \in Assets : Bounded(a)
  /\ \A name \in DOMAIN Splits : EntryMask(Splits[name]) # {}
  /\ reports["summary7"] \notin {NONE, Torn}
  /\ scores' = UNION {{Score("bounds", Splits.development, {}, EntryMask(Splits[name])),
                       Score("fixed bounds", {}, {}, EntryMask(Splits[name]))} :
                        name \in DOMAIN Splits}
  /\ Advance /\ UNCHANGED <<diskVars, listed, rows, picked, hash>>

-----------------------------------------------------------------------------
StudyInit ==
  /\ chunks = [p \in Assets \X DOMAIN ChunkOf |-> NONE]
  /\ markets = NONE /\ model = NONE /\ manifest = Unread
  /\ reports = [r \in Reports |-> NONE]
  /\ study = NONE /\ at = 1 /\ runs = 0
  /\ listed = {} /\ rows = {} /\ picked = NONE /\ hash = << >> /\ scores = {}

Start ==
  /\ study = NONE /\ runs < Runs
  /\ study' \in Studies /\ runs' = runs + 1
  /\ UNCHANGED <<at, diskVars, localVars>>

\* A study ends between two steps: by the operator, or by an exception.
End == study # NONE /\ Forget /\ UNCHANGED diskVars

StudyNext ==
  \/ \E a \in Assets, k \in DOMAIN ChunkOf : Download(a, k)
  \/ Start \/ End
  \/ ReadContracts \/ ReadHistory \/ HashData
  \/ \E report \in Reports : SaveReport(report)
  \/ SaveList \/ ReplayPolicy
  \/ Choose \/ SaveModel \/ SaveManifest \/ OpenHoldout
  \/ Verify \/ Compare
  \/ Measure \/ Bound

StudySpec == StudyInit /\ [][StudyNext]_studyVars

-----------------------------------------------------------------------------
\* Properties.

Before(cs, later) == \A c \in cs, d \in later : c[1] < d[1]

\* However downloads, crashes and reruns mix files of different days, whatever is
\* judged on contracts that a study calls its holdout, other than the gaps of
\* step 7, was learned from and chosen by earlier ones; so is what it judges on its
\* validation, but for the frozen model, whose calibrator has seen it; and step 5
\* opens the holdout with a manifest of that very model on disk
\* (scripts/kalshi_*_study.py).
HoldoutStaysSealed ==
  /\ \A s \in scores :
       study # "step4" /\ s.of # "start gap" =>
         /\ Before(s.learned \cup s.chosenBy, s.judged \cap Splits.sealed_holdout)
         /\ s.of # "frozen" => Before(s.learned, s.judged \cap Splits.validation)
  /\ In("step5", "summary5") => manifest.whole /\ manifest.model = model

=============================================================================
