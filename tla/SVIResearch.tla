------------------------------ MODULE SVIResearch ------------------------------
(***************************************************************************)
(* What SVI says of its shadow specialist as verified resolutions come in  *)
(* (resolved_evidence_report and specialist_lifecycle_report): it is       *)
(* scored against the benchmark, in all, asset by asset and in its later   *)
(* half, and is put forward for human review when every test of the        *)
(* admission policy is passed.                                             *)
(*                                                                         *)
(* A case is a contract that was resolved: its asset, the probability of   *)
(* YES, in tenths, that MANTIS (m), the benchmark (b) and the shadow       *)
(* specialist (s) gave it last, NONE for one that gave none, and whether   *)
(* the result was YES.  Cases are in the order of their resolution.        *)
(* Scores are exact where the code has floats.                             *)
(***************************************************************************)
EXTENDS Integers, FiniteSets, SequencesExt

CONSTANTS
  AssetSeq,        \* the assets
  Cases,           \* what a case may be, its asset apart
  MinimumSample,   \* resolved_evidence_report(minimum_sample)
  MinimumAssets,   \* SpecialistAdmissionPolicy.minimum_assets
  MaxCases,        \* bound: cases
  NONE

Spoken == 0 .. 10 \cup {NONE}
ResearchBounds ==
  /\ {MinimumSample, MinimumAssets, MaxCases} \subseteq Nat \ {0}
  /\ Cases \subseteq [m : Spoken, b : Spoken, s : Spoken, yes : BOOLEAN]

VARIABLE cases

ResearchInit == cases = <<>>

\* A contract is resolved; assets take turns.
Resolve ==
  /\ Len(cases) < MaxCases
  /\ \E c \in Cases :
       cases' = Append(cases,
         [asset |-> AssetSeq[(Len(cases) % Len(AssetSeq)) + 1],
          m |-> c.m, b |-> c.b, s |-> c.s, yes |-> c.yes])

ResearchSpec == ResearchInit /\ [][Resolve]_cases

-----------------------------------------------------------------------------
Total(v) ==
  LET upTo[n \in 0 .. Len(v)] == IF n = 0 THEN 0 ELSE upTo[n - 1] + v[n]
  IN  upTo[Len(v)]

\* The rows in a set, in their order.
Kept(rows, set) ==
  LET upTo[n \in 0 .. Len(rows)] ==
        IF n = 0 THEN <<>>
        ELSE IF rows[n] \in set THEN Append(upTo[n - 1], rows[n]) ELSE upTo[n - 1]
  IN  upTo[Len(rows)]

Each(F(_), rows) == [i \in DOMAIN rows |-> F(rows[i])]

\* The squared error of a probability, in hundredths, and its logarithmic
\* loss, in tenths: -ln(p / 10) of the outcome.
Brier(p, yes) == LET d == IF yes THEN 10 - p ELSE p IN d * d
LogLoss(p, yes) ==
  <<44, 23, 16, 12, 9, 7, 5, 4, 2, 1, 0>>[1 + (IF yes THEN p ELSE 10 - p)]

BrierDelta(c) == Brier(c.b, c.yes) - Brier(c.s, c.yes)
LogDelta(c)   == LogLoss(c.b, c.yes) - LogLoss(c.s, c.yes)

\* Mutant of LowerPositive: the mean without its uncertainty.
LowerOfMean(v) == Len(v) > 1 /\ Total(v) > 0

\* _mean_lower_95(v) > 0: the mean exceeds 1.96 standard errors, both sides
\* squared; with one value there is no bound.
LowerPositive(v) ==
  LET n == Len(v)
      t == Total(v)
      q == Total([i \in DOMAIN v |-> v[i] * v[i]])
  IN  n > 1 /\ t > 0 /\ 625 * t * t * (n - 1) > 2401 * (n * q - t * t)

\* The cases on which the shadow specialist and the other one both spoke.
Spoke(cs)      == Kept(cs, {c \in Range(cs) : c.s # NONE})
Overlap(cs)    == Kept(cs, {c \in Range(cs) : c.s # NONE /\ c.b # NONE})
WithMantis(cs) == Kept(cs, {c \in Range(cs) : c.s # NONE /\ c.m # NONE})

\* The second of two halves, the longer one when they differ.
Recent(rows) == SubSeq(rows, Len(rows) \div 2 + 1, Len(rows))
Early(rows)  == SubSeq(rows, 1, Len(rows) \div 2)

\* The scorecards: an asset's share of the overlap, if it is large enough.
OfAsset(rows, a) == Kept(rows, {c \in Range(rows) : c.asset = a})
MinimumPerAsset == IF MinimumSample \div 4 > 1 THEN MinimumSample \div 4 ELSE 1
Scored(rows) == {a \in Range(AssetSeq) : OfAsset(rows, a) # <<>>}
Qualified(rows) == {a \in Scored(rows) : Len(OfAsset(rows, a)) >= MinimumPerAsset}

\* temporal_drift_report: enough forecasts, in whose later half neither the
\* Brier score is worse by more than 0.05 nor the mean probability is further
\* away than 0.20.
Stable(rows) ==
  LET e == Early(rows)
      r == Recent(rows)
      scores(v) == Total(Each(LAMBDA c : Brier(c.s, c.yes), v))
      means(v)  == Total(Each(LAMBDA c : c.s, v))
  IN  /\ Len(rows) >= MinimumSample /\ e # <<>> /\ r # <<>>
      /\ scores(r) * Len(e) - scores(e) * Len(r) <= 5 * Len(e) * Len(r)
      /\ means(r) * Len(e) - means(e) * Len(r) \in
           -2 * Len(e) * Len(r) .. 2 * Len(e) * Len(r)

\* The mean distance to MANTIS is at least 0.10.
Complementary(rows) ==
  LET distance(c) == IF c.s >= c.m THEN c.s - c.m ELSE c.m - c.s
  IN  rows # <<>> /\ Total(Each(distance, rows)) >= Len(rows)

\* resolved_evidence_report: the comparison with the benchmark, of which the
\* policy asks whether its figures are positive.
Comparison(cs) ==
  LET rows  == Overlap(cs)
      brier == Each(BrierDelta, rows)
      log   == Each(LogDelta, rows)
  IN  [overlap |-> Len(rows), brier |-> Total(brier) > 0, log |-> Total(log) > 0,
       brierLower |-> LowerPositive(brier), logLower |-> LowerPositive(log),
       recent |-> Total(Recent(brier)) > 0,
       coverage |-> Cardinality(Scored(rows)), meeting |-> Cardinality(Qualified(rows)),
       worst |-> /\ Qualified(rows) # {}
                 /\ \A a \in Qualified(rows) :
                      LowerPositive(Each(BrierDelta, OfAsset(rows, a)))]

\* SpecialistAdmissionPolicy.evaluate: the tests that are not passed.
AdmissionReasons(verified, c, stable, complementary) ==
  LET failed == [
        INSUFFICIENT_VERIFIED_OUTCOMES |-> verified < MinimumSample,
        INSUFFICIENT_BENCHMARK_OVERLAP |-> c.overlap < MinimumSample,
        NO_POSITIVE_BRIER_IMPROVEMENT |-> ~c.brier,
        NO_POSITIVE_LOG_LOSS_IMPROVEMENT |-> ~c.log,
        BRIER_IMPROVEMENT_NOT_STATISTICALLY_ESTABLISHED |-> ~c.brierLower,
        LOG_LOSS_IMPROVEMENT_NOT_STATISTICALLY_ESTABLISHED |-> ~c.logLower,
        RECENT_PERIOD_STABILITY_NOT_ESTABLISHED |-> ~c.recent,
        INSUFFICIENT_ASSET_COVERAGE |-> c.coverage < MinimumAssets,
        INSUFFICIENT_PER_ASSET_SAMPLE_COVERAGE |-> c.meeting < MinimumAssets,
        CROSS_ASSET_ROBUSTNESS_NOT_ESTABLISHED |-> ~c.worst,
        TEMPORAL_STABILITY_NOT_ESTABLISHED |-> ~stable,
        COMPLEMENTARITY_NOT_ESTABLISHED |-> ~complementary]
  IN  {x \in DOMAIN failed : failed[x]}

\* What the report gives the policy: the samples are those with a forecast of
\* MANTIS, the benchmark's are counted apart.
Decision(cs) ==
  AdmissionReasons(Len(WithMantis(cs)), Comparison(cs), Stable(Spoke(cs)),
                   Complementary(WithMantis(cs)))

\* specialist_lifecycle_report: where the roster has the shadow specialist,
\* about which there is a decision once it spoke where MANTIS did.
LifecycleState(cs) ==
  IF WithMantis(cs) = <<>> THEN "INSUFFICIENT_EVIDENCE"
  ELSE IF Decision(cs) = {} THEN "ELIGIBLE_FOR_HUMAN_REVIEW"
  ELSE "NOT_ELIGIBLE"

-----------------------------------------------------------------------------
Without(rows, i) == SubSeq(rows, 1, i - 1) \o SubSeq(rows, i + 1, Len(rows))

\* A specialist is put forward for review on no single contract: without any
\* one of them it still beats the benchmark, in all and in every asset with a
\* sample (SpecialistAdmissionPolicy and the bounds it is given).
NoCaseDecides ==
  LifecycleState(cases) = "ELIGIBLE_FOR_HUMAN_REVIEW" =>
    LET rows == Overlap(cases)
        robust(v) == \A i \in DOMAIN v : Total(Each(BrierDelta, Without(v, i))) > 0
    IN  robust(rows) /\ \A a \in Qualified(rows) : robust(OfAsset(rows, a))

=============================================================================
