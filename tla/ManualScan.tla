------------------------------ MODULE ManualScan ------------------------------
(***************************************************************************)
(* One scan of the manual signal mode: ManualSignalEngine.scan asks the    *)
(* provider of KalshiProvider for each asset's quote in turn, takes a      *)
(* snapshot of the model, verifies the fee, and then evaluates every asset *)
(* under three policies at once (manual_signal/live.py, core.py).          *)
(*                                                                         *)
(* ManualSignal models what becomes of the chosen signal (ledger, speech)  *)
(* and abstracts how it is chosen; this module is the reverse.  Prices and *)
(* probabilities are in units of 0.0001, distances in basis points.        *)
(***************************************************************************)
EXTENDS KalshiProvider, Ladder

CONSTANTS
  AssetSeq,   \* ASSETS, in scan order
  Snaps       \* [EventAssets -> what the model may make of the asset's bars]

ASSUME ScanAssumption == Slots \in Nat \ {0} /\ AssetSeq \in Seq(EventAssets)

VARIABLES
  stage,      \* where the scan is
  at,       \* index of the asset it is at
  snap,     \* the snapshot of that asset
  fees,     \* FeeMetadataVerifier._cache: "unknown" where there is none
  ctx,      \* contexts: quote, snapshot and fee of the assets done
  lockWindow, \* lock_window_end
  lockedAsset, \* the asset of locked_signal
  would     \* policies with a signal in this window: _window_v2, v21, v22

scan == <<stage, at, snap, fees, ctx, lockWindow, lockedAsset, would>>
scanVars == <<clock, market, inst, failures, closedAt, provider, scan>>

Scanned == AssetSeq[at]
NoContext == [a \in EventAssets |-> None]

ScanInit ==
  /\ ProviderInit
  /\ stage = "idle" /\ at = 1 /\ snap = None
  /\ fees = [a \in EventAssets |-> "unknown"] /\ ctx = NoContext
  /\ lockWindow = None /\ lockedAsset = None /\ would = {}

-----------------------------------------------------------------------------
Policy(conf, lcb, frag, dis, cross, crossings, edge, tiered) ==
  [conf |-> conf, lcb |-> lcb, frag |-> frag, dis |-> dis, cross |-> cross,
   crossings |-> crossings, edge |-> edge, tiered |-> tiered]

V2  == Policy(9500, 9000, 50, 500, 3500, 4, 200, FALSE)
V21 == Policy(9200, 8700, 55, 600, 4200, 5, 150, FALSE)
V22 == Policy(8800, 8300, 60, 750, 5000, 6, 100, TRUE)

\* quality_gate_failures is empty.
Quality(p, s) ==
  /\ s.conf >= p.conf /\ s.lcb >= p.lcb
  /\ s.frag <= p.frag /\ s.dis <= p.dis
  /\ s.cross <= p.cross /\ s.crossings <= p.crossings

\* assess_reference_risk: both ends of the interval around the distance are on
\* the side of the distance, zero being above.
Robust(dist, bound) ==
  IF dist >= 0 THEN dist - bound >= 0 ELSE dist + bound < 0

\* The reference is robust, or for the tiered policy at least outside P50.
Reference(p, s) ==
  Robust(s.dist, s.p95) \/ (p.tiered /\ Robust(s.dist, s.p50))

\* Division that rounds up.
CeilDiv(n, d) == (n + d - 1) \div d

\* KalshiFeeModel.assess: the trade fee rounded up to 0.0001, the debit to a
\* cent; ask and fees together are the debit.
Debit(ask) ==
  LET trade == CeilDiv(7 * ask * (10000 - ask), 1000000)
  IN  100 * CeilDiv(ask + trade, 100)

AskOf(c) == IF c.snap.yes THEN c.answer.book.yes ELSE c.answer.book.no

MaxTotalEntryCost == 9500

QualityLadder(p, c) ==
  << Rung(~Quality(p, c.snap), "CONF FAIL"),
     Rung(~Reference(p, c.snap), "REF AMBIGUOUS"),
     Rung(c.answer.status = "QUOTE_STALE", "QUOTE STALE"),
     Rung(c.answer.status # "READY", "QUOTE UNAVAILABLE") >>

CostLadder(p, s, debit) ==
  << Rung(debit >= 10000, "ECON FAIL"),
     Rung(debit >= MaxTotalEntryCost, "EXPENSIVE CONTRACT"),
     Rung(s.conf - debit <= 0 \/ s.lcb - debit <= 0, "ECON FAIL"),
     Rung(s.lcb - debit < p.edge, "ECON FAIL") >>

\* evaluate_candidate.  fresh_at is asked about the instant of the scan, which
\* lies before every quote of the scan.
Verdict(p, c) ==
  IF c = None \/ c.snap = None THEN "NO SIGNAL"
  ELSE FirstOf(QualityLadder(p, c),
         IF ~FreshAt(inst, c.answer.received) THEN "QUOTE STALE"
         ELSE IF c.fee # "verified" THEN "FEE UNVERIFIED"
         ELSE FirstOf(CostLadder(p, c.snap, Debit(AskOf(c))), "ELIGIBLE"))

Eligible(p) ==
  {k \in DOMAIN AssetSeq : Verdict(p, ctx[AssetSeq[k]]) = "ELIGIBLE"}

\* The key of select_primary_signal: compared from the first component on, the
\* smaller the better, the asset's place last.
Key(k) ==
  LET c == ctx[AssetSeq[k]]
      s == c.snap
      debit == Debit(AskOf(c))
  IN  <<debit - s.lcb, debit - s.conf, -s.lcb, -s.conf,
        s.frag, s.dis, s.cross, s.crossings, k>>

Before(k1, k2) ==
  \E i \in DOMAIN Key(k1) :
    /\ Key(k1)[i] < Key(k2)[i]
    /\ \A j \in 1 .. i - 1 : Key(k1)[j] = Key(k2)[j]

\* select_primary_signal under the policy that is shown.
Primary ==
  LET best == {k \in Eligible(V22) : \A j \in Eligible(V22) : ~Before(j, k)}
  IN  IF best = {} THEN None ELSE AssetSeq[Min(best)]

-----------------------------------------------------------------------------
\* scan(): the instant was captured by the loop; a new window has no lock.
BeginScan ==
  /\ stage = "idle"
  /\ stage' = "asset" /\ at' = 1 /\ inst' = clock
  /\ IF lockWindow = Window(clock) THEN UNCHANGED <<lockWindow, lockedAsset, would>>
     ELSE lockWindow' = Window(clock) /\ lockedAsset' = None /\ would' = {}
  /\ UNCHANGED <<clock, market, failures, closedAt, provider, snap, fees, ctx>>

\* provider.get_quote of the next asset.
AskQuote ==
  /\ stage = "asset" /\ at <= Len(AssetSeq)
  /\ stage' = "quote"
  /\ Ask(Scanned)
  /\ UNCHANGED <<clock, market, inst, failures, closedAt, at, snap, fees, ctx, lockWindow,
                 lockedAsset, would>>

\* The requests of get_quote.
Fetch ==
  /\ stage = "quote"
  /\ Answered
  /\ UNCHANGED scan

FetchFails ==
  /\ stage = "quote"
  /\ Refused
  /\ UNCHANGED scan

\* An error that is no KalshiError, such as a connection reset while the answer
\* is read, passes through get_quote and scan: the program ends.
Escape ==
  /\ stage = "quote" /\ step \in Requests /\ failures < MaxFailures
  /\ failures' = failures + 1
  /\ stage' = "down" /\ step' = "none"
  /\ UNCHANGED <<clock, market, inst, closedAt, cache, series, asked, waits, told,
                 book, received, answer, at, snap, fees, ctx, lockWindow, lockedAsset, would>>

\* The asset's context is complete; on to the asset of this index.
DoneTo(next, s, fee) ==
  /\ ctx' = [ctx EXCEPT ![Scanned] = [answer |-> answer, snap |-> s, fee |-> fee]]
  /\ at' = next /\ stage' = "asset" /\ snap' = None /\ answer' = None
  /\ UNCHANGED <<cache, series, asked, step, waits, told, book, received>>

Done(s, fee) == DoneTo(at + 1, s, fee)

\* Mutant of Unmapped: the first asset without a market ends the scan.
UnmappedEnds ==
  /\ stage = "quote" /\ step = "none" /\ ~answer.mapped
  /\ DoneTo(Len(AssetSeq) + 1, None, "unknown")
  /\ UNCHANGED <<clock, market, inst, failures, closedAt, fees, lockWindow, lockedAsset, would>>

\* Without a mapping the asset gets a placeholder.
Unmapped ==
  /\ stage = "quote" /\ step = "none" /\ ~answer.mapped
  /\ Done(None, "unknown")
  /\ UNCHANGED <<clock, market, inst, failures, closedAt, fees, lockWindow, lockedAsset, would>>

\* No bars, too little history, or the shadow store raised: a placeholder too.
NoSnapshot ==
  /\ stage = "quote" /\ step = "none" /\ answer.mapped
  /\ Done(None, "unknown")
  /\ UNCHANGED <<clock, market, inst, failures, closedAt, fees, lockWindow, lockedAsset, would>>

\* compute_shadow_snapshot.
Snapshot ==
  /\ stage = "quote" /\ step = "none" /\ answer.mapped
  /\ snap' \in Snaps[Scanned]
  /\ stage' = "fee"
  /\ UNCHANGED <<clock, market, inst, failures, closedAt, provider, at, fees, ctx,
                 lockWindow, lockedAsset, would>>

\* FeeMetadataVerifier.verify: what was found at the first time stays.
VerifyFee ==
  /\ stage = "fee"
  /\ LET known == IF fees[Scanned] = "unknown" THEN "verified" ELSE fees[Scanned]
     IN  Done(snap, known) /\ fees' = [fees EXCEPT ![Scanned] = known]
  /\ UNCHANGED <<clock, market, inst, failures, closedAt, lockWindow, lockedAsset, would>>

\* A request raises or an answer is malformed: unverified, and that stays.
FeeFails ==
  /\ stage = "fee" /\ fees[Scanned] = "unknown" /\ failures < MaxFailures
  /\ failures' = failures + 1
  /\ Done(snap, "unverified") /\ fees' = [fees EXCEPT ![Scanned] = "unverified"]
  /\ UNCHANGED <<clock, market, inst, closedAt, lockWindow, lockedAsset, would>>

\* The three selections, the lock, and under memory pressure invalidate().
Select ==
  /\ stage = "asset" /\ at > Len(AssetSeq)
  /\ would' = would \cup {n \in {"V2", "V21", "V22"} :
                Eligible(CASE n = "V2" -> V2 [] n = "V21" -> V21 [] n = "V22" -> V22) # {}}
  /\ lockedAsset' = IF lockedAsset = None THEN Primary ELSE lockedAsset
  /\ cache' \in {cache, {}}
  /\ stage' = "idle" /\ ctx' = NoContext
  /\ UNCHANGED <<clock, market, inst, failures, closedAt, series, asked, step, waits,
                 told, book, received, answer, at, snap, fees, lockWindow>>

Exchange ==
  /\ (\E a \in Moody : Opens(a) \/ Closes(a)) \/ ClockTicks
  /\ UNCHANGED scan

ScanStep ==
  \/ BeginScan \/ AskQuote \/ Fetch \/ Unmapped \/ NoSnapshot \/ Snapshot
  \/ VerifyFee \/ Select

ScanNext == Exchange \/ ScanStep \/ FetchFails \/ FeeFails \/ Escape

ScanSpec == ScanInit /\ [][ScanNext]_scanVars

\* The loop goes on scanning while its process lives.
FairScanSpec == ScanSpec /\ WF_scanVars(ScanStep)

-----------------------------------------------------------------------------
\* The quote a candidate is evaluated on is of a market that was open after
\* the scan had begun: neither a mapping cached by an earlier scan nor a market
\* that closed early lends its identity to a book (get_quote, discover).
QuoteIsOfAnOpenMarket ==
  \A a \in EventAssets :
    /\ ctx[a] # None /\ ctx[a].answer.status = "READY"
    /\ Window(inst) = Window(clock)
    => market[a] = "active" \/ closedAt[a] >= inst

\* After the faults are over, every asset whose market stays open is quoted
\* again and again, whatever the scan remembers of earlier failures and
\* whatever the other assets' markets do (discover, get_quote, scan).
RecoversFromOutage ==
  \A a \in EventAssets :
    <>[](market[a] = "active" /\ stage # "down") =>
      []<>(ctx[a] # None /\ ctx[a].answer.status \in {"READY", "BOOK_SIDE_MISSING"})

-----------------------------------------------------------------------------
\* STEP10: quotes older than five seconds fail closed.  When a signal is
\* locked, no more than MaxAge ticks have passed since its quote came in.
NoSignalOnAnOldQuote ==
  [][lockedAsset = None /\ lockedAsset' # None =>
       FreshAt(clock, ctx[lockedAsset'].answer.received)]_scanVars

=============================================================================
