------------------------------- MODULE Selection -------------------------------
(***************************************************************************)
(* PRIMARY_SELECTOR_V1 (selection.py): at most one operator candidate of   *)
(* the assets' latest snapshots, and the operator state the presentation   *)
(* and the alert router read.  It computes the expected values a second    *)
(* time, with the schedule's fee whatever the quote's own fee is.          *)
(***************************************************************************)
EXTENDS Economics

CONSTANTS
  Assets,      \* LIVE_ASSETS, in their order (a sequence)
  OtherScans,  \* what the assets beyond the first may show
  Quotes,      \* what the operator's file may say of the first asset
  OtherQuotes  \* what it may say of the others

\* What the file may say, an absent number being None.
QuoteType ==
  [parses : BOOLEAN, verified : BOOLEAN, expired : BOOLEAN,
   otherContract : BOOLEAN, otherReference : BOOLEAN, feeKnown : BOOLEAN,
   yesAsk : Int, yesBid : Int, noAsk : Int, noBid : Int, age : Int,
   fee : Limit]

ASSUME QuotesAssumption ==
  /\ OtherScans \subseteq ScanType
  /\ Quotes \cup OtherQuotes \subseteq QuoteType \cup {None}
  /\ Len(Assets) > 0 /\ Assets \in Seq({Assets[k] : k \in DOMAIN Assets})
  /\ \A j, k \in DOMAIN Assets : Assets[j] = Assets[k] => j = k

VARIABLES
  snapshots    \* the latest snapshot of each asset, or None

\* The snapshot the engine makes of a scan and a quote.
Snapshot(s, q, pol) ==
  LET offered == Offered(q)
  IN  [scan |-> s, entered |-> Enters(s, pol),
       reason |-> Decide(s, pol).reason,
       final |-> DecideWithEconomics(s, pol, offered),
       ask |-> IF offered = None THEN None ELSE Ask(offered, Side(s)),
       provider |-> LastProvider(q), quote |-> offered]

Unrated(status, reason, snap) ==
  [status |-> status, reason |-> reason, net |-> None, conservative |-> None,
   snap |-> snap]

Rated(status, reason, snap) ==
  [status |-> status, reason |-> reason,
   net |-> Confidence(snap.scan) - snap.ask - ScheduleFee,
   conservative |-> snap.scan.lcb - snap.ask - ScheduleFee, snap |-> snap]

\* evaluate: the candidate of one asset.
Evaluate(snap) ==
  IF snap = None THEN Unrated("NO_DATA", "AWAITING_FIRST_SCAN", snap)
  ELSE IF ~snap.entered
         THEN Unrated("NOT_QUALIFIED",
                      IF snap.scan.sec > 300 THEN "AWAITING_T300_ENTRY_WINDOW"
                      ELSE snap.reason, snap)
  ELSE IF snap.ask = None
         THEN Unrated("ECONOMICS_UNVERIFIED", "QUOTE_UNAVAILABLE", snap)
  ELSE IF snap.ask + ScheduleFee >= Payout
         THEN Unrated("EV_FAIL", "ECONOMICALLY_IMPOSSIBLE", snap)
  ELSE LET c == Rated("ACTIONABLE", "ROBUST_POSITIVE_EV", snap)
       IN  FirstOf(<<
             Rung(c.net <= 0, Rated("EV_FAIL", "NEGATIVE_NET_EV", snap)),
             Rung(c.conservative <= 0,
                  Rated("EV_FAIL", "CONSERVATIVE_EV_LE_ZERO", snap)),
             Rung(snap.final.decision \notin {"ENTER_YES", "ENTER_NO"},
                  Rated("ECONOMICS_UNVERIFIED", snap.final.reason, snap))>>, c)

\* Candidate.payload: the two flags the alert router asks for.
QuoteVerified(c) == c.snap.provider = "verified-manual" /\ c.snap.ask # None
EconomicallyValid(c) ==
  /\ c.status = "ACTIONABLE" /\ QuoteVerified(c)
  /\ c.net > 0 /\ c.conservative > 0

\* "x or 999": a risk of exactly zero is ranked as a missing one.
Risk(x) == IF x = 0 THEN -999 ELSE -x

\* _rank: compared from the first component on, the larger the better.
Rank(c) ==
  <<c.conservative, c.net, c.snap.scan.lcb, Confidence(c.snap.scan),
    Risk(c.snap.scan.frag), Risk(c.snap.scan.dis), Risk(c.snap.scan.cross),
    Risk(c.snap.scan.crossings)>>

\* Lexicographic order of two tuples of one length.
Below(r1, r2) ==
  \E k \in DOMAIN r1 :
    r1[k] < r2[k] /\ \A j \in 1 .. k - 1 : r1[j] = r2[j]

Candidate(a) == Evaluate(snapshots[a])
Actionable == {k \in DOMAIN Assets : Candidate(Assets[k]).status = "ACTIONABLE"}

\* select_primary: the best actionable candidate, the earlier asset on a tie.
Selected ==
  IF Actionable = {} THEN None
  ELSE Assets[Min({k \in Actionable :
         \A j \in Actionable :
           ~Below(Rank(Candidate(Assets[k])), Rank(Candidate(Assets[j])))})]

-----------------------------------------------------------------------------
SelInit ==
  /\ EntryInit
  /\ snapshots = [a \in {Assets[k] : k \in DOMAIN Assets} |-> None]

\* One scan of the first asset, whose scans are kept, with the file's quote.
ScanFirst(s, q) ==
  /\ Process(s)
  /\ snapshots' = [snapshots EXCEPT ![Assets[1]] = Snapshot(s, q, policy)]

\* One scan of another asset.
ScanOther(a, s, q) ==
  /\ a # Assets[1] /\ snapshots[a] = None
  /\ snapshots' = [snapshots EXCEPT ![a] = Snapshot(s, q, policy)]
  /\ UNCHANGED entryVars

SelNext ==
  \/ \E s \in Scans, q \in Quotes : ScanFirst(s, q)
  \/ \E a \in DOMAIN snapshots, s \in OtherScans, q \in OtherQuotes :
       ScanOther(a, s, q)

SelSpec == SelInit /\ [][SelNext]_<<entryVars, snapshots>>

-----------------------------------------------------------------------------
\* What is offered to the operator is sound on every count at once: the scan
\* entered on its own, the quote behind the ask is this contract's, current and
\* coherent, the conservative expected value is positive under the schedule's
\* fee and the engine's margins hold under the quote's own fee, and the flags
\* the alert router asks for are set; and no other actionable candidate has a
\* larger margin.  Three modules decide this one after the other (decide,
\* decide_with_economics, evaluate), and _rank orders what they leave.
SelectedIsSound ==
  Selected # None =>
    LET c == Candidate(Selected)
        s == c.snap.scan
        q == c.snap.quote
        paid == Ask(q, Side(s)) + (IF q.feeKnown THEN q.fee ELSE 0)
    IN  /\ s.fresh /\ s.sec \in 1 .. policy.maxSec
        /\ s.lcb <= Confidence(s)
        /\ q.age \in 0 .. 15 /\ ~q.expired /\ ~q.otherContract
        /\ s.lcb - paid >= 2 /\ Confidence(s) - paid >= 5
        /\ s.lcb > Ask(q, Side(s)) + 2
        /\ EconomicallyValid(c)
        /\ \A k \in Actionable :
             LET other == Candidate(Assets[k])
             IN  /\ other.conservative <= c.conservative
                 /\ other.conservative = c.conservative => other.net <= c.net

=============================================================================
