------------------------------- MODULE Economics -------------------------------
(***************************************************************************)
(* Phase 7: an executable quote turned into expected values, and the       *)
(* economic refusals that follow a Phase 6 entry decision                  *)
(* (economics/models.py, decision.py, providers.py, fees.py).              *)
(*                                                                         *)
(* Money and probabilities are in cents: the payout is 100.                *)
(***************************************************************************)
EXTENDS EntryPolicy

Payout == 100

\* WEBULL_EVENT_OPENING_FEE, and book_diagnostics' tolerance.
ScheduleFee == 2
BookTolerance == 2

\* Phase7Config: the age and the margins the engine runs with.
MaxQuoteAge == 15
MinModelEdge == 5
MinLcbEdge == 2

\* ManualEconomicsProvider: what the operator's file offers for a contract.  A
\* record that does not parse or is not marked verified offers nothing; one
\* without a fee has the schedule's.
Offered(q) ==
  IF q = None \/ ~q.parses \/ ~q.verified THEN None
  ELSE [q EXCEPT !.fee = IF q.fee = None THEN ScheduleFee ELSE q.fee,
                 !.feeKnown = IF q.fee = None THEN TRUE ELSE q.feeKnown]

\* EconomicsProviderChain: the official provider returns nothing yet and the
\* proxy never does; the snapshot names the one that offered a quote, or "proxy".
LastProvider(q) == IF Offered(q) = None THEN "proxy" ELSE "verified-manual"

Ask(q, side) == IF side = "YES" THEN q.yesAsk ELSE q.noAsk

\* book_diagnostics: the two books of one contract contradict each other.
BookAnomaly(q) ==
  \/ q.yesBid > q.yesAsk \/ q.noBid > q.noAsk
  \/ q.yesBid + q.noBid > Payout + BookTolerance
  \/ q.yesAsk + q.noAsk < Payout - BookTolerance

\* _validate: any reason not to use the quote.
QuoteErrors(q) ==
  \/ \E side \in {"YES", "NO"} : Ask(q, side) \notin 1 .. Payout
  \/ q.yesBid < 0 \/ q.noBid < 0
  \/ q.age \notin 0 .. MaxQuoteAge
  \/ q.expired \/ q.otherContract \/ q.otherReference
  \/ BookAnomaly(q)

\* assess_economics: expected values on the side taken, net of the fee when it
\* is known, gross when it is not.
Assess(q, side, p, lcb) ==
  LET ask   == Ask(q, side)
      costs == IF q.feeKnown THEN q.fee ELSE 0
  IN  [status |-> IF QuoteErrors(q) THEN "INVALID" ELSE "ASSESSED",
       point  |-> p - ask - costs, lcb |-> lcb - ask - costs]

\* Mutant of DecideWithEconomics: one margin is enough.
DecideWithOneEdge(s, pol, offered) ==
  LET classified == Decide(s, pol)
      a == Assess(offered, Side(s), Confidence(s), s.lcb)
  IN  IF ~Enters(s, pol) THEN classified
      ELSE IF offered = None
             THEN Refuse("WAIT", "CONTRACT_QUOTE_UNAVAILABLE")
      ELSE FirstOf(<<
        Rung(a.status = "INVALID",
             Refuse("DATA_HOLD", "INVALID_OR_STALE_QUOTE")),
        Rung(a.point <= 0, Refuse("NO_TRADE", "NEGATIVE_EV")),
        Rung(a.point < MinModelEdge, Refuse("WAIT", "EDGE_TOO_SMALL"))>>,
        [classified EXCEPT !.reason = "ROBUST_POSITIVE_EV"])

\* decide_with_economics: the Phase 6 decision first, then the economic
\* refusals in their order.  (The edges are the expected values: the payout is
\* one unit.  The minimum return on cost is zero and follows from the rest.)
DecideWithEconomics(s, pol, offered) ==
  LET classified == Decide(s, pol)
      a == Assess(offered, Side(s), Confidence(s), s.lcb)
  IN  IF ~Enters(s, pol) THEN classified
      ELSE IF offered = None
             THEN Refuse("WAIT", "CONTRACT_QUOTE_UNAVAILABLE")
      ELSE FirstOf(<<
        Rung(a.status = "INVALID",
             Refuse("DATA_HOLD", "INVALID_OR_STALE_QUOTE")),
        Rung(a.point <= 0, Refuse("NO_TRADE", "NEGATIVE_EV")),
        Rung(a.lcb <= 0, Refuse("WAIT", "NON_ROBUST_EV")),
        Rung(a.point < MinModelEdge \/ a.lcb < MinLcbEdge,
             Refuse("WAIT", "EDGE_TOO_SMALL"))>>,
        [classified EXCEPT !.reason = "ROBUST_POSITIVE_EV"])

=============================================================================
