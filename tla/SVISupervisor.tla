----------------------------- MODULE SVISupervisor -----------------------------
(***************************************************************************)
(* One evaluation of MarketSupervisor (saaf_ventures_intelligence): three  *)
(* specialists read the candidates of a manual scan, the advisory one is   *)
(* assessed, ranked and summarised, the other two are recorded only, and   *)
(* all of it is one audit event.  audit_evidence reads the event back.     *)
(*                                                                         *)
(* Probabilities and prices are hundredths.  A row of the selection is     *)
(* [asset, contract, side, p, lcb, ask, valid, left, distance, book]; a    *)
(* placeholder has NONE for its contract and for what it does not know.    *)
(***************************************************************************)
EXTENDS Integers, FiniteSets, SequencesExt

CONSTANTS
  AssetSeq,   \* the assets, in alphabetical order
  NONE        \* None

\* The registered specialists.
Roles == [MANTIS |-> "ADVISORY", KALSHI_MARKET_IMPLIED |-> "BENCHMARK",
          REFERENCE_DISTANCE_SHADOW |-> "SHADOW"]
Agents == DOMAIN Roles

Candidate(agent, row, side, p, lcb, price, valid) ==
  [agent |-> agent, asset |-> row.asset, contract |-> row.contract, side |-> side,
   p |-> p, lcb |-> lcb, price |-> price, valid |-> valid]

Known(x) == IF x = NONE THEN 0 ELSE x

\* MantisAdapter: every row, an unknown side as an abstention.
Mantis(rows) ==
  {Candidate("MANTIS", r, IF r.side = NONE THEN "ABSTAIN" ELSE r.side,
             Known(r.p), Known(r.lcb), r.ask, r.valid) : r \in rows}

\* A forecast of a specialist that offers nothing: the likelier side.
Likelier(agent, row, yes, priced) ==
  LET p == IF yes >= 50 THEN yes ELSE 100 - yes
  IN  Candidate(agent, row, IF yes >= 50 THEN "YES" ELSE "NO", p, p,
                IF priced THEN p ELSE NONE, FALSE)

\* The two sides of a verified book imply probabilities at most 0.10 apart.
Consistent(b) ==
  b.yesBid + b.yesAsk + b.noBid + b.noAsk - 200 \in -20 .. 20

\* KalshiMarketImpliedBenchmark: the mean of the two midpoints.
Midpoint(b) == (200 + b.yesBid + b.yesAsk - b.noBid - b.noAsk) \div 4
Benchmark(rows) ==
  {Likelier("KALSHI_MARKET_IMPLIED", r, Midpoint(r.book), TRUE) :
     r \in {r \in rows : r.book # NONE /\ Consistent(r.book)}}

\* The clamped logistic of a distance in basis points, at the distances in use.
Logistic(d) == CASE d <= -15 -> 5 [] d = -5 -> 27 [] d = 0 -> 50
                 [] d = 5 -> 73 [] OTHER -> 95

\* ReferenceDistanceShadow: rows with an identity, a target and time left.
Shadow(rows) ==
  {Likelier("REFERENCE_DISTANCE_SHADOW", r, Logistic(r.distance), FALSE) :
     r \in {r \in rows : r.contract # NONE /\ r.distance # NONE /\ r.left > 0}}

Analyzed(agent, rows) == CASE agent = "MANTIS" -> Mantis(rows)
                           [] agent = "KALSHI_MARKET_IMPLIED" -> Benchmark(rows)
                           [] OTHER -> Shadow(rows)

-----------------------------------------------------------------------------
\* normalize_context: how many rows have an identity and a horizon, a
\* reference, and a book whose quotes are in order.
Identified(r) == r.contract # NONE /\ r.left > 0
QuoteValid(b) == /\ b # NONE /\ Consistent(b)
                 /\ b.yesBid <= b.yesAsk /\ b.noBid <= b.noAsk
Quality(rows) ==
  LET normalized == {r \in rows : Identified(r)}
  IN  [input |-> Cardinality(rows), normalized |-> Cardinality(normalized),
       rejected |-> Cardinality(rows \ normalized),
       reference |-> Cardinality({r \in normalized : r.distance # NONE}),
       quote |-> Cardinality({r \in normalized : QuoteValid(r.book)})]

-----------------------------------------------------------------------------
\* conservative_edge
Edge(c) == IF c.price = NONE \/ c.side = "ABSTAIN" THEN NONE ELSE c.lcb - c.price

\* RiskEngine.assess
Reasons(c) ==
  {x \in {"SPECIALIST_ABSTAINED", "ECONOMICS_NOT_VALIDATED",
          "MARKET_PRICE_UNAVAILABLE", "CONSERVATIVE_EDGE_BELOW_REVIEW_FLOOR"} :
     CASE x = "SPECIALIST_ABSTAINED"     -> c.side = "ABSTAIN"
       [] x = "ECONOMICS_NOT_VALIDATED"  -> ~c.valid
       [] x = "MARKET_PRICE_UNAVAILABLE" -> c.price = NONE
       [] OTHER                          -> Edge(c) # NONE /\ Edge(c) < 0}
Allowed(c) == Reasons(c) = {}

\* rank_opportunities: by edge less risk, then by name.
Score(c) == (IF Edge(c) = NONE THEN -100 ELSE Edge(c)) - 25 * Cardinality(Reasons(c))
Place(asset) == CHOOSE i \in DOMAIN AssetSeq : AssetSeq[i] = asset
Precedes(a, b) ==
  \/ Score(a) > Score(b)
  \/ Score(a) = Score(b) /\ Place(a.asset) < Place(b.asset)
Rank(c, all) == 1 + Cardinality({b \in all : Precedes(b, c)})

\* A row of the evidence.
Entry(c, role, rank, disposition) ==
  [agent |-> c.agent, asset |-> c.asset, contract |-> c.contract, side |-> c.side,
   p |-> c.p, role |-> role, rank |-> rank, disposition |-> disposition]

\* ConsensusEngine.summarize: the one advisory specialist has one candidate
\* per contract, which passes through.
Summary(c) ==
  [contract |-> c.contract, side |-> c.side, agents |-> {c.agent}, actionable |-> FALSE]

\* Mutant of Evaluation: every specialist is ranked.
EvaluationRanksAll(rows, failing) ==
  LET made     == UNION {Analyzed(a, rows) : a \in Agents \ failing}
      entry(c) == Entry(c, Roles[c.agent], Rank(c, made),
                        IF Allowed(c) THEN "ALLOW_REVIEW" ELSE "BLOCK")
  IN  [candidates |-> {entry(c) : c \in made}, errors |-> failing,
       quality |-> Quality(rows), consensus |-> {Summary(c) : c \in {c \in made : Allowed(c)}}]

\* MarketSupervisor.evaluate, in which the specialists of failing raise: the
\* payload of the event.
Evaluation(rows, failing) ==
  LET made     == UNION {Analyzed(a, rows) : a \in Agents \ failing}
      advisory == {c \in made : Roles[c.agent] = "ADVISORY"}
      entry(c) ==
        CASE Roles[c.agent] = "BENCHMARK" -> Entry(c, "BENCHMARK", NONE, "BENCHMARK_ONLY")
          [] Roles[c.agent] = "SHADOW"    -> Entry(c, "SHADOW", NONE, "SHADOW_ONLY")
          [] OTHER -> Entry(c, "ADVISORY", Rank(c, advisory),
                            IF Allowed(c) THEN "ALLOW_REVIEW" ELSE "BLOCK")
  IN  [candidates |-> {entry(c) : c \in made}, errors |-> failing,
       quality |-> Quality(rows),
       consensus |-> {Summary(c) : c \in {c \in advisory : Allowed(c)}}]

-----------------------------------------------------------------------------
\* audit_evidence on one event: what its roles and identities must not be.
EventErrors(e) ==
  LET summarised == UNION {s.agents : s \in e.consensus} IN
  {x \in {"CONSENSUS_MUST_BE_NON_ACTIONABLE", "BENCHMARK_INCLUDED_IN_CONSENSUS",
          "SHADOW_INCLUDED_IN_CONSENSUS", "MISSING_CONTRACT_ID",
          "SHADOW_MUST_BE_UNRANKED", "BENCHMARK_MUST_BE_UNRANKED"} :
     CASE x = "CONSENSUS_MUST_BE_NON_ACTIONABLE" -> \E s \in e.consensus : s.actionable
       [] x = "BENCHMARK_INCLUDED_IN_CONSENSUS" ->
            \E a \in summarised : Roles[a] = "BENCHMARK"
       [] x = "SHADOW_INCLUDED_IN_CONSENSUS" ->
            \E a \in summarised : Roles[a] = "SHADOW"
       [] x = "MISSING_CONTRACT_ID" -> \E c \in e.candidates : c.contract = NONE
       [] x = "SHADOW_MUST_BE_UNRANKED" ->
            \E c \in e.candidates : /\ c.role = "SHADOW"
                                    /\ c.rank # NONE \/ c.disposition # "SHADOW_ONLY"
       [] OTHER ->
            \E c \in e.candidates : /\ c.role = "BENCHMARK"
                                    /\ c.rank # NONE \/ c.disposition # "BENCHMARK_ONLY"}

=============================================================================
