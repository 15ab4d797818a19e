------------------------------ MODULE MCSelection ------------------------------
(***************************************************************************)
(* The two programs that choose a trade for the operator: Selection, with  *)
(* two assets, the frozen policy and one of the sweep, and scans and       *)
(* quotes that differ from a good one in one respect; and the legacy       *)
(* program of ResolutionV3, with two tickers.  They share no state, so     *)
(* what one does is the same whatever the other is doing; a behaviour      *)
(* moves one of them, chosen at the start, and leaves the other where it   *)
(* began.                                                                  *)
(***************************************************************************)
EXTENDS Selection

CONSTANTS
  btc, eth,          \* the assets of the run
  TickerSeq, Readings, Ticks, MinElapsed, NoNewEntry, ForceExit, CoolTicks,
  EntryDelay, MaxAge, Pause, Lag      \* see ResolutionV3

VARIABLES
  part,       \* the part that moves
  win, tick, last, left, age, signals, pending, active, since, place, at,
  user        \* see ResolutionV3

MCAssets == <<btc, eth>>

Frozen == [threshold |-> 95, lcb |-> 90, maxFrag |-> 50, maxDis |-> 5,
  maxCross |-> 35, maxCrossings |-> 4, maxSec |-> 300, minSec |-> 0,
  minZ |-> 0, earlyWait |-> 0, noTrade |-> 0]

Sweep == [Frozen EXCEPT !.lcb = None, !.maxFrag = None, !.maxCross = None,
  !.maxCrossings = None, !.maxSec = 900, !.noTrade = 30, !.earlyWait = 600]

MCPolicies == {Frozen, Sweep}

Scanned(g, t) == LET c == Channels(g, t) IN
  [fresh |-> TRUE, reference |-> TRUE, contract |-> TRUE, history |-> TRUE,
   finite |-> TRUE, sec |-> 300, p |-> c.p, lcb |-> c.lcb, dis |-> c.dis,
   z |-> 2, frag |-> 50, cross |-> 35, crossings |-> 4]

Good == Scanned(97, 95)

Kinds ==
  {Good, Scanned(94, 98), Scanned(97, 92), Scanned(4, 6), Scanned(95, 90), Scanned(95, 89),
   [Good EXCEPT !.fresh = FALSE], [Good EXCEPT !.reference = FALSE],
   [Good EXCEPT !.contract = FALSE], [Good EXCEPT !.history = FALSE],
   [Good EXCEPT !.finite = FALSE], [Good EXCEPT !.frag = 51],
   [Good EXCEPT !.cross = 36], [Good EXCEPT !.crossings = 5],
   [Good EXCEPT !.z = 0]}

\* Every kind when the window has just opened, a few before it and at its end.
Early == {Good, Scanned(4, 6), [Good EXCEPT !.fresh = FALSE], [Good EXCEPT !.cross = 36]}
Late  == {Good, Scanned(97, 92), [Good EXCEPT !.crossings = 5]}

MCScans == Kinds \cup {[g EXCEPT !.sec = 601] : g \in Early}
                 \cup {[g EXCEPT !.sec = 30] : g \in Late}

MCOtherScans == {Good, Scanned(98, 96)}

Quote == [parses |-> TRUE, verified |-> TRUE, yesAsk |-> 88, yesBid |-> 86,
  noAsk |-> 14, noBid |-> 11, age |-> 15, expired |-> FALSE,
  otherContract |-> FALSE, otherReference |-> FALSE, fee |-> None,
  feeKnown |-> FALSE]

MCQuotes == {None, Quote,
  [Quote EXCEPT !.yesAsk = 85, !.yesBid = 80, !.noAsk = 16],
  [Quote EXCEPT !.yesAsk = 98], [Quote EXCEPT !.yesAsk = 89],
  [Quote EXCEPT !.age = 16], [Quote EXCEPT !.age = -1],
  [Quote EXCEPT !.expired = TRUE], [Quote EXCEPT !.otherContract = TRUE],
  [Quote EXCEPT !.verified = FALSE], [Quote EXCEPT !.yesBid = 89],
  [Quote EXCEPT !.fee = 6, !.feeKnown = TRUE],
  [Quote EXCEPT !.yesAsk = 91, !.fee = 0, !.feeKnown = TRUE],
  [Quote EXCEPT !.fee = 6]}

MCOtherQuotes == {None, Quote, [Quote EXCEPT !.yesAsk = 90, !.yesBid = 80]}

-----------------------------------------------------------------------------
Reading(dir, z) == [dir |-> dir, z |-> z]

\* Of btc, every confidence that some branch tells apart; of eth, a rival.
MCReadings == [t \in {btc, eth} |->
  IF t = btc
    THEN {Reading("YES", 30), Reading("YES", 100), Reading("NO", 50),
          Reading("NO", 60), Reading("NO", 90), Reading("NO", 100)}
    ELSE {Reading("YES", 90), Reading("NO", 90)}]

V3 == INSTANCE ResolutionV3 WITH
        Nothing <- None, Cooldown <- CoolTicks, pc <- place, k <- at

ASSUME V3Assumption == V3!Bounds

legacyVars ==
  <<win, tick, last, left, age, signals, pending, active, since, place, at, user>>

\* Which policy is in use, and when the legacy program starts, is of no
\* interest to the other part.
BothInit ==
  /\ SelInit /\ V3!Init
  /\ \/ part = "selector" /\ tick = 0
     \/ part = "legacy" /\ policy = Frozen

Selector(action) == part = "selector" /\ action /\ UNCHANGED <<part, legacyVars>>
Legacy(action)   == part = "legacy" /\ action /\ UNCHANGED <<part, entryVars, snapshots>>

BothNext ==
  \/ \E s \in Scans, q \in Quotes : Selector(ScanFirst(s, q))
  \/ \E a \in DOMAIN snapshots, s \in OtherScans, q \in OtherQuotes :
       Selector(ScanOther(a, s, q))
  \/ Legacy(V3!Top)
  \/ Legacy(V3!Scan)
  \/ Legacy(V3!Hold)
  \/ Legacy(V3!Cancel)
  \/ Legacy(V3!Fill)
  \/ Legacy(V3!Wait)
  \/ Legacy(V3!Exit)
  \/ Legacy(V3!Ride)
  \/ Legacy(V3!Idle)
  \/ Legacy(V3!Lock)
  \/ Legacy(V3!Wake)

\* The fairness of ResolutionV3!Spec: the loop takes its next step.
BothSpec ==
  /\ BothInit /\ [][BothNext]_<<part, entryVars, snapshots, legacyVars>>
  /\ WF_legacyVars(Legacy(V3!Next))

\* A trade the user was told to enter is locked or watched (ResolutionV3).
TradeIsWatched == V3!TradeIsWatched

\* A locked signal and an open trade end (ResolutionV3).
LocksEnd == V3!LocksEnd

=============================================================================
