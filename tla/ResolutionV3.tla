----------------------------- MODULE ResolutionV3 -----------------------------
(***************************************************************************)
(* The legacy program mantis_15m_resolution_v3.py: a loop that scans the   *)
(* tickers, locks one signal, assumes the user's fill, watches the trade   *)
(* and starts again.  One pass reads the clock at several places, with     *)
(* downloads, alerts and sleeps between them, and a contract may end       *)
(* between any two.                                                        *)
(*                                                                         *)
(* Time is relative, so that the loop runs for ever over finitely many     *)
(* states: a tick of the window, the window's number modulo 3, and ages    *)
(* that stop at a bound.  Prices, stops, targets and the peak move decide  *)
(* nothing and are left out, as are the two ledgers, whose failures        *)
(* ledger_event swallows.                                                  *)
(***************************************************************************)
EXTENDS Naturals, Sequences

CONSTANTS
  TickerSeq,    \* TICKERS, in scan order
  Readings,     \* ticker -> set of [dir, z]: what its bars may say
  Ticks,        \* ticks in a window
  MinElapsed,   \* MIN_ENTRY_ELAPSED_MINUTES
  NoNewEntry,   \* NO_NEW_ENTRY_MINUTES
  ForceExit,    \* FORCE_EXIT_MINUTES
  Cooldown,     \* COOLDOWN_SECONDS
  EntryDelay,   \* ASSUMED_ENTRY_DELAY_SECONDS
  MaxAge,       \* MAX_DATA_AGE_MINUTES
  Pause,        \* bound: ticks one sleep takes, at least one
  Lag,          \* bound: ticks one download or one alert takes
  Nothing       \* None

Tickers == {TickerSeq[i] : i \in 1 .. Len(TickerSeq)}

Sides == {"YES", "NO"}

\* What analyze_market, the lock and the fill return.
SignalType ==
  [dir : Sides, z : Nat, win : 0 .. 2, confidence : Nat, worth : BOOLEAN]
PendingType == [ticker : Tickers, dir : Sides, win : 0 .. 2, age : Nat]
ActiveType  == [ticker : Tickers, dir : Sides, win : 0 .. 2]

\* One pass is shorter than a window.
Bounds ==
  /\ {Ticks, MinElapsed, NoNewEntry, ForceExit, Cooldown, EntryDelay, MaxAge,
      Pause, Lag} \subseteq Nat
  /\ TickerSeq \in Seq(Tickers)
  /\ Readings \in [Tickers -> SUBSET [dir : Sides, z : Nat]]
  /\ Nothing \notin SignalType \cup PendingType \cup ActiveType
  /\ ForceExit <= NoNewEntry /\ Pause > 0
  /\ Lag * (Len(TickerSeq) + 1) + Pause < Ticks

VARIABLES
  win, tick,    \* the clock
  last,         \* last_contract_id
  left,         \* current_minutes, read at the top of the pass
  age,          \* ticker -> age of the newest bar in market_cache
  signals,      \* ticker -> Nothing or its signal of this pass
  pending,      \* pending_entry
  active,       \* active_position
  since,        \* ticks since last_exit_time
  pc, k         \* where the loop is, and the ticker it downloads

\* History: the trade the user was told to enter and not told to leave.
VARIABLE user

vars == <<win, tick, last, left, age, signals, pending, active, since, pc, k, user>>

UpTo(n, bound) == IF n > bound THEN bound ELSE n
Old == MaxAge + 1
NoSignals == [t \in Tickers |-> Nothing]

\* current_contract_window, d ticks from now.
WinIn(d)  == (win + (tick + d) \div Ticks) % 3
TickIn(d) == (tick + d) % Ticks
LeftIn(d) == Ticks - TickIn(d)

\* d ticks go by: the clock, the bars, the cooldown and the locked signal.
ClockAfter(d) == win' = WinIn(d) /\ tick' = TickIn(d)
AgeAfter(t, d) == UpTo(age[t] + d, Old)
SinceAfter(d) == UpTo(since + d, Cooldown)
PendingAfter(d) ==
  IF pending = Nothing THEN Nothing
                       ELSE [pending EXCEPT !.age = UpTo(@ + d, EntryDelay)]

Init ==
  /\ win = 0 /\ tick \in 0 .. Ticks - 1 /\ last = 0 /\ left = Ticks - tick
  /\ age = [t \in Tickers |-> Old] /\ signals = NoSignals
  /\ pending = Nothing /\ active = Nothing /\ since = Cooldown
  /\ pc = "top" /\ k = 1 /\ user = Nothing

-----------------------------------------------------------------------------
\* The user's contract is over: there is nothing left to leave.
Settled == IF user # Nothing /\ user.win # win THEN Nothing ELSE user

\* Mutant of Top: the reset forgets the locked signal.
TopForgetful ==
  /\ pc = "top"
  /\ last' = win /\ left' = LeftIn(0) /\ user' = Settled
  /\ active' = IF win # last THEN Nothing ELSE active
  /\ since' = IF win # last /\ active # Nothing THEN 0 ELSE since
  /\ pc' = "scan"
  /\ UNCHANGED <<win, tick, age, signals, pending, k>>

\* The top of a pass: when the contract is another one than at the last pass,
\* the locked signal and the trade are cleared, with no alert.
Top ==
  /\ pc = "top"
  /\ last' = win /\ left' = LeftIn(0) /\ user' = Settled
  /\ pending' = IF win # last THEN Nothing ELSE pending
  /\ active' = IF win # last THEN Nothing ELSE active
  /\ since' = IF win # last /\ active # Nothing THEN 0 ELSE since
  /\ pc' = "scan"
  /\ UNCHANGED <<win, tick, age, signals, k>>

\* The confidence, in percent, of a price z hundredths of a deviation away
\* from the anchor: the normal distribution, at the distances in use.
Confidence(z) == CASE z < 47 -> 60 [] z < 53 -> 69 [] z < 85 -> 75
                   [] z < 92 -> 81 [] OTHER -> 90

\* analyze_market, d ticks from now, on bars the newest of which is a ticks
\* old: the anchor is ready when that bar is of the window.
Signal(r, a, d) ==
  [dir |-> r.dir, z |-> r.z, win |-> WinIn(d), confidence |-> Confidence(r.z),
   worth |-> /\ a <= TickIn(d)
             /\ TickIn(d) >= MinElapsed /\ LeftIn(d) > NoNewEntry
             /\ Confidence(r.z) >= 80 /\ r.z >= 55]

\* fetch_market_data and merge_with_cache: the age of the newest bar, which a
\* download renews or leaves as it was.
Fetched(t, d) == {0, AgeAfter(t, d)}

\* The k-th ticker: refused when its newest bar is too old, or when its
\* analysis raises.
Scan ==
  /\ pc = "scan" /\ k <= Len(TickerSeq)
  /\ \E d \in 0 .. Lag :
       LET ticker == TickerSeq[k] IN
       /\ ClockAfter(d) /\ since' = SinceAfter(d) /\ pending' = PendingAfter(d)
       /\ \E a \in Fetched(ticker, d) :
            /\ age' = [t \in Tickers |-> IF t = ticker THEN a ELSE AgeAfter(t, d)]
            /\ \/ UNCHANGED signals
               \/ /\ a <= MaxAge
                  /\ \E r \in Readings[ticker] :
                       signals' = [signals EXCEPT ![ticker] = Signal(r, a, d)]
  /\ k' = k + 1
  /\ UNCHANGED <<last, left, active, pc, user>>

-----------------------------------------------------------------------------
Ends(place) == pc' = place /\ k' = 1 /\ signals' = NoSignals
Sleep == Ends("sleep")

\* After an alert, log_event: when it raises, main ends.
Logged == Sleep \/ Ends("stopped")

Decides == pc = "scan" /\ k > Len(TickerSeq)

\* A branch of the pass after d more ticks.
After(d) ==
  ClockAfter(d) /\ age' = [t \in Tickers |-> AgeAfter(t, d)]
Keeps == UNCHANGED <<last, left, user>>

\* Mutant of Hold: a locked signal is abandoned when its ticker has no data.
HoldAbandons ==
  /\ Decides
  /\ \/ signals = NoSignals
     \/ pending # Nothing /\ signals[pending.ticker] = Nothing
     \/ pending = Nothing /\ active # Nothing /\ signals[active.ticker] = Nothing
  /\ Sleep /\ pending' = Nothing
  /\ UNCHANGED <<win, tick, age, since, active>> /\ Keeps

\* No ticker has a signal, or the one that is locked or traded has none.
Hold ==
  /\ Decides
  /\ \/ signals = NoSignals
     \/ pending # Nothing /\ signals[pending.ticker] = Nothing
     \/ pending = Nothing /\ active # Nothing /\ signals[active.ticker] = Nothing
  /\ Sleep
  /\ UNCHANGED <<win, tick, age, since, pending, active>> /\ Keeps

\* pending_entry_status, d ticks from now: its contract is over, the side
\* flipped or the confidence is gone,
Cancels(s, d) ==
  \/ pending.win # WinIn(d)
  \/ s.dir # pending.dir /\ s.confidence >= 70
  \/ s.confidence < 68

Locked(s) == Decides /\ pending # Nothing /\ s # Nothing /\ s = signals[pending.ticker]

\* ... and the user is told not to enter,
Cancel ==
  \E d \in 0 .. Lag : \E s \in {signals[t] : t \in Tickers} :
    /\ Locked(s) /\ Cancels(s, d)
    /\ After(d) /\ Logged
    /\ pending' = Nothing /\ since' = 0 /\ user' = Nothing
    /\ UNCHANGED <<last, left, active>>

Filled(s, d) == ~Cancels(s, d) /\ PendingAfter(d).age >= EntryDelay

\* ... or the fill is assumed: activate_filled_position takes the direction
\* and the contract of the signal of this pass,
Fill ==
  \E d \in 0 .. Lag : \E s \in {signals[t] : t \in Tickers} :
    /\ Locked(s) /\ Filled(s, d)
    /\ After(d) /\ Logged /\ since' = SinceAfter(d)
    /\ active' = [ticker |-> pending.ticker, dir |-> s.dir, win |-> s.win]
    /\ pending' = Nothing /\ Keeps

\* ... or it is too early to say.
Wait ==
  \E d \in 0 .. Lag : \E s \in {signals[t] : t \in Tickers} :
    /\ Locked(s) /\ ~Cancels(s, d) /\ ~Filled(s, d)
    /\ After(d) /\ Sleep /\ since' = SinceAfter(d)
    /\ pending' = PendingAfter(d)
    /\ UNCHANGED active /\ Keeps

\* check_exit: another contract, the last moments of this one, or a thesis
\* that failed.
Exits(s, d) ==
  \/ active.win # WinIn(d)
  \/ LeftIn(d) <= ForceExit
  \/ s.dir # active.dir /\ s.confidence >= 82

Watched(s) ==
  /\ Decides /\ pending = Nothing /\ active # Nothing
  /\ s # Nothing /\ s = signals[active.ticker]

\* The user is told to leave, and the loop sleeps before it clears the trade.
Exit ==
  \E d \in 0 .. Lag, e \in 1 .. Pause : \E s \in {signals[t] : t \in Tickers} :
    /\ Watched(s) /\ Exits(s, d)
    /\ After(d + e) /\ (Ends("top") \/ Ends("stopped"))
    /\ active' = Nothing /\ since' = 0 /\ user' = Nothing
    /\ UNCHANGED <<last, left, pending>>

Ride ==
  \E d \in 0 .. Lag : \E s \in {signals[t] : t \in Tickers} :
    /\ Watched(s) /\ ~Exits(s, d)
    /\ After(d) /\ Sleep /\ since' = SinceAfter(d)
    /\ UNCHANGED <<pending, active>> /\ Keeps

-----------------------------------------------------------------------------
\* find_best_setup: the most confident of the signals worth it, then the
\* farthest from the anchor, then the first in the order of the scan.
Setups == {i \in 1 .. Len(TickerSeq) :
             LET s == signals[TickerSeq[i]]
             IN  s # Nothing /\ s.worth /\ s.confidence >= 80}
Best ==
  LET z(i) == signals[TickerSeq[i]].z
  IN  CHOOSE i \in Setups :
        \A j \in Setups : z(i) > z(j) \/ (z(i) = z(j) /\ i <= j)

IdlePass == Decides /\ pending = Nothing /\ active = Nothing /\ signals # NoSignals
MayEnter == left > NoNewEntry /\ since >= Cooldown /\ Setups # {}

Idle ==
  /\ IdlePass /\ ~MayEnter
  /\ Sleep
  /\ UNCHANGED <<win, tick, age, since, pending, active>> /\ Keeps

\* The signal is locked and the user told to enter: the contract is the one
\* the signal was computed in.
Lock ==
  /\ IdlePass /\ MayEnter
  /\ LET t == TickerSeq[Best] s == signals[t] IN
       /\ pending' = [ticker |-> t, dir |-> s.dir, win |-> s.win, age |-> 0]
       /\ user' = [ticker |-> t, dir |-> s.dir, win |-> s.win, late |-> s.win # last]
  /\ Logged
  /\ UNCHANGED <<win, tick, last, left, age, active, since>>

\* time.sleep.
Wake ==
  /\ pc = "sleep" /\ pc' = "top"
  /\ \E d \in 1 .. Pause :
       /\ After(d) /\ since' = SinceAfter(d) /\ pending' = PendingAfter(d)
  /\ UNCHANGED <<last, left, signals, active, k, user>>

Next ==
  \/ Top \/ Scan \/ Hold \/ Cancel \/ Fill \/ Wait \/ Exit \/ Ride
  \/ Idle \/ Lock \/ Wake

\* The loop is the program's only thread: it takes its next step.
Spec == Init /\ [][Next]_vars /\ WF_vars(Next)

-----------------------------------------------------------------------------
\* A trade the user was told to enter, and not told to leave, is the one the
\* program has locked or watches until its contract ends, whatever the
\* downloads do meanwhile (main's three states).  Left out: a trade locked by
\* a pass that began in an earlier contract, which the next reset clears.
TradeIsWatched ==
  user # Nothing /\ ~user.late /\ user.win = win /\ pc # "stopped" =>
    LET trade == IF pending # Nothing THEN pending ELSE active
    IN  trade # Nothing /\ trade.ticker = user.ticker /\ trade.win = user.win

\* A locked signal does not stay locked, and a trade does not stay open, even
\* if its data never comes back (the reset at the top of a pass).
LocksEnd == /\ pending # Nothing ~> pending = Nothing \/ pc = "stopped"
            /\ active # Nothing ~> active = Nothing \/ pc = "stopped"

\* False: the trade that is watched is on the side the user was told to take
\* (activate_filled_position).
SideIsKept == user # Nothing /\ active # Nothing => active.dir = user.dir

=============================================================================
