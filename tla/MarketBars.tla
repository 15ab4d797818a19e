------------------------------- MODULE MarketBars -------------------------------
(***************************************************************************)
(* One-minute bars of one asset as the programs hold them                  *)
(* (mantis_v4/providers/market_data.py), and the prices read out of them   *)
(* (providers/proxy.py, resolution.py, contracts.py).                      *)
(*                                                                         *)
(* A frame maps the start of each bar it holds to whether the bar was      *)
(* complete when it was fetched.  Prices are those of a path: price[t] is  *)
(* the price at minute t, where bar t opens; a complete bar closes where   *)
(* the next one opens, and the close of a bar still forming is the price   *)
(* at the moment of the fetch, taken here to be that of its start.         *)
(***************************************************************************)
EXTENDS Naturals, FiniteSets, FiniteSetsExt

CONSTANTS
  NONE,       \* no value
  FAILED,     \* retry_with_backoff gave up
  Bootstrap,  \* minutes asked for by bootstrap_period
  Refresh,    \* minutes asked for by refresh_period
  MinCandles, \* min_candles
  MaxRows,    \* max_cache_rows
  Cooldown,   \* cooldown_seconds, in minutes
  Tolerance   \* terminal_tolerance_seconds, in minutes

Empty == << >>

-----------------------------------------------------------------------------
\* What a download made at minute t may bring: any of the bars of the period,
\* the last of them forming, or an exception after every retry.
Downloads(t, period) ==
  {[b \in S |-> b < t] : S \in SUBSET {b \in 0 .. t : b + period > t}}
    \cup {FAILED}

Rows(frame) == Cardinality(DOMAIN frame)

Period(cache) == IF Rows(cache) < MinCandles THEN Bootstrap ELSE Refresh

Got(answer) == answer # FAILED /\ Rows(answer) > 0

\* A first answer that failed or is short is asked for again over the longer
\* period, unless that was the period already.
AsksAgain(cache, first) ==
  /\ first = FAILED \/ Rows(first) < MinCandles
  /\ Period(cache) # Bootstrap

Newest(frame) ==
  [b \in {b \in DOMAIN frame :
            Cardinality({c \in DOMAIN frame : c > b}) < MaxRows} |-> frame[b]]

\* A later fetch of a bar replaces an earlier one.
Replacing(fresh, cache) ==
  [b \in DOMAIN fresh \cup DOMAIN cache |->
     IF b \in DOMAIN fresh THEN fresh[b] ELSE cache[b]]

MergeCache(cache, fresh) ==
  IF Got(fresh) THEN Newest(Replacing(fresh, cache)) ELSE cache

\* get_bars at minute t: the cache and the end of the cooldown it leaves.
GetBars(cache, cool, t) ==
  IF t < cool
  THEN {[cache |-> cache, cool |-> cool]}
  ELSE {[cache |-> MergeCache(cache, IF Got(p[2]) THEN p[2] ELSE p[1]),
         cool  |-> IF p[1] = FAILED THEN t + Cooldown ELSE 0] :
          p \in {q \in Downloads(t, Period(cache)) \X Downloads(t, Bootstrap) :
                   AsksAgain(cache, q[1]) \/ q[2] = FAILED}}

-----------------------------------------------------------------------------
AtOrAfter(frame, t)  == {b \in DOMAIN frame : b >= t}
AtOrBefore(frame, t) == {b \in DOMAIN frame : b <= t}

Close(price, frame, b) == IF frame[b] THEN price[b + 1] ELSE price[b]

\* The opening price of a window, from a bar of that window.
ProxyReference(price, frame, start, end) ==
  LET inside == {b \in AtOrAfter(frame, start) : b < end}
  IN  IF inside = {} THEN NONE ELSE price[Min(inside)]

\* find_terminal_price.
Terminal(price, frame, end) ==
  LET after  == AtOrAfter(frame, end)
      before == AtOrBefore(frame, end)
  IN  IF after # {} /\ Min(after) <= end + Tolerance
      THEN [kind |-> "OPEN", bar |-> Min(after), price |-> price[Min(after)]]
      ELSE IF before # {} /\ Max(before) + Tolerance >= end
      THEN [kind |-> "CLOSE", bar |-> Max(before),
            price |-> Close(price, frame, Max(before))]
      ELSE NONE

\* SettlementRule.settle.
Settle(rule, terminal, reference) ==
  CASE rule = "AT_OR_ABOVE" -> IF terminal >= reference THEN "YES" ELSE "NO"
    [] rule = "PROXY"       -> IF terminal > reference THEN "YES" ELSE "NO"
    [] rule = "UNKNOWN"     -> NONE

=============================================================================
