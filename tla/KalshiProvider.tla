----------------------------- MODULE KalshiProvider -----------------------------
(***************************************************************************)
(* KalshiEventMarketProvider (mantis_v4/economics/kalshi.py): the market   *)
(* of an asset's window is discovered, verified and cached; each quote     *)
(* reads its status again before its book.                                 *)
(*                                                                         *)
(* Every request is a step that is answered or raises; the retries of the  *)
(* client (get) are part of it and only take time.  The clock counts ticks *)
(* of five seconds, Slots of them to a window.  The exchange has one       *)
(* market per asset and window, which is listed, opens, and closes at the  *)
(* end of the window or before; its series and its rules are the right     *)
(* ones.                                                                   *)
(***************************************************************************)
EXTENDS Integers, FiniteSetsExt

CONSTANTS
  EventAssets,
  Moody,         \* bound: assets whose market may open late or close early
  None,          \* no price, no time
  Books,         \* [EventAssets -> the order books it may show: the bids of both sides]
  Slots,         \* ticks in a window
  MaxAge,        \* quote_max_age_seconds, in ticks
  InitAttempts,  \* initialization_attempts
  MaxTime,       \* bound: ticks the clock passes through
  MaxFailures    \* bound: requests that raise

VARIABLES
  clock,     \* the clock
  market,    \* [EventAssets -> status of the market of the current window]
  cache,     \* _mapping_cache: pairs of asset and window
  series,    \* _series_cache: assets
  inst,      \* the instant the caller captured
  asked,     \* the asset whose quote is being asked for
  step,      \* the request under way, or "none"
  waits,     \* requests that found the market still initializing
  told,      \* status in the market object being verified
  book,      \* the order book received
  received,  \* when it was received
  answer,    \* the result of the last get_quote
  failures,  \* requests that raised
  closedAt   \* history: when each market closed before its window ended

provider == <<cache, series, asked, step, waits, told, book, received, answer>>

Window(t) == t \div Slots

\* What the exchange says of the market of the caller's window.
Status(a) == IF Window(inst) = Window(clock) THEN market[a] ELSE "closed"

\* The markets at the start of a window.
Listings ==
  {m \in [EventAssets -> {"absent", "active"}] : \A a \in EventAssets \ Moody : m[a] = "active"}

ProviderInit ==
  /\ clock = 0 /\ market \in Listings
  /\ cache = {} /\ series = {}
  /\ inst = 0 /\ asked \in EventAssets /\ step = "none" /\ waits = 0 /\ told = None
  /\ book = None /\ received = None /\ answer = None
  /\ failures = 0 /\ closedAt = [a \in EventAssets |-> None]

-----------------------------------------------------------------------------
\* The exchange lists a market, opens it, and may close it early.
Opens(a) ==
  /\ \/ market[a] = "absent" /\ market' = [market EXCEPT ![a] = "initialized"]
     \/ market[a] = "initialized" /\ market' = [market EXCEPT ![a] = "active"]
  /\ UNCHANGED <<clock, inst, provider, failures, closedAt>>

Closes(a) ==
  /\ market[a] = "active"
  /\ market' = [market EXCEPT ![a] = "closed"]
  /\ closedAt' = [closedAt EXCEPT ![a] = clock]
  /\ UNCHANGED <<clock, inst, provider, failures>>

ClockTicks ==
  /\ clock < MaxTime /\ clock' = clock + 1
  /\ IF Window(clock') = Window(clock) THEN UNCHANGED <<market, closedAt>>
     ELSE /\ market' \in Listings
          /\ closedAt' = [a \in EventAssets |-> None]
  /\ UNCHANGED <<inst, provider, failures>>

-----------------------------------------------------------------------------
\* invalidate(asset): every mapping of the asset goes.
Without(a) == {m \in cache : m[1] # a}

\* get_quote returns; what it kept aside goes.
Return(status, mapped) ==
  /\ step' = "none"
  /\ answer' = [status |-> status, mapped |-> mapped, book |-> book,
                received |-> received]
  /\ waits' = 0 /\ told' = None /\ book' = None /\ received' = None

NotOpen(status) ==
  IF status = "initialized" THEN "MARKET_INITIALIZING" ELSE "MARKET_UNAVAILABLE"

\* get_quote: a cached mapping of this window is used, any other is dropped.
Ask(a) ==
  /\ asked' = a /\ waits' = 0 /\ told' = None /\ book' = None /\ received' = None
  /\ answer' = None
  /\ IF <<a, Window(inst)>> \in cache
       THEN step' = "status" /\ UNCHANGED cache
       ELSE /\ step' = IF a \in series THEN "markets" ELSE "series"
            /\ cache' = Without(a)
  /\ UNCHANGED series

\* discover: the series object, kept for good.
SeriesReply ==
  /\ step = "series"
  /\ step' = "markets" /\ series' = series \cup {asked}
  /\ UNCHANGED <<cache, asked, waits, told, book, received, answer>>

\* The listing.  A market that is not open yet is asked for once more.
MarketsReply ==
  /\ step = "markets"
  /\ LET s == Status(asked)
     IN  IF s = "initialized" /\ waits + 1 < InitAttempts
           THEN waits' = waits + 1 /\ UNCHANGED <<step, answer, told, book, received>>
         ELSE IF s = "active"
           THEN step' = "market" /\ UNCHANGED <<waits, answer, told, book, received>>
         ELSE Return(NotOpen(s), FALSE)
  /\ UNCHANGED <<cache, series, asked>>

\* The market and event objects are verified, and the mapping is cached.
MarketReply ==
  /\ step = "market"
  /\ step' = "event" /\ told' = Status(asked)
  /\ UNCHANGED <<cache, series, asked, waits, book, received, answer>>

EventReply ==
  /\ step = "event"
  /\ IF told = "active"
       THEN /\ cache' = cache \cup {<<asked, Window(inst)>>}
            /\ step' = "status" /\ waits' = 0 /\ told' = None
            /\ UNCHANGED <<answer, book, received>>
       ELSE Return("MAPPING_INVALID", FALSE) /\ UNCHANGED cache
  /\ UNCHANGED <<series, asked>>

\* Mutant of StatusReply: the status is read and not looked at.
StatusIgnored ==
  /\ step = "status"
  /\ step' = "book"
  /\ UNCHANGED <<cache, series, asked, waits, told, book, received, answer>>

\* get_quote: the status once more, so that a market closed early does not
\* lend its identity to a fresh book.
StatusReply ==
  /\ step = "status"
  /\ LET s == Status(asked)
     IN  IF s = "active"
           THEN step' = "book" /\ UNCHANGED <<cache, waits, told, book, received, answer>>
           ELSE Return(NotOpen(s), TRUE) /\ cache' = Without(asked)
  /\ UNCHANGED <<series, asked>>

\* parse_orderbook: both sides are bids; the ask of one is what the best bid of
\* the other leaves of a dollar.
AskAgainst(bids) == IF bids = {} THEN None ELSE 10000 - Max(bids)

BookReply ==
  /\ step = "book"
  /\ step' = "age" /\ received' = clock
  /\ \E bids \in Books[asked] :
       book' = [yes |-> AskAgainst(bids.no), no |-> AskAgainst(bids.yes)]
  /\ UNCHANGED <<cache, series, asked, waits, told, answer>>

\* fresh_at: how old the quote is at an instant; one from after it is new.
FreshAt(t, got) == t < got + MaxAge + 1

\* The quote as it is returned.
Quoted ==
  /\ step = "age"
  /\ Return(IF ~FreshAt(clock, received) THEN "QUOTE_STALE"
            ELSE IF None \in {book.yes, book.no} THEN "BOOK_SIDE_MISSING"
            ELSE "READY", TRUE)
  /\ UNCHANGED <<cache, series, asked>>

Requests == {"series", "markets", "market", "event", "status", "book"}

\* A request raises, having been tried again or not: within discover nothing
\* was cached yet, after it the mapping is dropped.
Raises ==
  /\ step \in Requests /\ failures < MaxFailures
  /\ failures' = failures + 1
  /\ LET mapped == step \in {"status", "book"}
     IN  /\ Return("FAILED", mapped)
         /\ cache' = IF mapped THEN Without(asked) ELSE cache
  /\ UNCHANGED <<series, asked>>

\* The listing shows two markets of the window.
Ambiguous ==
  /\ step = "markets" /\ failures < MaxFailures
  /\ failures' = failures + 1
  /\ Return("MAPPING_AMBIGUOUS", FALSE)
  /\ UNCHANGED <<cache, series, asked>>

Answered ==
  /\ \/ SeriesReply \/ MarketsReply \/ MarketReply \/ EventReply
     \/ StatusReply \/ BookReply \/ Quoted
  /\ UNCHANGED <<clock, market, inst, failures, closedAt>>

Refused ==
  /\ Raises \/ Ambiguous
  /\ UNCHANGED <<clock, market, inst, closedAt>>

=============================================================================
